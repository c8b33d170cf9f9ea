------------------------- MODULE ProcessTableProofs -------------------------
(***************************************************************************)
(* Proofs about ProcessTable for every set of PIDs, number of processes,   *)
(* tolerance, and pattern of reuse.                                        *)
(***************************************************************************)
EXTENDS ProcessTable, SequenceTheorems, WellFoundedInduction, TLAPS

(***************************************************************************)
(* The inductive invariant, in named parts.                                *)
(***************************************************************************)

\* A running process is the newest holder of its PID; a creator held its PID at
\* least until its child was born.
MachineInv ==
  /\ \A i \in alive : \A j \in Instances : i < j => pidOf[j] # pidOf[i]
  /\ \A i \in Instances : parent[i] # 0 =>
       /\ parent[i] \in Instances /\ parent[i] < i
       /\ \A j \in Instances : parent[i] < j /\ j <= i => pidOf[j] # pidOf[parent[i]]

\* The owner of a socket held its PID at least until the socket was created.
SocketInv ==
  /\ socket # None =>
       /\ socket.of \in Instances
       /\ socket.at # None =>
            /\ socket.of <= socket.at /\ socket.at <= Born
            /\ \A j \in Instances :
                 socket.of < j /\ j <= socket.at => pidOf[j] # pidOf[socket.of]
  /\ nm # "idle" => socket # None
  /\ nm = "observe" => found \in Instances

\* A snapshot has one instance per PID, and every running one shown before.
SnapshotInv ==
  /\ \A i, j \in snapshot : pidOf[i] = pidOf[j] => i = j
  /\ pm = "apply" => alive \cap applied \subseteq snapshot

\* The inductive invariant.
IInv ==
  /\ TypeOK /\ MachineInv /\ SocketInv /\ SnapshotInv
  /\ IndexAgrees /\ DisplacedByPredecessor

(***************************************************************************)
(* Lemmas about the operators                                              *)
(***************************************************************************)

\* A bounded, non-empty set of numbers has a greatest element.
LEMMA HasGreatest ==
  ASSUME NEW S, NEW b \in Nat, S \subseteq 0..b, S # {}
  PROVE  \E k \in S : \A j \in S : j <= k
<1> DEFINE T == {b - k : k \in S}
<1>1. T \subseteq Nat /\ T # {}
  <2>1. \A k \in S : b - k \in Nat
    OBVIOUS
  <2> QED BY <2>1
<1>2. PICK x \in T : \A y \in T : ~ (<<y, x>> \in OpToRel(<,Nat))
  <2> HIDE DEF T
  <2> QED BY <1>1, WFMin, NatLessThanWellFounded
<1>3. \A y \in T : ~(y < x)
  <2> HIDE DEF T
  <2> SUFFICES ASSUME NEW y \in T, y < x PROVE FALSE
    OBVIOUS
  <2>1. y \in Nat /\ x \in Nat
    BY <1>1
  <2>2. <<y, x>> \in {ss \in Nat \X Nat : ss[1] < ss[2]}
    BY <2>1
  <2>3. {ss \in Nat \X Nat : ss[1] < ss[2]} = OpToRel(<,Nat)
    BY Zenon DEF OpToRel
  <2> QED BY <2>2, <2>3, <1>2, Zenon
<1>4. PICK k \in S : x = b - k
  OBVIOUS
<1>5. ASSUME NEW j \in S PROVE j <= k
  <2>1. b - j \in T
    OBVIOUS
  <2>2. ~(b - j < x)
    BY <2>1, <1>3
  <2> QED BY <2>2, <1>4
<1> QED BY <1>5

\* Newest is the greatest element of a set of instances.
LEMMA NewestIsGreatest ==
  ASSUME Born \in Nat, NEW S, S \subseteq Instances, S # {}
  PROVE  Newest(S) \in S /\ \A j \in S : j <= Newest(S)
<1>1. S \subseteq 0..Born
  BY DEF Instances
<1>2. \E k \in S : \A j \in S : j <= k
  BY <1>1, HasGreatest
<1> QED BY <1>2 DEF Newest

\* What the type invariant says of the two sequences.
LEMMA SequenceTypes ==
  ASSUME TypeOK
  PROVE  /\ Born \in Nat /\ Len(parent) = Born
         /\ \A i \in Instances : i \in Nat /\ pidOf[i] \in Pids /\ parent[i] \in Nat
<1>1. Born \in Nat
  BY LenProperties DEF TypeOK, Born
<1>2. ASSUME NEW i \in Instances
      PROVE  i \in Nat /\ pidOf[i] \in Pids /\ parent[i] \in Nat
  BY <1>1, <1>2, ElementOfSeq DEF TypeOK, Instances, Born
<1> QED BY <1>1, <1>2 DEF TypeOK

\* Start appends an instance and leaves the others as they are.
LEMMA StartAppends ==
  ASSUME TypeOK, NEW p \in Pids, NEW creator \in 0..MaxBirths, Start(p, creator)
  PROVE  /\ pidOf' \in Seq(Pids) /\ parent' \in Seq(Nat)
         /\ Born' = Born + 1 /\ Len(parent') = Born'
         /\ Instances' = Instances \cup {Born + 1} /\ Born + 1 \notin Instances
         /\ \A i \in Instances : pidOf'[i] = pidOf[i] /\ parent'[i] = parent[i]
         /\ pidOf'[Born + 1] = p /\ parent'[Born + 1] = creator
<1>1. Born \in Nat /\ Len(parent) = Born
  BY SequenceTypes
<1>2. creator \in Nat
  BY TableAssumption DEF TableAssumption
<1>3. /\ Append(pidOf, p) \in Seq(Pids) /\ Len(Append(pidOf, p)) = Born + 1
      /\ \A i \in 1..Born : Append(pidOf, p)[i] = pidOf[i]
      /\ Append(pidOf, p)[Born + 1] = p
  BY AppendProperties DEF TypeOK, Born
<1>4. /\ Append(parent, creator) \in Seq(Nat) /\ Len(Append(parent, creator)) = Born + 1
      /\ \A i \in 1..Born : Append(parent, creator)[i] = parent[i]
      /\ Append(parent, creator)[Born + 1] = creator
  BY <1>1, <1>2, AppendProperties DEF TypeOK
<1>5. pidOf' = Append(pidOf, p) /\ parent' = Append(parent, creator)
  BY DEF Start
<1>6. Born' = Born + 1
  BY <1>3, <1>5 DEF Born
<1>7. 1..(Born + 1) = (1..Born) \cup {Born + 1} /\ Born + 1 \notin 1..Born
  BY <1>1
<1> QED BY <1>1, <1>3, <1>4, <1>5, <1>6, <1>7 DEF Instances

(***************************************************************************)
(* Every part is preserved                                                 *)
(***************************************************************************)

\* The steps that leave the machine, the table and the process monitor alone.
Bystander ==
  \/ \E i \in Instances : Attach(i) \/ Resolve(i)
  \/ Closed \/ Poll \/ Look \/ CannotResolve \/ Attribute
  \/ \E p \in Pids : RetryAllowed(p)

\* The case split of the invariance proofs.
LEMMA NextCases ==
  ASSUME [Next]_vars
  PROVE  \/ \E p \in Pids, creator \in 0..MaxBirths : Start(p, creator)
         \/ \E i \in Instances : Exit(i)
         \/ \E i \in Instances, stamped \in BOOLEAN : Open(i, stamped)
         \/ Collect \/ ApplySnapshot \/ Observe
         \/ Bystander
         \/ UNCHANGED vars
BY DEF Next, ProcessMonitor, NetworkMonitor, Bystander

\* What a bystander leaves alone.
LEMMA BystanderFrame ==
  ASSUME Bystander
  PROVE  /\ UNCHANGED <<machine, table, procMon, applied>>
         /\ Born' = Born /\ Instances' = Instances
<1>1. UNCHANGED <<machine, table, procMon, applied>>
  BY DEF Bystander, Attach, Resolve, Closed, Poll, Look, CannotResolve, Attribute,
         RetryAllowed, netMon
<1> QED BY <1>1 DEF machine, Born, Instances

\* Every step keeps every variable's type.
LEMMA TypeStep ==
  ASSUME TypeOK, SocketInv, IndexAgrees, [Next]_vars
  PROVE  TypeOK'
<1>0. Born \in Nat /\ \A i \in Instances : i \in Nat /\ pidOf[i] \in Pids
  BY SequenceTypes
<1>1. CASE \E p \in Pids, creator \in 0..MaxBirths : Start(p, creator)
  <2> PICK p \in Pids, creator \in 0..MaxBirths : Start(p, creator)
    BY <1>1
  <2>1. /\ pidOf' \in Seq(Pids) /\ parent' \in Seq(Nat) /\ Len(parent') = Born'
        /\ Instances' = Instances \cup {Born + 1}
    BY StartAppends
  <2> QED BY <2>1 DEF Start, TypeOK, table, procMon, netMon
<1>2. CASE \E i \in Instances : Exit(i)
  BY <1>2 DEF TypeOK, Exit, table, procMon, netMon, Born, Instances
<1>3. CASE \E i \in Instances, stamped \in BOOLEAN : Open(i, stamped)
  <2> PICK i \in Instances, stamped \in BOOLEAN : Open(i, stamped)
    BY <1>3
  <2>1. socket' \in Socket
    BY <1>0 DEF Open, Socket
  <2> QED BY <2>1 DEF Open, TypeOK, machine, table, procMon, Born, Instances
<1>4. CASE Collect
  BY <1>4 DEF Collect, TypeOK, machine, table, netMon, Born, Instances
<1>5. CASE ApplySnapshot
  <2>1. byPid' \in [Pids -> Nat \cup {None}]
    <3>1. ASSUME NEW p \in Pids PROVE Index(snapshot)[p] \in Nat \cup {None}
      <4>1. Holder(snapshot, p) \subseteq Nat
        BY <1>0 DEF Holder, TypeOK
      <4> QED BY <4>1 DEF Index
    <3> QED BY <1>5, <3>1 DEF ApplySnapshot, Incoming, Index
  <2>2. /\ current' \subseteq Instances /\ exited' \subseteq Instances
        /\ attached' \subseteq Instances /\ applied' \subseteq Instances
    BY <1>5 DEF ApplySnapshot, Incoming, Live, TypeOK
  <2> QED BY <1>5, <2>1, <2>2 DEF ApplySnapshot, TypeOK, machine, netMon, Born, Instances
<1>6. CASE Observe
  <2>1. found \in Instances /\ found \in Nat /\ pidOf[found] \in Pids
    BY <1>0, <1>6 DEF Observe, SocketInv
  <2>2. /\ current' \subseteq Instances /\ exited' \subseteq Instances
        /\ byPid' \in [Pids -> Nat \cup {None}]
    <3>1. CASE Held(found)
      BY <1>6, <3>1 DEF Observe, TypeOK, table
    <3>2. CASE ~Held(found)
      <4>1. Predecessor(pidOf[found]) \subseteq Instances
        BY <2>1 DEF Predecessor, IndexAgrees, TypeOK
      <4> QED BY <1>6, <2>1, <3>2, <4>1 DEF Observe, TypeOK
    <3> QED BY <3>1, <3>2
  <2> QED BY <1>6, <2>2 DEF Observe, TypeOK, machine, procMon, Born, Instances
<1>7. CASE Bystander
  <2>1. /\ UNCHANGED <<machine, table, procMon, applied>>
        /\ Born' = Born /\ Instances' = Instances
    BY <1>7, BystanderFrame
  <2>2. /\ attached' \subseteq Instances
        /\ nm' \in {"idle", "look", "resolve", "observe", "attribute"}
        /\ socket' \in Socket \cup {None} /\ found' \in Nat \cup {None}
        /\ unresolvable' \subseteq Pids /\ owner' \in Nat \cup {None}
    <3>1. CASE \E i \in Instances : Attach(i)
      BY <3>1 DEF Attach, TypeOK, netMon
    <3>2. CASE \E i \in Instances : Resolve(i)
      BY <1>0, <3>2 DEF Resolve, TypeOK
    <3>3. CASE Closed \/ Poll \/ Look \/ \E p \in Pids : RetryAllowed(p)
      BY <3>3 DEF Closed, Poll, Look, RetryAllowed, TypeOK
    <3>4. CASE CannotResolve
      <4>1. SocketPid \in Pids
        BY <1>0, <3>4 DEF CannotResolve, SocketInv, SocketPid
      <4> QED BY <3>4, <4>1 DEF CannotResolve, TypeOK
    <3>5. CASE Attribute
      <4>1. Eligible(socket) \subseteq Instances
        BY DEF Eligible, Candidates, TypeOK
      <4>2. OwnerOf(socket) \in Nat \cup {None}
        BY <1>0, <4>1, NewestIsGreatest DEF OwnerOf
      <4> QED BY <3>5, <4>2 DEF Attribute, TypeOK
    <3> QED BY <1>7, <3>1, <3>2, <3>3, <3>4, <3>5 DEF Bystander
  <2> QED BY <2>1, <2>2 DEF TypeOK, machine, table, procMon
<1>8. CASE UNCHANGED vars
  BY <1>8 DEF TypeOK, vars, machine, table, procMon, netMon, Born, Instances
<1> QED BY <1>1, <1>2, <1>3, <1>4, <1>5, <1>6, <1>7, <1>8, NextCases

\* A starting process is the newest holder of its PID, and its creator is running.
LEMMA MachineStep ==
  ASSUME TypeOK, MachineInv, [Next]_vars
  PROVE  MachineInv'
<1>0. /\ Born \in Nat
      /\ \A i \in Instances : i \in Nat /\ pidOf[i] \in Pids /\ parent[i] \in Nat
  BY SequenceTypes
<1>1. CASE \E p \in Pids, creator \in 0..MaxBirths : Start(p, creator)
  <2> PICK p \in Pids, creator \in 0..MaxBirths : Start(p, creator)
    BY <1>1
  <2>1. /\ Born' = Born + 1
        /\ Instances' = Instances \cup {Born + 1} /\ Born + 1 \notin Instances
        /\ \A i \in Instances : pidOf'[i] = pidOf[i] /\ parent'[i] = parent[i]
        /\ pidOf'[Born + 1] = p /\ parent'[Born + 1] = creator
    BY StartAppends
  <2>2. /\ \A i \in alive : pidOf[i] # p
        /\ alive' = alive \cup {Born + 1}
        /\ creator \in alive \cup {0}
    BY DEF Start
  <2>3. \A i \in Instances : i < Born + 1
    BY <1>0 DEF Instances
  <2>4. alive \subseteq Instances
    BY DEF TypeOK
  <2>5. ASSUME NEW i \in alive', NEW j \in Instances', i < j
        PROVE  pidOf'[j] # pidOf'[i]
    <3>1. i \in alive
      BY <1>0, <2>1, <2>2, <2>3, <2>5
    <3>2. CASE j = Born + 1
      BY <2>1, <2>2, <2>4, <3>1, <3>2
    <3>3. CASE j \in Instances
      BY <2>1, <2>4, <2>5, <3>1, <3>3 DEF MachineInv
    <3> QED BY <2>1, <3>2, <3>3
  <2>6. ASSUME NEW i \in Instances', parent'[i] # 0
        PROVE  /\ parent'[i] \in Instances' /\ parent'[i] < i
               /\ \A j \in Instances' :
                    parent'[i] < j /\ j <= i => pidOf'[j] # pidOf'[parent'[i]]
    <3>1. CASE i = Born + 1
      <4>1. creator \in alive /\ creator \in Instances
        BY <2>1, <2>2, <2>4, <2>6, <3>1
      <4>2. ASSUME NEW j \in Instances', creator < j PROVE pidOf'[j] # pidOf'[creator]
        BY <2>2, <2>5, <4>1, <4>2
      <4> QED BY <2>1, <2>3, <3>1, <4>1, <4>2
    <3>2. CASE i \in Instances
      <4>1. parent'[i] = parent[i] /\ parent[i] \in Instances /\ parent[i] < i
        BY <2>1, <2>6, <3>2 DEF MachineInv
      <4>2. ASSUME NEW j \in Instances', parent[i] < j, j <= i
            PROVE  pidOf'[j] # pidOf'[parent[i]]
        <5>1. j \in Instances
          BY <1>0, <2>1, <2>3, <3>2, <4>2
        <5> QED BY <2>1, <2>6, <3>2, <4>1, <4>2, <5>1 DEF MachineInv
      <4> QED BY <2>1, <4>1, <4>2
    <3> QED BY <2>1, <3>1, <3>2
  <2> QED BY <2>5, <2>6 DEF MachineInv
<1>2. CASE \E i \in Instances : Exit(i)
  <2>1. alive' \subseteq alive /\ UNCHANGED <<pidOf, parent>>
    BY <1>2 DEF Exit
  <2> QED BY <2>1 DEF MachineInv, Born, Instances
<1>3. CASE UNCHANGED machine
  BY <1>3 DEF machine, MachineInv, Born, Instances
<1>4. CASE \/ \E i \in Instances, stamped \in BOOLEAN : Open(i, stamped)
           \/ Collect \/ ApplySnapshot \/ Observe \/ Bystander \/ UNCHANGED vars
  <2>1. UNCHANGED machine
    BY <1>4, BystanderFrame DEF Open, Collect, ApplySnapshot, Observe, vars, machine
  <2> QED BY <1>3, <2>1
<1> QED BY <1>1, <1>2, <1>4, NextCases

\* A socket is opened by the running holder of its PID.
LEMMA SocketStep ==
  ASSUME TypeOK, MachineInv, SocketInv, [Next]_vars
  PROVE  SocketInv'
<1>0. Born \in Nat /\ \A i \in Instances : i \in Nat
  BY SequenceTypes
<1>1. CASE \E p \in Pids, creator \in 0..MaxBirths : Start(p, creator)
  <2> PICK p \in Pids, creator \in 0..MaxBirths : Start(p, creator)
    BY <1>1
  <2>1. /\ Born' = Born + 1
        /\ Instances' = Instances \cup {Born + 1} /\ Born + 1 \notin Instances
        /\ \A i \in Instances : pidOf'[i] = pidOf[i]
    BY StartAppends
  <2>2. UNCHANGED <<nm, socket, found>>
    BY DEF Start, netMon
  <2>3. ASSUME socket # None, socket.at # None
        PROVE  /\ socket.of <= socket.at /\ socket.at <= Born'
               /\ \A j \in Instances' :
                    socket.of < j /\ j <= socket.at => pidOf'[j] # pidOf'[socket.of]
    <3>1. /\ socket.of \in Instances /\ socket.at \in Nat
          /\ socket.of <= socket.at /\ socket.at <= Born
      BY <2>3 DEF SocketInv, TypeOK, Socket
    <3>2. ASSUME NEW j \in Instances', socket.of < j, j <= socket.at
          PROVE  pidOf'[j] # pidOf'[socket.of]
      <4>1. j \in Instances
        BY <1>0, <2>1, <3>1, <3>2
      <4> QED BY <2>1, <2>3, <3>1, <3>2, <4>1 DEF SocketInv
    <3> QED BY <1>0, <2>1, <3>1, <3>2
  <2> QED BY <2>1, <2>2, <2>3 DEF SocketInv
<1>2. CASE \E i \in Instances, stamped \in BOOLEAN : Open(i, stamped)
  <2> PICK i \in Instances, stamped \in BOOLEAN : Open(i, stamped)
    BY <1>2
  <2>1. /\ i \in alive /\ socket' = [of |-> i, at |-> IF stamped THEN Born ELSE None]
        /\ UNCHANGED <<pidOf, nm, found>>
    BY DEF Open, machine
  <2>2. socket = None
    BY DEF Open
  <2>3. nm = "idle"
    BY <2>2 DEF SocketInv
  <2>4. i <= Born
    BY <1>0 DEF Instances
  <2>5. socket'.of = i /\ (socket'.at # None => socket'.at = Born)
    BY <2>1
  <2>6. Born' = Born /\ Instances' = Instances
    BY <2>1 DEF Born, Instances
  <2>7. \A j \in Instances : i < j => pidOf[j] # pidOf[i]
    BY <2>1 DEF MachineInv
  <2> QED BY <1>0, <2>1, <2>3, <2>4, <2>5, <2>6, <2>7 DEF SocketInv
<1>3. CASE UNCHANGED <<pidOf, nm, socket, found>>
  BY <1>3 DEF SocketInv, Born, Instances
<1>4. CASE Observe
  BY <1>4 DEF Observe, machine, SocketInv, Born, Instances
<1>5. CASE Bystander
  <2>1. UNCHANGED pidOf /\ Born' = Born /\ Instances' = Instances
    BY <1>5, BystanderFrame DEF machine
  <2>2. CASE \/ Closed \/ Poll \/ Look \/ CannotResolve \/ Attribute
             \/ \E i \in Instances : Attach(i)
             \/ \E p \in Pids : RetryAllowed(p)
    BY <2>1, <2>2 DEF Closed, Poll, Look, CannotResolve, Attribute, Attach, RetryAllowed,
                      netMon, SocketInv
  <2>3. CASE \E i \in Instances : Resolve(i)
    BY <2>1, <2>3 DEF Resolve, SocketInv
  <2> QED BY <1>5, <2>2, <2>3 DEF Bystander
<1>6. CASE (\E i \in Instances : Exit(i)) \/ Collect \/ ApplySnapshot \/ UNCHANGED vars
  <2>1. UNCHANGED <<pidOf, nm, socket, found>>
    BY <1>6 DEF Exit, Collect, ApplySnapshot, vars, machine, netMon
  <2> QED BY <1>3, <2>1
<1> QED BY <1>1, <1>2, <1>4, <1>5, <1>6, NextCases

\* Two running processes never have one PID.
LEMMA OneHolder ==
  ASSUME TypeOK, MachineInv, NEW i \in alive, NEW j \in alive, pidOf[i] = pidOf[j]
  PROVE  i = j
<1>1. i \in Instances /\ j \in Instances /\ i \in Nat /\ j \in Nat
  BY SequenceTypes DEF TypeOK
<1>2. ~(i < j) /\ ~(j < i)
  BY <1>1 DEF MachineInv
<1> QED BY <1>1, <1>2

\* A snapshot shows the running processes, and whoever starts later has not been
\* shown yet.
LEMMA SnapshotStep ==
  ASSUME TypeOK, MachineInv, SnapshotInv, [Next]_vars
  PROVE  SnapshotInv'
<1>1. CASE \E p \in Pids, creator \in 0..MaxBirths : Start(p, creator)
  <2> PICK p \in Pids, creator \in 0..MaxBirths : Start(p, creator)
    BY <1>1
  <2>1. /\ Born + 1 \notin Instances
        /\ \A i \in Instances : pidOf'[i] = pidOf[i]
    BY StartAppends
  <2>2. alive' = alive \cup {Born + 1} /\ UNCHANGED <<pm, snapshot, applied>>
    BY DEF Start, procMon
  <2>3. alive' \cap applied' = alive \cap applied
    BY <2>1, <2>2 DEF TypeOK
  <2> QED BY <2>1, <2>2, <2>3 DEF SnapshotInv, TypeOK
<1>2. CASE \E i \in Instances : Exit(i)
  BY <1>2 DEF Exit, procMon, SnapshotInv
<1>3. CASE Collect
  BY <1>3, OneHolder DEF Collect, machine, SnapshotInv
<1>4. CASE ApplySnapshot
  BY <1>4 DEF ApplySnapshot, SnapshotInv
<1>5. CASE UNCHANGED <<machine, procMon, applied>>
  BY <1>5 DEF machine, procMon, SnapshotInv
<1>6. CASE \/ \E i \in Instances, stamped \in BOOLEAN : Open(i, stamped)
           \/ Observe \/ Bystander \/ UNCHANGED vars
  <2>1. UNCHANGED <<machine, procMon, applied>>
    BY <1>6, BystanderFrame DEF Open, Observe, vars, machine, procMon
  <2> QED BY <1>5, <2>1
<1> QED BY <1>1, <1>2, <1>3, <1>4, <1>6, NextCases

\* The index of a set with one instance per PID.
LEMMA IndexOfSnapshot ==
  ASSUME TypeOK, SnapshotInv
  PROVE  /\ \A i \in snapshot : Index(snapshot)[pidOf[i]] = i
         /\ \A p \in Pids : Index(snapshot)[p] # None =>
              Index(snapshot)[p] \in snapshot /\ pidOf[Index(snapshot)[p]] = p
<1>1. ASSUME NEW i \in snapshot PROVE Index(snapshot)[pidOf[i]] = i
  <2>1. pidOf[i] \in Pids
    BY SequenceTypes DEF TypeOK
  <2>2. Holder(snapshot, pidOf[i]) = {i}
    BY DEF Holder, SnapshotInv
  <2> QED BY <2>1, <2>2 DEF Index
<1>2. ASSUME NEW p \in Pids, Index(snapshot)[p] # None
      PROVE  Index(snapshot)[p] \in snapshot /\ pidOf[Index(snapshot)[p]] = p
  <2>1. Holder(snapshot, p) # {}
    BY <1>2 DEF Index
  <2>2. Index(snapshot)[p] \in Holder(snapshot, p)
    BY <2>1 DEF Index
  <2> QED BY <2>2 DEF Holder
<1> QED BY <1>1, <1>2

\* Steps that leave the tables and the PIDs alone.
LEMMA SameTable ==
  ASSUME TypeOK, [Next]_vars,
         ~(\E p \in Pids, creator \in 0..MaxBirths : Start(p, creator)),
         ~ApplySnapshot, ~Observe
  PROVE  /\ UNCHANGED <<pidOf, current, byPid, exited, applied>>
         /\ alive' \subseteq alive
BY NextCases, BystanderFrame
   DEF Exit, Open, Collect, vars, machine, table

\* Both writers keep the tables and the index in agreement.
LEMMA IndexStep ==
  ASSUME TypeOK, SocketInv, SnapshotInv, IndexAgrees, [Next]_vars
  PROVE  IndexAgrees'
<1>0. None \notin Nat /\ \A i \in Instances : i \in Nat /\ pidOf[i] \in Pids
  BY SequenceTypes, TableAssumption DEF TableAssumption
<1>1. CASE \E p \in Pids, creator \in 0..MaxBirths : Start(p, creator)
  <2>1. \A i \in Instances : pidOf'[i] = pidOf[i]
    BY <1>1, StartAppends
  <2>2. UNCHANGED <<current, byPid, exited>>
    BY <1>1 DEF Start, table
  <2>3. current \subseteq Instances
    BY DEF TypeOK
  <2> QED BY <2>1, <2>2, <2>3 DEF IndexAgrees
<1>2. CASE ApplySnapshot
  <2>1. current' = snapshot /\ byPid' = Index(snapshot) /\ UNCHANGED pidOf
    BY <1>2 DEF ApplySnapshot, Incoming, machine
  <2>2. current' \cap exited' = {}
    BY <1>2 DEF ApplySnapshot
  <2> QED BY <2>1, <2>2, IndexOfSnapshot DEF IndexAgrees
<1>3. CASE Observe
  <2>1. found \in Instances /\ pidOf[found] \in Pids /\ found # None
    BY <1>0, <1>3 DEF Observe, SocketInv
  <2>2. UNCHANGED pidOf
    BY <1>3 DEF Observe, machine
  <2>3. CASE Held(found)
    BY <1>3, <2>2, <2>3 DEF Observe, table, IndexAgrees
  <2>4. CASE ~Held(found)
    <3> DEFINE p == pidOf[found]
    <3>1. /\ current' = (current \ Predecessor(p)) \cup {found}
          /\ exited' = exited \cup Predecessor(p)
          /\ byPid' = [byPid EXCEPT ![p] = found]
          /\ found \notin current \cup exited
      BY <1>3, <2>4 DEF Observe, Held
    <3>2. Predecessor(p) = {i \in current : pidOf[i] = p}
      <4>1. \A i \in current : i # None /\ byPid[pidOf[i]] = i
        BY <1>0 DEF IndexAgrees, TypeOK
      <4>2. Predecessor(p) \subseteq {i \in current : pidOf[i] = p}
        BY <2>1 DEF Predecessor, IndexAgrees
      <4>3. \A i \in current : pidOf[i] = p => i \in Predecessor(p)
        BY <4>1 DEF Predecessor
      <4> QED BY <4>2, <4>3
    <3>3. current' \cap exited' = {}
      BY <3>1, <3>2 DEF IndexAgrees
    <3>4. ASSUME NEW i \in current' PROVE byPid'[pidOf[i]] = i
      BY <1>0, <2>1, <3>1, <3>2 DEF IndexAgrees, TypeOK
    <3>5. ASSUME NEW q \in Pids, byPid'[q] # None
          PROVE  byPid'[q] \in current' /\ pidOf[byPid'[q]] = q
      BY <1>0, <2>1, <3>1, <3>2, <3>5 DEF IndexAgrees, TypeOK
    <3> QED BY <2>2, <3>3, <3>4, <3>5 DEF IndexAgrees
  <2> QED BY <2>3, <2>4
<1>4. CASE UNCHANGED <<pidOf, current, byPid, exited>>
  BY <1>4 DEF IndexAgrees
<1> QED BY <1>1, <1>2, <1>3, <1>4, SameTable

\* A snapshot holds every running process shown before; observing one displaces
\* only an earlier holder, or is late itself.
LEMMA DisplacedStep ==
  ASSUME TypeOK, MachineInv, SocketInv, SnapshotInv, IndexAgrees,
         DisplacedByPredecessor, [Next]_vars
  PROVE  DisplacedByPredecessor'
<1>0. /\ None \notin Nat /\ alive \subseteq Instances
      /\ \A i \in Instances : i \in Nat /\ pidOf[i] \in Pids
  BY SequenceTypes, TableAssumption DEF TableAssumption, TypeOK
<1>1. CASE \E p \in Pids, creator \in 0..MaxBirths : Start(p, creator)
  <2>1. Born + 1 \notin Instances /\ \A i \in Instances : pidOf'[i] = pidOf[i]
    BY <1>1, StartAppends
  <2>2. alive' = alive \cup {Born + 1} /\ UNCHANGED <<current, byPid, applied>>
    BY <1>1 DEF Start, table
  <2>3. (alive' \cap applied') \ current' = (alive \cap applied) \ current
    BY <2>1, <2>2 DEF TypeOK
  <2> QED BY <1>0, <2>1, <2>2, <2>3 DEF DisplacedByPredecessor
<1>2. CASE ApplySnapshot
  <2>1. /\ alive \cap applied \subseteq snapshot
        /\ alive' = alive /\ applied' = applied \cup snapshot /\ current' = snapshot
    BY <1>2 DEF ApplySnapshot, Incoming, machine, SnapshotInv
  <2> QED BY <2>1 DEF DisplacedByPredecessor
<1>3. CASE Observe
  <2>1. found \in Instances /\ found \in Nat /\ pidOf[found] \in Pids
    BY <1>0, <1>3 DEF Observe, SocketInv
  <2>2. UNCHANGED <<pidOf, alive, applied>>
    BY <1>3 DEF Observe, machine
  <2>3. CASE Held(found)
    BY <1>3, <2>2, <2>3 DEF Observe, table, DisplacedByPredecessor
  <2>4. CASE ~Held(found)
    <3> DEFINE p == pidOf[found]
    <3>1. /\ current' = (current \ Predecessor(p)) \cup {found}
          /\ byPid' = [byPid EXCEPT ![p] = found]
      BY <1>3, <2>4 DEF Observe
    <3>2. ASSUME NEW i \in (alive \cap applied) \ current'
          PROVE  byPid'[pidOf[i]] # None /\ byPid'[pidOf[i]] < i
      <4>1. i \in Instances /\ i \in Nat /\ pidOf[i] \in Pids /\ i # found
        BY <1>0, <3>1, <3>2
      <4>2. CASE pidOf[i] = p
        <5>1. ~(i < found)
          BY <2>1, <3>2, <4>2 DEF MachineInv
        <5>2. byPid'[pidOf[i]] = found
          BY <2>1, <3>1, <4>2 DEF TypeOK
        <5> QED BY <1>0, <2>1, <4>1, <5>1, <5>2
      <4>3. CASE pidOf[i] # p
        <5>1. byPid'[pidOf[i]] = byPid[pidOf[i]]
          BY <3>1, <4>1, <4>3 DEF TypeOK
        <5>2. i \notin Predecessor(p)
          BY <2>1, <4>3 DEF Predecessor, IndexAgrees
        <5>3. i \notin current
          BY <3>1, <3>2, <5>2
        <5> QED BY <3>2, <5>1, <5>3 DEF DisplacedByPredecessor
      <4> QED BY <4>2, <4>3
    <3> QED BY <2>2, <3>2 DEF DisplacedByPredecessor
  <2> QED BY <2>3, <2>4
<1>4. CASE UNCHANGED <<pidOf, current, byPid, exited, applied>> /\ alive' \subseteq alive
  BY <1>4 DEF DisplacedByPredecessor
<1> QED BY <1>1, <1>2, <1>3, <1>4, SameTable

(***************************************************************************)
(* The theorems                                                            *)
(***************************************************************************)

\* The invariant holds initially and is kept by every step.
THEOREM Inductive == Spec => []IInv
<1>1. Init => IInv
  <2> SUFFICES ASSUME Init PROVE IInv
    OBVIOUS
  <2>1. Born = 0 /\ Instances = {}
    BY DEF Init, Born, Instances
  <2>2. TypeOK
    BY <2>1, EmptySeq, TableAssumption DEF Init, TypeOK, Born
  <2>3. MachineInv
    BY <2>1 DEF Init, MachineInv
  <2>4. SocketInv
    BY DEF Init, SocketInv
  <2>5. SnapshotInv
    BY DEF Init, SnapshotInv
  <2>6. IndexAgrees
    BY DEF Init, IndexAgrees
  <2>7. DisplacedByPredecessor
    BY DEF Init, DisplacedByPredecessor
  <2> QED BY <2>2, <2>3, <2>4, <2>5, <2>6, <2>7 DEF IInv
<1>2. IInv /\ [Next]_vars => IInv'
  BY TypeStep, MachineStep, SocketStep, SnapshotStep, IndexStep, DisplacedStep DEF IInv
<1> QED BY <1>1, <1>2, PTL DEF Spec

\* The variables keep their types, whatever starts, exits and is polled when.
THEOREM TypeCorrect == Spec => []TypeOK
<1>1. IInv => TypeOK
  BY DEF IInv
<1> QED BY <1>1, Inductive, PTL

\* SystemState's tables and its PID index agree after every step of both monitors.
THEOREM IndexAlwaysAgrees == Spec => []IndexAgrees
<1>1. IInv => IndexAgrees
  BY DEF IInv
<1> QED BY <1>1, Inductive, PTL

\* Only an earlier holder of its PID, observed late, hides a running process that a
\* snapshot has shown.
THEOREM DisplacedOnlyByPredecessor == Spec => []DisplacedByPredecessor
<1>1. IInv => DisplacedByPredecessor
  BY DEF IInv
<1> QED BY <1>1, Inductive, PTL

\* attribute() never gives a socket to another than its owner, if the table has the
\* owner and no holder started within the tolerance.
THEOREM OwnerAlwaysFound == Spec => []OwnerFoundIfHeld
<1>1. ASSUME IInv PROVE OwnerFoundIfHeld
  <2> DEFINE c == socket.of
  <2> SUFFICES ASSUME socket # None, socket.at # None, Held(c)
               PROVE  \/ OwnerOf(socket) = c
                      \/ OwnerOf(socket) \in (socket.at + 1)..(socket.at + Tolerance)
    BY DEF OwnerFoundIfHeld
  <2>1. Born \in Nat /\ \A i \in Instances : i \in Nat
    BY <1>1, SequenceTypes DEF IInv
  <2>2. /\ c \in Instances /\ socket.at \in Nat /\ c <= socket.at
        /\ \A j \in Instances : c < j /\ j <= socket.at => pidOf[j] # pidOf[c]
    BY <1>1 DEF IInv, SocketInv, TypeOK, Socket
  <2>3. Tolerance \in Nat
    BY TableAssumption DEF TableAssumption
  <2>4. /\ Eligible(socket) \subseteq Instances
        /\ \A k \in Eligible(socket) : pidOf[k] = pidOf[c] /\ k <= socket.at + Tolerance
    BY <1>1 DEF IInv, TypeOK, Eligible, Candidates
  <2>5. c \in Eligible(socket)
    BY <2>1, <2>2, <2>3 DEF Eligible, Candidates, Held
  <2> DEFINE newest == Newest(Eligible(socket))
  <2>6. OwnerOf(socket) = newest
    BY <2>5 DEF OwnerOf
  <2>7. newest \in Eligible(socket) /\ c <= newest
    BY <2>1, <2>4, <2>5, NewestIsGreatest
  <2> HIDE DEF newest
  <2>8. newest <= socket.at => newest = c
    BY <2>1, <2>2, <2>4, <2>7
  <2> QED BY <2>1, <2>2, <2>3, <2>4, <2>6, <2>7, <2>8
<1> QED BY <1>1, Inductive, PTL

\* parent_of() returns the creator of a process, if the table has it, whoever else
\* has held its PID.
THEOREM CreatorAlwaysFound == Spec => []CreatorFoundIfHeld
<1>1. ASSUME IInv PROVE CreatorFoundIfHeld
  <2> SUFFICES ASSUME NEW i \in Instances, parent[i] # 0, Held(parent[i])
               PROVE  ParentOf(i) = parent[i]
    BY DEF CreatorFoundIfHeld
  <2> DEFINE c == parent[i]
  <2>1. Born \in Nat /\ \A j \in Instances : j \in Nat
    BY <1>1, SequenceTypes DEF IInv
  <2>2. /\ c \in Instances /\ c < i
        /\ \A j \in Instances : c < j /\ j <= i => pidOf[j] # pidOf[c]
    BY <1>1 DEF IInv, MachineInv
  <2>3. /\ Creators(i) \subseteq Instances
        /\ \A k \in Creators(i) : pidOf[k] = pidOf[c] /\ k <= i
    BY <1>1 DEF IInv, TypeOK, Creators, Candidates
  <2>4. c \in Creators(i)
    BY <2>1, <2>2 DEF Creators, Candidates, Held
  <2>5. ParentOf(i) = Newest(Creators(i))
    BY <2>1, <2>2, <2>4 DEF ParentOf
  <2>6. Newest(Creators(i)) \in Creators(i) /\ c <= Newest(Creators(i))
    BY <2>1, <2>3, <2>4, NewestIsGreatest
  <2> DEFINE newest == Newest(Creators(i))
  <2> HIDE DEF newest
  <2>7. newest = c
    BY <2>1, <2>2, <2>3, <2>6 DEF newest
  <2> QED BY <2>5, <2>7 DEF newest
<1> QED BY <1>1, Inductive, PTL

=============================================================================
