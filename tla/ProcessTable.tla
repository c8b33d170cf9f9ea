---------------------------- MODULE ProcessTable ----------------------------
(***************************************************************************)
(* The process table of core/state.py under its two writers: the process   *)
(* monitor applies a snapshot some time after it was taken, the network    *)
(* monitor resolves a socket's unknown PID on demand in three steps        *)
(* (core/engine.py), while processes start, exit and reuse PIDs.  On top   *)
(* of it the two decisions that must survive reuse: the owner of a socket  *)
(* (correlation/process_network.py) and the parent of a process            *)
(* (correlation/process_tree.py).                                          *)
(*                                                                         *)
(* Instances are numbered by birth, and time is counted in births: the     *)
(* number stands for the create time, with the PID it is the process key.  *)
(* Create times are known; the special PIDs 0 and 4 are not among Pids.    *)
(***************************************************************************)
EXTENDS Naturals, Sequences

CONSTANTS
  Pids,
  MaxBirths,  \* bound on process starts
  MayHold,    \* bound: the PIDs each of them may get
  Mortal,     \* bound: those that may exit
  Children,   \* bound: those whose creator is of interest
  Busy,       \* bound: those that are enriched and have events
  Tolerance,  \* births that fall within CREATION_TOLERANCE after a socket
  None        \* "no PID holder", "no time", "no socket"

ASSUME TableAssumption ==
  /\ MaxBirths \in Nat /\ Tolerance \in Nat /\ None \notin Nat /\ None \notin Pids
  /\ MayHold \in [1..MaxBirths -> SUBSET Pids]
  /\ Mortal \subseteq 1..MaxBirths
  /\ Children \subseteq 1..MaxBirths /\ Busy \subseteq 1..MaxBirths

VARIABLES
  pidOf, parent,      \* the machine: each instance's PID and creator (0: none)
  alive,              \* the running instances
  current, byPid,     \* _current, _current_by_pid
  exited,             \* _exited
  attached,           \* the keys of _enrichment and _history
  pm, snapshot,       \* process monitor: "idle" or "apply"; what it collected
  nm, socket, found,  \* network monitor: where it is, the socket, what it resolved
  unresolvable,       \* _unresolvable
  owner,              \* the socket's attribution in _connections
  applied             \* history: the instances ever in an applied snapshot

machine == <<pidOf, parent, alive>>
table == <<current, byPid, exited>>
procMon == <<pm, snapshot>>
netMon == <<nm, socket, found, unresolvable, owner>>
vars == <<pidOf, parent, alive, current, byPid, exited, attached, pm, snapshot, nm,
          socket, found, unresolvable, owner, applied>>

Born == Len(pidOf)
Instances == 1..Born
Held(k) == k \in current \cup exited
Socket == [of : Nat, at : Nat \cup {None}]

TypeOK ==
  /\ pidOf \in Seq(Pids) /\ parent \in Seq(Nat) /\ Len(parent) = Born
  /\ alive \subseteq Instances
  /\ current \subseteq Instances /\ exited \subseteq Instances
  /\ byPid \in [Pids -> Nat \cup {None}]
  /\ attached \subseteq Instances
  /\ pm \in {"idle", "apply"} /\ snapshot \subseteq Instances
  /\ nm \in {"idle", "look", "resolve", "observe", "attribute"}
  /\ socket \in Socket \cup {None} /\ found \in Nat \cup {None}
  /\ unresolvable \subseteq Pids
  /\ owner \in Nat \cup {None}
  /\ applied \subseteq Instances

Init ==
  /\ pidOf = <<>> /\ parent = <<>> /\ alive = {}
  /\ current = {} /\ byPid = [p \in Pids |-> None] /\ exited = {} /\ attached = {}
  /\ pm = "idle" /\ snapshot = {}
  /\ nm = "idle" /\ socket = None /\ found = None /\ unresolvable = {} /\ owner = None
  /\ applied = {}

(***************************************************************************)
(* The machine: a PID has one living holder                                *)
(***************************************************************************)
Start(p, creator) ==
  /\ Born < MaxBirths /\ p \in MayHold[Born + 1]
  /\ \A i \in alive : pidOf[i] # p
  /\ creator \in IF Born + 1 \in Children /\ alive # {} THEN alive ELSE {0}
  /\ pidOf' = Append(pidOf, p) /\ parent' = Append(parent, creator)
  /\ alive' = alive \cup {Born + 1}
  /\ UNCHANGED <<table, attached, procMon, netMon, applied>>

Exit(i) ==
  /\ i \in alive \cap Mortal
  /\ alive' = alive \ {i}
  /\ UNCHANGED <<pidOf, parent, table, attached, procMon, netMon, applied>>

\* A process opens a socket, the kernel stamps it (or does not know when).
Open(i, stamped) ==
  /\ i \in alive /\ socket = None
  /\ socket' = [of |-> i, at |-> IF stamped THEN Born ELSE None]
  /\ UNCHANGED <<machine, table, attached, procMon, nm, found, unresolvable, owner,
                 applied>>

\* It leaves the socket table; a poll in progress has its copy.
Closed ==
  /\ socket # None /\ nm = "idle"
  /\ socket' = None /\ owner' = None
  /\ UNCHANGED <<machine, table, attached, procMon, nm, found, unresolvable, applied>>

(***************************************************************************)
(* The process monitor's thread                                            *)
(***************************************************************************)
Collect ==
  /\ pm = "idle"
  /\ pm' = "apply" /\ snapshot' = alive
  /\ UNCHANGED <<machine, table, attached, netMon, applied>>

Holder(set, p) == {i \in set : pidOf[i] = p}
Index(set) ==
  [p \in Pids |-> IF Holder(set, p) = {} THEN None ELSE CHOOSE i \in Holder(set, p) : TRUE]

\* Fault: an instance that was once called exited stays so.
NotExited == snapshot \ exited

Incoming == snapshot

\* Fault: only what has just expired is cleaned up.
JustExpired(expired) == attached \ expired

\* _prune's second half: what is attached to an instance that is neither current
\* nor exited is dropped.
Live(expired) == attached \cap (Incoming \cup ((exited \cup current) \ expired))

\* apply_process_snapshot, with _prune: any of the exited may have been there for
\* longer than the retention.  (Not a running one: it got there after this snapshot
\* was taken.)
ApplySnapshot ==
  /\ pm = "apply"
  /\ current' = Incoming
  /\ byPid' = Index(Incoming)
  /\ \E expired \in SUBSET ((exited \ snapshot) \ alive) :
       /\ exited' = ((exited \cup current) \ Incoming) \ expired
       /\ attached' = Live(expired)
  /\ applied' = applied \cup Incoming
  /\ pm' = "idle" /\ snapshot' = {}
  /\ UNCHANGED <<machine, netMon>>

ProcessMonitor == Collect \/ ApplySnapshot

\* set_enrichment and record_event attach to a key whose caller read it from the
\* table or a snapshot some time ago: the table may have it no longer, or not yet.
Attach(k) ==
  /\ k \in Busy
  /\ attached' = attached \cup {k}
  /\ UNCHANGED <<machine, table, procMon, netMon, applied>>

(***************************************************************************)
(* The network monitor's thread: _lookup and attribute                     *)
(***************************************************************************)
SocketPid == pidOf[socket.of]

Poll ==
  /\ nm = "idle" /\ socket # None
  /\ nm' = "look"
  /\ UNCHANGED <<machine, table, attached, procMon, socket, found, unresolvable, owner,
                 applied>>

\* process_by_pid, and _resolve_pid's look at the failures of the last 30 seconds.
Look ==
  /\ nm = "look"
  /\ nm' = IF byPid[SocketPid] = None /\ SocketPid \notin unresolvable
           THEN "resolve" ELSE "attribute"
  /\ UNCHANGED <<machine, table, attached, procMon, socket, found, unresolvable, owner,
                 applied>>

\* collect_pid finds the living holder.
Resolve(i) ==
  /\ nm = "resolve"
  /\ i \in alive /\ pidOf[i] = SocketPid
  /\ nm' = "observe" /\ found' = i
  /\ unresolvable' = unresolvable \ {SocketPid}
  /\ UNCHANGED <<machine, table, attached, procMon, socket, owner, applied>>

\* ... or raises.
CannotResolve ==
  /\ nm = "resolve"
  /\ nm' = "attribute"
  /\ unresolvable' = unresolvable \cup {SocketPid}
  /\ UNCHANGED <<machine, table, attached, procMon, socket, found, owner, applied>>

RetryAllowed(p) ==
  /\ p \in unresolvable
  /\ unresolvable' = unresolvable \ {p}
  /\ UNCHANGED <<machine, table, attached, procMon, nm, socket, found, owner, applied>>

\* Fault: the previous holder of the PID stays current.
NobodyExits(p) == {}

\* The instance observe_process takes for exited.
Predecessor(p) == IF byPid[p] = None THEN {} ELSE {byPid[p]}

\* observe_process.
Observe ==
  /\ nm = "observe"
  /\ nm' = "attribute" /\ found' = None
  /\ IF Held(found) THEN UNCHANGED table
     ELSE LET p == pidOf[found] IN
          /\ current' = (current \ Predecessor(p)) \cup {found}
          /\ exited' = exited \cup Predecessor(p)
          /\ byPid' = [byPid EXCEPT ![p] = found]
  /\ UNCHANGED <<machine, attached, procMon, socket, unresolvable, owner, applied>>

\* candidates_for_pid.
Candidates(p) == {k \in current \cup exited : pidOf[k] = p}

\* Fault: the creation time of the socket is not compared.
AnyHolder(s) == Candidates(pidOf[s.of])

Eligible(s) ==
  {k \in Candidates(pidOf[s.of]) : s.at = None \/ k <= s.at + Tolerance}

Newest(set) == CHOOSE k \in set : \A j \in set : j <= k

\* attribute(): the newest of the eligible candidates; none means UNATTRIBUTED or
\* PID_REUSE_SUSPECTED.
OwnerOf(s) == IF Eligible(s) = {} THEN None ELSE Newest(Eligible(s))

\* The candidates are read, the owner is decided, apply_connections stores it.
Attribute ==
  /\ nm = "attribute"
  /\ owner' = OwnerOf(socket)
  /\ nm' = "idle"
  /\ UNCHANGED <<machine, table, attached, procMon, socket, found, unresolvable, applied>>

NetworkMonitor ==
  Poll \/ Look \/ (\E i \in Instances : Resolve(i)) \/ CannotResolve \/ Observe \/ Attribute

Next ==
  \/ \E p \in Pids, creator \in 0..MaxBirths : Start(p, creator)
  \/ \E i \in Instances : Exit(i) \/ Attach(i) \/ \E stamped \in BOOLEAN : Open(i, stamped)
  \/ Closed
  \/ ProcessMonitor
  \/ NetworkMonitor
  \/ \E p \in Pids : RetryAllowed(p)

Spec == Init /\ [][Next]_vars

\* The process monitor polls periodically.
FairSpec == Spec /\ WF_vars(ProcessMonitor)

(***************************************************************************)
(* Lineage                                                                 *)
(***************************************************************************)

\* Fault: a creator may be younger than its child.
AnyAge(child) == Candidates(pidOf[parent[child]]) \ {child}

\* The instances that may have created child: candidates for its parent's PID, not
\* younger than it.
Creators(child) == {k \in Candidates(pidOf[parent[child]]) \ {child} : k <= child}

\* parent_of and select_parent.
ParentOf(child) ==
  IF parent[child] = 0 \/ pidOf[parent[child]] = pidOf[child] \/ Creators(child) = {}
  THEN None ELSE Newest(Creators(child))

-----------------------------------------------------------------------------
(***************************************************************************)
(* Properties                                                              *)
(***************************************************************************)

\* The two tables and the index agree after every step of either thread: an
\* instance is current or exited, the index holds exactly the current ones, and so
\* no PID has two: _current[_current_by_pid[pid]] never fails.
IndexAgrees ==
  /\ current \cap exited = {}
  /\ \A i \in current : byPid[pidOf[i]] = i
  /\ \A p \in Pids : byPid[p] # None => byPid[p] \in current /\ pidOf[byPid[p]] = p

\* A running process that a snapshot has shown is missing from the current ones
\* only because an earlier holder of its PID, resolved before it started, was
\* observed after: no snapshot, however late, loses a process twice.
DisplacedByPredecessor ==
  \A i \in (alive \cap applied) \ current :
    byPid[pidOf[i]] # None /\ byPid[pidOf[i]] < i

\* If the table has the owner of a socket with a creation time, the socket is
\* attributed to it, whoever held the PID before or after, except for a holder
\* that started within the tolerance.
OwnerFoundIfHeld ==
  socket # None /\ socket.at # None /\ Held(socket.of) =>
    \/ OwnerOf(socket) = socket.of
    \/ OwnerOf(socket) \in (socket.at + 1)..(socket.at + Tolerance)

\* If the table has the creator of a process, parent_of returns it, whoever else
\* held its PID.
CreatorFoundIfHeld ==
  \A i \in Instances :
    parent[i] # 0 /\ Held(parent[i]) => ParentOf(i) = parent[i]

\* A running process that is taken for exited is recognised again.
RunningIsRecognised ==
  \A i \in 1..MaxBirths : i \in alive \cap exited ~> i \notin alive \cap exited

\* What is attached to an instance the table has forgotten does not stay.
NothingLeaks ==
  \A i \in Busy :
    i \in attached /\ ~Held(i) ~> ~(i \in attached /\ ~Held(i))

\* The claim of process_network.py, "the owner is the most recent process instance
\* with that PID that was created before the socket".
OwnerIsMostRecent ==
  owner # None /\ socket # None /\ socket.at # None =>
    \A i \in Instances :
      pidOf[i] = pidOf[socket.of] /\ i <= socket.at => i <= owner
=============================================================================
