---------------------------- MODULE PeripheryProofs ---------------------------
(*****************************************************************************)
(* Proofs about the parts around the monitor's core that share no state      *)
(* (PeripheryMC): the database's migration, the instance lock and the        *)
(* status file, the process collector, the identity of files, what the       *)
(* network and persistence monitors and the baselines report, what the rules *)
(* say of a process and how that is scored, and the process tree.  Each part *)
(* has its own inductive invariant.                                          *)
(*****************************************************************************)
EXTENDS Schema, Instances, Collector, Files, Sightings, Judging, Forest,
        SequenceTheorems, FiniteSetTheorems, WellFoundedInduction, TLAPS

-----------------------------------------------------------------------------
(***************************************************************************)
(* Induction.  The provers take no operator for an argument, so a          *)
(* statement about every number is that a set has them all.                *)
(***************************************************************************)
LEMMA LeastNumber ==
  ASSUME NEW T, T \subseteq Nat, T # {}
  PROVE  \E x \in T : \A y \in T : x <= y
<1>1. PICK x \in T : \A y \in T : ~ (<<y, x>> \in OpToRel(<,Nat))
  BY WFMin, NatLessThanWellFounded
<1>2. ASSUME NEW y \in T PROVE x <= y
  <2>1. SUFFICES ASSUME y < x PROVE FALSE
    OBVIOUS
  <2>2. <<y, x>> \in {ss \in Nat \X Nat : ss[1] < ss[2]}
    BY <2>1
  <2>3. {ss \in Nat \X Nat : ss[1] < ss[2]} = OpToRel(<,Nat)
    BY Zenon DEF OpToRel
  <2> QED BY <2>2, <2>3, <1>1, Zenon
<1> QED BY <1>2

LEMMA AllNumbers ==
  ASSUME NEW T, T \subseteq Nat, 0 \in T, \A i \in T : i + 1 \in T
  PROVE  \A i \in Nat : i \in T
<1> SUFFICES ASSUME NEW i \in Nat \ T PROVE FALSE
  OBVIOUS
<1>1. PICK x \in Nat \ T : \A y \in Nat \ T : x <= y
  BY LeastNumber
<1>2. x - 1 \in Nat /\ ~(x <= x - 1)
  BY <1>1
<1>3. x - 1 \in T
  BY <1>1, <1>2
<1> QED BY <1>1, <1>3

\* A function is defined by its value at 0 and by how each value follows from the one
\* before.
LEMMA Recursion ==
  ASSUME NEW S, NEW base \in S, NEW n \in Nat, NEW step \in [1..n -> [S -> S]]
  PROVE  \E g \in [0..n -> S] :
            g[0] = base /\ \A i \in 1..n : g[i] = step[i][g[i - 1]]
<1> DEFINE IsUpTo(g, j) == g[0] = base /\ \A i \in 1..j : g[i] = step[i][g[i - 1]]
           T == {j \in Nat : j <= n => \E g \in [0..j -> S] : IsUpTo(g, j)}
<1>1. 0 \in T
  <2>1. [i \in 0..0 |-> base] \in [0..0 -> S] /\ IsUpTo([i \in 0..0 |-> base], 0)
    OBVIOUS
  <2> QED BY <2>1
<1>2. ASSUME NEW j \in T PROVE j + 1 \in T
  <2>1. CASE j + 1 <= n
    <3>1. PICK g \in [0..j -> S] : IsUpTo(g, j)
      BY <2>1
    <3> DEFINE h == [i \in 0..j + 1 |-> IF i = j + 1 THEN step[j + 1][g[j]] ELSE g[i]]
    <3>2. step[j + 1][g[j]] \in S
      BY <2>1
    <3>3. h \in [0..j + 1 -> S]
      BY <3>2
    <3>4. h[0] = base
      BY <3>1
    <3>5. ASSUME NEW i \in 1..j + 1 PROVE h[i] = step[i][h[i - 1]]
      BY <3>1, <3>5
    <3> HIDE DEF h
    <3>6. IsUpTo(h, j + 1)
      BY <3>4, <3>5
    <3>7. \E g1 \in [0..j + 1 -> S] : IsUpTo(g1, j + 1)
      BY <3>3, <3>6
    <3> HIDE DEF IsUpTo
    <3> QED BY <3>7
  <2>2. CASE ~(j + 1 <= n)
    BY <2>2
  <2> QED BY <2>1, <2>2
<1>3. n \in T
  <2> HIDE DEF T
  <2>1. T \subseteq Nat
    BY DEF T
  <2> QED BY <1>1, <1>2, <2>1, AllNumbers
<1> QED BY <1>3
-----------------------------------------------------------------------------
(*****************************************************************************)
(* Schema: the database's migration, for any connections and any length of it. *)
(*****************************************************************************)
SchemaSpec == InitSchema /\ [][NextSchema]_schemaVars

Places == {"away", "opened", "migrating", "ready"}
SchemaTypeOK ==
  /\ created \in 0..Statements /\ recorded \in BOOLEAN /\ cut \in BOOLEAN
  /\ opener \in [Openers -> [at : Places, next : Nat \ {0}]]

\* Who has read the version starts at the first statement, and who is past it is the one
\* that has executed all there are.
MigrationProgress ==
  /\ \A o \in Openers : At(o, "away") \/ At(o, "opened") => opener[o].next = 1
  /\ \A o \in Openers : Migrating(o) => opener[o].next = created + 1 /\ ~recorded

SchemaInv == SchemaTypeOK /\ MigrationProgress /\ SchemaIsWhole

LEMMA SchemaInit == InitSchema => SchemaInv
<1> SUFFICES ASSUME InitSchema PROVE SchemaInv
  OBVIOUS
<1> USE SchemaAssumption DEF SchemaAssumption, InitSchema, Away, At
<1>1. SchemaTypeOK
  <2>1. Away \in [at : Places, next : Nat \ {0}]
    BY DEF Places
  <2>2. opener \in [Openers -> [at : Places, next : Nat \ {0}]]
    <3> HIDE DEF Away
    <3> QED BY <2>1
  <2>3. created \in 0..Statements
    OBVIOUS
  <2>4. recorded \in BOOLEAN /\ cut \in BOOLEAN
    OBVIOUS
  <2> QED BY ONLY <2>2, <2>3, <2>4 DEF SchemaTypeOK
<1>2. \A o \in Openers : opener[o].at = "away" /\ opener[o].next = 1
  OBVIOUS
<1>3. MigrationProgress /\ SchemaIsWhole
  BY <1>2 DEF MigrationProgress, SchemaIsWhole, Migrating
<1> QED BY <1>1, <1>3 DEF SchemaInv

LEMMA SchemaStep == SchemaInv /\ [NextSchema]_schemaVars => SchemaInv'
<1> SUFFICES ASSUME SchemaInv, [NextSchema]_schemaVars PROVE SchemaInv'
  OBVIOUS
<1> USE SchemaAssumption DEF SchemaAssumption, SchemaInv, SchemaTypeOK, MigrationProgress,
                             SchemaIsWhole, Away, Places, At, GoesTo, Migrating
<1>1. ASSUME NEW o \in Openers, Open(o) PROVE SchemaInv'
  BY <1>1 DEF Open
<1>2. ASSUME NEW o \in Openers, CurrentVersion(o) PROVE SchemaInv'
  BY <1>2 DEF CurrentVersion
<1>3. ASSUME NEW o \in Openers, Execute(o) PROVE SchemaInv'
  BY <1>3 DEF Execute, AllExecuted
<1>4. ASSUME NEW o \in Openers, AlreadyThere(o) PROVE SchemaInv'
  BY <1>4 DEF AlreadyThere, AllExecuted
<1>5. ASSUME NEW o \in Openers, RecordVersion(o) PROVE SchemaInv'
  BY <1>5 DEF RecordVersion, AllExecuted
<1>6. ASSUME NEW o \in Openers, BreaksOff(o) PROVE SchemaInv'
  <2>1. /\ opener' = [opener EXCEPT ![o] = [at |-> "away", next |-> 1]]
        /\ UNCHANGED <<created, recorded>> /\ cut' = (cut \/ Migrating(o))
    BY <1>6 DEF BreaksOff
  <2>2. SchemaTypeOK'
    BY <2>1
  <2>3. \A q \in Openers : q # o => opener'[q] = opener[q]
    BY <2>1
  <2>4. opener'[o].at = "away" /\ opener'[o].next = 1
    BY <2>1
  <2>5. MigrationProgress'
    BY <2>1, <2>3, <2>4
  <2>6. SchemaIsWhole'
    BY <2>1, <2>3, <2>4
  <2> QED BY <2>2, <2>5, <2>6
<1>7. CASE UNCHANGED schemaVars
  BY <1>7 DEF schemaVars
<1> QED BY <1>1, <1>2, <1>3, <1>4, <1>5, <1>6, <1>7 DEF NextSchema

\* Whoever opens the database, fails or is killed, and however many statements the
\* migration has (storage/migrations.py apply_migrations): it is used only with all its
\* tables, and one connection at most gets past the first statement.
THEOREM SchemaAlwaysWhole == SchemaSpec => []SchemaIsWhole
<1>1. SchemaInv => SchemaIsWhole
  BY DEF SchemaInv
<1> QED BY SchemaInit, SchemaStep, <1>1, PTL DEF SchemaSpec

-----------------------------------------------------------------------------
(*****************************************************************************)
(* Instances: the instance lock and the status file, for any number of runs. *)
(*****************************************************************************)
InstancesSpec == InitInstances /\ [][NextInstances]_instancesVars

Runs == Monitors \cup {NoRun}
InstancesTypeOK ==
  /\ phase \in [Monitors -> Inside \cup {"new", "leaving", "off"}]
  /\ writer \in [Monitors -> States \cup {"idle", "turn"}] /\ lock \in Runs
  /\ reused \subseteq Monitors /\ announced \subseteq Monitors
  /\ closed \subseteq Monitors /\ late \subseteq Monitors
  /\ file \in [run : Runs, state : States, keyed : BOOLEAN, fresh : BOOLEAN]

\* A run inside the lock's block holds the lock.
Exclusive == \A m \in Monitors : phase[m] \in Inside => lock = m

\* A run begins without having written, its stop writes once, and its PID is another
\* program's only after it.
OneLife ==
  /\ \A m \in Monitors : phase[m] \in {"new", "locked"} => m \notin announced
  /\ \A m \in closed : phase[m] \in {"stopped", "leaving", "off"}
  /\ \A m \in reused : phase[m] = "off"

\* A status writer is at work while its run is, or its stop has left it behind.
WritersInside ==
  /\ \A m \in Monitors : writer[m] # "idle" => phase[m] \in {"running", "stopping"} \/ m \in late
  /\ \A m \in late : phase[m] \in {"stopped", "leaving", "off"}

\* No other run has written since the one that runs did, nor since a stop had its last
\* word, but for the writers left behind.
LastWord ==
  /\ \A m \in announced : phase[m] = "running" => file.run \in {m, NoRun} \cup late
  /\ file.run \in closed \ late => file.state = "STOPPED"

InstancesInv == InstancesTypeOK /\ Exclusive /\ OneLife /\ WritersInside /\ LastWord

LEMMA InstancesInit == InitInstances => InstancesInv
BY InstancesAssumption
DEF InitInstances, InstancesInv, InstancesTypeOK, Exclusive, OneLife, WritersInside, LastWord,
    Runs, States, Inside

\* What a run puts in place while it holds the lock, or from behind its stop.
LEMMA PutKeeps ==
  ASSUME InstancesInv, NEW m \in Monitors, NEW state \in States, PutStatus(m, state),
         NEW next, phase' = [phase EXCEPT ![m] = next],
         phase[m] \in {"locked", "running", "stopping"} \/ m \in late,
         InstancesTypeOK', Exclusive', OneLife', WritersInside',
         late \subseteq late', closed' \subseteq closed \cup {m},
         next \notin {"new", "locked"} \/ next = phase[m],
         next = "running" => phase[m] \in {"locked", "running"},
         m \in closed' \ late' => state = "STOPPED"
  PROVE  InstancesInv'
<1> USE InstancesAssumption DEF InstancesInv, InstancesTypeOK, Runs
<1>1. file'.run = m /\ file'.state = state /\ announced' = announced \cup {m}
  BY DEF PutStatus
<1>2. ASSUME NEW n \in announced', phase'[n] = "running" PROVE file'.run \in {n, NoRun} \cup late'
  <2>1. CASE n = m
    BY <2>1, <1>1
  <2>2. CASE n # m
    <3>1. phase[n] = "running" /\ lock = n
      BY <1>2, <2>2, <1>1 DEF Exclusive, Inside
    <3>2. m \in late
      BY <3>1, <2>2 DEF Exclusive, Inside
    <3> QED BY <3>2, <1>1
  <2> QED BY <2>1, <2>2
<1>3. LastWord'
  BY <1>1, <1>2 DEF LastWord
<1> QED BY <1>3

LEMMA InstancesStep == InstancesInv /\ [NextInstances]_instancesVars => InstancesInv'
<1> SUFFICES ASSUME InstancesInv, [NextInstances]_instancesVars PROVE InstancesInv'
  OBVIOUS
<1> USE InstancesAssumption DEF InstancesInv, InstancesTypeOK, Runs, reports
<1> DEFINE Rest == InstancesTypeOK /\ Exclusive /\ OneLife /\ WritersInside
<1>1. ASSUME NEW m \in Monitors, Enter(m) PROVE InstancesInv'
  <2>1. /\ phase[m] = "new" /\ phase' = [phase EXCEPT ![m] = "locked"] /\ lock = NoRun /\ lock' = m
        /\ UNCHANGED <<writer, file, announced, closed, reused, late>>
    BY <1>1 DEF Enter, Goes
  <2>2. Rest'
    BY <2>1 DEF Exclusive, OneLife, WritersInside, Inside
  <2>3. LastWord'
    BY <2>1 DEF LastWord
  <2> QED BY <2>2, <2>3
<1>2. ASSUME NEW m \in Monitors, Start(m) PROVE InstancesInv'
  <2>1. /\ phase[m] = "locked" /\ phase' = [phase EXCEPT ![m] = "running"]
        /\ UNCHANGED <<writer, lock, closed, reused, late>>
    BY <1>2 DEF Start, Goes
  <2>2. m \notin announced /\ m \notin closed
    BY <2>1 DEF OneLife
  <2>3. CASE PutStatus(m, "RUNNING")
    <3>1. /\ announced' = announced \cup {m}
          /\ file' \in [run : Runs, state : States, keyed : BOOLEAN, fresh : BOOLEAN]
      BY <2>3 DEF PutStatus, States
    <3>2. Rest'
      BY <2>1, <2>2, <3>1 DEF Exclusive, OneLife, WritersInside, Inside
    <3> QED BY <2>1, <2>2, <2>3, <3>2, PutKeeps DEF States
  <2>4. CASE UNCHANGED <<file, announced>>
    <3>1. Rest'
      BY <2>1, <2>2, <2>4 DEF Exclusive, OneLife, WritersInside, Inside
    <3>2. LastWord'
      BY <2>1, <2>2, <2>4 DEF LastWord
    <3> QED BY <3>1, <3>2
  <2> QED BY <1>2, <2>3, <2>4 DEF Start
<1>3. ASSUME NEW m \in Monitors, Turn(m) \/ Compose(m) PROVE InstancesInv'
  <2>1. /\ UNCHANGED <<phase, lock, file, announced, closed, reused, late>>
        /\ phase[m] = "running" \/ writer[m] # "idle"
        /\ \E w \in States \cup {"turn"} : writer' = [writer EXCEPT ![m] = w]
    BY <1>3 DEF Turn, Compose, States
  <2>2. Rest'
    BY <2>1 DEF Exclusive, OneLife, WritersInside
  <2>3. LastWord'
    BY <2>1 DEF LastWord
  <2> QED BY <2>2, <2>3
<1>4. ASSUME NEW m \in Monitors, ReportStatus(m) PROVE InstancesInv'
  <2>1. /\ writer[m] \in States /\ writer' = [writer EXCEPT ![m] = "idle"]
        /\ UNCHANGED <<phase, lock, closed, reused, late>>
    BY <1>4 DEF ReportStatus
  <2>2. phase[m] \in {"running", "stopping"} \/ m \in late
    BY <2>1 DEF WritersInside, States
  <2>3. CASE PutStatus(m, writer[m])
    <3>1. /\ announced' = announced \cup {m}
          /\ file' \in [run : Runs, state : States, keyed : BOOLEAN, fresh : BOOLEAN]
      BY <2>1, <2>3 DEF PutStatus
    <3>2. phase[m] \notin {"new", "locked"}
      BY <2>1, <2>2 DEF WritersInside
    <3>3. Rest'
      BY <2>1, <3>1, <3>2 DEF Exclusive, OneLife, WritersInside
    <3>4. m \in closed => m \in late
      BY <2>2 DEF OneLife
    <3> QED BY <2>1, <2>2, <2>3, <3>3, <3>4, PutKeeps
  <2>4. CASE UNCHANGED <<file, announced>>
    <3>1. Rest'
      BY <2>1, <2>4 DEF Exclusive, OneLife, WritersInside
    <3>2. LastWord'
      BY <2>1, <2>4 DEF LastWord
    <3> QED BY <3>1, <3>2
  <2> QED BY <1>4, <2>3, <2>4 DEF ReportStatus
<1>5. ASSUME NEW m \in Monitors, StopSignal(m) PROVE InstancesInv'
  <2>1. /\ phase[m] \in {"locked", "running"} /\ phase' = [phase EXCEPT ![m] = "stopping"]
        /\ UNCHANGED <<writer, lock, file, announced, closed, reused, late>>
    BY <1>5 DEF StopSignal, Goes
  <2>2. Rest'
    BY <2>1 DEF Exclusive, OneLife, WritersInside, Inside
  <2>3. LastWord'
    BY <2>1 DEF LastWord
  <2> QED BY <2>2, <2>3
<1>6. ASSUME NEW m \in Monitors, Stop(m) PROVE InstancesInv'
  <2>1. /\ phase[m] = "stopping" /\ phase' = [phase EXCEPT ![m] = "stopped"]
        /\ late' = IF writer[m] = "idle" THEN late ELSE late \cup {m}
        /\ UNCHANGED <<writer, lock, reused>>
    BY <1>6 DEF Stop, Goes
  <2>2. CASE PutStatus(m, "STOPPED") /\ closed' = closed \cup {m}
    <3>1. /\ announced' = announced \cup {m}
          /\ file' \in [run : Runs, state : States, keyed : BOOLEAN, fresh : BOOLEAN]
      BY <2>2 DEF PutStatus, States
    <3>2. Rest'
      BY <2>1, <2>2, <3>1 DEF Exclusive, OneLife, WritersInside, Inside
    <3> QED BY <2>1, <2>2, <3>2, PutKeeps DEF States
  <2>3. CASE UNCHANGED reports
    <3>1. Rest'
      BY <2>1, <2>3 DEF Exclusive, OneLife, WritersInside, Inside
    <3>2. LastWord'
      BY <2>1, <2>3 DEF LastWord
    <3> QED BY <3>1, <3>2
  <2> QED BY <1>6, <2>2, <2>3 DEF Stop
<1>7. ASSUME NEW m \in Monitors, Exit(m) PROVE InstancesInv'
  <2>1. /\ phase[m] \in {"locked", "stopped"} /\ phase' = [phase EXCEPT ![m] = "leaving"]
        /\ lock = m /\ lock' = NoRun
        /\ UNCHANGED <<writer, file, announced, closed, reused, late>>
    BY <1>7 DEF Exit, MayRelease
  <2>2. Rest'
    BY <2>1 DEF Exclusive, OneLife, WritersInside, Inside
  <2>3. LastWord'
    BY <2>1 DEF LastWord
  <2> QED BY <2>2, <2>3
<1>8. ASSUME NEW m \in Monitors, Crash(m) PROVE InstancesInv'
  <2>1. /\ HasProcess(m) /\ phase' = [phase EXCEPT ![m] = "off"]
        /\ writer' = [writer EXCEPT ![m] = "idle"]
        /\ lock' = IF lock = m THEN NoRun ELSE lock
        /\ UNCHANGED <<file, announced, closed, reused, late>>
    BY <1>8 DEF Crash
  <2>2. Rest'
    BY <2>1 DEF Exclusive, OneLife, WritersInside, Inside
  <2>3. LastWord'
    BY <2>1 DEF LastWord
  <2> QED BY <2>2, <2>3
<1>9. ASSUME NEW m \in Monitors, Reuse(m) PROVE InstancesInv'
  <2>1. /\ phase[m] = "off" /\ reused' = reused \cup {m}
        /\ UNCHANGED <<phase, writer, lock, file, announced, closed, late>>
    BY <1>9 DEF Reuse
  <2>2. Rest'
    BY <2>1 DEF Exclusive, OneLife, WritersInside
  <2>3. LastWord'
    BY <2>1 DEF LastWord
  <2> QED BY <2>2, <2>3
<1>10. ASSUME GoesStale \/ Unreadable PROVE InstancesInv'
  <2>1. /\ UNCHANGED <<phase, writer, lock, announced, closed, reused, late>>
        /\ \/ file' = [file EXCEPT !.fresh = FALSE]
           \/ file' = [file EXCEPT !.run = NoRun]
    BY <1>10 DEF GoesStale, Unreadable
  <2>2. Rest'
    BY <2>1 DEF Exclusive, OneLife, WritersInside
  <2>3. LastWord'
    BY <2>1 DEF LastWord
  <2> QED BY <2>2, <2>3
<1>11. ASSUME AllowCleanup \/ Cleanup \/ UNCHANGED instancesVars PROVE InstancesInv'
  BY <1>11 DEF AllowCleanup, Cleanup, instancesVars, Exclusive, OneLife, WritersInside, LastWord
<1> QED BY <1>1, <1>2, <1>3, <1>4, <1>5, <1>6, <1>7, <1>8, <1>9, <1>10, <1>11 DEF NextInstances

\* At most one run of the monitor is inside the lock's block (core/status_file.py
\* InstanceLock), whoever crashes or hangs; a status shown as live is that of a run whose
\* process is there, if it knew its key; and a stop's last word, or the status of the run
\* that runs, is replaced only by a status writer that a stop has left behind.
THEOREM StatusAlwaysTrue == InstancesSpec => []StatusIsTrue
<1>1. InstancesInv => StatusIsTrue
  BY InstancesAssumption
  DEF InstancesInv, InstancesTypeOK, Exclusive, OneLife, LastWord, StatusIsTrue, ShownLive, Alive,
      Runs
<1> QED BY InstancesInit, InstancesStep, <1>1, PTL DEF InstancesSpec

-----------------------------------------------------------------------------
(*****************************************************************************)
(* Collector: the process collector, for any processes, PIDs and denials.    *)
(*****************************************************************************)
CollectorSpec == InitCollector /\ [][NextCollector]_collectorVars

\* A PID has one holder.
OneHolder ==
  \A p, q \in Running : PidOfSubject[p] = PidOfSubject[q] => p = q

\* An entry is of a process that was enumerated, as a fresh one if it is still new.
EntryOf(e) ==
  /\ e.process \in Subjects /\ age[e.process] # "unborn"
  /\ age[e.process] = "new" => e.fresh

\* What a process may have for its command line; none only while it counts as fresh.
OwnCmdline(e, cmdline) ==
  \/ cmdline \in {e.process, "denied", "error"}
  \/ cmdline = "empty" /\ e.fresh

\* What was read through the handle of a process that runs is its own.
EntryInv ==
  entry # NoEntry =>
    /\ EntryOf(entry.of)
    /\ entry.of.process \in Running => OwnCmdline(entry.of, entry.read.cmdline)
    /\ entry.read.exe \in {"denied", "error"}

CollectorTypeOK ==
  /\ age \in [Subjects -> {"unborn", "new", "young", "old", "ended"}]
  /\ \A p \in DOMAIN cache : p \in Subjects /\ age[p] # "unborn"

CollectorInv ==
  /\ CollectorTypeOK /\ OneHolder /\ EntryInv /\ CachedDetailsAreTrue
  /\ \A e \in todo : EntryOf(e)

LEMMA CollectorInit == InitCollector => CollectorInv
<1> SUFFICES ASSUME InitCollector PROVE CollectorInv
  OBVIOUS
<1>1. /\ age = [p \in Subjects |-> "unborn"] /\ todo = {} /\ entry = NoEntry
      /\ Running = {} /\ DOMAIN cache = {}
  BY DEF InitCollector, Running
<1> QED BY <1>1 DEF CollectorInv, CollectorTypeOK, OneHolder, EntryInv, CachedDetailsAreTrue

-----------------------------------------------------------------------------
(***************************************************************************)
(* Reading                                                                 *)
(***************************************************************************)

\* Whoever opens the PID of a process that runs reads that process.
LEMMA OwnDetails ==
  ASSUME OneHolder, NEW p \in Running, NEW d \in Details(HoldersOf(PidOfSubject[p]))
  PROVE  /\ d.exe \in {p, "denied", "error"}
         /\ \/ d.cmdline \in {p, "denied", "error"}
            \/ d.cmdline = "empty" /\ age[p] = "new"
<1>1. HoldersOf(PidOfSubject[p]) = {p}
  BY DEF HoldersOf, OneHolder
<1>2. CASE p \in Denied
  <2>1. d = [exe |-> "denied", cmdline |-> "denied"]
    BY <1>1, <1>2 DEF Details
  <2> QED BY <2>1
<1>3. CASE p \notin Denied
  <2>1. d \in [exe : Field(p), cmdline : Field(IF age[p] = "new" THEN "empty" ELSE p)]
    BY <1>1, <1>3 DEF Details
  <2> QED BY <2>1 DEF Field
<1> QED BY <1>2, <1>3

\* What is kept of a process that runs is its own and final.
LEMMA BuiltKeeps ==
  ASSUME CollectorInv, NEW e, EntryOf(e), NEW d, Built(e, d), UNCHANGED age,
         e.process \in Running =>
           d.exe \in {e.process, "denied", "error"} /\ OwnCmdline(e, d.cmdline)
  PROVE  /\ \A p \in DOMAIN cache' : p \in Subjects /\ age[p] # "unborn"
         /\ CachedDetailsAreTrue'
<1>1. CASE ~Cacheable(e, d)
  BY <1>1 DEF CollectorInv, CollectorTypeOK, Built, CachedDetailsAreTrue, Running
<1>2. CASE Cacheable(e, d)
  <2>1. cache' = [p \in DOMAIN cache \cup {e.process} |->
                    IF p = e.process THEN d ELSE cache[p]]
    BY <1>2 DEF Built
  <2>2. DOMAIN cache' = DOMAIN cache \cup {e.process}
    BY <2>1
  <2>3. e.process \in Running =>
          d.exe \in {e.process, "denied"} /\ d.cmdline \in {e.process, "denied"}
    BY <1>2 DEF Cacheable, Transient, OwnCmdline
  <2>4. \A p \in DOMAIN cache' \cap Running :
          cache'[p].exe \in {p, "denied"} /\ cache'[p].cmdline \in {p, "denied"}
    BY <2>1, <2>2, <2>3 DEF CollectorInv, CachedDetailsAreTrue
  <2>5. Running' = Running
    BY DEF Running
  <2> QED BY <2>2, <2>4, <2>5 DEF CollectorInv, CollectorTypeOK, EntryOf, CachedDetailsAreTrue
<1> QED BY <1>1, <1>2

-----------------------------------------------------------------------------
(***************************************************************************)
(* Every step                                                              *)
(***************************************************************************)

\* A process grows older, and nothing that was read changes.
LEMMA MachineKeeps ==
  ASSUME CollectorInv, NEW p \in Subjects, Begin(p) \/ Populate(p) \/ GrowOld(p) \/ End(p)
  PROVE  CollectorInv'
<1> USE DEF CollectorInv, CollectorTypeOK
<1>1. PICK next \in {"new", "young", "old", "ended"} : Becomes(p, next)
  BY DEF Begin, Populate, GrowOld, End
<1>2. /\ age' = [age EXCEPT ![p] = next]
      /\ UNCHANGED <<enumerated, todo, entry, cache>>
  BY <1>1 DEF Becomes
<1>3. \A q \in Subjects : q # p => age'[q] = age[q]
  BY <1>2
<1>4. age'[p] = next /\ age'[p] # "unborn" /\ (age'[p] = "new" => age[p] = "unborn")
  BY <1>2 DEF Begin, Populate, GrowOld, End, Becomes, Running
<1>5. \A e : EntryOf(e) => EntryOf(e)'
  BY <1>3, <1>4 DEF EntryOf
<1>6. Running' \subseteq Running \cup {p}
  BY <1>3 DEF Running
<1>7. OneHolder'
  <2>1. CASE age[p] = "unborn"
    <3>1. HoldersOf(PidOfSubject[p]) = {}
      BY <2>1 DEF Begin, Populate, GrowOld, End, Running
    <3> QED BY <1>6, <3>1 DEF OneHolder, HoldersOf
  <2>2. CASE age[p] # "unborn"
    <3>1. Running' \subseteq Running
      BY <1>6, <2>2 DEF Begin, Populate, GrowOld, End, Running
    <3> QED BY <3>1 DEF OneHolder
  <2> QED BY <2>1, <2>2
<1>8. age[p] # "unborn" => Running' \subseteq Running
  BY <1>6 DEF Begin, Populate, GrowOld, End, Running
<1>9. EntryInv'
  BY <1>2, <1>5, <1>6, <1>8 DEF EntryInv, EntryOf, OwnCmdline
<1>10. CachedDetailsAreTrue'
  BY <1>2, <1>6, <1>8 DEF CachedDetailsAreTrue
<1>11. CollectorTypeOK'
  BY <1>2, <1>3, <1>4
<1> QED BY <1>2, <1>5, <1>7, <1>9, <1>10, <1>11

LEMMA CollectorStep == CollectorInv /\ [NextCollector]_collectorVars => CollectorInv'
<1> SUFFICES ASSUME CollectorInv, [NextCollector]_collectorVars PROVE CollectorInv'
  OBVIOUS
<1> USE DEF CollectorInv
<1>1. ASSUME NEW p \in Subjects, Begin(p) \/ Populate(p) \/ GrowOld(p) \/ End(p) PROVE CollectorInv'
  BY <1>1, MachineKeeps
<1>2. ASSUME UNCHANGED age PROVE UNCHANGED Running /\ OneHolder' /\ \A e : EntryOf(e) => EntryOf(e)'
  BY <1>2 DEF Running, OneHolder, EntryOf
<1>3. ASSUME NEW wanted, Query(wanted) PROVE CollectorInv'
  <2>1. UNCHANGED <<age, entry, cache>>
    BY <1>3 DEF Query
  <2>2. ASSUME NEW e \in todo' PROVE EntryOf(e)'
    <3>1. PICK p \in Running \cap wanted :
            e = [process |-> p, fresh |-> age[p] \in {"new", "young"}]
      BY <1>3 DEF Query
    <3>2. e.process = p /\ (age[p] = "new" => e.fresh)
      BY <3>1
    <3> QED BY <2>1, <3>2 DEF EntryOf, Running
  <2>3. CollectorTypeOK' /\ EntryInv' /\ CachedDetailsAreTrue'
    BY <1>2, <2>1 DEF CollectorTypeOK, EntryInv, EntryOf, OwnCmdline, CachedDetailsAreTrue
  <2> QED BY <1>2, <2>1, <2>2, <2>3
<1>4. ASSUME NEW e \in todo, Known(e) PROVE CollectorInv'
  <2>1. UNCHANGED <<age, entry, cache>> /\ todo' \subseteq todo
    BY <1>4 DEF Known
  <2>2. CollectorTypeOK' /\ EntryInv' /\ CachedDetailsAreTrue'
    BY <1>2, <2>1 DEF CollectorTypeOK, EntryInv, EntryOf, OwnCmdline, CachedDetailsAreTrue
  <2> QED BY <1>2, <2>1, <2>2
<1>5. ASSUME NEW e \in todo, NEW d \in Details(HoldersOf(PidOfSubject[e.process])), Read(e, d)
      PROVE  CollectorInv'
  <2>1. EntryOf(e) /\ UNCHANGED age
    BY <1>5 DEF Read
  <2>2. e.process \in Running =>
          d.exe \in {e.process, "denied", "error"} /\ OwnCmdline(e, d.cmdline)
    BY <2>1, OwnDetails DEF EntryOf, OwnCmdline
  <2>3. CASE d.exe \in {"denied", "error"}
    <3>1. entry' = [of |-> e, read |-> d] /\ UNCHANGED <<todo, cache>>
      BY <1>5, <2>3 DEF Read
    <3>2. EntryInv'
      BY <1>2, <2>1, <2>2, <2>3, <3>1 DEF EntryInv, EntryOf, OwnCmdline
    <3>3. CollectorTypeOK' /\ CachedDetailsAreTrue'
      BY <1>2, <2>1, <3>1 DEF CollectorTypeOK, CachedDetailsAreTrue
    <3> QED BY <1>2, <2>1, <3>1, <3>2, <3>3
  <2>4. CASE d.exe \notin {"denied", "error"}
    <3>1. Built(e, d) /\ UNCHANGED entry
      BY <1>5, <2>4 DEF Read
    <3>2. (\A p \in DOMAIN cache' : p \in Subjects /\ age[p] # "unborn") /\ CachedDetailsAreTrue'
      BY <2>1, <2>2, <3>1, BuiltKeeps
    <3>3. CollectorTypeOK' /\ EntryInv'
      BY <1>2, <2>1, <3>1, <3>2 DEF CollectorTypeOK, EntryInv, EntryOf, OwnCmdline
    <3>4. todo' \subseteq todo
      BY <3>1 DEF Built
    <3> QED BY <1>2, <2>1, <3>2, <3>3, <3>4
  <2> QED BY <2>3, <2>4
<1>6. ASSUME NEW exe, ReadByPid(exe) PROVE CollectorInv'
  <2> DEFINE e == entry.of
             d == [entry.read EXCEPT !.exe = exe]
  <2>1. EntryOf(e) /\ UNCHANGED age /\ entry' = NoEntry /\ Built(e, d)
    BY <1>6 DEF ReadByPid, EntryInv
  <2>2. e.process \in Running =>
          exe \in {e.process, "denied", "error"} /\ OwnCmdline(e, entry.read.cmdline)
    BY <1>6 DEF ReadByPid, EntryInv, OneHolder, HoldersOf
  <2>3. d.exe = exe /\ d.cmdline = entry.read.cmdline
    OBVIOUS
  <2>4. (\A p \in DOMAIN cache' : p \in Subjects /\ age[p] # "unborn") /\ CachedDetailsAreTrue'
    BY <2>1, <2>2, <2>3, BuiltKeeps
  <2>5. todo' \subseteq todo
    BY <2>1 DEF Built
  <2> QED BY <1>2, <2>1, <2>4, <2>5 DEF CollectorTypeOK, EntryInv
<1>7. ASSUME Prune PROVE CollectorInv'
  <2>1. UNCHANGED <<age, todo, entry>> /\ DOMAIN cache' \subseteq DOMAIN cache
    BY <1>7 DEF Prune, Restrict
  <2>2. \A p \in DOMAIN cache' : cache'[p] = cache[p]
    BY <1>7 DEF Prune, Restrict
  <2>3. CollectorTypeOK' /\ EntryInv' /\ CachedDetailsAreTrue'
    BY <1>2, <2>1, <2>2 DEF CollectorTypeOK, EntryInv, EntryOf, OwnCmdline, CachedDetailsAreTrue
  <2> QED BY <1>2, <2>1, <2>3
<1>8. ASSUME UNCHANGED collectorVars PROVE CollectorInv'
  BY <1>2, <1>8 DEF collectorVars, CollectorTypeOK, EntryInv, EntryOf, OwnCmdline, CachedDetailsAreTrue
<1> QED BY <1>1, <1>3, <1>4, <1>5, <1>6, <1>7, <1>8 DEF NextCollector

\* Whatever ends, begins and takes over a PID between the enumeration, the handle and the
\* query by PID (collectors/process_collector.py), what the collector keeps of a process
\* that runs is that process's own, and not from before it had a command line.
THEOREM CachedDetailsAlwaysTrue == CollectorSpec => []CachedDetailsAreTrue
<1>1. CollectorInv => CachedDetailsAreTrue
  BY DEF CollectorInv
<1> QED BY CollectorInit, CollectorStep, <1>1, PTL DEF CollectorSpec

-----------------------------------------------------------------------------
(*****************************************************************************)
(* Files: the identity of a file, for any contents, signatures and chunks.   *)
(*****************************************************************************)
FilesSpec == InitFiles /\ [][NextFiles]_filesVars

Targets == Contents \cup {Missing}
Hashing == {"hash open", "hash read"}
Verifying == {"embedded", "catalog"}

Handles == [content : Targets, attached : BOOLEAN]

FilesTypeOK ==
  /\ target \in Targets /\ written \subseteq Contents /\ key \in Targets
  /\ target \in written \cup {Missing}
  /\ at \in Hashing \cup Verifying \cup {"idle", "hashed", "verify open"}
  /\ handle \in Handles
  /\ at \in Verifying \cup {"hash read"} => handle.content \in Contents
  /\ at \in Verifying \cup {"verify open"} => key \in Contents

\* Nothing is read before the file is open.
ReadInv ==
  /\ read \in Seq(Targets)
  /\ at # "hash read" => read = <<>>

\* A content that the open file has lost does not come back: if it is that of the
\* fingerprint, it was so for every chunk.
HashInv ==
  /\ at \in Hashing => key \in written
  /\ at = "hash read" /\ handle.content = key => \A i \in 1..Len(read) : read[i] = key
  /\ \A c \in DOMAIN hashes : hashes[c] = Whole(c)

\* Unless something has moved, the file that is verified has the fingerprint's content;
\* the catalogs are asked about a file without a signature of its own.
SignatureInv ==
  /\ at = "verify open" /\ ~moved => target = key
  /\ at \in Verifying /\ ~moved => handle.content = key
  /\ at = "catalog" /\ ~moved => Signed[key] # "embedded"
  /\ \A c \in DOMAIN signatures :
       ~signatures[c].moved /\ ~signatures[c].failed =>
         (signatures[c].status = "VALID" <=> Signed[c] # "none")

FilesInv == FilesTypeOK /\ ReadInv /\ HashInv /\ SignatureInv

\* The handle of an open file.
Opened(c) == [content |-> c, attached |-> TRUE]

LEMMA HandleTypes ==
  /\ Closed \in Handles /\ Closed.content = Missing
  /\ \A c \in Targets : Opened(c) \in Handles /\ Opened(c).content = c
BY DEF Handles, Closed, Opened, Targets

LEMMA HandleChanges ==
  ASSUME NEW h \in Handles
  PROVE  /\ h.content \in Targets
         /\ \A c \in Targets :
              [h EXCEPT !.content = c] \in Handles /\ [h EXCEPT !.content = c].content = c
         /\ \A b \in BOOLEAN :
              [h EXCEPT !.attached = b] \in Handles /\ [h EXCEPT !.attached = b].content = h.content
BY DEF Handles

LEMMA FilesInit == InitFiles => FilesInv
<1> SUFFICES ASSUME InitFiles PROVE FilesInv
  OBVIOUS
<1>1. /\ target \in Contents /\ written = {target} /\ at = "idle" /\ key = Missing
      /\ handle = Closed /\ read = <<>> /\ hashes = <<>> /\ signatures = <<>>
  BY DEF InitFiles
<1>2. FilesTypeOK
  BY <1>1, HandleTypes DEF FilesTypeOK, Targets, Hashing, Verifying
<1>3. ReadInv
  BY <1>1 DEF ReadInv
<1>4. HashInv /\ SignatureInv
  BY <1>1 DEF HashInv, SignatureInv, Hashing, Verifying
<1> QED BY <1>2, <1>3, <1>4 DEF FilesInv

-----------------------------------------------------------------------------
(***************************************************************************)
(* The machine                                                             *)
(***************************************************************************)
LEMMA WriteInPlaceKeeps ==
  ASSUME FilesInv, NEW c \in Contents, WriteInPlace(c)
  PROVE  FilesInv'
<1> USE DEF FilesInv
<1>1. /\ target' = c /\ written' = written \cup {c} /\ moved' /\ c \notin written
      /\ UNCHANGED <<at, key, read, failed, hashes, signatures>>
  BY DEF WriteInPlace, caches
<1>2. handle \in Handles /\ c \in Targets
  BY DEF FilesTypeOK, Targets
<1>3. handle' \in Handles /\ handle'.content \in {handle.content, c}
  BY <1>2, HandleChanges DEF WriteInPlace
<1>4. FilesTypeOK'
  BY <1>1, <1>3 DEF FilesTypeOK, Targets
<1>5. ReadInv'
  BY <1>1 DEF ReadInv
<1>6. HashInv'
  BY <1>1, <1>3 DEF HashInv, Hashing, Whole
<1>7. SignatureInv'
  BY <1>1 DEF SignatureInv
<1> QED BY <1>4, <1>5, <1>6, <1>7

LEMMA ReplaceKeeps ==
  ASSUME FilesInv, NEW c \in Targets, Replace(c)
  PROVE  FilesInv'
<1> USE DEF FilesInv
<1>1. /\ target' = c /\ written' = written \cup ({c} \cap Contents) /\ moved'
      /\ UNCHANGED <<at, key, read, failed, hashes, signatures>>
  BY DEF Replace, caches
<1>2. handle \in Handles
  BY DEF FilesTypeOK
<1>3. handle' \in Handles /\ handle'.content = handle.content
  BY <1>2, HandleChanges DEF Replace
<1>4. FilesTypeOK'
  BY <1>1, <1>3 DEF FilesTypeOK, Targets
<1>5. ReadInv'
  BY <1>1 DEF ReadInv
<1>6. HashInv'
  BY <1>1, <1>3 DEF HashInv, Hashing, Whole
<1>7. SignatureInv'
  BY <1>1 DEF SignatureInv
<1> QED BY <1>4, <1>5, <1>6, <1>7

-----------------------------------------------------------------------------
(***************************************************************************)
(* The hash                                                                *)
(***************************************************************************)

\* An empty sequence has been read so far.
LEMMA NothingRead == ASSUME read' = <<>> PROVE ReadInv'
BY DEF ReadInv

LEMMA HashStatKeeps ==
  ASSUME FilesInv, HashStat
  PROVE  FilesInv'
<1> USE DEF FilesInv
<1>1. /\ key' = target /\ handle' = Closed /\ read' = <<>>
      /\ UNCHANGED <<target, written, hashes, signatures>>
  BY DEF HashStat, GoTo, caches
<1>2. at' \in {"hashed", "hash open"} /\ (at' = "hash open" => target # Missing)
  BY DEF HashStat, GoTo
<1>3. FilesTypeOK'
  BY <1>1, <1>2, HandleTypes DEF FilesTypeOK, Targets, Hashing, Verifying
<1>4. HashInv'
  BY <1>1, <1>2 DEF HashInv, FilesTypeOK, Targets, Hashing, Whole
<1>5. SignatureInv'
  BY <1>1, <1>2 DEF SignatureInv, Verifying
<1> QED BY <1>1, <1>3, <1>4, <1>5, NothingRead

\* The path is opened, and leads to a content, or the attempt is over.
LEMMA OpenForOpens ==
  ASSUME FilesTypeOK, NEW place, NEW denied, OpenFor(place, denied)
  PROVE  /\ UNCHANGED <<target, written, key, moved, failed, hashes, signatures>>
         /\ \/ at' = denied /\ read' = <<>> /\ handle' = Closed
            \/ /\ at' = place /\ read' = read
               /\ target \in Contents /\ handle' = Opened(target)
BY DEF FilesTypeOK, Targets, OpenFor, GoTo, Opened, caches

LEMMA HashOpenKeeps ==
  ASSUME FilesInv, HashOpen
  PROVE  FilesInv'
<1> USE DEF FilesInv
<1>1. at = "hash open" /\ OpenFor("hash read", "hashed")
  BY DEF HashOpen
<1>2. read' = <<>>
  BY <1>1, OpenForOpens DEF ReadInv
<1>3. /\ UNCHANGED <<target, written, key, hashes, signatures>>
      /\ \/ at' = "hashed" /\ handle' = Closed
         \/ at' = "hash read" /\ target \in Contents /\ handle' = Opened(target)
  BY <1>1, OpenForOpens
<1>4. FilesTypeOK'
  BY <1>1, <1>3, HandleTypes DEF FilesTypeOK, Targets, Hashing, Verifying
<1>5. HashInv'
  <2>1. key \in written
    BY <1>1 DEF HashInv, Hashing
  <2>2. Len(read') = 0
    BY <1>2
  <2>3. \A i \in 1..Len(read') : read'[i] = key'
    BY <2>2
  <2>4. \A c \in DOMAIN hashes' : hashes'[c] = Whole(c)
    BY <1>3 DEF HashInv
  <2> QED BY <1>3, <2>1, <2>3, <2>4 DEF HashInv, Whole
<1>6. SignatureInv'
  BY <1>1, <1>3 DEF SignatureInv, Verifying
<1> QED BY <1>2, <1>4, <1>5, <1>6, NothingRead

LEMMA HashReadKeeps ==
  ASSUME FilesInv, HashRead
  PROVE  FilesInv'
<1> USE DEF FilesInv
<1>1. /\ at = "hash read" /\ read' = Append(read, handle.content)
      /\ UNCHANGED <<target, written, at, key, handle, moved, failed, hashes, signatures>>
  BY DEF HashRead, caches
<1>2. FilesTypeOK'
  BY <1>1 DEF FilesTypeOK
<1>3. handle.content \in Targets /\ read \in Seq(Targets)
  BY HandleChanges DEF FilesTypeOK, ReadInv
<1>4. /\ read' \in Seq(Targets) /\ Len(read') = Len(read) + 1
      /\ \A i \in 1..Len(read) : read'[i] = read[i]
      /\ read'[Len(read) + 1] = handle.content
  <2>1. \A s \in Seq(Targets), c \in Targets :
          /\ Append(s, c) \in Seq(Targets) /\ Len(Append(s, c)) = Len(s) + 1
          /\ \A i \in 1..Len(s) : Append(s, c)[i] = s[i]
          /\ Append(s, c)[Len(s) + 1] = c
    BY AppendProperties
  <2>2. \A c \in Targets : read' = Append(read, c) =>
          /\ read' \in Seq(Targets) /\ Len(read') = Len(read) + 1
          /\ \A i \in 1..Len(read) : read'[i] = read[i]
          /\ read'[Len(read) + 1] = c
    BY <1>3, <2>1
  <2> QED BY ONLY <1>1, <1>3, <2>2
<1>5. ReadInv'
  BY <1>1, <1>4 DEF ReadInv
<1>6. HashInv'
  <2>1. ASSUME handle.content = key, NEW i \in 1..Len(read') PROVE read'[i] = key
    <3>1. i = Len(read) + 1 \/ i \in 1..Len(read)
      BY <1>3, <1>4, <2>1
    <3>2. \A j \in 1..Len(read) : read[j] = key
      BY <1>1, <2>1 DEF HashInv
    <3> QED BY <1>4, <2>1, <3>1, <3>2
  <2> QED BY <1>1, <2>1 DEF HashInv, Whole
<1>7. SignatureInv'
  BY <1>1 DEF SignatureInv
<1> QED BY <1>2, <1>5, <1>6, <1>7

LEMMA HashDoneKeeps ==
  ASSUME FilesInv, HashDone
  PROVE  FilesInv'
<1> USE DEF FilesInv
<1>1. /\ at = "hash read" /\ Len(read) = Chunks /\ at' = "hashed" /\ read' = <<>>
      /\ handle' = Closed
      /\ UNCHANGED <<target, written, key, moved, failed, signatures>>
  BY DEF HashDone, GoTo
<1>2. FilesTypeOK'
  BY <1>1, HandleTypes DEF FilesTypeOK, Targets, Hashing, Verifying
<1>3. \A c \in DOMAIN hashes' : hashes'[c] = Whole(c)
  <2>1. CASE handle.content # key
    BY <2>1 DEF HashDone, After, HashInv, Whole
  <2>2. CASE handle.content = key
    <3>1. \A i \in 1..Chunks : read[i] = key
      BY <1>1, <2>2 DEF HashInv
    <3>2. read \in [1..Len(read) -> Targets]
      BY LenProperties DEF ReadInv
    <3>3. read = Whole(key)
      BY <1>1, <3>1, <3>2 DEF Whole
    <3>4. hashes' = [c \in DOMAIN hashes \cup {key} |-> IF c = key THEN read ELSE hashes[c]]
      BY <2>2 DEF HashDone, After, Put
    <3> QED BY <3>3, <3>4 DEF HashInv
  <2> QED BY <2>1, <2>2
<1>4. HashInv'
  BY <1>1, <1>3 DEF HashInv, Hashing, Whole
<1>5. SignatureInv'
  BY <1>1 DEF SignatureInv, Verifying
<1> QED BY <1>1, <1>2, <1>4, <1>5, NothingRead

-----------------------------------------------------------------------------
(***************************************************************************)
(* The signature                                                           *)
(***************************************************************************)
LEMMA SignatureStatKeeps ==
  ASSUME FilesInv, SignatureStat
  PROVE  FilesInv'
<1> USE DEF FilesInv
<1>1. /\ key' = target /\ read' = <<>> /\ handle' = Closed
      /\ UNCHANGED <<target, written, failed, hashes, signatures>>
  BY DEF SignatureStat, GoTo, caches
<1>2. at' \in {"idle", "verify open"} /\ (at' = "verify open" => target # Missing)
  BY DEF SignatureStat, GoTo
<1>3. FilesTypeOK'
  BY <1>1, <1>2, HandleTypes DEF FilesTypeOK, Targets, Hashing, Verifying
<1>4. HashInv'
  BY <1>1, <1>2 DEF HashInv, Hashing, Whole
<1>5. SignatureInv'
  BY <1>1, <1>2 DEF SignatureInv, Verifying
<1> QED BY <1>1, <1>3, <1>4, <1>5, NothingRead

LEMMA VerifyOpenKeeps ==
  ASSUME FilesInv, VerifyOpen
  PROVE  FilesInv'
<1> USE DEF FilesInv
<1>1. at = "verify open" /\ OpenFor("embedded", "idle")
  BY DEF VerifyOpen
<1>2. read' = <<>>
  BY <1>1, OpenForOpens DEF ReadInv
<1>3. /\ UNCHANGED <<target, written, key, moved, hashes, signatures>>
      /\ \/ at' = "idle" /\ handle' = Closed
         \/ at' = "embedded" /\ target \in Contents /\ handle' = Opened(target)
  BY <1>1, OpenForOpens
<1>4. FilesTypeOK'
  BY <1>1, <1>3, HandleTypes DEF FilesTypeOK, Targets, Hashing, Verifying
<1>5. HashInv'
  BY <1>3 DEF HashInv, Hashing, Whole
<1>6. SignatureInv'
  BY <1>1, <1>3, HandleTypes DEF SignatureInv, Verifying, Targets
<1> QED BY <1>2, <1>4, <1>5, <1>6, NothingRead

\* A verdict is cached; it may be wrong only if something moved or failed.
LEMMA VerdictKeeps ==
  ASSUME FilesInv, NEW status, Verdict(status), at \in Verifying,
         ~moved /\ ~failed' => (status = "VALID" <=> Signed[key] # "none")
  PROVE  FilesInv'
<1> USE DEF FilesInv
<1>1. /\ at' = "idle" /\ read' = <<>> /\ handle' = Closed
      /\ UNCHANGED <<target, written, key, moved, hashes>>
      /\ signatures' =
           [c \in DOMAIN signatures \cup {key} |->
              IF c = key THEN [status |-> status, moved |-> moved, failed |-> failed']
              ELSE signatures[c]]
  BY DEF Verdict, GoTo, Put
<1>2. FilesTypeOK'
  BY <1>1, HandleTypes DEF FilesTypeOK, Targets, Hashing, Verifying
<1>3. HashInv'
  BY <1>1 DEF HashInv, Hashing, Whole
<1>4. SignatureInv'
  BY <1>1 DEF SignatureInv, Verifying
<1> QED BY <1>1, <1>2, <1>3, <1>4, NothingRead

LEMMA VerifyEmbeddedKeeps ==
  ASSUME FilesInv, VerifyEmbedded
  PROVE  FilesInv'
<1> USE DEF FilesInv
<1>1. at = "embedded" /\ key \in Contents /\ (~moved => handle.content = key)
  BY DEF VerifyEmbedded, FilesTypeOK, SignatureInv, Verifying
<1>2. CASE Signed[handle.content] = "embedded" /\ UNCHANGED failed /\ Verdict("VALID")
  BY <1>1, <1>2, VerdictKeeps DEF Verifying
<1>3. CASE failed' = TRUE /\ Verdict("UNKNOWN")
  BY <1>1, <1>3, VerdictKeeps DEF Verifying
<1>4. CASE /\ Signed[handle.content] # "embedded" /\ at' = "catalog"
           /\ UNCHANGED <<target, written, key, handle, read, moved, failed, caches>>
  <2>1. FilesTypeOK'
    BY <1>1, <1>4 DEF FilesTypeOK, Hashing, Verifying
  <2>2. ReadInv'
    BY <1>1, <1>4 DEF ReadInv
  <2>3. HashInv'
    BY <1>4 DEF HashInv, Hashing, Whole, caches
  <2>4. SignatureInv'
    BY <1>1, <1>4 DEF SignatureInv, Verifying, caches
  <2> QED BY <2>1, <2>2, <2>3, <2>4
<1> QED BY <1>2, <1>3, <1>4 DEF VerifyEmbedded

LEMMA VerifyCatalogKeeps ==
  ASSUME FilesInv, VerifyCatalog
  PROVE  FilesInv'
<1> USE DEF FilesInv
<1>1. /\ at = "catalog" /\ key \in Contents
      /\ ~moved => handle.content = key /\ Signed[key] # "embedded"
  BY DEF VerifyCatalog, FilesTypeOK, SignatureInv, Verifying
<1>2. CASE Signed[handle.content] = "catalog" /\ UNCHANGED failed /\ Verdict("VALID")
  BY <1>1, <1>2, VerdictKeeps DEF Verifying
<1>3. CASE /\ failed' = (failed \/ Signed[handle.content] = "catalog")
           /\ Verdict(IF Packaged THEN "UNKNOWN" ELSE "UNSIGNED")
  <2> DEFINE status == IF Packaged THEN "UNKNOWN" ELSE "UNSIGNED"
  <2>1. status # "VALID"
    OBVIOUS
  <2>2. ~moved /\ ~failed' => Signed[key] = "none"
    BY <1>1, <1>3, FilesAssumption DEF FilesAssumption
  <2>3. ~moved /\ ~failed' => (status = "VALID" <=> Signed[key] # "none")
    BY <2>1, <2>2
  <2>4. Verdict(status)
    BY <1>3
  <2> HIDE DEF status
  <2> QED BY <1>1, <2>3, <2>4, VerdictKeeps DEF Verifying
<1> QED BY <1>2, <1>3 DEF VerifyCatalog

-----------------------------------------------------------------------------
LEMMA FilesStep == FilesInv /\ [NextFiles]_filesVars => FilesInv'
<1> SUFFICES ASSUME FilesInv, [NextFiles]_filesVars PROVE FilesInv'
  OBVIOUS
<1>1. ASSUME UNCHANGED filesVars PROVE FilesInv'
  BY <1>1 DEF filesVars, FilesInv, FilesTypeOK, ReadInv, HashInv, SignatureInv, Whole
<1>2. ASSUME NEW c \in Contents, WriteInPlace(c) PROVE FilesInv'
  BY <1>2, WriteInPlaceKeeps
<1>3. ASSUME NEW c \in Targets, Replace(c) PROVE FilesInv'
  BY <1>3, ReplaceKeeps
<1> QED BY <1>1, <1>2, <1>3, HashStatKeeps, HashOpenKeeps, HashReadKeeps, HashDoneKeeps,
           SignatureStatKeeps, VerifyOpenKeeps, VerifyEmbeddedKeeps, VerifyCatalogKeeps
        DEF NextFiles, Targets

\* However the path and the file change while they are read (security/hashing.py), a
\* cached hash is that of the whole content with its fingerprint; and a cached signature
\* (security/signatures.py) is right unless something moved or a call failed meanwhile.
THEOREM CachedIdentityAlwaysTrue == FilesSpec => []CachedIdentityIsTrue
<1>1. FilesInv => CachedIdentityIsTrue
  BY DEF FilesInv, HashInv, SignatureInv, CachedIdentityIsTrue
<1> QED BY FilesInit, FilesStep, <1>1, PTL DEF FilesSpec


-----------------------------------------------------------------------------
(*****************************************************************************)
(* Sightings: what is reported as new, and what the tables show, for any       *)
(* sockets, autostart entries and processes, any sources, items and versions.  *)
(* Both monitors and the baselines are interleaved.                            *)
(*****************************************************************************)
NextSightings == (\E m \in Watchers : NextMonitor(m)) \/ NextBaseline
SightingsSpec == InitSightings /\ [][NextSightings]_sightingsVars

Event ==
  [type : {"discovered", "added", "removed", "changed"}, thing : Things, version : Versions]
Row == [version : Versions, gone : BOOLEAN]

\* Only autostart entries have more than one version.
Proper(S, f) == \A x \in S : x \in Autostarts \/ f[x] = 1
Snapshot(m, f) ==
  /\ DOMAIN f \in SUBSET Watched[m] /\ f \in [DOMAIN f -> Versions]
  /\ IsFiniteSet(DOMAIN f) /\ Proper(DOMAIN f, f)

SightingsTypeOK ==
  /\ world \in [Things -> Versions \cup {Absent, Over}] /\ Proper(There, world)
  /\ IsFiniteSet(There)
  /\ running \in BOOLEAN
  /\ held = [m \in Watchers |-> held[m]] /\ reading = [m \in Watchers |-> reading[m]]
  /\ \A m \in Watchers : held[m] = Nothing \/ Snapshot(m, held[m])
  /\ pending \in Seq(Event)
  /\ rows \in [Things -> Row \cup {Nothing}]

\* Held and HeldVersion of what the monitors hold, h.
HeldIn(h, x) == \E m \in Watchers : h[m] # Nothing /\ x \in DOMAIN h[m]
VersionIn(h, x) == h[CHOOSE m \in Watchers : x \in Watched[m]][x]

\* The i-th event of a queue is the last about its thing.
IsLast(q, i) == \A j \in (i + 1)..Len(q) : q[j].thing # q[i].thing
About(q, x) == \E i \in 1..Len(q) : q[i].thing = x
InForce(r, x) == r[x] # Nothing /\ ~r[x].gone

\* The last event about a thing says what its monitor holds of it.
QueueAgrees(q, h) ==
  \A i \in 1..Len(q) : IsLast(q, i) =>
    IF q[i].type = "removed" THEN ~HeldIn(h, q[i].thing)
    ELSE HeldIn(h, q[i].thing) /\ q[i].version = VersionIn(h, q[i].thing)

\* The row of a thing about which nothing waits says it.
RowsAgree(q, h, r, left) ==
  \A x \in Things : ~About(q, x) =>
    /\ InForce(r, x) => HeldIn(h, x) \/ x \in left
    /\ x \in Autostarts /\ HeldIn(h, x) => InForce(r, x) /\ r[x].version = VersionIn(h, x)

\* What is not reportable has neither event nor row.
NeverReported(q, r) == \A x \in Unreportable : r[x] = Nothing /\ ~About(q, x)

ReportInv ==
  /\ ~running => pending = <<>> /\ \A m \in Watchers : held[m] = Nothing
  /\ QueueAgrees(pending, held)
  /\ running => RowsAgree(pending, held, rows, leftover)
  /\ NeverReported(pending, rows)

\* The property's part about comparisons, of a state.
CallsNewTheUnknown == \A x \in Kept : ItemOf[x] \in compared => x \notin baseline.known

\* A snapshot has all that was there and could be read, and nothing else; a baseline has
\* the items of all that was there and could be read.
ReadingInv ==
  /\ \A m \in Watchers : held[m] # Nothing =>
       /\ DOMAIN held[m] \subseteq reading[m].there
       /\ \A x \in Watched[m] \ DOMAIN held[m] : NotThere(x, reading[m])
  /\ baseline # Nothing => Items(Kept \cap baseline.known) \subseteq baseline.items
  /\ baseline = Nothing => compared = {}
  /\ CallsNewTheUnknown

SightingsInv == SightingsTypeOK /\ ReportInv /\ ReadingInv

LEMMA WatchersAre ==
  /\ Watchers = {"network", "persistence"}
  /\ Watched["network"] = Sockets /\ Watched["persistence"] = Autostarts
  /\ \A m \in Watchers : Watched[m] \subseteq Things
BY DEF Watchers, Watched, Things, Kept

\* A thing is one monitor's.
LEMMA OneWatcher ==
  ASSUME NEW m \in Watchers, NEW n \in Watchers, NEW x \in Watched[m], x \in Watched[n]
  PROVE  m = n
BY WatchersAre, SightingsAssumption DEF SightingsAssumption

LEMMA HeldByItsMonitor ==
  ASSUME NEW h, \A m \in Watchers : h[m] = Nothing \/ Snapshot(m, h[m]),
         NEW m \in Watchers, NEW x \in Watched[m]
  PROVE  /\ HeldIn(h, x) <=> h[m] # Nothing /\ x \in DOMAIN h[m]
         /\ VersionIn(h, x) = h[m][x]
<1>1. \A n \in Watchers : x \in Watched[n] <=> n = m
  BY OneWatcher
<1>2. \A n \in Watchers : h[n] # Nothing => DOMAIN h[n] \subseteq Watched[n]
  BY DEF Snapshot
<1>3. (CHOOSE n \in Watchers : x \in Watched[n]) = m
  BY <1>1
<1> QED BY <1>1, <1>2, <1>3 DEF HeldIn, VersionIn

LEMMA SnapshotIsSomething ==
  ASSUME NEW m \in Watchers, NEW f, Snapshot(m, f)
  PROVE  f # Nothing
<1>1. DOMAIN f \in SUBSET Things
  BY WatchersAre DEF Snapshot
<1> QED BY <1>1, SightingsAssumption DEF Snapshot, SightingsAssumption

LEMMA HeldIs == \A x : (Held(x) <=> HeldIn(held, x)) /\ HeldVersion(x) = VersionIn(held, x)
BY DEF Held, HeldIn, HeldVersion, VersionIn

-----------------------------------------------------------------------------
\* The order that SetToSeq chooses has every element.
LEMMA SetToSeqProperties ==
  ASSUME NEW S, IsFiniteSet(S)
  PROVE  /\ SetToSeq(S) \in Seq(S) /\ Len(SetToSeq(S)) = Cardinality(S)
         /\ \A x \in S : \E i \in 1..Cardinality(S) : SetToSeq(S)[i] = x
<1> DEFINE n == Cardinality(S)
           f == SetToSeq(S)
<1>1. n \in Nat /\ Bijection(1..n, S) # {}
  BY FS_CardinalityType DEF ExistsBijection
<1>2. \E g \in [1..n -> S] : IsInjective(g)
  BY <1>1 DEF Bijection, Injection
<1>3. f \in [1..n -> S] /\ IsInjective(f)
  BY <1>2 DEF SetToSeq
<1>4. f \in Injection(1..n, S)
  BY <1>3 DEF Injection
<1>5. IsFiniteSet(1..n) /\ Cardinality(1..n) = n
  BY <1>1, FS_Interval
<1>6. f \in Surjection(1..n, S)
  <2> HIDE DEF f
  <2> QED BY <1>4, <1>5, FS_Injection
<1>7. \A x \in S : \E i \in 1..n : f[i] = x
  BY <1>6 DEF Surjection
<1>8. f \in Seq(S) /\ Len(f) = n
  <2> HIDE DEF f
  <2>1. f \in Seq(S)
    BY <1>1, <1>3, SeqDef
  <2>2. DOMAIN f = 1..n
    BY <1>3
  <2> QED BY <1>1, <2>1, <2>2, LenProperties
<1> QED BY <1>7, <1>8 DEF f, n

\* One event of the type for each thing.
AllOfThem(s, type, things, version) ==
  /\ s \in Seq(Event)
  /\ \A i \in 1..Len(s) :
       s[i].type = type /\ s[i].thing \in things /\ s[i].version = version[s[i].thing]
  /\ \A x \in things : About(s, x)

LEMMA EventsAreAll ==
  ASSUME NEW type \in {"discovered", "added", "removed", "changed"},
         NEW things \in SUBSET Things, IsFiniteSet(things),
         NEW version, \A x \in things : version[x] \in Versions
  PROVE  AllOfThem(Events(type, things, version), type, things, version)
<1> DEFINE n == Cardinality(things)
           order == SetToSeq(things)
           e(i) == [type |-> type, thing |-> order[i], version |-> version[order[i]]]
           s == Events(type, things, version)
<1>1. /\ n \in Nat /\ Len(order) = n /\ order \in Seq(things)
      /\ \A x \in things : \E i \in 1..n : order[i] = x
  BY SetToSeqProperties, FS_CardinalityType
<1> HIDE DEF order
<1>2. \A i \in 1..n : order[i] \in things
  BY <1>1, ElementOfSeq
<1> HIDE DEF n
<1>3. s = [i \in 1..n |-> e(i)]
  BY DEF Events, order, n
<1>4. \A i \in 1..n : e(i) \in Event
  BY <1>2 DEF Event
<1> HIDE DEF s
<1>5. s \in Seq(Event) /\ Len(s) = n
  <2>1. s \in [1..n -> Event]
    <3> HIDE DEF e
    <3> QED BY <1>3, <1>4
  <2>2. s \in Seq(Event)
    BY <1>1, <2>1, SeqDef
  <2> QED BY <1>1, <2>1, <2>2, LenProperties
<1>6. \A i \in 1..n :
        s[i].type = type /\ s[i].thing = order[i] /\ s[i].version = version[order[i]]
  BY <1>3
<1>7. \A x \in things : About(s, x)
  BY <1>1, <1>5, <1>6 DEF About
<1> QED BY <1>2, <1>5, <1>6, <1>7 DEF AllOfThem, s

LEMMA AboutBoth ==
  ASSUME NEW s \in Seq(Event), NEW t \in Seq(Event)
  PROVE  /\ s \o t \in Seq(Event)
         /\ \A i \in 1..Len(s \o t) :
              \/ i \in 1..Len(s) /\ (s \o t)[i] = s[i]
              \/ i > Len(s) /\ i - Len(s) \in 1..Len(t) /\ (s \o t)[i] = t[i - Len(s)]
         /\ Len(s \o t) = Len(s) + Len(t) /\ Len(s) \in Nat /\ Len(t) \in Nat
         /\ \A i \in 1..Len(s) : i \in 1..Len(s \o t) /\ (s \o t)[i] = s[i]
         /\ \A i \in 1..Len(t) :
              Len(s) + i \in 1..Len(s \o t) /\ (s \o t)[Len(s) + i] = t[i]
         /\ \A x : About(s \o t, x) <=> About(s, x) \/ About(t, x)
<1>1. /\ s \o t \in Seq(Event) /\ Len(s \o t) = Len(s) + Len(t)
      /\ \A i \in 1..(Len(s) + Len(t)) :
           (s \o t)[i] = IF i <= Len(s) THEN s[i] ELSE t[i - Len(s)]
      /\ Len(s) \in Nat /\ Len(t) \in Nat
  BY ConcatProperties, LenProperties
<1> DEFINE u == s \o t
<1>2. \A i \in 1..Len(u) :
        \/ i \in 1..Len(s) /\ u[i] = s[i]
        \/ i > Len(s) /\ i - Len(s) \in 1..Len(t) /\ u[i] = t[i - Len(s)]
  <2> HIDE DEF u
  <2> SUFFICES ASSUME NEW i \in 1..Len(u)
               PROVE  \/ i \in 1..Len(s) /\ u[i] = s[i]
                      \/ i > Len(s) /\ i - Len(s) \in 1..Len(t) /\ u[i] = t[i - Len(s)]
    OBVIOUS
  <2>1. i \in 1..(Len(s) + Len(t)) /\ u[i] = IF i <= Len(s) THEN s[i] ELSE t[i - Len(s)]
    BY <1>1 DEF u
  <2>2. CASE i <= Len(s)
    BY <1>1, <2>1, <2>2
  <2>3. CASE ~(i <= Len(s))
    BY <1>1, <2>1, <2>3
  <2> QED BY <2>2, <2>3
<1>3. \A i \in 1..Len(s) : i \in 1..Len(u) /\ u[i] = s[i]
  BY <1>1
<1>4. \A i \in 1..Len(t) : Len(s) + i \in 1..Len(u) /\ u[Len(s) + i] = t[i]
  <2> SUFFICES ASSUME NEW i \in 1..Len(t)
               PROVE  Len(s) + i \in 1..Len(u) /\ u[Len(s) + i] = t[i]
    OBVIOUS
  <2>1. /\ Len(s) + i \in 1..(Len(s) + Len(t)) /\ ~(Len(s) + i <= Len(s))
        /\ Len(s) + i - Len(s) = i
    BY <1>1
  <2> QED BY <1>1, <2>1
<1> HIDE DEF u
<1>5. \A x : About(u, x) <=> About(s, x) \/ About(t, x)
  <2> SUFFICES ASSUME NEW x PROVE About(u, x) <=> About(s, x) \/ About(t, x)
    OBVIOUS
  <2>1. ASSUME About(u, x) PROVE About(s, x) \/ About(t, x)
    BY <1>2, <2>1 DEF About
  <2>2. About(s, x) => About(u, x)
    BY <1>3 DEF About
  <2>3. About(t, x) => About(u, x)
    BY <1>4 DEF About
  <2> QED BY <2>1, <2>2, <2>3
<1> QED BY <1>1, <1>2, <1>3, <1>4, <1>5 DEF u

\* A queue with the events of two.
IsBoth(u, s, t) ==
  /\ u \in Seq(Event)
  /\ \A i \in 1..Len(u) : \/ \E j \in 1..Len(s) : u[i] = s[j]
                          \/ \E j \in 1..Len(t) : u[i] = t[j]
  /\ \A i \in 1..Len(s) : i \in 1..Len(u) /\ u[i] = s[i]
  /\ \A x : About(u, x) <=> About(s, x) \/ About(t, x)

LEMMA PartsOfBoth ==
  ASSUME NEW s \in Seq(Event), NEW t \in Seq(Event)
  PROVE  IsBoth(s \o t, s, t)
<1> DEFINE u == s \o t
<1>1. ASSUME NEW i \in 1..Len(u)
      PROVE  (\E j \in 1..Len(s) : u[i] = s[j]) \/ (\E j \in 1..Len(t) : u[i] = t[j])
  <2>1. \/ i \in 1..Len(s) /\ u[i] = s[i]
        \/ i - Len(s) \in 1..Len(t) /\ u[i] = t[i - Len(s)]
    BY AboutBoth
  <2> HIDE DEF u
  <2> QED BY ONLY <2>1
<1>2. u \in Seq(Event)
  BY AboutBoth
<1>3. \A i \in 1..Len(s) : i \in 1..Len(u) /\ u[i] = s[i]
  BY AboutBoth
<1>4. \A x : About(u, x) <=> About(s, x) \/ About(t, x)
  BY AboutBoth
<1> HIDE DEF u
<1>5. IsBoth(u, s, t)
  BY ONLY <1>1, <1>2, <1>3, <1>4 DEF IsBoth
<1> QED BY <1>5 DEF u

\* What a monitor reports is how its snapshot differs from the one before: each event
\* says what the new snapshot has, and what no event is about is in both or in neither.
Tells(d, m, before, now) ==
  /\ d \in Seq(Event)
  /\ \A i \in 1..Len(d) :
       /\ d[i].thing \in Watched[m] \ Unreportable
       /\ IF d[i].type = "removed" THEN d[i].thing \notin DOMAIN now
          ELSE d[i].thing \in DOMAIN now /\ d[i].version = now[d[i].thing]
       /\ d[i].type = "added" => before # Nothing /\ d[i].thing \notin DOMAIN before
  /\ before = Nothing => \A x \in Reportable(DOMAIN now) : About(d, x)
  /\ before # Nothing =>
       /\ \A x \in Reportable(DOMAIN now \ DOMAIN before) :
            \E i \in 1..Len(d) : d[i].thing = x /\ d[i].type = "added"
       /\ \A x \in Reportable(DOMAIN before \ DOMAIN now) : About(d, x)
       /\ \A x \in DOMAIN before \cap DOMAIN now : About(d, x) \/ before[x] = now[x]

LEMMA DiffTells ==
  ASSUME NEW m \in Watchers, NEW before, before = Nothing \/ Snapshot(m, before),
         NEW now, Snapshot(m, now)
  PROVE  Tells(Diff(before, now), m, before, now)
<1> DEFINE d == Diff(before, now)
<1>1. /\ Watched[m] \subseteq Things
      /\ IsFiniteSet(DOMAIN now) /\ DOMAIN now \subseteq Watched[m]
      /\ \A x \in DOMAIN now : now[x] \in Versions
  BY WatchersAre DEF Snapshot
<1>2. CASE before = Nothing
  <2>1. d = Events("discovered", Reportable(DOMAIN now), now)
    BY <1>2 DEF Diff
  <2>2. /\ Reportable(DOMAIN now) \subseteq DOMAIN now
        /\ \A x \in Reportable(DOMAIN now) : x \notin Unreportable
        /\ IsFiniteSet(Reportable(DOMAIN now))
    BY <1>1, FS_Subset DEF Reportable
  <2> HIDE DEF d
  <2>3. AllOfThem(d, "discovered", Reportable(DOMAIN now), now)
    BY <1>1, <2>1, <2>2, EventsAreAll
  <2>4. \A i \in 1..Len(d) :
          /\ d[i].type = "discovered" /\ d[i].thing \in Reportable(DOMAIN now)
          /\ d[i].version = now[d[i].thing]
    BY <2>3 DEF AllOfThem
  <2> QED BY <1>1, <1>2, <2>2, <2>3, <2>4 DEF AllOfThem, Tells, d
<1>3. CASE before # Nothing
  <2> DEFINE added == Reportable(DOMAIN now \ DOMAIN before)
             removed == Reportable(DOMAIN before \ DOMAIN now)
             changed == {x \in DOMAIN before \cap DOMAIN now : before[x] # now[x]}
             a == Events("added", added, now)
             r == Events("removed", removed, before)
             c == Events("changed", changed, now)
  <2>1. /\ IsFiniteSet(DOMAIN before) /\ DOMAIN before \subseteq Watched[m]
        /\ \A x \in DOMAIN before : before[x] \in Versions
    BY <1>3 DEF Snapshot
  <2>2. d = (a \o r) \o c
    BY <1>3 DEF Diff
  <2>3. /\ added \subseteq DOMAIN now /\ IsFiniteSet(added)
        /\ \A x \in added : x \notin Unreportable /\ x \notin DOMAIN before
    BY <1>1, FS_Subset DEF Reportable
  <2>4. /\ removed \subseteq DOMAIN before /\ IsFiniteSet(removed)
        /\ \A x \in removed : x \notin Unreportable /\ x \notin DOMAIN now
    BY <2>1, FS_Subset DEF Reportable
  <2>5. /\ changed \subseteq DOMAIN now /\ IsFiniteSet(changed)
        /\ \A x \in changed : x \notin Unreportable
    <3>1. changed \subseteq DOMAIN now
      OBVIOUS
    <3>2. ASSUME NEW x \in changed PROVE x \notin Unreportable
      <4>1. Proper(DOMAIN before, before) /\ Proper(DOMAIN now, now)
        BY <1>3 DEF Snapshot
      <4>2. x \in Autostarts
        BY <4>1 DEF Proper
      <4> QED BY <4>2, SightingsAssumption DEF SightingsAssumption
    <3> QED BY <1>1, <3>1, <3>2, FS_Subset
  <2> HIDE DEF added, removed, changed, a, r, c, d
  <2>6. AllOfThem(a, "added", added, now)
    BY <1>1, <2>3, EventsAreAll DEF a
  <2>7. AllOfThem(r, "removed", removed, before)
    BY <1>1, <2>1, <2>4, EventsAreAll DEF r
  <2>8. AllOfThem(c, "changed", changed, now)
    BY <1>1, <2>5, EventsAreAll DEF c
  <2> DEFINE ar == a \o r
  <2>9. a \in Seq(Event) /\ r \in Seq(Event) /\ c \in Seq(Event)
    BY <2>6, <2>7, <2>8 DEF AllOfThem
  <2>10. IsBoth(ar, a, r)
    BY <2>9, PartsOfBoth
  <2>11. IsBoth(d, ar, c)
    <3>1. ar \in Seq(Event)
      BY <2>10 DEF IsBoth
    <3> HIDE DEF ar
    <3>2. IsBoth(ar \o c, ar, c)
      BY <2>9, <3>1, PartsOfBoth
    <3> QED BY <2>2, <3>2 DEF ar
  <2> HIDE DEF ar
  <2>12. ASSUME NEW i \in 1..Len(d)
         PROVE  \/ \E j \in 1..Len(a) : d[i] = a[j]
                \/ \E j \in 1..Len(r) : d[i] = r[j]
                \/ \E j \in 1..Len(c) : d[i] = c[j]
    <3>1. \/ \E j \in 1..Len(ar) : d[i] = ar[j]
          \/ \E j \in 1..Len(c) : d[i] = c[j]
      BY <2>11 DEF IsBoth
    <3>2. ASSUME NEW j \in 1..Len(ar), d[i] = ar[j]
          PROVE  (\E k \in 1..Len(a) : d[i] = a[k]) \/ (\E k \in 1..Len(r) : d[i] = r[k])
      BY <2>10, <3>2 DEF IsBoth
    <3> QED BY <3>1, <3>2
  <2>13. ASSUME NEW i \in 1..Len(d)
         PROVE  /\ d[i].thing \in Watched[m] \ Unreportable
                /\ IF d[i].type = "removed" THEN d[i].thing \notin DOMAIN now
                   ELSE d[i].thing \in DOMAIN now /\ d[i].version = now[d[i].thing]
                /\ d[i].type = "added" => before # Nothing /\ d[i].thing \notin DOMAIN before
    <3>1. CASE \E j \in 1..Len(a) : d[i] = a[j]
      BY <1>1, <1>3, <2>3, <2>6, <3>1 DEF AllOfThem
    <3>2. CASE \E j \in 1..Len(r) : d[i] = r[j]
      BY <2>1, <2>4, <2>7, <3>2 DEF AllOfThem
    <3>3. CASE \E j \in 1..Len(c) : d[i] = c[j]
      BY <1>1, <2>5, <2>8, <3>3 DEF AllOfThem
    <3> QED BY <2>12, <3>1, <3>2, <3>3
  <2>14. \A x \in added : \E i \in 1..Len(d) : d[i].thing = x /\ d[i].type = "added"
    <3> SUFFICES ASSUME NEW x \in added
                 PROVE  \E i \in 1..Len(d) : d[i].thing = x /\ d[i].type = "added"
      OBVIOUS
    <3>1. PICK i \in 1..Len(a) : a[i].thing = x /\ a[i].type = "added"
      BY <2>6 DEF AllOfThem, About
    <3>2. i \in 1..Len(d) /\ d[i] = a[i]
      BY <2>10, <2>11 DEF IsBoth
    <3> QED BY <3>1, <3>2
  <2>15. \A x \in removed : About(d, x)
    BY <2>7, <2>10, <2>11 DEF AllOfThem, IsBoth
  <2>16. \A x \in DOMAIN before \cap DOMAIN now : About(d, x) \/ before[x] = now[x]
    BY <2>8, <2>11 DEF AllOfThem, IsBoth, changed
  <2>17. d \in Seq(Event)
    BY <2>11 DEF IsBoth
  <2> QED BY <1>3, <2>17, <2>13, <2>14, <2>15, <2>16 DEF Tells, d, added, removed
<1> QED BY <1>2, <1>3

-----------------------------------------------------------------------------
LEMMA SightingsInit == InitSightings => SightingsInv
<1> SUFFICES ASSUME InitSightings PROVE SightingsInv
  OBVIOUS
<1> USE DEF InitSightings
<1>1. There = {} /\ IsFiniteSet({})
  BY FS_EmptySet DEF There
<1>2. pending = <<>> /\ <<>> \in Seq(Event) /\ Len(<<>>) = 0
  BY EmptySeq
<1>3. SightingsTypeOK
  BY <1>1, <1>2 DEF SightingsTypeOK, Proper
<1>4. ReportInv
  BY <1>2, SightingsAssumption
     DEF ReportInv, QueueAgrees, NeverReported, About, SightingsAssumption, Things, Kept
<1>5. ReadingInv
  BY DEF ReadingInv, CallsNewTheUnknown
<1> QED BY <1>3, <1>4, <1>5 DEF SightingsInv

LEMMA ChangeKeeps ==
  ASSUME SightingsInv, NEW x \in Things, Change(x)
  PROVE  SightingsInv'
<1> USE DEF SightingsInv
<1>1. /\ running' = running /\ held' = held /\ reading' = reading /\ pending' = pending
      /\ rows' = rows /\ leftover' = leftover /\ baseline' = baseline /\ compared' = compared
  BY DEF Change
<1>2. PICK v \in Versions \cup {Absent, Over} :
        /\ world' = [world EXCEPT ![x] = v]
        /\ v \in {Absent, Over} \/ x \in Autostarts \/ v = 1
  BY DEF Change
<1>3. /\ world' \in [Things -> Versions \cup {Absent, Over}]
      /\ world'[x] = v /\ \A y \in Things \ {x} : world'[y] = world[y]
  BY <1>2 DEF SightingsTypeOK
<1>4. /\ There' \subseteq There \cup {x}
      /\ \A y \in There' : y \in There \/ y = x
  BY <1>3 DEF There
<1>5. Proper(There', world')
  BY <1>2, <1>3, <1>4 DEF Proper, SightingsTypeOK, There
<1>6. IsFiniteSet(There')
  BY <1>4, FS_AddElement, FS_Subset DEF SightingsTypeOK
<1>7. SightingsTypeOK'
  BY <1>1, <1>3, <1>5, <1>6 DEF SightingsTypeOK
<1>8. ReportInv'
  BY <1>1 DEF ReportInv
<1>9. ReadingInv'
  BY <1>1 DEF ReadingInv, CallsNewTheUnknown, NotThere
<1> QED BY <1>7, <1>8, <1>9

LEMMA StartMonitorKeeps == ASSUME SightingsInv, StartMonitor PROVE SightingsInv'
<1> USE DEF SightingsInv
<1>1. /\ world' = world /\ held' = held /\ reading' = reading /\ pending' = pending
      /\ baseline' = baseline /\ compared' = compared
      /\ ~running /\ running'
  BY DEF StartMonitor
<1>2. PICK expired \in SUBSET Sockets :
        rows' = [x \in Things |-> IF x \in expired THEN Nothing ELSE rows[x]]
  BY DEF StartMonitor
<1>3. leftover' = {x \in Things : InForce(rows', x)}
  BY DEF StartMonitor, InForce
<1>4. rows' \in [Things -> Row \cup {Nothing}]
  BY <1>2 DEF SightingsTypeOK
<1>5. SightingsTypeOK'
  BY <1>1, <1>4 DEF SightingsTypeOK, There
<1>6. pending = <<>> /\ \A m \in Watchers : held[m] = Nothing
  BY <1>1 DEF ReportInv
<1>7. RowsAgree(pending, held, rows', leftover')
  BY <1>3, <1>6 DEF RowsAgree, HeldIn
<1>8. NeverReported(pending, rows')
  BY <1>2, SightingsAssumption DEF ReportInv, NeverReported, SightingsAssumption, Things, Kept
<1>9. ReportInv'
  BY <1>1, <1>7, <1>8 DEF ReportInv
<1>10. ReadingInv'
  BY <1>1 DEF ReadingInv, CallsNewTheUnknown, NotThere
<1> QED BY <1>5, <1>9, <1>10

LEMMA EndMonitorKeeps == ASSUME SightingsInv, EndMonitor PROVE SightingsInv'
<1> USE DEF SightingsInv
<1>1. /\ world' = world /\ rows' = rows /\ baseline' = baseline /\ compared' = compared
      /\ ~running' /\ pending' = <<>> /\ running' \in BOOLEAN
      /\ held' = [m \in Watchers |-> Nothing] /\ reading' = [m \in Watchers |-> Nothing]
  BY DEF EndMonitor
<1>2. <<>> \in Seq(Event) /\ Len(<<>>) = 0
  BY EmptySeq
<1>3. SightingsTypeOK'
  BY <1>1, <1>2 DEF SightingsTypeOK, There
<1>4. \A x : ~About(<<>>, x)
  BY <1>2 DEF About
<1>5. ReportInv'
  BY <1>1, <1>2, <1>4 DEF ReportInv, QueueAgrees, NeverReported
<1>6. ReadingInv'
  BY <1>1 DEF ReadingInv, CallsNewTheUnknown, NotThere
<1> QED BY <1>3, <1>5, <1>6

LEMMA BaselineKeeps ==
  ASSUME SightingsInv, NEW unread, Create(unread) \/ Compare(unread) \/ Delete
  PROVE  SightingsInv'
<1> USE DEF SightingsInv
<1>1. /\ world' = world /\ running' = running /\ held' = held /\ reading' = reading
      /\ pending' = pending /\ rows' = rows /\ leftover' = leftover
  BY DEF Create, Compare, Delete
<1>2. SightingsTypeOK' /\ ReportInv'
  BY <1>1 DEF SightingsTypeOK, ReportInv, There
<1>3. \A m \in Watchers : held[m] # Nothing =>
        /\ DOMAIN held[m] \subseteq reading[m].there
        /\ \A x \in Watched[m] \ DOMAIN held[m] : NotThere(x, reading[m])
  BY DEF ReadingInv
<1>4. ASSUME Create(unread) PROVE ReadingInv'
  <2>1. PICK S \in Seen(Kept, unread) :
          baseline' = [items |-> Items(S), known |-> Readable(Kept, unread)]
    BY <1>4 DEF Create
  <2>2. compared' = {}
    BY <1>4 DEF Create, ReadingInv
  <2>3. Readable(Kept, unread) \subseteq S
    BY DEF Seen
  <2>4. Items(Kept \cap baseline'.known) \subseteq baseline'.items
    BY <2>1, <2>3 DEF Items
  <2> QED BY <1>1, <1>3, <2>2, <2>4 DEF ReadingInv, CallsNewTheUnknown, NotThere
<1>5. ASSUME Compare(unread) PROVE ReadingInv'
  <2>1. baseline' = baseline /\ baseline # Nothing
    BY <1>5 DEF Compare
  <2>2. PICK S \in Seen(Kept, unread) : compared' = Items(S) \ baseline.items
    BY <1>5 DEF Compare
  <2>3. ASSUME NEW x \in Kept, x \in baseline.known PROVE ItemOf[x] \in baseline.items
    BY <2>1, <2>3 DEF ReadingInv, Items
  <2>4. CallsNewTheUnknown'
    BY <2>1, <2>2, <2>3 DEF CallsNewTheUnknown
  <2> QED BY <1>1, <1>3, <2>1, <2>4 DEF ReadingInv, NotThere
<1>6. ASSUME Delete PROVE ReadingInv'
  BY <1>1, <1>3, <1>6 DEF Delete, ReadingInv, CallsNewTheUnknown, NotThere
<1> QED BY <1>2, <1>4, <1>5, <1>6

\* What a poll does, in terms of the snapshot it takes.
PollTakes(m, unread, now) ==
  /\ Snapshot(m, now) /\ DOMAIN now \subseteq There
  /\ \A x \in Watched[m] \ DOMAIN now : x \notin There \/ Source[x] \in unread
  /\ pending' = pending \o Diff(held[m], now)
  /\ held' = [held EXCEPT ![m] = now]
  /\ leftover' = leftover \ DOMAIN now
  /\ reading' = [reading EXCEPT ![m] = [there |-> There, failed |-> unread]]
  /\ UNCHANGED <<world, running, rows, baseline, compared>>
  /\ running

LEMMA PollTakesASnapshot ==
  ASSUME SightingsInv, NEW m \in Watchers, NEW unread, Poll(m, unread)
  PROVE  \E now : PollTakes(m, unread, now)
<1>1. PICK S \in Seen(Watched[m], unread) :
        LET now == [x \in S |-> world[x]]
        IN  /\ pending' = pending \o Diff(held[m], now)
            /\ held' = [held EXCEPT ![m] = NextHeld(@, now, unread)]
            /\ leftover' = leftover \ S
  BY DEF Poll
<1> DEFINE now == [x \in S |-> world[x]]
<1>2. S \subseteq There \cap Watched[m] /\ S \subseteq Things
  BY WatchersAre DEF Seen, Readable
<1>3. /\ DOMAIN now = S /\ \A x \in S : now[x] = world[x]
      /\ \A x \in S : world[x] \in Versions
  BY <1>2 DEF SightingsInv, SightingsTypeOK, There
<1>4. now \in [S -> Versions]
  BY <1>3
<1>5. IsFiniteSet(S)
  BY <1>2, FS_Subset DEF SightingsInv, SightingsTypeOK
<1>6. Proper(S, now)
  BY <1>2, <1>3 DEF SightingsInv, SightingsTypeOK, Proper
<1>7. Snapshot(m, now)
  <2> HIDE DEF now
  <2> QED BY <1>2, <1>3, <1>4, <1>5, <1>6 DEF Snapshot
<1>8. \A x \in Watched[m] \ S : x \notin There \/ Source[x] \in unread
  BY DEF Seen, Readable
<1>9. /\ pending' = pending \o Diff(held[m], now)
      /\ held' = [held EXCEPT ![m] = now]
      /\ leftover' = leftover \ S
  BY <1>1 DEF NextHeld
<1>10. /\ reading' = [reading EXCEPT ![m] = [there |-> There, failed |-> unread]]
       /\ UNCHANGED <<world, running, rows, baseline, compared>>
       /\ running
  BY DEF Poll, Reading
<1> HIDE DEF now
<1>11. PollTakes(m, unread, now)
  BY <1>2, <1>3, <1>7, <1>8, <1>9, <1>10 DEF PollTakes
<1> QED BY <1>11

\* After a poll: a thing of which it reports nothing is held as before.
HoldsNow(h, m, now, d) ==
  /\ h = [n \in Watchers |-> h[n]]
  /\ \A n \in Watchers : h[n] = Nothing \/ Snapshot(n, h[n])
  /\ h[m] = now /\ \A n \in Watchers : n # m => h[n] = held[n]
  /\ \A x \in Watched[m] :
       /\ HeldIn(h, x) <=> x \in DOMAIN now
       /\ VersionIn(h, x) = now[x]
  /\ \A x \in Things \ Unreportable : ~About(d, x) =>
       /\ HeldIn(h, x) <=> HeldIn(held, x)
       /\ HeldIn(held, x) => VersionIn(h, x) = VersionIn(held, x)

LEMMA PollHolds ==
  ASSUME SightingsInv, NEW m \in Watchers, NEW now, Snapshot(m, now),
         NEW h, h = [held EXCEPT ![m] = now]
  PROVE  HoldsNow(h, m, now, Diff(held[m], now))
<1> DEFINE d == Diff(held[m], now)
<1>1. /\ held = [n \in Watchers |-> held[n]]
      /\ \A n \in Watchers : held[n] = Nothing \/ Snapshot(n, held[n])
  BY DEF SightingsInv, SightingsTypeOK
<1>2. h[m] = now /\ \A n \in Watchers : n # m => h[n] = held[n]
  BY <1>1
<1>3. h = [n \in Watchers |-> h[n]]
  <2>1. DOMAIN held = Watchers /\ DOMAIN h = DOMAIN held
    BY <1>1
  <2>2. h = [n \in DOMAIN h |-> h[n]]
    OBVIOUS
  <2> QED BY <2>1, <2>2
<1>4. \A n \in Watchers : h[n] = Nothing \/ Snapshot(n, h[n])
  BY <1>1, <1>2
<1>5. now # Nothing
  BY SnapshotIsSomething
<1>6. \A x \in Watched[m] : /\ HeldIn(h, x) <=> x \in DOMAIN now
                            /\ VersionIn(h, x) = now[x]
  <2> SUFFICES ASSUME NEW x \in Watched[m]
               PROVE  (HeldIn(h, x) <=> x \in DOMAIN now) /\ VersionIn(h, x) = now[x]
    OBVIOUS
  <2>1. (HeldIn(h, x) <=> h[m] # Nothing /\ x \in DOMAIN h[m]) /\ VersionIn(h, x) = h[m][x]
    BY <1>4, HeldByItsMonitor
  <2> QED BY <1>2, <1>5, <2>1
<1>7. ASSUME NEW x \in Things \ Unreportable, ~About(d, x)
      PROVE  /\ HeldIn(h, x) <=> HeldIn(held, x)
             /\ HeldIn(held, x) => VersionIn(h, x) = VersionIn(held, x)
  <2>1. CASE x \in Watched[m]
    <3>1. /\ HeldIn(held, x) <=> held[m] # Nothing /\ x \in DOMAIN held[m]
          /\ VersionIn(held, x) = held[m][x]
      BY <1>1, <2>1, HeldByItsMonitor
    <3>4. Tells(d, m, held[m], now)
      BY <1>1, DiffTells
    <3> HIDE DEF d
    <3>2. held[m] = Nothing => x \notin DOMAIN now
      BY <1>7, <3>4 DEF Reportable, Tells
    <3>3. held[m] # Nothing => /\ x \in DOMAIN held[m] <=> x \in DOMAIN now
                               /\ x \in DOMAIN now => held[m][x] = now[x]
      <4> SUFFICES ASSUME held[m] # Nothing
                   PROVE  /\ x \in DOMAIN held[m] <=> x \in DOMAIN now
                          /\ x \in DOMAIN now => held[m][x] = now[x]
        OBVIOUS
      <4>1. /\ \A y \in Reportable(DOMAIN now \ DOMAIN held[m]) : About(d, y)
            /\ \A y \in Reportable(DOMAIN held[m] \ DOMAIN now) : About(d, y)
            /\ \A y \in DOMAIN held[m] \cap DOMAIN now :
                 About(d, y) \/ held[m][y] = now[y]
        BY <3>4 DEF About, Tells
      <4> QED BY <1>7, <4>1 DEF Reportable
    <3> QED BY <1>6, <2>1, <3>1, <3>2, <3>3
  <2>2. CASE x \notin Watched[m]
    <3>1. CASE \E n \in Watchers : x \in Watched[n]
      <4>1. PICK n \in Watchers : x \in Watched[n]
        BY <3>1
      <4>2. n # m
        BY <2>2, <4>1
      <4>3. /\ HeldIn(held, x) <=> held[n] # Nothing /\ x \in DOMAIN held[n]
            /\ VersionIn(held, x) = held[n][x]
        BY <1>1, <4>1, HeldByItsMonitor
      <4>4. /\ HeldIn(h, x) <=> h[n] # Nothing /\ x \in DOMAIN h[n]
            /\ VersionIn(h, x) = h[n][x]
        BY <1>4, <4>1, HeldByItsMonitor
      <4> QED BY <1>2, <4>2, <4>3, <4>4
    <3>2. CASE \A n \in Watchers : x \notin Watched[n]
      BY <1>1, <1>4, <3>2 DEF HeldIn, Snapshot
    <3> QED BY <3>1, <3>2
  <2> QED BY <2>1, <2>2
<1> QED BY <1>2, <1>3, <1>4, <1>6, <1>7 DEF HoldsNow

LEMMA PollKeeps ==
  ASSUME SightingsInv, NEW m \in Watchers, NEW unread, Poll(m, unread)
  PROVE  SightingsInv'
<1>1. PICK now : PollTakes(m, unread, now)
  BY PollTakesASnapshot
<1> DEFINE d == Diff(held[m], now)
           q == pending
           u == q \o d
<1>2. /\ Snapshot(m, now) /\ DOMAIN now \subseteq There
      /\ \A x \in Watched[m] \ DOMAIN now : x \notin There \/ Source[x] \in unread
      /\ pending' = u /\ held' = [held EXCEPT ![m] = now]
      /\ leftover' = leftover \ DOMAIN now
      /\ reading' = [reading EXCEPT ![m] = [there |-> There, failed |-> unread]]
      /\ world' = world /\ running' = running /\ rows' = rows /\ baseline' = baseline
      /\ compared' = compared /\ running
  BY <1>1 DEF PollTakes
<1>3. HoldsNow(held', m, now, d)
  BY <1>2, PollHolds
<1>4. Tells(d, m, held[m], now)
  <2>1. held[m] = Nothing \/ Snapshot(m, held[m])
    BY DEF SightingsInv, SightingsTypeOK
  <2> QED BY <1>2, <2>1, DiffTells
<1>5. q \in Seq(Event)
  BY DEF SightingsInv, SightingsTypeOK
<1> HIDE DEF d, q, u
<1>6. /\ u \in Seq(Event) /\ Len(u) = Len(q) + Len(d) /\ Len(q) \in Nat /\ Len(d) \in Nat
      /\ \A i \in 1..Len(u) : \/ i \in 1..Len(q) /\ u[i] = q[i]
                              \/ i - Len(q) \in 1..Len(d) /\ u[i] = d[i - Len(q)]
      /\ \A i \in 1..Len(q) : i \in 1..Len(u) /\ u[i] = q[i]
      /\ \A i \in 1..Len(d) : Len(q) + i \in 1..Len(u) /\ u[Len(q) + i] = d[i]
      /\ \A x : About(u, x) <=> About(q, x) \/ About(d, x)
  BY <1>4, <1>5, AboutBoth DEF Tells, u
<1>7. SightingsTypeOK'
  <2>1. reading' = [n \in Watchers |-> reading'[n]]
    <3>1. DOMAIN reading = Watchers /\ DOMAIN reading' = DOMAIN reading
      BY <1>2 DEF SightingsInv, SightingsTypeOK
    <3>2. reading' = [n \in DOMAIN reading' |-> reading'[n]]
      BY <1>2
    <3> QED BY <3>1, <3>2
  <2> QED BY <1>2, <1>3, <1>6, <2>1 DEF HoldsNow, SightingsInv, SightingsTypeOK, There
<1>8. QueueAgrees(u, held')
  <2> SUFFICES ASSUME NEW i \in 1..Len(u), IsLast(u, i)
               PROVE  IF u[i].type = "removed" THEN ~HeldIn(held', u[i].thing)
                      ELSE /\ HeldIn(held', u[i].thing)
                           /\ u[i].version = VersionIn(held', u[i].thing)
    BY DEF QueueAgrees
  <2>1. CASE i - Len(q) \in 1..Len(d) /\ u[i] = d[i - Len(q)]
    BY <1>3, <1>4, <2>1 DEF HoldsNow, Tells
  <2>2. CASE i \in 1..Len(q) /\ u[i] = q[i]
    <3>1. IsLast(q, i)
      <4> SUFFICES ASSUME NEW j \in (i + 1)..Len(q) PROVE q[j].thing # q[i].thing
        BY DEF IsLast
      <4>1. j \in (i + 1)..Len(u) /\ j \in 1..Len(q)
        BY <1>6, <2>2
      <4> QED BY <1>6, <2>2, <4>1 DEF IsLast
    <3>2. ~About(d, q[i].thing)
      <4> SUFFICES ASSUME NEW j \in 1..Len(d), d[j].thing = q[i].thing PROVE FALSE
        BY DEF About
      <4>1. Len(q) + j \in (i + 1)..Len(u) /\ u[Len(q) + j] = d[j]
        BY <1>6, <2>2
      <4> QED BY <2>2, <4>1 DEF IsLast
    <3>3. q[i] \in Event
      BY <1>5, <2>2, ElementOfSeq
    <3>4. q[i].thing \in Things \ Unreportable
      <4>1. q[i].thing \in Things
        BY <3>3 DEF Event
      <4>2. About(q, q[i].thing)
        BY <2>2 DEF About
      <4> QED BY <4>1, <4>2 DEF SightingsInv, ReportInv, NeverReported, q
    <3>5. IF q[i].type = "removed" THEN ~HeldIn(held, q[i].thing)
          ELSE HeldIn(held, q[i].thing) /\ q[i].version = VersionIn(held, q[i].thing)
      BY <2>2, <3>1 DEF SightingsInv, ReportInv, QueueAgrees, q
    <3> QED BY <1>3, <2>2, <3>2, <3>4, <3>5 DEF HoldsNow
  <2> QED BY <1>6, <2>1, <2>2
<1>9. RowsAgree(u, held', rows, leftover \ DOMAIN now)
  <2> SUFFICES ASSUME NEW x \in Things, ~About(u, x)
               PROVE  /\ InForce(rows, x) => HeldIn(held', x) \/ x \in leftover \ DOMAIN now
                      /\ x \in Autostarts /\ HeldIn(held', x) =>
                           InForce(rows, x) /\ rows[x].version = VersionIn(held', x)
    BY DEF RowsAgree
  <2>1. ~About(q, x) /\ ~About(d, x)
    BY <1>6
  <2>2. CASE x \in Unreportable
    BY <2>2, SightingsAssumption
       DEF SightingsInv, ReportInv, NeverReported, InForce, SightingsAssumption
  <2>3. CASE x \notin Unreportable
    <3>1. /\ InForce(rows, x) => HeldIn(held, x) \/ x \in leftover
          /\ x \in Autostarts /\ HeldIn(held, x) =>
               InForce(rows, x) /\ rows[x].version = VersionIn(held, x)
      BY <1>2, <2>1 DEF SightingsInv, ReportInv, RowsAgree, q
    <3>2. /\ HeldIn(held', x) <=> HeldIn(held, x)
          /\ HeldIn(held, x) => VersionIn(held', x) = VersionIn(held, x)
      BY <1>3, <2>1, <2>3 DEF HoldsNow
    <3>3. x \in DOMAIN now => HeldIn(held', x)
      BY <1>2, <1>3 DEF HoldsNow, Snapshot
    <3> QED BY <3>1, <3>2, <3>3
  <2> QED BY <2>2, <2>3
<1>10. NeverReported(u, rows)
  <2> SUFFICES ASSUME NEW x \in Unreportable PROVE rows[x] = Nothing /\ ~About(u, x)
    BY DEF NeverReported
  <2>1. rows[x] = Nothing /\ ~About(q, x)
    BY DEF SightingsInv, ReportInv, NeverReported, q
  <2>2. ~About(d, x)
    BY <1>4 DEF Tells, About
  <2> QED BY <1>6, <2>1, <2>2
<1>11. ReportInv'
  BY <1>2, <1>8, <1>9, <1>10 DEF ReportInv
<1>12. ReadingInv'
  <2>1. ASSUME NEW n \in Watchers, held'[n] # Nothing
        PROVE  /\ DOMAIN held'[n] \subseteq reading'[n].there
               /\ \A x \in Watched[n] \ DOMAIN held'[n] : NotThere(x, reading'[n])
    <3>1. CASE n = m
      <4>1. reading'[n] = [there |-> There, failed |-> unread]
        BY <1>2, <3>1 DEF SightingsInv, SightingsTypeOK
      <4> QED BY <1>2, <1>3, <3>1, <4>1 DEF HoldsNow, NotThere
    <3>2. CASE n # m
      <4>1. reading'[n] = reading[n] /\ held'[n] = held[n]
        BY <1>2, <1>3, <3>2 DEF HoldsNow, SightingsInv, SightingsTypeOK
      <4> QED BY <2>1, <4>1 DEF SightingsInv, ReadingInv
    <3> QED BY <3>1, <3>2
  <2>2. /\ baseline # Nothing => Items(Kept \cap baseline.known) \subseteq baseline.items
        /\ baseline = Nothing => compared = {}
        /\ CallsNewTheUnknown
    BY DEF SightingsInv, ReadingInv
  <2> QED BY <1>2, <2>1, <2>2 DEF ReadingInv, CallsNewTheUnknown, NotThere
<1> QED BY <1>7, <1>11, <1>12 DEF SightingsInv

LEMMA StoreKeeps == ASSUME SightingsInv, Store PROVE SightingsInv'
<1> DEFINE q == pending
           t == Tail(pending)
           e == Head(pending)
           x == e.thing
<1>1. /\ q # <<>> /\ pending' = t /\ rows' = [rows EXCEPT ![x] = RowAfter(e, @)]
      /\ world' = world /\ running' = running /\ held' = held /\ reading' = reading
      /\ leftover' = leftover /\ baseline' = baseline /\ compared' = compared
  BY DEF Store
<1>2. q \in Seq(Event)
  BY DEF SightingsInv, SightingsTypeOK
<1>3. /\ t \in Seq(Event) /\ e = q[1] /\ Len(t) = Len(q) - 1 /\ Len(q) \in Nat /\ Len(q) # 0
      /\ \A i \in 1..Len(t) : t[i] = q[i + 1]
  BY <1>1, <1>2, HeadTailProperties, LenProperties, EmptySeq
<1> HIDE DEF q, t, e
<1>4. 1 \in 1..Len(q) /\ \A i \in 1..Len(t) : i + 1 \in 1..Len(q) /\ q[i + 1] = t[i]
  BY <1>3
<1>5. e \in Event /\ x \in Things /\ About(q, x)
  <2>1. e \in Event
    BY <1>2, <1>3, <1>4, ElementOfSeq
  <2> QED BY <1>3, <1>4, <2>1 DEF Event, About
<1>6. ~About(t, x) => IsLast(q, 1)
  <2> SUFFICES ASSUME ~About(t, x), NEW j \in 2..Len(q) PROVE q[j].thing # q[1].thing
    BY <1>3 DEF IsLast
  <2>1. j - 1 \in 1..Len(t) /\ j - 1 + 1 = j
    BY <1>3
  <2> QED BY <1>3, <2>1 DEF About
<1>7. ASSUME NEW y, About(q, y), ~About(t, y) PROVE y = x
  <2>1. PICK i \in 1..Len(q) : q[i].thing = y
    BY <1>7 DEF About
  <2>2. CASE i = 1
    BY <1>3, <2>1, <2>2
  <2>3. CASE i # 1
    <3>1. i - 1 \in 1..Len(t) /\ i - 1 + 1 = i
      BY <1>3, <2>3
    <3> QED BY <1>3, <1>7, <2>1, <3>1 DEF About
  <2> QED BY <2>2, <2>3
<1>8. \A y : About(t, y) => About(q, y)
  BY <1>4 DEF About
<1> DEFINE row == RowAfter(e, rows[x])
<1>9. /\ rows' = [rows EXCEPT ![x] = row] /\ rows \in [Things -> Row \cup {Nothing}]
      /\ rows[x] \in Row \cup {Nothing}
  BY <1>1, <1>5 DEF SightingsInv, SightingsTypeOK
<1>10. row \in Row \cup {Nothing}
  BY <1>5, <1>9 DEF RowAfter, StillGone, Row, Event
<1>11. /\ e.type = "removed" => row = Nothing \/ row.gone
       /\ e.type # "removed" => /\ row \in Row /\ row.version = e.version
                                /\ x \in Autostarts => ~row.gone
  <2>1. x \in Autostarts => x \notin Sockets
    BY SightingsAssumption DEF SightingsAssumption
  <2> QED BY <1>5, <1>9, <2>1 DEF RowAfter, StillGone, Row, Event
<1> HIDE DEF row, x
<1>12. /\ rows' \in [Things -> Row \cup {Nothing}]
       /\ rows'[x] = row /\ \A y \in Things : y # x => rows'[y] = rows[y]
  BY <1>5, <1>9, <1>10
<1>13. SightingsTypeOK'
  BY <1>1, <1>3, <1>12 DEF SightingsInv, SightingsTypeOK, There
<1>14. QueueAgrees(t, held)
  <2> SUFFICES ASSUME NEW i \in 1..Len(t), IsLast(t, i)
               PROVE  IF t[i].type = "removed" THEN ~HeldIn(held, t[i].thing)
                      ELSE /\ HeldIn(held, t[i].thing)
                           /\ t[i].version = VersionIn(held, t[i].thing)
    BY DEF QueueAgrees
  <2>1. IsLast(q, i + 1)
    <3> SUFFICES ASSUME NEW j \in (i + 2)..Len(q) PROVE q[j].thing # q[i + 1].thing
      BY DEF IsLast
    <3>1. j - 1 \in (i + 1)..Len(t) /\ j - 1 \in 1..Len(t) /\ j - 1 + 1 = j
      BY <1>3
    <3> QED BY <1>3, <3>1 DEF IsLast
  <2> QED BY <1>4, <2>1 DEF SightingsInv, ReportInv, QueueAgrees, q
<1>15. running => RowsAgree(t, held, rows', leftover)
  <2> SUFFICES ASSUME running, NEW y \in Things, ~About(t, y)
               PROVE  /\ InForce(rows', y) => HeldIn(held, y) \/ y \in leftover
                      /\ y \in Autostarts /\ HeldIn(held, y) =>
                           InForce(rows', y) /\ rows'[y].version = VersionIn(held, y)
    BY DEF RowsAgree
  <2>1. CASE y = x
    <3>1. IF e.type = "removed" THEN ~HeldIn(held, x)
          ELSE HeldIn(held, x) /\ e.version = VersionIn(held, x)
      <4>1. IsLast(q, 1)
        BY <1>6, <2>1
      <4> QED BY <1>3, <1>4, <4>1 DEF SightingsInv, ReportInv, QueueAgrees, q, x
    <3>2. row \in Row => row # Nothing
      BY SightingsAssumption DEF SightingsAssumption, Row
    <3> QED BY <1>11, <1>12, <2>1, <3>1, <3>2 DEF InForce
  <2>2. CASE y # x
    <3>1. ~About(q, y)
      BY <1>7, <2>2
    <3>2. rows'[y] = rows[y]
      BY <1>12, <2>2
    <3> QED BY <3>1, <3>2 DEF SightingsInv, ReportInv, RowsAgree, InForce, q
  <2> QED BY <2>1, <2>2
<1>16. NeverReported(t, rows')
  <2> SUFFICES ASSUME NEW y \in Unreportable PROVE rows'[y] = Nothing /\ ~About(t, y)
    BY DEF NeverReported
  <2>1. rows[y] = Nothing /\ ~About(q, y)
    BY DEF SightingsInv, ReportInv, NeverReported, q
  <2>2. y \in Things /\ y # x
    BY <1>5, <2>1, SightingsAssumption DEF SightingsAssumption, Things, Kept
  <2> QED BY <1>8, <1>12, <2>1, <2>2
<1>17. ReportInv'
  <2>1. ~running => pending = <<>> /\ \A m \in Watchers : held[m] = Nothing
    BY DEF SightingsInv, ReportInv
  <2> QED BY <1>1, <1>14, <1>15, <1>16, <2>1 DEF ReportInv, q
<1>18. ReadingInv'
  BY <1>1 DEF SightingsInv, ReadingInv, CallsNewTheUnknown, NotThere
<1> QED BY <1>13, <1>17, <1>18 DEF SightingsInv

\* One action of the monitors or of the baselines.
LEMMA SightingsActions ==
  ASSUME NextSightings
  PROVE  \/ \E x \in Things : Change(x)
         \/ StartMonitor \/ EndMonitor \/ Store
         \/ \E m \in Watchers : \E unread : Poll(m, unread)
         \/ \E unread : Create(unread) \/ Compare(unread) \/ Delete
<1>1. ASSUME NEW m \in Watchers, NextMonitor(m)
      PROVE  \/ \E x \in Things : Change(x)
             \/ StartMonitor \/ EndMonitor \/ Store
             \/ \E unread : Poll(m, unread)
  BY <1>1, WatchersAre DEF NextMonitor
<1>2. ASSUME NextBaseline
      PROVE  \/ \E x \in Things : Change(x)
             \/ \E unread : Create(unread) \/ Compare(unread) \/ Delete
  BY <1>2 DEF NextBaseline, Kept, Things
<1> QED BY <1>1, <1>2 DEF NextSightings

LEMMA SightingsStep == SightingsInv /\ [NextSightings]_sightingsVars => SightingsInv'
<1> SUFFICES ASSUME SightingsInv, [NextSightings]_sightingsVars PROVE SightingsInv'
  OBVIOUS
<1>1. CASE NextSightings
  BY <1>1, SightingsActions, ChangeKeeps, StartMonitorKeeps, EndMonitorKeeps, StoreKeeps,
     PollKeeps, BaselineKeeps
<1>2. CASE UNCHANGED sightingsVars
  BY <1>2
     DEF sightingsVars, SightingsInv, SightingsTypeOK, ReportInv, ReadingInv, There,
         CallsNewTheUnknown, NotThere
<1> QED BY <1>1, <1>2

THEOREM SightingsInductive == SightingsSpec => []SightingsInv
<1> QED BY SightingsInit, SightingsStep, PTL DEF SightingsSpec

\* Once everything is stored, a running monitor's tables agree with what it last saw: the
\* invariant with nothing pending.
THEOREM RowsAlwaysFollowReports == SightingsSpec => []RowsFollowReports
<1>1. SightingsInv => RowsFollowReports
  <2> SUFFICES ASSUME SightingsInv, running, pending = <<>> PROVE RowsFollowReports
    BY DEF RowsFollowReports
  <2>1. \A x : ~About(pending, x)
    BY EmptySeq DEF About
  <2>2. RowsAgree(pending, held, rows, leftover)
    BY DEF SightingsInv, ReportInv
  <2> QED BY <2>1, <2>2, HeldIs DEF RowsAgree, RowsFollowReports, InForce
<1> QED BY <1>1, SightingsInductive, PTL

\* A poll announces what its snapshot has and the one before did not, if there was one.
LEMMA PollSaysWhatIsNew ==
  ASSUME SightingsInv, SightingsInv', NEW m \in Watchers, NEW unread, Poll(m, unread)
  PROVE  SaysWhatIsNew
<1>1. PICK now : PollTakes(m, unread, now)
  BY PollTakesASnapshot
<1> DEFINE d == Diff(held[m], now)
           q == pending
<1>2. Tells(d, m, held[m], now)
  <2>1. held[m] = Nothing \/ Snapshot(m, held[m])
    BY DEF SightingsInv, SightingsTypeOK
  <2> QED BY <1>1, <2>1, DiffTells DEF PollTakes
<1>3. pending' = q \o d /\ q \in Seq(Event)
  BY <1>1 DEF PollTakes, SightingsInv, SightingsTypeOK
<1> HIDE DEF d, q
<1>4. d \in Seq(Event)
  BY <1>2 DEF Tells
<1>5. /\ Len(pending') = Len(q) + Len(d) /\ Len(q) \in Nat /\ Len(d) \in Nat
      /\ \A i \in 1..Len(pending') : \/ i <= Len(q)
                                     \/ i - Len(q) \in 1..Len(d) /\ pending'[i] = d[i - Len(q)]
      /\ \A i \in 1..Len(d) :
           Len(q) + i \in 1..Len(pending') /\ pending'[Len(q) + i] = d[i]
  BY <1>3, <1>4, AboutBoth
<1>6. \A x : Announced(x) <=> \E i \in 1..Len(d) : d[i].thing = x /\ d[i].type = "added"
  <2> SUFFICES ASSUME NEW x
               PROVE  Announced(x) <=>
                        \E i \in 1..Len(d) : d[i].thing = x /\ d[i].type = "added"
    OBVIOUS
  <2>1. ASSUME NEW i \in Len(q) + 1..Len(pending')
        PROVE  i - Len(q) \in 1..Len(d) /\ pending'[i] = d[i - Len(q)]
    <3>1. i \in 1..Len(pending') /\ ~(i <= Len(q))
      BY <1>5
    <3> QED BY <1>5, <3>1
  <2>2. ASSUME NEW i \in 1..Len(d)
        PROVE  Len(q) + i \in Len(q) + 1..Len(pending') /\ pending'[Len(q) + i] = d[i]
    BY <1>5
  <2>3. ASSUME Announced(x)
        PROVE  \E i \in 1..Len(d) : d[i].thing = x /\ d[i].type = "added"
    <3>1. PICK i \in Len(q) + 1..Len(pending') :
                 pending'[i].thing = x /\ pending'[i].type = "added"
      BY <2>3 DEF Announced, q
    <3> QED BY <2>1, <3>1
  <2>4. ASSUME NEW i \in 1..Len(d), d[i].thing = x, d[i].type = "added" PROVE Announced(x)
    BY <2>2, <2>4 DEF Announced, q
  <2> QED BY <2>3, <2>4
<1>7. reading'[m] = [there |-> There, failed |-> unread]
  BY <1>1 DEF PollTakes, SightingsInv, SightingsTypeOK
<1>8. \A n \in Watchers : n # m => reading'[n] = reading[n]
  BY <1>1 DEF PollTakes, SightingsInv, SightingsTypeOK
<1>9. ASSUME NEW n \in Watchers, NEW x \in Reportable(Watched[n]), Announced(x)
      PROVE  x \in There /\ NotThere(x, reading[n])
  <2>1. PICK i \in 1..Len(d) : d[i].thing = x /\ d[i].type = "added"
    BY <1>6, <1>9
  <2>2. x \in Watched[m] /\ x \in DOMAIN now /\ held[m] # Nothing /\ x \notin DOMAIN held[m]
    BY <1>2, <2>1 DEF Tells
  <2>3. n = m
    BY <2>2, OneWatcher DEF Reportable
  <2> QED BY <1>1, <2>2, <2>3 DEF PollTakes, SightingsInv, ReadingInv
<1>10. ASSUME NEW n \in Watchers, NEW x \in Reportable(Watched[n]), held[n] # Nothing,
              reading'[n] # reading[n], x \in reading'[n].there \ reading[n].there,
              Source[x] \notin reading'[n].failed
       PROVE  Announced(x)
  <2>1. n = m
    BY <1>8, <1>10
  <2>2. x \in Watched[m] /\ x \notin Unreportable /\ x \in There /\ Source[x] \notin unread
    BY <1>7, <1>10, <2>1 DEF Reportable
  <2>3. x \in DOMAIN now
    BY <1>1, <2>2 DEF PollTakes
  <2>4. x \notin DOMAIN held[m]
    BY <1>10, <2>1 DEF SightingsInv, ReadingInv
  <2>5. \E i \in 1..Len(d) : d[i].thing = x /\ d[i].type = "added"
    BY <1>2, <1>10, <2>1, <2>2, <2>3, <2>4 DEF Tells, Reportable
  <2> QED BY <1>6, <2>5
<1>11. \A x \in Kept : ItemOf[x] \in compared' => x \notin baseline'.known
  BY DEF SightingsInv, ReadingInv, CallsNewTheUnknown
<1> QED BY <1>9, <1>10, <1>11 DEF SaysWhatIsNew

\* What a monitor calls new was not there at the reading before, or could not be read then,
\* and what has come since is called new as soon as it can be read; nor does a comparison
\* (detection/baseline.py) call new an item of anything that could be read at the capture,
\* whichever processes and sockets share it and whatever else failed then or now.
THEOREM NewIsAlwaysNew == SightingsSpec => NewIsNew
<1>1. ASSUME SightingsInv, SightingsInv', [NextSightings]_sightingsVars
      PROVE  [SaysWhatIsNew]_<<pending, reading, compared>>
  <2>1. ASSUME Len(pending') <= Len(pending),
               \A m \in Watchers : reading'[m] = Nothing \/ reading'[m] = reading[m]
        PROVE  SaysWhatIsNew
    <3>1. Len(pending) \in Nat /\ Len(pending') \in Nat
      BY <1>1, LenProperties DEF SightingsInv, SightingsTypeOK
    <3>2. \A i \in Len(pending) + 1..Len(pending') : FALSE
      BY <2>1, <3>1
    <3>3. \A x : ~Announced(x)
      BY <3>2 DEF Announced
    <3>4. \A x \in Kept : ItemOf[x] \in compared' => x \notin baseline'.known
      BY <1>1 DEF SightingsInv, ReadingInv, CallsNewTheUnknown
    <3> QED BY <2>1, <3>3, <3>4 DEF SaysWhatIsNew
  <2>2. Len(pending) \in Nat /\ pending \in Seq(Event)
    BY <1>1, LenProperties DEF SightingsInv, SightingsTypeOK
  <2>3. CASE UNCHANGED <<pending, reading, compared>>
    BY <2>3
  <2>4. ASSUME NEW m \in Watchers, NEW unread, Poll(m, unread) PROVE SaysWhatIsNew
    BY <1>1, <2>4, PollSaysWhatIsNew
  <2>5. CASE EndMonitor
    <3>1. /\ pending' = <<>> /\ Len(<<>>) = 0
          /\ \A m \in Watchers : reading'[m] = Nothing
      BY <2>5, EmptySeq DEF EndMonitor
    <3> QED BY <2>1, <2>2, <3>1
  <2>6. CASE Store
    <3>1. pending # <<>> /\ pending' = Tail(pending) /\ reading' = reading
      BY <2>6 DEF Store
    <3>2. Len(pending') = Len(pending) - 1
      BY <2>2, <3>1, HeadTailProperties
    <3>3. Len(pending') <= Len(pending)
      BY <2>2, <3>2
    <3>4. SaysWhatIsNew
      BY <2>1, <3>1, <3>3
    <3> QED BY <3>4
  <2>7. ASSUME NEW unread, Create(unread) \/ Compare(unread) \/ Delete PROVE SaysWhatIsNew
    <3>1. pending' = pending /\ reading' = reading
      BY <2>7 DEF Create, Compare, Delete
    <3> QED BY <2>1, <2>2, <3>1
  <2>8. ASSUME NEW x, Change(x) PROVE UNCHANGED <<pending, reading, compared>>
    BY <2>8 DEF Change
  <2>9. StartMonitor => UNCHANGED <<pending, reading, compared>>
    BY DEF StartMonitor
  <2>10. CASE NextSightings
    BY <2>3, <2>4, <2>5, <2>6, <2>7, <2>8, <2>9, <2>10, SightingsActions
  <2>11. CASE UNCHANGED sightingsVars
    BY <2>3, <2>11 DEF sightingsVars
  <2> QED BY <1>1, <2>10, <2>11
<1> QED BY <1>1, SightingsInductive, PTL DEF SightingsSpec, NewIsNew

-----------------------------------------------------------------------------
(*****************************************************************************)
(* Judging: what the rules say of a process, for any programs and sockets and  *)
(* any thresholds, whatever could not be read of it.                           *)
(*****************************************************************************)
JudgingSpec == InitJudging /\ [][NextJudging]_judgingVars

\* k is what is known of t.
PartOf(k, t) ==
  /\ DOMAIN k = DOMAIN t /\ k.name = t.name
  /\ k.exe \in {t.exe, Unknown} /\ k.cmdline \in {t.cmdline, Unknown}
  /\ k.signature \in {t.signature, Unknown}
  /\ \E n \in 0..Len(t.chain) : k.chain = SubSeq(t.chain, 1, n)

\* Nothing is said of what was not seen; what is known is a part of the truth.
JudgingInv ==
  /\ truth \in Programs /\ stage \in {"unseen", "appeared", "enriched", "entries"}
  /\ stage \in {"unseen", "entries"} => found = {}
  /\ stage \in {"appeared", "enriched"} => PartOf(known, truth)
  /\ FiredIsJustified

\* The ancestors that are known are the nearest.
LEMMA KnownAncestors ==
  ASSUME NEW t \in Programs, NEW k, PartOf(k, t)
  PROVE  /\ k.chain # <<>> => t.chain # <<>> /\ Head(k.chain) = Head(t.chain)
         /\ \A i \in 2..Len(k.chain) : i \in 2..Len(t.chain) /\ k.chain[i] = t.chain[i]
<1> DEFINE c == t.chain
           S == ToSet(c)
<1>1. c \in Seq(S)
  BY JudgingAssumption DEF JudgingAssumption
<1>2. PICK n \in 0..Len(c) : k.chain = SubSeq(c, 1, n)
  BY DEF PartOf
<1> DEFINE d == k.chain
<1> HIDE DEF c, S, d
<1>3. Len(c) \in Nat /\ \A i \in 1..Len(c) : c[i] \in S
  BY <1>1, LenProperties, ElementOfSeq
<1>4. d \in Seq(S) /\ Len(d) = n /\ \A i \in 1..n : d[i] = c[i]
  <2>1. \A i \in 1..n : c[i] \in S
    BY <1>3
  <2>2. /\ SubSeq(c, 1, n) \in Seq(S)
        /\ Len(SubSeq(c, 1, n)) = IF 1 <= n THEN n - 1 + 1 ELSE 0
        /\ \A i \in 1..(n - 1 + 1) : SubSeq(c, 1, n)[i] = c[1 + i - 1]
    BY <1>3, <2>1, SubSeqProperties
  <2> QED BY <1>2, <1>3, <2>2 DEF c, d
<1>5. d # <<>> => c # <<>> /\ Head(d) = Head(c)
  <2> SUFFICES ASSUME d # <<>> PROVE c # <<>> /\ Head(d) = Head(c)
    OBVIOUS
  <2>1. n # 0
    BY <1>4, EmptySeq
  <2>2. Head(d) = d[1] /\ 1 \in 1..n /\ Len(c) # 0
    BY <1>3, <1>4, <2>1, HeadTailProperties
  <2>3. c # <<>>
    BY <2>2, EmptySeq
  <2> QED BY <1>1, <1>4, <2>2, <2>3, HeadTailProperties
<1>6. \A i \in 2..Len(d) : i \in 2..Len(c) /\ d[i] = c[i]
  BY <1>3, <1>4
<1> QED BY <1>5, <1>6 DEF c, d

LEMMA KnownParent ==
  ASSUME NEW t \in Programs, NEW k, PartOf(k, t)
  PROVE  Parent(k) \in {Parent(t), Unknown}
BY KnownAncestors DEF Parent

\* What a rule finds in a part of what there is to know, it finds in all of it.
LEMMA RulesGrow ==
  ASSUME NEW t \in Programs, NEW k, PartOf(k, t)
  PROVE  /\ TempDirectoryExecution(k) => TempDirectoryExecution(t)
         /\ SuspiciousParentChild(k) => SuspiciousParentChild(t)
         /\ UnusualExecutionChain(k) => UnusualExecutionChain(t)
         /\ SystemBinaryMasquerading(k) => SystemBinaryMasquerading(t)
         /\ \A what : Does(k, what) => Does(t, what)
         /\ SuspiciousPowerShell(k) => SuspiciousPowerShell(t)
         /\ LolbinProxyExecution(k) => LolbinProxyExecution(t)
         /\ DeceptiveFileName(k) => DeceptiveFileName(t)
         /\ UnsignedUserWritableExecutable(k) => UnsignedUserWritableExecutable(t)
         /\ InvalidSignature(k) => InvalidSignature(t) /\ k.signature = t.signature
<1>1. /\ k.name = t.name /\ k.exe \in {t.exe, Unknown} /\ k.cmdline \in {t.cmdline, Unknown}
      /\ k.signature \in {t.signature, Unknown}
  BY DEF PartOf
<1>2. TempDirectoryExecution(k) => TempDirectoryExecution(t)
  BY <1>1, RulesAssumption DEF TempDirectoryExecution, Temporary, RulesAssumption
<1>3. SuspiciousParentChild(k) => SuspiciousParentChild(t)
  <2>1. SuspiciousParentChild(k) => Parent(k) # Unknown
    BY RulesAssumption
       DEF SuspiciousParentChild, SuspiciousParentChildPair, RulesAssumption
  <2> QED BY <1>1, <2>1, KnownParent DEF SuspiciousParentChild
<1>4. UnusualExecutionChain(k) => UnusualExecutionChain(t)
  <2> SUFFICES ASSUME UnusualExecutionChain(k) PROVE UnusualExecutionChain(t)
    OBVIOUS
  <2>1. Parent(k) = Parent(t)
    BY KnownParent, RulesAssumption DEF UnusualExecutionChain, RulesAssumption
  <2>2. PICK i \in 2..Len(k.chain) : i <= 4 /\ Origin(Parent(k), k.chain[i])
    BY DEF UnusualExecutionChain
  <2>3. i \in 2..Len(t.chain) /\ k.chain[i] = t.chain[i]
    BY KnownAncestors
  <2> QED BY <1>1, <2>1, <2>2, <2>3 DEF UnusualExecutionChain
<1>5. SystemBinaryMasquerading(k) => SystemBinaryMasquerading(t)
  BY <1>1 DEF SystemBinaryMasquerading
<1>6. \A what : Does(k, what) => Does(t, what)
  BY <1>1 DEF Does
<1>7. SuspiciousPowerShell(k) => SuspiciousPowerShell(t)
  BY <1>1, <1>6 DEF SuspiciousPowerShell
<1>8. LolbinProxyExecution(k) => LolbinProxyExecution(t)
  BY <1>1, <1>6 DEF LolbinProxyExecution
<1>9. DeceptiveFileName(k) => DeceptiveFileName(t)
  BY <1>1 DEF DeceptiveFileName
<1>10. UnsignedUserWritableExecutable(k) => UnsignedUserWritableExecutable(t)
  BY <1>1, RulesAssumption
     DEF UnsignedUserWritableExecutable, UserWritable, Temporary, RulesAssumption
<1>11. InvalidSignature(k) => InvalidSignature(t) /\ k.signature = t.signature
  BY <1>1, RulesAssumption DEF InvalidSignature, RulesAssumption
<1> QED BY <1>2, <1>3, <1>4, <1>5, <1>6, <1>7, <1>8, <1>9, <1>10, <1>11

AppearanceRuleFinds(p, f) ==
  \/ TempDirectoryExecution(p) /\ f = Finding("PROC-001", 20, "MEDIUM", "ORIGIN", "")
  \/ SuspiciousParentChild(p) /\ f = Finding("PROC-003", 25, "MEDIUM", "LINEAGE", "")
  \/ UnusualExecutionChain(p) /\ f = Finding("TREE-001", 30, "MEDIUM", "LINEAGE", "")
  \/ /\ SystemBinaryMasquerading(p)
     /\ f = Finding("PROC-005", 45, "HIGH", "MASQUERADE", "")
  \/ /\ SuspiciousPowerShell(p)
     /\ f = Finding("PROC-006", IF Does(p, "downloads and executes") THEN 35 ELSE 30,
                    "MEDIUM", "EXECUTION", "")
  \/ LolbinProxyExecution(p) /\ f = Finding("PROC-007", 35, "MEDIUM", "EXECUTION", "")
  \/ DeceptiveFileName(p) /\ f = Finding("PROC-008", 40, "HIGH", "MASQUERADE", "")

LEMMA AppearanceIs == \A p, f : f \in AppearanceFindings(p) <=> AppearanceRuleFinds(p, f)
<1> SUFFICES ASSUME NEW p, NEW f
             PROVE  f \in AppearanceFindings(p) <=> AppearanceRuleFinds(p, f)
  OBVIOUS
<1>1. AppearanceRuleFinds(p, f) => f \in AppearanceFindings(p)
  BY Zenon DEF AppearanceFindings, AppearanceRuleFinds, If
<1>2. f \in AppearanceFindings(p) => AppearanceRuleFinds(p, f)
  BY Zenon DEF AppearanceFindings, AppearanceRuleFinds, If
<1> QED BY <1>1, <1>2

AlsoFound(f, t) ==
  \E g \in AppearanceFindings(t) \cup EnrichedFindings(t) :
    g.rule = f.rule /\ g.score >= f.score

\* The rules that speak once the process is enriched and its sockets are known.
Deferring == {"PROC-004", "NET-001", "NET-004"}
AtOnce == {"NET-002", "NET-003"}

\* The same finding, or a graver one of the same rule.
LEMMA FoundAlso ==
  ASSUME NEW t, NEW f, NEW g \in AppearanceFindings(t) \cup EnrichedFindings(t),
         g.rule = f.rule, g.score >= f.score
  PROVE  AlsoFound(f, t)
BY DEF AlsoFound

LEMMA AppearanceGrows ==
  ASSUME NEW t \in Programs, NEW k, PartOf(k, t), NEW f \in AppearanceFindings(k)
  PROVE  AlsoFound(f, t) /\ f.rule \notin Deferring
<1>1. ASSUME TempDirectoryExecution(k), f = Finding("PROC-001", 20, "MEDIUM", "ORIGIN", "")
      PROVE  AlsoFound(f, t) /\ f.rule \notin Deferring
  <2>1. TempDirectoryExecution(t)
    BY <1>1, RulesGrow
  <2>2. f \in AppearanceFindings(t)
    BY ONLY <1>1, <2>1, AppearanceIs DEF AppearanceRuleFinds
  <2>3. f.rule = "PROC-001" /\ f.score = 20
    BY ONLY <1>1 DEF Finding
  <2> QED BY <2>2, <2>3, FoundAlso DEF Deferring
<1>2. ASSUME SuspiciousParentChild(k), f = Finding("PROC-003", 25, "MEDIUM", "LINEAGE", "")
      PROVE  AlsoFound(f, t) /\ f.rule \notin Deferring
  <2>1. SuspiciousParentChild(t)
    BY <1>2, RulesGrow
  <2>2. f \in AppearanceFindings(t)
    BY ONLY <1>2, <2>1, AppearanceIs DEF AppearanceRuleFinds
  <2>3. f.rule = "PROC-003" /\ f.score = 25
    BY ONLY <1>2 DEF Finding
  <2> QED BY <2>2, <2>3, FoundAlso DEF Deferring
<1>3. ASSUME UnusualExecutionChain(k), f = Finding("TREE-001", 30, "MEDIUM", "LINEAGE", "")
      PROVE  AlsoFound(f, t) /\ f.rule \notin Deferring
  <2>1. UnusualExecutionChain(t)
    BY <1>3, RulesGrow
  <2>2. f \in AppearanceFindings(t)
    BY ONLY <1>3, <2>1, AppearanceIs DEF AppearanceRuleFinds
  <2>3. f.rule = "TREE-001" /\ f.score = 30
    BY ONLY <1>3 DEF Finding
  <2> QED BY <2>2, <2>3, FoundAlso DEF Deferring
<1>4. ASSUME SystemBinaryMasquerading(k), f = Finding("PROC-005", 45, "HIGH", "MASQUERADE", "")
      PROVE  AlsoFound(f, t) /\ f.rule \notin Deferring
  <2>1. SystemBinaryMasquerading(t)
    BY <1>4, RulesGrow
  <2>2. f \in AppearanceFindings(t)
    BY ONLY <1>4, <2>1, AppearanceIs DEF AppearanceRuleFinds
  <2>3. f.rule = "PROC-005" /\ f.score = 45
    BY ONLY <1>4 DEF Finding
  <2> QED BY <2>2, <2>3, FoundAlso DEF Deferring
<1>5. ASSUME LolbinProxyExecution(k), f = Finding("PROC-007", 35, "MEDIUM", "EXECUTION", "")
      PROVE  AlsoFound(f, t) /\ f.rule \notin Deferring
  <2>1. LolbinProxyExecution(t)
    BY <1>5, RulesGrow
  <2>2. f \in AppearanceFindings(t)
    BY ONLY <1>5, <2>1, AppearanceIs DEF AppearanceRuleFinds
  <2>3. f.rule = "PROC-007" /\ f.score = 35
    BY ONLY <1>5 DEF Finding
  <2> QED BY <2>2, <2>3, FoundAlso DEF Deferring
<1>6. ASSUME DeceptiveFileName(k), f = Finding("PROC-008", 40, "HIGH", "MASQUERADE", "")
      PROVE  AlsoFound(f, t) /\ f.rule \notin Deferring
  <2>1. DeceptiveFileName(t)
    BY <1>6, RulesGrow
  <2>2. f \in AppearanceFindings(t)
    BY ONLY <1>6, <2>1, AppearanceIs DEF AppearanceRuleFinds
  <2>3. f.rule = "PROC-008" /\ f.score = 40
    BY ONLY <1>6 DEF Finding
  <2> QED BY <2>2, <2>3, FoundAlso DEF Deferring
<1>7. ASSUME SuspiciousPowerShell(k),
             f = Finding("PROC-006", IF Does(k, "downloads and executes") THEN 35 ELSE 30,
                         "MEDIUM", "EXECUTION", "")
      PROVE  AlsoFound(f, t) /\ f.rule \notin Deferring
  <2> DEFINE g == Finding("PROC-006", IF Does(t, "downloads and executes") THEN 35 ELSE 30,
                          "MEDIUM", "EXECUTION", "")
  <2>1. /\ SuspiciousPowerShell(t)
        /\ Does(k, "downloads and executes") => Does(t, "downloads and executes")
    BY <1>7, RulesGrow
  <2>2. g \in AppearanceFindings(t)
    BY ONLY <2>1, AppearanceIs DEF AppearanceRuleFinds
  <2>3. /\ g.rule = "PROC-006" /\ f.rule = "PROC-006"
        /\ g.score = IF Does(t, "downloads and executes") THEN 35 ELSE 30
        /\ f.score = IF Does(k, "downloads and executes") THEN 35 ELSE 30
    BY ONLY <1>7 DEF Finding, g
  <2> HIDE DEF g
  <2>4. (f.score = 30 /\ g.score = 30) \/ (g.score = 35 /\ f.score \in {30, 35})
    BY ONLY <2>1, <2>3
  <2>5. g.score >= f.score
    BY ONLY <2>4
  <2>6. g.rule = f.rule /\ f.rule \notin Deferring
    BY ONLY <2>3 DEF Deferring
  <2>7. AlsoFound(f, t)
    BY ONLY <2>2, <2>5, <2>6 DEF AlsoFound
  <2> QED BY <2>6, <2>7
<1>8. AppearanceRuleFinds(k, f)
  BY AppearanceIs
<1> QED BY ONLY <1>1, <1>2, <1>3, <1>4, <1>5, <1>6, <1>7, <1>8 DEF AppearanceRuleFinds

LEMMA EnrichedGrows ==
  ASSUME NEW t \in Programs, NEW k, PartOf(k, t), NEW f \in EnrichedFindings(k)
  PROVE  AlsoFound(f, t) /\ f.rule \notin Deferring
<1> DEFINE verdict(p) ==
      CASE p.signature = "BAD_DIGEST" -> Finding("SIG-001", 45, "HIGH", "SIGNATURE", "")
        [] p.signature = "EXPIRED" -> Finding("SIG-001", 10, "LOW", "SIGNATURE", "")
        [] OTHER -> Finding("SIG-001", 30, "MEDIUM", "SIGNATURE", "")
           unsigned == Finding("PROC-002", 15, "LOW", "SIGNATURE", "")
<1>1. \A p : f \in EnrichedFindings(p) <=>
        \/ UnsignedUserWritableExecutable(p) /\ f = unsigned
        \/ InvalidSignature(p) /\ f = verdict(p)
  <2> HIDE DEF unsigned
  <2> QED BY Zenon DEF EnrichedFindings, If, unsigned
<1>2. k.signature = t.signature => verdict(k) = verdict(t)
  OBVIOUS
<1>3. unsigned.rule = "PROC-002" /\ unsigned.score = 15
  BY DEF Finding
<1>4. verdict(k).rule = "SIG-001" /\ verdict(k).score \in {10, 30, 45}
  BY DEF Finding
<1> HIDE DEF verdict, unsigned
<1>5. f \in EnrichedFindings(t)
  BY <1>1, <1>2, RulesGrow
<1>6. f.rule \notin Deferring /\ f.score \in {10, 15, 30, 45}
  BY <1>1, <1>3, <1>4 DEF Deferring
<1> QED BY <1>5, <1>6, FoundAlso

\* A deferring rule speaks of no program that it trusts for its place or its signature.
LEMMA NetworkWaits ==
  ASSUME NEW t \in Programs, NEW k, PartOf(k, t), NEW candidates,
         NEW f \in NetworkFindings(k, candidates)
  PROVE  /\ f.rule \in Deferring /\ k.exe # Unknown /\ ~Trusted(t.exe)
         /\ t.signature = "VALID" => k.signature = Unknown
<1>1. PICK c \in candidates :
        \/ /\ NewProcessExternalConnection(k, c)
           /\ f = Finding("PROC-004", 20, "MEDIUM", "NETWORK", "")
        \/ UncommonRemotePort(k, c) /\ f = Finding("NET-004", 10, "LOW", "NETWORK", "")
        \/ FirstSeenExecutableOutbound(k, c) /\ f = Finding("NET-001", 10, "LOW", "NETWORK", "")
  BY Zenon DEF NetworkFindings, If
<1>2. f.rule \in Deferring
  <2>1. f.rule = "PROC-004" \/ f.rule = "NET-004" \/ f.rule = "NET-001"
    <3>1. /\ Finding("PROC-004", 20, "MEDIUM", "NETWORK", "").rule = "PROC-004"
          /\ Finding("NET-004", 10, "LOW", "NETWORK", "").rule = "NET-004"
          /\ Finding("NET-001", 10, "LOW", "NETWORK", "").rule = "NET-001"
      BY DEF Finding
    <3> QED BY ONLY <1>1, <3>1
  <2> QED BY <2>1 DEF Deferring
<1>3. ~IsExcludedByTrust(k)
  BY <1>1 DEF NewProcessExternalConnection, UncommonRemotePort, FirstSeenExecutableOutbound
<1> QED BY <1>2, <1>3 DEF IsExcludedByTrust, PartOf

LEMMA NothingWithoutCandidates == \A k : NetworkFindings(k, {}) = {}
BY DEF NetworkFindings

\* What is reported is among the findings.
LEMMA ReportAdds ==
  ASSUME NEW findings, Report(findings)
  PROVE  \A f \in found' : f \in found \/ f \in findings
BY DEF Report, Fresh

JustifiedNow(f, k, t, s) ==
  IF f.rule \in Deferring THEN
    s = "enriched" /\ ~Trusted(t.exe) /\ (t.signature = "VALID" => k.signature = Unknown)
  ELSE f.rule \notin AtOnce => AlsoFound(f, t)

LEMMA FiredIs == FiredIsJustified <=> \A f \in found : JustifiedNow(f, known, truth, stage)
BY DEF FiredIsJustified, JustifiedNow, Deferring, AtOnce, AlsoFound

LEMMA FiredIsNext ==
  FiredIsJustified' <=> \A f \in found' : JustifiedNow(f, known', truth', stage')
BY DEF FiredIsJustified, JustifiedNow, Deferring, AtOnce, AlsoFound

LEMMA JudgingInit == InitJudging => JudgingInv
BY DEF InitJudging, JudgingInv, FiredIsJustified

LEMMA AppearKeeps ==
  ASSUME JudgingInv, NEW exe \in {truth.exe, Unknown}, NEW cmdline \in {truth.cmdline, Unknown},
         NEW ancestors \in 0..Len(truth.chain), Appear(exe, cmdline, ancestors)
  PROVE  JudgingInv'
<1>1. /\ stage = "unseen" /\ stage' = "appeared" /\ truth' = truth /\ found = {}
      /\ known' = [truth EXCEPT !.exe = exe, !.cmdline = cmdline,
                                !.chain = SubSeq(@, 1, ancestors), !.signature = Unknown]
      /\ Report(AppearanceFindings(known'))
  BY DEF Appear, JudgingInv
<1>2. DOMAIN truth = {"name", "cmdline", "chain", "exe", "signature"}
  BY JudgingAssumption DEF JudgingInv, JudgingAssumption
<1>3. PartOf(known', truth)
  BY <1>1, <1>2 DEF PartOf
<1>4. \A f \in found' : AlsoFound(f, truth) /\ f.rule \notin Deferring
  BY <1>1, <1>3, ReportAdds, AppearanceGrows DEF JudgingInv
<1>5. FiredIsJustified'
  BY <1>1, <1>4, FiredIsNext DEF JustifiedNow
<1> QED BY <1>1, <1>3, <1>5 DEF JudgingInv

LEMMA EnrichKeeps ==
  ASSUME JudgingInv, NEW signature \in {truth.signature, Unknown}, NEW hash,
         Enrich(signature, hash)
  PROVE  JudgingInv'
<1>1. /\ stage = "appeared" /\ stage' = "enriched" /\ truth' = truth
      /\ known' = [known EXCEPT !.signature = signature]
      /\ Report(EnrichedFindings(known') \cup NetworkFindings(known', parked))
  BY DEF Enrich
<1>2. PartOf(known, truth) /\ truth \in Programs
  BY <1>1 DEF JudgingInv
<1>3. PartOf(known', truth)
  <2>1. DOMAIN known = {"name", "cmdline", "chain", "exe", "signature"}
    BY <1>2, JudgingAssumption DEF PartOf, JudgingAssumption
  <2> QED BY <1>1, <1>2, <2>1 DEF PartOf
<1>4. ASSUME NEW f \in found' PROVE JustifiedNow(f, known', truth, "enriched")
  <2>1. CASE f \in found
    <3>1. JustifiedNow(f, known, truth, "appeared")
      BY <1>1, <2>1, FiredIs DEF JudgingInv
    <3> QED BY <3>1 DEF JustifiedNow
  <2>2. CASE f \in EnrichedFindings(known')
    BY <1>2, <1>3, <2>2, EnrichedGrows DEF JustifiedNow
  <2>3. CASE f \in NetworkFindings(known', parked)
    BY <1>2, <1>3, <2>3, NetworkWaits DEF JustifiedNow
  <2> QED BY <1>1, <2>1, <2>2, <2>3, ReportAdds
<1>5. FiredIsJustified'
  BY <1>1, <1>4, FiredIsNext
<1> QED BY <1>1, <1>2, <1>3, <1>5 DEF JudgingInv

LEMMA ConnectKeeps == ASSUME JudgingInv, NEW c, Connect(c) PROVE JudgingInv'
<1> DEFINE network == NetworkFindings(known, Judged(c))
           listening == If(c.event = "opened" /\ NewListeningPort(known, c),
                           Finding("NET-002", 20, "LOW", "NETWORK", ""))
           frequent == If(Counts(known, c) /\ HighFrequencyOutbound(history') # "none",
                          Finding("NET-003", 20, "LOW", "NETWORK",
                                  HighFrequencyOutbound(history')))
<1>1. /\ stage \in {"appeared", "enriched"} /\ stage' = stage /\ truth' = truth
      /\ known' = known /\ Report(network \cup listening \cup frequent)
  BY DEF Connect
<1>2. PartOf(known, truth) /\ truth \in Programs
  BY <1>1 DEF JudgingInv
<1>3. ASSUME NEW f \in found' PROVE JustifiedNow(f, known, truth, stage)
  <2>1. CASE f \in found
    BY <2>1, FiredIs DEF JudgingInv
  <2>2. CASE f \in network
    <3>1. /\ f.rule \in Deferring /\ known.exe # Unknown /\ ~Trusted(truth.exe)
          /\ truth.signature = "VALID" => known.signature = Unknown
      BY <1>2, <2>2, NetworkWaits
    <3>2. stage = "enriched"
      BY <1>1, <2>2, <3>1, NothingWithoutCandidates DEF Judged, EnrichmentPending
    <3> QED BY <3>1, <3>2 DEF JustifiedNow
  <2>3. CASE f \in listening \cup frequent
    <3>1. f.rule \in AtOnce
      <4>1. \/ f = Finding("NET-002", 20, "LOW", "NETWORK", "")
            \/ f = Finding("NET-003", 20, "LOW", "NETWORK", HighFrequencyOutbound(history'))
        BY <2>3, Zenon DEF If
      <4>2. /\ Finding("NET-002", 20, "LOW", "NETWORK", "").rule = "NET-002"
            /\ \A about : Finding("NET-003", 20, "LOW", "NETWORK", about).rule = "NET-003"
        BY DEF Finding
      <4> QED BY ONLY <4>1, <4>2 DEF AtOnce
    <3> QED BY <3>1 DEF JustifiedNow, AtOnce, Deferring
  <2> HIDE DEF network, listening, frequent
  <2> QED BY <1>1, <2>1, <2>2, <2>3, ReportAdds
<1>4. FiredIsJustified'
  BY <1>1, <1>3, FiredIsNext
<1> QED BY <1>1, <1>2, <1>4 DEF JudgingInv

LEMMA EntriesKeep ==
  ASSUME JudgingInv, Entries, UNCHANGED <<truth, known, found>>
  PROVE  JudgingInv'
<1>1. stage \in {"unseen", "entries"} /\ stage' = "entries" /\ found = {} /\ found' = {}
  BY DEF Entries, JudgingInv
<1>2. FiredIsJustified'
  BY <1>1, FiredIsNext
<1> QED BY <1>1, <1>2 DEF JudgingInv

LEMMA JudgingStep == JudgingInv /\ [NextJudging]_judgingVars => JudgingInv'
<1> SUFFICES ASSUME JudgingInv, [NextJudging]_judgingVars PROVE JudgingInv'
  OBVIOUS
<1>1. ASSUME NEW kind, NEW exe, AutostartAdded(kind, exe) PROVE JudgingInv'
  BY <1>1, EntriesKeep DEF AutostartAdded
<1>2. ASSUME NEW startup, FileWritten(startup) PROVE JudgingInv'
  BY <1>2, EntriesKeep DEF FileWritten
<1>3. CASE NextJudging
  BY <1>1, <1>2, <1>3, AppearKeeps, EnrichKeeps, ConnectKeeps DEF NextJudging
<1>4. CASE UNCHANGED judgingVars
  BY <1>4, FiredIs, FiredIsNext DEF judgingVars, JudgingInv
<1> QED BY <1>3, <1>4

\* What is said of a process on partial knowledge would be said on all of it, and the rules
\* that trust signed programs have waited for the signature.
THEOREM FiredIsAlwaysJustified == JudgingSpec => []FiredIsJustified
<1>1. JudgingInv => FiredIsJustified
  BY DEF JudgingInv
<1> QED BY <1>1, JudgingInit, JudgingStep, PTL DEF JudgingSpec

\* The numbers up to n, where they are too many to be listed.
UpTo(n) == {x \in Nat : x <= n}

-----------------------------------------------------------------------------
(***************************************************************************)
(* The score                                                               *)
(***************************************************************************)
\* The scores, confidences and categories that each rule may give.
GradesOf(rule) ==
  CASE rule = "PROC-001" -> {<<20, "MEDIUM", "ORIGIN">>}
    [] rule = "PROC-002" -> {<<15, "LOW", "SIGNATURE">>}
    [] rule = "PROC-003" -> {<<25, "MEDIUM", "LINEAGE">>}
    [] rule = "PROC-004" -> {<<20, "MEDIUM", "NETWORK">>}
    [] rule = "PROC-005" -> {<<45, "HIGH", "MASQUERADE">>}
    [] rule = "PROC-006" -> {<<30, "MEDIUM", "EXECUTION">>, <<35, "MEDIUM", "EXECUTION">>}
    [] rule = "PROC-007" -> {<<35, "MEDIUM", "EXECUTION">>}
    [] rule = "PROC-008" -> {<<40, "HIGH", "MASQUERADE">>}
    [] rule \in {"NET-001", "NET-004"} -> {<<10, "LOW", "NETWORK">>}
    [] rule \in {"NET-002", "NET-003"} -> {<<20, "LOW", "NETWORK">>}
    [] rule = "TREE-001" -> {<<30, "MEDIUM", "LINEAGE">>}
    [] rule = "SIG-001" -> {<<10, "LOW", "SIGNATURE">>, <<30, "MEDIUM", "SIGNATURE">>,
                            <<45, "HIGH", "SIGNATURE">>}
    [] rule \in {"PERSIST-001", "FILE-001"} ->
         {<<20, "LOW", "PERSISTENCE">>, <<30, "MEDIUM", "PERSISTENCE">>}
    [] rule = "PERSIST-002" -> {<<20, "LOW", "PERSISTENCE">>, <<35, "MEDIUM", "PERSISTENCE">>}
    [] OTHER -> {}

Graded(f) == <<f.score, f.confidence, f.category>> \in GradesOf(f.rule)
AllGraded(S) == \A f \in S : Graded(f)

Categories ==
  {"ORIGIN", "SIGNATURE", "LINEAGE", "NETWORK", "MASQUERADE", "EXECUTION", "PERSISTENCE"}

WeightOf(f) == f.score * Weight[f.confidence]

\* A finding of more points is of no less confidence, if it is of the same rule.
NoGraver(f, g) ==
  f.category = g.category /\ WeightOf(f) <= WeightOf(g)
  /\ (g.confidence = "LOW" => f.confidence = "LOW")

LEMMA GradeTypes ==
  ASSUME NEW f, Graded(f)
  PROVE  f.score \in UpTo(45) /\ f.category \in Categories /\ WeightOf(f) \in UpTo(400)
<1> USE DEF Graded
<1>1. \/ <<f.score, f.confidence, f.category>> \in {<<20, "MEDIUM", "ORIGIN">>,
           <<15, "LOW", "SIGNATURE">>, <<25, "MEDIUM", "LINEAGE">>,
           <<20, "MEDIUM", "NETWORK">>, <<45, "HIGH", "MASQUERADE">>,
           <<30, "MEDIUM", "EXECUTION">>, <<35, "MEDIUM", "EXECUTION">>,
           <<40, "HIGH", "MASQUERADE">>, <<10, "LOW", "NETWORK">>, <<20, "LOW", "NETWORK">>,
           <<30, "MEDIUM", "LINEAGE">>, <<10, "LOW", "SIGNATURE">>,
           <<30, "MEDIUM", "SIGNATURE">>, <<45, "HIGH", "SIGNATURE">>,
           <<20, "LOW", "PERSISTENCE">>, <<30, "MEDIUM", "PERSISTENCE">>,
           <<35, "MEDIUM", "PERSISTENCE">>}
  BY DEF GradesOf
<1> QED BY <1>1 DEF Categories, WeightOf, Weight, UpTo

LEMMA GradesGrow ==
  ASSUME NEW f, NEW g, Graded(f), Graded(g), f.rule = g.rule, f.score <= g.score
  PROVE  NoGraver(f, g)
BY DEF Graded, GradesOf, NoGraver, WeightOf, Weight

LEMMA WholePart ==
  ASSUME NEW a \in Int, NEW b \in Int, NEW d \in Nat \ {0}, a <= b
  PROVE  a \div d \in Int /\ a \div d <= b \div d
OBVIOUS

\* A rule that has fired has a finding of the most points.
LEMMA HasHighest ==
  ASSUME NEW S, AllGraded(S), NEW f \in S
  PROVE  \E h \in HighestOfRule(S, f.rule) : f.score <= h.score
<1> USE DEF UpTo
<1> DEFINE T == {45 - g.score : g \in {g \in S : g.rule = f.rule}}
<1>1. \A g \in S : g.score \in UpTo(45)
  BY GradeTypes DEF AllGraded
<1>2. T \subseteq Nat /\ 45 - f.score \in T
  BY <1>1
<1>3. PICK x \in T : \A y \in T : x <= y
  <2> HIDE DEF T
  <2> QED BY <1>2, LeastNumber
<1>4. PICK h \in S : h.rule = f.rule /\ x = 45 - h.score
  OBVIOUS
<1>5. ASSUME NEW g \in S, g.rule = f.rule PROVE g.score <= h.score
  <2>1. 45 - g.score \in T
    BY <1>5
  <2>2. 45 - h.score <= 45 - g.score
    BY <1>3, <1>4, <2>1
  <2> HIDE DEF T
  <2> QED BY <1>1, <2>2
<1> HIDE DEF T
<1> QED BY <1>1, <1>4, <1>5 DEF HighestOfRule

\* A rule weighs what its finding of the most points does.
LEMMA EffectiveIs ==
  ASSUME NEW S, AllGraded(S), NEW rule
  PROVE  /\ Effective(S, rule) \in UpTo(400)
         /\ \/ Effective(S, rule) = 0 /\ \A f \in S : f.rule # rule
            \/ \E h \in HighestOfRule(S, rule) : Effective(S, rule) = WeightOf(h)
<1> USE DEF UpTo
<1> DEFINE h == CHOOSE f \in HighestOfRule(S, rule) : TRUE
<1>1. CASE HighestOfRule(S, rule) = {}
  <2>1. \A f \in S : f.rule # rule
    BY <1>1, HasHighest
  <2> QED BY <1>1, <2>1 DEF Effective
<1>2. CASE HighestOfRule(S, rule) # {}
  <2>1. h \in HighestOfRule(S, rule)
    BY <1>2
  <2>2. Effective(S, rule) = WeightOf(h)
    BY <1>2 DEF Effective, WeightOf
  <2>3. WeightOf(h) \in UpTo(400)
    BY <2>1, GradeTypes DEF HighestOfRule, AllGraded
  <2> HIDE DEF h
  <2> QED BY <2>1, <2>2, <2>3
<1> QED BY <1>1, <1>2

LEMMA EffectiveGrows ==
  ASSUME NEW A, NEW B, A \subseteq B, AllGraded(B), NEW rule
  PROVE  Effective(A, rule) <= Effective(B, rule)
<1> USE DEF UpTo
<1>1. AllGraded(A)
  BY DEF AllGraded
<1>2. CASE Effective(A, rule) = 0
  BY <1>2, EffectiveIs
<1>3. ASSUME NEW f \in HighestOfRule(A, rule), Effective(A, rule) = WeightOf(f)
      PROVE  Effective(A, rule) <= Effective(B, rule)
  <2>1. f \in B /\ f.rule = rule
    BY DEF HighestOfRule
  <2>2. PICK h \in HighestOfRule(B, rule) : Effective(B, rule) = WeightOf(h)
    BY <2>1, EffectiveIs
  <2>3. h \in B /\ h.rule = rule /\ f.score <= h.score
    BY <2>1 DEF HighestOfRule
  <2>4. NoGraver(f, h)
    BY <2>1, <2>3, GradesGrow DEF AllGraded
  <2> QED BY <1>3, <2>2, <2>4 DEF NoGraver
<1> QED BY <1>1, <1>2, <1>3, EffectiveIs

-----------------------------------------------------------------------------
LEMMA PointsType == AllPoints \in Nat
BY SMT DEF AllPoints

\* What is left after the rules up to i.
LEMMA RemainingIs ==
  ASSUME NEW S, AllGraded(S)
  PROVE  /\ Len(RuleOrder) \in Nat
         /\ Remaining(S) \in [0..Len(RuleOrder) -> UpTo(AllPoints)]
         /\ Remaining(S)[0] = AllPoints
         /\ \A i \in 1..Len(RuleOrder) :
              Remaining(S)[i] =
                (Remaining(S)[i - 1] * (400 - Effective(S, RuleOrder[i]))) \div 400
<1> DEFINE n == Len(RuleOrder)
           next(x, i) == (x * (400 - Effective(S, RuleOrder[i]))) \div 400
           step == [i \in 1..n |-> [x \in UpTo(AllPoints) |-> next(x, i)]]
           rest(g) == [i \in 0..n |-> IF i = 0 THEN AllPoints ELSE next(g[i - 1], i)]
<1>1. n \in Nat
  BY DEF RuleOrder
<1>2. ASSUME NEW i \in 1..n, NEW x \in UpTo(AllPoints) PROVE next(x, i) \in UpTo(AllPoints)
  <2>1. Effective(S, RuleOrder[i]) \in UpTo(400)
    BY EffectiveIs
  <2>2. \A e \in UpTo(400) : (x * (400 - e)) \in UpTo(AllPoints * 400)
    <3> TAKE e \in UpTo(400)
    <3>1. 400 - e \in Nat /\ 400 - e <= 400 /\ x \in Nat /\ x <= AllPoints
      BY DEF UpTo
    <3>2. \A d \in Nat : d <= 400 => 0 <= x * d /\ x * d <= AllPoints * 400
      BY <3>1, PointsType
    <3> QED BY <3>1, <3>2, PointsType DEF UpTo
  <2>3. \A m \in UpTo(AllPoints * 400) : m \div 400 \in UpTo(AllPoints)
    BY SMT, PointsType DEF UpTo
  <2> QED BY <2>1, <2>2, <2>3
<1> HIDE DEF n, next
<1>3. step \in [1..n -> [UpTo(AllPoints) -> UpTo(AllPoints)]]
  BY <1>2
<1>31. \A i \in 1..n, x \in UpTo(AllPoints) : step[i][x] = next(x, i)
  OBVIOUS
<1> HIDE DEF step
<1>4. PICK g \in [0..n -> UpTo(AllPoints)] :
        g[0] = AllPoints /\ \A i \in 1..n : g[i] = step[i][g[i - 1]]
  <2>1. AllPoints \in UpTo(AllPoints)
    BY PointsType DEF UpTo
  <2> QED BY ONLY <1>1, <1>3, <2>1, Recursion
<1>5. g = rest(g)
  <2>1. ASSUME NEW i \in 1..n PROVE g[i] = next(g[i - 1], i)
    <3>1. g[i - 1] \in UpTo(AllPoints)
      BY <1>1
    <3> QED BY <1>4, <1>31, <3>1
  <2>2. ASSUME NEW i \in 0..n
        PROVE  g[i] = IF i = 0 THEN AllPoints ELSE next(g[i - 1], i)
    BY <1>1, <1>4, <2>1
  <2> QED BY <2>2
<1>6. Remaining(S) = CHOOSE f : f = rest(f)
  BY DEF Remaining, n, next
<1>7. Remaining(S) = rest(Remaining(S))
  <2> HIDE DEF rest
  <2> QED BY <1>5, <1>6
<1>8. DOMAIN Remaining(S) = 0..n /\ Remaining(S)[0] = AllPoints
  BY <1>1, <1>7
<1>9. ASSUME NEW i \in 1..n PROVE Remaining(S)[i] = next(Remaining(S)[i - 1], i)
  BY <1>1, <1>7
<1>10. \A i \in 0..n : Remaining(S)[i] \in UpTo(AllPoints)
  <2> DEFINE T == {i \in Nat : i <= n => Remaining(S)[i] \in UpTo(AllPoints)}
  <2>1. 0 \in T
    BY <1>8, PointsType DEF UpTo
  <2>2. ASSUME NEW i \in T PROVE i + 1 \in T
    BY <1>1, <1>2, <1>9
  <2>3. \A i \in Nat : i \in T
    <3>1. T \subseteq Nat
      OBVIOUS
    <3> HIDE DEF T
    <3> QED BY <2>1, <2>2, <3>1, AllNumbers
  <2> QED BY <1>1, <2>3
<1>11. Remaining(S) = [i \in 0..n |-> Remaining(S)[i]]
  <2>1. \A f : f = rest(f) => f = [i \in 0..n |-> f[i]]
    OBVIOUS
  <2> HIDE DEF rest
  <2> QED BY <1>7, <2>1
<1>12. Remaining(S) \in [0..n -> UpTo(AllPoints)]
  BY <1>10, <1>11
<1> QED BY <1>1, <1>8, <1>9, <1>12 DEF n, next

\* A share of less, taken in more, is less.
LEMMA ShareShrinks ==
  ASSUME NEW a \in Nat, NEW b \in Nat, NEW d \in UpTo(400), NEW e \in UpTo(400), a <= b, e <= d
  PROVE  (a * (400 - d)) \div 400 <= (b * (400 - e)) \div 400
<1> USE DEF UpTo
<1>1. a * (400 - d) <= b * (400 - d)
  OBVIOUS
<1>2. b * (400 - d) <= b * (400 - e)
  OBVIOUS
<1>3. a * (400 - d) \in Int /\ b * (400 - d) \in Int /\ b * (400 - e) \in Int
  OBVIOUS
<1>4. \A x \in Int, y \in Int, z \in Int : x <= y /\ y <= z => x \div 400 <= z \div 400
  OBVIOUS
<1> QED BY <1>1, <1>2, <1>3, <1>4

LEMMA RemainingShrinks ==
  ASSUME NEW A, NEW B, A \subseteq B, AllGraded(B)
  PROVE  /\ Combined(A) \in UpTo(AllPoints) /\ Combined(B) \in UpTo(AllPoints)
         /\ Combined(A) <= Combined(B)
<1> USE DEF UpTo
<1> DEFINE T == {i \in Nat : i <= Len(RuleOrder) => Remaining(B)[i] <= Remaining(A)[i]}
<1>1. AllGraded(A)
  BY DEF AllGraded
<1>2. 0 \in T
  BY <1>1, RemainingIs
<1>3. ASSUME NEW i \in T PROVE i + 1 \in T
  <2>1. CASE i + 1 <= Len(RuleOrder)
    <3> DEFINE rule == RuleOrder[i + 1]
    <3>1. Len(RuleOrder) \in Nat /\ i \in 0..Len(RuleOrder) /\ i + 1 \in 1..Len(RuleOrder)
      BY <1>1, <2>1, RemainingIs
    <3>2. /\ Remaining(A)[i] \in Nat /\ Remaining(B)[i] \in Nat
          /\ Remaining(B)[i] <= Remaining(A)[i]
      BY <1>1, <2>1, <3>1, RemainingIs
    <3>3. /\ Effective(A, rule) \in UpTo(400) /\ Effective(B, rule) \in UpTo(400)
          /\ Effective(A, rule) <= Effective(B, rule)
      BY <1>1, EffectiveIs, EffectiveGrows
    <3>4. (Remaining(B)[i] * (400 - Effective(B, rule))) \div 400
            <= (Remaining(A)[i] * (400 - Effective(A, rule))) \div 400
      <4> HIDE DEF rule, UpTo
      <4> QED BY ONLY <3>2, <3>3, ShareShrinks
    <3>5. /\ Remaining(A)[i + 1] = (Remaining(A)[i] * (400 - Effective(A, rule))) \div 400
          /\ Remaining(B)[i + 1] = (Remaining(B)[i] * (400 - Effective(B, rule))) \div 400
      <4>1. i + 1 - 1 = i
        OBVIOUS
      <4> QED BY <1>1, <3>1, <4>1, RemainingIs
    <3> QED BY <3>4, <3>5
  <2> QED BY <2>1
<1>4. Remaining(B)[Len(RuleOrder)] <= Remaining(A)[Len(RuleOrder)]
  <2>1. T \subseteq Nat
    OBVIOUS
  <2>2. \A i \in Nat : i \in T
    <3> HIDE DEF T
    <3> QED BY <1>2, <1>3, <2>1, AllNumbers
  <2> QED BY <2>2, <1>1, RemainingIs
<1>5. /\ Remaining(A)[Len(RuleOrder)] \in UpTo(AllPoints)
      /\ Remaining(B)[Len(RuleOrder)] \in UpTo(AllPoints)
  BY <1>1, RemainingIs
<1> QED BY ONLY <1>4, <1>5, PointsType DEF Combined, UpTo

-----------------------------------------------------------------------------
LEMMA CategoriesGrow ==
  ASSUME NEW A, NEW B, A \subseteq B, A # {}, AllGraded(B)
  PROVE  /\ Cardinality({f.category : f \in A}) \in Nat \ {0}
         /\ Cardinality({f.category : f \in B}) \in Nat
         /\ Cardinality({f.category : f \in A}) <= Cardinality({f.category : f \in B})
<1> DEFINE a == {f.category : f \in A}
           b == {f.category : f \in B}
<1>1. IsFiniteSet(Categories)
  <2> DEFINE S == <<"ORIGIN", "SIGNATURE", "LINEAGE", "NETWORK", "MASQUERADE", "EXECUTION",
                    "PERSISTENCE">>
  <2>1. S \in Seq(Categories) /\ \A c \in Categories : \E i \in 1..Len(S) : S[i] = c
    BY DEF Categories
  <2> HIDE DEF S
  <2> QED BY <2>1 DEF IsFiniteSet
<1>2. a \subseteq b /\ b \subseteq Categories /\ a # {}
  BY GradeTypes DEF AllGraded
<1> HIDE DEF a, b
<1>3. IsFiniteSet(b) /\ IsFiniteSet(a)
  BY <1>1, <1>2, FS_Subset
<1>4. Cardinality(a) <= Cardinality(b) /\ Cardinality(a) # 0
  BY <1>2, <1>3, FS_Subset, FS_EmptySet
<1>5. Cardinality(a) \in Nat /\ Cardinality(b) \in Nat
  BY <1>3, FS_CardinalityType
<1> QED BY <1>4, <1>5 DEF a, b

\* If all that counts in more findings is weak, so is all that counts in fewer.
LEMMA WeaknessShrinks ==
  ASSUME NEW A, NEW B, A \subseteq B, AllGraded(B), AllLow(B)
  PROVE  AllLow(A)
<1>1. SUFFICES ASSUME NEW f \in Contributions(A) PROVE f.confidence = "LOW"
  BY DEF AllLow
<1>2. f \in A
  BY DEF Contributions, HighestOfRule
<1>3. PICK h \in HighestOfRule(B, f.rule) : f.score <= h.score
  BY <1>2, HasHighest
<1>4. h \in B /\ h.rule = f.rule
  BY DEF HighestOfRule
<1>5. h.confidence = "LOW"
  BY <1>2, <1>3 DEF AllLow, Contributions
<1> QED BY <1>2, <1>3, <1>4, <1>5, GradesGrow DEF AllGraded, NoGraver

\* The caps and the bonus keep the order of what they are of.
LEMMA CapsKeepOrder ==
  ASSUME NEW x \in Nat, NEW y \in Nat, x <= y, NEW bound \in Nat
  PROVE  /\ AtMost(bound, x) \in Nat /\ AtMost(bound, x) <= x
         /\ AtMost(bound, x) <= AtMost(bound, y)
BY DEF AtMost

\* Further findings never lower a score.
LEMMA ScoreGrows ==
  ASSUME NEW A, NEW B, A \subseteq B, AllGraded(B)
  PROVE  Score(B) >= Score(A)
<1> USE DEF UpTo
<1> DEFINE n(S) == Cardinality({f.category : f \in S})
           bonus(S) == AtMost(15, 5 * (n(S) - 1))
           rounded(S) == AtMost(100, (Combined(S) + 1000 * bonus(S) + 500) \div 1000)
           weak(S) == IF AllLow(S) THEN AtMost(39, rounded(S)) ELSE rounded(S)
<1>1. \A S : Score(S) = IF S = {} THEN 0 ELSE IF n(S) = 1 THEN AtMost(59, weak(S)) ELSE weak(S)
  BY DEF Score
<1>2. ASSUME NEW S, S # {}, AllGraded(S)
      PROVE  rounded(S) \in Nat /\ weak(S) \in Nat /\ Score(S) \in Nat
  <2>1. bonus(S) \in Nat
    <3>1. n(S) \in Nat \ {0}
      BY <1>2, CategoriesGrow
    <3> HIDE DEF n
    <3> QED BY <3>1 DEF AtMost
  <2>2. Combined(S) \in Nat
    BY <1>2, RemainingShrinks
  <2> DEFINE whole == (Combined(S) + 1000 * bonus(S) + 500) \div 1000
  <2>3. whole \in Nat
    <3> HIDE DEF bonus
    <3> QED BY <2>1, <2>2
  <2>4. rounded(S) \in Nat
    <3>1. rounded(S) = AtMost(100, whole)
      OBVIOUS
    <3> HIDE DEF rounded, whole
    <3> QED BY <2>3, <3>1 DEF AtMost
  <2> HIDE DEF rounded, n
  <2> QED BY <1>1, <1>2, <2>4, CapsKeepOrder
<1>3. CASE A = {}
  <2>1. Score(A) = 0
    BY <1>1, <1>3
  <2>2. Score(B) \in Nat
    <3>1. CASE B = {}
      BY <1>3, <2>1, <3>1
    <3>2. CASE B # {}
      <4> HIDE DEF rounded, weak, n
      <4> QED BY <1>2, <3>2, Zenon
    <3> QED BY <3>1, <3>2
  <2> QED BY <2>1, <2>2
<1>4. CASE A # {}
  <2>1. AllGraded(A) /\ B # {}
    BY <1>4 DEF AllGraded
  <2>2. n(A) \in Nat \ {0} /\ n(B) \in Nat /\ n(A) <= n(B)
    BY <1>4, CategoriesGrow
  <2>3. bonus(A) \in Nat /\ bonus(B) \in Nat /\ bonus(A) <= bonus(B)
    <3> HIDE DEF n
    <3> QED BY <2>2 DEF AtMost
  <2>4. /\ Combined(A) \in UpTo(AllPoints) /\ Combined(B) \in UpTo(AllPoints)
        /\ Combined(A) <= Combined(B)
    BY RemainingShrinks
  <2>5. rounded(A) <= rounded(B)
    <3> HIDE DEF bonus
    <3> QED BY <2>3, <2>4, WholePart DEF AtMost
  <2>6. rounded(A) \in Nat /\ rounded(B) \in Nat
    BY <1>2, <1>4, <2>1
  <2> HIDE DEF rounded, n
  <2>7. weak(A) \in Nat /\ weak(B) \in Nat /\ weak(A) <= weak(B)
    BY <2>5, <2>6, WeaknessShrinks DEF AtMost
  <2> HIDE DEF weak
  <2> QED BY <1>1, <1>4, <2>1, <2>2, <2>7 DEF AtMost
<1> QED BY <1>3, <1>4

-----------------------------------------------------------------------------
\* Every finding is of a rule's grades.
GradedInv == AllGraded(found) /\ AllGraded(unattributed)

LEMMA FindingIs ==
  ASSUME NEW rule, NEW score, NEW confidence, NEW category, NEW about,
         <<score, confidence, category>> \in GradesOf(rule)
  PROVE  Graded(Finding(rule, score, confidence, category, about))
BY DEF Graded, Finding

LEMMA IfGraded ==
  ASSUME NEW condition, NEW f, Graded(f)
  PROVE  AllGraded(If(condition, f))
BY DEF AllGraded, If

LEMMA AppearanceGraded == \A p : AllGraded(AppearanceFindings(p))
<1> SUFFICES ASSUME NEW p, NEW f \in AppearanceFindings(p) PROVE Graded(f)
  BY DEF AllGraded
<1>1. AppearanceRuleFinds(p, f)
  BY AppearanceIs
<1>2. /\ Graded(Finding("PROC-001", 20, "MEDIUM", "ORIGIN", ""))
      /\ Graded(Finding("PROC-003", 25, "MEDIUM", "LINEAGE", ""))
      /\ Graded(Finding("TREE-001", 30, "MEDIUM", "LINEAGE", ""))
      /\ Graded(Finding("PROC-005", 45, "HIGH", "MASQUERADE", ""))
      /\ Graded(Finding("PROC-006", 35, "MEDIUM", "EXECUTION", ""))
      /\ Graded(Finding("PROC-006", 30, "MEDIUM", "EXECUTION", ""))
      /\ Graded(Finding("PROC-007", 35, "MEDIUM", "EXECUTION", ""))
      /\ Graded(Finding("PROC-008", 40, "HIGH", "MASQUERADE", ""))
  BY FindingIs DEF GradesOf
<1> QED BY <1>1, <1>2 DEF AppearanceRuleFinds

LEMMA EnrichedGraded == \A p : AllGraded(EnrichedFindings(p))
<1> SUFFICES ASSUME NEW p, NEW f \in EnrichedFindings(p) PROVE Graded(f)
  BY DEF AllGraded
<1>1. \/ f = Finding("PROC-002", 15, "LOW", "SIGNATURE", "")
      \/ f \in {Finding("SIG-001", 45, "HIGH", "SIGNATURE", ""),
                Finding("SIG-001", 10, "LOW", "SIGNATURE", ""),
                Finding("SIG-001", 30, "MEDIUM", "SIGNATURE", "")}
  BY DEF EnrichedFindings, If
<1>2. /\ Graded(Finding("PROC-002", 15, "LOW", "SIGNATURE", ""))
      /\ Graded(Finding("SIG-001", 45, "HIGH", "SIGNATURE", ""))
      /\ Graded(Finding("SIG-001", 10, "LOW", "SIGNATURE", ""))
      /\ Graded(Finding("SIG-001", 30, "MEDIUM", "SIGNATURE", ""))
  BY FindingIs DEF GradesOf
<1> QED BY ONLY <1>1, <1>2

LEMMA NetworkGraded == \A p, candidates : AllGraded(NetworkFindings(p, candidates))
<1> SUFFICES ASSUME NEW p, NEW candidates, NEW f \in NetworkFindings(p, candidates)
             PROVE  Graded(f)
  BY DEF AllGraded
<1>1. \/ f = Finding("PROC-004", 20, "MEDIUM", "NETWORK", "")
      \/ f = Finding("NET-004", 10, "LOW", "NETWORK", "")
      \/ f = Finding("NET-001", 10, "LOW", "NETWORK", "")
  BY Zenon DEF NetworkFindings, If
<1>2. /\ Graded(Finding("PROC-004", 20, "MEDIUM", "NETWORK", ""))
      /\ Graded(Finding("NET-004", 10, "LOW", "NETWORK", ""))
      /\ Graded(Finding("NET-001", 10, "LOW", "NETWORK", ""))
  BY FindingIs DEF GradesOf
<1> QED BY ONLY <1>1, <1>2

LEMMA UnattributedGraded ==
  \A kind, exe, startup : Graded(AutostartFinding(kind, exe)) /\ Graded(FileFinding(startup))
BY DEF AutostartFinding, FileFinding, Graded, GradesOf, Finding

\* Findings are only added.
Grows == found \subseteq found' /\ unattributed \subseteq unattributed'

LEMMA ReportGrows ==
  ASSUME NEW findings, AllGraded(findings), Report(findings), GradedInv,
         unattributed' = unattributed
  PROVE  GradedInv' /\ Grows
BY DEF Report, Fresh, GradedInv, AllGraded, Grows

LEMMA UnattributedGrows ==
  ASSUME NEW f, Graded(f), ReportUnattributed(f), GradedInv, found' = found
  PROVE  GradedInv' /\ Grows
BY DEF ReportUnattributed, Fresh, GradedInv, AllGraded, Grows

LEMMA ConnectGraded ==
  ASSUME NEW c
  PROVE  AllGraded(
           NetworkFindings(known, Judged(c)) \cup
           If(c.event = "opened" /\ NewListeningPort(known, c),
              Finding("NET-002", 20, "LOW", "NETWORK", "")) \cup
           If(Counts(known, c) /\ HighFrequencyOutbound(history') # "none",
              Finding("NET-003", 20, "LOW", "NETWORK", HighFrequencyOutbound(history'))))
<1>1. \A about : /\ Graded(Finding("NET-002", 20, "LOW", "NETWORK", ""))
                 /\ Graded(Finding("NET-003", 20, "LOW", "NETWORK", about))
  BY FindingIs DEF GradesOf
<1>2. /\ AllGraded(If(c.event = "opened" /\ NewListeningPort(known, c),
                      Finding("NET-002", 20, "LOW", "NETWORK", "")))
      /\ AllGraded(If(Counts(known, c) /\ HighFrequencyOutbound(history') # "none",
              Finding("NET-003", 20, "LOW", "NETWORK", HighFrequencyOutbound(history'))))
  BY <1>1, IfGraded
<1>3. AllGraded(NetworkFindings(known, Judged(c)))
  BY NetworkGraded
<1>4. \A A, B, C : AllGraded(A) /\ AllGraded(B) /\ AllGraded(C) => AllGraded(A \cup B \cup C)
  BY DEF AllGraded
<1> QED BY <1>2, <1>3, <1>4, Zenon

LEMMA GradedStep ==
  GradedInv /\ [NextJudging]_judgingVars => GradedInv' /\ Grows
<1> SUFFICES ASSUME GradedInv, [NextJudging]_judgingVars PROVE GradedInv' /\ Grows
  OBVIOUS
<1>1. ASSUME NEW exe, NEW cmdline, NEW ancestors, Appear(exe, cmdline, ancestors)
      PROVE  GradedInv' /\ Grows
  BY <1>1, AppearanceGraded, ReportGrows DEF Appear
<1>2. ASSUME NEW signature, NEW hash, Enrich(signature, hash) PROVE GradedInv' /\ Grows
  <2>1. AllGraded(EnrichedFindings(known') \cup NetworkFindings(known', parked))
    BY EnrichedGraded, NetworkGraded DEF AllGraded
  <2> QED BY <1>2, <2>1, ReportGrows DEF Enrich
<1>3. ASSUME NEW c, Connect(c) PROVE GradedInv' /\ Grows
  BY <1>3, ConnectGraded, ReportGrows DEF Connect
<1>4. ASSUME NEW kind, NEW exe, AutostartAdded(kind, exe) PROVE GradedInv' /\ Grows
  BY <1>4, UnattributedGraded, UnattributedGrows DEF AutostartAdded
<1>5. ASSUME NEW startup, FileWritten(startup) PROVE GradedInv' /\ Grows
  BY <1>5, UnattributedGraded, UnattributedGrows DEF FileWritten
<1>6. CASE NextJudging
  BY <1>1, <1>2, <1>3, <1>4, <1>5, <1>6, Zenon DEF NextJudging
<1>7. CASE UNCHANGED judgingVars
  BY <1>7 DEF judgingVars, GradedInv, Grows
<1> QED BY <1>6, <1>7

\* Further findings, of other rules or graver ones, only raise a subject's score
\* (detection/scoring.py score_detections): neither the caps nor the bonus nor the choice
\* of one finding for each rule ever takes any of it away.
THEOREM ScoreNeverDrops == JudgingSpec => ScoreNeverFalls
<1> DEFINE Raised ==
      /\ Score(found') >= Score(found)
      /\ \A rule \in {f.rule : f \in unattributed} :
           Score(OfRule(rule)') >= Score(OfRule(rule))
<1>1. GradedInv /\ [NextJudging]_judgingVars => GradedInv' /\ [Raised]_<<found, unattributed>>
  <2> SUFFICES ASSUME GradedInv, [NextJudging]_judgingVars PROVE GradedInv' /\ Raised
    OBVIOUS
  <2>1. GradedInv' /\ Grows
    BY GradedStep
  <2>2. Score(found') >= Score(found)
    BY <2>1, ScoreGrows DEF GradedInv, Grows
  <2>3. ASSUME NEW rule PROVE Score(OfRule(rule)') >= Score(OfRule(rule))
    <3>1. OfRule(rule)' = {f \in unattributed' : f.rule = rule}
      BY DEF OfRule
    <3>2. OfRule(rule) \subseteq OfRule(rule)' /\ AllGraded(OfRule(rule)')
      BY <2>1, <3>1 DEF OfRule, GradedInv, AllGraded, Grows
    <3> QED BY <3>2, ScoreGrows
  <2> QED BY <2>1, <2>2, <2>3
<1>2. InitJudging => GradedInv
  BY DEF InitJudging, GradedInv, AllGraded
<1>3. ScoreNeverFalls <=> [][Raised]_<<found, unattributed>>
  BY DEF ScoreNeverFalls
<1> HIDE DEF Raised
<1> QED BY <1>1, <1>2, <1>3, PTL DEF JudgingSpec

-----------------------------------------------------------------------------
(*****************************************************************************)
(* Forest: the process tree of any snapshot, to any depth.                     *)
(*****************************************************************************)
ForestSpec == InitForest /\ [][NextForest]_forestVars

\* t is a mapping of PIDs to processes.
IsTable(t) ==
  /\ DOMAIN t \subseteq TreePids
  /\ \A p \in DOMAIN t : t[p].ppid \in TreePids \cup {NoParent} /\ t[p].created \in Nat

Size(t) == Cardinality(DOMAIN t)

LEMMA SizeType == ASSUME NEW t, IsTable(t) PROVE IsFiniteSet(DOMAIN t) /\ Size(t) \in Nat
BY ForestAssumption, FS_Subset, FS_CardinalityType DEF ForestAssumption, IsTable, Size

\* There is one verified parent at most, which is another process.
LEMMA OneParent ==
  ASSUME NEW t, IsTable(t), NEW p \in DOMAIN t, NEW q \in VerifiedParents(t, p)
  PROVE  /\ q \in DOMAIN t /\ q # p /\ q # NoParent /\ VerifiedParents(t, p) = {q}
         /\ ClaimsParent(t, p)
<1>1. q \in DOMAIN t /\ q # p /\ q = t[p].ppid /\ q # NoParent
  BY ForestAssumption DEF VerifiedParents, IsTable, ForestAssumption, NoParent
<1>2. \A r \in VerifiedParents(t, p) : r = q
  BY <1>1 DEF VerifiedParents
<1> QED BY <1>1, <1>2 DEF ClaimsParent

LEMMA ChildIs ==
  ASSUME NEW t, NEW p, NEW c
  PROVE  c \in Children(t, p) <=> c \in DOMAIN t /\ p \in VerifiedParents(t, c)
BY DEF Children

-----------------------------------------------------------------------------
(***************************************************************************)
(* Chains of ancestors                                                     *)
(***************************************************************************)
\* The i-th on the way up from p.
Ancestor(p, c, i) == IF i = 0 THEN p ELSE c[i]

IsChain(t, p, c) ==
  /\ c \in Seq(DOMAIN t)
  /\ \A i \in 1..Len(c) : Ancestor(p, c, i) \in VerifiedParents(t, Ancestor(p, c, i - 1))
  /\ \A i, j \in 0..Len(c) : Ancestor(p, c, i) = Ancestor(p, c, j) => i = j

LEMMA TopIs ==
  ASSUME NEW S, NEW p, NEW c \in Seq(S)
  PROVE  Top(p, c) = Ancestor(p, c, Len(c))
BY DEF Top, Ancestor, Last

LEMMA FurtherUpIs ==
  ASSUME NEW t, NEW p, NEW c \in Seq(DOMAIN t), NEW q
  PROVE  q \in FurtherUp(t, p, c) <=>
           /\ q \in VerifiedParents(t, Ancestor(p, c, Len(c)))
           /\ \A i \in 0..Len(c) : q # Ancestor(p, c, i)
<1>1. Len(c) \in Nat /\ DOMAIN c = 1..Len(c)
  OBVIOUS
<1>2. q \in {p} \cup ToSet(c) <=> \E i \in 0..Len(c) : q = Ancestor(p, c, i)
  BY <1>1 DEF ToSet, Ancestor
<1> QED BY <1>2, TopIs DEF FurtherUp

LEMMA ChainGrows ==
  ASSUME NEW t, IsTable(t), NEW p \in DOMAIN t, NEW c, IsChain(t, p, c),
         NEW q \in FurtherUp(t, p, c)
  PROVE  IsChain(t, p, Append(c, q)) /\ Len(Append(c, q)) = Len(c) + 1
<1> DEFINE n == Len(c)
           d == Append(c, q)
<1>1. c \in Seq(DOMAIN t) /\ n \in Nat
  BY DEF IsChain
<1>2. Ancestor(p, c, n) \in DOMAIN t
  BY <1>1 DEF Ancestor
<1>3. q \in VerifiedParents(t, Ancestor(p, c, n)) /\ \A i \in 0..n : q # Ancestor(p, c, i)
  BY <1>1, FurtherUpIs
<1>4. q \in DOMAIN t
  BY <1>2, <1>3, OneParent
<1>5. d \in Seq(DOMAIN t) /\ Len(d) = n + 1
  BY <1>1, <1>4
<1>6. Ancestor(p, d, n + 1) = q /\ \A i \in 0..n : Ancestor(p, d, i) = Ancestor(p, c, i)
  BY <1>1, <1>4 DEF Ancestor
<1> HIDE DEF d
<1>7. ASSUME NEW i \in 1..n + 1
      PROVE  Ancestor(p, d, i) \in VerifiedParents(t, Ancestor(p, d, i - 1))
  <2>1. CASE i = n + 1
    BY <1>1, <1>3, <1>6, <2>1
  <2>2. CASE i \in 1..n
    <3>1. i - 1 \in 0..n /\ i \in 0..n
      BY <1>1, <2>2
    <3> QED BY <1>6, <2>2, <3>1 DEF IsChain
  <2> QED BY <1>1, <2>1, <2>2
<1>8. ASSUME NEW i \in 0..n + 1, NEW j \in 0..n + 1, Ancestor(p, d, i) = Ancestor(p, d, j)
      PROVE  i = j
  <2>1. \A x \in 0..n + 1 : x \in 0..n \/ x = n + 1
    BY <1>1
  <2>2. \A x, y \in 0..n : Ancestor(p, c, x) = Ancestor(p, c, y) => x = y
    BY DEF IsChain
  <2> HIDE DEF n
  <2> QED BY <1>3, <1>6, <1>8, <2>1, <2>2
<1> QED BY <1>5, <1>7, <1>8 DEF IsChain, d

\* No chain is longer than there are processes besides the one at its foot.
LEMMA ChainIsShort ==
  ASSUME NEW t, IsTable(t), NEW p \in DOMAIN t, NEW c, IsChain(t, p, c)
  PROVE  Len(c) \in Nat /\ Len(c) + 1 <= Size(t)
<1> DEFINE f == [i \in 0..Len(c) |-> Ancestor(p, c, i)]
<1>1. c \in Seq(DOMAIN t) /\ Len(c) \in Nat
  BY DEF IsChain
<1>2. \A i \in 0..Len(c) : Ancestor(p, c, i) \in DOMAIN t
  BY <1>1 DEF Ancestor
<1>3. f \in Injection(0..Len(c), DOMAIN t)
  BY <1>2 DEF Injection, IsInjective, IsChain
<1>4. Cardinality(0..Len(c)) = Len(c) + 1
  BY <1>1, FS_Interval
<1> HIDE DEF f
<1>5. Cardinality(0..Len(c)) <= Cardinality(DOMAIN t)
  BY <1>3, SizeType, FS_Injection
<1> QED BY <1>1, <1>4, <1>5 DEF Size

\* After i turns of its loop ancestry has that many, or found no further one.
HasClimbed(t, p, c, i) ==
  IsChain(t, p, c) /\ (Len(c) = i \/ (Len(c) < i /\ FurtherUp(t, p, c) = {}))

LEMMA ClimbIs ==
  ASSUME NEW t, IsTable(t), NEW p \in DOMAIN t, NEW limit \in Nat
  PROVE  \A i \in 0..limit : HasClimbed(t, p, Climb(t, p, limit)[i], i)
<1> DEFINE Chains == Seq(DOMAIN t)
           up(c) == IF FurtherUp(t, p, c) = {} THEN c
                    ELSE Append(c, CHOOSE q \in FurtherUp(t, p, c) : TRUE)
           turn == [i \in 1..limit |-> [c \in Chains |-> up(c)]]
           climb(g) == [i \in 0..limit |-> IF i = 0 THEN <<>> ELSE up(g[i - 1])]
           f == Climb(t, p, limit)
<1>1. ASSUME NEW c \in Chains PROVE up(c) \in Chains
  <2>1. CASE FurtherUp(t, p, c) = {}
    BY <2>1
  <2>2. CASE FurtherUp(t, p, c) # {}
    <3>1. PICK q : q = (CHOOSE r \in FurtherUp(t, p, c) : TRUE) /\ q \in FurtherUp(t, p, c)
      BY <2>2
    <3>2. q \in VerifiedParents(t, Ancestor(p, c, Len(c)))
      BY <3>1, FurtherUpIs
    <3>3. Ancestor(p, c, Len(c)) \in DOMAIN t
      BY DEF Ancestor
    <3>4. q \in DOMAIN t
      BY <3>2, <3>3, OneParent
    <3>5. up(c) = Append(c, q)
      BY <2>2, <3>1
    <3> HIDE DEF up
    <3> QED BY <3>4, <3>5
  <2> QED BY <2>1, <2>2
<1>2. <<>> \in Chains
  OBVIOUS
<1> HIDE DEF Chains, up
<1>3. /\ turn \in [1..limit -> [Chains -> Chains]]
      /\ \A i \in 1..limit, c \in Chains : turn[i][c] = up(c)
  BY <1>1
<1> HIDE DEF turn
<1>4. PICK g \in [0..limit -> Chains] :
        g[0] = <<>> /\ \A i \in 1..limit : g[i] = turn[i][g[i - 1]]
  <2> DEFINE none == <<>>
             n == limit
  <2>1. none \in Chains /\ n \in Nat /\ turn \in [1..n -> [Chains -> Chains]]
    BY <1>2, <1>3
  <2> HIDE DEF none, n
  <2>2. \E g \in [0..n -> Chains] :
          g[0] = none /\ \A i \in 1..n : g[i] = turn[i][g[i - 1]]
    BY ONLY <2>1, Recursion
  <2> QED BY <2>2 DEF none, n
<1>5. g = climb(g)
  <2>1. ASSUME NEW i \in 1..limit PROVE g[i] = up(g[i - 1])
    <3>1. g[i - 1] \in Chains
      OBVIOUS
    <3> QED BY <1>3, <1>4, <3>1
  <2>2. ASSUME NEW i \in 0..limit PROVE g[i] = IF i = 0 THEN <<>> ELSE up(g[i - 1])
    BY <1>4, <2>1
  <2> QED BY <2>2
<1>6. f = CHOOSE g1 : g1 = climb(g1)
  BY DEF Climb, up
<1>7. f = climb(f)
  <2> HIDE DEF climb, f
  <2> QED BY <1>5, <1>6
<1>8. f[0] = <<>> /\ \A i \in 0..limit : i # 0 => f[i] = up(f[i - 1])
  <2> HIDE DEF f
  <2> QED BY <1>7
<1> HIDE DEF f, climb
<1> DEFINE T == {i \in Nat : i <= limit => HasClimbed(t, p, f[i], i)}
<1>9. 0 \in T
  <2>1. HasClimbed(t, p, <<>>, 0)
    BY DEF IsChain, Ancestor, HasClimbed
  <2> QED BY <1>8, <2>1
<1>10. ASSUME NEW c, NEW i \in Nat, HasClimbed(t, p, c, i) PROVE HasClimbed(t, p, up(c), i + 1)
  <2>1. Len(c) \in Nat
    BY <1>10 DEF IsChain, HasClimbed
  <2>2. CASE FurtherUp(t, p, c) = {}
    <3>1. up(c) = c
      BY <2>2 DEF up
    <3> QED BY <1>10, <2>1, <2>2, <3>1 DEF HasClimbed
  <2>3. CASE FurtherUp(t, p, c) # {}
    <3>1. PICK q : q = (CHOOSE r \in FurtherUp(t, p, c) : TRUE) /\ q \in FurtherUp(t, p, c)
      BY <2>3
    <3>2. up(c) = Append(c, q)
      BY <2>3, <3>1 DEF up
    <3>3. IsChain(t, p, Append(c, q)) /\ Len(Append(c, q)) = Len(c) + 1
      BY <1>10, <3>1, ChainGrows DEF HasClimbed
    <3>4. Len(c) = i
      BY <1>10, <2>3 DEF HasClimbed
    <3> QED BY ONLY <3>2, <3>3, <3>4 DEF HasClimbed
  <2> QED BY <2>2, <2>3
<1>11. ASSUME NEW i \in T PROVE i + 1 \in T
  <2> SUFFICES ASSUME i + 1 <= limit PROVE HasClimbed(t, p, f[i + 1], i + 1)
    OBVIOUS
  <2>1. i \in Nat /\ HasClimbed(t, p, f[i], i)
    OBVIOUS
  <2>2. f[i + 1] = up(f[i])
    BY <1>8, <2>1
  <2> QED BY <1>10, <2>1, <2>2
<1>12. \A i \in Nat : i \in T
  <2>1. T \subseteq Nat
    OBVIOUS
  <2> HIDE DEF T
  <2> QED BY <1>9, <1>11, <2>1, AllNumbers
<1>13. \A i \in 0..limit : HasClimbed(t, p, f[i], i)
  <2> QED BY <1>12
<1> QED BY <1>13 DEF f

LEMMA AncestryIs ==
  ASSUME NEW t, IsTable(t), NEW p \in DOMAIN t, NEW limit \in Nat
  PROVE  HasClimbed(t, p, Ancestry(t, p, limit), limit)
<1>1. limit \in 0..limit
  OBVIOUS
<1> QED BY <1>1, ClimbIs DEF Ancestry

\* The first ancestor is the parent.
LEMMA ParentIsFirst ==
  ASSUME NEW t, IsTable(t), NEW p \in DOMAIN t, NEW limit \in Nat \ {0},
         NEW q \in VerifiedParents(t, p)
  PROVE  Head(Ancestry(t, p, limit)) = q
<1> DEFINE c == Ancestry(t, p, limit)
<1>1. IsChain(t, p, c) /\ (Len(c) = limit \/ FurtherUp(t, p, c) = {})
  BY AncestryIs DEF HasClimbed
<1>2. c \in Seq(DOMAIN t) /\ Len(c) \in Nat
  BY <1>1 DEF IsChain
<1> HIDE DEF c
<1>3. Len(c) # 0
  <2> SUFFICES ASSUME Len(c) = 0 PROVE FALSE
    OBVIOUS
  <2>1. FurtherUp(t, p, c) = {}
    BY <1>1
  <2>2. /\ q # p /\ q \in VerifiedParents(t, Ancestor(p, c, Len(c)))
        /\ \A i \in 0..Len(c) : q # Ancestor(p, c, i)
    BY OneParent DEF Ancestor
  <2> QED BY <1>2, <2>1, <2>2, FurtherUpIs
<1>4. c[1] \in VerifiedParents(t, p)
  <2>1. 1 \in 1..Len(c) /\ 1 - 1 = 0
    BY <1>2, <1>3
  <2> QED BY <1>1, <2>1 DEF IsChain, Ancestor
<1>5. c[1] = q
  BY <1>4, OneParent
<1> QED BY <1>2, <1>3, <1>5 DEF c

-----------------------------------------------------------------------------
(***************************************************************************)
(* Levels                                                                  *)
(***************************************************************************)
LEMMA LevelIs ==
  ASSUME NEW t, IsTable(t)
  PROVE  /\ Level(t, 0) = Roots(t)
         /\ \A n \in 1..Size(t) : Level(t, n) = UNION {Children(t, p) : p \in Level(t, n - 1)}
         /\ \A n \in 0..Size(t) : Level(t, n) \subseteq DOMAIN t
<1> DEFINE Sets == SUBSET (DOMAIN t)
           next(L) == UNION {Children(t, p) : p \in L}
           turn == [i \in 1..Size(t) |-> [L \in Sets |-> next(L)]]
           level(g) == [i \in 0..Size(t) |-> IF i = 0 THEN Roots(t) ELSE next(g[i - 1])]
           f == Levels(t)
<1>1. \A L : next(L) \in Sets
  BY DEF Children
<1>2. Roots(t) \in Sets
  BY DEF Roots
<1>3. Size(t) \in Nat
  BY SizeType
<1> HIDE DEF Sets, next
<1>4. turn \in [1..Size(t) -> [Sets -> Sets]]
  BY <1>1
<1>5. \A i \in 1..Size(t), L \in Sets : turn[i][L] = next(L)
  OBVIOUS
<1> HIDE DEF turn
<1>6. PICK g \in [0..Size(t) -> Sets] :
        g[0] = Roots(t) /\ \A i \in 1..Size(t) : g[i] = turn[i][g[i - 1]]
  <2> DEFINE none == Roots(t)
             n == Size(t)
  <2>1. none \in Sets /\ n \in Nat /\ turn \in [1..n -> [Sets -> Sets]]
    BY <1>2, <1>3, <1>4
  <2> HIDE DEF none, n
  <2>2. \E g \in [0..n -> Sets] : g[0] = none /\ \A i \in 1..n : g[i] = turn[i][g[i - 1]]
    BY ONLY <2>1, Recursion
  <2> QED BY <2>2 DEF none, n
<1>7. g = level(g)
  <2>1. ASSUME NEW i \in 1..Size(t) PROVE g[i] = next(g[i - 1])
    <3>1. g[i - 1] \in Sets
      BY <1>3
    <3> QED BY <1>5, <1>6, <3>1
  <2>2. ASSUME NEW i \in 0..Size(t)
        PROVE  g[i] = IF i = 0 THEN Roots(t) ELSE next(g[i - 1])
    BY <1>3, <1>6, <2>1
  <2> QED BY <2>2
<1>8. f = CHOOSE g1 : g1 = level(g1)
  BY DEF Levels, next, Size
<1>9. f = level(f)
  <2> HIDE DEF level, f
  <2> QED BY <1>7, <1>8
<1>10. f[0] = Roots(t) /\ \A i \in 1..Size(t) : f[i] = next(f[i - 1])
  <2> HIDE DEF f
  <2> QED BY <1>3, <1>9
<1>11. \A n \in 0..Size(t) : f[n] \in Sets
  <2> HIDE DEF f
  <2> QED BY <1>1, <1>2, <1>3, <1>10
<1> QED BY <1>10, <1>11 DEF Level, next, Sets

\* The parent of a process is one level above it.
LEMMA LevelAbove ==
  ASSUME NEW t, IsTable(t), NEW n \in 0..Size(t), NEW p \in Level(t, n),
         NEW q \in VerifiedParents(t, p)
  PROVE  n # 0 /\ n - 1 \in 0..Size(t) /\ q \in Level(t, n - 1)
<1>1. Size(t) \in Nat /\ p \in DOMAIN t
  BY SizeType, LevelIs
<1>2. n # 0
  BY LevelIs DEF Roots
<1>3. n \in 1..Size(t) /\ n - 1 \in 0..Size(t)
  BY <1>1, <1>2
<1>4. PICK r \in Level(t, n - 1) : p \in Children(t, r)
  BY <1>3, LevelIs
<1>5. r \in VerifiedParents(t, p)
  BY <1>4, ChildIs
<1>6. r = q
  BY <1>1, <1>5, OneParent
<1> QED BY <1>2, <1>3, <1>4, <1>6

LEMMA LevelBelow ==
  ASSUME NEW t, IsTable(t), NEW n \in 0..Size(t), NEW q \in Level(t, n), n + 1 <= Size(t),
         NEW p \in DOMAIN t, q \in VerifiedParents(t, p)
  PROVE  n + 1 \in 0..Size(t) /\ p \in Level(t, n + 1)
<1>1. Size(t) \in Nat
  BY SizeType
<1>2. n + 1 \in 1..Size(t) /\ n + 1 - 1 = n
  BY <1>1
<1>3. p \in Children(t, q)
  BY ChildIs
<1> QED BY <1>1, <1>2, <1>3, LevelIs

\* Above the top of the levels there is nobody.
LEMMA LevelHasParent ==
  ASSUME NEW t, IsTable(t), NEW n \in 0..Size(t), NEW p \in Level(t, n)
  PROVE  VerifiedParents(t, p) = {} <=> n = 0
<1>1. CASE n = 0
  BY <1>1, LevelIs DEF Roots
<1>2. CASE n # 0
  <2>1. n \in 1..Size(t)
    BY <1>2, SizeType
  <2>2. PICK r \in Level(t, n - 1) : p \in Children(t, r)
    BY <2>1, LevelIs
  <2> QED BY <1>2, <2>2, ChildIs
<1> QED BY <1>1, <1>2

\* A process is on one level.
LEMMA OneLevel ==
  ASSUME NEW t, IsTable(t)
  PROVE  \A m, n \in 0..Size(t) : \A p : p \in Level(t, m) /\ p \in Level(t, n) => m = n
<1> DEFINE Alone(m) ==
             \A n \in 0..Size(t) : \A p : p \in Level(t, m) /\ p \in Level(t, n) => m = n
           T == {m \in Nat : m <= Size(t) => Alone(m)}
<1>1. Size(t) \in Nat
  BY SizeType
<1>2. 0 \in T
  <2>1. Alone(0)
    <3> SUFFICES ASSUME NEW n \in 0..Size(t), NEW p, p \in Level(t, 0), p \in Level(t, n)
                 PROVE  0 = n
      OBVIOUS
    <3>1. 0 \in 0..Size(t)
      BY <1>1
    <3> QED BY <3>1, LevelHasParent
  <2> QED BY <2>1
<1>3. ASSUME NEW m \in T PROVE m + 1 \in T
  <2> SUFFICES ASSUME m + 1 <= Size(t) PROVE Alone(m + 1)
    OBVIOUS
  <2>1. m \in Nat /\ Alone(m) /\ m + 1 \in 0..Size(t) /\ m + 1 # 0 /\ m + 1 - 1 = m
    BY <1>1
  <2>2. SUFFICES ASSUME NEW n \in 0..Size(t), NEW p, p \in Level(t, m + 1), p \in Level(t, n)
                 PROVE  m + 1 = n
    OBVIOUS
  <2>3. PICK q \in VerifiedParents(t, p) : TRUE
    BY <2>1, <2>2, LevelHasParent
  <2>4. q \in Level(t, m)
    <3>1. q \in Level(t, m + 1 - 1)
      BY <2>1, <2>2, LevelAbove
    <3> QED BY <2>1, <3>1
  <2>5. n - 1 \in 0..Size(t) /\ q \in Level(t, n - 1)
    BY <2>2, LevelAbove
  <2>6. m = n - 1
    BY <2>1, <2>4, <2>5
  <2> QED BY <1>1, <2>1, <2>6
<1>4. \A m \in Nat : m \in T
  <2>1. T \subseteq Nat
    OBVIOUS
  <2> HIDE DEF T
  <2> QED BY <1>2, <1>3, <2>1, AllNumbers
<1> QED BY <1>1, <1>4

-----------------------------------------------------------------------------
\* A chain climbs a level with each link.
LEMMA ChainClimbs ==
  ASSUME NEW t, IsTable(t), NEW n \in 0..Size(t), NEW p \in Level(t, n),
         NEW c, IsChain(t, p, c)
  PROVE  \A i \in 0..Len(c) :
           i <= n /\ n - i \in 0..Size(t) /\ Ancestor(p, c, i) \in Level(t, n - i)
<1> DEFINE Above(i) == i <= n /\ n - i \in 0..Size(t) /\ Ancestor(p, c, i) \in Level(t, n - i)
           T == {i \in Nat : i <= Len(c) => Above(i)}
<1>1. Size(t) \in Nat /\ Len(c) \in Nat
  BY SizeType DEF IsChain
<1>2. 0 \in T
  <2>1. n - 0 = n /\ 0 <= n
    BY <1>1
  <2> QED BY <2>1 DEF Ancestor
<1>3. ASSUME NEW i \in T PROVE i + 1 \in T
  <2> SUFFICES ASSUME i + 1 <= Len(c) PROVE Above(i + 1)
    OBVIOUS
  <2>1. i \in Nat /\ i + 1 \in 1..Len(c) /\ i + 1 - 1 = i /\ Above(i)
    BY <1>1
  <2>2. Ancestor(p, c, i + 1) \in VerifiedParents(t, Ancestor(p, c, i))
    <3>1. Ancestor(p, c, i + 1) \in VerifiedParents(t, Ancestor(p, c, i + 1 - 1))
      BY <2>1 DEF IsChain
    <3> QED BY <2>1, <3>1
  <2>3. n - i # 0 /\ n - i - 1 \in 0..Size(t) /\ Ancestor(p, c, i + 1) \in Level(t, n - i - 1)
    <3> DEFINE k == n - i
    <3>1. k \in 0..Size(t) /\ Ancestor(p, c, i) \in Level(t, k)
      BY <2>1
    <3> HIDE DEF k
    <3>2. k # 0 /\ k - 1 \in 0..Size(t) /\ Ancestor(p, c, i + 1) \in Level(t, k - 1)
      BY <2>2, <3>1, LevelAbove
    <3> QED BY <3>2 DEF k
  <2>4. n - i - 1 = n - (i + 1) /\ i + 1 <= n
    BY <1>1, <2>1, <2>3
  <2> QED BY <2>3, <2>4
<1>4. \A i \in Nat : i \in T
  <2>1. T \subseteq Nat
    OBVIOUS
  <2> HIDE DEF T
  <2> QED BY <1>2, <1>3, <2>1, AllNumbers
<1> QED BY <1>1, <1>4

\* The ancestors of a process lead up to level 0, if there is no lower limit, and are as
\* many as its level says.
LEMMA AncestryReachesRoot ==
  ASSUME NEW t, IsTable(t), NEW n \in 0..Size(t), NEW p \in Level(t, n),
         NEW limit \in Nat, n <= limit
  PROVE  /\ Len(Ancestry(t, p, limit)) = n
         /\ VerifiedParents(t, Top(p, Ancestry(t, p, limit))) = {}
<1> DEFINE c == Ancestry(t, p, limit)
           top == Ancestor(p, c, Len(c))
<1>1. Size(t) \in Nat /\ p \in DOMAIN t
  BY SizeType, LevelIs
<1>2. IsChain(t, p, c) /\ (Len(c) = limit \/ FurtherUp(t, p, c) = {})
  BY <1>1, AncestryIs DEF HasClimbed
<1> HIDE DEF c
<1>3. c \in Seq(DOMAIN t) /\ Len(c) \in Nat
  BY <1>2 DEF IsChain
<1>4. \A i \in 0..Len(c) :
        i <= n /\ n - i \in 0..Size(t) /\ Ancestor(p, c, i) \in Level(t, n - i)
  BY <1>2, ChainClimbs
<1>5. Len(c) <= n /\ n - Len(c) \in 0..Size(t) /\ top \in Level(t, n - Len(c))
  BY <1>3, <1>4
<1>6. Len(c) = n
  <2> SUFFICES ASSUME Len(c) # n PROVE FALSE
    OBVIOUS
  <2> DEFINE k == n - Len(c)
  <2>1. k \in 0..Size(t) /\ k # 0 /\ top \in Level(t, k) /\ FurtherUp(t, p, c) = {}
    BY <1>1, <1>2, <1>3, <1>5
  <2> HIDE DEF top
  <2>2. PICK q \in VerifiedParents(t, top) : TRUE
    <3> HIDE DEF k
    <3> QED BY <2>1, LevelHasParent
  <2>3. k - 1 \in 0..Size(t) /\ q \in Level(t, k - 1)
    <3> HIDE DEF k
    <3> QED BY <2>1, LevelAbove
  <2>4. PICK i \in 0..Len(c) : q = Ancestor(p, c, i)
    BY <1>3, <2>1, <2>2, FurtherUpIs DEF top
  <2>5. n - i \in 0..Size(t) /\ q \in Level(t, n - i)
    BY <1>4, <2>4
  <2>6. k - 1 = n - i
    BY <2>3, <2>5, OneLevel
  <2> QED BY <1>1, <1>3, <2>6
<1>7. VerifiedParents(t, top) = {}
  <2>1. n - Len(c) = 0
    BY <1>1, <1>3, <1>6
  <2>2. 0 \in 0..Size(t) /\ top \in Level(t, 0)
    BY <1>1, <1>5, <2>1
  <2> HIDE DEF top
  <2> QED BY <2>2, LevelHasParent
<1> QED BY <1>3, <1>6, <1>7, TopIs DEF c

\* A process with a chain up to one without a parent is on the level of its length.
LEMMA LevelOfChain ==
  ASSUME NEW t, IsTable(t), NEW p \in DOMAIN t, NEW c, IsChain(t, p, c),
         VerifiedParents(t, Top(p, c)) = {}
  PROVE  Len(c) \in 0..Size(t) /\ p \in Level(t, Len(c))
<1> DEFINE n == Len(c)
           Is(j) == Ancestor(p, c, n - j) \in Level(t, j)
           T == {j \in Nat : j <= n => Is(j)}
<1>1. Size(t) \in Nat /\ n \in Nat /\ n + 1 <= Size(t) /\ c \in Seq(DOMAIN t)
  BY SizeType, ChainIsShort DEF IsChain
<1>2. \A i \in 0..n : Ancestor(p, c, i) \in DOMAIN t
  BY <1>1 DEF Ancestor
<1>3. 0 \in T
  <2>1. n - 0 = n /\ n \in 0..n
    BY <1>1
  <2>2. Ancestor(p, c, n) \in Roots(t)
    BY <1>1, <1>2, <2>1, TopIs DEF Roots
  <2> QED BY <2>1, <2>2, LevelIs
<1>4. ASSUME NEW j \in T PROVE j + 1 \in T
  <2> SUFFICES ASSUME j + 1 <= n PROVE Is(j + 1)
    OBVIOUS
  <2> DEFINE k == n - j
  <2>1. /\ j \in 0..Size(t) /\ j + 1 <= Size(t) /\ n - j \in 1..n /\ n - (j + 1) = n - j - 1
        /\ n - j - 1 \in 0..n /\ Ancestor(p, c, n - j) \in Level(t, j)
    BY <1>1
  <2> HIDE DEF n
  <2>2. Ancestor(p, c, n - j) \in VerifiedParents(t, Ancestor(p, c, n - j - 1))
    BY <2>1 DEF IsChain, n
  <2>3. Ancestor(p, c, n - j - 1) \in DOMAIN t
    BY <1>2, <2>1
  <2>4. Ancestor(p, c, n - j - 1) \in Level(t, j + 1)
    BY <2>1, <2>2, <2>3, LevelBelow
  <2> QED BY <2>1, <2>4
<1>5. \A j \in Nat : j \in T
  <2>1. T \subseteq Nat
    OBVIOUS
  <2> HIDE DEF T
  <2> QED BY <1>3, <1>4, <2>1, AllNumbers
<1>6. Ancestor(p, c, n - n) \in Level(t, n)
  BY <1>1, <1>5
<1>7. n - n = 0 /\ n \in 0..Size(t)
  BY <1>1
<1> QED BY <1>6, <1>7 DEF Ancestor

-----------------------------------------------------------------------------
(***************************************************************************)
(* The order                                                               *)
(***************************************************************************)
\* There is an oldest of some processes: of those created first, that of the least PID.
LEMMA OldestIs ==
  ASSUME NEW t, IsTable(t), NEW S, S \subseteq DOMAIN t, S # {}
  PROVE  Oldest(t, S) \in S
<1> DEFINE times == {t[p].created : p \in S}
<1>1. times \subseteq Nat /\ times # {}
  BY DEF IsTable
<1>2. PICK first \in times : \A x \in times : first <= x
  <2> HIDE DEF times
  <2> QED BY <1>1, LeastNumber
<1> DEFINE pids == {p \in S : t[p].created = first}
<1>3. pids \subseteq Nat /\ pids # {}
  BY <1>2, ForestAssumption DEF IsTable, ForestAssumption
<1>4. PICK p \in pids : \A q \in pids : p <= q
  <2> HIDE DEF pids
  <2> QED BY <1>3, LeastNumber
<1>5. p \in S
  BY <1>4
<1>6. ASSUME NEW q \in S PROVE Before(t, p, q)
  <2>1. t[q].created \in Nat /\ t[p].created = first /\ first <= t[q].created
    BY <1>1, <1>2, <1>4
  <2>2. t[q].created = first => p <= q
    BY <1>4
  <2> HIDE DEF pids, times
  <2>3. first \in Nat
    BY <1>1, <1>2
  <2> QED BY <2>1, <2>2, <2>3 DEF Before
<1> QED BY <1>5, <1>6 DEF Oldest

LEMMA LatestIs ==
  ASSUME NEW n \in Nat, NEW S, S \subseteq 1..n, S # {}
  PROVE  Max(S) \in S
<1> DEFINE T == {n - i : i \in S}
<1>1. T \subseteq Nat /\ T # {}
  <2>1. \A i \in S : n - i \in Nat
    OBVIOUS
  <2> QED BY <2>1
<1>2. PICK x \in T : \A y \in T : x <= y
  <2> HIDE DEF T
  <2> QED BY <1>1, LeastNumber
<1>3. PICK i \in S : x = n - i
  BY <1>2
<1>4. ASSUME NEW j \in S PROVE i >= j
  <2>1. n - j \in T
    OBVIOUS
  <2>2. x <= n - j
    BY <1>2, <2>1
  <2>3. i \in Nat /\ j \in Nat
    OBVIOUS
  <2> HIDE DEF T
  <2> QED BY <1>3, <2>2, <2>3
<1> QED BY <1>3, <1>4 DEF Max

-----------------------------------------------------------------------------
(***************************************************************************)
(* The invariant                                                           *)
(***************************************************************************)
NodeType(t) ==
  [process : DOMAIN t, parent : DOMAIN t \cup {NoParent}, verified : BOOLEAN, depth : Nat]

\* No finite chain leads from p up to a process without a verified parent.
Endless(t, p) == \A n \in 0..Size(t) : p \notin Level(t, n)

\* What is shown below its parent, one of the first k nodes, or at the top.
IsBelow(t, nodes, k, node) ==
  /\ VerifiedParents(t, node.process) = {node.parent} /\ node.verified
  /\ \E j \in 1..k : nodes[j].process = node.parent /\ nodes[j].depth = node.depth - 1
  /\ node.depth <= MaxDepth

IsAtTop(t, node) ==
  /\ node.depth = 0
  /\ VerifiedParents(t, node.process) = {} \/ Endless(t, node.process)
  /\ node.verified <=> ~ClaimsParent(t, node.process)

\* How deep a process is shown, if its ancestors end, is how many there are.
IsPlaced(t, nodes, k, node) ==
  /\ IF node.parent # NoParent THEN IsBelow(t, nodes, k, node) ELSE IsAtTop(t, node)
  /\ \A n \in 0..Size(t) : node.process \in Level(t, n) => node.depth = n

IsForest(t, nodes) ==
  /\ IsTable(t)
  /\ nodes \in Seq(NodeType(t))
  /\ \A i, j \in 1..Len(nodes) : nodes[i].process = nodes[j].process => i = j
  /\ \A i \in 1..Len(nodes) : IsPlaced(t, nodes, i - 1, nodes[i])

ForestInv == IsForest(snapshot, shown)

LEMMA NodeIs ==
  ASSUME NEW t, NEW nodes, IsForest(t, nodes), NEW i \in 1..Len(nodes)
  PROVE  /\ nodes[i] \in NodeType(t)
         /\ nodes[i].process \in DOMAIN t /\ nodes[i].process \in Reached(nodes)
         /\ nodes[i].depth \in Nat /\ IsPlaced(t, nodes, i - 1, nodes[i])
<1>1. nodes \in Seq(NodeType(t)) /\ DOMAIN nodes = 1..Len(nodes)
  BY DEF IsForest
<1>2. nodes[i] \in NodeType(t)
  BY <1>1, ElementOfSeq
<1>3. nodes[i].process \in Reached(nodes)
  BY <1>1 DEF Reached
<1> QED BY <1>2, <1>3 DEF NodeType, IsForest

LEMMA ReachedIs ==
  ASSUME NEW t, NEW nodes, IsForest(t, nodes), NEW p \in Reached(nodes)
  PROVE  \E i \in 1..Len(nodes) : nodes[i].process = p
<1>1. DOMAIN nodes = 1..Len(nodes)
  BY DEF IsForest
<1> QED BY <1>1 DEF Reached

\* One more node in its place.
LEMMA NodeKeeps ==
  ASSUME NEW t, NEW nodes, IsForest(t, nodes), NEW node \in NodeType(t),
         node.process \notin Reached(nodes), IsPlaced(t, nodes, Len(nodes), node)
  PROVE  IsForest(t, Append(nodes, node))
<1> DEFINE k == Len(nodes)
           more == Append(nodes, node)
<1>1. nodes \in Seq(NodeType(t)) /\ k \in Nat /\ DOMAIN nodes = 1..k
  BY DEF IsForest
<1>2. /\ more \in Seq(NodeType(t)) /\ Len(more) = k + 1
      /\ more[k + 1] = node /\ \A i \in 1..k : more[i] = nodes[i]
  BY <1>1
<1> HIDE DEF more
<1>3. ASSUME NEW m \in 0..k, NEW other, IsPlaced(t, nodes, m, other)
      PROVE  IsPlaced(t, more, m, other)
  <2>1. \A j \in 1..m : more[j] = nodes[j]
    BY <1>1, <1>2
  <2> QED BY <1>3, <2>1 DEF IsPlaced, IsBelow
<1>4. \A i \in 1..k + 1 : i \in 1..k \/ i = k + 1
  BY <1>1
<1>5. ASSUME NEW i \in 1..k + 1 PROVE IsPlaced(t, more, i - 1, more[i])
  <2>1. CASE i \in 1..k
    <3>1. i - 1 \in 0..k
      BY <1>1, <2>1
    <3> QED BY <1>2, <1>3, <2>1, <3>1 DEF IsForest
  <2>2. CASE i = k + 1
    <3>1. i - 1 = k /\ k \in 0..k
      BY <1>1, <2>2
    <3> QED BY <1>2, <1>3, <2>2, <3>1
  <2> QED BY <1>4, <2>1, <2>2
<1>6. \A i \in 1..k : nodes[i].process # node.process
  BY <1>1 DEF Reached
<1>7. ASSUME NEW i \in 1..k + 1, NEW j \in 1..k + 1, more[i].process = more[j].process
      PROVE  i = j
  <2>1. \A x, y \in 1..k : nodes[x].process = nodes[y].process => x = y
    BY DEF IsForest
  <2> HIDE DEF k
  <2> QED BY <1>2, <1>4, <1>6, <1>7, <2>1
<1> QED BY <1>2, <1>5, <1>7 DEF IsForest, more

-----------------------------------------------------------------------------
(***************************************************************************)
(* Every step                                                              *)
(***************************************************************************)
LEMMA ChildKeeps == ASSUME ForestInv, ShowChild PROVE ForestInv'
<1> DEFINE t == snapshot
           nodes == shown
           S == Building(t, nodes)
           m == Max(S)
           above == nodes[m]
           kids == Unreached(nodes, Children(t, above.process))
           c == Oldest(t, kids)
           node == Node(c, above.process, TRUE, above.depth + 1)
<1>1. S # {} /\ shown' = Append(nodes, node) /\ snapshot' = t
  BY DEF ShowChild, Show
<1>2. IsForest(t, nodes) /\ IsTable(t) /\ Len(nodes) \in Nat /\ DOMAIN nodes = 1..Len(nodes)
  BY DEF ForestInv, IsForest
<1>3. m \in S /\ m \in 1..Len(nodes)
  <2>1. S \subseteq 1..Len(nodes)
    BY <1>2 DEF Building
  <2> HIDE DEF S
  <2> QED BY <1>1, <1>2, <2>1, LatestIs
<1>4. above.depth < MaxDepth /\ kids # {}
  <2> HIDE DEF m
  <2> QED BY <1>3 DEF Building
<1> HIDE DEF S, m
<1>5. above.process \in DOMAIN t /\ above.depth \in Nat /\ IsPlaced(t, nodes, m - 1, above)
  BY <1>2, <1>3, NodeIs
<1>6. c \in kids
  <2>1. kids \subseteq DOMAIN t
    BY DEF Unreached, Children
  <2> HIDE DEF kids
  <2> QED BY <1>2, <1>4, <2>1, OldestIs
<1> HIDE DEF c
<1>7. c \in DOMAIN t /\ c \notin Reached(nodes) /\ above.process \in VerifiedParents(t, c)
  BY <1>6 DEF Unreached, Children
<1>8. VerifiedParents(t, c) = {above.process} /\ above.process # NoParent
  BY <1>2, <1>7, OneParent
<1>9. above.depth + 1 \in Nat /\ above.depth + 1 <= MaxDepth /\ above.depth + 1 - 1 = above.depth
  BY <1>4, <1>5, ForestAssumption DEF ForestAssumption
<1>10. /\ node \in NodeType(t) /\ node.process = c /\ node.parent = above.process
       /\ node.verified = TRUE /\ node.depth = above.depth + 1
  BY <1>5, <1>7, <1>9 DEF Node, NodeType
<1>11. ASSUME NEW n \in 0..Size(t), c \in Level(t, n) PROVE above.depth + 1 = n
  <2>1. n - 1 \in 0..Size(t) /\ above.process \in Level(t, n - 1)
    BY <1>2, <1>7, <1>11, LevelAbove
  <2>2. above.depth = n - 1
    BY <1>5, <2>1 DEF IsPlaced
  <2> QED BY <1>2, <2>2, SizeType
<1>12. IsPlaced(t, nodes, Len(nodes), node)
  <2> HIDE DEF node
  <2>1. \E j \in 1..Len(nodes) :
          nodes[j].process = node.parent /\ nodes[j].depth = node.depth - 1
    <3>1. above.process = node.parent /\ above.depth = node.depth - 1
      <4>1. node.parent = above.process /\ node.depth = above.depth + 1 /\ above.depth \in Nat
        BY <1>5, <1>10
      <4> HIDE DEF above
      <4> QED BY ONLY <4>1
    <3> QED BY <1>3, <3>1
  <2>2. /\ VerifiedParents(t, node.process) = {node.parent}
        /\ node.verified /\ node.depth <= MaxDepth
    <3> HIDE DEF above
    <3> QED BY <1>8, <1>9, <1>10
  <2>3. IsBelow(t, nodes, Len(nodes), node)
    BY <2>1, <2>2 DEF IsBelow
  <2> QED BY <2>3, <1>8, <1>10, <1>11 DEF IsPlaced
<1> HIDE DEF node
<1>13. IsForest(t, Append(nodes, node))
  BY <1>2, <1>7, <1>10, <1>12, NodeKeeps
<1> QED BY <1>1, <1>13 DEF ForestInv

LEMMA RootKeeps == ASSUME ForestInv, ShowRoot PROVE ForestInv'
<1> DEFINE t == snapshot
           nodes == shown
           S == Unreached(nodes, Roots(t))
           p == Oldest(t, S)
           node == Node(p, NoParent, ~ClaimsParent(t, p), 0)
<1>1. S # {} /\ shown' = Append(nodes, node) /\ snapshot' = t
  BY DEF ShowRoot, Show
<1>2. IsForest(t, nodes) /\ IsTable(t)
  BY DEF ForestInv, IsForest
<1>3. p \in S
  <2>1. S \subseteq DOMAIN t
    BY DEF Unreached, Roots
  <2> HIDE DEF S
  <2> QED BY <1>1, <1>2, <2>1, OldestIs
<1>4. /\ p \in DOMAIN t /\ p \notin Reached(nodes)
      /\ p \in Level(t, 0) /\ VerifiedParents(t, p) = {}
  <2>1. p \in Roots(t) /\ p \notin Reached(nodes)
    BY <1>3 DEF Unreached
  <2> HIDE DEF p
  <2> QED BY <1>2, <2>1, LevelIs DEF Roots
<1> HIDE DEF p
<1>5. /\ node \in NodeType(t) /\ node.process = p /\ node.parent = NoParent
      /\ node.depth = 0
  BY <1>4 DEF Node, NodeType, ClaimsParent
<1>6. node.verified <=> ~ClaimsParent(t, p)
  BY DEF Node
<1>7. \A n \in 0..Size(t) : p \in Level(t, n) => 0 = n
  <2>1. 0 \in 0..Size(t)
    BY <1>2, SizeType
  <2> QED BY <1>2, <1>4, <2>1, OneLevel
<1> HIDE DEF node
<1>8. IsPlaced(t, nodes, Len(nodes), node)
  BY <1>4, <1>5, <1>6, <1>7 DEF IsPlaced, IsAtTop
<1>9. IsForest(t, Append(nodes, node))
  BY <1>2, <1>4, <1>5, <1>8, NodeKeeps
<1> QED BY <1>1, <1>9 DEF ForestInv

\* When every call of build has returned, each level down to MaxDepth is shown.
LEMMA LevelsAreReached ==
  ASSUME NEW t, NEW nodes, IsForest(t, nodes), Building(t, nodes) = {},
         Unreached(nodes, Roots(t)) = {}
  PROVE  \A n \in 0..Size(t) : n <= MaxDepth => Level(t, n) \subseteq Reached(nodes)
<1> DEFINE Is(n) == n <= MaxDepth => Level(t, n) \subseteq Reached(nodes)
           T == {n \in Nat : n <= Size(t) => Is(n)}
<1>1. IsTable(t) /\ Size(t) \in Nat /\ MaxDepth \in Nat
  BY SizeType, ForestAssumption DEF IsForest, ForestAssumption
<1>2. 0 \in T
  <2>1. Level(t, 0) \subseteq Reached(nodes)
    BY <1>1, LevelIs DEF Unreached
  <2> QED BY <2>1
<1>3. ASSUME NEW n \in T PROVE n + 1 \in T
  <2> SUFFICES ASSUME n + 1 <= Size(t), n + 1 <= MaxDepth, NEW p \in Level(t, n + 1)
               PROVE  p \in Reached(nodes)
    OBVIOUS
  <2>1. /\ n \in 0..Size(t) /\ n < MaxDepth /\ n + 1 \in 0..Size(t) /\ n + 1 # 0
        /\ n + 1 - 1 = n /\ Level(t, n) \subseteq Reached(nodes)
    BY <1>1
  <2>2. p \in DOMAIN t
    BY <1>1, <2>1, LevelIs
  <2>3. PICK q \in VerifiedParents(t, p) : TRUE
    BY <1>1, <2>1, LevelHasParent
  <2>4. q \in Level(t, n + 1 - 1)
    BY <1>1, <2>1, LevelAbove
  <2>5. q \in Level(t, n)
    BY <2>1, <2>4
  <2>6. PICK i \in 1..Len(nodes) : nodes[i].process = q
    BY <2>1, <2>5, ReachedIs
  <2>7. nodes[i].depth = n
    BY <2>1, <2>5, <2>6, NodeIs DEF IsPlaced
  <2>8. p \in Children(t, nodes[i].process)
    BY <2>2, <2>3, <2>6, ChildIs
  <2>9. i \in DOMAIN nodes /\ i \notin Building(t, nodes)
    BY DEF IsForest
  <2>10. Unreached(nodes, Children(t, nodes[i].process)) = {}
    BY <2>1, <2>7, <2>9 DEF Building
  <2> QED BY <2>8, <2>10 DEF Unreached
<1>4. \A n \in Nat : n \in T
  <2>1. T \subseteq Nat
    OBVIOUS
  <2> HIDE DEF T
  <2> QED BY <1>2, <1>3, <2>1, AllNumbers
<1> QED BY <1>1, <1>4

\* Who is on a level deeper than MaxDepth is beyond it; who is beyond it is on one.
LEMMA DeepIsBeyond ==
  ASSUME NEW t, IsTable(t), NEW n \in 0..Size(t), n > MaxDepth, NEW p \in Level(t, n)
  PROVE  BeyondDepth(t, p)
<1>1. Size(t) + 1 \in Nat /\ n <= Size(t) + 1 /\ n >= MaxDepth
  BY SizeType, ForestAssumption DEF ForestAssumption
<1>2. /\ Len(Ancestry(t, p, Size(t) + 1)) = n
      /\ VerifiedParents(t, Top(p, Ancestry(t, p, Size(t) + 1))) = {}
  BY <1>1, AncestryReachesRoot
<1> QED BY <1>1, <1>2 DEF BeyondDepth, Size

LEMMA BeyondIsNotEndless ==
  ASSUME NEW t, IsTable(t), NEW p \in DOMAIN t, BeyondDepth(t, p)
  PROVE  ~Endless(t, p)
<1> DEFINE c == Ancestry(t, p, Size(t) + 1)
<1>1. VerifiedParents(t, Top(p, c)) = {}
  BY DEF BeyondDepth, Size
<1>2. Size(t) + 1 \in Nat
  BY SizeType
<1>3. IsChain(t, p, c)
  BY <1>2, AncestryIs DEF HasClimbed
<1> HIDE DEF c
<1> QED BY <1>1, <1>3, LevelOfChain DEF Endless

LEMMA LeftOverKeeps == ASSUME ForestInv, ShowLeftOver PROVE ForestInv'
<1> DEFINE t == snapshot
           nodes == shown
           S == LeftOver(t, nodes)
           p == Oldest(t, S)
           node == Node(p, NoParent, FALSE, 0)
<1>1. /\ S # {} /\ shown' = Append(nodes, node) /\ snapshot' = t
      /\ Building(t, nodes) = {} /\ Unreached(nodes, Roots(t)) = {}
  BY DEF ShowLeftOver, Show
<1>2. IsForest(t, nodes) /\ IsTable(t)
  BY DEF ForestInv, IsForest
<1>3. p \in S
  <2>1. S \subseteq DOMAIN t
    BY DEF LeftOver, Unreached
  <2> HIDE DEF S
  <2> QED BY <1>1, <1>2, <2>1, OldestIs
<1>4. p \in DOMAIN t /\ p \notin Reached(nodes) /\ ~BeyondDepth(t, p)
  <2> HIDE DEF p
  <2> QED BY <1>3 DEF LeftOver, Unreached
<1> HIDE DEF p
<1>5. Endless(t, p)
  <2> SUFFICES ASSUME NEW n \in 0..Size(t), p \in Level(t, n) PROVE FALSE
    BY DEF Endless
  <2>1. ~(n > MaxDepth)
    BY <1>2, <1>4, DeepIsBeyond
  <2>2. n <= MaxDepth
    BY <1>2, <2>1, SizeType, ForestAssumption DEF ForestAssumption
  <2> QED BY <1>1, <1>2, <1>4, <2>2, LevelsAreReached
<1>6. ClaimsParent(t, p)
  <2>1. p \notin Roots(t)
    BY <1>1, <1>4 DEF Unreached
  <2>2. PICK q \in VerifiedParents(t, p) : TRUE
    BY <1>4, <2>1 DEF Roots
  <2> QED BY <1>2, <1>4, <2>2, OneParent
<1>7. /\ node \in NodeType(t) /\ node.process = p /\ node.parent = NoParent
      /\ node.depth = 0 /\ node.verified = FALSE
  BY <1>4 DEF Node, NodeType
<1> HIDE DEF node
<1>8. IsPlaced(t, nodes, Len(nodes), node)
  BY <1>5, <1>6, <1>7 DEF IsPlaced, IsAtTop, Endless
<1>9. IsForest(t, Append(nodes, node))
  BY <1>2, <1>4, <1>7, <1>8, NodeKeeps
<1> QED BY <1>1, <1>9 DEF ForestInv

\* Nothing is shown before there is a snapshot.
LEMMA CollectKeeps == ASSUME ForestInv, Collect PROVE ForestInv'
<1>1. IsTable(snapshot')
  <2>1. PICK S \in SUBSET TreePids :
          snapshot' \in [S -> [ppid : TreePids \cup {NoParent}, created : Times]]
    <3>1. PICK X \in {[S -> [ppid : TreePids \cup {NoParent}, created : Times]] :
                         S \in (SUBSET TreePids) \ {{}}} : snapshot' \in X
      BY Zenon DEF Collect, Snapshots
    <3> QED BY <3>1, Zenon
  <2> QED BY <2>1, ForestAssumption DEF IsTable, ForestAssumption
<1>2. shown' = <<>>
  <2>0. snapshot = <<>>
    BY DEF Collect
  <2>1. shown \in Seq(NodeType(snapshot)) /\ DOMAIN snapshot = {}
    BY <2>0 DEF ForestInv, IsForest
  <2>2. \A i \in 1..Len(shown) : FALSE
    BY <2>1, ElementOfSeq DEF NodeType
  <2>3. shown = <<>>
    BY <2>1, <2>2
  <2> QED BY <2>3 DEF Collect
<1> QED BY <1>1, <1>2 DEF ForestInv, IsForest

LEMMA ForestInit == InitForest => ForestInv
BY DEF InitForest, ForestInv, IsForest, IsTable

LEMMA ForestStep == ForestInv /\ [NextForest]_forestVars => ForestInv'
<1> SUFFICES ASSUME ForestInv, [NextForest]_forestVars PROVE ForestInv'
  OBVIOUS
<1>1. CASE UNCHANGED forestVars
  BY <1>1 DEF forestVars, ForestInv
<1> QED BY <1>1, CollectKeeps, ChildKeeps, RootKeeps, LeftOverKeeps DEF NextForest

-----------------------------------------------------------------------------
LEMMA ForestShows == ForestInv => EveryProcessIsShown
<1> SUFFICES ASSUME ForestInv PROVE EveryProcessIsShown
  OBVIOUS
<1> DEFINE t == snapshot
           nodes == shown
           beyond == UNION {Level(t, n) : n \in MaxDepth + 1..Size(t)}
           endless == DOMAIN t \ UNION {Level(t, n) : n \in 0..Size(t)}
<1>1. IsForest(t, nodes) /\ IsTable(t) /\ DOMAIN nodes = 1..Len(nodes)
  BY DEF ForestInv, IsForest
<1>2. Size(t) \in Nat /\ MaxDepth \in Nat
  BY <1>1, SizeType, ForestAssumption DEF ForestAssumption
<1>3. \A p \in DOMAIN t : p \in endless <=> Endless(t, p)
  BY DEF Endless
<1>4. \A p : p \in beyond <=> \E n \in 0..Size(t) : n > MaxDepth /\ p \in Level(t, n)
  BY <1>2
<1> HIDE DEF beyond, endless
<1>5. ASSUME NEW i \in 1..Len(nodes), NEW n \in 0..Size(t), nodes[i].process \in Level(t, n)
      PROVE  n <= MaxDepth
  <2>1. nodes[i].depth = n /\ IsPlaced(t, nodes, i - 1, nodes[i])
    BY <1>1, <1>5, NodeIs DEF IsPlaced
  <2>2. nodes[i].depth = 0 \/ nodes[i].depth <= MaxDepth
    BY <2>1 DEF IsPlaced, IsBelow, IsAtTop
  <2> QED BY <1>2, <2>1, <2>2
<1>6. ASSUME Complete PROVE Reached(nodes) = DOMAIN t \ beyond
  <2>1. /\ Building(t, nodes) = {} /\ Unreached(nodes, Roots(t)) = {}
        /\ LeftOver(t, nodes) = {}
    BY <1>6 DEF Complete
  <2>2. ASSUME NEW p \in Reached(nodes) PROVE p \in DOMAIN t /\ p \notin beyond
    <3>1. PICK i \in 1..Len(nodes) : nodes[i].process = p
      BY <1>1, ReachedIs
    <3>2. p \in DOMAIN t
      BY <1>1, <3>1, NodeIs
    <3>3. ~\E n \in 0..Size(t) : n > MaxDepth /\ p \in Level(t, n)
      BY <1>2, <1>5, <3>1
    <3> QED BY <1>4, <3>2, <3>3
  <2>3. ASSUME NEW p \in DOMAIN t, p \notin beyond, p \notin Reached(nodes) PROVE FALSE
    <3>1. BeyondDepth(t, p)
      BY <2>1, <2>3 DEF LeftOver, Unreached
    <3>2. PICK n \in 0..Size(t) : p \in Level(t, n)
      BY <1>1, <3>1, BeyondIsNotEndless DEF Endless
    <3>3. ~(n > MaxDepth)
      BY <1>4, <2>3, <3>2
    <3>4. n <= MaxDepth
      BY <1>2, <3>3
    <3> QED BY <1>1, <2>1, <2>3, <3>2, <3>4, LevelsAreReached
  <2> QED BY <2>2, <2>3
<1>7. \A i, j \in DOMAIN nodes : nodes[i].process = nodes[j].process => i = j
  BY <1>1 DEF IsForest
<1>8. ASSUME NEW i \in DOMAIN nodes
      PROVE  LET node == nodes[i]
                 chain == Ancestry(t, node.process, Size(t))
             IN  IF node.parent # NoParent
                 THEN /\ VerifiedParents(t, node.process) = {node.parent}
                      /\ node.verified /\ Head(chain) = node.parent
                      /\ \E j \in 1..i - 1 :
                           nodes[j].process = node.parent /\ nodes[j].depth = node.depth - 1
                      /\ node.process \notin endless => node.depth = Len(chain)
                 ELSE /\ VerifiedParents(t, node.process) = {} \/ node.process \in endless
                      /\ node.verified <=> ~ClaimsParent(t, node.process)
  <2> DEFINE node == nodes[i]
             p == node.process
             chain == Ancestry(t, p, Size(t))
  <2>1. IsPlaced(t, nodes, i - 1, node) /\ p \in DOMAIN t
    BY <1>1, NodeIs
  <2>2. CASE node.parent # NoParent
    <3>1. IsBelow(t, nodes, i - 1, node)
      BY <2>1, <2>2 DEF IsPlaced
    <3>2. node.parent \in VerifiedParents(t, p)
      BY <3>1 DEF IsBelow
    <3>3. Size(t) # 0
      <4>1. IsFiniteSet(DOMAIN t) /\ DOMAIN t # {}
        BY <1>1, <2>1, SizeType
      <4> QED BY <4>1, FS_EmptySet DEF Size
    <3>4. Head(chain) = node.parent
      BY <1>1, <1>2, <2>1, <3>2, <3>3, ParentIsFirst
    <3>5. ASSUME p \notin endless PROVE node.depth = Len(chain)
      <4>1. PICK n \in 0..Size(t) : p \in Level(t, n)
        BY <1>3, <2>1, <3>5 DEF Endless
      <4>2. node.depth = n
        BY <2>1, <4>1 DEF IsPlaced
      <4>3. Len(chain) = n
        BY <1>1, <1>2, <4>1, AncestryReachesRoot
      <4> QED BY <4>2, <4>3
    <3> HIDE DEF chain
    <3>6. /\ VerifiedParents(t, p) = {node.parent} /\ node.verified
          /\ \E j \in 1..i - 1 :
               nodes[j].process = node.parent /\ nodes[j].depth = node.depth - 1
      BY <3>1 DEF IsBelow
    <3> QED BY <2>2, <3>4, <3>5, <3>6 DEF chain
  <2>3. CASE node.parent = NoParent
    <3>1. IsAtTop(t, node)
      BY <2>1, <2>3 DEF IsPlaced
    <3> QED BY <1>3, <2>1, <2>3, <3>1 DEF IsAtTop
  <2> QED BY <2>2, <2>3
<1> QED BY <1>6, <1>7, <1>8 DEF EveryProcessIsShown, Size, beyond, endless

\* However the processes of a snapshot claim each other for parents, with whatever
\* creation times (correlation/process_tree.py build_process_tree): the tree shows each
\* once, below its verified parent and as deep as it has ancestors, but for what is
\* beyond the depth; and what no root reaches is at the top.
THEOREM EveryProcessAlwaysShown == ForestSpec => []EveryProcessIsShown
BY ForestInit, ForestStep, ForestShows, PTL DEF ForestSpec
=============================================================================
