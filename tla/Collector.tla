------------------------------ MODULE Collector ------------------------------
(***************************************************************************)
(* How the process collector learns what a process is                      *)
(* (collectors/process_collector.py, utils/ntapi.py, utils/windows.py): it *)
(* enumerates PIDs and creation times, then opens each PID it does not     *)
(* know yet and reads the details, which it keeps under PID and creation   *)
(* time.  By then the process may have ended and its PID belong to         *)
(* another; and a process that has just begun has no command line yet.     *)
(***************************************************************************)
EXTENDS FiniteSets, Functions

CONSTANTS
  Subjects,  \* the instances there may be, each with a creation time of its own
  PidOfSubject,      \* their PIDs
  Denied,     \* those that may not be opened
  NoEntry     \* "no entry at work"

VARIABLES
  age,        \* each process: "unborn", "new" (no command line yet), "young", "old", "ended"
  enumerated, \* the processes of the last enumeration
  todo,       \* its entries still to be built: a process, and whether it is fresh
  entry,      \* the entry whose image path is asked for by PID, with what was read
  cache       \* ProcessCollector._static: the details kept, by process

collectorVars == <<age, enumerated, todo, entry, cache>>

InitCollector ==
  /\ age = [p \in Subjects |-> "unborn"]
  /\ enumerated = {} /\ todo = {} /\ entry = NoEntry /\ cache = <<>>

Running == {p \in Subjects : age[p] \notin {"unborn", "ended"}}
HoldersOf(pid) == {p \in Running : PidOfSubject[p] = pid}

(***************************************************************************)
(* The machine                                                             *)
(***************************************************************************)
Becomes(p, stage) ==
  age' = [age EXCEPT ![p] = stage] /\ UNCHANGED <<enumerated, todo, entry, cache>>

Begin(p) == age[p] = "unborn" /\ HoldersOf(PidOfSubject[p]) = {} /\ Becomes(p, "new")
\* A process has its command line within FRESH_PROCESS_SECONDS.
Populate(p) == age[p] = "new" /\ Becomes(p, "young")
GrowOld(p) == age[p] = "young" /\ Becomes(p, "old")
End(p) == p \in Running /\ Becomes(p, "ended")

(***************************************************************************)
(* The collector                                                           *)
(***************************************************************************)
\* collect() asks for all processes, collect_pid() for the holder of one PID; the
\* enumeration is complete, and if it fails nothing happens.
Query(wanted) ==
  /\ todo = {} /\ entry = NoEntry /\ enumerated = {}
  /\ enumerated' = Running
  /\ todo' = {[process |-> p, fresh |-> age[p] \in {"new", "young"}] : p \in Running \cap wanted}
  /\ todo' # {}
  /\ UNCHANGED <<age, entry, cache>>

\* _build finds the details under the key.
Known(e) ==
  /\ entry = NoEntry /\ e \in todo /\ e.process \in DOMAIN cache /\ todo' = todo \ {e}
  /\ UNCHANGED <<age, enumerated, entry, cache>>

\* What one handle gives: the image path and the command line of whoever holds the PID,
\* each unless it cannot be read; a process that cannot be opened denies everything, and
\* one that has ended says so.
Field(what) == {what, "denied", "error"}
Details(holders) ==
  IF holders = {} THEN {[exe |-> "exited", cmdline |-> "exited"]}
  ELSE UNION {
    IF p \in Denied THEN {[exe |-> "denied", cmdline |-> "denied"]}
    ELSE [exe : Field(p), cmdline : Field(IF age[p] = "new" THEN "empty" ELSE p)] : p \in holders}

Unavailable == {"denied", "error", "exited"}

\* Fault: what could not be read now will never be.
NeverTransient(d) == FALSE

\* _TRANSIENT_ISSUES, worth another try with the next snapshot.
Transient(d) == d.exe \in {"error", "exited"} \/ d.cmdline \in {"error", "exited"}

\* _maybe_cache
Cacheable(e, d) == ~Transient(d) /\ (e.fresh => d.cmdline \notin {"empty", "denied"})

Built(e, d) ==
  /\ todo' = todo \ {e}
  /\ cache' = IF Cacheable(e, d)
              THEN [p \in DOMAIN cache \cup {e.process} |-> IF p = e.process THEN d ELSE cache[p]]
              ELSE cache

\* _read_static, as far as the handle goes.
Read(e, d) ==
  /\ entry = NoEntry /\ e \in todo /\ e.process \notin DOMAIN cache
  /\ d \in Details(HoldersOf(PidOfSubject[e.process]))
  /\ IF d.exe \in {"denied", "error"}
     THEN entry' = [of |-> e, read |-> d] /\ UNCHANGED <<todo, cache>>
     ELSE Built(e, d) /\ UNCHANGED entry
  /\ UNCHANGED <<age, enumerated>>

\* image_path_by_pid needs no handle: the path is that of the holder by now.
ReadByPid(exe) ==
  /\ entry # NoEntry /\ entry' = NoEntry
  /\ exe \in HoldersOf(PidOfSubject[entry.of.process]) \cup {entry.read.exe}
  /\ Built(entry.of, [entry.read EXCEPT !.exe = exe])
  /\ UNCHANGED <<age, enumerated>>

\* Every call ends with _prune: details of what was not enumerated are forgotten.
Prune ==
  /\ enumerated # {} /\ todo = {} /\ entry = NoEntry /\ enumerated' = {}
  /\ cache' = Restrict(cache, DOMAIN cache \cap enumerated)
  /\ UNCHANGED <<age, todo, entry>>

NextCollector ==
  \/ \E p \in Subjects : Begin(p) \/ Populate(p) \/ GrowOld(p) \/ End(p)
  \/ \E wanted \in {Subjects} \cup {{q \in Subjects : PidOfSubject[q] = PidOfSubject[p]} : p \in Subjects} :
       Query(wanted)
  \/ \E e \in todo : Known(e) \/ \E d \in Details(HoldersOf(PidOfSubject[e.process])) : Read(e, d)
  \/ \E exe \in Subjects \cup Unavailable : ReadByPid(exe)
  \/ Prune

-----------------------------------------------------------------------------

\* Details are kept for the life of a process and never read again, so while it runs
\* they are its own, never those of another that had its PID, and final: nothing that
\* could not be read for the moment, no command line from before there was one.  Only
\* what was denied stays unknown.
CachedDetailsAreTrue ==
  \A p \in DOMAIN cache \cap Running :
    cache[p].exe \in {p, "denied"} /\ cache[p].cmdline \in {p, "denied"}
=============================================================================
