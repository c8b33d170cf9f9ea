------------------------------ MODULE Instances ------------------------------
(***************************************************************************)
(* Several runs of the program: the instance lock, the status file         *)
(* (core/status_file.py), the monitor that writes it (core/engine.py,      *)
(* cli.py) and the commands that believe it, "status" and "db cleanup".    *)
(*                                                                         *)
(* A monitor may crash at any point; Windows then releases its lock, and   *)
(* another program may get its PID.  Each has a thread that writes its     *)
(* status again and again, and that a stop waits for, but not for ever.    *)
(***************************************************************************)
CONSTANTS
  Monitors,  \* the runs of "threatlens monitor"
  NoRun      \* "no run"

ASSUME InstancesAssumption == NoRun \notin Monitors

VARIABLES
  phase,     \* each run
  writer,    \* each run's status writer: "idle", "turn" (it goes to write), or the state
             \* in the status it has composed and not yet put in place
  lock,      \* who holds engine.lock
  file,      \* the status file; its run is NoRun if there is none
  reused,    \* the runs whose PID another program has now
  announced, \* history: the runs whose status has been written
  closed,    \* history: those whose stop has written theirs
  late,      \* history: those whose stop did not see the status writer end
  cleanup    \* "db cleanup": "idle", "allowed"

reports == <<file, announced, closed>>
instancesVars == <<phase, writer, lock, reports, reused, late, cleanup>>

States == {"RUNNING", "STOPPED"}

\* A run that has entered the lock's block; one whose process is there.
Inside == {"locked", "running", "stopping", "stopped"}
HasProcess(m) == phase[m] \in Inside \cup {"leaving"}

InitInstances ==
  /\ phase = [m \in Monitors |-> "new"] /\ writer = [m \in Monitors |-> "idle"]
  /\ lock = NoRun /\ reused = {} /\ late = {}
  /\ file = [run |-> NoRun, state |-> "STOPPED", keyed |-> FALSE, fresh |-> FALSE]
  /\ announced = {} /\ closed = {} /\ cleanup = "idle"

Goes(m, from, to) == phase[m] \in from /\ phase' = [phase EXCEPT ![m] = to]

\* InstanceLock.__enter__; a second monitor ends with EngineAlreadyRunningError.
Enter(m) ==
  /\ Goes(m, {"new"}, "locked")
  /\ lock = NoRun /\ lock' = m
  /\ UNCHANGED <<writer, reports, reused, late, cleanup>>

\* StatusFile.write puts a whole new file in place, or fails and is logged.  (The two
\* threads of a run share the temporary file: who renames it first puts in place what
\* was written last, and the other fails.)  The key is there once the process table has
\* the program itself; the time is that of the composing.
PutStatus(m, state) ==
  /\ \E keyed, fresh \in BOOLEAN :
       file' = [run |-> m, state |-> state, keyed |-> keyed, fresh |-> fresh]
  /\ announced' = announced \cup {m}

\* cmd_monitor prepares the database and builds the engine; Engine.start ends with the
\* first status, after the whole inventory.
Start(m) ==
  /\ Goes(m, {"locked"}, "running")
  /\ PutStatus(m, "RUNNING") \/ UNCHANGED <<file, announced>>
  /\ UNCHANGED <<writer, lock, closed, reused, late, cleanup>>

\* The status writer's loop: it looks for the stop, then composes a status, then puts it
\* in place or fails, whatever has happened to its run meanwhile.
Turn(m) ==
  /\ phase[m] = "running" /\ writer[m] = "idle"
  /\ writer' = [writer EXCEPT ![m] = "turn"]
  /\ UNCHANGED <<phase, lock, reports, reused, late, cleanup>>

Compose(m) ==
  /\ writer[m] = "turn"
  /\ writer' = [writer EXCEPT ![m] = IF phase[m] \in {"stopped", "leaving"} THEN "STOPPED" ELSE "RUNNING"]
  /\ UNCHANGED <<phase, lock, reports, reused, late, cleanup>>

ReportStatus(m) ==
  /\ writer[m] \in States
  /\ writer' = [writer EXCEPT ![m] = "idle"]
  /\ PutStatus(m, writer[m]) \/ UNCHANGED <<file, announced>>
  /\ UNCHANGED <<phase, lock, closed, reused, late, cleanup>>

\* Engine.stop, of a start that was interrupted too: it tells the scheduler.
StopSignal(m) ==
  /\ Goes(m, {"locked", "running"}, "stopping")
  /\ UNCHANGED <<writer, lock, reports, reused, late, cleanup>>

\* It waits for the status writer until that is idle or the time is over; its last word
\* is the status.  Ctrl+C may cut both short.
Stop(m) ==
  /\ Goes(m, {"stopping"}, "stopped")
  /\ late' = IF writer[m] = "idle" THEN late ELSE late \cup {m}
  /\ \/ PutStatus(m, "STOPPED") /\ closed' = closed \cup {m}
     \/ UNCHANGED reports
  /\ UNCHANGED <<writer, lock, reused, cleanup>>

\* Fault: the lock covers the start only.
ReleaseEarly(m) == phase[m] \in {"running", "stopped"}

\* The block of the lock ends after stop(), or when the preparations fail.
MayRelease(m) == phase[m] \in {"locked", "stopped"}

\* InstanceLock.__exit__; the process is still there.
Exit(m) ==
  /\ lock = m /\ MayRelease(m) /\ lock' = NoRun
  /\ phase' = IF phase[m] = "running" THEN phase ELSE [phase EXCEPT ![m] = "leaving"]
  /\ UNCHANGED <<writer, reports, reused, late, cleanup>>

\* The process ends, as it should or earlier, and its threads with it.
Crash(m) ==
  /\ HasProcess(m) /\ phase' = [phase EXCEPT ![m] = "off"]
  /\ writer' = [writer EXCEPT ![m] = "idle"]
  /\ lock' = IF lock = m THEN NoRun ELSE lock
  /\ UNCHANGED <<reports, reused, late, cleanup>>

Reuse(m) ==
  /\ phase[m] = "off" /\ m \in announced \ reused /\ reused' = reused \cup {m}
  /\ UNCHANGED <<phase, writer, lock, reports, late, cleanup>>

\* Five status intervals pass, at least ten seconds.
GoesStale ==
  /\ file.fresh /\ file' = [file EXCEPT !.fresh = FALSE]
  /\ UNCHANGED <<phase, writer, lock, announced, closed, reused, late, cleanup>>

\* Somebody deletes or damages the file: read() then finds no status.
Unreadable ==
  /\ file.run # NoRun /\ file' = [file EXCEPT !.run = NoRun]
  /\ UNCHANGED <<phase, writer, lock, announced, closed, reused, late, cleanup>>

\* Fault: any process with the PID will do.
PidInUse(m) == HasProcess(m) \/ m \in reused

\* process_instance_alive: the PID is in use, by the same instance if its key is known.
Alive(m) == HasProcess(m) \/ (m \in reused /\ ~file.keyed)

\* is_status_current, as cmd_status and _engine_running ask it.
ShownLive == file.run # NoRun /\ file.state # "STOPPED" /\ Alive(file.run) /\ file.fresh

\* cmd_db: the check, and what it allows, whatever has started meanwhile.
AllowCleanup ==
  /\ cleanup = "idle" /\ ~ShownLive /\ cleanup' = "allowed"
  /\ UNCHANGED <<phase, writer, lock, reports, reused, late>>

Cleanup ==
  /\ cleanup = "allowed" /\ cleanup' = "idle"
  /\ UNCHANGED <<phase, writer, lock, reports, reused, late>>

NextInstances ==
  \/ \E m \in Monitors :
       \/ Enter(m) \/ Start(m) \/ StopSignal(m) \/ Stop(m) \/ Exit(m) \/ Crash(m) \/ Reuse(m)
       \/ Turn(m) \/ Compose(m) \/ ReportStatus(m)
  \/ GoesStale \/ Unreadable \/ AllowCleanup \/ Cleanup

-----------------------------------------------------------------------------

\* Only one monitor runs.  A status shown as live is that of a run whose process is there,
\* never of one that crashed, though its PID is in use again, provided it knew its own
\* key.  The last word of a stop stays the run's last, and no earlier run writes over the
\* status of the one that runs: but for the runs whose stop came back while the status
\* writer was still at work, which may do both.
StatusIsTrue ==
  /\ \A m, n \in Monitors : phase[m] \in Inside /\ phase[n] \in Inside => m = n
  /\ ShownLive => HasProcess(file.run) \/ ~file.keyed
  /\ file.run \in closed \ late => file.state = "STOPPED"
  /\ \A m \in announced : phase[m] = "running" => file.run \in {m, NoRun} \cup late
=============================================================================
