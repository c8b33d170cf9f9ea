----------------------------- MODULE Scheduler -----------------------------
(***************************************************************************)
(* core/scheduler.py: one thread per periodic task, a watchdog thread that *)
(* flags a run over its timeout, and stop(), called by the engine's        *)
(* thread.  All of them update a task's health: the change itself is made  *)
(* under the runner's lock, what it was decided on was read before, and    *)
(* the transition callback is called after the lock was released.          *)
(*                                                                         *)
(* Time is abstracted to `overdue': the latest run of a task began longer  *)
(* ago than its timeout.  (A next run never begins between the watchdog's  *)
(* read of a start time and its look at the clock: the delay between runs  *)
(* is at least half a second.)  The initial state is the one engine.start  *)
(* leaves, with the first process and network collection made.             *)
(***************************************************************************)
EXTENDS Integers, Sequences, FiniteSets

CONSTANTS
  Order,            \* the runners, in the order start() got them
  Inline,           \* those whose first run engine.start makes itself
  Hanging,          \* the tasks that may block for ever
  UnavailableAfter, \* UNAVAILABLE_AFTER_FAILURES
  MaxExponent,      \* the largest n whose 2**n converts to a float (1023)
  None              \* "no report"

Runners == {Order[i] : i \in DOMAIN Order}

ASSUME SchedulerAssumption ==
  /\ Order \in Seq(Runners) /\ Order # <<>> /\ Cardinality(Runners) = Len(Order)
  /\ Inline \subseteq Runners /\ Hanging \subseteq Runners
  /\ {"watchdog", "owner"} \cap Runners = {}
  /\ UnavailableAfter \in Nat \ {0, 1} /\ MaxExponent \in Nat \ {0}

VARIABLES
  pc,         \* each task's thread: "waiting", "running", "clearing", "dying", "ended"
  started,    \* _running_since is set
  overdue,    \* ... and longer ago than the timeout
  health,     \* _health: status and consecutive_failures
  stop,       \* the scheduler's stop event
  wd, wdAt,   \* watchdog: where it is, and in whose check
  owner, at,  \* stop(): where it is, and at whose thread
  stuck,      \* the tasks stop() found running
  joined,     \* the watchdog had ended when stop() joined it
  report,     \* the callback each thread is about to make
  balance     \* history: callbacks into minus callbacks out of each status

runs == <<pc, started, overdue>>
watchdog == <<wd, wdAt>>
stopping == <<stop, owner, at, stuck, joined>>
vars == <<pc, started, overdue, health, stop, wd, wdAt, owner, at, stuck, joined,
          report, balance>>

Status == {"STARTING", "OK", "DEGRADED", "UNAVAILABLE", "TIMED_OUT", "STOPPED"}
Health == [status : Status, failures : 0..MaxExponent]
Reporters == Runners \cup {"watchdog", "owner"}
Report == [of : Runners, old : Status, new : Status]

ASSUME NoneAssumption == None \notin Report

TypeOK ==
  /\ pc \in [Runners -> {"waiting", "running", "clearing", "dying", "ended"}]
  /\ started \in [Runners -> BOOLEAN] /\ overdue \in [Runners -> BOOLEAN]
  /\ health \in [Runners -> Health]
  /\ stop \in BOOLEAN /\ joined \in BOOLEAN
  /\ wd \in {"waiting", "scanning", "flagging", "ended"} /\ wdAt \in 1..Len(Order)
  /\ owner \in {"up", "joining", "marking", "stopped"}
  /\ at \in 1..(Len(Order) + 1)
  /\ stuck \subseteq Runners
  /\ report \in [Reporters -> Report \cup {None}]
  /\ balance \in [Runners -> [Status -> Int]]

Is(condition) == IF condition THEN 1 ELSE 0

\* A first run made before the scheduler starts has succeeded or failed.
FirstHealth(r) ==
  IF r \in Inline THEN {[status |-> "OK", failures |-> 0],
                        [status |-> "DEGRADED", failures |-> 1]}
                  ELSE {[status |-> "STARTING", failures |-> 0]}

Init ==
  /\ pc = [r \in Runners |-> "waiting"]
  /\ started = [r \in Runners |-> FALSE] /\ overdue = [r \in Runners |-> FALSE]
  /\ health \in [Runners -> Health] /\ \A r \in Runners : health[r] \in FirstHealth(r)
  /\ stop = FALSE /\ joined = FALSE
  /\ wd = "waiting" /\ wdAt = 1
  /\ owner = "up" /\ at = 1 /\ stuck = {}
  /\ report = [t \in Reporters |-> None]
  /\ balance = [r \in Runners |-> [s \in Status |-> Is(s = health[r].status)]]

(***************************************************************************)
(* _update and the transition callback                                     *)
(***************************************************************************)

\* Fault: a recovery is not reported.
OnlyWorse(old, new) == old # new /\ new # "OK"

Changed(old, new) == old # new

\* _update, by thread t: the new health, and the callback t makes next.
Update(r, t, new) ==
  /\ health' = [health EXCEPT ![r] = new]
  /\ report' = [report EXCEPT ![t] =
       IF Changed(health[r].status, new.status)
       THEN [of |-> r, old |-> health[r].status, new |-> new.status] ELSE None]

MakeReport(t) ==
  /\ report[t] # None
  /\ LET c == report[t]
     IN balance' = [balance EXCEPT ![c.of] =
          [s \in Status |-> @[s] + Is(s = c.new) - Is(s = c.old)]]
  /\ report' = [report EXCEPT ![t] = None]
  /\ UNCHANGED <<runs, health, watchdog, stopping>>

(***************************************************************************)
(* A task's thread: _loop and run_once                                     *)
(***************************************************************************)
Begin(r) ==
  /\ pc[r] = "waiting" /\ ~stop
  /\ pc' = [pc EXCEPT ![r] = "running"]
  /\ started' = [started EXCEPT ![r] = TRUE]
  /\ overdue' = [overdue EXCEPT ![r] = FALSE]
  /\ UNCHANGED <<health, watchdog, stopping, report, balance>>

\* The clock passes the timeout of the latest run.
Late(r) ==
  /\ started[r] /\ ~overdue[r]
  /\ overdue' = [overdue EXCEPT ![r] = TRUE]
  /\ UNCHANGED <<pc, started, health, watchdog, stopping, report, balance>>

\* Faults: a run that comes back after its timeout does not clear the status; a
\* success does not reset the count.
KeepsTimedOut(h) ==
  [status |-> IF h.status = "TIMED_OUT" THEN "TIMED_OUT" ELSE "OK", failures |-> 0]
NotReset(h) == [status |-> "OK", failures |-> h.failures]

\* _record_success.
Succeeded(h) == [status |-> "OK", failures |-> 0]

Succeed(r) ==
  /\ pc[r] = "running"
  /\ Update(r, r, Succeeded(health[r]))
  /\ pc' = [pc EXCEPT ![r] = "clearing"]
  /\ UNCHANGED <<started, overdue, watchdog, stopping, balance>>

\* _record_failure.
Failed(n) ==
  [status |-> IF n < UnavailableAfter THEN "DEGRADED" ELSE "UNAVAILABLE", failures |-> n]

Fail(r) ==
  /\ pc[r] = "running"
  /\ health[r].failures < MaxExponent
  /\ Update(r, r, Failed(health[r].failures + 1))
  /\ pc' = [pc EXCEPT ![r] = "clearing"]
  /\ UNCHANGED <<started, overdue, watchdog, stopping, balance>>

\* _record_failure computes the backoff for its detail text before the update:
\* one exponent later interval * 2**n is an OverflowError, which leaves run_once,
\* through its finally, and ends the thread.
FailTooOften(r) ==
  /\ pc[r] = "running"
  /\ health[r].failures = MaxExponent
  /\ pc' = [pc EXCEPT ![r] = "dying"]
  /\ UNCHANGED <<started, overdue, health, watchdog, stopping, report, balance>>

\* The finally of run_once; then the thread waits for its next delay.  Only a
\* watchdog in the midst of its check still holds the start of that run.
Clear(r) ==
  /\ pc[r] \in {"clearing", "dying"} /\ report[r] = None
  /\ started' = [started EXCEPT ![r] = FALSE]
  /\ pc' = [pc EXCEPT ![r] = IF @ = "dying" THEN "ended" ELSE "waiting"]
  /\ overdue' = [overdue EXCEPT ![r] = @ /\ wd = "flagging" /\ Order[wdAt] = r]
  /\ UNCHANGED <<health, watchdog, stopping, report, balance>>

LoopEnds(r) ==
  /\ pc[r] = "waiting" /\ stop
  /\ pc' = [pc EXCEPT ![r] = "ended"]
  /\ UNCHANGED <<started, overdue, health, watchdog, stopping, report, balance>>

Returns(r) == Succeed(r) \/ Fail(r) \/ FailTooOften(r)
Thread(r) == Begin(r) \/ Clear(r) \/ LoopEnds(r) \/ MakeReport(r)

(***************************************************************************)
(* The watchdog                                                            *)
(***************************************************************************)
WdWake ==
  /\ wd = "waiting" /\ report["watchdog"] = None
  /\ wd' = IF stop THEN "ended" ELSE "scanning"
  /\ wdAt' = 1
  /\ UNCHANGED <<runs, health, stopping, report, balance>>

WdAdvance ==
  IF wdAt < Len(Order) THEN wd' = "scanning" /\ wdAt' = wdAt + 1
                       ELSE wd' = "waiting" /\ wdAt' = wdAt

\* Fault: only a healthy task is flagged.
OnlyHealthy(r) == health[r].status = "OK"

Flaggable(r) == health[r].status # "TIMED_OUT"

\* check_timeout reads the start and the health under the lock ...
WdCheck ==
  /\ wd = "scanning" /\ report["watchdog"] = None
  /\ IF started[Order[wdAt]] /\ Flaggable(Order[wdAt])
     THEN wd' = "flagging" /\ UNCHANGED wdAt
     ELSE WdAdvance
  /\ UNCHANGED <<runs, health, stopping, report, balance>>

\* ... and acts on them later, whatever the run has come to meanwhile.
WdFlag ==
  /\ wd = "flagging"
  /\ LET r == Order[wdAt]
     IN IF overdue[r]
        THEN Update(r, "watchdog", [health[r] EXCEPT !.status = "TIMED_OUT"])
        ELSE UNCHANGED <<health, report>>
  /\ WdAdvance
  /\ UNCHANGED <<runs, stopping, balance>>

Watchdog == WdWake \/ WdCheck \/ WdFlag \/ MakeReport("watchdog")

(***************************************************************************)
(* stop(timeout)                                                           *)
(***************************************************************************)
Stop ==
  /\ owner = "up"
  /\ stop' = TRUE /\ owner' = "joining" /\ at' = 1
  /\ UNCHANGED <<runs, health, watchdog, stuck, joined, report, balance>>

\* join() comes back when the thread ended, or at the deadline.
Join ==
  /\ owner = "joining" /\ at <= Len(Order)
  /\ stuck' = IF pc[Order[at]] = "ended" THEN stuck ELSE stuck \cup {Order[at]}
  /\ at' = at + 1
  /\ UNCHANGED <<runs, health, watchdog, stop, owner, joined, report, balance>>

\* The watchdog is the last thread; one that is still alive is not reported.
JoinWatchdog ==
  /\ owner = "joining" /\ at > Len(Order)
  /\ joined' = (wd = "ended")
  /\ owner' = "marking" /\ at' = 1
  /\ UNCHANGED <<runs, health, watchdog, stop, stuck, report, balance>>

\* Fault: every runner is marked.
MarkAll(r) == TRUE

Markable(r) == r \notin stuck

Mark ==
  /\ owner = "marking" /\ at <= Len(Order) /\ report["owner"] = None
  /\ IF Markable(Order[at])
     THEN Update(Order[at], "owner", [health[Order[at]] EXCEPT !.status = "STOPPED"])
     ELSE UNCHANGED <<health, report>>
  /\ at' = at + 1
  /\ UNCHANGED <<runs, watchdog, stop, owner, stuck, joined, balance>>

StopReturns ==
  /\ owner = "marking" /\ at > Len(Order) /\ report["owner"] = None
  /\ owner' = "stopped"
  /\ UNCHANGED <<runs, health, watchdog, stop, at, stuck, joined, report, balance>>

Owner == Stop \/ Join \/ JoinWatchdog \/ Mark \/ StopReturns \/ MakeReport("owner")

Next ==
  \/ \E r \in Runners : Late(r) \/ Returns(r) \/ Thread(r)
  \/ Watchdog
  \/ Owner

Spec == Init /\ [][Next]_vars

\* Every thread is scheduled, and a task that does not hang returns.
\* Nothing obliges the engine to stop.
FairSpec ==
  /\ Spec
  /\ \A r \in Hanging : WF_vars(Thread(r))
  /\ \A r \in Runners \ Hanging : WF_vars(Thread(r) \/ Returns(r))
  /\ WF_vars(Watchdog)

-----------------------------------------------------------------------------
(***************************************************************************)
(* Properties                                                              *)
(***************************************************************************)

\* The status and the failure count, which different threads write, never
\* contradict each other: DEGRADED and UNAVAILABLE say how many runs failed in a
\* row, OK says that the last one did not, whatever the watchdog wrote between.
StatusMatchesFailures ==
  \A r \in Runners : LET h == health[r] IN
    /\ h.status = "OK" => h.failures = 0
    /\ h.status = "DEGRADED" => h.failures \in 1..(UnavailableAfter - 1)
    /\ h.status = "UNAVAILABLE" => h.failures >= UnavailableAfter

\* No transition is lost or reported twice, whichever threads race: the callbacks
\* made and those about to be made add up to the way to the present status.
Pending(r, s) ==
  LET of(t) == IF report[t] # None /\ report[t].of = r
               THEN Is(report[t].new = s) - Is(report[t].old = s) ELSE 0
  IN  of(r) + of("watchdog") + of("owner")
EveryTransitionReported ==
  \A r \in Runners, s \in Status :
    balance[r][s] + Pending(r, s) = Is(health[r].status = s)

\* What stop() returns can be trusted: a task it does not call stuck has no thread
\* left, and is STOPPED if the watchdog was joined as well; a task it calls stuck
\* is never shown as STOPPED.
StopIsClean ==
  owner = "stopped" => \A r \in Runners :
    /\ r \notin stuck => pc[r] = "ended"
    /\ r \notin stuck /\ joined => health[r].status = "STOPPED"
    /\ r \in stuck => health[r].status # "STOPPED"

\* The claim of the module's docstring, "After n consecutive failures the delay
\* becomes min(max_backoff, interval * 2**n)": a failing task is tried again, its
\* thread ends only because the scheduler stops.
KeepsRetrying == \A r \in Runners : pc[r] = "ended" => stop

\* A run over its timeout is shown as TIMED_OUT, unless it comes back after all or
\* the scheduler stops first.
OverdueIsFlagged ==
  \A r \in Hanging :
    pc[r] = "running" /\ overdue[r] ~>
      health[r].status = "TIMED_OUT" \/ pc[r] # "running" \/ stop

\* TIMED_OUT does not outlast a task that returns, although the watchdog may write
\* it after the run it is about has ended.
TimedOutHeals ==
  \A r \in Runners \ Hanging :
    health[r].status = "TIMED_OUT" ~>
      health[r].status # "TIMED_OUT" \/ stop \/ pc[r] = "ended"
=============================================================================
