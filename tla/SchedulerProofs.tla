-------------------------- MODULE SchedulerProofs ---------------------------
(***************************************************************************)
(* Proofs about Scheduler for any number of tasks, however they fail, hang *)
(* and are late.                                                           *)
(***************************************************************************)
EXTENDS Scheduler, SequenceTheorems, TLAPS

(***************************************************************************)
(* The inductive invariant, in named parts                                 *)
(***************************************************************************)

\* A task's thread reports about itself, before it clears the start of the run; the
\* watchdog has made its report before it flags the next run.
Reporting ==
  /\ \A r \in Runners : report[r] # None => report[r].of = r /\ pc[r] = "clearing"
  /\ wd = "flagging" => report["watchdog"] = None

\* What stop() has found out about the threads, ...
Joining ==
  /\ owner = "joining" => \A i \in 1..Len(Order) :
       i < at => Order[i] \in stuck \/ pc[Order[i]] = "ended"
  /\ owner \in {"marking", "stopped"} => \A r \in Runners : r \in stuck \/ pc[r] = "ended"
  /\ joined => owner \in {"marking", "stopped"} /\ wd = "ended"

\* ... and what it has made of them.
Marking ==
  /\ \A r \in Runners : health[r].status = "STOPPED" =>
       owner \in {"marking", "stopped"} /\ r \notin stuck
  /\ joined => \A i \in 1..Len(Order) :
       i < at \/ owner = "stopped" => Order[i] \in stuck \/ health[Order[i]].status = "STOPPED"

IInv ==
  /\ TypeOK /\ Reporting /\ Joining /\ Marking
  /\ StatusMatchesFailures /\ EveryTransitionReported

(***************************************************************************)
(* Lemmas about the operators                                              *)
(***************************************************************************)
LEMMA OrderFacts ==
  /\ Len(Order) \in Nat \ {0}
  /\ \A i \in 1..Len(Order) : Order[i] \in Runners
  /\ \A r \in Runners : \E i \in 1..Len(Order) : Order[i] = r
  /\ \A r \in Runners : r # "watchdog" /\ r # "owner"
<1>1. Order \in Seq(Runners) /\ Order # <<>>
  BY SchedulerAssumption DEF SchedulerAssumption
<1>2. DOMAIN Order = 1..Len(Order) /\ Len(Order) \in Nat
  BY <1>1, LenProperties
<1>3. Len(Order) # 0
  BY <1>1, EmptySeq
<1>4. \A r \in Runners : r # "watchdog" /\ r # "owner"
  BY SchedulerAssumption DEF SchedulerAssumption
<1> QED BY <1>2, <1>3, <1>4 DEF Runners

LEMMA IsInteger == \A c : Is(c) \in Int
BY DEF Is

\* What the threads make of a task's health.
Sound(old, new) ==
  \/ new = Succeeded(old)
  \/ old.failures < MaxExponent /\ new = Failed(old.failures + 1)
  \/ new = [old EXCEPT !.status = "TIMED_OUT"]
  \/ new = [old EXCEPT !.status = "STOPPED"]

LEMMA SoundChanges ==
  ASSUME NEW old \in Health, NEW new, Sound(old, new)
  PROVE  /\ new \in Health
         /\ new.status = "OK" => new.failures = 0
         /\ new.status = "DEGRADED" => new.failures \in 1..(UnavailableAfter - 1)
         /\ new.status = "UNAVAILABLE" => new.failures >= UnavailableAfter
<1>1. MaxExponent \in Nat /\ UnavailableAfter \in Nat
  BY SchedulerAssumption DEF SchedulerAssumption
<1>2. old.failures \in 0..MaxExponent
  BY DEF Health
<1>3. CASE new = Succeeded(old)
  BY <1>1, <1>3 DEF Succeeded, Health, Status
<1>4. CASE old.failures < MaxExponent /\ new = Failed(old.failures + 1)
  <2>1. new.failures = old.failures + 1
        /\ new.status = IF old.failures + 1 < UnavailableAfter THEN "DEGRADED" ELSE "UNAVAILABLE"
    BY <1>4 DEF Failed
  <2>2. new \in Health
    BY <1>1, <1>2, <1>4 DEF Failed, Health, Status
  <2> QED BY <1>1, <1>2, <2>1, <2>2
<1>5. CASE new = [old EXCEPT !.status = "TIMED_OUT"] \/ new = [old EXCEPT !.status = "STOPPED"]
  BY <1>1, <1>2, <1>5 DEF Health, Status
<1> QED BY <1>3, <1>4, <1>5 DEF Sound

\* _update changes one task's health, and the caller's next report says how.
LEMMA Updates ==
  ASSUME TypeOK, NEW r \in Runners, NEW t \in Reporters, NEW new \in Health, Update(r, t, new)
  PROVE  /\ health' \in [Runners -> Health] /\ health'[r] = new
         /\ \A q \in Runners : q # r => health'[q] = health[q]
         /\ report' \in [Reporters -> Report \cup {None}]
         /\ \A u \in Reporters : u # t => report'[u] = report[u]
         /\ IF health[r].status # new.status
            THEN report'[t] = [of |-> r, old |-> health[r].status, new |-> new.status]
            ELSE report'[t] = None
<1>1. health \in [Runners -> Health] /\ report \in [Reporters -> Report \cup {None}]
  BY DEF TypeOK
<1>2. health' = [health EXCEPT ![r] = new]
  BY DEF Update
<1>3. [of |-> r, old |-> health[r].status, new |-> new.status] \in Report
  BY <1>1 DEF Health, Report
<1>4. PICK c \in Report \cup {None} :
        /\ report' = [report EXCEPT ![t] = c]
        /\ c = IF health[r].status # new.status
               THEN [of |-> r, old |-> health[r].status, new |-> new.status] ELSE None
  BY <1>3 DEF Update, Changed
<1> QED BY <1>1, <1>2, <1>4

LEMMA UpdatesOwn ==
  ASSUME TypeOK, NEW r \in Runners, NEW t \in Reporters, NEW new \in Health, Update(r, t, new)
  PROVE  /\ \A u \in Reporters : u # t => report'[u] = report[u]
         /\ report'[t] # None => report'[t].of = r
<1>1. \/ report'[t] = None
      \/ report'[t] = [of |-> r, old |-> health[r].status, new |-> new.status]
  BY Updates
<1>2. \A u \in Reporters : u # t => report'[u] = report[u]
  BY Updates
<1> QED BY <1>1, <1>2

(***************************************************************************)
(* What a step may do to the health of the tasks                           *)
(***************************************************************************)
LEMMA Effects ==
  ASSUME TypeOK, Reporting, Next
  PROVE  \/ UNCHANGED <<health, report, balance>>
         \/ /\ UNCHANGED balance
            /\ \E r \in Runners : \E t \in {r, "watchdog", "owner"} : \E new :
                 report[t] = None /\ Sound(health[r], new) /\ Update(r, t, new)
         \/ UNCHANGED health /\ \E t \in Reporters : MakeReport(t)
<1> USE DEF Reporters
<1>1. ASSUME NEW r \in Runners, Late(r) PROVE UNCHANGED <<health, report, balance>>
  BY <1>1 DEF Late
<1>2. ASSUME NEW r \in Runners, Succeed(r)
      PROVE  /\ UNCHANGED balance
             /\ \E new : report[r] = None /\ Sound(health[r], new) /\ Update(r, r, new)
  BY <1>2 DEF Succeed, Sound, Reporting
<1>3. ASSUME NEW r \in Runners, Fail(r)
      PROVE  /\ UNCHANGED balance
             /\ \E new : report[r] = None /\ Sound(health[r], new) /\ Update(r, r, new)
  BY <1>3 DEF Fail, Sound, Reporting
<1>4. ASSUME NEW r \in Runners, FailTooOften(r) \/ Begin(r) \/ Clear(r) \/ LoopEnds(r)
      PROVE  UNCHANGED <<health, report, balance>>
  BY <1>4 DEF FailTooOften, Begin, Clear, LoopEnds
<1>5. ASSUME NEW t, MakeReport(t) PROVE UNCHANGED health
  BY <1>5 DEF MakeReport
<1>6. ASSUME WdWake \/ WdCheck PROVE UNCHANGED <<health, report, balance>>
  BY <1>6 DEF WdWake, WdCheck
<1>7. ASSUME WdFlag
      PROVE  \/ UNCHANGED <<health, report, balance>>
             \/ /\ UNCHANGED balance
                /\ \E r \in Runners : \E new : report["watchdog"] = None
                     /\ Sound(health[r], new) /\ Update(r, "watchdog", new)
  <2>1. Order[wdAt] \in Runners
    BY OrderFacts DEF TypeOK
  <2> QED BY <1>7, <2>1 DEF WdFlag, Sound, Reporting
<1>8. ASSUME Stop \/ Join \/ JoinWatchdog \/ StopReturns PROVE UNCHANGED <<health, report, balance>>
  BY <1>8 DEF Stop, Join, JoinWatchdog, StopReturns
<1>9. ASSUME Mark
      PROVE  \/ UNCHANGED <<health, report, balance>>
             \/ /\ UNCHANGED balance
                /\ \E r \in Runners : \E new : report["owner"] = None
                     /\ Sound(health[r], new) /\ Update(r, "owner", new)
  <2>1. Order[at] \in Runners
    BY <1>9, OrderFacts DEF Mark, TypeOK
  <2> QED BY <1>9, <2>1 DEF Mark, Sound
<1> QED BY <1>1, <1>2, <1>3, <1>4, <1>5, <1>6, <1>7, <1>8, <1>9
        DEF Next, Returns, Thread, Watchdog, Owner

(***************************************************************************)
(* Each part is kept                                                       *)
(***************************************************************************)
LEMMA HealthKeeps ==
  ASSUME TypeOK, Reporting, StatusMatchesFailures, Next
  PROVE  StatusMatchesFailures' /\ health' \in [Runners -> Health]
<1>1. health \in [Runners -> Health]
  BY DEF TypeOK
<1>2. CASE UNCHANGED health
  BY <1>1, <1>2 DEF StatusMatchesFailures
<1>3. ASSUME NEW r \in Runners, NEW t \in {r, "watchdog", "owner"}, NEW new,
             Sound(health[r], new), Update(r, t, new)
      PROVE  StatusMatchesFailures' /\ health' \in [Runners -> Health]
  <2>1. new \in Health
    BY <1>1, <1>3, SoundChanges
  <2>2. t \in Reporters
    BY DEF Reporters
  <2>3. /\ health' \in [Runners -> Health] /\ health'[r] = new
        /\ \A q \in Runners : q # r => health'[q] = health[q]
    BY <1>3, <2>1, <2>2, Updates
  <2>4. /\ new.status = "OK" => new.failures = 0
        /\ new.status = "DEGRADED" => new.failures \in 1..(UnavailableAfter - 1)
        /\ new.status = "UNAVAILABLE" => new.failures >= UnavailableAfter
    BY <1>1, <1>3, SoundChanges
  <2> QED BY <2>3, <2>4 DEF StatusMatchesFailures
<1> QED BY <1>2, <1>3, Effects

\* What a report c that is yet to be made means for a task and a status.
Of(c, r, s) == IF c # None /\ c.of = r THEN Is(c.new = s) - Is(c.old = s) ELSE 0

LEMMA OfIsInteger == \A c, r, s : Of(c, r, s) \in Int
BY IsInteger DEF Of

LEMMA OfChange ==
  ASSUME NEW r \in Runners, NEW old \in Status, NEW new \in Status, NEW c,
         c = IF old # new THEN [of |-> r, old |-> old, new |-> new] ELSE None
  PROVE  /\ \A s : Of(c, r, s) = Is(new = s) - Is(old = s)
         /\ \A q, s : q # r => Of(c, q, s) = 0
<1>1. CASE old = new
  BY <1>1, IsInteger DEF Of
<1>2. CASE old # new
  <2>1. c.of = r /\ c.old = old /\ c.new = new /\ c \in Report
    BY <1>2 DEF Report
  <2>2. c # None
    BY <2>1, NoneAssumption
  <2> QED BY <2>1, <2>2 DEF Of
<1> QED BY <1>1, <1>2

LEMMA UpdateIsReported ==
  ASSUME TypeOK, EveryTransitionReported, UNCHANGED balance,
         NEW r \in Runners, NEW t \in {r, "watchdog", "owner"}, NEW new \in Health,
         report[t] = None, Update(r, t, new)
  PROVE  EveryTransitionReported'
<1>1. t \in Reporters /\ \A q \in Runners : q \in Reporters
      /\ "watchdog" \in Reporters /\ "owner" \in Reporters
  BY DEF Reporters
<1> SUFFICES ASSUME NEW q \in Runners, NEW s \in Status
             PROVE  balance'[q][s] + Pending(q, s)' = Is(health'[q].status = s)
  BY DEF EveryTransitionReported
<1> DEFINE b == balance[q][s]
           o1 == Of(report[q], q, s)
           o2 == Of(report["watchdog"], q, s)
           o3 == Of(report["owner"], q, s)
           n1 == Of(report'[q], q, s)
           n2 == Of(report'["watchdog"], q, s)
           n3 == Of(report'["owner"], q, s)
           old == Is(health[q].status = s)
           now == Is(health'[q].status = s)
<1>2. b \in Int /\ old \in Int /\ now \in Int
      /\ o1 \in Int /\ o2 \in Int /\ o3 \in Int /\ n1 \in Int /\ n2 \in Int /\ n3 \in Int
  BY OfIsInteger, IsInteger DEF TypeOK
<1>3. b + (o1 + o2 + o3) = old
  BY DEF EveryTransitionReported, Pending, Of
<1>4. balance'[q][s] = b /\ Pending(q, s)' = n1 + n2 + n3
  BY DEF Pending, Of
<1>5. /\ t # q => n1 = o1
      /\ t # "watchdog" => n2 = o2
      /\ t # "owner" => n3 = o3
  <2>1. \A u \in Reporters : u # t => report'[u] = report[u]
    BY <1>1, UpdatesOwn
  <2> QED BY <1>1, <2>1
<1>6. /\ t = q => o1 = 0
      /\ t = "watchdog" => o2 = 0
      /\ t = "owner" => o3 = 0
  BY DEF Of
<1>7. /\ health[r].status \in Status /\ new.status \in Status
      /\ report'[t] = IF health[r].status # new.status
                      THEN [of |-> r, old |-> health[r].status, new |-> new.status] ELSE None
      /\ health'[r] = new /\ \A p \in Runners : p # r => health'[p] = health[p]
  <2>1. health[r].status \in Status /\ new.status \in Status
    BY DEF TypeOK, Health
  <2> QED BY <1>1, <2>1, Updates
<1>8. Of(report'[t], q, s) = now - old
  <2>1. CASE q = r
    <3>1. \A c : c = (IF health[r].status # new.status
                     THEN [of |-> r, old |-> health[r].status, new |-> new.status] ELSE None) =>
                   Of(c, r, s) = Is(new.status = s) - Is(health[r].status = s)
      BY <1>7, OfChange
    <3>2. Of(report'[t], r, s) = Is(new.status = s) - Is(health[r].status = s)
      BY <1>7, <3>1
    <3> QED BY <1>7, <2>1, <3>2
  <2>2. CASE q # r
    <3>1. Of(report'[t], q, s) = 0
      BY <1>7, <2>2, OfChange
    <3>2. now = old
      BY <1>7, <2>2
    <3> QED BY <1>2, <3>1, <3>2
  <2> QED BY <2>1, <2>2
<1>9. /\ t = q => n1 = now - old
      /\ t = "watchdog" => n2 = now - old
      /\ t = "owner" => n3 = now - old
  BY <1>8
<1>10. q # "watchdog" /\ q # "owner"
  BY OrderFacts
<1>11. t # q => q # r \/ t = "watchdog" \/ t = "owner"
  OBVIOUS
<1>12. t \notin {q, "watchdog", "owner"} => now = old
  BY <1>7, <1>11
<1> HIDE DEF b, o1, o2, o3, n1, n2, n3, old, now
<1>13. b + (n1 + n2 + n3) = now
  BY <1>2, <1>3, <1>5, <1>6, <1>9, <1>10, <1>12
<1> QED BY <1>4, <1>13 DEF now

\* A report that is made moves from what is pending to the balance.
LEMMA ReportIsCounted ==
  ASSUME TypeOK, Reporting, EveryTransitionReported, UNCHANGED health,
         NEW t \in Reporters, MakeReport(t)
  PROVE  EveryTransitionReported' /\ balance' \in [Runners -> [Status -> Int]]
         /\ report' \in [Reporters -> Report \cup {None}]
<1>1. \A q \in Runners : q \in Reporters
      /\ "watchdog" \in Reporters /\ "owner" \in Reporters
  BY DEF Reporters
<1>2. PICK c \in Report : c = report[t]
  BY DEF MakeReport, TypeOK
<1>3. c.of \in Runners /\ c # None
  BY <1>2, NoneAssumption DEF Report
<1>4. balance \in [Runners -> [Status -> Int]]
  BY DEF TypeOK
<1>5. balance' = [balance EXCEPT ![c.of] = [s \in Status |-> @[s] + Is(c.new = s) - Is(c.old = s)]]
  BY <1>2 DEF MakeReport
<1>6. \A q \in Runners, s \in Status : balance'[q][s] = balance[q][s] + Of(c, q, s)
  <2> SUFFICES ASSUME NEW q \in Runners, NEW s \in Status
               PROVE  balance'[q][s] = balance[q][s] + Of(c, q, s)
    OBVIOUS
  <2>1. balance[q][s] \in Int /\ Is(c.new = s) \in Int /\ Is(c.old = s) \in Int
    BY <1>4, IsInteger
  <2>2. CASE q = c.of
    <3>1. balance'[q][s] = balance[q][s] + Is(c.new = s) - Is(c.old = s)
      BY <1>3, <1>4, <1>5, <2>2
    <3>2. Of(c, q, s) = Is(c.new = s) - Is(c.old = s)
      BY <1>3, <2>2 DEF Of
    <3> QED BY <2>1, <3>1, <3>2
  <2>3. CASE q # c.of
    BY <1>3, <1>4, <1>5, <2>1, <2>3 DEF Of
  <2> QED BY <2>2, <2>3
<1>7. balance' \in [Runners -> [Status -> Int]]
  <2>1. [s \in Status |-> balance[c.of][s] + Is(c.new = s) - Is(c.old = s)] \in [Status -> Int]
    BY <1>3, <1>4, IsInteger
  <2> QED BY <1>3, <1>4, <1>5, <2>1
<1>8. report' = [report EXCEPT ![t] = None] /\ report \in [Reporters -> Report \cup {None}]
  BY DEF MakeReport, TypeOK
<1>9. ASSUME NEW q \in Runners, NEW s \in Status
      PROVE  balance'[q][s] + Pending(q, s)' = Is(health'[q].status = s)
  <2> DEFINE b == balance[q][s]
             o1 == Of(report[q], q, s)
             o2 == Of(report["watchdog"], q, s)
             o3 == Of(report["owner"], q, s)
             n1 == Of(report'[q], q, s)
             n2 == Of(report'["watchdog"], q, s)
             n3 == Of(report'["owner"], q, s)
             d == Of(c, q, s)
  <2>1. b \in Int /\ d \in Int
        /\ o1 \in Int /\ o2 \in Int /\ o3 \in Int /\ n1 \in Int /\ n2 \in Int /\ n3 \in Int
    BY <1>4, OfIsInteger
  <2>2. b + (o1 + o2 + o3) = Is(health[q].status = s)
    BY DEF EveryTransitionReported, Pending, Of
  <2>3. balance'[q][s] = b + d /\ Pending(q, s)' = n1 + n2 + n3
    BY <1>6 DEF Pending, Of
  <2>4. /\ t # q => n1 = o1
        /\ t # "watchdog" => n2 = o2
        /\ t # "owner" => n3 = o3
    BY <1>1, <1>8
  <2>5. /\ t = q => n1 = 0 /\ o1 = d
        /\ t = "watchdog" => n2 = 0 /\ o2 = d
        /\ t = "owner" => n3 = 0 /\ o3 = d
    BY <1>1, <1>2, <1>8 DEF Of
  <2>6. t \notin {q, "watchdog", "owner"} => d = 0
    <3>1. t \notin {q, "watchdog", "owner"} => c.of = t
      BY <1>2, <1>3 DEF Reporters, Reporting
    <3> QED BY <3>1 DEF Of
  <2>7. q # "watchdog" /\ q # "owner"
    BY OrderFacts
  <2> HIDE DEF b, o1, o2, o3, n1, n2, n3, d
  <2>8. (b + d) + (n1 + n2 + n3) = b + (o1 + o2 + o3)
    BY <2>1, <2>4, <2>5, <2>6, <2>7
  <2> QED BY <2>2, <2>3, <2>8
<1> QED BY <1>7, <1>8, <1>9 DEF EveryTransitionReported

LEMMA CallbacksKeep ==
  ASSUME TypeOK, Reporting, EveryTransitionReported, Next
  PROVE  /\ EveryTransitionReported' /\ balance' \in [Runners -> [Status -> Int]]
         /\ report' \in [Reporters -> Report \cup {None}]
<1>1. CASE UNCHANGED <<health, report, balance>>
  BY <1>1 DEF EveryTransitionReported, Pending, TypeOK
<1>2. ASSUME UNCHANGED balance, NEW r \in Runners, NEW t \in {r, "watchdog", "owner"}, NEW new,
             report[t] = None, Sound(health[r], new), Update(r, t, new)
      PROVE  /\ EveryTransitionReported' /\ balance' \in [Runners -> [Status -> Int]]
             /\ report' \in [Reporters -> Report \cup {None}]
  <2>1. new \in Health /\ t \in Reporters
    BY <1>2, SoundChanges DEF TypeOK, Reporters
  <2> QED BY <1>2, <2>1, UpdateIsReported, Updates DEF TypeOK
<1> QED BY <1>1, <1>2, ReportIsCounted, Effects

\* The places of the threads, of the watchdog and of stop().
LEMMA PlacesKeep ==
  ASSUME TypeOK, Next
  PROVE  /\ pc' \in [Runners -> {"waiting", "running", "clearing", "dying", "ended"}]
         /\ started' \in [Runners -> BOOLEAN] /\ overdue' \in [Runners -> BOOLEAN]
         /\ stop' \in BOOLEAN /\ joined' \in BOOLEAN
         /\ wd' \in {"waiting", "scanning", "flagging", "ended"} /\ wdAt' \in 1..Len(Order)
         /\ owner' \in {"up", "joining", "marking", "stopped"}
         /\ at' \in 1..(Len(Order) + 1) /\ stuck' \subseteq Runners
<1>1. /\ Len(Order) \in Nat \ {0} /\ \A i \in 1..Len(Order) : Order[i] \in Runners
      /\ wdAt \in 1..Len(Order) /\ at \in 1..(Len(Order) + 1)
  BY OrderFacts DEF TypeOK
<1>2. ASSUME NEW r \in Runners, Late(r) \/ Returns(r) \/ Begin(r) \/ Clear(r) \/ LoopEnds(r)
      PROVE  /\ pc' \in [Runners -> {"waiting", "running", "clearing", "dying", "ended"}]
             /\ started' \in [Runners -> BOOLEAN] /\ overdue' \in [Runners -> BOOLEAN]
             /\ UNCHANGED <<wd, wdAt, stop, owner, at, stuck, joined>>
  <2>1. /\ \E p \in {"waiting", "running", "clearing", "dying", "ended"} :
             pc' = pc \/ pc' = [pc EXCEPT ![r] = p]
        /\ \E b \in BOOLEAN : started' = started \/ started' = [started EXCEPT ![r] = b]
        /\ \E b \in BOOLEAN : overdue' = overdue \/ overdue' = [overdue EXCEPT ![r] = b]
    <3>1. pc' = pc \/ \E p \in {"waiting", "running", "clearing", "dying", "ended"} :
                        pc' = [pc EXCEPT ![r] = p]
      BY <1>2 DEF Late, Returns, Succeed, Fail, FailTooOften, Begin, Clear, LoopEnds, runs
    <3>2. started' = started \/ started' = [started EXCEPT ![r] = TRUE]
          \/ started' = [started EXCEPT ![r] = FALSE]
      BY <1>2 DEF Late, Returns, Succeed, Fail, FailTooOften, Begin, Clear, LoopEnds, runs
    <3>3. \/ overdue' = overdue \/ overdue' = [overdue EXCEPT ![r] = TRUE]
          \/ overdue' = [overdue EXCEPT ![r] = FALSE]
          \/ overdue' = [overdue EXCEPT ![r] = overdue[r] /\ wd = "flagging" /\ Order[wdAt] = r]
      BY <1>2 DEF Late, Returns, Succeed, Fail, FailTooOften, Begin, Clear, LoopEnds, runs
    <3> QED BY <3>1, <3>2, <3>3 DEF TypeOK
  <2>2. UNCHANGED <<wd, wdAt, stop, owner, at, stuck, joined>>
    BY <1>2 DEF Late, Returns, Succeed, Fail, FailTooOften, Begin, Clear, LoopEnds,
                watchdog, stopping
  <2>3. pc' \in [Runners -> {"waiting", "running", "clearing", "dying", "ended"}]
    BY <2>1 DEF TypeOK
  <2>4. started' \in [Runners -> BOOLEAN]
    BY <2>1 DEF TypeOK
  <2>5. overdue' \in [Runners -> BOOLEAN]
    BY <2>1 DEF TypeOK
  <2> QED BY <2>2, <2>3, <2>4, <2>5
<1>3. ASSUME NEW t, MakeReport(t)
      PROVE  UNCHANGED <<pc, started, overdue, wd, wdAt, stop, owner, at, stuck, joined>>
  BY <1>3 DEF MakeReport, runs, watchdog, stopping
<1>4. ASSUME WdWake \/ WdCheck \/ WdFlag
      PROVE  /\ wd' \in {"waiting", "scanning", "flagging", "ended"} /\ wdAt' \in 1..Len(Order)
             /\ UNCHANGED <<pc, started, overdue, stop, owner, at, stuck, joined>>
  BY <1>1, <1>4 DEF WdWake, WdCheck, WdFlag, WdAdvance, runs, stopping
<1>5. ASSUME Stop \/ Join \/ JoinWatchdog \/ Mark \/ StopReturns
      PROVE  /\ stop' \in BOOLEAN /\ joined' \in BOOLEAN
             /\ owner' \in {"up", "joining", "marking", "stopped"}
             /\ at' \in 1..(Len(Order) + 1) /\ stuck' \subseteq Runners
             /\ UNCHANGED <<pc, started, overdue, wd, wdAt>>
  <2>1. at' \in 1..(Len(Order) + 1)
    BY <1>1, <1>5 DEF Stop, Join, JoinWatchdog, Mark, StopReturns
  <2>2. stuck' \subseteq Runners
    BY <1>1, <1>5 DEF Stop, Join, JoinWatchdog, Mark, StopReturns, TypeOK
  <2>3. /\ stop' \in BOOLEAN /\ joined' \in BOOLEAN
        /\ owner' \in {"up", "joining", "marking", "stopped"}
        /\ UNCHANGED <<pc, started, overdue, wd, wdAt>>
    BY <1>5, Zenon DEF Stop, Join, JoinWatchdog, Mark, StopReturns, TypeOK, runs, watchdog, stopping
  <2> QED BY <2>1, <2>2, <2>3
<1> QED BY <1>2, <1>3, <1>4, <1>5 DEF Next, Thread, Watchdog, Owner, TypeOK

LEMMA ReportingKeeps ==
  ASSUME TypeOK, Reporting, Next
  PROVE  Reporting'
<1>1. \A r \in Runners : r \in Reporters /\ r # "watchdog" /\ r # "owner"
  BY OrderFacts DEF Reporters
<1>2. /\ "watchdog" \in Reporters /\ "owner" \in Reporters
      /\ pc \in [Runners -> {"waiting", "running", "clearing", "dying", "ended"}]
  BY DEF Reporters, TypeOK
<1>3. ASSUME NEW r \in Runners, Late(r) \/ FailTooOften(r) \/ Begin(r) \/ Clear(r) \/ LoopEnds(r)
      PROVE  Reporting'
  BY <1>2, <1>3 DEF Late, FailTooOften, Begin, Clear, LoopEnds, Reporting, watchdog
<1>4. ASSUME NEW r \in Runners, NEW new, Sound(health[r], new), Update(r, r, new),
             pc' = [pc EXCEPT ![r] = "clearing"], UNCHANGED wd
      PROVE  Reporting'
  <2>1. new \in Health
    BY <1>4, SoundChanges DEF TypeOK
  <2>2. /\ \A u \in Reporters : u # r => report'[u] = report[u]
        /\ report'[r] # None => report'[r].of = r
    BY <1>1, <1>4, <2>1, UpdatesOwn, Zenon
  <2> QED BY <1>1, <1>2, <1>4, <2>2 DEF Reporting
<1>5. ASSUME NEW r \in Runners, NEW t \in {"watchdog", "owner"}, NEW new,
             Sound(health[r], new), Update(r, t, new), UNCHANGED pc,
             t = "watchdog" => wd' # "flagging", t = "owner" => UNCHANGED wd
      PROVE  Reporting'
  <2>1. new \in Health
    BY <1>5, SoundChanges DEF TypeOK
  <2>2. t \in Reporters
    BY <1>2
  <2>3. \A u \in Reporters : u # t => report'[u] = report[u]
    BY ONLY TypeOK, <1>5, <2>1, <2>2, Updates, Zenon
  <2> QED BY <1>1, <1>2, <1>5, <2>3 DEF Reporting
<1>6. ASSUME NEW t \in Reporters, MakeReport(t) PROVE Reporting'
  <2>1. /\ UNCHANGED <<pc, wd>> /\ report'[t] = None
        /\ \A u \in Reporters : u # t => report'[u] = report[u]
    BY <1>6 DEF MakeReport, runs, watchdog, TypeOK
  <2> QED BY <1>1, <1>2, <2>1 DEF Reporting
<1>7. ASSUME NEW r \in Runners, Succeed(r) PROVE Reporting'
  BY <1>4, <1>7 DEF Succeed, Sound, watchdog
<1>8. ASSUME NEW r \in Runners, Fail(r) PROVE Reporting'
  BY <1>4, <1>8 DEF Fail, Sound, watchdog
<1>9. ASSUME WdWake \/ WdCheck PROVE Reporting'
  BY <1>9 DEF WdWake, WdCheck, WdAdvance, Reporting, runs
<1>10. ASSUME WdFlag PROVE Reporting'
  <2>1. Order[wdAt] \in Runners /\ wd' # "flagging" /\ UNCHANGED pc
    BY <1>10, OrderFacts DEF WdFlag, WdAdvance, TypeOK, runs
  <2>2. CASE overdue[Order[wdAt]]
    BY <1>5, <1>10, <2>1, <2>2 DEF WdFlag, Sound
  <2>3. CASE ~overdue[Order[wdAt]]
    BY <1>10, <2>1, <2>3 DEF WdFlag, Reporting
  <2> QED BY <2>2, <2>3
<1>11. ASSUME Stop \/ Join \/ JoinWatchdog \/ StopReturns PROVE Reporting'
  BY <1>11 DEF Stop, Join, JoinWatchdog, StopReturns, Reporting, runs, watchdog
<1>12. ASSUME Mark PROVE Reporting'
  <2>1. Order[at] \in Runners /\ UNCHANGED <<pc, wd>>
    BY <1>12, OrderFacts DEF Mark, TypeOK, runs, watchdog
  <2>2. CASE Markable(Order[at])
    BY <1>5, <1>12, <2>1, <2>2 DEF Mark, Sound
  <2>3. CASE ~Markable(Order[at])
    BY <1>12, <2>1, <2>3 DEF Mark, Reporting
  <2> QED BY <2>2, <2>3
<1> QED BY <1>1, <1>2, <1>3, <1>6, <1>7, <1>8, <1>9, <1>10, <1>11, <1>12
        DEF Next, Returns, Thread, Watchdog, Owner

\* A thread that has ended stays so, and so does the watchdog.
LEMMA EndedStays ==
  ASSUME TypeOK, Next
  PROVE  /\ \A r \in Runners : pc[r] = "ended" => pc'[r] = "ended"
         /\ wd = "ended" => wd' = "ended"
<1>1. pc \in [Runners -> {"waiting", "running", "clearing", "dying", "ended"}]
  BY DEF TypeOK
<1>2. ASSUME NEW r \in Runners, Late(r) \/ Returns(r) \/ Begin(r) \/ Clear(r) \/ LoopEnds(r)
      PROVE  /\ \A q \in Runners : pc[q] = "ended" => pc'[q] = "ended"
             /\ UNCHANGED wd
  BY <1>1, <1>2 DEF Late, Returns, Succeed, Fail, FailTooOften, Begin, Clear, LoopEnds, watchdog
<1>3. ASSUME NEW t, MakeReport(t) PROVE UNCHANGED <<pc, wd>>
  BY <1>3 DEF MakeReport, runs, watchdog
<1>4. ASSUME Watchdog, ~MakeReport("watchdog") PROVE UNCHANGED pc /\ wd # "ended"
  BY <1>4 DEF Watchdog, WdWake, WdCheck, WdFlag, runs
<1>5. ASSUME Owner, ~MakeReport("owner") PROVE UNCHANGED <<pc, wd>>
  BY <1>5 DEF Owner, Stop, Join, JoinWatchdog, Mark, StopReturns, runs, watchdog
<1> QED BY <1>2, <1>3, <1>4, <1>5 DEF Next, Thread, Watchdog, Owner

\* stop() is the only one to change where it is.
LEMMA OwnerAlone ==
  ASSUME Next
  PROVE  \/ Stop \/ Join \/ JoinWatchdog \/ Mark \/ StopReturns
         \/ UNCHANGED <<owner, at, stuck, joined>>
<1>1. ASSUME NEW r, Late(r) \/ Returns(r) \/ Begin(r) \/ Clear(r) \/ LoopEnds(r)
      PROVE  UNCHANGED <<owner, at, stuck, joined>>
  BY <1>1 DEF Late, Returns, Succeed, Fail, FailTooOften, Begin, Clear, LoopEnds, stopping
<1>2. ASSUME NEW t, MakeReport(t) PROVE UNCHANGED <<owner, at, stuck, joined>>
  BY <1>2 DEF MakeReport, stopping
<1>3. ASSUME WdWake \/ WdCheck \/ WdFlag PROVE UNCHANGED <<owner, at, stuck, joined>>
  BY <1>3 DEF WdWake, WdCheck, WdFlag, stopping
<1> QED BY <1>1, <1>2, <1>3 DEF Next, Thread, Watchdog, Owner

LEMMA JoiningKeeps ==
  ASSUME TypeOK, Joining, Next
  PROVE  Joining'
<1>1. /\ \A r \in Runners : pc[r] = "ended" => pc'[r] = "ended"
      /\ wd = "ended" => wd' = "ended"
      /\ Len(Order) \in Nat \ {0} /\ at \in 1..(Len(Order) + 1)
      /\ \A i \in 1..Len(Order) : Order[i] \in Runners
      /\ \A r \in Runners : \E i \in 1..Len(Order) : Order[i] = r
  BY EndedStays, OrderFacts DEF TypeOK
<1>2. CASE UNCHANGED <<owner, at, stuck, joined>>
  BY <1>1, <1>2 DEF Joining
<1>3. CASE Stop
  BY <1>1, <1>3 DEF Stop, Joining
<1>4. CASE Join
  <2>1. /\ owner = "joining" /\ UNCHANGED <<owner, joined>> /\ at' = at + 1
        /\ stuck \subseteq stuck'
        /\ Order[at] \in stuck' \/ pc[Order[at]] = "ended"
    BY <1>4 DEF Join
  <2>2. ASSUME NEW i \in 1..Len(Order), i < at' PROVE Order[i] \in stuck' \/ pc'[Order[i]] = "ended"
    <3>1. i < at \/ i = at
      BY <1>1, <2>1, <2>2
    <3>2. i < at => Order[i] \in stuck \/ pc[Order[i]] = "ended"
      BY <2>1 DEF Joining
    <3>3. CASE i < at
      <4>1. Order[i] \in stuck \/ pc[Order[i]] = "ended"
        BY <3>2, <3>3
      <4>2. Order[i] \in stuck => Order[i] \in stuck'
        BY <2>1
      <4>3. pc[Order[i]] = "ended" => pc'[Order[i]] = "ended"
        BY <1>1
      <4> QED BY <4>1, <4>2, <4>3
    <3>4. CASE i = at
      BY <1>1, <2>1, <3>4
    <3> QED BY <3>1, <3>3, <3>4
  <2> QED BY <2>1, <2>2 DEF Joining
<1>5. CASE JoinWatchdog
  <2>1. \A r \in Runners : r \in stuck \/ pc[r] = "ended"
    BY <1>1, <1>5 DEF JoinWatchdog, Joining
  <2>2. /\ owner' = "marking" /\ UNCHANGED stuck /\ joined' = (wd = "ended")
    BY <1>5 DEF JoinWatchdog
  <2> QED BY <1>1, <2>1, <2>2 DEF Joining
<1>6. CASE Mark \/ StopReturns
  <2>1. owner = "marking" /\ owner' \in {"marking", "stopped"} /\ UNCHANGED <<stuck, joined>>
    BY <1>6 DEF Mark, StopReturns
  <2> QED BY <1>1, <2>1 DEF Joining
<1> QED BY <1>2, <1>3, <1>4, <1>5, <1>6, OwnerAlone

\* A task's thread or the watchdog never makes a task STOPPED, and leaves one alone that
\* was marked when both had ended.
LEMMA OthersMark ==
  ASSUME TypeOK, Joining, Marking, Next, ~Mark, NEW r \in Runners
  PROVE  /\ health'[r].status = "STOPPED" => health[r].status = "STOPPED"
         /\ health[r].status = "STOPPED" /\ joined => health'[r].status = "STOPPED"
<1>1. health \in [Runners -> Health]
  BY DEF TypeOK
<1>2. CASE UNCHANGED health
  BY <1>2
<1>3. ASSUME NEW q \in Runners, Succeed(q) \/ Fail(q) PROVE
        /\ health'[r].status = "STOPPED" => health[r].status = "STOPPED"
        /\ health[r].status = "STOPPED" /\ joined => health'[r].status = "STOPPED"
  <2>1. /\ health' = [health EXCEPT ![q] = Succeeded(health[q])]
           \/ health' = [health EXCEPT ![q] = Failed(health[q].failures + 1)]
        /\ pc[q] = "running"
    BY <1>3 DEF Succeed, Fail, Update
  <2>2. Succeeded(health[q]).status # "STOPPED" /\ Failed(health[q].failures + 1).status # "STOPPED"
    BY DEF Succeeded, Failed
  <2>3. health[q].status # "STOPPED"
    BY <2>1 DEF Joining, Marking
  <2> QED BY <1>1, <2>1, <2>2, <2>3
<1>4. ASSUME WdFlag PROVE
        /\ health'[r].status = "STOPPED" => health[r].status = "STOPPED"
        /\ health[r].status = "STOPPED" /\ joined => health'[r].status = "STOPPED"
  <2>1. ~joined
    BY <1>4 DEF WdFlag, Joining
  <2>2. Order[wdAt] \in Runners
    BY OrderFacts DEF TypeOK
  <2>3. health' = health \/ health' = [health EXCEPT ![Order[wdAt]] = [@ EXCEPT !.status = "TIMED_OUT"]]
    BY <1>4 DEF WdFlag, Update
  <2>4. \A h \in Health : [h EXCEPT !.status = "TIMED_OUT"].status = "TIMED_OUT"
    BY DEF Health
  <2> QED BY <1>1, <2>1, <2>2, <2>3, <2>4
<1>5. UNCHANGED health \/ WdFlag \/ \E q \in Runners : Succeed(q) \/ Fail(q)
  BY DEF Next, Late, Returns, FailTooOften, Thread, Begin, Clear, LoopEnds, MakeReport, Watchdog, WdWake,
         WdCheck, Owner, Stop, Join, JoinWatchdog, StopReturns
<1> QED BY <1>2, <1>3, <1>4, <1>5

LEMMA MarkingKeeps ==
  ASSUME TypeOK, Joining, Marking, Next
  PROVE  Marking'
<1>1. /\ Len(Order) \in Nat \ {0} /\ at \in 1..(Len(Order) + 1)
      /\ \A i \in 1..Len(Order) : Order[i] \in Runners
      /\ health \in [Runners -> Health]
  BY OrderFacts DEF TypeOK
<1>2. CASE UNCHANGED <<owner, at, stuck, joined>> /\ ~Mark
  BY <1>1, <1>2, OthersMark DEF Marking
<1>3. CASE Stop \/ Join
  <2>1. owner \in {"up", "joining"} /\ UNCHANGED <<health, joined>>
    BY <1>3 DEF Stop, Join
  <2> QED BY <2>1 DEF Marking, Joining
<1>4. CASE JoinWatchdog
  <2>1. owner = "joining" /\ owner' = "marking" /\ at' = 1 /\ UNCHANGED <<health, stuck>>
    BY <1>4 DEF JoinWatchdog
  <2> QED BY <2>1 DEF Marking
<1>5. CASE Mark
  <2>1. /\ owner = "marking" /\ at <= Len(Order) /\ at' = at + 1 /\ UNCHANGED <<owner, stuck, joined>>
        /\ IF Order[at] \notin stuck
           THEN health' = [health EXCEPT ![Order[at]] = [@ EXCEPT !.status = "STOPPED"]]
           ELSE UNCHANGED health
    BY <1>5 DEF Mark, Markable, Update
  <2>2. Order[at] \in Runners
    BY <1>1, <2>1
  <2>3. \A h \in Health : [h EXCEPT !.status = "STOPPED"].status = "STOPPED"
    BY DEF Health
  <2>4. \A r \in Runners :
          health'[r].status = "STOPPED" <=> health[r].status = "STOPPED" \/ (r = Order[at] /\ r \notin stuck)
    <3>1. CASE Order[at] \in stuck
      BY <2>1, <3>1
    <3>2. CASE Order[at] \notin stuck
      <4>1. /\ health'[Order[at]].status = "STOPPED"
            /\ \A r \in Runners : r # Order[at] => health'[r] = health[r]
        <5> DEFINE marked == [health[Order[at]] EXCEPT !.status = "STOPPED"]
        <5>1. marked.status = "STOPPED"
          BY <1>1, <2>2, <2>3
        <5>2. health' = [health EXCEPT ![Order[at]] = marked]
          BY <2>1, <3>2
        <5> HIDE DEF marked
        <5> QED BY <1>1, <2>2, <5>1, <5>2
      <4> QED BY <3>2, <4>1
    <3> QED BY <3>1, <3>2
  <2>5. \A i \in 1..Len(Order) : i < at' => i < at \/ i = at
    BY <1>1, <2>1
  <2> QED BY <1>1, <2>1, <2>2, <2>4, <2>5 DEF Marking
<1>6. CASE StopReturns
  <2>1. /\ owner = "marking" /\ at > Len(Order) /\ owner' = "stopped"
        /\ UNCHANGED <<at, stuck, joined, health>>
    BY <1>6 DEF StopReturns
  <2>2. \A i \in 1..Len(Order) : i < at
    BY <1>1, <2>1
  <2> QED BY <2>1, <2>2 DEF Marking
<1> QED BY <1>2, <1>3, <1>4, <1>5, <1>6, OwnerAlone

(***************************************************************************)
(* The theorems                                                            *)
(***************************************************************************)
LEMMA InitHolds == Init => IInv
<1> SUFFICES ASSUME Init PROVE IInv
  OBVIOUS
<1>1. UnavailableAfter \in Nat \ {0, 1} /\ MaxExponent \in Nat \ {0} /\ Len(Order) \in Nat \ {0}
  BY SchedulerAssumption, OrderFacts DEF SchedulerAssumption
<1>2. \A r \in Runners : health[r] \in FirstHealth(r) /\ health[r] \in Health
  BY DEF Init
<1>3. \A r \in Runners :
        \/ health[r].status = "OK" /\ health[r].failures = 0
        \/ health[r].status = "DEGRADED" /\ health[r].failures = 1
        \/ health[r].status = "STARTING" /\ health[r].failures = 0
  BY <1>2 DEF FirstHealth
<1>4. StatusMatchesFailures
  BY <1>1, <1>3 DEF StatusMatchesFailures
<1>5. EveryTransitionReported
  <2> SUFFICES ASSUME NEW r \in Runners, NEW s \in Status
               PROVE  balance[r][s] + Pending(r, s) = Is(health[r].status = s)
    BY DEF EveryTransitionReported
  <2>1. balance[r][s] = Is(s = health[r].status)
    BY DEF Init
  <2>2. Is(s = health[r].status) = Is(health[r].status = s)
    BY DEF Is
  <2>3. Pending(r, s) = 0
    BY DEF Init, Pending, Reporters
  <2> QED BY <2>1, <2>2, <2>3, IsInteger
<1>6. TypeOK
  <2>1. balance \in [Runners -> [Status -> Int]]
    BY IsInteger DEF Init
  <2>2. /\ pc \in [Runners -> {"waiting", "running", "clearing", "dying", "ended"}]
        /\ started \in [Runners -> BOOLEAN] /\ overdue \in [Runners -> BOOLEAN]
        /\ health \in [Runners -> Health] /\ report \in [Reporters -> Report \cup {None}]
    BY DEF Init
  <2>3. stop \in BOOLEAN /\ joined \in BOOLEAN
    BY Zenon DEF Init
  <2>4. /\ wd \in {"waiting", "scanning", "flagging", "ended"} /\ wdAt \in 1..Len(Order)
        /\ owner \in {"up", "joining", "marking", "stopped"}
        /\ at \in 1..(Len(Order) + 1) /\ stuck \subseteq Runners
    BY <1>1 DEF Init
  <2> QED BY <2>1, <2>2, <2>3, <2>4 DEF TypeOK
<1>7. Reporting
  BY DEF Init, Reporting, Reporters
<1>8. Joining
  BY DEF Init, Joining
<1>9. Marking
  BY <1>3 DEF Init, Marking
<1> QED BY <1>4, <1>5, <1>6, <1>7, <1>8, <1>9 DEF IInv

LEMMA StepKeeps == IInv /\ [Next]_vars => IInv'
<1> SUFFICES ASSUME IInv, [Next]_vars PROVE IInv'
  OBVIOUS
<1>1. CASE UNCHANGED vars
  BY <1>1 DEF vars, IInv, TypeOK, Reporting, Joining, Marking, StatusMatchesFailures,
              EveryTransitionReported, Pending
<1>2. CASE Next
  <2>1. TypeOK /\ Reporting /\ Joining /\ Marking /\ StatusMatchesFailures /\ EveryTransitionReported
    BY DEF IInv
  <2>2. TypeOK'
    BY <1>2, <2>1, HealthKeeps, CallbacksKeep, PlacesKeep DEF TypeOK
  <2> QED BY <1>2, <2>1, <2>2, HealthKeeps, CallbacksKeep, ReportingKeeps, JoiningKeeps, MarkingKeeps
          DEF IInv
<1> QED BY <1>1, <1>2

\* The invariant of core/scheduler.py: health, callbacks in flight, and what stop() knows.
THEOREM Inductive == Spec => []IInv
BY InitHolds, StepKeeps, PTL DEF Spec

\* Every variable of the scheduler (core/scheduler.py) keeps its type.
THEOREM TypeCorrect == Spec => []TypeOK
<1>1. IInv => TypeOK
  BY DEF IInv
<1> QED BY Inductive, <1>1, PTL

\* The status and the failure count of a task's health, written by its thread, by the
\* watchdog and by stop(), never contradict each other.
THEOREM StatusAlwaysMatches == Spec => []StatusMatchesFailures
<1>1. IInv => StatusMatchesFailures
  BY DEF IInv
<1> QED BY Inductive, <1>1, PTL

\* Whatever threads race in _update, the transition callbacks add up to the health.
THEOREM TransitionsAlwaysReported == Spec => []EveryTransitionReported
<1>1. IInv => EveryTransitionReported
  BY DEF IInv
<1> QED BY Inductive, <1>1, PTL

\* A task that stop() does not call stuck has no thread left, and one that it does is
\* never STOPPED, for any number of tasks and however many of them hang.
THEOREM StopAlwaysClean == Spec => []StopIsClean
<1>1. IInv => StopIsClean
  <2> SUFFICES ASSUME IInv, owner = "stopped", NEW r \in Runners
               PROVE  /\ r \notin stuck => pc[r] = "ended"
                      /\ r \notin stuck /\ joined => health[r].status = "STOPPED"
                      /\ r \in stuck => health[r].status # "STOPPED"
    BY DEF StopIsClean
  <2>1. PICK i \in 1..Len(Order) : Order[i] = r
    BY OrderFacts
  <2> QED BY <2>1 DEF IInv, Joining, Marking
<1> QED BY Inductive, <1>1, PTL
=============================================================================
