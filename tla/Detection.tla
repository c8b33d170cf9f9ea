------------------------------ MODULE Detection ------------------------------
(***************************************************************************)
(* From a rule's verdict to the database: the detection engine isolates    *)
(* rules and de-duplicates findings (detection/engine.py, utils/lru.py),   *)
(* the alert manager gathers them per subject (detection/alerting.py), the *)
(* writer stores detections and alerts one after the other                 *)
(* (storage/writer.py, storage/repositories.py), a person sets an alert's  *)
(* status from another process, and retention runs between two monitors.   *)
(*                                                                         *)
(* A detection is the number of its report, an alert the number of its     *)
(* raising; their random identifiers never repeat.  Everything up to the   *)
(* queue happens on the dispatcher's thread, one rule's verdict at a time. *)
(***************************************************************************)
EXTENDS Naturals, SequencesExt

CONSTANTS
  Rules, Subjects,
  Findings,      \* the de-duplication keys
  RuleOf, SubjectOf,
  Raising,       \* the sets of findings whose combined score reaches the threshold
  MaxFailures, SeenCapacity, MaxAlerts,
  Fallible,      \* bound: the rules that may raise
  MaxReports,    \* bound on reports
  None           \* "no alert"

Ids == 1..MaxReports
\* ACKNOWLEDGED and INVESTIGATING are treated as NEW, IGNORED as RESOLVED.
Statuses == {"NEW", "RESOLVED"}
Row == [detections : SUBSET Ids, status : Statuses]

\* Nothing found is no alert.
ASSUME DetectionAssumption ==
  /\ RuleOf \in [Findings -> Rules] /\ SubjectOf \in [Findings -> Subjects]
  /\ Raising \subseteq (SUBSET Findings) \ {{}} /\ Fallible \subseteq Rules
  /\ MaxFailures \in Nat \ {0} /\ SeenCapacity \in Nat \ {0} /\ MaxAlerts \in Nat \ {0}
  /\ MaxReports \in Nat /\ None \notin Nat \cup Row \cup Statuses

VARIABLES
  failures, disabled,  \* _consecutive_failures, _auto_disabled
  seen,                \* _seen: findings, the least recently used first
  reported,            \* every finding reported so far; its index is the detection
  subjects, bucket,    \* the order and the contents of _detections
  alertOf, raised,     \* _alerts; the alerts ever raised
  queue,               \* the writer's queue
  stored, link,        \* table detections: its rows, and their alert_id
  rows,                \* table alerts
  running,             \* a monitor runs
  verdicts,            \* history: each rule's last MaxFailures verdicts
  since,               \* history: the findings met since a finding was last met in this run
  chosen,              \* history: the status a person last gave an alert
  lost,                \* history: the alerts with an update that was not stored
  written              \* history: the detections ever stored

engine == <<failures, disabled, seen, verdicts, since, reported>>
manager == <<subjects, bucket, alertOf, raised>>
database == <<stored, link, rows, written, chosen>>
vars == <<engine, manager, queue, database, running, lost>>

Elements(s) == {s[i] : i \in 1..Len(s)}
Terminal == {"RESOLVED"}
Item == [kind : {"detection"}, id : Ids]
        \cup [kind : {"alert"}, id : Ids, detections : SUBSET Ids]

TypeOK ==
  /\ failures \in [Rules -> 0..MaxFailures] /\ disabled \subseteq Rules
  /\ seen \in Seq(Findings) /\ Len(seen) <= SeenCapacity
  /\ reported \in Seq(Findings) /\ Len(reported) <= MaxReports
  /\ subjects \in Seq(Subjects) /\ Len(subjects) <= MaxAlerts
  /\ bucket \in [Subjects -> SUBSET Ids]
  /\ alertOf \in [Subjects -> Ids \cup {None}] /\ raised \in 0..MaxReports
  /\ queue \in Seq(Item)
  /\ stored \subseteq Ids /\ link \in [Ids -> Ids \cup {None}]
  /\ rows \in [Ids -> Row \cup {None}]
  /\ running \in BOOLEAN
  /\ verdicts \in [Rules -> Seq({"raised", "judged"})]
  /\ DOMAIN since \subseteq Findings /\ since \in [DOMAIN since -> SUBSET Findings]
  /\ chosen \in [Ids -> Statuses \cup {None}]
  /\ lost \subseteq Ids /\ written \subseteq Ids

NoFailures == [r \in Rules |-> 0]
NoVerdicts == [r \in Rules |-> [i \in 1..MaxFailures |-> "judged"]]
NeverMet == [f \in {} |-> {}]
NoDetections == [s \in Subjects |-> {}]
NoAlerts == [s \in Subjects |-> None]

Init ==
  /\ failures = NoFailures /\ disabled = {} /\ seen = <<>>
  /\ verdicts = NoVerdicts /\ since = NeverMet /\ reported = <<>>
  /\ subjects = <<>> /\ bucket = NoDetections /\ alertOf = NoAlerts /\ raised = 0
  /\ queue = <<>>
  /\ stored = {} /\ link = [d \in Ids |-> None] /\ rows = [a \in Ids |-> None]
  /\ chosen = [a \in Ids |-> None]
  /\ running = TRUE /\ lost = {} /\ written = {}

(***************************************************************************)
(* The detection engine                                                    *)
(***************************************************************************)
Remember(r, verdict) ==
  verdicts' = [verdicts EXCEPT ![r] = Append(Tail(@), verdict)]

\* handle's except branch, _record_failure.
Raises(r) ==
  /\ running /\ r \in Fallible \ disabled
  /\ failures' = [failures EXCEPT ![r] = @ + 1]
  /\ disabled' = IF failures[r] + 1 >= MaxFailures THEN disabled \cup {r} ELSE disabled
  /\ Remember(r, "raised")
  /\ UNCHANGED <<seen, since, reported, manager, queue, database, running, lost>>

\* Fault: only a report resets the count.
StillCounts(r) == failures

Reset(r) == [failures EXCEPT ![r] = 0]

Judges(r) ==
  /\ running /\ r \notin disabled
  /\ failures' = Reset(r) /\ Remember(r, "judged") /\ UNCHANGED disabled

\* The rule finds nothing, or what it finds is an excluded process, an ignored
\* executable or allowlisted.
FindsNothing(r) ==
  /\ Judges(r)
  /\ UNCHANGED <<seen, since, reported, manager, queue, database, running, lost>>

Meet(f) ==
  since' = [g \in DOMAIN since \cup {f} |-> IF g = f THEN {} ELSE since[g] \cup {f}]

Places(seq, e) == {i \in 1..Len(seq) : seq[i] = e}
Without(seq, e) ==
  IF Places(seq, e) = {} THEN seq ELSE RemoveAt(seq, CHOOSE i \in Places(seq, e) : TRUE)
WithLast(seq, e) == Append(Without(seq, e), e)

\* Fault: nothing is evicted.
Unbounded(seq, n) == seq

Youngest(seq, n) == IF Len(seq) > n THEN Tail(seq) ELSE seq

\* Fault: a look-up does not count as a use.
NotUsed(f) == seen

\* BoundedLRUCache.get of a finding the cache holds.
Used(f) == WithLast(seen, f)

Suppress(f) ==
  /\ Judges(RuleOf[f]) /\ f \in Elements(seen)
  /\ seen' = Used(f) /\ Meet(f)
  /\ UNCHANGED <<reported, manager, queue, database, running, lost>>

(***************************************************************************)
(* The alert manager                                                       *)
(***************************************************************************)
FindingsOf(detections) == {reported'[d] : d \in detections}

\* Fault: the alert is built before the detection is added.
BuiltBefore(s, d) == bucket[s]

Gathered(s, d) == bucket[s] \cup {d}

DetectionItem(d) == [kind |-> "detection", id |-> d]
AlertItem(a, detections) == [kind |-> "alert", id |-> a, detections |-> detections]

\* handle(): the detection joins the others of its subject, the subject that was
\* used least recently is forgotten with its alert, and if the score reaches the
\* threshold the alert goes to the writer; then the engine's next listener hands the
\* writer the detection.
Notify(f, d) ==
  LET s == SubjectOf[f]
      all == Gathered(s, d)
      old == Elements(subjects) \ Elements(subjects')
      crosses == FindingsOf(all) \in Raising
      alert == IF alertOf[s] # None THEN alertOf[s] ELSE raised + 1
  IN /\ subjects' = Youngest(WithLast(subjects, s), MaxAlerts)
     /\ bucket' = [t \in Subjects |->
          IF t = s THEN bucket[s] \cup {d} ELSE IF t \in old THEN {} ELSE bucket[t]]
     /\ alertOf' = [t \in Subjects |->
          IF t = s /\ crosses THEN alert ELSE IF t \in old THEN None ELSE alertOf[t]]
     /\ raised' = IF crosses /\ alertOf[s] = None THEN raised + 1 ELSE raised
     /\ queue' = queue \o (IF crosses THEN <<AlertItem(alert, all)>> ELSE <<>>)
                       \o <<DetectionItem(d)>>

Report(f) ==
  /\ Len(reported) < MaxReports
  /\ Judges(RuleOf[f]) /\ f \notin Elements(seen)
  /\ seen' = Youngest(WithLast(seen, f), SeenCapacity) /\ Meet(f)
  /\ reported' = Append(reported, f)
  /\ Notify(f, Len(reported'))
  /\ UNCHANGED <<database, running, lost>>

(***************************************************************************)
(* The writer and the database                                             *)
(***************************************************************************)

\* Fault: only the newest of an alert's detections is linked.
LinkedLast(item) ==
  [d \in Ids |-> IF d \in item.detections \cap stored
                    /\ (\A e \in item.detections : e <= d) THEN item.id ELSE link[d]]

\* upsert_alert's UPDATE reaches the rows that are there.
Linked(item) ==
  [d \in Ids |-> IF d \in item.detections \cap stored THEN item.id ELSE link[d]]

\* Fault: the monitor's status is written whatever the row has.
Overwritten(row) == "NEW"

StatusAfter(row) ==
  IF row # None /\ row.status \in Terminal THEN row.status ELSE "NEW"

\* record_detection (called without an alert) and upsert_alert.
Write(item) ==
  \/ /\ item.kind = "detection"
     /\ stored' = stored \cup {item.id} /\ written' = written \cup {item.id}
     /\ UNCHANGED <<link, rows, chosen>>
  \/ /\ item.kind = "alert"
     /\ rows' = [rows EXCEPT ![item.id] =
          [detections |-> item.detections, status |-> StatusAfter(@)]]
     /\ link' = Linked(item)
     /\ UNCHANGED <<stored, written, chosen>>

Store ==
  /\ queue # <<>> /\ queue' = Tail(queue)
  /\ Write(Head(queue))
  /\ UNCHANGED <<engine, manager, running, lost>>

\* A full queue drops its oldest item, a failing transaction its batch.
Lose ==
  /\ queue # <<>> /\ queue' = Tail(queue)
  /\ lost' = IF Head(queue).kind = "alert" THEN lost \cup {Head(queue).id} ELSE lost
  /\ UNCHANGED <<engine, manager, database, running>>

\* "alerts set-status"; a prefix that several alerts share sets them one by one.
SetStatus(a, status) ==
  /\ rows[a] # None
  /\ rows' = [rows EXCEPT ![a].status = status]
  /\ chosen' = [chosen EXCEPT ![a] = status]
  /\ UNCHANGED <<engine, manager, queue, stored, link, written, running, lost>>

\* The monitor ends with its writer drained.
Quit ==
  /\ running /\ queue = <<>>
  /\ running' = FALSE
  /\ UNCHANGED <<engine, manager, queue, database, lost>>

Expirable == {d \in stored : link[d] = None}

\* apply_retention, whatever the ages: detections without an alert go, and alerts
\* that are resolved.
Retention ==
  /\ ~running
  /\ \E old \in SUBSET Expirable : stored' = stored \ old
  /\ \E old \in SUBSET {a \in Ids : rows[a] # None} :
       /\ \A a \in old : rows[a].status \in Terminal
       /\ rows' = [a \in Ids |-> IF a \in old THEN None ELSE rows[a]]
  /\ UNCHANGED <<link, written, chosen>>

\* "db cleanup".
Cleanup == Retention /\ UNCHANGED <<engine, manager, queue, running, lost>>

\* cmd_monitor: retention, then everything in memory is new.
StartMonitor ==
  /\ Retention
  /\ running' = TRUE
  /\ failures' = NoFailures /\ disabled' = {} /\ seen' = <<>>
  /\ verdicts' = NoVerdicts /\ since' = NeverMet
  /\ subjects' = <<>> /\ bucket' = NoDetections /\ alertOf' = NoAlerts
  /\ UNCHANGED <<reported, raised, queue, lost>>

Next ==
  \/ \E r \in Rules : Raises(r) \/ FindsNothing(r)
  \/ \E f \in Findings : Suppress(f) \/ Report(f)
  \/ Store \/ Lose
  \/ \E a \in Ids, status \in Statuses : SetStatus(a, status)
  \/ Quit \/ Cleanup \/ StartMonitor

Spec == Init /\ [][Next]_vars

-----------------------------------------------------------------------------
(***************************************************************************)
(* Properties                                                              *)
(***************************************************************************)

\* What the engine remembers of a run is what happened in it.  A rule is disabled
\* exactly if it has raised MaxFailures times in a row: never after fewer, and a verdict
\* in between starts the count again.  A finding is a duplicate until SeenCapacity others
\* have been met since it was last met, and only then is it reported again.
EngineRemembersRight ==
  /\ \A r \in Rules : r \in disabled <=> Elements(verdicts[r]) = {"raised"}
  /\ \A f \in Findings :
       f \in Elements(seen) <=> f \in DOMAIN since /\ Cardinality(since[f]) < SeenCapacity

\* The alert of a subject above the threshold, as the writer's queue or else the
\* database has it, lists every detection the alert manager holds for the subject,
\* unless an update was lost.  One that a person has closed is not reopened, neither by
\* what was in the queue by then nor by any later update.
Updates(a) == {i \in 1..Len(queue) : queue[i].kind = "alert" /\ queue[i].id = a}
Latest(a) ==
  IF Updates(a) # {}
  THEN queue[CHOOSE i \in Updates(a) : \A j \in Updates(a) : j <= i].detections
  ELSE rows[a].detections
AlertIsUpToDate ==
  /\ \A s \in Subjects :
       running /\ {reported[d] : d \in bucket[s]} \in Raising =>
         alertOf[s] # None /\ (alertOf[s] \notin lost => Latest(alertOf[s]) = bucket[s])
  /\ \A a \in Ids :
       rows[a] # None /\ chosen[a] \in Terminal => rows[a].status = chosen[a]

\* What a stored alert lists as its evidence, the detections table has for good and
\* links to it; except for the last one listed, which was stored after the alert.
EvidenceIsKept ==
  \A a \in Ids : rows[a] # None =>
    \A d \in rows[a].detections \cap written :
      (\E e \in rows[a].detections : d < e) => d \in stored /\ link[d] = a

\* The claim of tests/unit/test_storage.py, "The detection is linked to an alert, so
\* it is retained."
AlertedIsRetained ==
  \A a \in Ids : rows[a] # None => rows[a].detections \cap written \subseteq stored
=============================================================================
