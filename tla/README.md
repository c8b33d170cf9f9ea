# ThreatLens: a formal model

ThreatLens is a Windows host monitor: periodic collectors feed monitors, monitors publish change
events on a bounded bus, one dispatcher calls the handlers (state history, enrichment requests,
storage, display, detection), a worker enriches new processes, a writer thread persists, and a
person may act on a process or an alert. Most of what can go wrong lies between those threads. This directory
holds TLA+ modules for them, TLC configurations that check small instances, and proofs checked
by TLAPS. Paths below are relative to `src/threatlens/`.

## 1. Inventory

| component | state | operations | hard behaviour |
|---|---|---|---|
| event bus `core/event_bus.py` | queue, subscriptions, stopping flag, counters | subscribe, publish, start, dispatch_pending, stop, dispatcher loop | overflow, handlers outside the lock, raising handlers, a stop whose join times out |
| scheduler `core/scheduler.py` | one health record and start time per task, stop event | run_once, success/failure, watchdog check, stop | three threads write a health record on what they read before; hanging tasks; backoff arithmetic |
| enrichment `core/enrichment.py` | urgent and inventory queue, set of pending keys | request, next, enrich, stop | no lost wake-up across four threads and three bounded queues |
| process table `core/state.py` | current, by PID, exited, enrichment, history, connections | apply snapshot, observe, set enrichment, prune, lookups | snapshots applied late, PID reuse, retention |
| engine `core/engine.py` | lifecycle, unresolvable PIDs | start, stop, polls, on-demand lookup, transitions, status | order of start and stop, joins with timeouts |
| writer `storage/writer.py` | queue, batch, counters | enqueue, take batch, write, stop | failing batches, a database that does not open, exit in between |
| monitors `monitors/*.py` | the previous snapshot | poll, diff | partial snapshots taken for complete ones |
| attribution, tree `correlation/*.py` | none (pure) | attribute, select_parent, ancestry | PID reuse, cycles, missing times |
| rules `detection/rules/*.py` | parked facts, per-process windows, suppression | evaluate, judge | deferral until enrichment; bounded per-process state |
| detection engine `detection/engine.py`, `utils/lru.py` | failure counts, disabled rules, de-duplication cache, allowlist | handle, disable, notify | isolation, eviction, exclusion of its own processes |
| alerting `detection/alerting.py`, `scoring.py` | alerts per process instance | handle, build, set status | de-duplication, re-raise on severity |
| storage `storage/repositories.py`, `database.py`, `migrations.py` | tables | record event/detection/alert/action, retention, migrations | order of arrival, links between rows |
| allowlist, baseline `detection/allowlist.py`, `baseline.py` | entries read at start; one stored baseline | match, capture, compare, delete | judged before hash and signature are known; partial snapshots |
| response `response/*.py` | none; audit records, firewall table | verify, act, trim, firewall | verify/act race, PID reuse, audit of every outcome |
| status file, lock `core/status_file.py` | files | write, read, acquire, release | several program instances, crash |
| file identity `security/*.py` | hash and signature caches | sha256, verify | a file that changes, or a path that leads elsewhere, while it is read |
| collectors `collectors/*.py`, Windows wrappers `utils/*.py` | details of the processes that run | collect, collect by PID, enrich | a process that ends, or whose PID is reused, between two calls; sources that fail |
| command line `cli.py`, dashboard `ui/dashboard.py` | wiring; selection, pause, dialogs | commands, keys | order of subscription, keys typed ahead, a selection that moves, background trim |
| configuration, logging, views | - | parsing, rendering | without state |

How they interact: `Engine._poll_processes` and `_poll_network` (two scheduler threads) call the
monitors, write the process table and publish; the dispatcher calls `SystemState.record_event`,
`EnrichmentWorker.on_event`, `DatabaseWriter.on_event`, the display and `DetectionEngine.handle` in
the order of subscription; the detection engine calls its observers (alert manager, writer, display) on the
dispatcher's thread; the enrichment worker writes the table and publishes `PROCESS_ENRICHED`; the watchdog and
the task threads publish `COLLECTOR_STATUS` through the transition callback; the main thread starts and stops all.

What makes each part correct:

* bus: counters lose nothing; the queue holds the newest events; each handler sees publish order,
  at most once; a raising handler harms nobody else; every accepted event is settled.
* scheduler: status and failure count agree; every transition is reported once; an overdue run
  becomes visible and heals; what stop() reports is so; a failing task is retried.
* enrichment: a connection is judged only with its owner's signature known, and none is parked for
  a wake-up that will not come, unless the enrichment itself was dropped or the process had no readable
  executable when it was asked for.
* writer and shutdown: what is durable is an ordered past of the stream; every event has exactly
  one fate; an orderly shutdown stores what was buffered.
* process table: a running process is findable under its key and PID, enrichment and history live as
  long as the entry; a stale snapshot does harm at most until the next one.
* monitors: the events between two polls transform the reported state into the observed one.
* detection and alerting: one detection per key while the cache holds it; a rule is disabled after
  ten consecutive failures and never earlier; an alert's severity and detections agree.
* storage: every detection of an alert is linked to it; retention keeps what still refers.
* storage opened by several: the database is used only with all its tables.
* response and dashboard: an action reaches only the instance the person confirmed; every outcome but a declined
  firewall command is audited; a firewall rule listed as active is in force.
* status file and lock: one monitor at a time; a status shown as live is of a run that is there; a stop has the last word
  on its run, unless its status writer outlived it.
* baseline: what was there and could be read at the capture is not called new later.
* collectors and file identity: what is cached of a process or a file is its own, and final.

## 2. Modules

| module | models | state and actions |
|---|---|---|
| `EventBus` | `core/event_bus.py` | the fields of the class under their names; one action per critical section; `loop`/`at` are the local variables of `_dispatch`, so a handler call is a step others interleave with. `delivered`, `taken`, `since`, `takenAtStop` and `refused` are history. |
| `OrderedFeed` | the promise to one subscriber | abstract: an ordered feed that loses items only to a full queue; `Feed(h)` and `FeedSpec` of `EventBus` are the mapping |
| `Enrichment` | the path from a new process and its socket to a judgement: `monitors/process_monitor.py`, `core/state.py`, `core/engine.py`, `core/enrichment.py`, `detection/rules/base.py`, `network.py` | program counters `pm`, `nm`, `worker`, `hand`/`owns` of the four threads; the table as three sets; the bus as a bounded queue with one consumer, which `EventBus` is shown to be; every reading of the processes yields the executables of the `Readable` ones, and of the `Elusive` ones or not; `named` are those the table has one of, `overlooked` those that had none when one was asked for (history) |
| `Writer` | `storage/writer.py` | queue, batch, database; what was evicted, rolled back or ignored is history |
| `Shutdown` | `EventBus` and `Writer` composed as `core/engine.py` starts and stops them | `engine` is where start()/stop() is; `late` collects the joins that timed out |
| `ProcessTable` | `core/state.py`, the polls and the on-demand lookup of `core/engine.py`, `attribute` and `select_parent` of `correlation/*.py` | the table under its two writers `pm` and `nm`, and the machine they look at (`pidOf`, `parent`, `alive`); instances are numbered by birth, which is also the clock |
| `Detection` | `detection/engine.py`, `utils/lru.py`, `detection/alerting.py`, the detections and alerts of `storage/repositories.py` | one action per verdict of a rule, with the de-duplication cache, the alert manager and the writer's queue it changes; the two tables; statuses set from outside, retention and restarts; `reported` and `since` are history |
| `Scheduler` | `core/scheduler.py` | per task `pc`, `started`, `overdue`, `health`; the watchdog's and stop()'s positions; `report` is the callback a thread is about to make |
| `Rules` | `detection/rules/*.py`, `paths.py`, `catalog.py`, `scoring.py` | every rule and the score as operators over what is known of a process, socket, entry or file |
| `Judging` | the rules' state, `detection/engine.py`, `detection/allowlist.py` | one process that appears, is enriched, opens sockets; `parked`, `talked`, `history` are the rules' memory, `found` what was said |
| `Sightings` | `monitors/network_monitor.py`, `persistence_monitor.py`, their collectors and tables, `detection/baseline.py` | what is there, the last `reading` of each monitor with its failed sources, what it holds, the rows; a baseline with the items of the processes' executables (each process may be unreadable by itself), listening sockets and autostart entries (`ItemOf`: many may be one item) |
| `Collector` | `collectors/process_collector.py`, `utils/ntapi.py`, `utils/windows.py` | enumeration, entries to build, the fallback by PID, the cache, against processes that begin, grow and end |
| `Files` | `ProcessEnricher`, `security/hashing.py`, `security/signatures.py` | `key` is the fingerprint taken, `handle` the open file, `read` its chunks; the path and the file change at any step |
| `Instances` | `core/status_file.py`, the status writer of `core/engine.py`, `db cleanup` | several runs with the lock and the file; each with its status writer (`writer`: a turn, a status composed and not yet in place), which a stop may leave behind (`late`); crashes, PID reuse, staleness |
| `Response` | `response/*.py`, the commands and the audit recorder of `cli.py`, the audit log and firewall table | `request` is what each of three threads (command, dashboard, background trim) is doing and at which phase |
| `Dashboard` | `ui/dashboard.py`, `ui/keyreader.py` (extends `Response`) | list, selection, pause, key queue, dialog open and dialog drawn |
| `Schema` | `storage/database.py`, `storage/migrations.py` | several connections that read the version and execute the statements one by one |
| `Forest` | `correlation/process_tree.py`, the ancestors of `process_network.py` | `snapshot` is what was collected, `shown` the nodes in the order they are shown; each call of `build` is a step, the chains of ancestors are functions |
| `PeripheryMC` | the parts from `Judging` to `Forest` in one specification | `topic` is the part a behaviour follows |
| `EventBusProofs`, `EnrichmentProofs`, `ShutdownProofs`, `ProcessTableProofs`, `DetectionProofs`, `SchedulerProofs`, `DashboardProofs`, `PeripheryProofs` | | inductive invariants and theorems; the last is about `Schema`, `Instances`, `Collector`, `Files`, `Sightings`, `Judging` and `Forest` |

An MC module beside each of the others gives the constants their values. Operators marked "Fault" are single-definition
mutations used to test that the properties can fail; no specification uses them.

`Enrichment` abstracts: every socket is a candidate of the rule and each process instance is its own key
(PID reuse is not represented there); events no modelled handler reads only take room. `ProcessTable` follows one socket at a time, takes
create times as known (a process whose creation time Windows refuses is not in it) and leaves the retention's length
open: any exited entry that was there before may expire at a snapshot. `Detection` takes the score as a set of sets of findings,
and ages as any choice retention may make (that scores do not fall with the program's own rules is `ScoreNeverFalls`); an
item of the writer is stored or lost on its own, batches are `Writer`'s. `Scheduler` abstracts time
to "the latest run is past its timeout".

The parts of `PeripheryMC` share no state, except that the commands and the dashboard act on the same machine; so a
behaviour follows one of them, and `DashboardProofs` proves about those two interleaved, `PeripheryProofs` about each of the others. Their abstractions:
names, places and command lines are what the rules' patterns tell apart (`Rules`); a change of a
file gives it a size or time it never had (`Files`, since both caches are keyed by these); Windows has given a
process its command line by the time the collector no longer counts it as fresh, two seconds (`Collector`); a
status is fresh or stale (`Instances`); a snapshot has each PID once, as Windows lists them (`Forest`); the dashboard's machine stops once the program has closed, which bounds it.

## 3. Runs

| run | specification and bounds | shows |
|---|---|---|
| `event_bus` | 2 handlers, one filtered, 2 types, capacity 2, 4 publishes | counting, newest window, order, isolation, the meaning of stop()'s result, liveness, refinement of `OrderedFeed` for each handler |
| `bus_stop_claim` | same | violated: "every queued event was dispatched" with the last one still in a handler |
| `enrichment` | 2 processes (one may start late and exit, and a reading may lack its executable), 2 sockets, bus of 2, every other queue 1 | no stranded connection, judged only with the signature stored, parked is released |
| `shutdown` | 2 handlers, bus of 1, 4 publishes, writer queue 2, batches of 2 | durable prefix, one fate per event, complete storage in an orderly stop, coming to rest |
| `scheduler` | a task that may hang and one that may not, UNAVAILABLE after 2, exponent bound 2 | health records under races, transitions, stop(), visible and healing timeouts |
| `scheduler_retry_claim` | same | violated: a failing task is tried again for ever |
| `process_table` | 3 processes on 2 PIDs, 1 tolerance | indexes agree, who can displace a running process and that it comes back, owner and creator found across reuse, nothing attached leaks |
| `attribution_claim` | same | violated: a socket's owner is the latest holder of its PID created before it |
| `detection` | 2 rules (one may raise), 3 findings on 2 subjects, cache of 2, 1 subject in memory, disabled after 2, 3 reports | disabling, de-duplication, up-to-date alerts across memory, queue and database, evidence kept through retention |
| `evidence_claim` | same | violated: what a stored alert lists is retained |
| `periphery` | 3 processes on 2 PIDs, one protected, 2 requests, 1 key waiting; 2 monitors; every program against 2 sockets; 3 sockets and 2 autostart entries of 2 versions; baselines of 2 processes with one executable, a listening socket and the 2 entries; 3 subjects on one PID; 3 contents in 2 chunks; 3 connections, 3 statements; trees of 4 PIDs and 3 times, depth 2 | the twelve properties below |
| `migration_claim` | same | violated: a migration is applied wholly or not at all |

`periphery` checks, a part at a time: `OnlyConfirmedIsHit`, `ActedIsAudited`, `ListedIsInForce` (commands and dashboard: who
is hit, what is recorded, what the firewall table may claim); `StatusIsTrue` (one monitor, no crashed run shown as
live, nobody but a writer left behind replaces a stop's status or that of the run that runs); `FiredIsJustified` (what is said on partial knowledge would be said on all of it; rules that
trust signed programs waited for the signature) and `ScoreNeverFalls`; `NewIsNew` and `RowsFollowReports` (what is called
new was not there before or could not be read, by a monitor or by a comparison with a baseline, and the tables show what the
monitor last saw); `CachedDetailsAreTrue`;
`CachedIdentityIsTrue`; `SchemaIsWhole`; `EveryProcessIsShown` (the tree of any snapshot, cycles and unknown times included).
`EngineRemembersRight` in `detection` is both halves of the engine's memory: a rule is disabled exactly after its
failures in a row, and a finding is a duplicate exactly until the cache's capacity of others was met since.
`AlertIsUpToDate` also says that an alert a person closed is not reopened by what was already in the writer's queue.

Why the bounds are enough: every queue overflows, is empty and is partly full within them; two
handlers, sockets or tasks are what an interleaving property needs; every publish can be refused,
evicted, in flight or delivered. `MaxEvents` bounds publish() calls and is the only bound of the
bus. In `Scheduler` the exponent bound 2 stands for 1023: the count of failures matters only against 0,
`UnavailableAfter` and that bound, so a small value keeps every case. `Mortal` bounds which process may exit.
In `ProcessTable` three births on two PIDs give a PID an earlier, a present and a later holder with
another process between them, which is all the comparisons can tell apart; `MayHold`, `Mortal`, `Children` and
`Busy` say which of the three get which PID, may exit, have a creator of interest, and are enriched.
In `Detection`
three findings overflow the cache and two subjects the alert manager; with three reports an alert is raised, updated,
forgotten and raised anew. Statuses are two because the others are treated alike.
In `periphery` a third process takes the PID of one that was checked; a second monitor starts after a crash or a
stop of the first, whose writer may still be there; the third content is a file without a signature and the second one with a catalog's; four
PIDs make a chain longer than the depth cap, and cycles: the tree of every snapshot of one to four of them is built.
Deadlock is checked in `enrichment`, `process_table` and `detection`, which never come to an end; the other systems may stop (in `periphery`: a program that closed, a tree that was built), and their
configurations say so.

Fairness: a thread of the program is scheduled (weak fairness of each thread's actions); a
handler, the enricher and a non-hanging collector return; `join(timeout)` comes back. Nothing
obliges anyone to publish, a process to start or exit, the clock to pass a timeout, or the engine to stop.
In `ProcessTable` only the process monitor's polls are fair, the rest need not happen.
A hanging task has fairness for its thread but not for its return.
The parts of `PeripheryMC` have safety properties only: a person or the machine need not do anything.

## 4. Findings

* `EventBus.stop` returns `not self._queue`, documented as "every queued event was dispatched". If
  the join times out during the last dispatch the queue is empty and the report is `True`, which is about that flag: the daemon thread may still finish the dispatch
  (`cmd_monitor` prints "clean shutdown"). `CleanStop` states what the result does mean.
* `TaskRunner._backoff` multiplies before it takes the minimum, so 1024 consecutive failures
  raise `OverflowError` in `_record_failure`; the task's thread ends, its health stays as it was and
  nothing is published.
* `Engine._lookup` resolves a PID on demand only if the table shows no holder. If the holder it shows has
  exited since the last snapshot and the PID is in use again, the new process's socket is attributed to the dead one,
  until the next snapshot; the documentation of `process_network.py` says this cannot be. `OwnerFoundIfHeld` states
  what does hold: a socket is never given to another instance than its owner (up to the tolerance) if the table has the owner.
* `cmd_monitor` subscribes the alert manager before the writer, so the alert reaches the database before the detection that raised
  it. The alert's `UPDATE detections SET alert_id` finds no row, the row comes with `alert_id` NULL, and
  retention deletes it as unlinked, although the alert lists it. `EvidenceIsKept` states what holds: all but the last one listed.
* `apply_migrations` runs in `with connection:`, but sqlite3 opens a transaction before INSERT, not before CREATE: the statements
  commit one by one, and a first migration that is broken off leaves a database that cannot be opened
  any more. `SchemaIsWhole` states what holds: nobody uses a database without all its tables.

Disagreements met while modelling that no run is about (the models do what the code does):

* `upsert_alert` keeps RESOLVED and IGNORED only: an alert set to ACKNOWLEDGED or INVESTIGATING is NEW again after its next
  update, though "User-set statuses are respected" (`detection/alerting.py:5`). `AlertIsUpToDate` has what holds.
* Allowlist entries by hash or signer do not suppress the rules that judge a process as it appears, before either
  is known (`detection/allowlist.py:82`), though an entry without a rule "suppresses every rule for that program".
* The audit recorder (`cli.py:895`) catches `OSError` and `ThreatLensError`, not `sqlite3.Error`: an action may be done and not
  recorded. An interrupt at the prompt, and a trim still running 30 s after the
  dashboard closes are not recorded either. `ActedIsAudited` excepts them by name.
* SECURITY.md promises a row for every outcome, cancelled ones included; a firewall command that is declined returns without one
  (`cli.py:1051-1053`, `1066-1068`). `ActedIsAudited` excepts exactly that.
* A process whose path cannot be read when it is first seen is overlooked: its `PROCESS_STARTED` or `PROCESS_DISCOVERED` has no `exe`,
  `on_event` (`enrichment.py:82`) requests nothing, and no later event names it. The collector may read the path at a
  later snapshot (`process_collector.py:417`); then `enrichment_pending` (`rules/base.py:54`) holds, the network rules park its sockets,
  and they stay parked until they are displaced. The same happens if the table has no path when the worker takes the
  key (`enrichment.py:156`). `NoStrandedFacts` and `ParkedIsReleased` except exactly those processes (`overlooked`).
* `Engine.stop` waits for the status writer for its share of the time only (`engine.py:263`), writes STOPPED (`270-272`), and `cmd_monitor`
  leaves the lock's block (`cli.py:600`). A writer that composed RUNNING before that and is stuck can still put it in place, over its own run's STOPPED
  or over the status of a run that has started since; and one that composes later writes its STOPPED over the status of a run that is at work.
  `StatusIsTrue` excepts those runs (`late`) and shows that no others do it.
* Keys typed ahead can confirm a dialog that was never drawn, of a process the selection moved to by itself.
* `db cleanup` checks that no monitor runs, then deletes: a monitor may start in between, and one that has started
  but not written its status yet is not seen.
* A status is believed for a run whose own key was not known and whose PID is in use again, while it is fresh.
* Sockets are reported again after a table could not be read once (contrary to the rationale of NET-003), and their rows stay
  closed; autostart rows of entries removed while no monitor ran stay in force; a changed entry's row keeps
  its former executable, arguments and state.
* NET-002 and NET-003 also speak of trusted and signed programs, contrary to the head of `network.py`.
* A baseline does not keep which sources were unavailable at its capture, nor which processes had no readable executable (`baseline.py:55`
  passes them over): a program or a port that was there all along is then called new. `NewIsNew` says it happens to
  nothing else.
* A signature's verdict is kept under a fingerprint taken before the file was opened, and a verdict from a failed call is kept for good.
* `PROCESS_STARTED` may carry details of another process if the PID was reused between enumeration and opening.
  Command lines that come late are not judged again.

## 5. Proofs

`EventBusProofs` proves for all handlers, types, filters, capacities and bounds:

| theorem | property |
|---|---|
| `TypeCorrect` | `TypeOK` |
| `AccountingAlways` | `Accounting` |
| `QueueAlwaysNewestWindow` | `QueueIsNewestWindow` |
| `InOrderAlways` | `InOrder` |
| `ServedAlways` | `Served` |
| `StopIsClean` | `CleanStop` |
| `BusFeedsEveryHandler`, `ImplementsFeed` | `FeedSpec`: the bus implements `OrderedFeed` for each handler |

The only assumption is `BusAssumption`. None of the safety properties is inductive. `Inductive` proves `IInv`,
which adds, in named parts: `Control`, how the owner's position, the stopping flag and
the thread agree (an ended thread has left an empty queue, a drained report stays true);
`TakenInv`, what was popped is in increasing order, older than everything queued, and ends with
the event in hand; `LoopInv`, a handler is at one position of the loop and stays subscribed; `DeliveredInv`, a handler the
loop has not reached has seen only older events; `ServedInv`, the handlers the loop has passed have the
event in hand and the loop misses nobody who subscribed before the pop. A step of an action
moves an event from one of these places to the next, so none of the parts can be left out.

The refinement is a theorem about steps (`StepFeeds`): what a handler is owed is a set of ids, those in the queue that it wants
and the one in hand until the loop has passed it. publish() is `Accept`, and costs it at most the head of a full queue
(`PublishFeeds`); a pop is `Take`, and moves the oldest id from the queue to the hand, or loses it if the handler was
not subscribed; a call is `Hand` for the handler called and nothing for the others, which needs `LoopInv` (it is called
once), `TakenInv` (what is in hand is older than what is queued) and `DeliveredInv` (a new id is newer than all delivered).
`FeedSpec` says of all handlers at once, in the form TLC can check, what `ImplementsFeed` says of each.

`ShutdownProofs` proves for all handlers, capacities, batch sizes and failures of the database, from `BusAssumption`
and `ShutdownAssumption` (the writer subscribes without a filter), about `EventBus` and `Writer` composed by the engine:

| theorem | property |
|---|---|
| `PipelineInductive` | the inductive invariant |
| `DatabaseIsAlwaysThePast` | `DurablePrefix` |
| `EveryEventAlwaysHasOneFate` | `EveryEventHasOneFate` |
| `OrderlyShutdownAlwaysStoresAll` | `OrderlyShutdownStoresAll` |

Every step of the composition is a step of the bus or leaves it alone, so the bus's `IInv` holds here as well and
is used as a lemma. `PipelineInv` adds `WriterTypeOK`; `HandedInv`, the writer met exactly what the bus delivered to its
subscription; `LineInv`, database, batch and writer queue are one increasing line; `ApartInv`, what the writer lost it lost in one way
and does not also keep; `StageInv`, what the engine's position says of the bus, the writer's thread and the joins
that were late (the writer hears of every event, since it subscribes before the first one; what it ignores, a late bus gave it).
One fate is then a count: the ids popped and queued are as many as `Accounting` says, and each is in one place.

`EnrichmentProofs` proves for all processes, sockets, owners and capacities, from `EnrichmentAssumption`:

| theorem | property |
|---|---|
| `TypeCorrect` | `TypeOK` |
| `Inductive` | the inductive invariant |
| `QueuesAlwaysAgree` | `QueuesAgree` |
| `NoFactsStranded` | `NoStrandedFacts` |
| `AlwaysJudgedWithSignature` | `JudgedWithSignature` |

`QueueInv`: the two queues hold what is pending, once and within the capacity; `ControlInv`: what each of the four
threads has in hand at its position; `SnapshotInv`: a running process that was ever seen is in the last snapshot, and what that has is in
the table or about to be announced; `ParkedInv`: facts are parked once, within the bounds; `AwaitedInv`: the enrichment of whoever
is in the table with an executable and without a result is ahead: at the next poll, in the monitor's outbox, on the bus, in a queue or in the worker's hand, unless it was
dropped or the process overlooked; `WaitingInv`: for whom facts wait, or are about to, the enrichment is ahead or its result is on its way; `ResultInv`: what is
announced is stored. Every hand-over takes the process from one of these places to the next; each drop excuses it.

`DetectionProofs` proves for all rules, findings, scores, capacities and numbers of reports, from `DetectionAssumption`:

| theorem | property |
|---|---|
| `TypeCorrect` | `TypeOK` |
| `Inductive` | the inductive invariant |
| `EngineAlwaysRemembersRight` | `EngineRemembersRight` |
| `AlertAlwaysUpToDate` | `AlertIsUpToDate` |
| `EvidenceAlwaysKept` | `EvidenceIsKept` |

`CountInv`: a rule's failures are the failed verdicts at the end of its history; `SeenInv`: since a finding the cache holds was met, exactly
those behind it were met, and since one it does not hold, all it holds, as many as it may hold. `PathInv` is the way
from memory through the writer's queue to the tables: `BoundInv`, only what was reported or raised is anywhere; `OwnInv`, a detection has one
subject and at most one alert, its subject's; `UpdateInv`, the last of an alert in the queue, or else its row, is what memory holds, unless
that was lost; `ChosenInv`, what a person closed is closed in its row, and where retention took that row neither queue nor memory has the alert any more;
`KeptInv`, no retention comes between a detection's row and the alert that links it; `EvidenceInv`, a detection that is not the
last of an alert's was in the queue before the alert.

`PeripheryProofs` proves about seven parts, each under its own specification (`SchemaSpec`, `InstancesSpec`, ...):

| theorem | property | the invariant adds |
|---|---|---|
| `SchemaAlwaysWhole` | `SchemaIsWhole` | `Progress`: who is past the first statement has executed all there are |
| `StatusAlwaysTrue` | `StatusIsTrue` | `Exclusive`: a run inside the block holds the lock; `OneLife`: its stop writes once, its PID is another's only after it; `WritersInside`: a status writer is at work only while its run is, or if a stop left it behind; `LastWord`: nobody else has written since |
| `CachedDetailsAlwaysTrue` | `CachedDetailsAreTrue` | `OneHolder`: a PID has one running holder; `EntryInv`: what was read through the handle of a running process is its own |
| `CachedIdentityAlwaysTrue` | `CachedIdentityIsTrue` | `HashInv`: a content the open file has lost does not come back, so an unchanged fingerprint vouches for every chunk; `SignatureInv`: unless something moved, the file verified is the one of the fingerprint |
| `RowsAlwaysFollowReports` | `RowsFollowReports` | `ReportInv`: the last event that waits about a thing says what its monitor holds (`QueueAgrees`), and a thing about which none waits has the row that says it (`RowsAgree`); proved as `SightingsInductive` |
| `NewIsAlwaysNew` | `NewIsNew`, of steps | `ReadingInv`: a snapshot has all that was there and could be read, a baseline the items of it |
| `FiredIsAlwaysJustified` | `FiredIsJustified` | `PartOf`: what is known of the program is true of it, and grows; a rule that fires on a part fires on the whole (a lemma for each rule) |
| `ScoreNeverDrops` | `ScoreNeverFalls`, of steps | `GradedInv`: every finding has a score, confidence and category its rule gives (`GradesOf`) |
| `EveryProcessAlwaysShown` | `EveryProcessIsShown` | `IsForest`: nobody is shown twice, and whoever is shown is below its verified parent, or at the top without one or with ancestors that never end (`Endless`); it is as deep as the level it is on |

`SightingsSpec` interleaves all monitors and the baseline, of which `periphery` follows one at a time. Their assumptions are
the `...Assumption` of the module (`Collector` needs none). `SightingsAssumption` keeps the monitors' sockets and autostart entries apart, has sockets in socket tables, and keeps
the marker for "nothing" apart from what is stored; `RulesAssumption` says that "unknown" is none of the values the rules look for;
`JudgingAssumption` is the type of the programs.

The score (`ScoreGrows`): the gravest finding of a rule takes a share of the points that remain, and a further finding only adds to
the shares (`EffectiveGrows`, `RemainingShrinks`); categories, and with them the bonus, only become more, and the caps only fall
away. For the cap on LOW findings this needs that a graver finding of a rule is not less confident, which is read off the rules' grades.

The tree: a chain of verified ancestors grows by at most one a link and repeats nobody (`ChainGrows`), so it stops within as many
links as there are processes (`ChainIsShort`); counting levels down from the processes without a parent meets the same ones
(`LevelOfChain`, `AncestryReachesRoot`). Once no call of `build` is left, every level within the depth is shown (`LevelsAreReached`);
who is on a deeper one is `BeyondDepth` (`DeepIsBeyond`), and who has endless ancestors is not (`BeyondIsNotEndless`), so the
last loop shows it.

Both are computed by functions recursive over numbers. The library's induction theorems take an operator for an argument, which these
provers cannot instantiate, so `LeastNumber`, `AllNumbers` and `Recursion` state induction of sets of numbers, from the
well-foundedness of `<`.

Model-checked only (every invariant and action property of the passing runs is stated by a theorem):

* Liveness, which no installed prover reaches: `EventuallySettled`, `ParkedIsReleased`, `RunningIsRecognised`, `NothingLeaks`,
  `OverdueIsFlagged`, `TimedOutHeals`, `ComesToRest`.

## 6. Plan

The order in which the project was built: the bus, the enrichment path, writer and shutdown, scheduler, process table, detection;
then response and dashboard, instances, rules and judging, sightings, collector, files, schema, tree; then the
theorems, in about the same order, with the bus's refinement last. What is left, most useful first:

1. The file monitor's debouncing by path, and the recent-event history with its window.
2. The safety half of the liveness arguments as theorems: that whatever still has to happen has a thread whose next step is enabled.

## 7. Not modelled

* Configuration and logging: parsing and validation of static data; the limits it sets are constants of the modules.
* Rendering, layout, the formatting of the event stream, export formats, redaction of command lines: text, without state.
* The file monitor's watchdog callbacks and debouncing: a third-party library's threads; what the rules make of a file is in `Judging`.
* Two commands at work at once (a command and the dashboard are): two firewall commands may each do half of what the other undoes.
* A file whose own signature does not match it (INVALID) is not among the contents of `Files`; what the rules make of that verdict is in `Rules`.
* The order in which two threads' transitions of one component are published: the code promises none, and `EveryTransitionReported` is about
  their number.
* CPU sampling in the process collector: figures for display, which no rule reads.
* Privilege queries, the ctypes declarations and the parsing of buffers: no state of the program; what the calls may answer is in
  `Collector`, `Sightings` and `Response`.
* The SQL text and queries for display: what the statements do to the rows is modelled, their wording is not.
* The walk that finds the program's own processes at start-up: an excluded process is a verdict that finds nothing.
* The recent-event history of the process table, which no rule reads.
