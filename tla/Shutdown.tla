------------------------------ MODULE Shutdown ------------------------------
(***************************************************************************)
(* The storage pipeline of a running engine and the order in which it is   *)
(* started and stopped (core/engine.py): EventBus with the writer's        *)
(* on_event as a handler, and Writer behind it.  engine.stop() stops the   *)
(* producers, then the bus, which dispatches what is left into the         *)
(* writer's queue, then the writer, which drains and closes.  Every join   *)
(* has a timeout, and stop() goes on when it passed: a stuck producer, the *)
(* dispatcher and the writer may still be at work behind it.  They are     *)
(* daemon threads: the process exits under them.                           *)
(***************************************************************************)
EXTENDS EventBus, Writer, FiniteSets

CONSTANT Storage  \* the handler that is writer.on_event

\* The writer subscribes without a filter.
ASSUME ShutdownAssumption == Storage \in Handlers /\ Wants[Storage] = Types

VARIABLES
  engine,     \* where engine.start or engine.stop is
  late        \* the joins of stop() that came back at their timeout

busVars == vars
allVars == <<vars, writerVars, engine, late>>

Running == engine # "exited"

ShutdownInit == Init /\ WriterInit /\ engine = "subscribing" /\ late = {}

\* Engine.__init__ and cmd_monitor subscribe the handlers.
Subscribing(h) ==
  /\ engine = "subscribing"
  /\ Subscribe(h)
  /\ UNCHANGED <<writerVars, engine, late>>

\* engine.start(): the writer, then the bus.
StartingWriter ==
  /\ engine = "subscribing"
  /\ StartWriter
  /\ engine' = "starting"
  /\ UNCHANGED <<busVars, late>>

StartingBus ==
  /\ engine = "starting"
  /\ Start
  /\ engine' = "up"
  /\ UNCHANGED <<writerVars, late>>

\* The producers: monitors, the file observer and the enrichment worker; one that
\* is stuck may publish at any time later.
Producing ==
  /\ Running /\ engine # "subscribing" /\ engine # "starting"
  /\ (\E t \in Types : Publish(t)) \/ PublishRefused
  /\ UNCHANGED <<writerVars, engine, late>>

\* A handler call of the dispatcher; the storage handler enqueues and cannot raise.
Handling ==
  /\ Running
  /\ inflight # NoEvent /\ at <= Len(loop)
  /\ IF loop[at] = Storage THEN Call(FALSE) /\ Enqueue(inflight.id)
     ELSE (\E r \in BOOLEAN : Call(r)) /\ UNCHANGED writerVars
  /\ UNCHANGED <<engine, late>>

DispatchStep ==
  /\ Running
  /\ Take \/ Skip \/ Finish \/ ThreadExit
  /\ UNCHANGED <<writerVars, engine, late>>

Writing ==
  /\ Running
  /\ WriterThread
  /\ UNCHANGED <<busVars, engine, late>>

\* engine.stop(): bus.stop() ...; cmd_monitor calls it also when start() was
\* interrupted.
StoppingBus ==
  /\ engine \in {"subscribing", "starting", "up"}
  /\ Stop
  /\ engine' = "stopping bus"
  /\ UNCHANGED <<writerVars, late>>

BusStopped ==
  /\ engine = "stopping bus"
  /\ StopReturns
  /\ late' = IF thread = "running" THEN late \cup {"bus"} ELSE late
  /\ engine' = "bus stopped"
  /\ UNCHANGED writerVars

\* Fault: the writer is stopped without waiting for the bus.
NoWait == engine \in {"stopping bus", "bus stopped"}

\* bus.stop() has returned.
AfterBus == engine = "bus stopped"

\* ... then writer.stop().
StoppingWriter ==
  /\ AfterBus
  /\ StopWriter
  /\ engine' = "stopping writer"
  /\ UNCHANGED <<busVars, late>>

WriterStopped ==
  /\ engine = "stopping writer"
  /\ late' = IF writer \in {"opening", "running"} THEN late \cup {"writer"} ELSE late
  /\ engine' = "stopped"
  /\ UNCHANGED <<busVars, writerVars>>

\* The process exits after stop(), or crashes before.
ProcessEnds ==
  /\ Running
  /\ engine' = "exited"
  /\ UNCHANGED <<busVars, writerVars, late>>

ShutdownNext ==
  \/ \E h \in Handlers : Subscribing(h)
  \/ StartingWriter \/ StartingBus
  \/ Producing
  \/ Handling \/ DispatchStep
  \/ Writing
  \/ StoppingBus \/ BusStopped \/ StoppingWriter \/ WriterStopped
  \/ ProcessEnds

ShutdownSpec == ShutdownInit /\ [][ShutdownNext]_allVars

\* The dispatcher and the writer are scheduled; a join comes back.
ShutdownFairSpec ==
  /\ ShutdownSpec
  /\ WF_allVars(Handling \/ DispatchStep) /\ WF_allVars(Writing)
  /\ WF_allVars(BusStopped) /\ WF_allVars(StoppingWriter) /\ WF_allVars(WriterStopped)

-----------------------------------------------------------------------------
(***************************************************************************)
(* Properties                                                              *)
(***************************************************************************)
InBus == {queue[i].id : i \in 1..Len(queue)}
SetOf(s) == {s[i] : i \in 1..Len(s)}

\* The event whose storage call is still to come.
InDispatch ==
  IF inflight # NoEvent /\ \E i \in at..Len(loop) : loop[i] = Storage
  THEN {inflight.id} ELSE {}

Waiting == InBus \cup InDispatch \cup SetOf(items) \cup SetOf(batch)

\* The database grows in publish order, without duplicates, and a committed event
\* is older than everything still on its way: whenever the process dies, what
\* survives is the past of the stream and not a patchwork of it.
DurablePrefix ==
  /\ \A i, j \in 1..Len(database) : i < j => database[i] < database[j]
  /\ \A i \in 1..Len(database) : \A e \in Waiting : database[i] < e

\* No event leaves the pipeline unnoticed: one that was accepted is on its way, is
\* in the database, or met exactly one of the fates the code has for it.  The one fate
\* that no counter shows, to be ignored by a writer that was told to stop, meets an event
\* only if the dispatcher outlived its join.
Fates == <<Waiting, SetOf(database), evicted, failed, ignored>>
EveryEventHasOneFate ==
  Subscribed(Storage) =>
    /\ \A i, j \in 1..5 : i # j => Fates[i] \cap Fates[j] = {}
    /\ Cardinality(UNION {Fates[i] : i \in 1..5}) + dropped = published + refused
    /\ ignored # {} => "bus" \in late

\* A shutdown whose joins all came back in time lost no event that was buffered
\* when it began: everything the bus did not drop is in the database, unless the
\* writer's queue overflowed, a batch failed or the database could not be opened.
OrderlyShutdownStoresAll ==
  engine = "stopped" /\ late = {} /\ writer # "failed" /\ Subscribed(Storage) =>
    /\ Waiting = {} /\ ignored = {}
    /\ published + refused =
         Len(database) + dropped + Cardinality(evicted) + Cardinality(failed)

\* Once it was told to stop, the pipeline comes to rest, however late the joins
\* were, unless the process exits first: nothing waits for ever for a producer.
ComesToRest ==
  engine = "stopping bus" ~>
    \/ engine = "exited"
    \/ /\ queue = <<>> /\ inflight = NoEvent /\ thread # "running" /\ batch = <<>>
       /\ writer \in {"none", "ended", "failed"}
       /\ writer = "ended" => items = <<>>
=============================================================================
