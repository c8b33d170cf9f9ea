------------------------------ MODULE EventBus ------------------------------
(***************************************************************************)
(* The bounded event bus of core/event_bus.py: any thread publishes under  *)
(* the condition's lock, one dispatcher pops events and calls every        *)
(* interested handler outside the lock, and the owner (the engine's        *)
(* thread) subscribes, starts, pumps and stops the bus.                    *)
(*                                                                         *)
(* Every critical section of the code is one action.  The dispatcher is    *)
(* the background thread after start(), and the owner itself inside        *)
(* dispatch_pending() or inside a stop() without a thread; the owner pumps *)
(* only while no thread runs, which is how engine.py uses the method.      *)
(*                                                                         *)
(* Events are identified by their position in publish order, the payload   *)
(* is its type only.  _accepting and _stopping are written together, once, *)
(* by stop(): `stopping' stands for both (_accepting = ~stopping).         *)
(***************************************************************************)
EXTENDS Naturals, Sequences

CONSTANTS
  Handlers,   \* subscription objects
  Types,      \* event types
  Wants,      \* the event-type filter of each subscription
  Capacity,   \* capacity of the queue
  MaxEvents,  \* bound on publish() calls
  NoEvent     \* "nothing in hand"

ASSUME BusAssumption ==
  /\ Capacity \in Nat \ {0}
  /\ MaxEvents \in Nat
  /\ Wants \in [Handlers -> SUBSET Types]
  /\ NoEvent \notin [id : Nat, type : Types]

VARIABLES
  queue,          \* _queue
  subs,           \* _subscriptions, replaced as a whole (copy on write)
  stopping,       \* _stopping, and not _accepting
  thread,         \* _thread: "none" | "running" | "done"
  owner,          \* where the owning thread is
  inflight,       \* the popped event being dispatched, or NoEvent
  loop,           \* the subscriptions tuple the dispatch loop iterates over
  at,             \* next position in loop
  published, dispatched, dropped, handlerErrors,  \* the counters of stats()
  drained,        \* what stop() returned
  refused,        \* history: publish() calls that returned False
  taken,          \* history: the events popped for dispatch, in order
  takenAtStop,    \* history: how many had been popped when stop() was called
  since,          \* history: events already popped when a handler subscribed
  delivered       \* history: the event ids each handler was called with

stats == <<published, dispatched, dropped, handlerErrors>>
dispatching == <<inflight, loop, at>>
history == <<refused, taken, takenAtStop, since, delivered>>
vars == <<queue, subs, stopping, thread, owner, inflight, loop, at,
          published, dispatched, dropped, handlerErrors, drained,
          refused, taken, takenAtStop, since, delivered>>

Event == [id : Nat, type : Types]
Subscribed(h) == \E i \in 1..Len(subs) : subs[i] = h

TypeOK ==
  /\ queue \in Seq(Event)
  /\ subs \in Seq(Handlers)
  /\ stopping \in BOOLEAN
  /\ thread \in {"none", "running", "done"}
  /\ owner \in {"idle", "pumping", "draining", "joining", "stopped"}
  /\ inflight \in Event \cup {NoEvent}
  /\ loop \in Seq(Handlers)
  /\ at \in 1..(Len(loop) + 1)
  /\ published \in Nat /\ dispatched \in Nat
  /\ dropped \in Nat /\ handlerErrors \in Nat
  /\ drained \in BOOLEAN
  /\ refused \in Nat
  /\ taken \in Seq(Event) /\ takenAtStop \in Nat
  /\ since \in [Handlers -> Nat]
  /\ delivered \in [Handlers -> Seq(Nat)]

Init ==
  /\ queue = <<>> /\ subs = <<>>
  /\ stopping = FALSE /\ thread = "none" /\ owner = "idle"
  /\ inflight = NoEvent /\ loop = <<>> /\ at = 1
  /\ published = 0 /\ dispatched = 0 /\ dropped = 0 /\ handlerErrors = 0
  /\ drained = FALSE
  /\ refused = 0 /\ taken = <<>> /\ takenAtStop = 0
  /\ since = [h \in Handlers |-> 0]
  /\ delivered = [h \in Handlers |-> <<>>]

(***************************************************************************)
(* Publishers                                                              *)
(***************************************************************************)

\* Bound: at most MaxEvents calls of publish().
MayPublish == published + refused < MaxEvents

Full == Len(queue) >= Capacity

\* Faults for the sensitivity checks: the capacity is off by one; an overflow is
\* not counted.
OverfullRoom == IF Len(queue) > Capacity THEN Tail(queue) ELSE queue
UncountedDrop == dropped

\* publish(): the queue with room made by popping the oldest event.
WithRoom == IF Full THEN Tail(queue) ELSE queue

DroppedNow == IF Full THEN dropped + 1 ELSE dropped

Publish(t) ==
  /\ MayPublish
  /\ ~stopping
  /\ queue' = Append(WithRoom, [id |-> published + 1, type |-> t])
  /\ published' = published + 1
  /\ dropped' = DroppedNow
  /\ UNCHANGED <<subs, stopping, thread, owner, dispatching, dispatched,
                 handlerErrors, drained, history>>

PublishRefused ==
  /\ MayPublish
  /\ stopping
  /\ dropped' = dropped + 1
  /\ refused' = refused + 1
  /\ UNCHANGED <<queue, subs, stopping, thread, owner, dispatching, published,
                 dispatched, handlerErrors, drained, taken, takenAtStop, since,
                 delivered>>

(***************************************************************************)
(* The owner                                                               *)
(***************************************************************************)

Subscribe(h) ==
  /\ owner = "idle"
  /\ ~Subscribed(h)
  /\ subs' = Append(subs, h)
  /\ since' = [since EXCEPT ![h] = Len(taken)]
  /\ UNCHANGED <<queue, stopping, thread, owner, dispatching, stats, drained,
                 refused, taken, takenAtStop, delivered>>

Start ==
  /\ owner \in {"idle", "stopped"}
  /\ thread = "none"
  /\ thread' = "running"
  /\ UNCHANGED <<queue, subs, stopping, owner, dispatching, stats, drained, history>>

DispatchPending ==
  /\ owner = "idle" /\ thread = "none"
  /\ owner' = "pumping"
  /\ UNCHANGED <<queue, subs, stopping, thread, dispatching, stats, drained, history>>

\* dispatch_pending returns with the queue empty, or after max_events events.
PendingDone ==
  /\ owner = "pumping" /\ inflight = NoEvent
  /\ owner' = "idle"
  /\ UNCHANGED <<queue, subs, stopping, thread, dispatching, stats, drained, history>>

Stop ==
  /\ owner = "idle"
  /\ stopping' = TRUE
  /\ owner' = IF thread = "none" THEN "draining" ELSE "joining"
  /\ takenAtStop' = Len(taken)
  /\ UNCHANGED <<queue, subs, thread, dispatching, stats, drained, refused,
                 taken, since, delivered>>

\* join(timeout) came back: the thread ended, or the timeout passed at any
\* point of its work.  Without a thread, dispatch_pending ran to its end.
Joined == owner = "joining"
Pumped == owner = "draining" /\ inflight = NoEvent /\ queue = <<>>

StopReturns ==
  /\ Joined \/ Pumped
  /\ owner' = "stopped"
  /\ drained' = (queue = <<>>)
  /\ UNCHANGED <<queue, subs, stopping, thread, dispatching, stats, history>>

(***************************************************************************)
(* The dispatcher                                                          *)
(***************************************************************************)

\* Fault: the event stays queued when it is popped.
NotPopped == queue

\* The queue once its head is popped.
Popped == Tail(queue)

\* Fault: the dispatcher hands out the newest event first.
LastIn == queue[Len(queue)]

\* The event a pop returns.
Oldest == Head(queue)

Dispatching == thread = "running" \/ owner \in {"pumping", "draining"}

Take ==
  /\ Dispatching
  /\ inflight = NoEvent
  /\ queue # <<>>
  /\ inflight' = Oldest
  /\ queue' = Popped
  /\ loop' = subs
  /\ at' = 1
  /\ taken' = Append(taken, Oldest)
  /\ UNCHANGED <<subs, stopping, thread, owner, stats, drained,
                 refused, takenAtStop, since, delivered>>

\* The loop of _dispatch skips a subscription whose filter excludes the type.
Skip ==
  /\ inflight # NoEvent
  /\ at <= Len(loop)
  /\ inflight.type \notin Wants[loop[at]]
  /\ at' = at + 1
  /\ UNCHANGED <<queue, subs, stopping, thread, owner, inflight, loop, stats,
                 drained, history>>

\* Fault: an exception leaves the loop over the subscriptions.
RaiseEndsLoop(raises) == IF raises THEN Len(loop) + 1 ELSE at + 1

\* Where the loop goes on after a handler that raised, or did not: an exception
\* is caught around the single call.
AfterCall(raises) == at + 1

\* One handler call; it may raise, which is counted and goes no further.
Call(raises) ==
  /\ inflight # NoEvent
  /\ at <= Len(loop)
  /\ inflight.type \in Wants[loop[at]]
  /\ delivered' = [delivered EXCEPT ![loop[at]] = Append(@, inflight.id)]
  /\ handlerErrors' = IF raises THEN handlerErrors + 1 ELSE handlerErrors
  /\ at' = AfterCall(raises)
  /\ UNCHANGED <<queue, subs, stopping, thread, owner, inflight, loop, published,
                 dispatched, dropped, drained, refused, taken, takenAtStop, since>>

Finish ==
  /\ inflight # NoEvent
  /\ at > Len(loop)
  /\ inflight' = NoEvent
  /\ dispatched' = dispatched + 1
  /\ UNCHANGED <<queue, subs, stopping, thread, owner, loop, at, published,
                 dropped, handlerErrors, drained, history>>

\* Fault: _run leaves as soon as the bus is stopping.
ExitAtOnce == stopping

\* _run leaves its loop only when it is stopping and nothing is queued.
MayExit == stopping /\ queue = <<>>

ThreadExit ==
  /\ thread = "running"
  /\ inflight = NoEvent
  /\ MayExit
  /\ thread' = "done"
  /\ UNCHANGED <<queue, subs, stopping, owner, dispatching, stats, drained, history>>

Dispatcher == Take \/ Skip \/ (\E r \in BOOLEAN : Call(r)) \/ Finish \/ ThreadExit

Next ==
  \/ \E t \in Types : Publish(t)
  \/ PublishRefused
  \/ \E h \in Handlers : Subscribe(h)
  \/ Start
  \/ DispatchPending
  \/ PendingDone
  \/ Stop
  \/ StopReturns
  \/ Dispatcher

\* The dispatcher thread is scheduled and handlers return; stop()'s join has a
\* timeout, so it returns too.  Nothing obliges anyone to publish or to stop.
Fairness == WF_vars(Dispatcher) /\ WF_vars(StopReturns)

Spec == Init /\ [][Next]_vars
FairSpec == Spec /\ Fairness

-----------------------------------------------------------------------------
(***************************************************************************)
(* Properties                                                              *)
(***************************************************************************)

InFlight == IF inflight = NoEvent THEN 0 ELSE 1

\* Every publish() call is accounted for by exactly one counter or place that
\* stats() reports, or by the single event in the dispatcher's hand: the
\* counters never lose an event, whatever evicts, refuses or raises.
Accounting ==
  published + refused = dispatched + InFlight + Len(queue) + dropped

\* The queue is bounded and always holds the newest accepted events, without a
\* gap: an overflow costs the oldest queued event and no other.
QueueIsNewestWindow ==
  /\ Len(queue) <= Capacity
  /\ \A i \in 1..Len(queue) : queue[i].id + Len(queue) = published + i

\* A handler is called in publish order and at most once per event.
InOrder ==
  \A h \in Handlers : \A i, j \in 1..Len(delivered[h]) :
    i < j => delivered[h][i] < delivered[h][j]

Received(h, id) == \E i \in 1..Len(delivered[h]) : delivered[h][i] = id

\* Once an event's dispatch is over, every handler subscribed before it was
\* popped and interested in its type has been called with it, although the
\* handlers before it in the list may have raised (isolation of _dispatch).
Served ==
  \A h \in Handlers : \A k \in 1..(Len(taken) - InFlight) :
    /\ Subscribed(h)
    /\ since[h] < k
    /\ taken[k].type \in Wants[h]
    => Received(h, taken[k].id)

\* After stop() the report may be trusted as far as it goes: "drained" means the
\* queue is, and stays, empty; and when the dispatcher has ended, every event
\* ever accepted was dispatched or counted as dropped.
CleanStop ==
  owner = "stopped" =>
    /\ drained => queue = <<>>
    /\ thread # "running" =>
         /\ queue = <<>>
         /\ published + refused = dispatched + dropped

\* The claim of stop()'s docstring, "Returns True if every queued event was
\* dispatched before timeout": with drained = TRUE no event that was queued when
\* stop() was called is still being dispatched.
DrainedMeansDispatched ==
  owner = "stopped" /\ drained =>
    ~(inflight # NoEvent /\ Len(taken) > takenAtStop)

\* Once the dispatcher thread was started, an accepted event does not stay in the
\* queue or in hand for ever, whether the bus is stopped meanwhile or not.
Unsettled(id) ==
  /\ thread # "none"
  /\ \/ inflight # NoEvent /\ inflight.id = id
     \/ \E i \in 1..Len(queue) : queue[i].id = id
EventuallySettled ==
  \A id \in 1..MaxEvents : Unsettled(id) ~> ~Unsettled(id)

(***************************************************************************)
(* What each subscriber is promised: the refinement mapping to OrderedFeed *)
(***************************************************************************)
\* The events of a queue that handler h wants.
WantedIds(h, q) == {q[i].id : i \in {j \in 1..Len(q) : q[j].type \in Wants[h]}}

\* The event in hand, as long as the loop has not passed h.
InHand(h) ==
  IF /\ inflight # NoEvent
     /\ inflight.type \in Wants[h]
     /\ \E i \in at..Len(loop) : loop[i] = h
  THEN {inflight.id} ELSE {}

\* The events still owed to h.
Owed(h) == InHand(h) \cup WantedIds(h, queue)

Feed(h) == INSTANCE OrderedFeed WITH
  Items <- 1..MaxEvents, open <- ~stopping, attached <- Subscribed(h),
  load <- Len(queue), pending <- Owed(h), received <- delivered[h]

\* The bus implements the ordered feed for every handler, whatever its filter:
\* owed events are handed over in publish order, each once, and vanish only
\* through an overflow.
FeedSpec ==
  /\ \A h \in Handlers : Feed(h)!Init
  /\ [][\A h \in Handlers : [Feed(h)!Next]_(Feed(h)!vars)]_vars
=============================================================================
