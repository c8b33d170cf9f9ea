--------------------------- MODULE EventBusProofs ---------------------------
(***************************************************************************)
(* Proofs about EventBus for every set of handlers and types, every filter *)
(* and every capacity.                                                     *)
(***************************************************************************)
EXTENDS EventBus, SequenceTheorems, TLAPS

(***************************************************************************)
(* The inductive invariant, in named parts.                                *)
(***************************************************************************)

\* The owner and the thread agree about who dispatches.
Control ==
  /\ stopping <=> owner \in {"draining", "joining", "stopped"}
  /\ owner \in {"pumping", "draining"} => thread = "none"
  /\ owner = "joining" => thread # "none"
  /\ inflight # NoEvent => Dispatching
  /\ thread = "done" => stopping /\ queue = <<>>
  /\ owner = "stopped" /\ (thread = "none" \/ drained) => queue = <<>>

\* What was popped is older than what is queued, in order, and ends with the
\* event in hand.
TakenInv ==
  /\ Len(taken) = dispatched + InFlight
  /\ inflight # NoEvent => inflight = taken[Len(taken)]
  /\ \A i \in 1..Len(taken) : taken[i].id + Len(queue) <= published
  /\ \A i, j \in 1..Len(taken) : i < j => taken[i].id < taken[j].id

\* A handler is in the subscriptions once, so it is in the loop once, and it stays
\* subscribed.
LoopInv ==
  /\ \A i, j \in 1..Len(subs) : subs[i] = subs[j] => i = j
  /\ \A i, j \in 1..Len(loop) : loop[i] = loop[j] => i = j
  /\ \A i \in 1..Len(loop) : Subscribed(loop[i])

\* A handler the loop has not reached has seen only older events.
DeliveredInv ==
  /\ InOrder
  /\ \A h \in Handlers : \A i \in 1..Len(delivered[h]) :
       /\ delivered[h][i] + Len(queue) <= published
       /\ inflight # NoEvent =>
            \A k \in at..Len(loop) : loop[k] = h => delivered[h][i] < inflight.id

\* The handlers the loop has passed have the event in hand, and the loop misses
\* no handler that subscribed before the event was popped.
ServedInv ==
  /\ Served
  /\ \A h \in Handlers : since[h] <= Len(taken)
  /\ inflight # NoEvent =>
       /\ \A i \in 1..(at - 1) :
            inflight.type \in Wants[loop[i]] => Received(loop[i], inflight.id)
       /\ \A h \in Handlers :
            Subscribed(h) /\ since[h] < Len(taken) => \E i \in 1..Len(loop) : loop[i] = h

QueueInv == QueueIsNewestWindow /\ Accounting

\* Steps that move only the owner's and the thread's control state.
ControlStep ==
  Start \/ DispatchPending \/ PendingDone \/ Stop \/ StopReturns \/ ThreadExit

\* Popping the head shifts the window by one.
LEMMA Shift ==
  ASSUME NEW id \in Nat, NEW n \in Nat, NEW p \in Nat, NEW i \in Nat,
         id + n = p + (i + 1)
  PROVE  id + (n - 1) = p + i
  OBVIOUS

\* What is older than the window is older than its head, and than what is left of
\* the window without it.
LEMMA Older ==
  ASSUME NEW id \in Nat, NEW head \in Nat, NEW n \in Nat, NEW p \in Nat,
         id + n <= p, head + n = p + 1
  PROVE  id + (n - 1) <= p /\ id < head
  OBVIOUS

\* The case split of the invariance proofs.
LEMMA NextCases ==
  ASSUME [Next]_vars
  PROVE  \/ \E t \in Types : Publish(t)
         \/ PublishRefused
         \/ \E h \in Handlers : Subscribe(h)
         \/ ControlStep
         \/ Take \/ Skip \/ (\E r \in BOOLEAN : Call(r)) \/ Finish
         \/ UNCHANGED vars
  BY DEF Next, Dispatcher, ControlStep

(***************************************************************************)
(* Type correctness                                                        *)
(***************************************************************************)

\* The bus as the constructor leaves it is well typed.
LEMMA InitiallyTypeOK == Init => TypeOK
<1> SUFFICES ASSUME Init PROVE TypeOK
  OBVIOUS
<1> USE DEF Init
<1>1. queue \in Seq(Event) /\ taken \in Seq(Event)
  BY EmptySeq
<1>2. subs \in Seq(Handlers) /\ loop \in Seq(Handlers)
  BY EmptySeq
<1>3. at \in 1..(Len(loop) + 1)
  BY EmptySeq
<1>4. delivered \in [Handlers -> Seq(Nat)] /\ since \in [Handlers -> Nat]
  BY EmptySeq
<1>5. QED
  BY <1>1, <1>2, <1>3, <1>4 DEF TypeOK

\* Every step of the bus keeps the types.
LEMMA StepTyped ==
  ASSUME TypeOK, [Next]_vars
  PROVE  TypeOK'
<1> USE DEF TypeOK
<1>1. ASSUME NEW t \in Types, Publish(t) PROVE TypeOK'
  <2>1. [id |-> published + 1, type |-> t] \in Event
    BY DEF Event
  <2>2. WithRoom \in Seq(Event)
    <3>1. Full => queue # <<>>
      BY BusAssumption, EmptySeq DEF Full
    <3>2. QED
      BY <3>1, HeadTailProperties DEF WithRoom
  <2>3. queue' \in Seq(Event)
    BY <1>1, <2>1, <2>2, AppendProperties DEF Publish
  <2>4. dropped' \in Nat
    BY <1>1 DEF Publish, DroppedNow
  <2>5. QED
    BY <1>1, <2>3, <2>4 DEF Publish, dispatching, history
<1>2. CASE PublishRefused
  BY <1>2 DEF PublishRefused, dispatching
<1>3. ASSUME NEW h \in Handlers, Subscribe(h) PROVE TypeOK'
  <2>1. subs' \in Seq(Handlers)
    BY <1>3, AppendProperties DEF Subscribe
  <2>2. since' \in [Handlers -> Nat]
    BY <1>3, LenProperties DEF Subscribe
  <2>3. QED
    BY <1>3, <2>1, <2>2 DEF Subscribe, dispatching, stats
<1>4. CASE ControlStep
  BY <1>4, LenProperties
  DEF ControlStep, Start, DispatchPending, PendingDone, Stop, StopReturns,
      ThreadExit, dispatching, stats, history
<1>5. CASE Take
  <2>1. Head(queue) \in Event /\ Tail(queue) \in Seq(Event)
    BY <1>5, HeadTailProperties DEF Take
  <2>2. Append(taken, Head(queue)) \in Seq(Event)
    BY <2>1, AppendProperties
  <2>3. 1 \in 1..(Len(subs) + 1)
    BY LenProperties
  <2>4. QED
    BY <1>5, <2>1, <2>2, <2>3 DEF Take, Oldest, Popped, stats
<1>6. CASE Skip
  <2>1. at' = at + 1 /\ at <= Len(loop) /\ UNCHANGED loop
    BY <1>6 DEF Skip
  <2>2. at' \in 1..(Len(loop') + 1)
    BY <2>1, LenProperties
  <2>3. QED
    BY <1>6, <2>2 DEF Skip, stats, history
<1>7. ASSUME NEW r \in BOOLEAN, Call(r) PROVE TypeOK'
  <2>1. at' \in 1..(Len(loop) + 1)
    <3>1. at' = at + 1 /\ at <= Len(loop)
      BY <1>7 DEF Call, AfterCall
    <3>2. QED
      BY <3>1, LenProperties
  <2>2. inflight.id \in Nat
    BY <1>7 DEF Call, Event
  <2>3. delivered' \in [Handlers -> Seq(Nat)]
    BY <1>7, <2>2, AppendProperties DEF Call
  <2>4. handlerErrors' \in Nat
    BY <1>7 DEF Call
  <2>5. QED
    BY <1>7, <2>1, <2>3, <2>4 DEF Call
<1>8. CASE Finish
  BY <1>8 DEF Finish, history
<1>9. CASE UNCHANGED vars
  BY <1>9 DEF vars
<1>10. QED
  BY <1>1, <1>2, <1>3, <1>4, <1>5, <1>6, <1>7, <1>8, <1>9, NextCases

\* Type correctness of the bus (event_bus.py): the queue, the loop position, the
\* lifecycle states and the counters keep their types in every behaviour.
THEOREM TypeCorrect == Spec => []TypeOK
<1>1. TypeOK /\ [Next]_vars => TypeOK'
  BY StepTyped
<1>2. QED
  BY <1>1, InitiallyTypeOK, PTL DEF Spec

(***************************************************************************)
(* The queue: bounded, gapless, accounted for                              *)
(***************************************************************************)

\* The types of the sizes and counters, for the arithmetic below.
LEMMA Sizes ==
  ASSUME TypeOK
  PROVE  /\ Len(queue) \in Nat /\ Len(taken) \in Nat /\ Len(loop) \in Nat
         /\ Len(subs) \in Nat /\ \A h \in Handlers : Len(delivered[h]) \in Nat
         /\ published \in Nat /\ refused \in Nat /\ dispatched \in Nat
         /\ dropped \in Nat /\ at \in Nat /\ InFlight \in Nat
         /\ Capacity \in Nat \ {0}
<1>1. \A h \in Handlers : delivered[h] \in Seq(Nat)
  BY DEF TypeOK
<1>2. \A h \in Handlers : Len(delivered[h]) \in Nat
  BY <1>1, LenProperties
<1>3. /\ Len(queue) \in Nat /\ Len(taken) \in Nat /\ Len(loop) \in Nat
      /\ Len(subs) \in Nat
  BY LenProperties DEF TypeOK
<1>4. QED
  BY <1>2, <1>3, BusAssumption DEF TypeOK, InFlight

\* Publish positions are natural numbers wherever an event is kept.
LEMMA Ids ==
  ASSUME TypeOK
  PROVE  /\ \A i \in 1..Len(queue) : queue[i].id \in Nat
         /\ \A i \in 1..Len(taken) : taken[i].id \in Nat
         /\ inflight # NoEvent => inflight.id \in Nat
         /\ \A h \in Handlers : \A i \in 1..Len(delivered[h]) : delivered[h][i] \in Nat
<1>1. \A i \in 1..Len(queue) : queue[i] \in Event
  BY ElementOfSeq DEF TypeOK
<1>2. \A i \in 1..Len(taken) : taken[i] \in Event
  BY ElementOfSeq DEF TypeOK
<1>3. \A h \in Handlers : delivered[h] \in Seq(Nat)
  BY DEF TypeOK
<1>4. \A h \in Handlers : \A i \in 1..Len(delivered[h]) : delivered[h][i] \in Nat
  BY <1>3, ElementOfSeq
<1>5. inflight # NoEvent => inflight.id \in Nat
  BY DEF TypeOK, Event
<1>6. QED
  BY <1>1, <1>2, <1>4, <1>5 DEF Event

\* Every step keeps the counting and the window of ids: publish() shifts the window,
\* a pop shortens it, and whatever they cost is counted.
LEMMA QueueStep ==
  ASSUME TypeOK, QueueInv, [Next]_vars
  PROVE  QueueInv'
<1>0. /\ Len(queue) \in Nat /\ published \in Nat /\ refused \in Nat
      /\ dispatched \in Nat /\ dropped \in Nat /\ InFlight \in Nat
      /\ Capacity \in Nat \ {0}
  BY Sizes
<1>1. ASSUME NEW t \in Types, Publish(t) PROVE QueueInv'
  <2> DEFINE room == WithRoom
             e == [id |-> published + 1, type |-> t]
  <2>1. e \in Event
    BY <1>0 DEF Event
  <2>2. /\ room \in Seq(Event)
        /\ Len(room) < Capacity
        /\ Len(room) + DroppedNow = Len(queue) + dropped
        /\ \A i \in 1..Len(room) : room[i].id + Len(room) = published + i
    <3>1. CASE Full
      <4>1. queue # <<>>
        BY <3>1, <1>0, EmptySeq DEF Full
      <4>2. /\ room \in Seq(Event)
            /\ Len(room) = Len(queue) - 1
            /\ \A i \in 1..Len(room) : room[i] = queue[i + 1]
        BY <3>1, <4>1, HeadTailProperties DEF WithRoom, TypeOK
      <4>3. Len(queue) \in Nat /\ Len(queue) = Capacity
        BY <3>1, <1>0 DEF Full, QueueInv, QueueIsNewestWindow
      <4>4. \A i \in 1..Len(room) : room[i].id + Len(room) = published + i
        <5> TAKE i \in 1..Len(room)
        <5>1. i + 1 \in 1..Len(queue)
          BY <4>2, <4>3
        <5>2. queue[i + 1].id + Len(queue) = published + (i + 1)
          BY <5>1 DEF QueueInv, QueueIsNewestWindow
        <5>3. queue[i + 1].id \in Nat
          BY <5>1, Ids
        <5>4. room[i] = queue[i + 1] /\ i \in Nat
          BY <4>2, <4>3
        <5>5. published \in Nat /\ Len(queue) \in Nat
          BY <1>0
        <5>6. queue[i + 1].id + (Len(queue) - 1) = published + i
          BY <5>2, <5>3, <5>4, <5>5, Shift
        <5>7. QED
          BY <4>2, <5>4, <5>6
      <4>5. QED
        BY <3>1, <4>2, <4>3, <4>4, <1>0 DEF DroppedNow
    <3>2. CASE ~Full
      BY <3>2, <1>0
      DEF Full, WithRoom, DroppedNow, QueueInv, QueueIsNewestWindow, TypeOK
    <3>3. QED
      BY <3>1, <3>2
  <2>3. /\ Len(queue') = Len(room) + 1
        /\ \A i \in 1..Len(room) : queue'[i] = room[i]
        /\ queue'[Len(room) + 1] = e
    BY <1>1, <2>1, <2>2, AppendProperties DEF Publish
  <2>4. Len(room) \in Nat
    BY <2>2, LenProperties
  <2>5. QueueIsNewestWindow'
    <3>1. Len(queue') <= Capacity
      BY <2>2, <2>3, <2>4, <1>0
    <3>2. ASSUME NEW i \in 1..Len(queue')
          PROVE  queue'[i].id + Len(queue') = published' + i
      <4>1. CASE i \in 1..Len(room)
        <5>1. room[i] \in Event
          BY <2>2, <4>1, ElementOfSeq
        <5>2. room[i].id + Len(room) = published + i
          BY <2>2, <4>1
        <5>3. queue'[i] = room[i] /\ published' = published + 1
          BY <1>1, <2>3, <4>1 DEF Publish
        <5>4. room[i].id \in Nat /\ i \in Nat
          BY <2>4, <4>1, <5>1 DEF Event
        <5>5. Len(queue') = Len(room) + 1
          BY <2>3
        <5>6. QED
          BY <2>4, <5>2, <5>3, <5>4, <5>5, <1>0
      <4>2. CASE i = Len(room) + 1
        BY <1>1, <2>3, <2>4, <4>2, <1>0 DEF Publish
      <4>3. QED
        BY <2>3, <2>4, <3>2, <4>1, <4>2
    <3>3. QED
      BY <3>1, <3>2 DEF QueueIsNewestWindow
  <2>6. Accounting'
    <3>1. InFlight' = InFlight
      BY <1>1 DEF InFlight, Publish, dispatching
    <3>2. DroppedNow \in Nat
      BY <1>0 DEF DroppedNow
    <3>4. published + refused = dispatched + InFlight + Len(queue) + dropped
      BY DEF QueueInv, Accounting
    <3>5. /\ published' = published + 1 /\ refused' = refused
          /\ dispatched' = dispatched /\ dropped' = DroppedNow
      BY <1>1 DEF Publish, history
    <3>6. QED
      BY <2>2, <2>3, <2>4, <3>1, <3>2, <3>4, <3>5, <1>0 DEF Accounting
  <2>7. QED
    BY <2>5, <2>6 DEF QueueInv
<1>2. CASE PublishRefused
  <2>1. /\ UNCHANGED <<queue, inflight, published, dispatched>>
        /\ dropped' = dropped + 1 /\ refused' = refused + 1
    BY <1>2 DEF PublishRefused, dispatching
  <2>2. QueueIsNewestWindow'
    BY <2>1 DEF QueueInv, QueueIsNewestWindow
  <2>3. InFlight' = InFlight
    BY <2>1 DEF InFlight
  <2>4. published + refused = dispatched + InFlight + Len(queue) + dropped
    BY DEF QueueInv, Accounting
  <2>5. Accounting'
    BY <2>1, <2>3, <2>4, <1>0 DEF Accounting
  <2>6. QED
    BY <2>2, <2>5 DEF QueueInv
<1>3. CASE Take
  <2>1. /\ Tail(queue) \in Seq(Event)
        /\ Len(Tail(queue)) = Len(queue) - 1
        /\ \A i \in 1..Len(Tail(queue)) : Tail(queue)[i] = queue[i + 1]
        /\ Head(queue) \in Event
    BY <1>3, HeadTailProperties DEF Take, TypeOK
  <2>2. queue' = Tail(queue) /\ published' = published
    BY <1>3 DEF Take, Popped, stats
  <2>3. QueueIsNewestWindow'
    <3>1. ASSUME NEW i \in 1..Len(queue')
          PROVE  queue'[i].id + Len(queue') = published' + i
      <4>1. i \in 1..Len(Tail(queue)) /\ i + 1 \in 1..Len(queue)
        BY <2>1, <2>2, <3>1, <1>0
      <4>2. queue[i + 1].id + Len(queue) = published + (i + 1)
        BY <4>1 DEF QueueInv, QueueIsNewestWindow
      <4>3. queue[i + 1].id \in Nat
        BY <4>1, Ids
      <4>4. queue'[i] = queue[i + 1] /\ Len(queue') = Len(queue) - 1
        BY <2>1, <2>2, <4>1
      <4>5. i \in Nat /\ published \in Nat /\ Len(queue) \in Nat
        BY <2>1, <4>1, <1>0
      <4>6. queue[i + 1].id + (Len(queue) - 1) = published + i
        BY <4>2, <4>3, <4>5, Shift
      <4>7. QED
        BY <2>2, <4>4, <4>6
    <3>2. QED
      BY <2>1, <2>2, <3>1, <1>0 DEF QueueInv, QueueIsNewestWindow
  <2>4. Accounting'
    <3>1. InFlight = 0 /\ InFlight' = 1
      BY <1>3, <2>1, BusAssumption DEF InFlight, Take, Oldest, Event
    <3>2. /\ refused' = refused /\ dispatched' = dispatched /\ dropped' = dropped
      BY <1>3 DEF Take, stats
    <3>3. published + refused = dispatched + InFlight + Len(queue) + dropped
      BY DEF QueueInv, Accounting
    <3>4. QED
      BY <2>1, <2>2, <3>1, <3>2, <3>3, <1>0 DEF Accounting
  <2>5. QED
    BY <2>3, <2>4 DEF QueueInv
<1>4. CASE Finish
  BY <1>4, <1>0
  DEF Finish, QueueInv, QueueIsNewestWindow, Accounting, InFlight, history
<1>5. ASSUME NEW r \in BOOLEAN, Call(r) PROVE QueueInv'
  BY <1>5 DEF Call, QueueInv, QueueIsNewestWindow, Accounting, InFlight
<1>6. CASE Skip
  BY <1>6 DEF Skip, QueueInv, QueueIsNewestWindow, Accounting, InFlight, stats, history
<1>7. ASSUME NEW h \in Handlers, Subscribe(h) PROVE QueueInv'
  BY <1>7 DEF Subscribe, QueueInv, QueueIsNewestWindow, Accounting, InFlight, stats,
     dispatching
<1>8. CASE ControlStep
  BY <1>8
  DEF ControlStep, Start, DispatchPending, PendingDone, Stop, StopReturns, ThreadExit,
      QueueInv, QueueIsNewestWindow, Accounting, InFlight, stats, dispatching, history
<1>9. CASE UNCHANGED vars
  BY <1>9 DEF vars, QueueInv, QueueIsNewestWindow, Accounting, InFlight
<1>10. QED
  BY <1>1, <1>2, <1>3, <1>4, <1>5, <1>6, <1>7, <1>8, <1>9, NextCases

(***************************************************************************)
(* Control state, order of popping, subscriptions                          *)
(***************************************************************************)

\* Every step keeps owner, thread and stopping flag in agreement.
LEMMA ControlInductive ==
  ASSUME TypeOK, Control, [Next]_vars
  PROVE  Control'
<1>1. ASSUME NEW t \in Types, Publish(t) PROVE Control'
  BY <1>1 DEF Publish, Control, Dispatching, dispatching, TypeOK
<1>2. CASE PublishRefused
  BY <1>2 DEF PublishRefused, Control, Dispatching, dispatching
<1>3. ASSUME NEW h \in Handlers, Subscribe(h) PROVE Control'
  BY <1>3 DEF Subscribe, Control, Dispatching, dispatching
<1>4. CASE ControlStep
  <2>1. CASE Start
    BY <2>1 DEF Start, Control, Dispatching, dispatching
  <2>2. CASE DispatchPending
    BY <2>2 DEF DispatchPending, Control, Dispatching, dispatching
  <2>3. CASE PendingDone
    BY <2>3 DEF PendingDone, Control, Dispatching, dispatching
  <2>4. CASE Stop
    BY <2>4 DEF Stop, Control, Dispatching, dispatching
  <2>5. CASE StopReturns
    BY <2>5 DEF StopReturns, Joined, Pumped, Control, Dispatching, dispatching, TypeOK
  <2>6. CASE ThreadExit
    BY <2>6 DEF ThreadExit, MayExit, Control, Dispatching, dispatching
  <2>7. QED
    BY <1>4, <2>1, <2>2, <2>3, <2>4, <2>5, <2>6 DEF ControlStep
<1>5. CASE Take
  BY <1>5 DEF Take, Control, Dispatching
<1>6. CASE Skip
  BY <1>6 DEF Skip, Control, Dispatching
<1>7. ASSUME NEW r \in BOOLEAN, Call(r) PROVE Control'
  BY <1>7 DEF Call, Control, Dispatching
<1>8. CASE Finish
  BY <1>8 DEF Finish, Control, Dispatching
<1>9. CASE UNCHANGED vars
  BY <1>9 DEF vars, Control, Dispatching
<1>10. QED
  BY <1>1, <1>2, <1>3, <1>4, <1>5, <1>6, <1>7, <1>8, <1>9, NextCases

\* The steps that leave the popped events, the event in hand and the loop alone.
LEMMA Untouched ==
  ASSUME PublishRefused \/ ControlStep \/ UNCHANGED vars
  PROVE  UNCHANGED <<queue, subs, dispatching, taken, since, delivered, published, dispatched>>
  BY DEF PublishRefused, ControlStep, Start, DispatchPending, PendingDone, Stop,
     StopReturns, ThreadExit, vars, dispatching, stats, history

\* subscribe() adds a new handler only, and the loop is a copy of the list.
LEMMA LoopInductive ==
  ASSUME TypeOK, LoopInv, [Next]_vars
  PROVE  LoopInv'
<1>0. Len(subs) \in Nat /\ subs \in Seq(Handlers)
  BY Sizes DEF TypeOK
<1>1. ASSUME NEW t \in Types, Publish(t) PROVE LoopInv'
  BY <1>1 DEF Publish, LoopInv, Subscribed, dispatching
<1>2. CASE PublishRefused \/ ControlStep \/ UNCHANGED vars
  BY <1>2, Untouched DEF LoopInv, Subscribed, dispatching
<1>3. ASSUME NEW h \in Handlers, Subscribe(h) PROVE LoopInv'
  <2>1. /\ Len(subs') = Len(subs) + 1
        /\ \A i \in 1..Len(subs) : subs'[i] = subs[i] /\ subs[i] # h
        /\ subs'[Len(subs) + 1] = h
    BY <1>3, <1>0, AppendProperties DEF Subscribe, Subscribed
  <2>2. \A i, j \in 1..Len(subs') : subs'[i] = subs'[j] => i = j
    BY <2>1, <1>0 DEF LoopInv
  <2>3. \A g \in Handlers : Subscribed(g) => Subscribed(g)'
    BY <2>1, <1>0 DEF Subscribed
  <2>4. UNCHANGED loop /\ \A i \in 1..Len(loop) : loop[i] \in Handlers
    BY <1>3, ElementOfSeq DEF Subscribe, dispatching, TypeOK
  <2>5. \A i \in 1..Len(loop) : Subscribed(loop[i])'
    BY <2>3, <2>4 DEF LoopInv, Subscribed
  <2>6. QED
    BY <2>2, <2>4, <2>5 DEF LoopInv, Subscribed
<1>4. CASE Take
  BY <1>4 DEF Take, LoopInv, Subscribed
<1>5. CASE Skip
  BY <1>5 DEF Skip, LoopInv, Subscribed
<1>6. ASSUME NEW r \in BOOLEAN, Call(r) PROVE LoopInv'
  BY <1>6 DEF Call, LoopInv, Subscribed
<1>7. CASE Finish
  BY <1>7 DEF Finish, LoopInv, Subscribed
<1>8. QED
  BY <1>1, <1>2, <1>3, <1>4, <1>5, <1>6, <1>7, NextCases

\* What a pop takes out of the window.
LEMMA PoppedFacts ==
  ASSUME TypeOK, QueueInv, Take
  PROVE  /\ Head(queue) \in Event /\ Head(queue).id \in Nat
         /\ Head(queue).id + Len(queue) = published + 1
         /\ inflight' = Head(queue) /\ InFlight = 0 /\ InFlight' = 1
         /\ Len(queue') = Len(queue) - 1
         /\ Len(taken') = Len(taken) + 1
         /\ \A i \in 1..Len(taken) : taken'[i] = taken[i]
         /\ taken'[Len(taken) + 1] = Head(queue)
<1>1. /\ queue # <<>> /\ inflight = NoEvent /\ inflight' = Head(queue)
      /\ queue' = Tail(queue) /\ taken' = Append(taken, Head(queue))
  BY DEF Take, Oldest, Popped
<1>2. Head(queue) \in Event /\ Len(queue') = Len(queue) - 1 /\ Head(queue) = queue[1]
  BY <1>1, HeadTailProperties DEF TypeOK
<1>3. 1 \in 1..Len(queue)
  BY <1>1, EmptySeq DEF TypeOK
<1>4. Head(queue).id + Len(queue) = published + 1
  BY <1>2, <1>3 DEF QueueInv, QueueIsNewestWindow
<1>5. /\ Len(taken') = Len(taken) + 1
      /\ \A i \in 1..Len(taken) : taken'[i] = taken[i]
      /\ taken'[Len(taken) + 1] = Head(queue)
  BY <1>1, <1>2, AppendProperties DEF TypeOK
<1>6. InFlight = 0 /\ InFlight' = 1
  BY <1>1, <1>2, BusAssumption DEF InFlight, Event
<1>7. QED
  BY <1>1, <1>2, <1>4, <1>5, <1>6 DEF Event

\* A publish() moves the window up by one position at least.
LEMMA PublishedFacts ==
  ASSUME TypeOK, NEW t \in Types, Publish(t)
  PROVE  /\ published' = published + 1
         /\ Len(queue') \in Nat /\ Len(queue') <= Len(queue) + 1
         /\ UNCHANGED <<dispatching, taken, since, subs, delivered, dispatched>>
<1>1. WithRoom \in Seq(Event) /\ Len(WithRoom) <= Len(queue)
  <2>1. Full => queue # <<>>
    BY Sizes, EmptySeq DEF Full
  <2>2. QED
    BY <2>1, Sizes, HeadTailProperties DEF WithRoom, TypeOK
<1>2. [id |-> published + 1, type |-> t] \in Event
  BY Sizes DEF Event
<1>3. Len(queue') = Len(WithRoom) + 1
  BY <1>1, <1>2, AppendProperties DEF Publish
<1>4. Len(WithRoom) \in Nat /\ Len(queue) \in Nat
  BY <1>1, Sizes, LenProperties
<1>5. QED
  BY <1>1, <1>3, <1>4 DEF Publish, history

\* The pops keep publish order.
LEMMA TakenInductive ==
  ASSUME TypeOK, QueueInv, TakenInv, [Next]_vars
  PROVE  TakenInv'
<1>0. /\ Len(queue) \in Nat /\ Len(taken) \in Nat /\ published \in Nat
      /\ dispatched \in Nat /\ InFlight \in Nat
      /\ \A i \in 1..Len(taken) : taken[i].id \in Nat
  BY Sizes, Ids
<1>1. ASSUME NEW t \in Types, Publish(t) PROVE TakenInv'
  <2>1. /\ published' = published + 1
        /\ Len(queue') \in Nat /\ Len(queue') <= Len(queue) + 1
        /\ UNCHANGED <<inflight, taken, dispatched>>
    BY <1>1, PublishedFacts DEF dispatching
  <2>2. \A i \in 1..Len(taken) : taken'[i].id + Len(queue') <= published'
    BY <1>0, <2>1 DEF TakenInv
  <2>3. QED
    BY <2>1, <2>2 DEF TakenInv, InFlight
<1>2. CASE PublishRefused \/ ControlStep \/ UNCHANGED vars
  BY <1>2, Untouched DEF TakenInv, InFlight, dispatching
<1>3. ASSUME NEW h \in Handlers, Subscribe(h) PROVE TakenInv'
  BY <1>3 DEF Subscribe, TakenInv, InFlight, dispatching, stats
<1>4. CASE Take
  <2>1. /\ Head(queue).id \in Nat
        /\ Head(queue).id + Len(queue) = published + 1
        /\ inflight' = Head(queue) /\ InFlight = 0 /\ InFlight' = 1
        /\ Len(queue') = Len(queue) - 1
        /\ Len(taken') = Len(taken) + 1
        /\ \A i \in 1..Len(taken) : taken'[i] = taken[i]
        /\ taken'[Len(taken) + 1] = Head(queue)
    BY <1>4, PoppedFacts
  <2>2. published' = published /\ dispatched' = dispatched
    BY <1>4 DEF Take, stats
  <2>3. Len(taken') = dispatched' + InFlight'
    BY <2>1, <2>2, <1>0 DEF TakenInv
  <2>4. \A i \in 1..Len(taken) : taken[i].id + Len(queue) <= published
    BY DEF TakenInv
  <2>5. \A i \in 1..Len(taken) : taken[i].id < Head(queue).id
    BY <2>1, <2>4, <1>0
  <2>6. ASSUME NEW i \in 1..Len(taken')
        PROVE  taken'[i].id + Len(queue') <= published'
    <3>1. CASE i \in 1..Len(taken)
      <4>1. taken'[i] = taken[i] /\ taken[i].id \in Nat
            /\ taken[i].id + Len(queue) <= published
        BY <3>1, <2>1, <2>4, <1>0
      <4>2. Len(queue') = Len(queue) - 1
        BY <2>1
      <4>3. QED
        BY <4>1, <4>2, <2>2, <1>0
    <3>2. CASE i = Len(taken) + 1
      BY <3>2, <2>1, <2>2, <1>0
    <3>3. QED
      BY <2>1, <2>6, <3>1, <3>2, <1>0
  <2>7. ASSUME NEW i \in 1..Len(taken'), NEW j \in 1..Len(taken'), i < j
        PROVE  taken'[i].id < taken'[j].id
    <3>0. Len(taken') = Len(taken) + 1 /\ Len(taken) \in Nat
      BY <2>1, <1>0
    <3>1. i \in 1..Len(taken) /\ (j \in 1..Len(taken) \/ j = Len(taken) + 1)
      BY <3>0, <2>7
    <3>2. CASE j \in 1..Len(taken)
      BY <3>1, <3>2, <2>1, <2>7 DEF TakenInv
    <3>3. CASE j = Len(taken) + 1
      BY <3>1, <3>3, <2>1, <2>5
    <3>4. QED
      BY <3>1, <3>2, <3>3
  <2>8. inflight' = taken'[Len(taken')]
    BY <2>1
  <2>9. QED
    BY <2>3, <2>6, <2>7, <2>8 DEF TakenInv
<1>5. CASE Skip
  BY <1>5 DEF Skip, TakenInv, InFlight, stats, history
<1>6. ASSUME NEW r \in BOOLEAN, Call(r) PROVE TakenInv'
  BY <1>6 DEF Call, TakenInv, InFlight
<1>7. CASE Finish
  <2>1. InFlight = 1 /\ InFlight' = 0
    BY <1>7 DEF Finish, InFlight
  <2>2. /\ UNCHANGED <<taken, queue, published>> /\ inflight' = NoEvent
        /\ dispatched' = dispatched + 1
    BY <1>7 DEF Finish, history
  <2>3. Len(taken) = dispatched + InFlight
    BY DEF TakenInv
  <2>4. Len(taken') = dispatched' + InFlight'
    BY <2>1, <2>2, <2>3, <1>0
  <2>5. QED
    BY <2>2, <2>4 DEF TakenInv
<1>8. QED
  BY <1>1, <1>2, <1>3, <1>4, <1>5, <1>6, <1>7, NextCases

\* A handler call extends what its handler has seen by a newer event.
LEMMA DeliveredInductive ==
  ASSUME TypeOK, QueueInv, TakenInv, LoopInv, DeliveredInv, [Next]_vars
  PROVE  DeliveredInv'
<1>0. /\ Len(queue) \in Nat /\ published \in Nat /\ at \in Nat /\ Len(loop) \in Nat
      /\ \A h \in Handlers : Len(delivered[h]) \in Nat
      /\ \A h \in Handlers : \A i \in 1..Len(delivered[h]) : delivered[h][i] \in Nat
  BY Sizes, Ids
<1>1. ASSUME NEW t \in Types, Publish(t) PROVE DeliveredInv'
  <2>1. /\ published' = published + 1
        /\ Len(queue') \in Nat /\ Len(queue') <= Len(queue) + 1
        /\ UNCHANGED <<inflight, loop, at, delivered>>
    BY <1>1, PublishedFacts DEF dispatching
  <2>2. ASSUME NEW h \in Handlers, NEW i \in 1..Len(delivered[h])
        PROVE  delivered[h][i] + Len(queue') <= published'
    <3>1. delivered[h][i] + Len(queue) <= published /\ delivered[h][i] \in Nat
      BY <1>0 DEF DeliveredInv
    <3>2. Len(queue) \in Nat /\ published \in Nat
      BY <1>0
    <3>3. QED
      BY <3>1, <3>2, <2>1
  <2>3. QED
    BY <2>1, <2>2 DEF DeliveredInv, InOrder
<1>2. CASE PublishRefused \/ ControlStep \/ UNCHANGED vars
  BY <1>2, Untouched DEF DeliveredInv, InOrder, dispatching
<1>3. ASSUME NEW h \in Handlers, Subscribe(h) PROVE DeliveredInv'
  BY <1>3 DEF Subscribe, DeliveredInv, InOrder, dispatching, stats
<1>4. CASE Take
  <2>1. /\ Head(queue).id \in Nat
        /\ Head(queue).id + Len(queue) = published + 1
        /\ inflight' = Head(queue)
        /\ Len(queue') = Len(queue) - 1
    BY <1>4, PoppedFacts
  <2>2. delivered' = delivered /\ published' = published
    BY <1>4 DEF Take, stats
  <2>3. ASSUME NEW h \in Handlers, NEW i \in 1..Len(delivered[h])
        PROVE  delivered[h][i] + Len(queue') <= published /\ delivered[h][i] < Head(queue).id
    <3>1. delivered[h][i] + Len(queue) <= published /\ delivered[h][i] \in Nat
      BY <1>0 DEF DeliveredInv
    <3>2. Len(queue) \in Nat /\ published \in Nat
      BY <1>0
    <3>3. QED
      BY <3>1, <3>2, <2>1, Older
  <2>4. QED
    BY <2>1, <2>2, <2>3 DEF DeliveredInv, InOrder
<1>5. CASE Skip
  <2>1. /\ UNCHANGED <<queue, inflight, loop, delivered, published>> /\ at' = at + 1
    BY <1>5 DEF Skip, stats, history
  <2>2. \A k \in at'..Len(loop) : k \in at..Len(loop)
    BY <2>1, <1>0
  <2>3. QED
    BY <2>1, <2>2 DEF DeliveredInv, InOrder
<1>6. ASSUME NEW r \in BOOLEAN, Call(r) PROVE DeliveredInv'
  <2> DEFINE g == loop[at]
             e == inflight.id
  <2>1. /\ inflight # NoEvent /\ at \in 1..Len(loop) /\ at' = at + 1
        /\ delivered' = [delivered EXCEPT ![g] = Append(@, e)]
        /\ UNCHANGED <<queue, inflight, loop, published>>
    BY <1>6, <1>0 DEF Call, AfterCall, TypeOK
  <2>2. g \in Handlers /\ e \in Nat
    BY <2>1, ElementOfSeq, Ids DEF TypeOK
  <2>3. e + Len(queue) <= published
    <3>1. Len(taken) \in 1..Len(taken)
      BY <2>1, Sizes DEF TakenInv, InFlight
    <3>2. QED
      BY <2>1, <3>1 DEF TakenInv
  <2>4. /\ Len(delivered'[g]) = Len(delivered[g]) + 1
        /\ \A i \in 1..Len(delivered[g]) : delivered'[g][i] = delivered[g][i]
        /\ delivered'[g][Len(delivered[g]) + 1] = e
    <3>1. delivered[g] \in Seq(Nat) /\ delivered'[g] = Append(delivered[g], e)
      BY <2>1, <2>2 DEF TypeOK
    <3>2. QED
      BY <3>1, <2>2, AppendProperties
  <2>5. \A h \in Handlers : h # g => delivered'[h] = delivered[h]
    BY <2>1 DEF TypeOK
  <2>6. \A i \in 1..Len(delivered[g]) : delivered[g][i] < e
    BY <2>1, <2>2, <1>0 DEF DeliveredInv
  <2>7. Len(delivered[g]) \in Nat
    BY <2>2, <1>0
  <2>8. ASSUME NEW h \in Handlers, NEW i \in 1..Len(delivered'[h]),
               NEW j \in 1..Len(delivered'[h]), i < j
        PROVE  delivered'[h][i] < delivered'[h][j]
    <3>1. CASE h # g
      <4>1. delivered'[h] = delivered[h]
        BY <2>5, <3>1
      <4>2. i \in 1..Len(delivered[h]) /\ j \in 1..Len(delivered[h])
        BY <4>1
      <4>3. QED
        BY <4>1, <4>2, <2>8 DEF DeliveredInv, InOrder
    <3>2. CASE h = g
      <4>1. /\ i \in 1..Len(delivered[g])
            /\ j \in 1..Len(delivered[g]) \/ j = Len(delivered[g]) + 1
        BY <3>2, <2>4, <2>7, <2>8
      <4>2. CASE j \in 1..Len(delivered[g])
        BY <3>2, <4>1, <4>2, <2>2, <2>4, <2>8 DEF DeliveredInv, InOrder
      <4>3. CASE j = Len(delivered[g]) + 1
        BY <3>2, <4>1, <4>3, <2>4, <2>6
      <4>4. QED
        BY <4>1, <4>2, <4>3
    <3>3. QED
      BY <3>1, <3>2
  <2>9. ASSUME NEW h \in Handlers, NEW i \in 1..Len(delivered'[h])
        PROVE  delivered'[h][i] + Len(queue) <= published
    <3>1. CASE h # g
      BY <2>5, <3>1 DEF DeliveredInv
    <3>2. CASE h = g
      <4>1. i \in 1..Len(delivered[g]) \/ i = Len(delivered[g]) + 1
        BY <3>2, <2>4, <2>7
      <4>2. QED
        BY <3>2, <4>1, <2>2, <2>3, <2>4 DEF DeliveredInv
    <3>3. QED
      BY <3>1, <3>2
  <2>10. ASSUME NEW h \in Handlers, NEW i \in 1..Len(delivered'[h]),
                NEW k \in at'..Len(loop), loop[k] = h
         PROVE  delivered'[h][i] < e
    <3>1. k \in at..Len(loop) /\ k # at /\ k \in 1..Len(loop)
      BY <2>1, <1>0
    <3>2. h # g
      BY <2>1, <2>10, <3>1 DEF LoopInv
    <3>3. delivered'[h] = delivered[h]
      BY <3>2, <2>5
    <3>4. i \in 1..Len(delivered[h])
      BY <3>3
    <3>5. QED
      BY <2>1, <2>10, <3>1, <3>3, <3>4 DEF DeliveredInv
  <2>11. QED
    BY <2>1, <2>8, <2>9, <2>10 DEF DeliveredInv, InOrder
<1>7. CASE Finish
  BY <1>7 DEF Finish, DeliveredInv, InOrder, history
<1>8. QED
  BY <1>1, <1>2, <1>3, <1>4, <1>5, <1>6, <1>7, NextCases

(***************************************************************************)
(* No subscriber is skipped                                                *)
(***************************************************************************)

\* A handler call adds the event in hand to what the handler received, and takes
\* nothing from anyone.
LEMMA CallDelivers ==
  ASSUME TypeOK, NEW r \in BOOLEAN, Call(r)
  PROVE  /\ \E i \in 1..Len(delivered'[loop[at]]) : delivered'[loop[at]][i] = inflight.id
         /\ \A h \in Handlers : \A id \in Nat : Received(h, id) => Received(h, id)'
<1> DEFINE g == loop[at]
           e == inflight.id
<1>1. /\ inflight # NoEvent /\ at \in 1..Len(loop)
      /\ delivered' = [delivered EXCEPT ![g] = Append(@, e)]
      /\ UNCHANGED <<inflight, loop>>
  BY Sizes DEF Call, TypeOK
<1>2. g \in Handlers /\ e \in Nat
  BY <1>1, ElementOfSeq, Ids DEF TypeOK
<1>3. delivered[g] \in Seq(Nat) /\ delivered'[g] = Append(delivered[g], e)
  BY <1>1, <1>2 DEF TypeOK
<1>4. /\ Len(delivered'[g]) = Len(delivered[g]) + 1
      /\ \A i \in 1..Len(delivered[g]) : delivered'[g][i] = delivered[g][i]
      /\ delivered'[g][Len(delivered[g]) + 1] = e
  BY <1>2, <1>3, AppendProperties
<1>5. Len(delivered[g]) \in Nat
  BY <1>2, Sizes
<1>6. ASSUME NEW h \in Handlers, NEW id \in Nat, Received(h, id)
      PROVE  \E i \in 1..Len(delivered'[h]) : delivered'[h][i] = id
  <2>1. PICK i \in 1..Len(delivered[h]) : delivered[h][i] = id
    BY <1>6 DEF Received
  <2>2. CASE h # g
    <3>1. delivered'[h] = delivered[h]
      BY <1>1, <2>2 DEF TypeOK
    <3>2. QED
      BY <2>1, <3>1
  <2>3. CASE h = g
    <3>1. i \in 1..Len(delivered'[g])
      BY <1>4, <1>5, <2>1, <2>3
    <3>2. QED
      BY <1>4, <2>1, <2>3, <3>1
  <2>4. QED
    BY <2>2, <2>3
<1>7. Len(delivered[g]) + 1 \in 1..Len(delivered'[g])
  BY <1>4, <1>5
<1>8. \E i \in 1..Len(delivered'[g]) : delivered'[g][i] = e
  BY <1>4, <1>7
<1>9. QED
  BY <1>1, <1>6, <1>8 DEF Received

\* Every step of the loop serves the handler it passes, or skips one that does not
\* want the event.
LEMMA ServedInductive ==
  ASSUME TypeOK, QueueInv, TakenInv, ServedInv, [Next]_vars
  PROVE  ServedInv'
<1>0. /\ Len(taken) \in Nat /\ at \in Nat /\ Len(loop) \in Nat /\ Len(subs) \in Nat
      /\ InFlight \in Nat
      /\ inflight # NoEvent => inflight.id \in Nat
      /\ \A i \in 1..Len(taken) : taken[i].id \in Nat
  BY Sizes, Ids
<1>1. ASSUME NEW t \in Types, Publish(t) PROVE ServedInv'
  <2>1. /\ UNCHANGED <<subs, inflight, loop, at, taken, since, delivered>>
        /\ InFlight' = InFlight
    BY <1>1, PublishedFacts DEF Publish, InFlight, dispatching, history
  <2>2. QED
    BY <2>1 DEF ServedInv, Served, Subscribed, Received
<1>2. CASE PublishRefused \/ ControlStep \/ UNCHANGED vars
  BY <1>2, Untouched DEF ServedInv, Served, Subscribed, Received, InFlight, dispatching
<1>3. ASSUME NEW g \in Handlers, Subscribe(g) PROVE ServedInv'
  <2>1. /\ UNCHANGED <<inflight, loop, at, taken, delivered>>
        /\ since' = [since EXCEPT ![g] = Len(taken)]
        /\ subs' = Append(subs, g)
    BY <1>3 DEF Subscribe, dispatching
  <2>2. since'[g] = Len(taken) /\ \A h \in Handlers : h # g => since'[h] = since[h]
    BY <2>1 DEF TypeOK
  <2>3. \A h \in Handlers : h # g /\ Subscribed(h)' => Subscribed(h)
    <3>1. /\ Len(subs') = Len(subs) + 1
          /\ \A i \in 1..Len(subs) : subs'[i] = subs[i]
          /\ subs'[Len(subs) + 1] = g
      BY <2>1, AppendProperties DEF TypeOK
    <3>2. QED
      BY <3>1, <1>0 DEF Subscribed
  <2>4. \A h \in Handlers : since'[h] <= Len(taken)
    BY <2>2, <1>0 DEF ServedInv
  <2>5. ASSUME NEW h \in Handlers, NEW k \in 1..(Len(taken) - InFlight),
               Subscribed(h)', since'[h] < k, taken[k].type \in Wants[h]
        PROVE  Received(h, taken[k].id)
    <3>1. h # g
      BY <2>2, <2>5, <1>0
    <3>2. QED
      BY <2>2, <2>3, <2>5, <3>1 DEF ServedInv, Served
  <2>6. ASSUME inflight # NoEvent, NEW h \in Handlers, Subscribed(h)', since'[h] < Len(taken)
        PROVE  \E i \in 1..Len(loop) : loop[i] = h
    <3>1. h # g
      BY <2>2, <2>6, <1>0
    <3>2. QED
      BY <2>2, <2>3, <2>6, <3>1 DEF ServedInv
  <2>7. Served'
    BY <2>1, <2>5 DEF Served, Received, InFlight
  <2>8. QED
    BY <2>1, <2>4, <2>6, <2>7 DEF ServedInv, Received
<1>4. CASE Take
  <2>1. /\ inflight = NoEvent /\ InFlight = 0 /\ InFlight' = 1
        /\ Len(taken') = Len(taken) + 1
        /\ \A i \in 1..Len(taken) : taken'[i] = taken[i]
    BY <1>4, PoppedFacts DEF Take
  <2>2. UNCHANGED <<subs, since, delivered>> /\ loop' = subs /\ at' = 1
    BY <1>4 DEF Take
  <2>3. Served'
    <3>1. Len(taken') - InFlight' = Len(taken) /\ Len(taken) - InFlight = Len(taken)
      BY <2>1, <1>0
    <3>2. ASSUME NEW h \in Handlers, NEW k \in 1..Len(taken),
                 Subscribed(h), since[h] < k, taken'[k].type \in Wants[h]
          PROVE  Received(h, taken'[k].id)
      BY <2>1, <3>1, <3>2 DEF ServedInv, Served
    <3>3. QED
      BY <2>2, <3>1, <3>2 DEF Served, Subscribed, Received
  <2>4. \A h \in Handlers : since'[h] <= Len(taken')
    <3>1. ASSUME NEW h \in Handlers PROVE since[h] <= Len(taken) + 1
      <4>1. since[h] <= Len(taken) /\ since[h] \in Nat
        BY DEF ServedInv, TypeOK
      <4>2. QED
        BY <4>1, <1>0
    <3>2. QED
      BY <2>1, <2>2, <3>1
  <2>5. \A i \in 1..(at' - 1) : FALSE
    BY <2>2
  <2>6. \A h \in Handlers : Subscribed(h)' => \E i \in 1..Len(loop') : loop'[i] = h
    BY <2>2 DEF Subscribed
  <2>7. QED
    BY <2>3, <2>4, <2>5, <2>6 DEF ServedInv
<1>5. CASE Skip
  <2>1. /\ UNCHANGED <<inflight, loop, taken, subs, since, delivered>> /\ at' = at + 1
        /\ inflight # NoEvent /\ inflight.type \notin Wants[loop[at]]
    BY <1>5 DEF Skip, history
  <2>2. \A i \in 1..(at' - 1) : i \in 1..(at - 1) \/ i = at
    BY <2>1, <1>0
  <2>3. Served'
    BY <2>1 DEF ServedInv, Served, Subscribed, Received, InFlight
  <2>4. \A i \in 1..(at' - 1) :
          inflight.type \in Wants[loop[i]] => Received(loop[i], inflight.id)
    BY <2>1, <2>2 DEF ServedInv
  <2>5. QED
    BY <2>1, <2>3, <2>4 DEF ServedInv, Subscribed, Received
<1>6. ASSUME NEW r \in BOOLEAN, Call(r) PROVE ServedInv'
  <2>1. /\ UNCHANGED <<inflight, loop, taken, subs, since>> /\ at' = at + 1
        /\ inflight # NoEvent /\ at <= Len(loop) /\ inflight.id \in Nat
    BY <1>6, <1>0 DEF Call, AfterCall
  <2>2. /\ \E i \in 1..Len(delivered'[loop[at]]) : delivered'[loop[at]][i] = inflight.id
        /\ \A h \in Handlers : \A id \in Nat : Received(h, id) => Received(h, id)'
    BY <1>6, CallDelivers
  <2>3. Len(taken) - InFlight \in 0..Len(taken)
    BY <1>0, <2>1 DEF TakenInv, InFlight, TypeOK
  <2>4. Served'
    <3>1. ASSUME NEW h \in Handlers, NEW k \in 1..(Len(taken) - InFlight),
                 Subscribed(h), since[h] < k, taken[k].type \in Wants[h]
          PROVE  Received(h, taken[k].id)'
      <4>1. Received(h, taken[k].id)
        BY <3>1 DEF ServedInv, Served
      <4>2. k \in 1..Len(taken)
        BY <2>3, <1>0
      <4>3. taken[k].id \in Nat /\ taken' = taken
        BY <4>2, <1>0, <2>1
      <4>4. QED
        BY <2>2, <4>1, <4>3 DEF Received
    <3>2. QED
      BY <2>1, <3>1 DEF Served, Subscribed, InFlight
  <2>5. ASSUME NEW i \in 1..(at' - 1), inflight.type \in Wants[loop[i]]
        PROVE  Received(loop[i], inflight.id)'
    <3>1. i \in 1..(at - 1) \/ i = at
      BY <2>1, <1>0
    <3>2. CASE i = at
      BY <2>1, <2>2, <3>2 DEF Received
    <3>3. CASE i \in 1..(at - 1)
      <4>1. i \in 1..Len(loop)
        BY <2>1, <3>3, <1>0
      <4>2. loop[i] \in Handlers
        BY <4>1, ElementOfSeq DEF TypeOK
      <4>3. Received(loop[i], inflight.id)
        BY <2>1, <2>5, <3>3 DEF ServedInv
      <4>4. QED
        BY <2>1, <2>2, <4>2, <4>3 DEF Received
    <3>4. QED
      BY <3>1, <3>2, <3>3
  <2>6. QED
    BY <2>1, <2>4, <2>5 DEF ServedInv, Subscribed, Received
<1>7. CASE Finish
  <2>1. /\ UNCHANGED <<loop, at, taken, subs, since, delivered>>
        /\ inflight' = NoEvent /\ inflight # NoEvent /\ at > Len(loop)
    BY <1>7 DEF Finish, history
  <2>2. /\ InFlight = 1 /\ InFlight' = 0
    BY <2>1 DEF InFlight
  <2>3. ASSUME NEW h \in Handlers, NEW k \in 1..Len(taken),
               Subscribed(h), since[h] < k, taken[k].type \in Wants[h]
        PROVE  Received(h, taken[k].id)
    <3>1. CASE k \in 1..(Len(taken) - InFlight)
      BY <2>3, <3>1 DEF ServedInv, Served
    <3>2. CASE k = Len(taken)
      <4>1. inflight = taken[k]
        BY <2>1, <3>2 DEF TakenInv
      <4>2. PICK i \in 1..Len(loop) : loop[i] = h
        BY <2>1, <2>3, <3>2 DEF ServedInv
      <4>3. i \in 1..(at - 1)
        BY <2>1, <1>0
      <4>4. QED
        BY <2>1, <2>3, <4>1, <4>2, <4>3 DEF ServedInv
    <3>3. QED
      BY <2>2, <3>1, <3>2, <1>0
  <2>4. Len(taken') - InFlight' = Len(taken)
    BY <2>1, <2>2, <1>0
  <2>5. Served'
    BY <2>1, <2>3, <2>4 DEF Served, Subscribed, Received
  <2>6. QED
    BY <2>1, <2>5 DEF ServedInv
<1>8. QED
  BY <1>1, <1>2, <1>3, <1>4, <1>5, <1>6, <1>7, NextCases

(***************************************************************************)
(* The safety theorems                                                     *)
(***************************************************************************)

IInv ==
  /\ TypeOK
  /\ Control /\ QueueInv /\ TakenInv /\ LoopInv /\ DeliveredInv /\ ServedInv

\* The inductive invariant holds of a new bus.
LEMMA InitiallyIInv == Init => IInv
<1> SUFFICES ASSUME Init PROVE IInv
  OBVIOUS
<1>1. TypeOK
  BY InitiallyTypeOK
<1>2. Control
  BY DEF Init, Control
<1>3. InFlight = 0 /\ Len(queue) = 0 /\ Len(taken) = 0 /\ Len(subs) = 0 /\ Len(loop) = 0
  BY DEF Init, InFlight
<1>4. QueueInv
  BY <1>3, BusAssumption DEF Init, QueueInv, QueueIsNewestWindow, Accounting
<1>5. TakenInv
  BY <1>3 DEF Init, TakenInv
<1>6. LoopInv
  BY <1>3 DEF LoopInv
<1>7. DeliveredInv
  BY DEF Init, DeliveredInv, InOrder
<1>8. ServedInv
  BY <1>3 DEF Init, ServedInv, Served
<1>9. QED
  BY <1>1, <1>2, <1>4, <1>5, <1>6, <1>7, <1>8 DEF IInv

\* Every step of the bus keeps the inductive invariant.
LEMMA StepKeepsIInv ==
  ASSUME IInv, [Next]_vars
  PROVE  IInv'
<1>1. TypeOK'
  BY StepTyped DEF IInv
<1>2. QED
  BY <1>1, ControlInductive, QueueStep, TakenInductive, LoopInductive, DeliveredInductive,
     ServedInductive
  DEF IInv

\* The inductive invariant of the bus.
THEOREM Inductive == Spec => []IInv
<1>1. IInv /\ [Next]_vars => IInv'
  BY StepKeepsIInv
<1>2. QED
  BY <1>1, InitiallyIInv, PTL DEF Spec

\* The counters stats() reports account for every publish() call
\* (event_bus.py:83-95, 135-176).
THEOREM AccountingAlways == Spec => []Accounting
<1>1. IInv => Accounting
  BY DEF IInv, QueueInv
<1>2. QED
  BY <1>1, Inductive, PTL

\* Overflow costs the oldest events only (event_bus.py:83-95).
THEOREM QueueAlwaysNewestWindow == Spec => []QueueIsNewestWindow
<1>1. IInv => QueueIsNewestWindow
  BY DEF IInv, QueueInv
<1>2. QED
  BY <1>1, Inductive, PTL

\* Every handler sees the events in publish order, each at most once
\* (event_bus.py:135-176).
THEOREM InOrderAlways == Spec => []InOrder
<1>1. IInv => InOrder
  BY DEF IInv, DeliveredInv
<1>2. QED
  BY <1>1, Inductive, PTL

\* A raising handler takes no event from the others (event_bus.py:145-176).
THEOREM ServedAlways == Spec => []Served
<1>1. IInv => Served
  BY DEF IInv, ServedInv
<1>2. QED
  BY <1>1, Inductive, PTL

\* What may be relied on after stop() (event_bus.py:119-143).
THEOREM StopIsClean == Spec => []CleanStop
<1>1. IInv => CleanStop
  <2> SUFFICES ASSUME IInv, owner = "stopped" PROVE
        /\ drained => queue = <<>>
        /\ thread # "running" =>
             queue = <<>> /\ published + refused = dispatched + dropped
    BY DEF CleanStop
  <2>1. drained => queue = <<>>
    BY DEF IInv, Control
  <2>2. ASSUME thread # "running"
        PROVE  queue = <<>> /\ published + refused = dispatched + dropped
    <3>1. queue = <<>> /\ InFlight = 0
      BY <2>2 DEF IInv, Control, TypeOK, Dispatching, InFlight
    <3>2. Len(queue) = 0
      BY <3>1
    <3>3. published + refused = dispatched + InFlight + Len(queue) + dropped
      BY DEF IInv, QueueInv, Accounting
    <3>4. dispatched \in Nat /\ dropped \in Nat
      BY Sizes DEF IInv
    <3>5. QED
      BY <3>1, <3>2, <3>3, <3>4
  <2>3. QED
    BY <2>1, <2>2
<1>2. QED
  BY <1>1, Inductive, PTL

(***************************************************************************)
(* The refinement of OrderedFeed                                           *)
(***************************************************************************)

\* Adding an event adds its id, if the handler wants it.
LEMMA AppendedIds ==
  ASSUME NEW h, NEW q \in Seq(Event), NEW e \in Event
  PROVE  WantedIds(h, Append(q, e))
           = WantedIds(h, q) \cup (IF e.type \in Wants[h] THEN {e.id} ELSE {})
<1> DEFINE a == Append(q, e)
<1>1. /\ Len(a) = Len(q) + 1
      /\ \A i \in 1..Len(q) : a[i] = q[i]
      /\ a[Len(q) + 1] = e
  BY AppendProperties
<1>2. Len(q) \in Nat
  BY LenProperties
<1>3. \A i \in 1..Len(a) : i \in 1..Len(q) \/ i = Len(q) + 1
  BY <1>1, <1>2
<1>4. \A i \in 1..Len(q) : i \in 1..Len(a)
  BY <1>1, <1>2
<1>5. Len(q) + 1 \in 1..Len(a)
  BY <1>1, <1>2
<1> HIDE DEF a
<1>6. WantedIds(h, a) = WantedIds(h, q) \cup (IF e.type \in Wants[h] THEN {e.id} ELSE {})
  BY <1>1, <1>3, <1>4, <1>5 DEF WantedIds
<1>7. QED
  BY <1>6 DEF a

\* In publish order.
InPublishOrder(q) == \A i, j \in 1..Len(q) : i < j => q[i].id < q[j].id

\* Removing the head removes its id and no other.
LEMMA TailIds ==
  ASSUME NEW h, NEW q \in Seq(Event), q # <<>>, InPublishOrder(q)
  PROVE  /\ WantedIds(h, Tail(q)) = WantedIds(h, q) \ {Head(q).id}
         /\ Head(q).id \in WantedIds(h, q) <=> Head(q).type \in Wants[h]
         /\ \A id \in WantedIds(h, q) : Head(q).id <= id
<1> DEFINE t == Tail(q)
<1>1. /\ t \in Seq(Event) /\ Len(t) = Len(q) - 1
      /\ \A i \in 1..Len(t) : t[i] = q[i + 1]
      /\ Head(q) = q[1]
  BY HeadTailProperties
<1>2. Len(q) \in Nat /\ 1 \in 1..Len(q)
  BY LenProperties, EmptySeq
<1>3. \A i \in 1..Len(q) : q[i].id \in Nat
  <2>1. \A i \in 1..Len(q) : q[i] \in Event
    BY ElementOfSeq
  <2>2. QED
    BY <2>1 DEF Event
<1>4. \A i \in 1..Len(q) : i # 1 => q[1].id < q[i].id
  BY <1>2 DEF InPublishOrder
<1>5. \A i \in 1..Len(q) : i # 1 => q[i].id # q[1].id
  BY <1>2, <1>3, <1>4
<1>6. \A i \in 1..Len(q) : i # 1 => \E j \in 1..Len(t) : t[j] = q[i]
  <2> TAKE i \in 1..Len(q)
  <2> HAVE i # 1
  <2>1. i - 1 \in 1..Len(t) /\ (i - 1) + 1 = i
    BY <1>1, <1>2
  <2>2. QED
    BY <1>1, <2>1
<1>7. \A j \in 1..Len(t) : \E i \in 1..Len(q) : i # 1 /\ t[j] = q[i]
  <2> TAKE j \in 1..Len(t)
  <2>1. j + 1 \in 1..Len(q) /\ j + 1 # 1
    BY <1>1, <1>2
  <2>2. QED
    BY <1>1, <2>1
<1> HIDE DEF t
<1>8. WantedIds(h, t) = WantedIds(h, q) \ {q[1].id}
  <2>1. \A id \in WantedIds(h, t) : id \in WantedIds(h, q) /\ id # q[1].id
    BY <1>5, <1>7 DEF WantedIds
  <2>2. \A id \in WantedIds(h, q) : id # q[1].id => id \in WantedIds(h, t)
    BY <1>6 DEF WantedIds
  <2>3. QED
    BY <2>1, <2>2
<1>9. q[1].id \in WantedIds(h, q) <=> q[1].type \in Wants[h]
  BY <1>2, <1>5 DEF WantedIds
<1>10. \A id \in WantedIds(h, q) : q[1].id <= id
  <2>1. \A i \in 1..Len(q) : q[1].id <= q[i].id
    BY <1>2, <1>3, <1>4
  <2>2. QED
    BY <2>1 DEF WantedIds
<1>11. QED
  BY <1>1, <1>8, <1>9, <1>10 DEF t

\* What the invariant says of the ids a handler is owed.
LEMMA OwedIds ==
  ASSUME IInv, NEW h \in Handlers
  PROVE  /\ InPublishOrder(queue)
         /\ \A id \in WantedIds(h, queue) : id \in Nat /\ id < published + 1
         /\ inflight # NoEvent =>
              /\ inflight.id \in Nat /\ inflight.id < published + 1
              /\ \A i \in 1..Len(queue) : inflight.id < queue[i].id
              /\ \A id \in WantedIds(h, queue) : inflight.id < id
<1>1. /\ Len(queue) \in Nat /\ published \in Nat /\ Len(taken) \in Nat
      /\ InFlight \in Nat /\ dispatched \in Nat
      /\ \A i \in 1..Len(queue) : queue[i].id \in Nat
      /\ inflight # NoEvent => inflight.id \in Nat
  BY Sizes, Ids DEF IInv
<1>2. \A i \in 1..Len(queue) : queue[i].id + Len(queue) = published + i
  BY DEF IInv, QueueInv, QueueIsNewestWindow
<1>3. \A i \in 1..Len(queue) : queue[i].id < published + 1
  BY <1>1, <1>2
<1>4. InPublishOrder(queue)
  BY <1>1, <1>2 DEF InPublishOrder
<1>5. ASSUME inflight # NoEvent
      PROVE  /\ inflight.id < published + 1
             /\ \A i \in 1..Len(queue) : inflight.id < queue[i].id
  <2>1. Len(taken) = dispatched + 1
    BY <1>5 DEF IInv, TakenInv, InFlight
  <2>2. Len(taken) \in 1..Len(taken) /\ inflight = taken[Len(taken)]
    BY <1>1, <1>5, <2>1 DEF IInv, TakenInv
  <2>3. inflight.id + Len(queue) <= published
    BY <2>2 DEF IInv, TakenInv
  <2>4. inflight.id \in Nat
    BY <1>1, <1>5
  <2>5. QED
    BY <1>1, <1>2, <2>3, <2>4
<1>6. \A id \in WantedIds(h, queue) :
        /\ id \in Nat /\ id < published + 1
        /\ inflight # NoEvent => inflight.id < id
  BY <1>1, <1>3, <1>5 DEF WantedIds
<1>7. QED
  BY <1>1, <1>4, <1>5, <1>6

\* A publish() is the acceptance of the next item, which the handler may not want,
\* and costs it the oldest queued event at most.
LEMMA PublishFeeds ==
  ASSUME IInv, NEW h \in Handlers, NEW t \in Types, Publish(t)
  PROVE  Feed(h)!Next
<1> DEFINE n == published + 1
           e == [id |-> n, type |-> t]
           room == WithRoom
           kept == InHand(h) \cup WantedIds(h, room)
<1>1. /\ published \in Nat /\ refused \in Nat /\ MaxEvents \in Nat
      /\ Len(queue) \in Nat /\ Capacity \in Nat \ {0} /\ queue \in Seq(Event)
  BY Sizes, BusAssumption DEF IInv, TypeOK
<1>2. n \in 1..MaxEvents /\ e \in Event
  BY <1>1 DEF Publish, MayPublish, Event
<1>3. /\ UNCHANGED <<stopping, delivered>> /\ ~stopping
      /\ InHand(h)' = InHand(h) /\ Subscribed(h)' = Subscribed(h)
      /\ queue' = Append(room, e)
  BY DEF Publish, InHand, Subscribed, dispatching, history
<1>4. Full => queue # <<>>
  BY <1>1, EmptySeq DEF Full
<1>5. /\ room \in Seq(Event)
      /\ Len(room) + 1 = IF Len(queue) < Capacity THEN Len(queue) + 1 ELSE Len(queue)
  BY <1>1, <1>4, HeadTailProperties DEF Full, WithRoom
<1>6. Len(queue') = IF Len(queue) < Capacity THEN Len(queue) + 1 ELSE Len(queue)
  BY <1>2, <1>3, <1>5, AppendProperties
<1>7. kept \in Feed(h)!Kept
  <2>1. CASE ~Full
    BY <1>1, <2>1 DEF WithRoom, Full, Owed, Feed!Kept
  <2>2. CASE Full
    <3>1. /\ WantedIds(h, room) = WantedIds(h, queue) \ {Head(queue).id}
          /\ Head(queue).id \in WantedIds(h, queue) <=> Head(queue).type \in Wants[h]
      BY <1>1, <1>4, <2>2, OwedIds, TailIds DEF WithRoom
    <3>2. ~(Len(queue) < Capacity)
      BY <1>1, <2>2 DEF Full
    <3>3. Head(queue).id \notin InHand(h)
      <4>1. Head(queue) = queue[1] /\ 1 \in 1..Len(queue)
        BY <1>1, <1>4, <2>2, EmptySeq, HeadTailProperties
      <4>2. inflight # NoEvent => inflight.id < queue[1].id /\ inflight.id \in Nat
        BY <4>1, OwedIds
      <4>3. inflight # NoEvent => inflight.id # queue[1].id
        BY <4>2
      <4>4. QED
        BY <4>1, <4>3 DEF InHand
    <3>4. kept = Owed(h) \ {Head(queue).id}
      BY <3>1, <3>3 DEF Owed
    <3>5. CASE Head(queue).id \in WantedIds(h, queue)
      BY <3>2, <3>4, <3>5 DEF Feed!Kept, Owed
    <3>6. CASE Head(queue).id \notin WantedIds(h, queue)
      <4>1. kept = Owed(h)
        BY <3>1, <3>6 DEF Owed
      <4>2. QED
        BY <3>2, <4>1 DEF Feed!Kept
    <3>7. QED
      BY <3>5, <3>6
  <2>3. QED
    BY <2>1, <2>2
<1>8. Owed(h)' \in {kept, kept \cup {n}}
  <2>1. WantedIds(h, queue') = WantedIds(h, room) \cup (IF t \in Wants[h] THEN {n} ELSE {})
    BY <1>2, <1>3, <1>5, AppendedIds
  <2>2. Owed(h)' = InHand(h) \cup WantedIds(h, queue')
    BY <1>3 DEF Owed
  <2>3. QED
    BY <2>1, <2>2
<1>9. Feed(h)!Accept(n)
  BY <1>3, <1>6, <1>7, <1>8 DEF Feed!Accept
<1>10. Feed(h)!Newer(n)
  <2>1. \A i \in Owed(h) : i < n
    BY OwedIds DEF Owed, InHand
  <2>2. \A i \in 1..Len(delivered[h]) : delivered[h][i] < n
    <3>1. \A i \in 1..Len(delivered[h]) :
            delivered[h][i] \in Nat /\ delivered[h][i] + Len(queue) <= published
      BY Ids DEF IInv, DeliveredInv
    <3>2. QED
      BY <1>1, <3>1
  <2>3. DOMAIN delivered[h] = 1..Len(delivered[h])
    BY LenProperties DEF IInv, TypeOK
  <2>4. QED
    BY <2>1, <2>2, <2>3 DEF Feed!Newer
<1>11. QED
  BY <1>2, <1>9, <1>10 DEF Feed!Next

\* A pop moves the handler's oldest event from the queue to the hand; only a handler
\* that was not subscribed loses it.
LEMMA TakeFeeds ==
  ASSUME IInv, NEW h \in Handlers, Take
  PROVE  Feed(h)!Next
<1> DEFINE e == Head(queue)
<1>1. /\ queue # <<>> /\ inflight = NoEvent /\ inflight' = e
      /\ queue' = Tail(queue) /\ loop' = subs /\ at' = 1
      /\ UNCHANGED <<subs, stopping, delivered>>
  BY DEF Take, Oldest, Popped
<1>2. /\ queue \in Seq(Event) /\ Len(queue) \in Nat /\ Len(queue) > 0
      /\ Len(queue') = Len(queue) - 1 /\ e \in Event
  BY <1>1, EmptySeq, LenProperties, HeadTailProperties DEF IInv, TypeOK
<1>3. /\ WantedIds(h, queue') = WantedIds(h, queue) \ {e.id}
      /\ e.id \in WantedIds(h, queue) <=> e.type \in Wants[h]
      /\ \A id \in WantedIds(h, queue) : e.id <= id
  BY <1>1, <1>2, OwedIds, TailIds
<1>4. Owed(h) = WantedIds(h, queue)
  BY <1>1 DEF Owed, InHand
<1>5. e # NoEvent
  BY <1>2, BusAssumption DEF Event
<1>6. InHand(h)' = IF e.type \in Wants[h] /\ Subscribed(h) THEN {e.id} ELSE {}
  <2>1. (\E i \in at'..Len(loop') : loop'[i] = h) <=> Subscribed(h)
    BY <1>1 DEF Subscribed
  <2>2. QED
    BY <1>1, <1>5, <2>1 DEF InHand
<1>7. Subscribed(h)' = Subscribed(h)
  BY <1>1 DEF Subscribed
<1>8. Owed(h)' = InHand(h)' \cup WantedIds(h, queue')
  BY DEF Owed
<1>9. \/ Owed(h)' = Owed(h)
      \/ ~Subscribed(h) /\ e.id \in Owed(h) /\ Owed(h)' = Owed(h) \ {e.id}
  <2>1. CASE e.type \in Wants[h] /\ Subscribed(h)
    BY <2>1, <1>3, <1>4, <1>6, <1>8
  <2>2. CASE e.type \in Wants[h] /\ ~Subscribed(h)
    BY <2>2, <1>3, <1>4, <1>6, <1>8
  <2>3. CASE e.type \notin Wants[h]
    BY <2>3, <1>3, <1>4, <1>6, <1>8
  <2>4. QED
    BY <2>1, <2>2, <2>3
<1>10. e.id \in Owed(h) => Feed(h)!Oldest(e.id)
  BY <1>3, <1>4 DEF Feed!Oldest
<1>11. Feed(h)!Take
  BY <1>1, <1>2, <1>7, <1>9, <1>10 DEF Feed!Take
<1>12. QED
  BY <1>11 DEF Feed!Next

\* A call hands its handler the oldest event owed to it, and leaves the others'
\* promises alone.
LEMMA CallFeeds ==
  ASSUME IInv, NEW h \in Handlers, NEW r \in BOOLEAN, Call(r)
  PROVE  Feed(h)!Next \/ UNCHANGED Feed(h)!vars
<1> DEFINE e == inflight.id
<1>1. /\ inflight # NoEvent /\ at \in 1..Len(loop) /\ at' = at + 1
      /\ inflight.type \in Wants[loop[at]]
      /\ delivered' = [delivered EXCEPT ![loop[at]] = Append(@, e)]
      /\ UNCHANGED <<queue, subs, stopping, inflight, loop>>
  BY Sizes DEF Call, AfterCall, IInv, TypeOK
<1>2. Len(loop) \in Nat /\ at \in Nat
  BY Sizes DEF IInv
<1>3. Subscribed(h)' = Subscribed(h)
  BY <1>1 DEF Subscribed
<1>4. Owed(h)' = InHand(h)' \cup WantedIds(h, queue)
  BY <1>1 DEF Owed
<1>5. CASE h = loop[at]
  <2>1. InHand(h) = {e}
    BY <1>1, <1>2, <1>5 DEF InHand
  <2>2. ~\E i \in at'..Len(loop') : loop'[i] = h
    <3>1. \A i \in (at + 1)..Len(loop) : i \in 1..Len(loop) /\ i # at
      BY <1>1, <1>2
    <3>2. \A i \in (at + 1)..Len(loop) : loop[i] # h
      BY <1>1, <1>5, <3>1 DEF IInv, LoopInv
    <3>3. QED
      BY <1>1, <3>2
  <2>3. InHand(h)' = {}
    BY <2>2 DEF InHand
  <2>4. e \in Nat /\ \A id \in WantedIds(h, queue) : e < id /\ id \in Nat
    BY <1>1, OwedIds
  <2>5. e \notin WantedIds(h, queue) /\ \A id \in WantedIds(h, queue) : e <= id
    BY <2>4
  <2>6. e <= e
    BY <2>4
  <2>7. Owed(h)' = Owed(h) \ {e} /\ e \in Owed(h) /\ \A id \in Owed(h) : e <= id
    BY <1>4, <2>1, <2>3, <2>5, <2>6 DEF Owed
  <2>8. delivered'[h] = Append(delivered[h], e)
    BY <1>1, <1>5 DEF IInv, TypeOK
  <2>9. Subscribed(h)
    BY <1>1, <1>5 DEF IInv, LoopInv
  <2>10. Feed(h)!Hand
    BY <1>1, <1>3, <2>7, <2>8, <2>9 DEF Feed!Hand, Feed!Oldest
  <2>11. QED
    BY <2>10 DEF Feed!Next
<1>6. CASE h # loop[at]
  <2>1. \A i \in at..Len(loop) : loop[i] = h => i \in (at + 1)..Len(loop)
    BY <1>1, <1>2, <1>6
  <2>2. \A i \in (at + 1)..Len(loop) : i \in at..Len(loop)
    BY <1>2
  <2>3. (\E i \in at'..Len(loop') : loop'[i] = h) <=> \E i \in at..Len(loop) : loop[i] = h
    BY <1>1, <2>1, <2>2
  <2>4. InHand(h)' = InHand(h)
    BY <1>1, <2>3 DEF InHand
  <2>5. Owed(h)' = Owed(h)
    BY <1>4, <2>4 DEF Owed
  <2>6. delivered'[h] = delivered[h]
    BY <1>1, <1>6 DEF IInv, TypeOK
  <2>7. UNCHANGED Feed(h)!vars
    BY <1>1, <1>3, <2>5, <2>6 DEF Feed!vars
  <2>8. QED
    BY <2>7
<1>7. QED
  BY <1>5, <1>6

\* Every step of the bus is a step of every handler's feed, or none.
LEMMA StepFeeds ==
  ASSUME IInv, [Next]_vars, NEW h \in Handlers
  PROVE  [Feed(h)!Next]_(Feed(h)!vars)
<1>1. ASSUME NEW t \in Types, Publish(t) PROVE Feed(h)!Next
  BY <1>1, PublishFeeds
<1>2. ASSUME UNCHANGED <<queue, subs, stopping, dispatching, delivered>>
      PROVE  UNCHANGED Feed(h)!vars
  BY <1>2 DEF Feed!vars, Owed, InHand, Subscribed, dispatching
<1>3. CASE PublishRefused \/ UNCHANGED vars
  BY <1>2, <1>3 DEF PublishRefused, vars, dispatching
<1>4. ASSUME NEW g \in Handlers, Subscribe(g) PROVE [Feed(h)!Next]_(Feed(h)!vars)
  <2>1. /\ UNCHANGED <<queue, stopping, dispatching, delivered>>
        /\ subs' = Append(subs, g) /\ subs \in Seq(Handlers)
    BY <1>4 DEF Subscribe, IInv, TypeOK
  <2>2. Owed(h)' = Owed(h)
    BY <2>1 DEF Owed, InHand, dispatching
  <2>3. /\ Len(subs') = Len(subs) + 1 /\ Len(subs) \in Nat
        /\ \A i \in 1..Len(subs) : subs'[i] = subs[i]
        /\ subs'[Len(subs) + 1] = g
    BY <2>1, AppendProperties, LenProperties
  <2>4. CASE g = h
    <3>1. Subscribed(h)'
      BY <2>3, <2>4 DEF Subscribed
    <3>2. Feed(h)!Attach
      BY <2>1, <2>2, <3>1 DEF Feed!Attach
    <3>3. QED
      BY <3>2 DEF Feed!Next
  <2>5. CASE g # h
    <3>1. Subscribed(h)' <=> Subscribed(h)
      BY <2>3, <2>5 DEF Subscribed
    <3>2. Subscribed(h)' = Subscribed(h)
      BY <3>1 DEF Subscribed
    <3>3. QED
      BY <2>1, <2>2, <3>2 DEF Feed!vars
  <2>6. QED
    BY <2>4, <2>5
<1>5. CASE ControlStep
  <2>1. CASE Stop
    <3>1. UNCHANGED <<queue, subs, dispatching, delivered>> /\ stopping' = TRUE
      BY <2>1 DEF Stop
    <3>2. Owed(h)' = Owed(h) /\ Subscribed(h)' = Subscribed(h)
      BY <3>1 DEF Owed, InHand, Subscribed, dispatching
    <3>3. Feed(h)!Close
      BY <3>1, <3>2 DEF Feed!Close
    <3>4. QED
      BY <3>3 DEF Feed!Next
  <2>2. CASE Start \/ DispatchPending \/ PendingDone \/ StopReturns \/ ThreadExit
    <3>1. UNCHANGED <<queue, subs, stopping, dispatching, delivered>>
      BY <2>2 DEF Start, DispatchPending, PendingDone, StopReturns, ThreadExit, history
    <3>2. QED
      BY <1>2, <3>1
  <2>3. QED
    BY <1>5, <2>1, <2>2 DEF ControlStep
<1>6. CASE Take
  BY <1>6, TakeFeeds
<1>7. CASE Skip
  <2>1. /\ UNCHANGED <<queue, subs, stopping, inflight, loop, delivered>> /\ at' = at + 1
        /\ inflight.type \notin Wants[loop[at]]
    BY <1>7 DEF Skip, history
  <2>2. at \in Nat /\ Len(loop) \in Nat
    BY Sizes DEF IInv
  <2>3. InHand(h)' = InHand(h)
    <3>1. CASE inflight.type \in Wants[h]
      <4>1. \A i \in at..Len(loop) : loop[i] = h => i \in (at + 1)..Len(loop)
        BY <2>1, <2>2, <3>1
      <4>2. \A i \in (at + 1)..Len(loop) : i \in at..Len(loop)
        BY <2>2
      <4>3. QED
        BY <2>1, <4>1, <4>2 DEF InHand
    <3>2. CASE inflight.type \notin Wants[h]
      BY <2>1, <3>2 DEF InHand
    <3>3. QED
      BY <3>1, <3>2
  <2>4. QED
    BY <2>1, <2>3 DEF Feed!vars, Owed, Subscribed
<1>8. ASSUME NEW r \in BOOLEAN, Call(r) PROVE [Feed(h)!Next]_(Feed(h)!vars)
  BY <1>8, CallFeeds
<1>9. CASE Finish
  <2>1. /\ UNCHANGED <<queue, subs, stopping, delivered>>
        /\ inflight' = NoEvent /\ at > Len(loop)
    BY <1>9 DEF Finish, history
  <2>2. at \in Nat /\ Len(loop) \in Nat
    BY Sizes DEF IInv
  <2>3. ~\E i \in at..Len(loop) : loop[i] = h
    BY <2>1, <2>2
  <2>4. InHand(h)' = {} /\ InHand(h) = {}
    BY <2>1, <2>3 DEF InHand
  <2>5. QED
    BY <2>1, <2>4 DEF Feed!vars, Owed, Subscribed
<1>10. QED
  BY <1>1, <1>3, <1>4, <1>5, <1>6, <1>7, <1>8, <1>9, NextCases

\* A new bus is a new feed for every handler.
LEMMA InitiallyFeeds ==
  ASSUME Init, NEW h \in Handlers
  PROVE  Feed(h)!Init
<1>1. /\ queue = <<>> /\ subs = <<>> /\ stopping = FALSE /\ inflight = NoEvent
      /\ delivered[h] = <<>>
  BY DEF Init
<1>2. Len(queue) = 0 /\ ~Subscribed(h)
  BY <1>1 DEF Subscribed
<1>3. Owed(h) = {}
  BY <1>1, <1>2 DEF Owed, InHand, WantedIds
<1>4. Subscribed(h) = FALSE
  BY <1>2 DEF Subscribed
<1>5. QED
  BY <1>1, <1>2, <1>3, <1>4 DEF Feed!Init

\* The bus implements the ordered feed for every handler: whatever the capacity, the
\* filters and the other handlers do, what a handler is owed reaches it in publish
\* order and once, and vanishes only through an overflow (event_bus.py:83-176).
THEOREM BusFeedsEveryHandler == Spec => FeedSpec
<1>1. Init => \A h \in Handlers : Feed(h)!Init
  BY InitiallyFeeds
<1>2. IInv /\ [Next]_vars => [\A h \in Handlers : [Feed(h)!Next]_(Feed(h)!vars)]_vars
  BY StepFeeds
<1>3. QED
  BY <1>1, <1>2, Inductive, PTL DEF Spec, FeedSpec

\* The same, as the implementation of the abstract specification by each handler.
THEOREM ImplementsFeed ==
  ASSUME NEW h \in Handlers
  PROVE  Spec => Feed(h)!Spec
<1>1. Init => Feed(h)!Init
  BY InitiallyFeeds
<1>2. IInv /\ [Next]_vars => [Feed(h)!Next]_(Feed(h)!vars)
  BY StepFeeds
<1>3. QED
  BY <1>1, <1>2, Inductive, PTL DEF Spec, Feed!Spec
=============================================================================
