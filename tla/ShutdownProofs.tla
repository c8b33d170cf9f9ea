--------------------------- MODULE ShutdownProofs ---------------------------
(***************************************************************************)
(* Proofs about Shutdown: the bus, the writer and the engine's order of    *)
(* starting and stopping them, for any handlers and types, any capacities  *)
(* and batch size, and whichever joins time out.  A step of the whole is   *)
(* a step of the bus or leaves it alone, so what EventBusProofs shows of   *)
(* the bus holds here too and is used below.                               *)
(***************************************************************************)
EXTENDS Shutdown, EventBusProofs, FiniteSetTheorems

(***************************************************************************)
(* The inductive invariant, in named parts.                                *)
(***************************************************************************)
Stages == {"subscribing", "starting", "up", "stopping bus", "bus stopped",
           "stopping writer", "stopped", "exited"}

WriterTypeOK ==
  /\ items \in Seq(Nat) /\ batch \in Seq(Nat) /\ database \in Seq(Nat)
  /\ evicted \in SUBSET Nat /\ failed \in SUBSET Nat /\ ignored \in SUBSET Nat
  /\ closing \in BOOLEAN
  /\ writer \in {"none", "opening", "running", "failed", "ended"}
  /\ engine \in Stages

Increasing(s) == \A i, j \in 1..Len(s) : i < j => s[i] < s[j]
Before(S, T) == \A x \in S, y \in T : x < y
TakenIds == {taken[i].id : i \in 1..Len(taken)}

\* What the storage handler was called with.
Handed == SetOf(items) \cup SetOf(batch) \cup SetOf(database) \cup evicted \cup failed \cup ignored

HandedInv ==
  /\ Handed = SetOf(delivered[Storage])
  /\ Handed \subseteq TakenIds

\* The database, the batch and the queue behind it are one line, oldest first.
LineInv ==
  /\ Increasing(items) /\ Increasing(batch) /\ Increasing(database)
  /\ Before(SetOf(batch), SetOf(items))
  /\ Before(SetOf(database), SetOf(batch) \cup SetOf(items))

\* What the writer lost it did not also keep, and lost in one way.
ApartInv ==
  /\ evicted \cap failed = {} /\ evicted \cap ignored = {} /\ failed \cap ignored = {}
  /\ (evicted \cup failed \cup ignored) \cap
       (SetOf(items) \cup SetOf(batch) \cup SetOf(database)) = {}

\* Nothing was published yet.
Fresh == published = 0 /\ queue = <<>> /\ taken = <<>>

\* How far the engine, the bus and the writer are from one another.
StageInv ==
  /\ engine \in {"subscribing", "starting"} => Fresh
  /\ engine = "subscribing" => writer = "none"
  /\ engine \in {"starting", "up"} => writer # "none"
  /\ writer = "none" => Fresh
  /\ Subscribed(Storage) => since[Storage] = 0
  /\ engine \in {"stopping bus", "bus stopped", "stopping writer", "stopped"} => stopping
  /\ engine \in {"bus stopped", "stopping writer", "stopped"} =>
       owner = "stopped" /\ (thread = "running" => "bus" \in late)
  /\ engine \in {"stopping writer", "stopped"} => closing
  /\ closing => engine \in {"stopping writer", "stopped", "exited"}
  /\ ignored # {} => "bus" \in late
  /\ engine = "stopped" /\ writer \in {"opening", "running"} => "writer" \in late
  /\ writer # "running" => batch = <<>>
  /\ writer = "ended" => closing /\ items = <<>>

PipelineInv == WriterTypeOK /\ HandedInv /\ LineInv /\ ApartInv /\ StageInv

-----------------------------------------------------------------------------
(***************************************************************************)
(* Sequences of ids                                                        *)
(***************************************************************************)

\* A sequence of ids as a set is finite where it is a sequence, and both ways of
\* writing it agree.
LEMMA SetOfFacts ==
  ASSUME NEW S, NEW s \in Seq(S)
  PROVE  SetOf(s) = ToSet(s) /\ SetOf(s) \subseteq S /\ Len(s) \in Nat
BY LenProperties, ElementOfSeq DEF SetOf, ToSet

LEMMA SetOfEmpty == SetOf(<<>>) = {} /\ Increasing(<<>>)
BY EmptySeq DEF SetOf, Increasing

\* A new last element.
LEMMA AddLast ==
  ASSUME NEW s \in Seq(Nat), NEW e \in Nat
  PROVE  /\ Append(s, e) \in Seq(Nat)
         /\ SetOf(Append(s, e)) = SetOf(s) \cup {e}
         /\ Increasing(s) /\ (\A x \in SetOf(s) : x < e) => Increasing(Append(s, e))
<1> DEFINE t == Append(s, e)
<1>1. /\ t \in Seq(Nat) /\ Len(t) = Len(s) + 1 /\ Len(s) \in Nat
      /\ \A i \in 1..Len(s) : t[i] = s[i] /\ s[i] \in SetOf(s)
      /\ t[Len(s) + 1] = e
  BY AppendProperties, LenProperties DEF SetOf
<1> HIDE DEF t
<1>2. \A i \in 1..Len(t) : i \in 1..Len(s) \/ i = Len(s) + 1
  BY <1>1
<1>3. SetOf(t) \subseteq SetOf(s) \cup {e}
  BY <1>1, <1>2 DEF SetOf
<1>4. SetOf(s) \cup {e} \subseteq SetOf(t)
  <2>1. Len(s) + 1 \in 1..Len(t) /\ 1..Len(s) \subseteq 1..Len(t)
    BY <1>1
  <2>2. \A x \in SetOf(s) : \E i \in 1..Len(t) : t[i] = x
    BY <1>1, <2>1 DEF SetOf
  <2> QED BY <1>1, <2>1, <2>2 DEF SetOf
<1>5. ASSUME Increasing(s), \A x \in SetOf(s) : x < e PROVE Increasing(t)
  <2> SUFFICES ASSUME NEW i \in 1..Len(t), NEW j \in 1..Len(t), i < j PROVE t[i] < t[j]
    BY DEF Increasing
  <2>1. i \in 1..Len(s)
    BY <1>1
  <2>2. CASE j \in 1..Len(s)
    BY <1>1, <1>5, <2>1, <2>2 DEF Increasing
  <2>3. CASE j = Len(s) + 1
    BY <1>1, <1>5, <2>1, <2>3
  <2> QED BY <1>2, <2>2, <2>3
<1> QED BY <1>1, <1>3, <1>4, <1>5 DEF t

\* A first part and the rest.
LEMMA Split ==
  ASSUME NEW s \in Seq(Nat), NEW n \in Nat, n <= Len(s)
  PROVE  LET a == SubSeq(s, 1, n)
             b == SubSeq(s, n + 1, Len(s))
         IN  /\ a \in Seq(Nat) /\ b \in Seq(Nat)
             /\ SetOf(s) = SetOf(a) \cup SetOf(b)
             /\ Increasing(s) => Increasing(a) /\ Increasing(b) /\ Before(SetOf(a), SetOf(b))
<1> DEFINE a == SubSeq(s, 1, n)
           b == SubSeq(s, n + 1, Len(s))
<1>1. Len(s) \in Nat
  BY LenProperties
<1>2. 1..n \subseteq 1..Len(s)
  BY <1>1
<1>3. \A i \in 1..(Len(s) - n) : n + i \in 1..Len(s)
  BY <1>1
<1>4. \A i \in 1..Len(s) : s[i] \in Nat
  BY ElementOfSeq
<1>5. /\ a \in Seq(Nat) /\ Len(a) = n /\ \A i \in 1..n : a[i] = s[i]
  <2>1. \A i \in 1..n : s[i] \in Nat
    BY <1>1, <1>4
  <2> QED BY <1>1, <2>1, SubSeqProperties
<1>6. /\ b \in Seq(Nat) /\ Len(b) = Len(s) - n /\ \A i \in 1..(Len(s) - n) : b[i] = s[n + i]
  <2>1. \A i \in (n + 1)..Len(s) : s[i] \in Nat
    BY <1>1, <1>4
  <2>2. /\ b \in Seq(Nat)
        /\ Len(b) = IF n + 1 <= Len(s) THEN Len(s) - (n + 1) + 1 ELSE 0
        /\ \A i \in 1..(Len(s) - (n + 1) + 1) : b[i] = s[n + 1 + i - 1]
    BY <1>1, <2>1, SubSeqProperties
  <2> QED BY <1>1, <2>2
<1> HIDE DEF a, b
<1>7. SetOf(s) = SetOf(a) \cup SetOf(b)
  <2>1. ASSUME NEW i \in 1..Len(s) PROVE s[i] \in SetOf(a) \cup SetOf(b)
    <3>1. CASE i <= n
      BY <1>5, <2>1, <3>1 DEF SetOf
    <3>2. CASE i > n
      <4>1. i - n \in 1..(Len(s) - n) /\ n + (i - n) = i
        BY <1>1, <3>2
      <4>2. b[i - n] = s[i]
        BY <1>6, <4>1
      <4> QED BY <1>6, <4>1, <4>2 DEF SetOf
    <3> QED BY <1>1, <3>1, <3>2
  <2>2. \A i \in 1..n : a[i] \in SetOf(s)
    BY <1>1, <1>5 DEF SetOf
  <2>3. ASSUME NEW i \in 1..(Len(s) - n) PROVE b[i] \in SetOf(s)
    <3>1. n + i \in 1..Len(s)
      BY <1>3
    <3>2. b[i] = s[n + i]
      BY <1>6
    <3> QED BY <3>1, <3>2 DEF SetOf
  <2>4. SetOf(s) \subseteq SetOf(a) \cup SetOf(b)
    BY <2>1 DEF SetOf
  <2>5. SetOf(a) \subseteq SetOf(s)
    BY <1>5, <2>2 DEF SetOf
  <2>6. SetOf(b) \subseteq SetOf(s)
    BY <1>6, <2>3 DEF SetOf
  <2> QED BY <2>4, <2>5, <2>6
<1>8. ASSUME Increasing(s) PROVE Increasing(a) /\ Increasing(b) /\ Before(SetOf(a), SetOf(b))
  <2>1. Increasing(a)
    <3>1. ASSUME NEW i \in 1..n, NEW j \in 1..n, i < j PROVE a[i] < a[j]
      <4>1. i \in 1..Len(s) /\ j \in 1..Len(s)
        BY <1>2
      <4>2. s[i] < s[j]
        BY <1>8, <3>1, <4>1 DEF Increasing
      <4> QED BY <1>5, <4>2
    <3> QED BY <1>5, <3>1 DEF Increasing
  <2>2. Increasing(b)
    <3>1. ASSUME NEW i \in 1..(Len(s) - n), NEW j \in 1..(Len(s) - n), i < j PROVE b[i] < b[j]
      <4>1. n + i \in 1..Len(s) /\ n + j \in 1..Len(s)
        BY <1>3
      <4>2. n + i < n + j
        BY <1>1, <3>1
      <4> QED BY <1>6, <1>8, <4>1, <4>2 DEF Increasing
    <3> QED BY <1>6, <3>1 DEF Increasing
  <2>3. ASSUME NEW i \in 1..n, NEW j \in 1..(Len(s) - n) PROVE a[i] < b[j]
    <3>1. i \in 1..Len(s) /\ n + j \in 1..Len(s)
      BY <1>2, <1>3
    <3>2. i < n + j
      BY <1>1
    <3> QED BY <1>5, <1>6, <1>8, <3>1, <3>2 DEF Increasing
  <2> QED BY <1>5, <1>6, <2>1, <2>2, <2>3 DEF SetOf, Before
<1> QED BY <1>5, <1>6, <1>7, <1>8 DEF a, b

\* One sequence behind another.
LEMMA Join ==
  ASSUME NEW s \in Seq(Nat), NEW t \in Seq(Nat)
  PROVE  /\ s \o t \in Seq(Nat)
         /\ SetOf(s \o t) = SetOf(s) \cup SetOf(t)
         /\ Increasing(s) /\ Increasing(t) /\ Before(SetOf(s), SetOf(t)) => Increasing(s \o t)
<1> DEFINE u == s \o t
<1>1. /\ u \in Seq(Nat) /\ Len(u) = Len(s) + Len(t) /\ Len(s) \in Nat /\ Len(t) \in Nat
      /\ \A i \in 1..Len(u) : u[i] = IF i <= Len(s) THEN s[i] ELSE t[i - Len(s)]
  BY ConcatProperties, LenProperties
<1> HIDE DEF u
<1>2. \A i \in 1..Len(s) : i \in 1..Len(u) /\ u[i] = s[i] /\ s[i] \in SetOf(s)
  BY <1>1 DEF SetOf
<1>3. \A i \in 1..Len(t) :
        Len(s) + i \in 1..Len(u) /\ u[Len(s) + i] = t[i] /\ t[i] \in SetOf(t)
  <2> TAKE i \in 1..Len(t)
  <2>1. Len(s) + i \in 1..Len(u) /\ ~(Len(s) + i <= Len(s)) /\ Len(s) + i - Len(s) = i
    BY <1>1
  <2> QED BY <1>1, <2>1 DEF SetOf
<1>4. \A i \in 1..Len(u) : i \in 1..Len(s) \/ (i - Len(s) \in 1..Len(t) /\ u[i] = t[i - Len(s)])
  BY <1>1
<1>5. SetOf(u) \subseteq SetOf(s) \cup SetOf(t)
  BY <1>2, <1>3, <1>4 DEF SetOf
<1>6. SetOf(s) \cup SetOf(t) \subseteq SetOf(u)
  <2>1. \A x \in SetOf(s) : \E i \in 1..Len(u) : u[i] = x
    BY <1>2 DEF SetOf
  <2>2. \A x \in SetOf(t) : \E i \in 1..Len(u) : u[i] = x
    BY <1>3 DEF SetOf
  <2> QED BY <2>1, <2>2 DEF SetOf
<1>7. ASSUME Increasing(s), Increasing(t), Before(SetOf(s), SetOf(t)) PROVE Increasing(u)
  <2> SUFFICES ASSUME NEW i \in 1..Len(u), NEW j \in 1..Len(u), i < j PROVE u[i] < u[j]
    BY DEF Increasing
  <2>1. CASE j \in 1..Len(s)
    <3>1. i \in 1..Len(s)
      BY <1>1, <2>1
    <3> QED BY <1>2, <1>7, <2>1, <3>1 DEF Increasing
  <2>2. CASE i \in 1..Len(s) /\ j - Len(s) \in 1..Len(t) /\ u[j] = t[j - Len(s)]
    BY <1>2, <1>3, <1>7, <2>2 DEF Before
  <2>3. CASE /\ i - Len(s) \in 1..Len(t) /\ u[i] = t[i - Len(s)]
             /\ j - Len(s) \in 1..Len(t) /\ u[j] = t[j - Len(s)]
    <3>1. i - Len(s) < j - Len(s)
      BY <1>1
    <3> QED BY <1>7, <2>3, <3>1 DEF Increasing
  <2> QED BY <1>4, <2>1, <2>2, <2>3
<1> QED BY <1>1, <1>5, <1>6, <1>7 DEF u

\* As many ids as positions.
LEMMA Counted ==
  ASSUME NEW n \in Nat, NEW f \in [1..n -> Nat],
         \A i, j \in 1..n : i < j => f[i] < f[j]
  PROVE  /\ IsFiniteSet({f[i] : i \in 1..n})
         /\ Cardinality({f[i] : i \in 1..n}) = n
<1> DEFINE T == {f[i] : i \in 1..n}
<1>1. \A i, j \in 1..n : f[i] = f[j] => i = j
  OBVIOUS
<1>2. f \in Bijection(1..n, T)
  BY <1>1 DEF Bijection, Injection, Surjection, IsInjective
<1>3. IsFiniteSet(1..n) /\ Cardinality(1..n) = n
  BY FS_Interval
<1>4. ExistsBijection(1..n, T)
  BY <1>2 DEF ExistsBijection
<1> HIDE DEF T
<1>5. IsFiniteSet(T) /\ Cardinality(T) = n
  BY <1>3, <1>4, FS_Bijection
<1> QED BY <1>5 DEF T

-----------------------------------------------------------------------------
(***************************************************************************)
(* A step of the whole and what it touches                                 *)
(***************************************************************************)

\* What happens inside the bus is a step of the bus, which keeps its invariant.
LEMMA BusStep ==
  ASSUME IInv, [ShutdownNext]_allVars
  PROVE  [Next]_vars /\ IInv'
<1>1. [Next]_vars
  <2>1. CASE UNCHANGED busVars
    BY <2>1 DEF busVars
  <2>2. CASE Handling
    BY <2>2 DEF Handling, Next, Dispatcher
  <2> QED
    BY <2>1, <2>2
    DEF ShutdownNext, allVars, busVars, Subscribing, StartingWriter, StartingBus, Producing,
        DispatchStep, Writing, StoppingBus, BusStopped, StoppingWriter, WriterStopped,
        ProcessEnds, Next, Dispatcher
<1> QED BY <1>1, StepKeepsIInv

\* The storage handler is called with the event in hand.
Stores ==
  /\ inflight # NoEvent /\ at <= Len(loop) /\ loop[at] = Storage
  /\ Call(FALSE) /\ Enqueue(inflight.id)
  /\ Running /\ UNCHANGED <<engine, late>>

WriterOnly == UNCHANGED <<busVars, engine, late>>

\* Nothing that reaches the writer or leaves it.
Elsewhere ==
  /\ UNCHANGED <<items, batch, database, evicted, failed, ignored>>
  /\ delivered'[Storage] = delivered[Storage]
  /\ TakenIds \subseteq TakenIds'

LEMMA Effects ==
  ASSUME IInv, [ShutdownNext]_allVars
  PROVE  \/ Stores
         \/ (TakeBatch \/ \E ok \in BOOLEAN : Write(ok)) /\ WriterOnly
         \/ Elsewhere
<1>1. CASE UNCHANGED <<items, batch, database, evicted, failed, ignored>> /\ UNCHANGED <<delivered, taken>>
  BY <1>1 DEF Elsewhere, TakenIds
<1>2. CASE Handling
  <2>1. CASE loop[at] = Storage
    BY <1>2, <2>1 DEF Handling, Stores
  <2>2. CASE loop[at] # Storage
    <3>1. /\ UNCHANGED <<items, batch, database, evicted, failed, ignored>> /\ UNCHANGED taken
          /\ delivered' = [delivered EXCEPT ![loop[at]] = Append(@, inflight.id)]
      BY <1>2, <2>2 DEF Handling, Call, writerVars
    <3>2. delivered'[Storage] = delivered[Storage]
      BY <2>2, <3>1, ShutdownAssumption DEF IInv, TypeOK
    <3> QED BY <3>1, <3>2 DEF Elsewhere, TakenIds
  <2> QED BY <2>1, <2>2
<1>3. CASE Take /\ UNCHANGED writerVars
  <2>1. /\ Len(taken') = Len(taken) + 1 /\ Len(taken) \in Nat
        /\ \A i \in 1..Len(taken) : taken'[i] = taken[i]
    BY <1>3, PoppedFacts, Sizes DEF IInv
  <2>2. TakenIds \subseteq TakenIds'
    <3>1. ASSUME NEW i \in 1..Len(taken) PROVE taken[i].id \in TakenIds'
      <4>1. i \in 1..Len(taken') /\ taken'[i] = taken[i]
        BY <2>1
      <4> QED BY <4>1 DEF TakenIds
    <3> QED BY <3>1 DEF TakenIds
  <2> QED BY <1>3, <2>2 DEF Elsewhere, Take, writerVars
<1>4. CASE Writing
  BY <1>1, <1>4 DEF Writing, WriterThread, Open, Close, WriterOnly, busVars, vars
<1>5. CASE DispatchStep
  BY <1>1, <1>3, <1>5
  DEF DispatchStep, Skip, Finish, ThreadExit, dispatching, stats, history, writerVars
<1>6. CASE Producing
  BY <1>1, <1>6 DEF Producing, Publish, PublishRefused, dispatching, history, writerVars
<1>7. CASE \E h \in Handlers : Subscribing(h)
  BY <1>1, <1>7 DEF Subscribing, Subscribe, writerVars
<1>8. CASE StartingWriter \/ StartingBus \/ StoppingBus \/ BusStopped \/ StoppingWriter
            \/ WriterStopped \/ ProcessEnds \/ UNCHANGED allVars
  BY <1>1, <1>8
  DEF StartingWriter, StartWriter, StartingBus, Start, StoppingBus, Stop, BusStopped, StopReturns,
      StoppingWriter, StopWriter, WriterStopped, ProcessEnds, allVars, busVars, vars, history,
      writerVars
<1> QED BY <1>2, <1>4, <1>5, <1>6, <1>7, <1>8 DEF ShutdownNext

\* The event that reaches the writer is one that was taken, and the newest it was given.
LEMMA Stored ==
  ASSUME IInv, PipelineInv, Stores
  PROVE  /\ inflight.id \in TakenIds /\ inflight.id \in Nat
         /\ \A x \in Handed : x < inflight.id
         /\ UNCHANGED TakenIds
         /\ SetOf(delivered[Storage])' = SetOf(delivered[Storage]) \cup {inflight.id}
<1> DEFINE e == inflight.id
<1>0. /\ Len(taken) \in Nat /\ Len(loop) \in Nat /\ at \in Nat /\ dispatched \in Nat
      /\ delivered[Storage] \in Seq(Nat)
  BY Sizes, ShutdownAssumption DEF IInv, TypeOK
<1>1. e \in TakenIds
  <2>1. Len(taken) \in 1..Len(taken) /\ inflight = taken[Len(taken)]
    BY <1>0 DEF Stores, IInv, TakenInv, InFlight
  <2> QED BY <2>1 DEF TakenIds
<1>2. e \in Nat
  BY Ids DEF IInv, Stores
<1>3. \A i \in 1..Len(delivered[Storage]) : delivered[Storage][i] < e
  <2>1. at \in at..Len(loop) /\ loop[at] = Storage /\ inflight # NoEvent
    BY <1>0 DEF Stores
  <2> QED BY <2>1, ShutdownAssumption DEF IInv, DeliveredInv
<1>4. UNCHANGED TakenIds
  BY DEF Stores, Call, TakenIds
<1>5. delivered'[Storage] = Append(delivered[Storage], e)
  BY ShutdownAssumption DEF Stores, Call, IInv, TypeOK
<1>6. SetOf(delivered'[Storage]) = SetOf(delivered[Storage]) \cup {e}
  BY <1>0, <1>2, <1>5, AddLast
<1> QED BY <1>1, <1>2, <1>3, <1>4, <1>6 DEF PipelineInv, HandedInv, SetOf

\* A full queue gives its oldest item away.
LEMMA RoomFacts ==
  ASSUME items \in Seq(Nat), Increasing(items)
  PROVE  /\ Room \in Seq(Nat) /\ Increasing(Room) /\ SetOf(Room) \subseteq SetOf(items)
         /\ ToSet(items) \ ToSet(Room) = SetOf(items) \ SetOf(Room)
<1>1. CASE Len(items) >= QueueCapacity
  <2>1. items # <<>>
    BY <1>1, WriterAssumption, EmptySeq
  <2>2. /\ Tail(items) \in Seq(Nat) /\ Len(Tail(items)) = Len(items) - 1
        /\ \A i \in 1..Len(Tail(items)) : Tail(items)[i] = items[i + 1]
    BY <2>1, HeadTailProperties
  <2>3. Len(items) \in Nat
    BY LenProperties
  <2>4. \A i \in 1..Len(Tail(items)) : i + 1 \in 1..Len(items)
    BY <2>2, <2>3
  <2>5. Room = Tail(items)
    BY <1>1 DEF Room
  <2>6. Increasing(Room)
    <3>1. ASSUME NEW i \in 1..Len(Tail(items)), NEW j \in 1..Len(Tail(items)), i < j
          PROVE  items[i + 1] < items[j + 1]
      BY <2>4, <3>1 DEF Increasing
    <3> QED BY <2>2, <2>5, <3>1 DEF Increasing
  <2>7. SetOf(Room) \subseteq SetOf(items)
    BY <2>2, <2>4, <2>5 DEF SetOf
  <2>8. ToSet(items) = SetOf(items) /\ ToSet(Tail(items)) = SetOf(Tail(items))
    BY <2>2, SetOfFacts
  <2> QED BY <2>2, <2>5, <2>6, <2>7, <2>8
<1>2. CASE ~(Len(items) >= QueueCapacity)
  <2>1. Room = items /\ ToSet(items) = SetOf(items)
    BY <1>2, SetOfFacts DEF Room
  <2> QED BY <2>1
<1> QED BY <1>1, <1>2

\* A call of the storage handler, with its effects in one place.
LEMMA Enqueued ==
  ASSUME IInv, PipelineInv, Stores
  PROVE  /\ UNCHANGED <<batch, database, failed, closing, writer, engine, late>>
         /\ \/ /\ closing /\ ignored' = ignored \cup {inflight.id}
               /\ UNCHANGED <<items, evicted>>
            \/ /\ ~closing /\ items' \in Seq(Nat) /\ Increasing(items')
               /\ \E room : /\ room \subseteq SetOf(items)
                            /\ SetOf(items)' = room \cup {inflight.id}
                            /\ evicted' = evicted \cup (SetOf(items) \ room)
               /\ UNCHANGED ignored
<1>1. CASE closing
  BY <1>1 DEF Stores, Enqueue
<1>2. CASE ~closing
  <2>1. /\ items' = Append(Room, inflight.id)
        /\ evicted' = evicted \cup (ToSet(items) \ ToSet(Room))
        /\ UNCHANGED <<closing, writer, batch, database, failed, ignored, engine, late>>
    BY <1>2 DEF Stores, Enqueue
  <2>2. /\ Room \in Seq(Nat) /\ Increasing(Room) /\ SetOf(Room) \subseteq SetOf(items)
        /\ ToSet(items) \ ToSet(Room) = SetOf(items) \ SetOf(Room)
    BY RoomFacts DEF PipelineInv, WriterTypeOK, LineInv
  <2>3. inflight.id \in Nat /\ \A x \in SetOf(Room) : x < inflight.id
    BY <2>2, Stored DEF Handed
  <2>4. /\ items' \in Seq(Nat) /\ Increasing(items')
        /\ SetOf(items') = SetOf(Room) \cup {inflight.id}
    BY <2>1, <2>2, <2>3, AddLast
  <2>5. SetOf(items)' = SetOf(items')
    BY DEF SetOf
  <2> QED BY <1>2, <2>1, <2>2, <2>4, <2>5
<1> QED BY <1>1, <1>2

\* The writer takes the oldest items.
LEMMA Batched ==
  ASSUME PipelineInv, TakeBatch
  PROVE  /\ UNCHANGED <<database, evicted, failed, ignored, closing, writer>>
         /\ batch = <<>> /\ SetOf(batch) = {} /\ writer = "running"
         /\ items' \in Seq(Nat) /\ batch' \in Seq(Nat)
         /\ SetOf(items) = SetOf(batch)' \cup SetOf(items)'
         /\ Increasing(items') /\ Increasing(batch') /\ Before(SetOf(batch)', SetOf(items)')
<1>1. items \in Seq(Nat) /\ Increasing(items)
  BY DEF PipelineInv, WriterTypeOK, LineInv
<1>2. Taken \in Nat /\ Taken <= Len(items)
  BY <1>1, LenProperties, WriterAssumption DEF Taken, Least
<1>3. /\ batch' = SubSeq(items, 1, Taken) /\ items' = SubSeq(items, Taken + 1, Len(items))
      /\ UNCHANGED <<database, evicted, failed, ignored, closing, writer>>
      /\ batch = <<>> /\ writer = "running"
  BY DEF TakeBatch, NextBatch
<1>4. SetOf(items)' = SetOf(items') /\ SetOf(batch)' = SetOf(batch')
  BY DEF SetOf
<1> QED BY <1>1, <1>2, <1>3, <1>4, Split, SetOfEmpty

\* A batch is committed whole or lost whole.
LEMMA Written ==
  ASSUME PipelineInv, NEW ok \in BOOLEAN, Write(ok)
  PROVE  /\ UNCHANGED <<items, evicted, ignored, closing, writer>>
         /\ batch' = <<>> /\ SetOf(batch)' = {} /\ database' \in Seq(Nat) /\ Increasing(database')
         /\ \/ SetOf(database)' = SetOf(database) \cup SetOf(batch) /\ failed' = failed
            \/ SetOf(database)' = SetOf(database) /\ failed' = failed \cup SetOf(batch)
<1>0. /\ UNCHANGED <<items, evicted, ignored, closing, writer>> /\ batch' = <<>>
      /\ database' = database \o (IF ok THEN batch ELSE <<>>)
      /\ failed' = IF ok THEN failed ELSE failed \cup ToSet(batch)
      /\ SetOf(batch)' = SetOf(batch') /\ SetOf(database)' = SetOf(database')
  BY DEF Write, RolledBack, SetOf
<1>1. /\ batch \in Seq(Nat) /\ database \in Seq(Nat) /\ Increasing(batch) /\ Increasing(database)
      /\ Before(SetOf(database), SetOf(batch)) /\ ToSet(batch) = SetOf(batch)
  BY SetOfFacts DEF PipelineInv, WriterTypeOK, LineInv, Before
<1>2. CASE ok
  <2>1. /\ database \o batch \in Seq(Nat) /\ Increasing(database \o batch)
        /\ SetOf(database \o batch) = SetOf(database) \cup SetOf(batch)
    BY <1>1, Join
  <2> QED BY <1>0, <1>2, <2>1, SetOfEmpty
<1>3. CASE ~ok
  <2>1. database \o <<>> = database
    BY <1>1, ConcatEmptySeq
  <2> QED BY <1>0, <1>1, <1>3, <2>1, SetOfEmpty
<1> QED BY <1>2, <1>3

-----------------------------------------------------------------------------
(***************************************************************************)
(* Every part of the invariant is kept                                     *)
(***************************************************************************)

LEMMA WriterTyped ==
  ASSUME IInv, PipelineInv, [ShutdownNext]_allVars
  PROVE  WriterTypeOK'
<1>1. /\ closing' \in BOOLEAN /\ writer' \in {"none", "opening", "running", "failed", "ended"}
      /\ engine' \in Stages
  BY DEF PipelineInv, WriterTypeOK, Stages, ShutdownNext, allVars, writerVars, Subscribing,
         StartingWriter, StartWriter, StartingBus, Producing, Handling, Enqueue, DispatchStep, Writing,
         WriterThread, Open, Write, TakeBatch, Close, StoppingBus, BusStopped, StoppingWriter,
         StopWriter, WriterStopped, ProcessEnds
<1>2. /\ items' \in Seq(Nat) /\ batch' \in Seq(Nat) /\ database' \in Seq(Nat)
      /\ evicted' \in SUBSET Nat /\ failed' \in SUBSET Nat /\ ignored' \in SUBSET Nat
  <2>0. /\ items \in Seq(Nat) /\ batch \in Seq(Nat) /\ database \in Seq(Nat) /\ <<>> \in Seq(Nat)
        /\ evicted \in SUBSET Nat /\ failed \in SUBSET Nat /\ ignored \in SUBSET Nat
        /\ SetOf(items) \subseteq Nat /\ SetOf(batch) \subseteq Nat
    BY SetOfFacts, EmptySeq DEF PipelineInv, WriterTypeOK
  <2>1. CASE Stores
    <3>1. inflight.id \in Nat
      BY <2>1, Stored
    <3> QED BY <2>0, <2>1, <3>1, Enqueued
  <2>2. CASE TakeBatch
    BY <2>0, <2>2, Batched
  <2>3. ASSUME NEW ok \in BOOLEAN, Write(ok)
        PROVE  /\ items' \in Seq(Nat) /\ batch' \in Seq(Nat) /\ database' \in Seq(Nat)
               /\ evicted' \in SUBSET Nat /\ failed' \in SUBSET Nat /\ ignored' \in SUBSET Nat
    BY <2>0, <2>3, Written
  <2>4. CASE Elsewhere
    BY <2>0, <2>4 DEF Elsewhere
  <2> QED BY <2>1, <2>2, <2>3, <2>4, Effects
<1> QED BY <1>1, <1>2 DEF WriterTypeOK

LEMMA HandedStep ==
  ASSUME IInv, PipelineInv, [ShutdownNext]_allVars
  PROVE  HandedInv'
<1>0. Handed = SetOf(delivered[Storage]) /\ Handed \subseteq TakenIds
  BY DEF PipelineInv, HandedInv
<1>1. CASE Stores
  <2>1. SetOf(batch)' = SetOf(batch) /\ SetOf(database)' = SetOf(database) /\ failed' = failed
    BY <1>1, Enqueued DEF SetOf
  <2>2. Handed' = Handed \cup {inflight.id}
    <3>1. CASE closing
      <4>1. SetOf(items)' = SetOf(items) /\ evicted' = evicted /\ ignored' = ignored \cup {inflight.id}
        BY <1>1, <3>1, Enqueued DEF SetOf
      <4> QED BY <2>1, <4>1 DEF Handed
    <3>2. CASE ~closing
      <4>1. ignored' = ignored
        BY <1>1, <3>2, Enqueued
      <4>2. PICK room : /\ room \subseteq SetOf(items)
                        /\ SetOf(items)' = room \cup {inflight.id}
                        /\ evicted' = evicted \cup (SetOf(items) \ room)
        BY <1>1, <3>2, Enqueued
      <4> QED BY <2>1, <4>1, <4>2 DEF Handed
    <3> QED BY <3>1, <3>2
  <2>3. /\ inflight.id \in TakenIds /\ TakenIds' = TakenIds
        /\ SetOf(delivered[Storage])' = SetOf(delivered[Storage]) \cup {inflight.id}
    BY <1>1, Stored
  <2> QED BY <1>0, <2>2, <2>3 DEF HandedInv
<1>2. CASE (TakeBatch \/ \E ok \in BOOLEAN : Write(ok)) /\ WriterOnly
  <2>1. UNCHANGED <<delivered, taken>>
    BY <1>2 DEF WriterOnly, busVars, vars
  <2>2. SetOf(delivered[Storage])' = SetOf(delivered[Storage]) /\ TakenIds' = TakenIds
    BY <2>1 DEF SetOf, TakenIds
  <2>3. CASE TakeBatch
    <3>1. /\ SetOf(items) \cup SetOf(batch) = SetOf(items)' \cup SetOf(batch)'
          /\ SetOf(database)' = SetOf(database)
          /\ UNCHANGED <<evicted, failed, ignored>>
      BY <2>3, Batched DEF SetOf
    <3>2. Handed' = Handed
      BY <3>1 DEF Handed
    <3> QED BY <1>0, <2>2, <3>2 DEF HandedInv
  <2>4. ASSUME NEW ok \in BOOLEAN, Write(ok) PROVE HandedInv'
    <3>1. SetOf(items)' = SetOf(items)
      BY <2>4, Written DEF SetOf
    <3>2. Handed' = Handed
      BY <2>4, <3>1, Written DEF Handed
    <3> QED BY <1>0, <2>2, <3>2 DEF HandedInv
  <2> QED BY <1>2, <2>3, <2>4
<1>3. CASE Elsewhere
  <2>1. Handed' = Handed /\ SetOf(delivered[Storage])' = SetOf(delivered[Storage])
    BY <1>3 DEF Elsewhere, Handed, SetOf
  <2> QED BY <1>0, <1>3, <2>1 DEF HandedInv, Elsewhere
<1> QED BY <1>1, <1>2, <1>3, Effects

LEMMA LineStep ==
  ASSUME IInv, PipelineInv, [ShutdownNext]_allVars
  PROVE  LineInv'
<1>0. /\ Increasing(items) /\ Increasing(batch) /\ Increasing(database)
      /\ Before(SetOf(batch), SetOf(items))
      /\ Before(SetOf(database), SetOf(batch) \cup SetOf(items))
  BY DEF PipelineInv, LineInv
<1>1. CASE Stores
  <2>1. /\ SetOf(batch)' = SetOf(batch) /\ SetOf(database)' = SetOf(database)
        /\ Increasing(batch)' /\ Increasing(database)'
    BY <1>0, <1>1, Enqueued DEF SetOf, Increasing
  <2>2. \A x \in SetOf(items) \cup SetOf(batch) \cup SetOf(database) : x < inflight.id
    BY <1>1, Stored DEF Handed
  <2>3. Increasing(items)' /\ SetOf(items)' \subseteq SetOf(items) \cup {inflight.id}
    <3>1. CASE closing
      BY <1>0, <1>1, <3>1, Enqueued DEF SetOf, Increasing
    <3>2. CASE ~closing
      BY <1>1, <3>2, Enqueued DEF Increasing
    <3> QED BY <3>1, <3>2
  <2> QED BY <1>0, <2>1, <2>2, <2>3 DEF LineInv, Before
<1>2. CASE TakeBatch
  <2>1. /\ Increasing(items)' /\ Increasing(batch)' /\ Before(SetOf(batch)', SetOf(items)')
        /\ SetOf(items) = SetOf(batch)' \cup SetOf(items)'
    BY <1>2, Batched DEF Increasing
  <2>2. SetOf(database)' = SetOf(database) /\ Increasing(database)'
    BY <1>0, <1>2, Batched DEF SetOf, Increasing
  <2> QED BY <1>0, <2>1, <2>2 DEF LineInv, Before
<1>3. ASSUME NEW ok \in BOOLEAN, Write(ok) PROVE LineInv'
  <2>1. /\ SetOf(items)' = SetOf(items) /\ SetOf(batch)' = {}
        /\ SetOf(database)' \subseteq SetOf(database) \cup SetOf(batch)
    BY <1>3, Written DEF SetOf
  <2>2. Increasing(items)' /\ Increasing(batch)' /\ Increasing(database)'
    BY <1>0, <1>3, Written, SetOfEmpty DEF Increasing
  <2> QED BY <1>0, <2>1, <2>2 DEF LineInv, Before
<1>4. CASE Elsewhere
  <2>1. /\ SetOf(items)' = SetOf(items) /\ SetOf(batch)' = SetOf(batch)
        /\ SetOf(database)' = SetOf(database)
    BY <1>4 DEF Elsewhere, SetOf
  <2>2. Increasing(items)' /\ Increasing(batch)' /\ Increasing(database)'
    BY <1>0, <1>4 DEF Elsewhere, Increasing
  <2> QED BY <1>0, <2>1, <2>2 DEF LineInv, Before
<1> QED BY <1>1, <1>2, <1>3, <1>4, Effects

LEMMA ApartStep ==
  ASSUME IInv, PipelineInv, [ShutdownNext]_allVars
  PROVE  ApartInv'
<1>1. CASE Stores
  <2>1. SetOf(batch)' = SetOf(batch) /\ SetOf(database)' = SetOf(database) /\ failed' = failed
    BY <1>1, Enqueued DEF SetOf
  <2>2. inflight.id \notin Handed
    <3>1. inflight.id \in Nat /\ \A x \in Handed : x < inflight.id
      BY <1>1, Stored
    <3> QED BY <3>1
  <2>3. SetOf(items) \cap (SetOf(batch) \cup SetOf(database)) = {}
    <3>1. SetOf(items) \subseteq Nat
      BY SetOfFacts DEF PipelineInv, WriterTypeOK
    <3> QED BY <3>1 DEF PipelineInv, LineInv, Before
  <2>4. CASE closing
    <3>1. SetOf(items)' = SetOf(items) /\ evicted' = evicted /\ ignored' = ignored \cup {inflight.id}
      BY <1>1, <2>4, Enqueued DEF SetOf
    <3> QED BY <2>1, <2>2, <3>1 DEF PipelineInv, ApartInv, Handed
  <2>5. CASE ~closing
    <3>1. ignored' = ignored
      BY <1>1, <2>5, Enqueued
    <3>2. PICK room : /\ room \subseteq SetOf(items)
                      /\ SetOf(items)' = room \cup {inflight.id}
                      /\ evicted' = evicted \cup (SetOf(items) \ room)
      BY <1>1, <2>5, Enqueued
    <3> QED BY <2>1, <2>2, <2>3, <3>1, <3>2 DEF PipelineInv, ApartInv, Handed
  <2> QED BY <2>4, <2>5
<1>2. CASE TakeBatch
  <2>1. /\ SetOf(items) \cup SetOf(batch) = SetOf(items)' \cup SetOf(batch)'
        /\ SetOf(database)' = SetOf(database)
        /\ UNCHANGED <<evicted, failed, ignored>>
    BY <1>2, Batched DEF SetOf
  <2> QED BY <2>1 DEF PipelineInv, ApartInv
<1>3. ASSUME NEW ok \in BOOLEAN, Write(ok) PROVE ApartInv'
  <2>1. /\ SetOf(items)' = SetOf(items) /\ SetOf(batch)' = {} /\ UNCHANGED <<evicted, ignored>>
        /\ \/ SetOf(database)' = SetOf(database) \cup SetOf(batch) /\ failed' = failed
           \/ SetOf(database)' = SetOf(database) /\ failed' = failed \cup SetOf(batch)
    BY <1>3, Written DEF SetOf
  <2>2. SetOf(batch) \cap (SetOf(items) \cup SetOf(database)) = {}
    <3>1. SetOf(batch) \subseteq Nat
      BY SetOfFacts DEF PipelineInv, WriterTypeOK
    <3> QED BY <3>1 DEF PipelineInv, LineInv, Before
  <2> QED BY <2>1, <2>2 DEF PipelineInv, ApartInv
<1>4. CASE Elsewhere
  BY <1>4 DEF Elsewhere, PipelineInv, ApartInv, SetOf
<1> QED BY <1>1, <1>2, <1>3, <1>4, Effects

\* Nothing is published before the writer is there, the storage handler subscribes
\* before the first event, and what is told to stop stays so.
LEMMA StageStep ==
  ASSUME IInv, PipelineInv, [ShutdownNext]_allVars
  PROVE  StageInv'
<1>0. StageInv /\ engine \in Stages /\ Control /\ IInv'
  BY BusStep DEF PipelineInv, WriterTypeOK, IInv
<1>1. ASSUME NEW h \in Handlers, Subscribing(h) PROVE StageInv'
  <2>1. /\ engine = "subscribing" /\ subs' = Append(subs, h)
        /\ since' = [since EXCEPT ![h] = Len(taken)] /\ taken = <<>>
        /\ UNCHANGED <<published, queue, taken, stopping, owner, thread, writerVars, engine, late>>
    BY <1>0, <1>1 DEF Subscribing, Subscribe, StageInv, Fresh, stats
  <2>2. Subscribed(Storage)' => since'[Storage] = 0
    <3>1. CASE h = Storage
      BY <2>1, <3>1, ShutdownAssumption DEF IInv, TypeOK
    <3>2. CASE h # Storage
      <4>1. /\ Len(subs') = Len(subs) + 1 /\ Len(subs) \in Nat
            /\ \A i \in 1..Len(subs) : subs'[i] = subs[i]
            /\ subs'[Len(subs) + 1] = h
        BY <2>1, AppendProperties, LenProperties DEF IInv, TypeOK
      <4>2. Subscribed(Storage)' => Subscribed(Storage)
        BY <3>2, <4>1 DEF Subscribed
      <4> QED BY <1>0, <2>1, <3>2, <4>2, ShutdownAssumption DEF StageInv, IInv, TypeOK
    <3> QED BY <3>1, <3>2
  <2> QED BY <1>0, <2>1, <2>2 DEF StageInv, Fresh, writerVars
<1>2. CASE StartingWriter \/ StartingBus
  <2>1. /\ UNCHANGED <<subs, since, taken, published, queue, stopping, owner, items, batch, closing,
                       ignored, late>>
        /\ \/ engine = "subscribing" /\ engine' = "starting" /\ writer = "none" /\ writer' = "opening"
           \/ engine = "starting" /\ engine' = "up" /\ writer' = writer
    BY <1>2
    DEF StartingWriter, StartWriter, StartingBus, Start, busVars, vars, stats, history, writerVars
  <2> QED BY <1>0, <2>1 DEF StageInv, Fresh, Subscribed
<1>3. CASE Producing
  <2>1. /\ Running /\ engine # "subscribing" /\ engine # "starting"
        /\ UNCHANGED <<subs, since, taken, stopping, owner, thread, writerVars, engine, late>>
        /\ ~stopping \/ UNCHANGED <<published, queue>>
    BY <1>3 DEF Producing, Publish, PublishRefused, dispatching, history
  <2>2. ~stopping => engine = "up"
    BY <1>0, <2>1 DEF Stages, StageInv, Running
  <2> QED BY <1>0, <2>1, <2>2 DEF StageInv, Fresh, Subscribed, writerVars
<1>4. CASE Handling
  <2>1. /\ UNCHANGED <<subs, since, taken, stopping, owner, thread, published, queue, engine, late>>
        /\ UNCHANGED <<closing, writer, batch>>
        /\ items' = items \/ ~closing
        /\ ignored' = ignored \/ closing
        /\ inflight # NoEvent /\ Running
    BY <1>4 DEF Handling, Call, Enqueue, writerVars
  <2>2. closing => "bus" \in late
    BY <1>0, <2>1 DEF StageInv, Control, Dispatching, Running
  <2> QED BY <1>0, <2>1, <2>2 DEF StageInv, Fresh, Subscribed
<1>5. CASE DispatchStep
  <2>1. /\ UNCHANGED <<subs, since, stopping, owner, published, writerVars, engine, late>>
        /\ thread' = "running" => thread = "running"
        /\ Fresh => Fresh'
    BY <1>5
    DEF DispatchStep, Take, Skip, Finish, ThreadExit, Fresh, stats, history, dispatching
  <2> QED BY <1>0, <2>1 DEF StageInv, Subscribed, writerVars
<1>6. CASE Writing
  <2>1. UNCHANGED <<subs, since, taken, stopping, owner, thread, published, queue, engine, late>>
    BY <1>6 DEF Writing, busVars, vars
  <2>2. /\ UNCHANGED <<closing, ignored>> /\ writer # "none" /\ writer' # "none"
        /\ writer' \in {"opening", "running"} => writer \in {"opening", "running"}
        /\ writer' # "running" => batch' = <<>>
        /\ writer' = "ended" => closing /\ items' = <<>>
    <3>1. ASSUME NEW ok \in BOOLEAN, Open(ok) \/ Write(ok)
          PROVE  /\ UNCHANGED <<closing, ignored>> /\ writer # "none" /\ writer' # "none"
                 /\ writer' \in {"opening", "running"} => writer \in {"opening", "running"}
                 /\ writer' # "running" => batch' = <<>>
                 /\ writer' = "ended" => closing /\ items' = <<>>
      BY <1>0, <3>1 DEF Open, Write, StageInv
    <3>2. CASE TakeBatch \/ Close
      BY <1>0, <3>2 DEF TakeBatch, Close, NothingLeft, StageInv
    <3> QED BY <1>6, <3>1, <3>2 DEF Writing, WriterThread
  <2> QED BY <1>0, <2>1, <2>2 DEF StageInv, Fresh, Subscribed
<1>7. CASE StoppingBus
  <2>1. /\ UNCHANGED <<subs, since, taken, thread, published, queue, writerVars, late>>
        /\ stopping' = TRUE /\ engine' = "stopping bus"
        /\ engine \in {"subscribing", "starting", "up"}
    BY <1>7 DEF StoppingBus, Stop, stats
  <2> QED BY <1>0, <2>1 DEF StageInv, Fresh, Subscribed, writerVars
<1>8. CASE BusStopped
  <2>1. /\ UNCHANGED <<subs, since, taken, thread, published, queue, stopping, writerVars>>
        /\ engine = "stopping bus" /\ engine' = "bus stopped" /\ owner' = "stopped"
        /\ late \subseteq late' /\ (thread = "running" => "bus" \in late')
    BY <1>8 DEF BusStopped, StopReturns, stats, history
  <2> QED BY <1>0, <2>1 DEF StageInv, Fresh, Subscribed, writerVars
<1>9. CASE StoppingWriter \/ WriterStopped \/ ProcessEnds
  <2>1. UNCHANGED <<subs, since, taken, thread, published, queue, stopping, owner, items, writer,
                    batch, ignored>>
    BY <1>9 DEF StoppingWriter, StopWriter, WriterStopped, ProcessEnds, AfterBus, busVars, vars, writerVars
  <2>2. \/ engine = "bus stopped" /\ engine' = "stopping writer" /\ closing' = TRUE /\ late' = late
        \/ /\ engine = "stopping writer" /\ engine' = "stopped" /\ closing' = closing
           /\ late \subseteq late' /\ (writer \in {"opening", "running"} => "writer" \in late')
        \/ engine' = "exited" /\ UNCHANGED <<closing, late>>
    BY <1>9 DEF StoppingWriter, StopWriter, WriterStopped, ProcessEnds, AfterBus, writerVars
  <2> QED BY <1>0, <2>1, <2>2 DEF StageInv, Fresh, Subscribed
<1>10. CASE UNCHANGED allVars
  BY <1>0, <1>10 DEF StageInv, Fresh, Subscribed, allVars, vars, writerVars
<1> QED BY <1>1, <1>2, <1>3, <1>4, <1>5, <1>6, <1>7, <1>8, <1>9, <1>10 DEF ShutdownNext

LEMMA InitiallyPiped == ShutdownInit => IInv /\ PipelineInv
<1> SUFFICES ASSUME ShutdownInit PROVE IInv /\ PipelineInv
  OBVIOUS
<1> USE DEF ShutdownInit, WriterInit
<1>1. IInv
  BY InitiallyIInv
<1>2. WriterTypeOK
  BY EmptySeq DEF WriterTypeOK, Stages
<1>3. SetOf(items) = {} /\ SetOf(batch) = {} /\ SetOf(database) = {} /\ SetOf(delivered[Storage]) = {}
  BY SetOfEmpty, ShutdownAssumption DEF Init
<1>4. HandedInv
  BY <1>3 DEF HandedInv, Handed
<1>5. LineInv /\ ApartInv
  BY <1>3, SetOfEmpty DEF LineInv, ApartInv, Before
<1>6. StageInv
  BY ShutdownAssumption DEF Init, StageInv, Fresh
<1> QED BY <1>1, <1>2, <1>4, <1>5, <1>6 DEF PipelineInv

\* The inductive invariant of the pipeline.
THEOREM PipelineInductive == ShutdownSpec => [](IInv /\ PipelineInv)
<1>1. IInv /\ PipelineInv /\ [ShutdownNext]_allVars => (IInv /\ PipelineInv)'
  BY BusStep, WriterTyped, HandedStep, LineStep, ApartStep, StageStep DEF PipelineInv
<1> QED BY <1>1, InitiallyPiped, PTL DEF ShutdownSpec

-----------------------------------------------------------------------------
(***************************************************************************)
(* What becomes of the events                                              *)
(***************************************************************************)

\* What is still in the bus is newer than what the writer was given.
LEMMA BusIsNewer ==
  ASSUME IInv, PipelineInv
  PROVE  /\ Before(Handed, InDispatch) /\ Before(TakenIds, InBus)
         /\ InDispatch \subseteq TakenIds /\ InDispatch \subseteq Nat /\ InBus \subseteq Nat
         /\ TakenIds \subseteq Nat /\ Handed \subseteq TakenIds
<1>0. /\ Len(taken) \in Nat /\ Len(queue) \in Nat /\ Len(loop) \in Nat /\ at \in Nat
      /\ dispatched \in Nat /\ published \in Nat
      /\ \A i \in 1..Len(queue) : queue[i].id \in Nat
      /\ \A i \in 1..Len(taken) : taken[i].id \in Nat
      /\ inflight # NoEvent => inflight.id \in Nat
  BY Sizes, Ids DEF IInv
<1>1. Before(Handed, InDispatch)
  <2>1. \A i \in 1..Len(delivered[Storage]) : \A e \in InDispatch : delivered[Storage][i] < e
    BY ShutdownAssumption DEF IInv, DeliveredInv, InDispatch
  <2>2. Handed = SetOf(delivered[Storage])
    BY DEF PipelineInv, HandedInv
  <2> QED BY <2>1, <2>2 DEF SetOf, Before
<1>2. Before(TakenIds, InBus)
  <2>1. ASSUME NEW i \in 1..Len(taken), NEW j \in 1..Len(queue) PROVE taken[i].id < queue[j].id
    <3>1. taken[i].id + Len(queue) <= published /\ queue[j].id + Len(queue) = published + j
      BY DEF IInv, TakenInv, QueueInv, QueueIsNewestWindow
    <3> QED BY <1>0, <3>1
  <2> QED BY <2>1 DEF TakenIds, InBus, Before
<1>3. InDispatch \subseteq TakenIds
  <2>1. ASSUME inflight # NoEvent PROVE inflight.id \in TakenIds
    <3>1. Len(taken) \in 1..Len(taken) /\ inflight = taken[Len(taken)]
      BY <1>0, <2>1 DEF IInv, TakenInv, InFlight
    <3> QED BY <3>1 DEF TakenIds
  <2> QED BY <2>1 DEF InDispatch
<1> QED BY <1>0, <1>1, <1>2, <1>3 DEF TakenIds, InBus, PipelineInv, HandedInv

\* The storage handler has been called with everything that was taken, or is going to be.
LEMMA AllTaken ==
  ASSUME IInv, PipelineInv, Subscribed(Storage)
  PROVE  Handed \cup InDispatch = TakenIds
<1>0. /\ Len(taken) \in Nat /\ Len(loop) \in Nat /\ at \in Nat /\ dispatched \in Nat
      /\ \A i \in 1..Len(taken) : taken[i].type \in Wants[Storage]
  <2>1. \A i \in 1..Len(taken) : taken[i] \in Event
    BY ElementOfSeq DEF IInv, TypeOK
  <2>2. /\ Len(taken) \in Nat /\ Len(loop) \in Nat /\ at \in Nat /\ dispatched \in Nat
    BY Sizes DEF IInv, TypeOK
  <2> QED BY <2>1, <2>2, ShutdownAssumption DEF Event
<1>1. since[Storage] = 0 /\ Storage \in Handlers /\ Handed = SetOf(delivered[Storage])
  BY ShutdownAssumption DEF PipelineInv, StageInv, HandedInv
<1>2. \A id : Received(Storage, id) => id \in Handed
  BY <1>1 DEF Received, SetOf
<1>3. ASSUME NEW i \in 1..Len(taken) PROVE taken[i].id \in Handed \cup InDispatch
  <2>1. CASE i \in 1..(Len(taken) - InFlight)
    <3>1. Received(Storage, taken[i].id)
      BY <1>0, <1>1, <2>1 DEF IInv, ServedInv, Served
    <3> QED BY <1>2, <3>1
  <2>2. CASE InFlight = 1 /\ i = Len(taken)
    <3>1. inflight # NoEvent /\ inflight = taken[i]
      BY <2>2 DEF InFlight, IInv, TakenInv
    <3>2. PICK k \in 1..Len(loop) : loop[k] = Storage
      BY <1>0, <1>1, <2>2, <3>1 DEF IInv, ServedInv
    <3>3. CASE k \in at..Len(loop)
      BY <3>1, <3>2, <3>3 DEF InDispatch
    <3>4. CASE k \in 1..(at - 1)
      <4>1. Received(Storage, inflight.id)
        BY <1>0, <3>1, <3>2, <3>4 DEF IInv, ServedInv
      <4> QED BY <1>2, <3>1, <4>1
    <3> QED BY <1>0, <3>3, <3>4
  <2> QED BY <1>0, <2>1, <2>2 DEF InFlight
<1> QED BY <1>3, BusIsNewer DEF TakenIds

\* Ids that keep step with their positions are ordered as these are.
LEMMA Ordered ==
  ASSUME NEW x \in Nat, NEW y \in Nat, NEW i \in Nat, NEW j \in Nat, NEW n \in Nat, NEW p \in Nat,
         x + n = p + i, y + n = p + j, i < j
  PROVE  x < y
OBVIOUS

\* Every id that was taken or is queued counts once.
LEMMA Counts ==
  ASSUME IInv, PipelineInv
  PROVE  /\ IsFiniteSet(TakenIds \cup InBus)
         /\ Cardinality(TakenIds \cup InBus) + dropped = published + refused
<1>0. /\ Len(taken) \in Nat /\ Len(queue) \in Nat /\ InFlight \in Nat
      /\ dispatched \in Nat /\ published \in Nat /\ dropped \in Nat /\ refused \in Nat
      /\ \A i \in 1..Len(queue) : queue[i].id \in Nat
      /\ \A i \in 1..Len(taken) : taken[i].id \in Nat
  BY Sizes, Ids DEF IInv
<1>1. IsFiniteSet(TakenIds) /\ Cardinality(TakenIds) = Len(taken)
  <2> DEFINE f == [i \in 1..Len(taken) |-> taken[i].id]
  <2>1. f \in [1..Len(taken) -> Nat] /\ \A i, j \in 1..Len(taken) : i < j => f[i] < f[j]
    BY <1>0 DEF IInv, TakenInv
  <2>2. {f[i] : i \in 1..Len(taken)} = TakenIds
    BY DEF TakenIds
  <2> HIDE DEF f
  <2> QED BY <1>0, <2>1, <2>2, Counted
<1>2. IsFiniteSet(InBus) /\ Cardinality(InBus) = Len(queue)
  <2> DEFINE f == [i \in 1..Len(queue) |-> queue[i].id]
  <2>1. ASSUME NEW i \in 1..Len(queue), NEW j \in 1..Len(queue), i < j
        PROVE  queue[i].id < queue[j].id
    <3>1. queue[i].id + Len(queue) = published + i /\ queue[j].id + Len(queue) = published + j
      BY DEF IInv, QueueInv, QueueIsNewestWindow
    <3>2. /\ queue[i].id \in Nat /\ queue[j].id \in Nat /\ i \in Nat /\ j \in Nat
          /\ Len(queue) \in Nat /\ published \in Nat
      BY <1>0
    <3> QED BY <2>1, <3>1, <3>2, Ordered
  <2>2. f \in [1..Len(queue) -> Nat] /\ \A i, j \in 1..Len(queue) : i < j => f[i] < f[j]
    BY <1>0, <2>1
  <2>3. {f[i] : i \in 1..Len(queue)} = InBus
    BY DEF InBus
  <2> HIDE DEF f
  <2> QED BY <1>0, <2>2, <2>3, Counted
<1>3. TakenIds \cap InBus = {}
  BY BusIsNewer DEF Before
<1>4. /\ IsFiniteSet(TakenIds \cup InBus)
      /\ Cardinality(TakenIds \cup InBus) = Len(taken) + Len(queue) - Cardinality({})
  <2>1. /\ IsFiniteSet(TakenIds \cup InBus)
        /\ Cardinality(TakenIds \cup InBus) =
             Cardinality(TakenIds) + Cardinality(InBus) - Cardinality(TakenIds \cap InBus)
    BY <1>1, <1>2, FS_Union
  <2> QED BY <1>1, <1>2, <1>3, <2>1
<1>5. Len(taken) = dispatched + InFlight
      /\ published + refused = dispatched + InFlight + Len(queue) + dropped
  BY DEF IInv, TakenInv, QueueInv, Accounting
<1> QED BY <1>0, <1>4, <1>5, FS_EmptySet

\* Whenever the process dies, what survives is the past of the stream: the database grows in
\* publish order and is older than all that is on its way (writer.py:99-153, event_bus.py:135-176).
THEOREM DatabaseIsAlwaysThePast == ShutdownSpec => []DurablePrefix
<1>1. IInv /\ PipelineInv => DurablePrefix
  <2> SUFFICES ASSUME IInv, PipelineInv PROVE DurablePrefix
    OBVIOUS
  <2>1. Increasing(database) /\ Before(SetOf(database), SetOf(batch) \cup SetOf(items))
    BY DEF PipelineInv, LineInv
  <2>2. Before(SetOf(database), InDispatch) /\ Before(SetOf(database), InBus)
    BY BusIsNewer DEF Before, Handed
  <2>3. \A i \in 1..Len(database) : database[i] \in SetOf(database)
    BY DEF SetOf
  <2> QED BY <2>1, <2>2, <2>3 DEF DurablePrefix, Waiting, Increasing, Before
<1> QED BY <1>1, PipelineInductive, PTL

\* The fates exclude each other.
LEMMA FatesApart ==
  ASSUME IInv, PipelineInv
  PROVE  /\ Waiting \cap (SetOf(database) \cup evicted \cup failed \cup ignored) = {}
         /\ SetOf(database) \cap (evicted \cup failed \cup ignored) = {}
         /\ evicted \cap failed = {} /\ evicted \cap ignored = {} /\ failed \cap ignored = {}
<1>1. /\ SetOf(items) \subseteq Nat /\ SetOf(batch) \subseteq Nat
      /\ Before(SetOf(database), SetOf(batch) \cup SetOf(items)) /\ ApartInv
  BY SetOfFacts DEF PipelineInv, WriterTypeOK, LineInv
<1>2. Handed \cap InDispatch = {} /\ Handed \cap InBus = {}
  BY BusIsNewer DEF Before
<1>3. SetOf(database) \cap (SetOf(batch) \cup SetOf(items)) = {}
  BY <1>1 DEF Before
<1> QED BY <1>1, <1>2, <1>3 DEF Waiting, Handed, ApartInv

LEMMA OneFate ==
  ASSUME IInv, PipelineInv
  PROVE  EveryEventHasOneFate
<1> SUFFICES ASSUME Subscribed(Storage)
             PROVE  /\ \A i, j \in 1..5 : i # j => Fates[i] \cap Fates[j] = {}
                    /\ Cardinality(UNION {Fates[i] : i \in 1..5}) + dropped = published + refused
                    /\ ignored # {} => "bus" \in late
  BY DEF EveryEventHasOneFate
<1>1. ASSUME NEW i \in 1..5, NEW j \in 1..5, i # j PROVE Fates[i] \cap Fates[j] = {}
  <2>1. /\ Fates[1] = Waiting /\ Fates[2] = SetOf(database) /\ Fates[3] = evicted
        /\ Fates[4] = failed /\ Fates[5] = ignored
    BY DEF Fates
  <2>2. i \in {1, 2, 3, 4, 5} /\ j \in {1, 2, 3, 4, 5}
    OBVIOUS
  <2> QED BY <1>1, <2>1, <2>2, FatesApart
<1>2. UNION {Fates[i] : i \in 1..5} = TakenIds \cup InBus
  <2>1. UNION {Fates[i] : i \in 1..5}
          = Waiting \cup SetOf(database) \cup evicted \cup failed \cup ignored
    <3>1. 1..5 = {1, 2, 3, 4, 5}
      OBVIOUS
    <3>2. {Fates[i] : i \in 1..5} = {Waiting, SetOf(database), evicted, failed, ignored}
      BY <3>1 DEF Fates
    <3> QED BY <3>2
  <2>2. Waiting \cup SetOf(database) \cup evicted \cup failed \cup ignored
          = Handed \cup InDispatch \cup InBus
    BY DEF Waiting, Handed
  <2> QED BY <2>1, <2>2, AllTaken
<1>3. ignored # {} => "bus" \in late
  BY DEF PipelineInv, StageInv
<1> QED BY <1>1, <1>2, <1>3, Counts

\* No event leaves the pipeline unnoticed, whichever joins time out: it is on its way, in the
\* database, or met exactly one of the fates the code has for it (event_bus.py:83-176, writer.py:99-153).
THEOREM EveryEventAlwaysHasOneFate == ShutdownSpec => []EveryEventHasOneFate
<1>1. IInv /\ PipelineInv => EveryEventHasOneFate
  BY OneFate
<1> QED BY <1>1, PipelineInductive, PTL

\* A shutdown whose joins all came back in time lost nothing that was buffered when it began
\* (engine.py:255-285).
THEOREM OrderlyShutdownAlwaysStoresAll == ShutdownSpec => []OrderlyShutdownStoresAll
<1>1. IInv /\ PipelineInv => OrderlyShutdownStoresAll
  <2> SUFFICES ASSUME IInv, PipelineInv, engine = "stopped", late = {}, writer # "failed",
                      Subscribed(Storage)
               PROVE  /\ Waiting = {} /\ ignored = {}
                      /\ published + refused =
                           Len(database) + dropped + Cardinality(evicted) + Cardinality(failed)
    BY DEF OrderlyShutdownStoresAll
  <2>1. /\ owner = "stopped" /\ thread # "running" /\ closing /\ ignored = {}
        /\ writer \in {"none", "ended"}
    BY DEF PipelineInv, StageInv, WriterTypeOK
  <2>2. queue = <<>> /\ inflight = NoEvent
    BY <2>1 DEF IInv, Control, TypeOK, Dispatching
  <2>3. batch = <<>> /\ items = <<>>
    <3>1. CASE writer = "ended"
      BY <3>1 DEF PipelineInv, StageInv
    <3>2. CASE writer = "none"
      <4>1. TakenIds = {}
        BY <3>2 DEF PipelineInv, StageInv, Fresh, TakenIds
      <4>2. SetOf(items) = {}
        BY <4>1 DEF PipelineInv, HandedInv, Handed
      <4>3. \A i \in 1..Len(items) : FALSE
        BY <4>2 DEF SetOf
      <4>4. items = <<>>
        <5>1. items \in Seq(Nat) /\ Len(items) \in Nat
          BY LenProperties DEF PipelineInv, WriterTypeOK
        <5>2. Len(items) = 0
          <6>1. Len(items) # 0 => 1 \in 1..Len(items)
            BY <5>1
          <6> QED BY <4>3, <6>1
        <5> QED BY <5>1, <5>2, EmptySeq
      <4> QED BY <3>2, <4>4 DEF PipelineInv, StageInv
    <3> QED BY <2>1, <3>1, <3>2
  <2>4. Waiting = {}
    BY <2>2, <2>3, SetOfEmpty DEF Waiting, InBus, InDispatch
  <2>5. TakenIds \cup InBus = SetOf(database) \cup evicted \cup failed
    BY <2>1, <2>2, <2>3, SetOfEmpty, AllTaken DEF Handed, InDispatch, InBus
  <2>6. IsFiniteSet(SetOf(database)) /\ Cardinality(SetOf(database)) = Len(database)
    <3>1. /\ database \in [1..Len(database) -> Nat] /\ Len(database) \in Nat
          /\ \A i, j \in 1..Len(database) : i < j => database[i] < database[j]
      BY LenProperties, ElementOfSeq DEF PipelineInv, WriterTypeOK, LineInv, Increasing
    <3> QED BY <3>1, Counted DEF SetOf
  <2>7. IsFiniteSet(evicted) /\ IsFiniteSet(failed) /\ IsFiniteSet(SetOf(database) \cup evicted)
    BY <2>5, Counts, FS_Subset
  <2>8. /\ SetOf(database) \cap evicted = {} /\ (SetOf(database) \cup evicted) \cap failed = {}
    BY FatesApart
  <2>9. Cardinality(SetOf(database) \cup evicted) = Len(database) + Cardinality(evicted) - Cardinality({})
    BY <2>6, <2>7, <2>8, FS_Union
  <2>10. Cardinality(TakenIds \cup InBus) =
           Cardinality(SetOf(database) \cup evicted) + Cardinality(failed) - Cardinality({})
    BY <2>5, <2>7, <2>8, FS_Union
  <2>11. /\ Cardinality(evicted) \in Nat /\ Cardinality(failed) \in Nat /\ Len(database) \in Nat
         /\ Cardinality({}) = 0 /\ dropped \in Nat
    BY <2>7, FS_CardinalityType, FS_EmptySet, LenProperties, Sizes DEF IInv, PipelineInv, WriterTypeOK
  <2> QED BY <2>1, <2>4, <2>9, <2>10, <2>11, Counts
<1> QED BY <1>1, PipelineInductive, PTL
=============================================================================
