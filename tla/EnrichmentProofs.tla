--------------------------- MODULE EnrichmentProofs ---------------------------
(***************************************************************************)
(* Proofs about Enrichment for any processes, sockets and capacities.  The *)
(* inductive invariant says, thread by thread, what each of them may rely  *)
(* on when it acts on what it read before.                                 *)
(***************************************************************************)
EXTENDS Enrichment, SequenceTheorems, FiniteSetTheorems, TLAPS

Requests(p) == {[type |-> k, of |-> p] : k \in {"discovered", "started"}}
Result(p) == [type |-> "enriched", of |-> p]

\* The queues have no duplicates, and their keys are the pending ones.
QueueInv ==
  /\ pending = ToSet(urgent) \cup ToSet(inventory)
  /\ ToSet(urgent) \cap ToSet(inventory) = {}
  /\ IsInjective(urgent) /\ IsInjective(inventory)
  /\ IsFiniteSet(pending)
  /\ Cardinality(pending) = Len(urgent) + Len(inventory)
  /\ Cardinality(pending) <= Capacity

\* What the threads keep between two of their steps.
ControlInv ==
  /\ \A e \in ToSet(outbox) : e.type \in {"discovered", "started", "unnamed", "stopped"}
  /\ pm = "idle" => outbox = <<>>
  /\ pm = "publish" => outbox # <<>>
  /\ pm = "apply" => prev \subseteq Procs
  /\ nm = "idle" <=> socket = None
  /\ owns = "pending" =>
       hand # None /\ hand.type = "opened"
  /\ worker \in {"verify", "publish"} <=> key # None

\* The last snapshot: a process that runs and was ever seen is in it, and each of it is
\* in the table or, until the table is replaced, about to be announced or overlooked.
SnapshotInv ==
  \A p \in Procs :
    /\ p \in unborn => p \notin alive \cup sighted /\ ~Known(p)
    /\ p \in prev => p \in sighted
    /\ p \in alive \cap sighted => p \in prev
    /\ p \in prev => \/ p \in current
                     \/ p \in overlooked
                     \/ pm = "apply" /\ Requests(p) \cap ToSet(outbox) # {}

\* One bucket for a process, with sockets of that process.
Tidy(buckets) ==
  /\ \A b \in ToSet(buckets) : \A c \in b.facts : Owner[c] = b.key
  /\ \A i, j \in 1..Len(buckets) : buckets[i].key = buckets[j].key => i = j
ParkedInv == Tidy(parked)

\* A process that no poll has reported, or that is not in the table.
Fresh(p) == p \notin sighted \/ ~Known(p)

\* Its enrichment is still to be requested or done, or will not be done.
Ahead(p) ==
  \/ Fresh(p)
  \/ \E e \in Requests(p) : e \in ToSet(outbox) \/ InFlight(e)
  \/ p \in pending
  \/ worker = "verify" /\ key = p
  \/ p \in lost \/ p \in overlooked \/ stopping

\* The enrichment that a rule would wait for is ahead; the one that it waits for is, or its
\* result is on its way.
AwaitedInv == \A p \in Procs : Known(p) /\ p \notin enriched => Ahead(p)
Waiting(p) == Bucket(p) # {} \/ (owns = "pending" /\ Owner[hand.of] = p)
WaitingInv ==
  \A p \in Procs : Waiting(p) =>
    Ahead(p) \/ (worker = "publish" /\ key = p) \/ InFlight(Result(p))

\* While it is enriched and until that was announced, a process is in the table, or has
\* ended and will not be in it again; what is announced is stored.
ResultInv ==
  \A p \in Procs :
    /\ key = p \/ InFlight(Result(p)) => Known(p) \/ p \notin unborn \cup alive \cup prev
    /\ (worker = "publish" /\ key = p) \/ InFlight(Result(p)) => ~Known(p) \/ p \in enriched

IInv ==
  /\ TypeOK /\ ControlInv /\ QueueInv /\ SnapshotInv /\ ParkedInv
  /\ AwaitedInv /\ WaitingInv /\ ResultInv

-----------------------------------------------------------------------------
(***************************************************************************)
(* Sequences                                                               *)
(***************************************************************************)

\* The elements of a sequence whose head goes or that gets a last element.
LEMMA ElementsOf ==
  ASSUME NEW S, NEW s \in Seq(S)
  PROVE  /\ ToSet(s) \subseteq S
         /\ s # <<>> => Head(s) \in S /\ ToSet(s) = ToSet(Tail(s)) \cup {Head(s)}
         /\ \A e \in S : ToSet(Append(s, e)) = ToSet(s) \cup {e}
<1>1. DOMAIN s = 1..Len(s) /\ Len(s) \in Nat /\ ToSet(s) \subseteq S
  BY LenProperties, ElementOfSeq DEF ToSet
<1>2. ASSUME s # <<>> PROVE Head(s) \in S /\ ToSet(s) = ToSet(Tail(s)) \cup {Head(s)}
  <2>1. /\ Head(s) = s[1] /\ Head(s) \in S /\ Tail(s) \in Seq(S)
        /\ Len(Tail(s)) = Len(s) - 1 /\ Len(s) # 0
        /\ \A i \in 1..Len(Tail(s)) : Tail(s)[i] = s[i + 1]
    BY <1>2, HeadTailProperties, EmptySeq
  <2>2. DOMAIN Tail(s) = 1..Len(Tail(s))
    BY <2>1, LenProperties
  <2>3. ASSUME NEW i \in 1..Len(s) PROVE s[i] \in ToSet(Tail(s)) \cup {Head(s)}
    <3>1. CASE i = 1
      BY <2>1, <3>1
    <3>2. CASE i # 1
      <4>1. i - 1 \in DOMAIN Tail(s) /\ Tail(s)[i - 1] = s[i]
        BY <1>1, <2>1, <2>2, <3>2
      <4> QED BY <4>1 DEF ToSet
    <3> QED BY <3>1, <3>2
  <2>4. ASSUME NEW i \in DOMAIN Tail(s) PROVE Tail(s)[i] \in ToSet(s)
    <3>1. i + 1 \in DOMAIN s /\ Tail(s)[i] = s[i + 1]
      BY <1>1, <2>1, <2>2
    <3> QED BY <3>1 DEF ToSet
  <2>5. 1 \in DOMAIN s
    BY <1>1, <2>1
  <2> QED BY <1>1, <2>1, <2>3, <2>4, <2>5 DEF ToSet
<1>3. ASSUME NEW e \in S PROVE ToSet(Append(s, e)) = ToSet(s) \cup {e}
  <2>1. /\ Len(Append(s, e)) = Len(s) + 1 /\ Append(s, e)[Len(s) + 1] = e
        /\ \A i \in 1..Len(s) : Append(s, e)[i] = s[i]
        /\ Append(s, e) \in Seq(S)
    BY AppendProperties
  <2>2. DOMAIN Append(s, e) = 1..(Len(s) + 1)
    BY <2>1, LenProperties
  <2>3. ASSUME NEW i \in 1..(Len(s) + 1) PROVE Append(s, e)[i] \in ToSet(s) \cup {e}
    <3>1. i = Len(s) + 1 \/ i \in 1..Len(s)
      BY <1>1
    <3> QED BY <1>1, <2>1, <3>1 DEF ToSet
  <2>4. 1..Len(s) \subseteq 1..(Len(s) + 1) /\ Len(s) + 1 \in 1..(Len(s) + 1)
    BY <1>1
  <2>5. ASSUME NEW x \in ToSet(s) \cup {e} PROVE x \in ToSet(Append(s, e))
    BY <1>1, <2>1, <2>2, <2>4 DEF ToSet
  <2>6. ASSUME NEW x \in ToSet(Append(s, e)) PROVE x \in ToSet(s) \cup {e}
    BY <2>2, <2>3 DEF ToSet
  <2> QED BY <2>5, <2>6
<1> QED BY <1>1, <1>2, <1>3

LEMMA Appended ==
  ASSUME NEW S, NEW s \in Seq(S), NEW e \in S
  PROVE  /\ Append(s, e) \in Seq(S) /\ Append(s, e) # <<>>
         /\ Len(Append(s, e)) = Len(s) + 1
         /\ ToSet(Append(s, e)) = ToSet(s) \cup {e}
<1>1. ToSet(Append(s, e)) = ToSet(s) \cup {e}
  BY ElementsOf
<1> QED BY <1>1, AppendProperties

LEMMA EmptyElements == ToSet(<<>>) = {}
BY EmptySeq DEF ToSet

\* ... and those of two sequences one after the other.
LEMMA ElementsOfBoth ==
  ASSUME NEW S, NEW s \in Seq(S), NEW t \in Seq(S)
  PROVE  ToSet(s \o t) = ToSet(s) \cup ToSet(t)
<1>1. \A x : ToSet(x) = Range(x)
  BY DEF ToSet, Range
<1>2. Range(s \o t) = Range(s) \cup Range(t)
  BY RangeConcatenation
<1> QED BY <1>1, <1>2

\* A sequence without duplicates stays so when its head goes, and when something that
\* it does not have is added.
LEMMA InjectiveSteps ==
  ASSUME NEW S, NEW s \in Seq(S), IsInjective(s)
  PROVE  /\ s # <<>> => Head(s) \notin ToSet(Tail(s)) /\ IsInjective(Tail(s))
         /\ \A e \in S : e \notin ToSet(s) => IsInjective(Append(s, e))
<1>1. /\ DOMAIN s = 1..Len(s) /\ Len(s) \in Nat
      /\ \A i, j \in 1..Len(s) : s[i] = s[j] => i = j
  BY LenProperties DEF IsInjective
<1>2. ASSUME s # <<>> PROVE Head(s) \notin ToSet(Tail(s)) /\ IsInjective(Tail(s))
  <2>1. /\ Head(s) = s[1] /\ Tail(s) \in Seq(S) /\ Len(Tail(s)) = Len(s) - 1
        /\ \A i \in 1..Len(Tail(s)) : Tail(s)[i] = s[i + 1]
    BY <1>2, HeadTailProperties
  <2>2. DOMAIN Tail(s) = 1..Len(Tail(s)) /\ Len(s) # 0
    BY <1>2, <2>1, LenProperties, EmptySeq
  <2>3. ASSUME NEW i \in DOMAIN Tail(s)
        PROVE  Tail(s)[i] = s[i + 1] /\ i + 1 \in 1..Len(s) /\ i + 1 # 1
    BY <1>1, <2>1, <2>2
  <2>4. ASSUME NEW i \in DOMAIN Tail(s), NEW j \in DOMAIN Tail(s), Tail(s)[i] = Tail(s)[j]
        PROVE  i = j
    BY <1>1, <2>1, <2>2, <2>3, <2>4
  <2>5. 1 \in 1..Len(s)
    BY <1>1, <2>2
  <2>6. \A i \in DOMAIN Tail(s) : Tail(s)[i] # Head(s)
    BY <1>1, <2>1, <2>3, <2>5
  <2> QED BY <2>4, <2>6 DEF ToSet, IsInjective
<1>3. ASSUME NEW e \in S, e \notin ToSet(s) PROVE IsInjective(Append(s, e))
  <2>1. /\ Append(s, e) \in Seq(S)
        /\ Len(Append(s, e)) = Len(s) + 1 /\ Append(s, e)[Len(s) + 1] = e
        /\ \A i \in 1..Len(s) : Append(s, e)[i] = s[i]
    BY AppendProperties
  <2>2. DOMAIN Append(s, e) = 1..(Len(s) + 1)
    BY <2>1, LenProperties
  <2>3. \A i \in 1..Len(s) : s[i] # e
    BY <1>1, <1>3 DEF ToSet
  <2>4. \A i \in 1..(Len(s) + 1) : i \in 1..Len(s) \/ i = Len(s) + 1
    BY <1>1
  <2>5. ASSUME NEW i \in 1..(Len(s) + 1), NEW j \in 1..(Len(s) + 1),
               Append(s, e)[i] = Append(s, e)[j]
        PROVE  i = j
    BY <1>1, <2>1, <2>3, <2>4, <2>5
  <2> QED BY <2>2, <2>5 DEF IsInjective
<1> QED BY <1>2, <1>3

\* A sequence without its i-th element.
LEMMA RemoveAtProperties ==
  ASSUME NEW S, NEW s \in Seq(S), NEW i \in 1..Len(s)
  PROVE  /\ RemoveAt(s, i) \in Seq(S) /\ Len(RemoveAt(s, i)) = Len(s) - 1
         /\ \A j \in 1..(Len(s) - 1) : RemoveAt(s, i)[j] = IF j < i THEN s[j] ELSE s[j + 1]
<1> DEFINE a == SubSeq(s, 1, i - 1)
           b == SubSeq(s, i + 1, Len(s))
<1>1. Len(s) \in Nat /\ i \in Nat /\ i - 1 \in Int /\ i + 1 \in Int
  BY LenProperties
<1>2. \A j \in 1..Len(s) : s[j] \in S
  BY ElementOfSeq
<1>3. /\ a \in Seq(S) /\ Len(a) = i - 1
      /\ \A j \in 1..(i - 1) : a[j] = s[j]
  <2>1. \A j \in 1..(i - 1) : s[j] \in S
    BY <1>1, <1>2
  <2>2. /\ a \in Seq(S) /\ Len(a) = IF 1 <= i - 1 THEN (i - 1) - 1 + 1 ELSE 0
        /\ \A j \in 1..((i - 1) - 1 + 1) : a[j] = s[1 + j - 1]
    BY <1>1, <2>1, SubSeqProperties
  <2> QED BY <1>1, <2>2
<1>4. /\ b \in Seq(S) /\ Len(b) = Len(s) - i
      /\ \A j \in 1..(Len(s) - i) : b[j] = s[i + j]
  <2>1. \A j \in (i + 1)..Len(s) : s[j] \in S
    BY <1>1, <1>2
  <2>2. /\ b \in Seq(S) /\ Len(b) = IF i + 1 <= Len(s) THEN Len(s) - (i + 1) + 1 ELSE 0
        /\ \A j \in 1..(Len(s) - (i + 1) + 1) : b[j] = s[(i + 1) + j - 1]
    BY <1>1, <2>1, SubSeqProperties
  <2> QED BY <1>1, <2>2
<1>5. /\ a \o b \in Seq(S) /\ Len(a \o b) = Len(a) + Len(b)
      /\ \A j \in 1..(Len(a) + Len(b)) :
           (a \o b)[j] = IF j <= Len(a) THEN a[j] ELSE b[j - Len(a)]
  BY <1>3, <1>4, ConcatProperties
<1> HIDE DEF a, b
<1>6. ASSUME NEW j \in 1..(Len(s) - 1)
      PROVE  (a \o b)[j] = IF j < i THEN s[j] ELSE s[j + 1]
  <2>1. CASE j < i
    BY <1>1, <1>3, <1>4, <1>5, <2>1
  <2>2. CASE ~(j < i)
    <3>1. j - (i - 1) \in 1..(Len(s) - i) /\ i + (j - (i - 1)) = j + 1
      BY <1>1, <2>2
    <3>2. (a \o b)[j] = b[j - (i - 1)]
      BY <1>1, <1>3, <1>4, <1>5, <2>2
    <3> QED BY <1>4, <2>2, <3>1, <3>2
  <2> QED BY <2>1, <2>2
<1>7. a \o b \in Seq(S) /\ Len(a \o b) = Len(s) - 1
  BY <1>1, <1>3, <1>4, <1>5
<1>8. RemoveAt(s, i) = a \o b
  BY DEF RemoveAt, a, b
<1> QED BY ONLY <1>6, <1>7, <1>8

\* The order that SetToSeq chooses has every element.
LEMMA SetToSeqProperties ==
  ASSUME NEW S, IsFiniteSet(S)
  PROVE  /\ SetToSeq(S) \in Seq(S)
         /\ ToSet(SetToSeq(S)) = S
<1> DEFINE n == Cardinality(S)
           f == SetToSeq(S)
<1>1. n \in Nat /\ Bijection(1..n, S) # {}
  BY FS_CardinalityType DEF ExistsBijection
<1>2. \E g \in [1..n -> S] : IsInjective(g)
  BY <1>1 DEF Bijection, Injection
<1>3. f \in [1..n -> S] /\ IsInjective(f)
  BY <1>2 DEF SetToSeq
<1>4. f \in Injection(1..n, S)
  BY <1>3 DEF Injection
<1>5. IsFiniteSet(1..n) /\ Cardinality(1..n) = n
  BY <1>1, FS_Interval
<1>6. f \in Surjection(1..n, S)
  <2> HIDE DEF f
  <2> QED BY <1>4, <1>5, FS_Injection
<1>7. \A x \in S : \E i \in 1..n : f[i] = x
  BY <1>6 DEF Surjection
<1>8. f \in Seq(S)
  BY <1>1, <1>3, SeqDef
<1> HIDE DEF f
<1>9. DOMAIN f = 1..n /\ \A i \in 1..n : f[i] \in S
  BY <1>3
<1>10. ToSet(f) = S
  BY <1>7, <1>9 DEF ToSet
<1> QED BY <1>8, <1>10 DEF f

-----------------------------------------------------------------------------
(***************************************************************************)
(* Events and the bus                                                      *)
(***************************************************************************)

LEMMA EventsOf ==
  ASSUME NEW type \in Kinds, NEW keys \in SUBSET Procs
  PROVE  /\ Events(type, keys) \in Seq(Event)
         /\ ToSet(Events(type, keys)) = {[type |-> type, of |-> p] : p \in keys}
<1> DEFINE order == SetToSeq(keys)
           e(p) == [type |-> type, of |-> p]
<1>1. order \in Seq(Procs) /\ ToSet(order) = keys /\ order \in Seq(keys)
  <2>1. IsFiniteSet(keys)
    BY FS_Subset, EnrichmentAssumption
  <2>2. order \in Seq(keys) /\ ToSet(order) = keys
    BY <2>1, SetToSeqProperties
  <2> QED BY <2>2, SeqMonotonic
<1> HIDE DEF order
<1>2. DOMAIN order = 1..Len(order) /\ Len(order) \in Nat /\ \A i \in DOMAIN order : order[i] \in Procs
  BY <1>1, LenProperties, ElementOfSeq
<1>3. Events(type, keys) = [i \in 1..Len(order) |-> e(order[i])]
  BY <1>2 DEF Events, order
<1>4. \A i \in 1..Len(order) : e(order[i]) \in Event
  BY <1>2 DEF Event
<1>5. [i \in 1..Len(order) |-> e(order[i])] \in Seq(Event)
  <2> HIDE DEF e
  <2> QED BY <1>2, <1>4, SeqDef
<1>6. ToSet([i \in 1..Len(order) |-> e(order[i])]) = {e(p) : p \in keys}
  <2> HIDE DEF e
  <2>1. {e(order[i]) : i \in DOMAIN order} = {e(p) : p \in ToSet(order)}
    BY DEF ToSet
  <2> QED BY <1>1, <1>2, <2>1 DEF ToSet
<1> QED BY <1>3, <1>5, <1>6

LEMMA ArrivalsOf ==
  ASSUME NEW type \in Kinds, NEW keys \in SUBSET Procs, NEW known
  PROVE  /\ Arrivals(type, keys, known) \in Seq(Event)
         /\ ToSet(Arrivals(type, keys, known)) =
              {[type |-> IF p \in known THEN type ELSE "unnamed", of |-> p] : p \in keys}
         /\ \A x \in ToSet(Arrivals(type, keys, known)) : x.type \in {type, "unnamed"}
<1> DEFINE order == SetToSeq(keys)
           e(p) == [type |-> IF p \in known THEN type ELSE "unnamed", of |-> p]
<1>1. order \in Seq(Procs) /\ ToSet(order) = keys /\ order \in Seq(keys)
  <2>1. IsFiniteSet(keys)
    BY FS_Subset, EnrichmentAssumption
  <2>2. order \in Seq(keys) /\ ToSet(order) = keys
    BY <2>1, SetToSeqProperties
  <2> QED BY <2>2, SeqMonotonic
<1> HIDE DEF order
<1>2. DOMAIN order = 1..Len(order) /\ Len(order) \in Nat /\ \A i \in DOMAIN order : order[i] \in Procs
  BY <1>1, LenProperties, ElementOfSeq
<1>3. Arrivals(type, keys, known) = [i \in 1..Len(order) |-> e(order[i])]
  BY <1>2 DEF Arrivals, order
<1>4. \A i \in 1..Len(order) : e(order[i]) \in Event
  BY <1>2 DEF Event, Kinds
<1>5. [i \in 1..Len(order) |-> e(order[i])] \in Seq(Event)
  <2> HIDE DEF e
  <2> QED BY <1>2, <1>4, SeqDef
<1>6. ToSet([i \in 1..Len(order) |-> e(order[i])]) = {e(p) : p \in keys}
  <2> HIDE DEF e
  <2>1. {e(order[i]) : i \in DOMAIN order} = {e(p) : p \in ToSet(order)}
    BY DEF ToSet
  <2> QED BY <1>1, <1>2, <2>1 DEF ToSet
<1>7. \A p : e(p).type \in {type, "unnamed"}
  OBVIOUS
<1> QED BY <1>3, <1>5, <1>6, <1>7

LEMMA PublishKeeps ==
  ASSUME bus \in Seq(Event), Len(bus) <= BusCapacity, lost \subseteq Procs,
         NEW e \in Event, Publish(e)
  PROVE  /\ bus' \in Seq(Event) /\ Len(bus') <= BusCapacity
         /\ lost \subseteq lost' /\ lost' \subseteq Procs
         /\ ToSet(bus') \subseteq ToSet(bus) \cup {e} /\ e \in ToSet(bus')
         /\ \A x \in ToSet(bus) : x \in ToSet(bus') \/ Wakes(x) \subseteq lost'
<1> USE EnrichmentAssumption
<1>1. Len(bus) \in Nat
  BY LenProperties
<1>2. CASE Full
  <2>1. bus # <<>>
    BY <1>1, <1>2, EmptySeq DEF Full
  <2>2. /\ Head(bus) \in Event /\ Tail(bus) \in Seq(Event) /\ Len(Tail(bus)) = Len(bus) - 1
        /\ ToSet(bus) = ToSet(Tail(bus)) \cup {Head(bus)}
    BY <2>1, HeadTailProperties, ElementsOf
  <2>3. /\ bus' = Append(Tail(bus), e) /\ lost' = lost \cup Wakes(Head(bus))
        /\ bus' \in Seq(Event) /\ Len(bus') = Len(Tail(bus)) + 1
        /\ ToSet(bus') = ToSet(Tail(bus)) \cup {e}
    <3>1. bus' = Append(Tail(bus), e) /\ lost' = lost \cup Wakes(Head(bus))
      BY <1>2 DEF Publish
    <3>2. /\ Append(Tail(bus), e) \in Seq(Event)
          /\ Len(Append(Tail(bus), e)) = Len(Tail(bus)) + 1
          /\ ToSet(Append(Tail(bus), e)) = ToSet(Tail(bus)) \cup {e}
      <4>1. Tail(bus) \in Seq(Event)
        BY <2>2
      <4> QED BY <4>1, Appended
    <3> QED BY <3>1, <3>2
  <2>4. Wakes(Head(bus)) \subseteq Procs
    BY <2>2 DEF Wakes, Event
  <2>5. Len(bus') <= BusCapacity
    BY <1>1, <2>2, <2>3
  <2>6. ASSUME NEW x \in ToSet(bus) PROVE x \in ToSet(bus') \/ Wakes(x) \subseteq lost'
    BY <2>2, <2>3
  <2> QED BY <2>2, <2>3, <2>4, <2>5, <2>6
<1>3. CASE ~Full
  <2>1. /\ bus' = Append(bus, e) /\ lost' = lost
        /\ bus' \in Seq(Event) /\ Len(bus') = Len(bus) + 1
        /\ ToSet(bus') = ToSet(bus) \cup {e}
    <3>1. bus' = Append(bus, e) /\ lost' = lost
      BY <1>3 DEF Publish
    <3>2. /\ Append(bus, e) \in Seq(Event) /\ Len(Append(bus, e)) = Len(bus) + 1
          /\ ToSet(Append(bus, e)) = ToSet(bus) \cup {e}
      BY Appended
    <3> QED BY <3>1, <3>2
  <2>2. Len(bus') <= BusCapacity
    BY <1>1, <1>3, <2>1 DEF Full
  <2> QED BY <2>1, <2>2
<1> QED BY <1>2, <1>3

-----------------------------------------------------------------------------
(***************************************************************************)
(* Types and control                                                       *)
(***************************************************************************)

\* The dictionary without a process's bucket, if it has one.
LEMMA OthersType ==
  ASSUME TypeOK, NEW p
  PROVE  Others(p) \in Seq([key : Procs, facts : SUBSET Conns])
<1>1. parked \in Seq([key : Procs, facts : SUBSET Conns]) /\ DOMAIN parked = 1..Len(parked)
  BY LenProperties DEF TypeOK
<1>2. CASE Buckets(p) = {}
  BY <1>1, <1>2 DEF Others
<1>3. CASE Buckets(p) # {}
  <2>1. PICK i \in 1..Len(parked) : Others(p) = RemoveAt(parked, i)
    BY <1>1, <1>3 DEF Others, Buckets
  <2> QED BY <1>1, <2>1, RemoveAtProperties
<1> QED BY <1>2, <1>3

LEMMA BucketType ==
  ASSUME TypeOK, NEW p
  PROVE  Bucket(p) \subseteq Conns
<1>1. parked \in Seq([key : Procs, facts : SUBSET Conns]) /\ DOMAIN parked = 1..Len(parked)
  BY LenProperties DEF TypeOK
<1>2. \A i \in DOMAIN parked : parked[i] \in [key : Procs, facts : SUBSET Conns]
  BY <1>1, ElementOfSeq
<1> QED BY <1>2 DEF Bucket, Buckets

LEMMA HandTypes ==
  ASSUME TypeOK, hand # None
  PROVE  /\ hand.type \in Kinds => hand.of \in Procs
         /\ hand.type \in {"opened", "unattributed"} => hand.of \in Conns
BY DEF TypeOK, Event, Kinds

LEMMA InitiallyTyped == Init => TypeOK /\ ControlInv
<1> SUFFICES ASSUME Init PROVE TypeOK /\ ControlInv
  OBVIOUS
<1>1. \A S : <<>> \in Seq(S)
  BY EmptySeq
<1>2. Len(bus) <= BusCapacity
  BY EmptySeq, EnrichmentAssumption DEF Init
<1> QED BY <1>1, <1>2, EmptyElements, EnrichmentAssumption DEF Init, TypeOK, ControlInv

LEMMA ProcessMonitorTyped ==
  ASSUME TypeOK, ControlInv, ProcessMonitor
  PROVE  TypeOK' /\ ControlInv'
<1>1. CASE Collect
  <2>0. PICK known \in Readings(alive) :
          /\ outbox' = IF prev = NoSnapshot THEN Arrivals("discovered", alive, known)
                       ELSE Diff(alive, known)
          /\ read' = known
          /\ overlooked' = overlooked \cup ((alive \ prev) \ known)
    BY <1>1 DEF Collect
  <2>1. /\ outbox' \in Seq(Event)
        /\ \A e \in ToSet(outbox') : e.type \in {"discovered", "started", "unnamed", "stopped"}
    <3>1. CASE prev = NoSnapshot
      <4>1. alive \in SUBSET Procs /\ outbox' = Arrivals("discovered", alive, known)
        BY <2>0, <3>1 DEF TypeOK
      <4> QED BY <4>1, ArrivalsOf DEF Kinds
    <3>2. CASE prev # NoSnapshot
      <4> DEFINE started == Arrivals("started", alive \ prev, known)
                 stopped == Events("stopped", prev \ alive)
      <4>1. /\ alive \ prev \in SUBSET Procs /\ prev \ alive \in SUBSET Procs
            /\ outbox' = started \o stopped
        BY <2>0, <3>2 DEF Diff, TypeOK
      <4>2. started \in Seq(Event) /\ \A e \in ToSet(started) : e.type \in {"started", "unnamed"}
        BY <4>1, ArrivalsOf DEF Kinds
      <4>4. stopped \in Seq(Event) /\ \A e \in ToSet(stopped) : e.type = "stopped"
        BY <4>1, EventsOf DEF Kinds
      <4> HIDE DEF started, stopped
      <4>3. /\ started \o stopped \in Seq(Event)
            /\ ToSet(started \o stopped) = ToSet(started) \cup ToSet(stopped)
        BY <4>2, <4>4, ConcatProperties, ElementsOfBoth
      <4> QED BY <4>1, <4>2, <4>3, <4>4
    <3> QED BY <3>1, <3>2
  <2>2. /\ pm' = "apply" /\ prev' = alive /\ sighted' = sighted \cup alive
        /\ read' \subseteq alive /\ overlooked' \subseteq overlooked \cup alive
        /\ UNCHANGED <<unborn, alive, current, exited, enriched, named, nm, socket, unseen, bus, hand,
                       owns, urgent, inventory, pending, stopping, worker, key, parked,
                       judged, lost>>
    BY <1>1, <2>0 DEF Collect, Readings, world, table, network, queues, rule
  <2> QED BY <2>1, <2>2 DEF TypeOK, ControlInv
<1>2. CASE ApplySnapshot
  <2>1. /\ pm = "apply" /\ current' = prev /\ pm' = IF outbox = <<>> THEN "idle" ELSE "publish"
        /\ exited' \subseteq exited \cup current /\ enriched' \subseteq enriched
        /\ named' \subseteq named \cup read /\ read' = {}
        /\ UNCHANGED <<overlooked, unborn, alive, prev, outbox, sighted, nm, socket, unseen, bus, hand,
                       owns, urgent, inventory, pending, stopping, worker, key, parked,
                       judged, lost>>
    BY <1>2 DEF ApplySnapshot, world, network, queues, rule
  <2> QED BY <2>1 DEF TypeOK, ControlInv
<1>3. CASE PublishNext
  <2>1. /\ pm = "publish" /\ Publish(Head(outbox)) /\ outbox' = Tail(outbox)
        /\ pm' = IF outbox' = <<>> THEN "idle" ELSE "publish"
        /\ UNCHANGED <<overlooked, unborn, alive, current, exited, enriched, named, prev, read, sighted, nm, socket, unseen,
                       hand, owns, urgent, inventory, pending, stopping, worker, key, parked, judged>>
    BY <1>3 DEF PublishNext, world, table, network, queues, rule
  <2>2. /\ Head(outbox) \in Event /\ Tail(outbox) \in Seq(Event)
        /\ ToSet(Tail(outbox)) \subseteq ToSet(outbox)
    BY <2>1, HeadTailProperties, ElementsOf DEF TypeOK, ControlInv
  <2>3. bus' \in Seq(Event) /\ Len(bus') <= BusCapacity /\ lost' \subseteq Procs
    BY <2>1, <2>2, PublishKeeps DEF TypeOK
  <2> QED BY <2>1, <2>2, <2>3 DEF TypeOK, ControlInv
<1> QED BY <1>1, <1>2, <1>3 DEF ProcessMonitor

LEMMA NetworkMonitorTyped ==
  ASSUME TypeOK, ControlInv, NetworkMonitor
  PROVE  TypeOK' /\ ControlInv'
<1> USE EnrichmentAssumption
<1>1. ASSUME NEW c \in Conns, NEW r \in BOOLEAN, Attribute(c, r) PROVE TypeOK' /\ ControlInv'
  <2>1. /\ unseen' = unseen \ {c} /\ socket' = c /\ nm' \in {"publish", "orphan"}
        /\ current' \subseteq current \cup {Owner[c]} /\ named' \subseteq named \cup {Owner[c]}
        /\ UNCHANGED <<overlooked, unborn, alive, exited, enriched, pm, prev, read, outbox, sighted, bus, hand,
                       owns, urgent, inventory, pending, stopping, worker, key, parked,
                       judged, lost>>
    BY <1>1 DEF Attribute, Readings, world, monitor, queues, rule
  <2> QED BY <2>1 DEF TypeOK, ControlInv
<1>2. CASE PublishOpened
  <2> DEFINE e == [type |-> IF nm = "publish" THEN "opened" ELSE "unattributed", of |-> socket]
  <2>1. /\ nm # "idle" /\ Publish(e) /\ nm' = "idle" /\ socket' = None
        /\ UNCHANGED <<overlooked, unborn, alive, current, exited, enriched, named, pm, prev, read, outbox, sighted, unseen,
                       hand, owns, urgent, inventory, pending, stopping, worker, key, parked, judged>>
    BY <1>2 DEF PublishOpened, world, table, monitor, queues, rule
  <2>2. e \in Event
    BY <2>1 DEF TypeOK, ControlInv, Event
  <2> HIDE DEF e
  <2>3. bus' \in Seq(Event) /\ Len(bus') <= BusCapacity /\ lost' \subseteq Procs
    BY <2>1, <2>2, PublishKeeps DEF TypeOK
  <2> QED BY <2>1, <2>3 DEF TypeOK, ControlInv
<1> QED BY <1>1, <1>2 DEF NetworkMonitor

LEMMA DispatcherTyped ==
  ASSUME TypeOK, ControlInv, Dispatcher
  PROVE  TypeOK' /\ ControlInv'
<1> USE EnrichmentAssumption
<1>1. CASE TakeEvent
  <2>1. /\ Head(bus) \in Event /\ Tail(bus) \in Seq(Event)
        /\ Len(Tail(bus)) = Len(bus) - 1 /\ Len(bus) \in Nat
    BY <1>1, HeadTailProperties, LenProperties DEF TakeEvent, TypeOK
  <2>2. /\ hand' = Head(bus) /\ bus' = Tail(bus) /\ owns' = "unread"
        /\ UNCHANGED <<overlooked, unborn, alive, current, exited, enriched, named, pm, prev, read, outbox, sighted, nm, socket,
                       unseen, urgent, inventory, pending, stopping, worker, key, parked,
                       judged, lost>>
    BY <1>1 DEF TakeEvent, world, table, monitor, network, queues, rule
  <2> QED BY <2>1, <2>2 DEF TypeOK, ControlInv
<1>2. CASE Request
  <2>1. hand.of \in Procs
    BY <1>2, HandTypes DEF Request, Kinds
  <2>2. /\ urgent' \in {urgent, Append(urgent, hand.of)}
        /\ inventory' \in {inventory, Append(inventory, hand.of)}
        /\ pending' \subseteq pending \cup {hand.of} /\ lost' \subseteq lost \cup {hand.of}
        /\ hand' = None /\ owns' = "unread"
        /\ UNCHANGED <<overlooked, unborn, alive, current, exited, enriched, named, pm, prev, read, outbox, sighted, nm, socket,
                       unseen, bus, stopping, worker, key, parked, judged>>
    BY <1>2 DEF Request, Handled, world, table, monitor, network, rule
  <2>3. Append(urgent, hand.of) \in Seq(Procs) /\ Append(inventory, hand.of) \in Seq(Procs)
    BY <2>1, Appended DEF TypeOK
  <2> QED BY <2>1, <2>2, <2>3 DEF TypeOK, ControlInv
<1>3. CASE Ignore
  BY <1>3 DEF Ignore, Handled, world, table, monitor, network, queues, rule, TypeOK, ControlInv
<1>4. CASE ReadOwner
  <2>1. hand.of \in Conns /\ Owner[hand.of] \in Procs
    BY <1>4, HandTypes DEF ReadOwner
  <2>2. /\ \/ /\ hand' = None /\ owns' = "unread" /\ judged' \subseteq judged \cup {hand.of}
           \/ /\ hand # None /\ hand.type = "opened"
              /\ owns' = "pending" /\ UNCHANGED <<hand, judged>>
        /\ UNCHANGED <<overlooked, unborn, alive, current, exited, enriched, named, pm, prev, read, outbox, sighted, nm, socket,
                       unseen, bus, urgent, inventory, pending, stopping, worker, key,
                       parked, lost>>
    BY <1>4 DEF ReadOwner, Handled, Judge, AwaitsEnrichment, world, table, monitor, network, queues
  <2> QED BY <2>1, <2>2 DEF TypeOK, ControlInv
<1>5. CASE Park
  <2> DEFINE p == Owner[hand.of]
             facts == IF Cardinality(Bucket(p)) < MaxPerProcess
                      THEN Bucket(p) \cup {hand.of} ELSE Bucket(p)
             all == Append(Others(p), [key |-> p, facts |-> facts])
  <2>1. hand.of \in Conns /\ p \in Procs
    BY <1>5, HandTypes DEF Park, ControlInv
  <2>2. facts \subseteq Conns
    BY <2>1, BucketType
  <2>3. [key |-> p, facts |-> facts] \in [key : Procs, facts : SUBSET Conns]
    BY <2>1, <2>2
  <2>4. all \in Seq([key : Procs, facts : SUBSET Conns]) /\ all # <<>>
    <3>1. Others(p) \in Seq([key : Procs, facts : SUBSET Conns])
      BY OthersType
    <3> HIDE DEF p, facts
    <3> QED BY <2>3, <3>1, Appended
  <2>5. /\ parked' \in {all, Tail(all)} /\ hand' = None /\ owns' = "unread"
        /\ UNCHANGED <<overlooked, unborn, alive, current, exited, enriched, named, pm, prev, read, outbox, sighted, nm, socket,
                       unseen, bus, urgent, inventory, pending, stopping, worker, key,
                       judged, lost>>
    BY <1>5 DEF Park, Handled, world, table, monitor, network, queues
  <2> HIDE DEF all
  <2>6. parked' \in Seq([key : Procs, facts : SUBSET Conns])
    BY <2>4, <2>5, HeadTailProperties
  <2> QED BY <2>5, <2>6 DEF TypeOK, ControlInv
<1>6. CASE Release
  <2>1. /\ parked' = Others(hand.of) /\ judged' \subseteq judged \cup Bucket(hand.of)
        /\ hand' = None /\ owns' = "unread"
        /\ UNCHANGED <<overlooked, unborn, alive, current, exited, enriched, named, pm, prev, read, outbox, sighted, nm, socket,
                       unseen, bus, urgent, inventory, pending, stopping, worker, key, lost>>
    BY <1>6 DEF Release, Released, Judge, Handled, world, table, monitor, network, queues
  <2>2. Bucket(hand.of) \subseteq Conns /\ Others(hand.of) \in Seq([key : Procs, facts : SUBSET Conns])
    BY BucketType, OthersType
  <2> QED BY <2>1, <2>2 DEF TypeOK, ControlInv
<1> QED BY <1>1, <1>2, <1>3, <1>4, <1>5, <1>6 DEF Dispatcher

LEMMA WorkerTyped ==
  ASSUME TypeOK, ControlInv, Worker
  PROVE  TypeOK' /\ ControlInv'
<1> USE EnrichmentAssumption
<1>1. CASE NextKey
  <2> DEFINE p == IF urgent # <<>> THEN Head(urgent) ELSE Head(inventory)
  <2>1. /\ p \in Procs /\ urgent' \in Seq(Procs) /\ inventory' \in Seq(Procs)
    <3>1. CASE urgent # <<>>
      BY <1>1, <3>1, HeadTailProperties DEF NextKey, TypeOK
    <3>2. CASE urgent = <<>>
      BY <1>1, <3>2, HeadTailProperties DEF NextKey, TypeOK
    <3> QED BY <3>1, <3>2
  <2>2. /\ pending' \subseteq pending /\ overlooked' \subseteq overlooked \cup {p}
        /\ \/ key' = p /\ worker' = "verify"
           \/ key' = None /\ worker' = "next"
        /\ UNCHANGED <<unborn, alive, current, exited, enriched, named, pm, prev, read, outbox, sighted, nm, socket,
                       unseen, bus, hand, owns, stopping, parked, judged, lost>>
    BY <1>1 DEF NextKey, Discarded, world, table, monitor, network, rule
  <2> HIDE DEF p
  <2> QED BY <2>1, <2>2 DEF TypeOK, ControlInv
<1>2. CASE WorkerEnds
  BY <1>2 DEF WorkerEnds, world, table, monitor, network, queues, rule, TypeOK, ControlInv
<1>3. CASE EnrichFails
  BY <1>3 DEF EnrichFails, world, table, monitor, network, queues, rule, TypeOK, ControlInv
<1>4. CASE SetEnrichment
  BY <1>4 DEF SetEnrichment, Stored, world, monitor, network, queues, rule, TypeOK, ControlInv
<1>5. CASE PublishEnriched
  <2>1. /\ worker = "publish" /\ Publish(Result(key)) /\ worker' = "next" /\ key' = None
        /\ UNCHANGED <<overlooked, unborn, alive, current, exited, enriched, named, pm, prev, read, outbox, sighted, nm, socket,
                       unseen, hand, owns, urgent, inventory, pending, stopping, parked, judged>>
    BY <1>5 DEF PublishEnriched, Result, world, table, monitor, network, queues, rule
  <2>2. Result(key) \in Event
    BY <2>1 DEF TypeOK, ControlInv, Event, Kinds, Result
  <2>3. bus' \in Seq(Event) /\ Len(bus') <= BusCapacity /\ lost' \subseteq Procs
    BY <2>1, <2>2, PublishKeeps DEF TypeOK
  <2> QED BY <2>1, <2>3 DEF TypeOK, ControlInv
<1> QED BY <1>1, <1>2, <1>3, <1>4, <1>5 DEF Worker

LEMMA StepTyped == TypeOK /\ ControlInv /\ [Next]_vars => TypeOK' /\ ControlInv'
<1> SUFFICES ASSUME TypeOK, ControlInv, [Next]_vars PROVE TypeOK' /\ ControlInv'
  OBVIOUS
<1>1. ASSUME NEW p \in Procs, Spawn(p) \/ Exit(p) PROVE TypeOK' /\ ControlInv'
  BY <1>1 DEF Spawn, Exit, table, monitor, network, queues, rule, TypeOK, ControlInv
<1>2. CASE StopWorker
  BY <1>2 DEF StopWorker, world, table, monitor, network, queues, rule, TypeOK, ControlInv
<1>3. CASE UNCHANGED vars
  BY <1>3 DEF vars, TypeOK, ControlInv
<1> QED BY <1>1, <1>2, <1>3, ProcessMonitorTyped, NetworkMonitorTyped, DispatcherTyped, WorkerTyped
        DEF Next

\* What the threads are about to do is typed, and shared state with it.
THEOREM TypeCorrect == Spec => []TypeOK
<1>1. TypeOK /\ ControlInv => TypeOK
  OBVIOUS
<1> QED BY InitiallyTyped, StepTyped, <1>1, PTL DEF Spec

-----------------------------------------------------------------------------
(***************************************************************************)
(* The queues of the worker                                                *)
(***************************************************************************)
LEMMA QueueStep ==
  ASSUME TypeOK, ControlInv, QueueInv, [Next]_vars
  PROVE  QueueInv'
<1> USE EnrichmentAssumption
<1>1. /\ urgent \in Seq(Procs) /\ inventory \in Seq(Procs) /\ Len(urgent) \in Nat
      /\ Len(inventory) \in Nat /\ Cardinality(pending) \in Nat
  BY LenProperties, FS_CardinalityType DEF TypeOK, QueueInv
<1>2. CASE Request
  <2> DEFINE p == hand.of
  <2>1. p \in Procs
    BY <1>2, HandTypes DEF Request, Kinds
  <2>2. \/ UNCHANGED queues
        \/ Accepts(p) /\ pending' = pending \cup {p} /\ urgent' = Append(urgent, p) /\ UNCHANGED inventory
        \/ Accepts(p) /\ pending' = pending \cup {p} /\ inventory' = Append(inventory, p) /\ UNCHANGED urgent
    BY <1>2 DEF Request, queues
  <2>3. CASE UNCHANGED queues
    BY <2>3 DEF queues, QueueInv
  <2> HIDE DEF p
  <2>4. ASSUME Accepts(p), pending' = pending \cup {p}
        PROVE  /\ p \notin ToSet(urgent) /\ p \notin ToSet(inventory)
               /\ IsFiniteSet(pending') /\ Cardinality(pending') = Cardinality(pending) + 1
               /\ Cardinality(pending') <= Capacity
    <3>1. p \notin pending /\ Cardinality(pending) < Capacity
      BY <2>4 DEF Accepts
    <3>2. IsFiniteSet(pending \cup {p}) /\ Cardinality(pending \cup {p}) = Cardinality(pending) + 1
      BY <3>1, FS_AddElement DEF QueueInv
    <3>3. Cardinality(pending) + 1 <= Capacity
      BY <1>1, <3>1
    <3> QED BY <2>4, <3>1, <3>2, <3>3 DEF QueueInv
  <2>5. CASE Accepts(p) /\ pending' = pending \cup {p} /\ urgent' = Append(urgent, p) /\ UNCHANGED inventory
    <3>1. /\ ToSet(urgent') = ToSet(urgent) \cup {p} /\ Len(urgent') = Len(urgent) + 1
          /\ IsInjective(urgent')
      <4>1. /\ ToSet(Append(urgent, p)) = ToSet(urgent) \cup {p}
            /\ Len(Append(urgent, p)) = Len(urgent) + 1
        BY <1>1, <2>1, Appended
      <4>2. IsInjective(Append(urgent, p))
        BY <1>1, <2>1, <2>4, <2>5, InjectiveSteps DEF QueueInv
      <4> QED BY <2>5, <4>1, <4>2
    <3>2. Cardinality(pending') = Len(urgent') + Len(inventory')
      BY <1>1, <2>4, <2>5, <3>1 DEF QueueInv
    <3> QED BY <2>4, <2>5, <3>1, <3>2 DEF QueueInv
  <2>6. CASE Accepts(p) /\ pending' = pending \cup {p} /\ inventory' = Append(inventory, p) /\ UNCHANGED urgent
    <3>1. /\ ToSet(inventory') = ToSet(inventory) \cup {p} /\ Len(inventory') = Len(inventory) + 1
          /\ IsInjective(inventory')
      <4>1. /\ ToSet(Append(inventory, p)) = ToSet(inventory) \cup {p}
            /\ Len(Append(inventory, p)) = Len(inventory) + 1
        BY <1>1, <2>1, Appended
      <4>2. IsInjective(Append(inventory, p))
        BY <1>1, <2>1, <2>4, <2>6, InjectiveSteps DEF QueueInv
      <4> QED BY <2>6, <4>1, <4>2
    <3>2. Cardinality(pending') = Len(urgent') + Len(inventory')
      BY <1>1, <2>4, <2>6, <3>1 DEF QueueInv
    <3> QED BY <2>4, <2>6, <3>1, <3>2 DEF QueueInv
  <2> QED BY <2>2, <2>3, <2>5, <2>6 DEF p
<1>3. CASE NextKey
  <2>1. ASSUME NEW q \in Seq(Procs), q # <<>>, IsInjective(q)
        PROVE  /\ Head(q) \in ToSet(q) /\ ToSet(Tail(q)) = ToSet(q) \ {Head(q)}
               /\ IsInjective(Tail(q)) /\ Len(Tail(q)) = Len(q) - 1
    <3>1. ToSet(q) = ToSet(Tail(q)) \cup {Head(q)}
      BY <2>1, ElementsOf
    <3>2. Head(q) \notin ToSet(Tail(q)) /\ IsInjective(Tail(q))
      BY <2>1, InjectiveSteps
    <3>3. Len(Tail(q)) = Len(q) - 1
      BY <2>1, HeadTailProperties
    <3> QED BY <3>1, <3>2, <3>3
  <2>2. ASSUME NEW p \in pending, pending' = pending \ {p}
        PROVE  IsFiniteSet(pending') /\ Cardinality(pending') = Cardinality(pending) - 1
    BY <2>2, FS_RemoveElement DEF QueueInv
  <2>3. CASE urgent # <<>>
    <3>1. urgent' = Tail(urgent) /\ inventory' = inventory /\ pending' = pending \ {Head(urgent)}
      BY <1>3, <2>3 DEF NextKey, Discarded
    <3>2. /\ Head(urgent) \in ToSet(urgent) /\ ToSet(urgent') = ToSet(urgent) \ {Head(urgent)}
          /\ IsInjective(urgent') /\ Len(urgent') = Len(urgent) - 1
      BY <1>1, <2>1, <2>3, <3>1 DEF QueueInv
    <3>3. IsFiniteSet(pending') /\ Cardinality(pending') = Cardinality(pending) - 1
      BY <2>2, <3>1, <3>2 DEF QueueInv
    <3>4. Cardinality(pending') = Len(urgent') + Len(inventory') /\ Cardinality(pending') <= Capacity
      BY <1>1, <3>1, <3>2, <3>3 DEF QueueInv
    <3> QED BY <3>1, <3>2, <3>3, <3>4 DEF QueueInv
  <2>4. CASE urgent = <<>>
    <3>1. /\ urgent' = urgent /\ inventory' = Tail(inventory) /\ inventory # <<>>
          /\ pending' = pending \ {Head(inventory)}
      BY <1>3, <2>4 DEF NextKey, Discarded
    <3>2. /\ Head(inventory) \in ToSet(inventory) /\ ToSet(inventory') = ToSet(inventory) \ {Head(inventory)}
          /\ IsInjective(inventory') /\ Len(inventory') = Len(inventory) - 1
      BY <1>1, <2>1, <3>1 DEF QueueInv
    <3>3. IsFiniteSet(pending') /\ Cardinality(pending') = Cardinality(pending) - 1
      BY <2>2, <3>1, <3>2 DEF QueueInv
    <3>4. Cardinality(pending') = Len(urgent') + Len(inventory') /\ Cardinality(pending') <= Capacity
      BY <1>1, <3>1, <3>2, <3>3 DEF QueueInv
    <3> QED BY <3>1, <3>2, <3>3, <3>4 DEF QueueInv
  <2> QED BY <2>3, <2>4
<1>4. CASE UNCHANGED queues
  BY <1>4 DEF queues, QueueInv
<1> QED
  BY <1>2, <1>3, <1>4
  DEF Next, ProcessMonitor, NetworkMonitor, Dispatcher, Worker, Spawn, Exit, Collect,
      ApplySnapshot, PublishNext, Attribute, PublishOpened, TakeEvent, Ignore, ReadOwner,
      Park, Release, WorkerEnds, EnrichFails, SetEnrichment, PublishEnriched, StopWorker,
      vars, queues

LEMMA InitiallyQueued == Init => QueueInv
BY EnrichmentAssumption, EmptyElements, FS_EmptySet, EmptySeq DEF Init, QueueInv, IsInjective

-----------------------------------------------------------------------------
(***************************************************************************)
(* The snapshots                                                           *)
(***************************************************************************)

\* A poll announces what the last one has not seen, or overlooks it.
LEMMA CollectAnnounces ==
  ASSUME TypeOK, ControlInv, Collect, NEW p \in alive, p \notin prev
  PROVE  p \in overlooked' \/ \E e \in Requests(p) : e \in ToSet(outbox')
<1>1. alive \in SUBSET Procs /\ p \in Procs
  BY DEF TypeOK
<1>2. PICK known \in Readings(alive) :
        /\ outbox' = IF prev = NoSnapshot THEN Arrivals("discovered", alive, known)
                     ELSE Diff(alive, known)
        /\ overlooked' = overlooked \cup ((alive \ prev) \ known)
  BY DEF Collect
<1>3. CASE p \notin known
  BY <1>2, <1>3
<1>4. CASE p \in known /\ prev = NoSnapshot
  <2>1. [type |-> "discovered", of |-> p] \in ToSet(outbox')
    BY <1>1, <1>2, <1>4, ArrivalsOf DEF Kinds
  <2> QED BY <2>1 DEF Requests
<1>5. CASE p \in known /\ prev # NoSnapshot
  <2> DEFINE started == Arrivals("started", alive \ prev, known)
             stopped == Events("stopped", prev \ alive)
  <2>1. alive \ prev \in SUBSET Procs /\ prev \ alive \in SUBSET Procs /\ outbox' = started \o stopped
    BY <1>1, <1>2, <1>5 DEF Diff, TypeOK
  <2>2. started \in Seq(Event) /\ stopped \in Seq(Event)
    BY <2>1, ArrivalsOf, EventsOf DEF Kinds
  <2>3. [type |-> "started", of |-> p] \in ToSet(started)
    BY <1>5, <2>1, ArrivalsOf DEF Kinds
  <2> HIDE DEF started, stopped
  <2>4. ToSet(started) \subseteq ToSet(outbox')
    BY ONLY <2>1, <2>2, ElementsOfBoth
  <2> QED BY <2>3, <2>4 DEF Requests
<1> QED BY <1>3, <1>4, <1>5

LEMMA SnapshotStep ==
  ASSUME TypeOK, ControlInv, SnapshotInv, [Next]_vars
  PROVE  SnapshotInv'
<1> USE EnrichmentAssumption
<1>1. ASSUME NEW q \in Procs, Spawn(q) PROVE SnapshotInv'
  BY <1>1 DEF Spawn, table, monitor, SnapshotInv, Known
<1>2. ASSUME NEW q \in Procs, Exit(q) PROVE SnapshotInv'
  BY <1>2 DEF Exit, table, monitor, SnapshotInv, Known
<1>3. CASE Collect
  <2>1. /\ pm = "idle" /\ pm' = "apply" /\ prev' = alive /\ sighted' = sighted \cup alive
        /\ UNCHANGED <<unborn, alive, current, exited>>
    BY <1>3 DEF Collect, world, table
  <2>2. \A p \in alive : p \in prev \/ p \in overlooked' \/ Requests(p) \cap ToSet(outbox') # {}
    BY <1>3, CollectAnnounces
  <2>3. overlooked \subseteq overlooked' /\ outbox = <<>>
    BY <1>3 DEF Collect, ControlInv
  <2>4. ASSUME NEW p \in Procs
        PROVE  /\ p \in unborn => p \notin alive \cup sighted /\ ~Known(p)
               /\ p \in prev => p \in sighted
               /\ p \in alive \cap sighted => p \in prev
               /\ p \in prev => p \in current \/ p \in overlooked
    BY <1>3 DEF SnapshotInv, Collect
  <2>5. ASSUME NEW p \in Procs, p \in alive
        PROVE  \/ p \in current'
               \/ p \in overlooked'
               \/ Requests(p) \cap ToSet(outbox') # {}
    BY <2>1, <2>2, <2>3, <2>4, <2>5
  <2>6. ASSUME NEW p \in Procs
        PROVE  /\ p \in unborn => p \notin alive \cup sighted' /\ ~Known(p)'
               /\ p \in alive => p \in sighted'
    BY <2>1, <2>4 DEF Known
  <2> QED BY <2>1, <2>5, <2>6 DEF SnapshotInv
<1>4. CASE ApplySnapshot
  <2>1. /\ current' = prev /\ exited' \subseteq exited \cup current
        /\ UNCHANGED <<unborn, alive, sighted, prev, outbox, overlooked>>
    BY <1>4 DEF ApplySnapshot, world
  <2>2. ASSUME NEW p \in Procs
        PROVE  /\ p \in unborn => p \notin alive \cup sighted /\ ~Known(p) /\ p \notin prev
               /\ p \in prev => p \in sighted
               /\ p \in alive \cap sighted => p \in prev
    BY DEF SnapshotInv
  <2>3. ASSUME NEW p \in Procs PROVE p \in unborn => ~Known(p)'
    BY <2>1, <2>2 DEF Known
  <2>4. ASSUME NEW p \in Procs
        PROVE  /\ p \in unborn' => p \notin alive' \cup sighted' /\ ~Known(p)'
               /\ p \in prev' => p \in sighted'
               /\ p \in alive' \cap sighted' => p \in prev'
               /\ p \in prev' => p \in current'
    BY <2>1, <2>2, <2>3
  <2> QED BY ONLY <2>4 DEF SnapshotInv
<1>5. CASE PublishNext
  BY <1>5 DEF PublishNext, world, table, SnapshotInv, Known
<1>6. ASSUME NEW c \in Conns, NEW r \in BOOLEAN, Attribute(c, r) PROVE SnapshotInv'
  <2>1. /\ current \subseteq current' /\ current' \subseteq current \cup (alive \cap {Owner[c]})
        /\ UNCHANGED <<unborn, alive, sighted, exited, prev, outbox, pm, overlooked>>
    BY <1>6 DEF Attribute, world, monitor
  <2> QED BY <2>1 DEF SnapshotInv, Known
<1>7. CASE /\ UNCHANGED <<unborn, alive, sighted, current, exited, prev, outbox, pm>>
           /\ overlooked \subseteq overlooked'
  BY <1>7 DEF SnapshotInv, Known
<1>8. CASE NextKey
  BY <1>7, <1>8 DEF NextKey, world, table, monitor
<1>9. CASE Dispatcher \/ PublishOpened \/ StopWorker \/ UNCHANGED vars
  <2>1. UNCHANGED <<unborn, alive, sighted, current, exited, prev, outbox, pm, overlooked>>
    BY <1>9 DEF Dispatcher, PublishOpened, TakeEvent, Request, Ignore, ReadOwner, Park, Release,
                StopWorker, vars, world, table, monitor
  <2> QED BY <1>7, <2>1
<1>10. CASE WorkerEnds \/ EnrichFails \/ SetEnrichment \/ PublishEnriched
  <2>1. UNCHANGED <<unborn, alive, sighted, current, exited, prev, outbox, pm, overlooked>>
    BY <1>10 DEF WorkerEnds, EnrichFails, SetEnrichment, PublishEnriched, world, table, monitor
  <2> QED BY <1>7, <2>1
<1> QED
  BY <1>1, <1>2, <1>3, <1>4, <1>5, <1>6, <1>8, <1>9, <1>10
  DEF Next, ProcessMonitor, NetworkMonitor, Worker

-----------------------------------------------------------------------------
(***************************************************************************)
(* The parked sockets                                                      *)
(***************************************************************************)
Place == [key : Procs, facts : SUBSET Conns]

LEMMA TidySteps ==
  ASSUME NEW s \in Seq(Place), Tidy(s)
  PROVE  /\ s # <<>> => Tidy(Tail(s))
         /\ \A b \in Place :
              /\ \A c \in b.facts : Owner[c] = b.key
              /\ \A x \in ToSet(s) : x.key # b.key
              => Tidy(Append(s, b))
         /\ \A i \in 1..Len(s) :
              /\ Tidy(RemoveAt(s, i)) /\ ToSet(RemoveAt(s, i)) \subseteq ToSet(s)
              /\ \A x \in ToSet(RemoveAt(s, i)) : x.key # s[i].key
<1>1. /\ DOMAIN s = 1..Len(s) /\ Len(s) \in Nat
      /\ \A i, j \in 1..Len(s) : s[i].key = s[j].key => i = j
  BY LenProperties DEF Tidy
<1>2. ASSUME s # <<>> PROVE Tidy(Tail(s))
  <2>1. /\ Tail(s) \in Seq(Place) /\ Len(Tail(s)) = Len(s) - 1
        /\ \A i \in 1..Len(Tail(s)) : Tail(s)[i] = s[i + 1]
    BY <1>2, HeadTailProperties
  <2>2. \A i \in 1..Len(Tail(s)) : i + 1 \in 1..Len(s)
    BY <1>1, <2>1
  <2>3. ToSet(Tail(s)) \subseteq ToSet(s)
    BY <1>2, ElementsOf
  <2>4. ASSUME NEW i \in 1..Len(Tail(s)), NEW j \in 1..Len(Tail(s)), Tail(s)[i].key = Tail(s)[j].key
        PROVE  i = j
    <3>1. i + 1 = j + 1
      BY <1>1, <2>1, <2>2, <2>4
    <3> QED BY <1>1, <2>1, <3>1
  <2> QED BY <2>3, <2>4 DEF Tidy
<1>3. ASSUME NEW b \in Place, \A c \in b.facts : Owner[c] = b.key,
             \A x \in ToSet(s) : x.key # b.key
      PROVE  Tidy(Append(s, b))
  <2>1. /\ Len(Append(s, b)) = Len(s) + 1 /\ Append(s, b)[Len(s) + 1] = b
        /\ \A i \in 1..Len(s) : Append(s, b)[i] = s[i]
    BY AppendProperties
  <2>2. ToSet(Append(s, b)) = ToSet(s) \cup {b}
    BY Appended
  <2>3. \A i \in 1..Len(s) : s[i].key # b.key
    BY <1>1, <1>3 DEF ToSet
  <2>4. \A i \in 1..(Len(s) + 1) : i \in 1..Len(s) \/ i = Len(s) + 1
    BY <1>1
  <2>5. ASSUME NEW i \in 1..(Len(s) + 1), NEW j \in 1..(Len(s) + 1),
               Append(s, b)[i].key = Append(s, b)[j].key
        PROVE  i = j
    BY <1>1, <2>1, <2>3, <2>4, <2>5
  <2> QED BY <1>3, <2>1, <2>2, <2>5 DEF Tidy
<1>4. ASSUME NEW i \in 1..Len(s)
      PROVE  /\ Tidy(RemoveAt(s, i)) /\ ToSet(RemoveAt(s, i)) \subseteq ToSet(s)
             /\ \A x \in ToSet(RemoveAt(s, i)) : x.key # s[i].key
  <2> DEFINE r == RemoveAt(s, i)
             was(j) == IF j < i THEN j ELSE j + 1
  <2>1. /\ r \in Seq(Place) /\ Len(r) = Len(s) - 1
        /\ \A j \in 1..(Len(s) - 1) : r[j] = IF j < i THEN s[j] ELSE s[j + 1]
    BY RemoveAtProperties
  <2>2. DOMAIN r = 1..(Len(s) - 1)
    BY <2>1, LenProperties
  <2> HIDE DEF r
  <2>3. \A j \in 1..(Len(s) - 1) : was(j) \in 1..Len(s) /\ was(j) # i /\ r[j] = s[was(j)]
    BY <1>1, <2>1
  <2>4. \A j, k \in 1..(Len(s) - 1) : was(j) = was(k) => j = k
    BY <1>1
  <2> HIDE DEF was
  <2>5. ASSUME NEW j \in 1..Len(r), NEW k \in 1..Len(r), r[j].key = r[k].key PROVE j = k
    <3>1. j \in 1..(Len(s) - 1) /\ k \in 1..(Len(s) - 1)
      BY <2>1, <2>5
    <3>2. was(j) = was(k)
      BY <1>1, <2>3, <2>5, <3>1
    <3> QED BY <2>4, <3>1, <3>2
  <2>6. \A j \in 1..(Len(s) - 1) : r[j] \in ToSet(s) /\ r[j].key # s[i].key
    BY <1>1, <2>3 DEF ToSet
  <2>7. \A x \in ToSet(r) : x \in ToSet(s) /\ x.key # s[i].key
    BY <2>2, <2>6 DEF ToSet
  <2>8. Tidy(r)
    BY <2>5, <2>7 DEF Tidy
  <2> QED BY <2>7, <2>8 DEF r
<1> QED BY <1>2, <1>3, <1>4

\* Without a process's bucket the dictionary has the others.
LEMMA OthersProperties ==
  ASSUME TypeOK, ParkedInv, NEW p
  PROVE  /\ Others(p) \in Seq(Place) /\ Tidy(Others(p))
         /\ ToSet(Others(p)) \subseteq ToSet(parked)
         /\ \A b \in ToSet(Others(p)) : b.key # p
<1>1. parked \in Seq(Place) /\ Tidy(parked) /\ DOMAIN parked = 1..Len(parked)
  BY LenProperties DEF TypeOK, ParkedInv, Place
<1>2. CASE Buckets(p) = {}
  BY <1>1, <1>2 DEF Others, Buckets, ToSet
<1>3. CASE Buckets(p) # {}
  <2>1. PICK i \in 1..Len(parked) : parked[i].key = p /\ Others(p) = RemoveAt(parked, i)
    BY <1>1, <1>3 DEF Others, Buckets
  <2>2. /\ Tidy(RemoveAt(parked, i)) /\ ToSet(RemoveAt(parked, i)) \subseteq ToSet(parked)
        /\ \A x \in ToSet(RemoveAt(parked, i)) : x.key # parked[i].key
    BY <1>1, TidySteps
  <2>3. RemoveAt(parked, i) \in Seq(Place)
    BY <1>1, RemoveAtProperties
  <2> QED BY <2>1, <2>2, <2>3
<1> QED BY <1>2, <1>3

LEMMA BucketElements ==
  ASSUME NEW p, NEW c
  PROVE  c \in Bucket(p) <=> \E b \in ToSet(parked) : b.key = p /\ c \in b.facts
BY DEF Bucket, Buckets, ToSet

\* park() leaves a bucket of the socket's owner and some of the others.
LEMMA ParkKeeps ==
  ASSUME TypeOK, ControlInv, ParkedInv, Park
  PROVE  /\ ParkedInv'
         /\ \A b \in ToSet(parked') : b \in ToSet(parked) \/ b.key = Owner[hand.of]
<1> DEFINE p == Owner[hand.of]
           facts == IF Cardinality(Bucket(p)) < MaxPerProcess
                    THEN Bucket(p) \cup {hand.of} ELSE Bucket(p)
           b == [key |-> p, facts |-> facts]
           all == Append(Others(p), b)
<1>1. hand.of \in Conns /\ p \in Procs
  BY HandTypes, EnrichmentAssumption DEF Park, ControlInv
<1>2. facts \subseteq Conns /\ \A c \in facts : Owner[c] = p
  <2>1. \A c \in Bucket(p) : Owner[c] = p
    BY BucketElements DEF ParkedInv, Tidy
  <2> QED BY <1>1, <2>1, BucketType
<1>3. parked' \in {all, Tail(all)}
  BY DEF Park
<1>4. b \in Place /\ b.key = p /\ b.facts = facts
  <2> HIDE DEF p, facts
  <2> QED BY <1>1, <1>2 DEF Place
<1>5. /\ Others(p) \in Seq(Place) /\ Tidy(Others(p))
      /\ ToSet(Others(p)) \subseteq ToSet(parked) /\ \A x \in ToSet(Others(p)) : x.key # p
  BY OthersProperties
<1> HIDE DEF p, facts, b
<1>6. all \in Seq(Place) /\ Tidy(all) /\ all # <<>> /\ ToSet(all) = ToSet(Others(p)) \cup {b}
  <2>1. Tidy(all)
    BY <1>1, <1>2, <1>4, <1>5, TidySteps
  <2> QED BY <1>4, <1>5, <2>1, Appended
<1> HIDE DEF all
<1>7. Tidy(Tail(all)) /\ ToSet(Tail(all)) \subseteq ToSet(all)
  <2>1. ToSet(Tail(all)) \subseteq ToSet(all)
    BY <1>6, ElementsOf
  <2> QED BY <1>6, <2>1, TidySteps
<1>8. Tidy(parked') /\ ToSet(parked') \subseteq ToSet(Others(p)) \cup {b}
  BY <1>3, <1>6, <1>7
<1>9. ParkedInv'
  BY <1>8 DEF ParkedInv
<1> QED BY <1>4, <1>5, <1>8, <1>9 DEF p

LEMMA ParkedStep ==
  ASSUME TypeOK, ControlInv, ParkedInv, [Next]_vars
  PROVE  ParkedInv'
<1>1. CASE Park
  BY <1>1, ParkKeeps
<1>2. CASE Release
  <2>1. parked' = Others(hand.of)
    BY <1>2 DEF Release, Released
  <2>2. Tidy(Others(hand.of))
    BY OthersProperties
  <2> QED BY <2>1, <2>2 DEF ParkedInv
<1>3. CASE UNCHANGED parked
  BY <1>3 DEF ParkedInv
<1> QED
  BY <1>1, <1>2, <1>3
  DEF Next, ProcessMonitor, NetworkMonitor, Dispatcher, Worker, Spawn, Exit, Collect,
      ApplySnapshot, PublishNext, Attribute, PublishOpened, TakeEvent, Request, Ignore, ReadOwner,
      NextKey, WorkerEnds, EnrichFails, SetEnrichment, PublishEnriched, StopWorker,
      vars, rule

-----------------------------------------------------------------------------
(***************************************************************************)
(* What is ahead of a process                                              *)
(***************************************************************************)

\* Requests and results are events, and hang on their process.
LEMMA Waking ==
  ASSUME NEW p \in Procs
  PROVE  /\ \A e \in Requests(p) \cup {Result(p)} : e \in Event /\ e # None /\ Wakes(e) = {p}
         /\ \A e \in Requests(p) : e.type \in {"discovered", "started"} /\ e.of = p
         /\ Result(p).type = "enriched" /\ Result(p).of = p
BY EnrichmentAssumption DEF Requests, Result, Event, Kinds, Wakes

\* A poll reports what is fresh, if it runs; what is added to the table is in the last
\* snapshot and about to be announced, overlooked, or still fresh.
LEMMA FreshStep ==
  ASSUME TypeOK, ControlInv, SnapshotInv, [Next]_vars, NEW p \in Procs, Fresh(p)
  PROVE  Fresh(p)' \/ p \in overlooked' \/ \E e \in Requests(p) : e \in ToSet(outbox')
<1>1. CASE Collect
  <2>1. sighted' = sighted \cup alive /\ UNCHANGED <<current, exited>>
    BY <1>1 DEF Collect, table
  <2>2. ASSUME p \in alive, p \notin sighted
        PROVE  p \in overlooked' \/ \E e \in Requests(p) : e \in ToSet(outbox')
    <3>1. p \notin prev
      BY <2>2 DEF SnapshotInv
    <3> QED BY <1>1, <2>2, <3>1, CollectAnnounces
  <2>3. CASE p \notin sighted
    BY <2>1, <2>2, <2>3 DEF Fresh
  <2>4. CASE ~Known(p)
    BY <2>1, <2>4 DEF Fresh, Known
  <2> QED BY <2>3, <2>4 DEF Fresh
<1>2. CASE ApplySnapshot
  <2>1. current' = prev /\ exited' \subseteq exited \cup current /\ UNCHANGED <<sighted, outbox, overlooked>>
    BY <1>2 DEF ApplySnapshot
  <2>2. p \in prev => p \in current \/ p \in overlooked \/ \E e \in Requests(p) : e \in ToSet(outbox)
    BY DEF SnapshotInv
  <2> QED BY <2>1, <2>2 DEF Fresh, Known
<1>3. ASSUME NEW c \in Conns, NEW r \in BOOLEAN, Attribute(c, r)
      PROVE  Fresh(p)' \/ p \in overlooked' \/ \E e \in Requests(p) : e \in ToSet(outbox')
  <2>1. current' \subseteq current \cup (alive \cap {Owner[c]}) /\ UNCHANGED <<exited, sighted, outbox, overlooked>>
    BY <1>3 DEF Attribute, monitor
  <2>2. p \in alive \cap sighted => p \in current \/ p \in overlooked \/ \E e \in Requests(p) : e \in ToSet(outbox)
    BY DEF SnapshotInv
  <2> QED BY <2>1, <2>2 DEF Fresh, Known
<1>4. CASE UNCHANGED <<sighted, current, exited>>
  BY <1>4 DEF Fresh, Known
<1> QED
  BY <1>1, <1>2, <1>3, <1>4
  DEF Next, ProcessMonitor, NetworkMonitor, Dispatcher, Worker, Spawn, Exit, PublishNext,
      PublishOpened, TakeEvent, Request, Ignore, ReadOwner, Park, Release, NextKey,
      WorkerEnds, EnrichFails, SetEnrichment, PublishEnriched, StopWorker, vars, table, monitor

\* An event that wakes a process stays in flight until it is handled or counted as lost.
LEMMA FlightStep ==
  ASSUME TypeOK, ControlInv, [Next]_vars, NEW p \in Procs,
         NEW e \in Requests(p) \cup {Result(p)}, InFlight(e)
  PROVE  \/ InFlight(e)' \/ p \in lost'
         \/ hand = e /\ (Request \/ Release)
<1>1. e \in Event /\ e # None /\ Wakes(e) = {p}
      /\ e.type \in {"discovered", "started", "enriched"}
  BY Waking
<1>2. ASSUME NEW x \in Event, Publish(x), UNCHANGED hand PROVE InFlight(e)' \/ p \in lost'
  <2>1. e \in ToSet(bus) => e \in ToSet(bus') \/ p \in lost'
    BY <1>1, <1>2, PublishKeeps DEF TypeOK
  <2> QED BY <1>2, <2>1 DEF InFlight
<1>3. CASE PublishNext
  <2>1. Head(outbox) \in Event
    BY <1>3, HeadTailProperties DEF PublishNext, TypeOK, ControlInv
  <2> QED BY <1>2, <1>3, <2>1 DEF PublishNext
<1>4. CASE PublishOpened
  <2> DEFINE x == [type |-> IF nm = "publish" THEN "opened" ELSE "unattributed", of |-> socket]
  <2>1. x \in Event /\ Publish(x) /\ UNCHANGED hand
    BY <1>4 DEF PublishOpened, TypeOK, ControlInv, Event
  <2> HIDE DEF x
  <2> QED BY <1>2, <2>1
<1>5. CASE PublishEnriched
  <2>1. Result(key) \in Event /\ Publish(Result(key)) /\ UNCHANGED hand
    BY <1>5 DEF PublishEnriched, Result, TypeOK, ControlInv, Event, Kinds
  <2> QED BY <1>2, <2>1
<1>6. CASE TakeEvent
  <2>1. bus # <<>> /\ hand = None /\ hand' = Head(bus) /\ bus' = Tail(bus)
    BY <1>6 DEF TakeEvent
  <2>2. ToSet(bus) = ToSet(Tail(bus)) \cup {Head(bus)}
    BY <2>1, ElementsOf DEF TypeOK
  <2> QED BY <1>1, <2>1, <2>2 DEF InFlight
<1>7. CASE Ignore \/ ReadOwner \/ Park
  <2>1. hand.type \in {"unnamed", "stopped", "unattributed", "opened"} /\ UNCHANGED bus
    BY <1>7 DEF Ignore, ReadOwner, Park, ControlInv
  <2> QED BY <1>1, <2>1 DEF InFlight
<1>8. CASE Request \/ Release
  BY <1>8 DEF Request, Release, InFlight
<1>9. CASE UNCHANGED <<bus, hand>>
  BY <1>9 DEF InFlight
<1> QED
  BY <1>3, <1>4, <1>5, <1>6, <1>7, <1>8, <1>9
  DEF Next, ProcessMonitor, NetworkMonitor, Dispatcher, Worker, Spawn, Exit, Collect,
      ApplySnapshot, Attribute, NextKey, WorkerEnds, EnrichFails, SetEnrichment, StopWorker, vars

\* What was lost stays lost, and a worker that stops does not start again.
LEMMA LostStep ==
  ASSUME TypeOK, ControlInv, [Next]_vars
  PROVE  lost \subseteq lost' /\ overlooked \subseteq overlooked' /\ (stopping => stopping')
<1>1. ASSUME NEW e, Publish(e) PROVE lost \subseteq lost'
  BY <1>1 DEF Publish
<1>2. CASE PublishNext \/ PublishOpened \/ PublishEnriched
  BY <1>1, <1>2 DEF PublishNext, PublishOpened, PublishEnriched
<1>3. CASE ProcessMonitor
  BY <1>2, <1>3 DEF ProcessMonitor, Collect, ApplySnapshot
<1>4. CASE NetworkMonitor
  <2>1. ASSUME NEW c \in Conns, NEW r \in BOOLEAN, Attribute(c, r)
        PROVE  UNCHANGED <<lost, overlooked, stopping>>
    BY <2>1 DEF Attribute
  <2> QED BY <1>2, <1>4, <2>1 DEF NetworkMonitor
<1>5. CASE Dispatcher
  BY <1>5 DEF Dispatcher, TakeEvent, Request, Ignore, ReadOwner, Park, Release
<1>6. CASE Worker
  BY <1>2, <1>6 DEF Worker, NextKey, WorkerEnds, EnrichFails, SetEnrichment
<1>7. ASSUME NEW p \in Procs, Spawn(p) \/ Exit(p)
      PROVE  lost \subseteq lost' /\ overlooked \subseteq overlooked' /\ (stopping => stopping')
  BY <1>7 DEF Spawn, Exit
<1>8. CASE StopWorker
  BY <1>8 DEF StopWorker
<1>9. CASE UNCHANGED vars
  BY <1>9 DEF vars
<1> QED BY <1>3, <1>4, <1>5, <1>6, <1>7, <1>8, <1>9 DEF Next

\* The enrichment stays ahead until its result is stored.
LEMMA AheadStep ==
  ASSUME TypeOK, ControlInv, SnapshotInv, [Next]_vars, NEW p \in Procs, Ahead(p)
  PROVE  Ahead(p)' \/ (SetEnrichment /\ key = p)
<1>0. lost \subseteq lost' /\ overlooked \subseteq overlooked' /\ (stopping => stopping')
  BY LostStep
<1>1. CASE Fresh(p)
  BY <1>0, <1>1, FreshStep DEF Ahead
<1>2. CASE \E e \in Requests(p) : e \in ToSet(outbox)
  <2>1. PICK e \in Requests(p) : e \in ToSet(outbox)
    BY <1>2
  <2>2. CASE PublishNext
    <3>1. /\ Publish(Head(outbox)) /\ outbox' = Tail(outbox) /\ Head(outbox) \in Event
          /\ ToSet(outbox) = ToSet(Tail(outbox)) \cup {Head(outbox)}
      BY <2>2, ElementsOf DEF PublishNext, TypeOK, ControlInv
    <3>2. Head(outbox) \in ToSet(bus')
      BY <3>1, PublishKeeps DEF TypeOK
    <3> QED BY <2>1, <3>1, <3>2 DEF Ahead, InFlight
  <2>3. CASE Collect
    BY <2>1, <2>3, EmptyElements DEF Collect, ControlInv
  <2>4. CASE UNCHANGED outbox
    BY <2>1, <2>4 DEF Ahead
  <2> QED
    BY <2>2, <2>3, <2>4
    DEF Next, ProcessMonitor, NetworkMonitor, Dispatcher, Worker, Spawn, Exit, ApplySnapshot,
        Attribute, PublishOpened, TakeEvent, Request, Ignore, ReadOwner, Park, Release, NextKey,
        WorkerEnds, EnrichFails, SetEnrichment, PublishEnriched, StopWorker, vars, monitor
<1>3. CASE \E e \in Requests(p) : InFlight(e)
  <2>1. PICK e \in Requests(p) : InFlight(e)
    BY <1>3
  <2>2. CASE hand = e /\ Request
    <3>1. hand.of = p
      BY <1>0, <2>2, Waking
    <3>2. p \in pending' \/ p \in lost' \/ stopping'
      BY <2>2, <3>1 DEF Request, Accepts
    <3> QED BY <3>2 DEF Ahead
  <2>3. ~(hand = e /\ Release)
    BY <1>0, Waking DEF Release
  <2> QED BY <1>0, <2>1, <2>2, <2>3, FlightStep DEF Ahead
<1>4. CASE p \in pending
  <2>1. CASE NextKey
    <3> DEFINE q == IF urgent # <<>> THEN Head(urgent) ELSE Head(inventory)
    <3>1. /\ pending' = pending \ {q} /\ UNCHANGED <<current, exited, sighted>>
          /\ Known(q) /\ q \in named => key' = q /\ worker' = "verify"
          /\ Known(q) /\ q \notin named => q \in overlooked'
      BY <2>1 DEF NextKey, Discarded, table, monitor
    <3> HIDE DEF q
    <3>2. CASE p # q
      BY <1>4, <3>1, <3>2 DEF Ahead
    <3>3. CASE p = q /\ Known(p)
      BY <3>1, <3>3 DEF Ahead
    <3>4. CASE p = q /\ ~Known(p)
      BY <3>1, <3>4 DEF Ahead, Fresh, Known
    <3> QED BY <3>2, <3>3, <3>4
  <2>2. CASE pending \subseteq pending'
    BY <1>4, <2>2 DEF Ahead
  <2> QED
    BY <2>1, <2>2
    DEF Next, ProcessMonitor, NetworkMonitor, Dispatcher, Worker, Spawn, Exit, Collect, ApplySnapshot,
        PublishNext, Attribute, PublishOpened, TakeEvent, Request, Ignore, ReadOwner, Park, Release,
        WorkerEnds, EnrichFails, SetEnrichment, PublishEnriched, StopWorker, vars, queues
<1>5. CASE worker = "verify" /\ key = p
  <2>1. CASE EnrichFails
    BY <1>5, <2>1 DEF EnrichFails, Ahead
  <2>2. CASE UNCHANGED <<worker, key>>
    BY <1>5, <2>2 DEF Ahead
  <2> QED
    BY <1>5, <2>1, <2>2
    DEF Next, ProcessMonitor, NetworkMonitor, Dispatcher, Worker, Spawn, Exit, Collect, ApplySnapshot,
        PublishNext, Attribute, PublishOpened, TakeEvent, Request, Ignore, ReadOwner, Park, Release,
        NextKey, WorkerEnds, SetEnrichment, PublishEnriched, StopWorker, vars
<1>6. CASE p \in lost \/ p \in overlooked \/ stopping
  BY <1>0, <1>6 DEF Ahead
<1> QED BY <1>1, <1>2, <1>3, <1>4, <1>5, <1>6 DEF Ahead

LEMMA AwaitedStep ==
  ASSUME TypeOK, ControlInv, SnapshotInv, AwaitedInv, [Next]_vars
  PROVE  AwaitedInv'
<1> SUFFICES ASSUME NEW p \in Procs, Known(p)', p \notin enriched' PROVE Ahead(p)'
  BY DEF AwaitedInv
<1>1. Known(p) => p \notin enriched
  <2>1. CASE ApplySnapshot
    BY <2>1 DEF ApplySnapshot, Known
  <2>2. CASE enriched \subseteq enriched'
    BY <2>2
  <2> QED
    BY <2>1, <2>2
    DEF Next, ProcessMonitor, NetworkMonitor, Dispatcher, Worker, Spawn, Exit, Collect, PublishNext,
        Attribute, PublishOpened, TakeEvent, Request, Ignore, ReadOwner, Park, Release, NextKey,
        WorkerEnds, EnrichFails, SetEnrichment, Stored, PublishEnriched, StopWorker, vars, table
<1>2. Ahead(p)
  BY <1>1 DEF AwaitedInv, Ahead, Fresh
<1>3. ~(SetEnrichment /\ key = p)
  BY DEF SetEnrichment, Stored
<1> QED BY <1>2, <1>3, AheadStep

-----------------------------------------------------------------------------
(***************************************************************************)
(* Results                                                                 *)
(***************************************************************************)

\* Whose result is announced was enriched before.
LEMMA ResultComes ==
  ASSUME TypeOK, ControlInv, [Next]_vars, NEW p \in Procs, InFlight(Result(p))'
  PROVE  InFlight(Result(p)) \/ (worker = "publish" /\ key = p)
<1>1. Result(p) \in Event /\ Result(p) # None
      /\ Result(p).type = "enriched" /\ Result(p).of = p
  BY Waking
<1>2. ASSUME NEW x \in Event, Publish(x), UNCHANGED hand PROVE InFlight(Result(p)) \/ x = Result(p)
  <2>1. ToSet(bus') \subseteq ToSet(bus) \cup {x}
    BY <1>2, PublishKeeps DEF TypeOK
  <2> QED BY <1>2, <2>1 DEF InFlight
<1>3. CASE PublishNext
  <2>1. Head(outbox) \in Event /\ Head(outbox) \in ToSet(outbox)
    BY <1>3, ElementsOf DEF PublishNext, TypeOK, ControlInv
  <2>2. Head(outbox) # Result(p)
    BY <1>1, <2>1 DEF ControlInv
  <2> QED BY <1>2, <1>3, <2>1, <2>2 DEF PublishNext
<1>4. CASE PublishOpened
  <2> DEFINE x == [type |-> IF nm = "publish" THEN "opened" ELSE "unattributed", of |-> socket]
  <2>1. x \in Event /\ Publish(x) /\ UNCHANGED hand /\ x # Result(p)
    BY <1>1, <1>4 DEF PublishOpened, TypeOK, ControlInv, Event
  <2> HIDE DEF x
  <2> QED BY <1>2, <2>1
<1>5. CASE PublishEnriched
  <2>1. Result(key) \in Event /\ Publish(Result(key)) /\ UNCHANGED hand /\ worker = "publish"
    BY <1>5 DEF PublishEnriched, Result, TypeOK, ControlInv, Event, Kinds
  <2>2. Result(key) = Result(p) => key = p
    BY DEF Result
  <2> QED BY <1>2, <2>1, <2>2
<1>6. CASE TakeEvent
  <2>1. bus # <<>> /\ hand' = Head(bus) /\ bus' = Tail(bus)
    BY <1>6 DEF TakeEvent
  <2>2. ToSet(bus) = ToSet(Tail(bus)) \cup {Head(bus)}
    BY <2>1, ElementsOf DEF TypeOK
  <2> QED BY <2>1, <2>2 DEF InFlight
<1>7. CASE UNCHANGED bus /\ hand' \in {hand, None}
  BY <1>1, <1>7 DEF InFlight
<1> QED
  BY <1>3, <1>4, <1>5, <1>6, <1>7
  DEF Next, ProcessMonitor, NetworkMonitor, Dispatcher, Worker, Spawn, Exit, Collect, ApplySnapshot,
      Attribute, Request, Ignore, ReadOwner, Park, Release, NextKey, WorkerEnds, EnrichFails,
      SetEnrichment, StopWorker, vars, Handled

\* A process leaves the table only when it has ended, and does not come back.
LEMMA KnownStep ==
  ASSUME TypeOK, SnapshotInv, [Next]_vars, NEW p \in Procs
  PROVE  /\ p \notin unborn \cup alive \cup prev => p \notin unborn' \cup alive' \cup prev'
         /\ Known(p) => Known(p)' \/ p \notin unborn' \cup alive' \cup prev'
         /\ ~Known(p) /\ p \notin unborn \cup alive \cup prev => ~Known(p)'
         /\ p \in enriched => p \in enriched' \/ ~Known(p)'
<1>1. CASE ApplySnapshot
  <2>1. /\ current' = prev /\ UNCHANGED <<unborn, alive, prev>>
        /\ \E expired \in SUBSET ((exited \ prev) \ alive) :
             /\ exited' = ((exited \cup current) \ prev) \ expired
             /\ enriched' = enriched \cap (prev \cup exited')
    BY <1>1 DEF ApplySnapshot, world
  <2>2. p \in unborn => ~Known(p)
    BY DEF SnapshotInv
  <2> QED BY <2>1, <2>2 DEF Known
<1>2. ASSUME NEW c \in Conns, NEW r \in BOOLEAN, Attribute(c, r)
      PROVE  /\ current \subseteq current' /\ current' \subseteq current \cup alive
             /\ UNCHANGED <<unborn, alive, prev, exited, enriched>>
  BY <1>2 DEF Attribute, world, monitor
<1>3. CASE NetworkMonitor
  <2>1. /\ current \subseteq current' /\ current' \subseteq current \cup alive
        /\ UNCHANGED <<unborn, alive, prev, exited, enriched>>
    BY <1>2, <1>3 DEF NetworkMonitor, PublishOpened, world, monitor, table
  <2> QED BY <2>1 DEF Known
<1>4. CASE /\ UNCHANGED <<current, exited>> /\ enriched \subseteq enriched'
           /\ p \notin unborn \cup alive \cup prev => p \notin unborn' \cup alive' \cup prev'
  BY <1>4 DEF Known
<1> QED
  BY <1>1, <1>3, <1>4
  DEF Next, ProcessMonitor, Dispatcher, Worker, Spawn, Exit, Collect, PublishNext, TakeEvent, Request,
      Ignore, ReadOwner, Park, Release, NextKey, WorkerEnds, EnrichFails, SetEnrichment, Stored,
      PublishEnriched, StopWorker, vars, world, table, monitor

LEMMA ResultStep ==
  ASSUME TypeOK, ControlInv, SnapshotInv, ResultInv, [Next]_vars
  PROVE  ResultInv'
<1> SUFFICES ASSUME NEW p \in Procs
             PROVE  /\ (key = p \/ InFlight(Result(p)))' =>
                         (Known(p) \/ p \notin unborn \cup alive \cup prev)'
                    /\ ((worker = "publish" /\ key = p) \/ InFlight(Result(p)))' =>
                         (~Known(p) \/ p \in enriched)'
  BY DEF ResultInv
<1> DEFINE gone == p \notin unborn \cup alive \cup prev
<1>1. /\ gone => gone'
      /\ Known(p) => Known(p)' \/ gone'
      /\ ~Known(p) /\ gone => ~Known(p)'
      /\ p \in enriched => p \in enriched' \/ ~Known(p)'
  BY KnownStep
<1>2. InFlight(Result(p))' => InFlight(Result(p)) \/ (worker = "publish" /\ key = p)
  BY ResultComes
<1>3. key' = p => key = p \/ Known(p)
  BY EnrichmentAssumption
  DEF Next, ProcessMonitor, NetworkMonitor, Dispatcher, Worker, Spawn, Exit, Collect, ApplySnapshot,
      PublishNext, Attribute, PublishOpened, TakeEvent, Request, Ignore, ReadOwner, Park, Release,
      NextKey, WorkerEnds, EnrichFails, SetEnrichment, PublishEnriched, StopWorker, vars
<1>4. worker' = "publish" /\ key' = p => (worker = "publish" /\ key = p) \/ p \in enriched'
  BY DEF Next, ProcessMonitor, NetworkMonitor, Dispatcher, Worker, Spawn, Exit, Collect, ApplySnapshot,
      PublishNext, Attribute, PublishOpened, TakeEvent, Request, Ignore, ReadOwner, Park, Release,
      NextKey, WorkerEnds, EnrichFails, SetEnrichment, Stored, PublishEnriched, StopWorker, vars
<1>5. /\ key = p \/ InFlight(Result(p)) => Known(p) \/ gone
      /\ (worker = "publish" /\ key = p) \/ InFlight(Result(p)) => ~Known(p) \/ p \in enriched
  BY DEF ResultInv
<1>6. (key = p \/ InFlight(Result(p)))' => Known(p)' \/ gone'
  BY <1>1, <1>2, <1>3, <1>5
<1>7. ((worker = "publish" /\ key = p) \/ InFlight(Result(p)))' => ~Known(p)' \/ p \in enriched'
  BY <1>1, <1>2, <1>4, <1>5
<1> QED BY <1>6, <1>7

-----------------------------------------------------------------------------
(***************************************************************************)
(* Who waits                                                               *)
(***************************************************************************)

\* A rule begins to wait only for what is ahead, and waits no longer than for the result.
LEMMA WaitingStep ==
  ASSUME TypeOK, ControlInv, SnapshotInv, ParkedInv, AwaitedInv, WaitingInv, [Next]_vars
  PROVE  WaitingInv'
<1> DEFINE coming(p) == Ahead(p) \/ (worker = "publish" /\ key = p) \/ InFlight(Result(p))
<1> SUFFICES ASSUME NEW p \in Procs, Waiting(p)'
             PROVE  Ahead(p)' \/ (worker = "publish" /\ key = p)' \/ InFlight(Result(p))'
  BY DEF WaitingInv
<1>0. p \in Procs
  BY EnrichmentAssumption
<1>1. coming(p)
  <2>1. CASE Waiting(p)
    BY <2>1 DEF WaitingInv
  <2>2. CASE Park
    <3>1. /\ owns = "pending" /\ owns' = "unread"
          /\ \A b \in ToSet(parked') : b \in ToSet(parked) \/ b.key = Owner[hand.of]
      BY <2>2, ParkKeeps DEF Park, Handled
    <3>2. Waiting(p)
      <4>1. PICK c \in Bucket(p)' : TRUE
        BY <3>1 DEF Waiting
      <4>2. PICK b \in ToSet(parked') : b.key = p /\ c \in b.facts
        BY <4>1 DEF Bucket, Buckets, ToSet
      <4> QED BY <3>1, <4>2, BucketElements DEF Waiting
    <3> QED BY <2>1, <3>2
  <2>3. CASE Release
    <3>1. owns' = "unread" /\ parked' = Others(hand.of)
      BY <2>3 DEF Release, Released, Handled
    <3>2. PICK c \in Bucket(p)' : TRUE
      BY <3>1 DEF Waiting
    <3>3. PICK b \in ToSet(parked') : b.key = p /\ c \in b.facts
      BY <3>2 DEF Bucket, Buckets, ToSet
    <3>4. b \in ToSet(parked)
      BY <3>1, <3>3, OthersProperties
    <3> QED BY <2>1, <3>3, <3>4, BucketElements DEF Waiting
  <2>4. CASE ReadOwner
    <3>1. CASE Waiting(p)
      BY <2>1, <3>1
    <3>2. CASE ~Waiting(p)
      <4>1. Known(p) /\ p \notin enriched
        BY <2>4, <3>2 DEF ReadOwner, Handled, AwaitsEnrichment, Waiting, Bucket, Buckets
      <4> QED BY <4>1 DEF AwaitedInv
    <3> QED BY <3>1, <3>2
  <2>5. CASE UNCHANGED parked /\ (owns' = "pending" => owns = "pending" /\ UNCHANGED hand)
    BY <2>1, <2>5 DEF Waiting, Bucket, Buckets
  <2> QED
    BY <2>2, <2>3, <2>4, <2>5
    DEF Next, ProcessMonitor, NetworkMonitor, Dispatcher, Worker, Spawn, Exit, Collect, ApplySnapshot,
        PublishNext, Attribute, PublishOpened, TakeEvent, Request, Ignore, NextKey, WorkerEnds,
        EnrichFails, SetEnrichment, PublishEnriched, StopWorker, vars, rule, Handled
<1>2. CASE Ahead(p)
  BY <1>2, AheadStep DEF SetEnrichment
<1>3. CASE worker = "publish" /\ key = p
  <2>1. CASE PublishEnriched
    <3>1. Publish(Result(p)) /\ Result(p) \in Event
      BY <1>0, <1>3, <2>1, Waking DEF PublishEnriched, Result
    <3> QED BY <3>1, PublishKeeps DEF TypeOK, InFlight
  <2>2. CASE UNCHANGED <<worker, key>>
    BY <1>3, <2>2
  <2> QED
    BY <1>3, <2>1, <2>2
    DEF Next, ProcessMonitor, NetworkMonitor, Dispatcher, Worker, Spawn, Exit, Collect, ApplySnapshot,
        PublishNext, Attribute, PublishOpened, TakeEvent, Request, Ignore, ReadOwner, Park, Release,
        NextKey, WorkerEnds, EnrichFails, SetEnrichment, StopWorker, vars
<1>4. CASE InFlight(Result(p))
  <2>1. CASE hand = Result(p) /\ Release
    <3>1. owns' = "unread" /\ parked' = Others(p)
      BY <1>0, <2>1, Waking DEF Release, Released, Handled
    <3>2. \A b \in ToSet(parked') : b.key # p
      BY <3>1, OthersProperties
    <3>3. Bucket(p)' = {}
      BY <3>2 DEF Bucket, Buckets, ToSet
    <3> QED BY <3>1, <3>3 DEF Waiting
  <2>2. ~(hand = Result(p) /\ Request)
    BY <1>0, Waking DEF Request
  <2>3. p \in lost' => Ahead(p)'
    BY DEF Ahead
  <2> QED BY <1>0, <1>4, <2>1, <2>2, <2>3, FlightStep
<1> QED BY <1>1, <1>2, <1>3, <1>4

-----------------------------------------------------------------------------
(***************************************************************************)
(* Theorems                                                                *)
(***************************************************************************)
LEMMA InitiallyIInv == Init => IInv
<1> SUFFICES ASSUME Init PROVE IInv
  OBVIOUS
<1>1. SnapshotInv /\ AwaitedInv
  BY EnrichmentAssumption DEF Init, SnapshotInv, AwaitedInv, Known, NoSnapshot
<1>2. ParkedInv
  BY EmptyElements, EmptySeq DEF Init, ParkedInv, Tidy
<1>3. WaitingInv
  <2>1. \A p : ~Waiting(p)
    BY EmptySeq DEF Init, Waiting, Bucket, Buckets
  <2> QED BY <2>1 DEF WaitingInv
<1>4. ResultInv
  <2>1. \A p \in Procs : key # p /\ ~InFlight(Result(p))
    BY Waking, EmptyElements, EnrichmentAssumption DEF Init, InFlight
  <2> QED BY <2>1 DEF ResultInv
<1> QED BY <1>1, <1>2, <1>3, <1>4, InitiallyTyped, InitiallyQueued DEF IInv

LEMMA StepKeepsIInv == IInv /\ [Next]_vars => IInv'
BY StepTyped, QueueStep, SnapshotStep, ParkedStep, AwaitedStep, WaitingStep, ResultStep DEF IInv

THEOREM Inductive == Spec => []IInv
BY InitiallyIInv, StepKeepsIInv, PTL DEF Spec

\* For any number of processes and any capacity (core/enrichment.py): the keys that count
\* as pending are those of the two queues, each once, and no more than the capacity.
THEOREM QueuesAlwaysAgree == Spec => []QueuesAgree
<1>1. IInv => QueuesAgree
  <2> SUFFICES ASSUME IInv PROVE QueuesAgree
    OBVIOUS
  <2>1. urgent \in Seq(Procs) /\ inventory \in Seq(Procs)
    BY DEF IInv, TypeOK
  <2>2. /\ ToSet(urgent \o inventory) = ToSet(urgent) \cup ToSet(inventory)
        /\ Len(urgent \o inventory) = Len(urgent) + Len(inventory)
    BY <2>1, ElementsOfBoth, ConcatProperties
  <2> QED BY <2>2 DEF IInv, QueueInv, QueuesAgree
<1> QED BY <1>1, Inductive, PTL

\* However the process monitor, the network monitor, the dispatcher and the worker
\* interleave, and whatever the bus evicts: a socket that a rule has parked, or is about
\* to park because of what it read before, is one whose enrichment is still to come, or
\* was lost in one of the ways the code has for it: one of them is that its executable was
\* not known when it was asked for.
THEOREM NoFactsStranded == Spec => []NoStrandedFacts
<1>1. IInv => NoStrandedFacts
  <2> SUFFICES ASSUME IInv, NEW p \in Procs, Waiting(p)
               PROVE  RequestComing(p) \/ ResultComing(p) \/ NeverEnriched(p)
    BY DEF NoStrandedFacts, Waiting
  <2>2. ASSUME Fresh(p) PROVE RequestComing(p) \/ NeverEnriched(p)
    BY <2>2 DEF Fresh, RequestComing, NeverEnriched, IInv, SnapshotInv
  <2>3. (\E e \in Requests(p) : e \in ToSet(outbox) \/ InFlight(e)) => RequestComing(p)
    BY DEF Requests, RequestComing
  <2>4. Ahead(p) => RequestComing(p) \/ ResultComing(p) \/ NeverEnriched(p)
    BY <2>2, <2>3 DEF Ahead, ResultComing, NeverEnriched
  <2>5. Ahead(p) \/ key = p \/ InFlight(Result(p))
    BY DEF IInv, WaitingInv
  <2> QED BY <2>4, <2>5 DEF ResultComing, Result
<1> QED BY <1>1, Inductive, PTL

\* No step judges a socket of a process whose executable the table has and whose
\* signature is not known yet: not the rule's
\* own reading (detection/rules), and not the release, whose PROCESS_ENRICHED is only
\* published once the result is stored.
THEOREM AlwaysJudgedWithSignature == Spec => JudgedWithSignature
<1>1. ASSUME IInv, [Next]_vars, NEW c \in judged' \ judged, Owner[c] \in named
      PROVE  Owner[c] \in enriched
  <2>1. CASE ReadOwner
    BY <1>1, <2>1 DEF ReadOwner, Judge, AwaitsEnrichment
  <2>2. CASE Release
    <3>1. /\ hand # None /\ hand.type = "enriched" /\ Known(hand.of) /\ c \in Bucket(hand.of)
      BY <1>1, <2>2 DEF Release, Judge
    <3>2. hand.of \in Procs /\ hand = Result(hand.of)
      BY <1>1, <3>1 DEF IInv, TypeOK, Event, Result
    <3>3. Owner[c] = hand.of
      BY <1>1, <3>1, BucketElements DEF IInv, ParkedInv, Tidy
    <3>4. hand.of \in enriched
      BY <1>1, <3>1, <3>2 DEF IInv, ResultInv, InFlight
    <3> QED BY <3>3, <3>4
  <2>3. CASE UNCHANGED judged
    BY <1>1, <2>3
  <2> QED
    BY <1>1, <2>1, <2>2, <2>3
    DEF Next, ProcessMonitor, NetworkMonitor, Dispatcher, Worker, Spawn, Exit, Collect, ApplySnapshot,
        PublishNext, Attribute, PublishOpened, TakeEvent, Request, Ignore, Park, NextKey, WorkerEnds,
        EnrichFails, SetEnrichment, PublishEnriched, StopWorker, vars, rule
<1>2. IInv /\ [Next]_vars => [\A c \in judged' \ judged : Owner[c] \in named => Owner[c] \in enriched]_vars
  BY <1>1
<1> QED BY <1>2, Inductive, PTL DEF Spec, JudgedWithSignature
=============================================================================
