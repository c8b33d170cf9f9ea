--------------------------- MODULE DetectionProofs ---------------------------
(***************************************************************************)
(* Proofs about Detection, for any rules, subjects and findings, whichever *)
(* sets of findings raise an alert, and any capacities.  The detection     *)
(* engine's part comes first, then the way from the alert manager to the   *)
(* database; what they share is only the list of reports.                  *)
(***************************************************************************)
EXTENDS Detection, SequenceTheorems, FiniteSetTheorems, TLAPS

(***************************************************************************)
(* The inductive invariant of the detection engine.                        *)
(***************************************************************************)

\* A rule's failures count the verdicts at the end of its history that are failures.
CountInv ==
  \A r \in Rules :
    /\ Len(verdicts[r]) = MaxFailures
    /\ \A i \in 1..MaxFailures : i > MaxFailures - failures[r] => verdicts[r][i] = "raised"
    /\ failures[r] < MaxFailures => verdicts[r][MaxFailures - failures[r]] = "judged"
    /\ r \in disabled <=> failures[r] = MaxFailures

After(s, i) == {s[j] : j \in (i + 1)..Len(s)}

\* Since a finding the cache holds was met, exactly those behind it were met; since one
\* it does not hold, all it holds, as many as it may hold.
SeenInv ==
  /\ \A i, j \in 1..Len(seen) : seen[i] = seen[j] => i = j
  /\ Elements(seen) \subseteq DOMAIN since
  /\ \A f \in DOMAIN since : IsFiniteSet(since[f])
  /\ \A i \in 1..Len(seen) : since[seen[i]] = After(seen, i)
  /\ \A f \in DOMAIN since \ Elements(seen) :
       Len(seen) = SeenCapacity /\ Elements(seen) \subseteq since[f]

(***************************************************************************)
(* The inductive invariant of the way from the alert manager to the        *)
(* database.                                                               *)
(***************************************************************************)
AlertAt(q, i, a) == q[i].kind = "alert" /\ q[i].id = a
DetectionAt(q, i, d) == q[i].kind = "detection" /\ q[i].id = d

\* Alert a has, had or will have detection d, with queue q, alerts r and links l.
Lists(q, r, l, a, d) ==
  \/ \E i \in 1..Len(q) : AlertAt(q, i, a) /\ d \in q[i].detections
  \/ r[a] # None /\ d \in r[a].detections
  \/ l[d] = a

\* The last that is known of alert a has these detections.
IsLatest(q, r, a, detections) ==
  \/ \E i \in 1..Len(q) :
       /\ AlertAt(q, i, a) /\ q[i].detections = detections
       /\ \A j \in (i + 1)..Len(q) : ~AlertAt(q, j, a)
  \/ /\ \A j \in 1..Len(q) : ~AlertAt(q, j, a)
     /\ r[a] # None /\ r[a].detections = detections

Superseded(d, detections) == \E e \in detections : d < e

\* Only reports that were made are anywhere, and only alerts that were raised.
BoundInv ==
  /\ raised <= Len(reported)
  /\ ~running => queue = <<>>
  /\ \A a \in Ids : rows[a] # None \/ chosen[a] # None => a <= raised
  /\ \A i \in 1..Len(queue) :
       IF queue[i].kind = "alert" THEN queue[i].id <= raised ELSE queue[i].id <= Len(reported)
  /\ \A s \in Subjects : alertOf[s] # None => alertOf[s] <= raised
  /\ \A s \in Subjects : \A d \in bucket[s] : d <= Len(reported)
  /\ \A d \in written : d <= Len(reported)
  /\ \A a, d \in Ids : Lists(queue, rows, link, a, d) => a <= raised /\ d <= Len(reported)

\* A detection has one subject and at most one alert, its subject's.
OwnInv ==
  /\ \A d, a, b \in Ids : Lists(queue, rows, link, a, d) /\ Lists(queue, rows, link, b, d) => a = b
  /\ running => \A s \in Subjects : \A d \in bucket[s] : \A a \in Ids :
       Lists(queue, rows, link, a, d) => alertOf[s] = a
  /\ \A s, t \in Subjects : \A d \in bucket[s] \cap bucket[t] : s = t
  /\ \A s, t \in Subjects : alertOf[s] = alertOf[t] /\ alertOf[s] # None => s = t

UpdateInv ==
  running => \A s \in Subjects : {reported[d] : d \in bucket[s]} \in Raising =>
    /\ alertOf[s] # None
    /\ alertOf[s] \notin lost => IsLatest(queue, rows, alertOf[s], bucket[s])

\* An alert whose status a person chose and whose row is gone is gone from the monitor
\* that runs now, too.
ChosenInv ==
  /\ \A a \in Ids : rows[a] # None /\ chosen[a] \in Terminal => rows[a].status = chosen[a]
  /\ running => \A a \in Ids : rows[a] = None /\ chosen[a] # None =>
       /\ \A i \in 1..Len(queue) : ~AlertAt(queue, i, a)
       /\ \A s \in Subjects : alertOf[s] # a

\* No retention comes between a detection's row and the alert that links it.
KeptInv ==
  /\ running => \A s \in Subjects : bucket[s] \cap written \subseteq stored
  /\ \A i \in 1..Len(queue) :
       queue[i].kind = "alert" => queue[i].detections \cap written \subseteq stored

\* A detection that is not the last of an alert's was in the queue before the alert.
EvidenceInv ==
  /\ EvidenceIsKept
  /\ \A a \in Ids : rows[a] # None => \A d \in rows[a].detections :
       Superseded(d, rows[a].detections) => \A i \in 1..Len(queue) : ~DetectionAt(queue, i, d)
  /\ \A i \in 1..Len(queue) : queue[i].kind = "alert" => \A d \in queue[i].detections :
       Superseded(d, queue[i].detections) =>
         \A j \in (i + 1)..Len(queue) : ~DetectionAt(queue, j, d)

PathInv == BoundInv /\ OwnInv /\ UpdateInv /\ ChosenInv /\ KeptInv /\ EvidenceInv

IInv == TypeOK /\ CountInv /\ SeenInv /\ PathInv

(***************************************************************************)
(* Sequences                                                               *)
(***************************************************************************)

LEMMA ElementsOf ==
  ASSUME NEW S, NEW s \in Seq(S)
  PROVE  /\ Len(s) \in Nat /\ \A i \in 1..Len(s) : s[i] \in S /\ s[i] \in Elements(s)
         /\ Elements(s) \subseteq S
BY LenProperties, ElementOfSeq DEF Elements

\* Cutting one off the front and adding one at the end, by their places.
LEMMA AppendedFacts ==
  ASSUME NEW S, NEW s \in Seq(S), NEW e \in S
  PROVE  /\ Append(s, e) \in Seq(S) /\ Len(Append(s, e)) = Len(s) + 1
         /\ Append(s, e)[Len(s) + 1] = e
         /\ \A i \in 1..Len(s) : Append(s, e)[i] = s[i]
BY AppendProperties

LEMMA TailFacts ==
  ASSUME NEW S, NEW s \in Seq(S), s # <<>>
  PROVE  /\ Head(s) = s[1] /\ Head(s) \in S
         /\ Len(s) \in Nat /\ Len(s) >= 1
         /\ Tail(s) \in Seq(S) /\ Len(Tail(s)) = Len(s) - 1
         /\ \A i \in 1..(Len(s) - 1) : Tail(s)[i] = s[i + 1]
<1>1. Len(s) \in Nat /\ Len(s) # 0
  BY LenProperties, EmptySeq
<1>2. /\ Head(s) \in S /\ Tail(s) \in Seq(S)
      /\ Len(Tail(s)) = Len(s) - 1 /\ \A i \in 1..Len(Tail(s)) : Tail(s)[i] = s[i + 1]
  BY HeadTailProperties
<1>3. Head(s) = s[1]
  OBVIOUS
<1> QED BY <1>1, <1>2, <1>3

\* A sequence without its i-th element.
LEMMA RemoveAtProperties ==
  ASSUME NEW S, NEW s \in Seq(S), NEW i \in 1..Len(s)
  PROVE  /\ RemoveAt(s, i) \in Seq(S) /\ Len(RemoveAt(s, i)) = Len(s) - 1
         /\ \A j \in 1..(Len(s) - 1) : RemoveAt(s, i)[j] = IF j < i THEN s[j] ELSE s[j + 1]
<1> DEFINE a == SubSeq(s, 1, i - 1)
           b == SubSeq(s, i + 1, Len(s))
<1>1. Len(s) \in Nat /\ i \in Nat /\ i - 1 \in Int /\ i + 1 \in Int
  BY LenProperties
<1>2. \A j \in 1..Len(s) : s[j] \in S
  BY ElementOfSeq
<1>3. /\ a \in Seq(S) /\ Len(a) = i - 1
      /\ \A j \in 1..(i - 1) : a[j] = s[j]
  <2>1. \A j \in 1..(i - 1) : s[j] \in S
    BY <1>1, <1>2
  <2>2. /\ a \in Seq(S) /\ Len(a) = IF 1 <= i - 1 THEN (i - 1) - 1 + 1 ELSE 0
        /\ \A j \in 1..((i - 1) - 1 + 1) : a[j] = s[1 + j - 1]
    BY <1>1, <2>1, SubSeqProperties
  <2> QED BY <1>1, <2>2
<1>4. /\ b \in Seq(S) /\ Len(b) = Len(s) - i
      /\ \A j \in 1..(Len(s) - i) : b[j] = s[i + j]
  <2>1. \A j \in (i + 1)..Len(s) : s[j] \in S
    BY <1>1, <1>2
  <2>2. /\ b \in Seq(S) /\ Len(b) = IF i + 1 <= Len(s) THEN Len(s) - (i + 1) + 1 ELSE 0
        /\ \A j \in 1..(Len(s) - (i + 1) + 1) : b[j] = s[(i + 1) + j - 1]
    BY <1>1, <2>1, SubSeqProperties
  <2> QED BY <1>1, <2>2
<1>5. /\ a \o b \in Seq(S) /\ Len(a \o b) = Len(a) + Len(b)
      /\ \A j \in 1..(Len(a) + Len(b)) :
           (a \o b)[j] = IF j <= Len(a) THEN a[j] ELSE b[j - Len(a)]
  BY <1>3, <1>4, ConcatProperties
<1> HIDE DEF a, b
<1>6. ASSUME NEW j \in 1..(Len(s) - 1)
      PROVE  (a \o b)[j] = IF j < i THEN s[j] ELSE s[j + 1]
  <2>1. CASE j < i
    BY <1>1, <1>3, <1>4, <1>5, <2>1
  <2>2. CASE ~(j < i)
    <3>1. j - (i - 1) \in 1..(Len(s) - i) /\ i + (j - (i - 1)) = j + 1
      BY <1>1, <2>2
    <3>2. (a \o b)[j] = b[j - (i - 1)]
      BY <1>1, <1>3, <1>4, <1>5, <2>2
    <3> QED BY <1>4, <2>2, <3>1, <3>2
  <2> QED BY <2>1, <2>2
<1>7. a \o b \in Seq(S) /\ Len(a \o b) = Len(s) - 1
  BY <1>1, <1>3, <1>4, <1>5
<1>8. RemoveAt(s, i) = a \o b
  BY DEF RemoveAt, a, b
<1> QED BY ONLY <1>6, <1>7, <1>8

\* What Youngest keeps of a sequence with a new last element.
LEMMA YoungestFacts ==
  ASSUME NEW S, NEW s \in Seq(S), NEW e \in S, NEW n \in Nat \ {0}, Len(s) <= n
  PROVE  /\ Youngest(Append(s, e), n) \in Seq(S)
         /\ Len(s) < n => Youngest(Append(s, e), n) = Append(s, e)
         /\ Len(s) = n => /\ Len(Youngest(Append(s, e), n)) = n
                          /\ \A i \in 1..(n - 1) : Youngest(Append(s, e), n)[i] = s[i + 1]
                          /\ Youngest(Append(s, e), n)[n] = e
<1> DEFINE t == Append(s, e)
<1>1. /\ t \in Seq(S) /\ Len(t) = Len(s) + 1 /\ t[Len(s) + 1] = e
      /\ \A i \in 1..Len(s) : t[i] = s[i]
  BY AppendedFacts
<1>2. Len(s) \in Nat
  BY LenProperties
<1> HIDE DEF t
<1>3. t # <<>>
  BY <1>1, <1>2, EmptySeq
<1>4. /\ Tail(t) \in Seq(S) /\ Len(Tail(t)) = Len(t) - 1
      /\ \A i \in 1..(Len(t) - 1) : Tail(t)[i] = t[i + 1]
  BY <1>1, <1>3, TailFacts
<1>5. CASE Len(s) < n
  BY <1>1, <1>2, <1>5 DEF Youngest, t
<1>6. CASE Len(s) = n
  <2>1. Youngest(t, n) = Tail(t)
    BY <1>1, <1>2, <1>6 DEF Youngest
  <2>2. \A i \in 1..(n - 1) : i \in 1..(Len(t) - 1) /\ i + 1 \in 1..Len(s)
    BY <1>1, <1>2, <1>6
  <2>3. \A i \in 1..(n - 1) : Tail(t)[i] = s[i + 1]
    BY <1>1, <1>4, <2>2
  <2>4. Tail(t)[n] = e /\ Len(Tail(t)) = n
    BY <1>1, <1>2, <1>4, <1>6
  <2> QED BY <1>4, <1>6, <2>1, <2>3, <2>4 DEF t
<1> QED BY <1>2, <1>5, <1>6

\* Putting last what a sequence without repetitions has at place p, or has not.
LEMMA WithLastFacts ==
  ASSUME NEW S, NEW s \in Seq(S), NEW e \in S
  PROVE  /\ e \notin Elements(s) => WithLast(s, e) = Append(s, e)
         /\ WithLast(s, e) \in Seq(S)
         /\ e \in Elements(s) => \E p \in 1..Len(s) :
              /\ s[p] = e /\ Len(WithLast(s, e)) = Len(s) /\ WithLast(s, e)[Len(s)] = e
              /\ \A j \in 1..(Len(s) - 1) :
                   WithLast(s, e)[j] = IF j < p THEN s[j] ELSE s[j + 1]
<1>1. Len(s) \in Nat
  BY LenProperties
<1>2. CASE e \notin Elements(s)
  <2>1. Places(s, e) = {}
    BY <1>2 DEF Places, Elements
  <2> QED BY <1>2, <2>1, AppendedFacts DEF WithLast, Without
<1>3. CASE e \in Elements(s)
  <2>1. Places(s, e) # {}
    BY <1>3 DEF Places, Elements
  <2>2. PICK p \in Places(s, e) : p = CHOOSE i \in Places(s, e) : TRUE
    BY <2>1
  <2>3. p \in 1..Len(s) /\ s[p] = e
    BY <2>2 DEF Places
  <2> DEFINE u == RemoveAt(s, p)
  <2>4. /\ u \in Seq(S) /\ Len(u) = Len(s) - 1
        /\ \A j \in 1..(Len(s) - 1) : u[j] = IF j < p THEN s[j] ELSE s[j + 1]
    BY <2>3, RemoveAtProperties
  <2>5. WithLast(s, e) = Append(u, e)
    BY <2>1, <2>2 DEF WithLast, Without
  <2> HIDE DEF u
  <2>6. /\ Append(u, e) \in Seq(S) /\ Len(Append(u, e)) = Len(u) + 1
        /\ Append(u, e)[Len(u) + 1] = e
        /\ \A j \in 1..Len(u) : Append(u, e)[j] = u[j]
    BY <2>4, AppendedFacts
  <2>7. Len(Append(u, e)) = Len(s) /\ Append(u, e)[Len(s)] = e
    BY <1>1, <2>4, <2>6
  <2> QED BY <1>3, <2>3, <2>4, <2>5, <2>6, <2>7
<1> QED BY <1>2, <1>3

(***************************************************************************)
(* The detection engine                                                    *)
(***************************************************************************)

LEMMA CountStep == ASSUME TypeOK, CountInv, [Next]_vars PROVE CountInv'
<1> USE DetectionAssumption
<1>1. /\ failures \in [Rules -> 0..MaxFailures] /\ disabled \subseteq Rules
      /\ verdicts \in [Rules -> Seq({"raised", "judged"})]
  BY DEF TypeOK
<1>2. MaxFailures \in Nat /\ MaxFailures >= 1
  OBVIOUS
<1>3. ASSUME NEW r \in Rules, NEW x \in {"raised", "judged"}, Remember(r, x)
      PROVE  /\ \A q \in Rules \ {r} : verdicts'[q] = verdicts[q]
             /\ Len(verdicts'[r]) = MaxFailures /\ verdicts'[r][MaxFailures] = x
             /\ \A i \in 1..(MaxFailures - 1) : verdicts'[r][i] = verdicts[r][i + 1]
  <2> DEFINE v == verdicts[r]
  <2>1. v \in Seq({"raised", "judged"}) /\ Len(v) = MaxFailures
    BY <1>1 DEF CountInv
  <2>2. verdicts'[r] = Append(Tail(v), x) /\ \A q \in Rules \ {r} : verdicts'[q] = verdicts[q]
    BY <1>1, <1>3 DEF Remember
  <2> HIDE DEF v
  <2>3. v # <<>>
    BY <1>2, <2>1, EmptySeq
  <2>4. /\ Tail(v) \in Seq({"raised", "judged"}) /\ Len(Tail(v)) = MaxFailures - 1
        /\ \A i \in 1..(MaxFailures - 1) : Tail(v)[i] = v[i + 1]
    BY <2>1, <2>3, TailFacts
  <2>5. /\ Len(Append(Tail(v), x)) = (MaxFailures - 1) + 1
        /\ Append(Tail(v), x)[(MaxFailures - 1) + 1] = x
        /\ \A i \in 1..(MaxFailures - 1) : Append(Tail(v), x)[i] = Tail(v)[i]
    BY <2>4, AppendedFacts
  <2>6. (MaxFailures - 1) + 1 = MaxFailures
    BY <1>2
  <2> QED BY <2>2, <2>4, <2>5, <2>6 DEF v
<1>4. ASSUME NEW r \in Rules, Raises(r) PROVE CountInv'
  <2>1. /\ failures' = [failures EXCEPT ![r] = @ + 1] /\ r \notin disabled
        /\ disabled' = IF failures[r] + 1 >= MaxFailures THEN disabled \cup {r} ELSE disabled
        /\ Remember(r, "raised")
    BY <1>4 DEF Raises
  <2>2. failures[r] \in Nat /\ failures[r] < MaxFailures
    <3>1. failures[r] \in 0..MaxFailures /\ failures[r] # MaxFailures
      BY <1>1, <2>1 DEF CountInv
    <3> QED BY <1>2, <3>1
  <2>3. /\ failures'[r] = failures[r] + 1 /\ \A q \in Rules \ {r} : failures'[q] = failures[q]
        /\ r \in disabled' <=> failures[r] + 1 = MaxFailures
        /\ \A q \in Rules \ {r} : q \in disabled' <=> q \in disabled
    BY <1>1, <1>2, <2>1, <2>2
  <2>4. /\ \A q \in Rules \ {r} : verdicts'[q] = verdicts[q]
        /\ Len(verdicts'[r]) = MaxFailures /\ verdicts'[r][MaxFailures] = "raised"
        /\ \A i \in 1..(MaxFailures - 1) : verdicts'[r][i] = verdicts[r][i + 1]
    BY <1>3, <2>1
  <2>5. ASSUME NEW i \in 1..MaxFailures, i > MaxFailures - failures'[r]
        PROVE  verdicts'[r][i] = "raised"
    <3>1. CASE i = MaxFailures
      BY <2>4, <3>1
    <3>2. CASE i # MaxFailures
      <4>1. i \in 1..(MaxFailures - 1) /\ i + 1 \in 1..MaxFailures
            /\ i + 1 > MaxFailures - failures[r]
        BY <1>2, <2>2, <2>3, <2>5, <3>2
      <4>2. verdicts[r][i + 1] = "raised"
        BY <4>1 DEF CountInv
      <4> QED BY <2>4, <4>1, <4>2
    <3> QED BY <3>1, <3>2
  <2>6. ASSUME failures'[r] < MaxFailures
        PROVE  verdicts'[r][MaxFailures - failures'[r]] = "judged"
    <3>1. /\ MaxFailures - failures'[r] \in 1..(MaxFailures - 1)
          /\ MaxFailures - failures'[r] + 1 = MaxFailures - failures[r]
      BY <1>2, <2>2, <2>3, <2>6
    <3>2. verdicts[r][MaxFailures - failures[r]] = "judged"
      BY <2>2 DEF CountInv
    <3> QED BY <2>4, <3>1, <3>2
  <2>7. ASSUME NEW q \in Rules
        PROVE  /\ Len(verdicts[q])' = MaxFailures
               /\ \A i \in 1..MaxFailures :
                    i > MaxFailures - failures'[q] => verdicts'[q][i] = "raised"
               /\ failures'[q] < MaxFailures =>
                    verdicts'[q][MaxFailures - failures'[q]] = "judged"
               /\ q \in disabled' <=> failures'[q] = MaxFailures
    <3>1. CASE q = r
      BY <2>3, <2>4, <2>5, <2>6, <3>1
    <3>2. CASE q # r
      BY <2>3, <2>4, <3>2 DEF CountInv
    <3> QED BY <3>1, <3>2
  <2> QED BY <2>7 DEF CountInv
<1>5. ASSUME NEW r \in Rules, Judges(r) PROVE CountInv'
  <2>1. /\ failures' = [failures EXCEPT ![r] = 0] /\ r \notin disabled /\ disabled' = disabled
        /\ Remember(r, "judged")
    BY <1>5 DEF Judges, Reset
  <2>2. failures'[r] = 0 /\ \A q \in Rules \ {r} : failures'[q] = failures[q]
    BY <1>1, <2>1
  <2>3. /\ \A q \in Rules \ {r} : verdicts'[q] = verdicts[q]
        /\ Len(verdicts'[r]) = MaxFailures /\ verdicts'[r][MaxFailures] = "judged"
    BY <1>3, <2>1
  <2>4. /\ \A i \in 1..MaxFailures : ~(i > MaxFailures - failures'[r])
        /\ MaxFailures - failures'[r] = MaxFailures /\ failures'[r] # MaxFailures
    BY <1>2, <2>2
  <2>5. ASSUME NEW q \in Rules
        PROVE  /\ Len(verdicts[q])' = MaxFailures
               /\ \A i \in 1..MaxFailures :
                    i > MaxFailures - failures'[q] => verdicts'[q][i] = "raised"
               /\ failures'[q] < MaxFailures =>
                    verdicts'[q][MaxFailures - failures'[q]] = "judged"
               /\ q \in disabled' <=> failures'[q] = MaxFailures
    <3>1. CASE q = r
      BY <2>1, <2>3, <2>4, <3>1
    <3>2. CASE q # r
      BY <2>1, <2>2, <2>3, <3>2 DEF CountInv
    <3> QED BY <3>1, <3>2
  <2> QED BY <2>5 DEF CountInv
<1>6. ASSUME failures' = NoFailures, disabled' = {}, verdicts' = NoVerdicts PROVE CountInv'
  <2>1. [i \in 1..MaxFailures |-> "judged"] \in Seq({"judged"})
        /\ Len([i \in 1..MaxFailures |-> "judged"]) = MaxFailures
    BY <1>2, SeqDef, LenProperties
  <2>2. \A r \in Rules : verdicts'[r] = [i \in 1..MaxFailures |-> "judged"] /\ failures'[r] = 0
    BY <1>6 DEF NoVerdicts, NoFailures
  <2>3. ASSUME NEW r \in Rules
        PROVE  /\ Len(verdicts'[r]) = MaxFailures
               /\ \A i \in 1..MaxFailures : ~(i > MaxFailures - failures'[r])
               /\ verdicts'[r][MaxFailures - failures'[r]] = "judged"
               /\ failures'[r] # MaxFailures
    <3>1. /\ MaxFailures - failures'[r] = MaxFailures /\ MaxFailures \in 1..MaxFailures
          /\ failures'[r] # MaxFailures
          /\ \A i \in 1..MaxFailures : ~(i > MaxFailures - failures'[r])
      BY <1>2, <2>2
    <3> QED BY <2>1, <2>2, <3>1
  <2> QED BY <1>6, <2>3 DEF CountInv
<1>7. ASSUME UNCHANGED <<failures, disabled, verdicts>> PROVE CountInv'
  BY <1>7 DEF CountInv
<1>8. \A f \in Findings : RuleOf[f] \in Rules
  OBVIOUS
<1>9. CASE Next
  BY <1>4, <1>5, <1>6, <1>7, <1>8, <1>9
  DEF Next, FindsNothing, Suppress, Report, Store, Lose, SetStatus, Quit, Cleanup, StartMonitor, engine
<1>10. CASE UNCHANGED vars
  BY <1>7, <1>10 DEF vars, engine
<1> QED BY <1>9, <1>10

\* A finding the cache holds is met again.
LEMMA SeenAgain ==
  ASSUME TypeOK, SeenInv, NEW f \in Elements(seen), seen' = Used(f), Meet(f)
  PROVE  /\ seen' \in Seq(Findings) /\ Len(seen') = Len(seen)
         /\ SeenInv'
<1> DEFINE n == Len(seen)
<1>1. seen \in Seq(Findings) /\ f \in Findings
  BY ElementsOf DEF TypeOK
<1>2. /\ n \in Nat
      /\ \A i, j \in 1..n : seen[i] = seen[j] => i = j
      /\ Elements(seen) \subseteq DOMAIN since
      /\ \A g \in DOMAIN since : IsFiniteSet(since[g])
      /\ \A i \in 1..n : since[seen[i]] = After(seen, i) /\ seen[i] \in Elements(seen)
      /\ \A g \in DOMAIN since \ Elements(seen) : n = SeenCapacity /\ Elements(seen) \subseteq since[g]
  BY <1>1, ElementsOf DEF SeenInv
<1>3. seen' \in Seq(Findings) /\ \E p \in 1..n :
        /\ seen[p] = f /\ Len(seen') = n /\ seen'[n] = f
        /\ \A j \in 1..(n - 1) : seen'[j] = IF j < p THEN seen[j] ELSE seen[j + 1]
  <2>1. seen' = WithLast(seen, f)
    BY DEF Used
  <2>2. /\ WithLast(seen, f) \in Seq(Findings)
        /\ \E p \in 1..n :
             /\ seen[p] = f /\ Len(WithLast(seen, f)) = n /\ WithLast(seen, f)[n] = f
             /\ \A j \in 1..(n - 1) :
                  WithLast(seen, f)[j] = IF j < p THEN seen[j] ELSE seen[j + 1]
    BY ONLY <1>1, f \in Elements(seen), WithLastFacts
  <2> QED BY ONLY <2>1, <2>2
<1>4. PICK p \in 1..n : /\ seen[p] = f /\ Len(seen') = n /\ seen'[n] = f
                        /\ \A j \in 1..(n - 1) : seen'[j] = IF j < p THEN seen[j] ELSE seen[j + 1]
  BY <1>3
<1> HIDE DEF n
<1>5. /\ DOMAIN since' = DOMAIN since /\ since'[f] = {}
      /\ \A g \in DOMAIN since : g # f => since'[g] = since[g] \cup {f}
  BY <1>2 DEF Meet
\* Where the places of the new order were.
<1> DEFINE Was(i) == IF i < p THEN i ELSE IF i < n THEN i + 1 ELSE p
<1>6. \A i \in 1..n : Was(i) \in 1..n
  BY <1>2, <1>4
<1>7. \A i \in 1..n : seen'[i] = seen[Was(i)]
  BY <1>2, <1>4
<1>8. \A k \in 1..n : \E i \in 1..n : Was(i) = k
  <2> TAKE k \in 1..n
  <2> DEFINE i == IF k < p THEN k ELSE IF k > p THEN k - 1 ELSE n
  <2>1. i \in 1..n /\ Was(i) = k
    BY <1>2, <1>4
  <2> QED BY <2>1
<1>9. \A i, j \in 1..n : Was(i) = Was(j) => i = j
  BY <1>2, <1>4
<1>10. \A i, j \in 1..(n - 1) : Was(i) # p /\ (i < j <=> Was(i) < Was(j))
  BY <1>2, <1>4
<1>11. Was(n) = p /\ (\A i \in 1..n : Was(i) = p => i = n)
  BY <1>2, <1>4
<1> HIDE DEF Was
<1>12. \A i, j \in 1..n : seen'[i] = seen'[j] => i = j
  BY <1>2, <1>6, <1>7, <1>9
<1>13. Elements(seen') = Elements(seen)
  <2>1. \A i \in 1..n : seen'[i] \in Elements(seen)
    BY <1>2, <1>6, <1>7
  <2>2. \A k \in 1..n : seen[k] \in Elements(seen')
    <3> TAKE k \in 1..n
    <3>1. PICK i \in 1..n : Was(i) = k
      BY <1>8
    <3>2. seen[k] = seen'[i] /\ Len(seen') = n
      BY <1>4, <1>7, <3>1
    <3> QED BY <3>2 DEF Elements
  <2>3. Elements(seen') \subseteq Elements(seen)
    BY ONLY <1>4, <2>1 DEF Elements
  <2>4. Elements(seen) \subseteq Elements(seen')
    BY ONLY <2>2 DEF Elements, n
  <2> QED BY <2>3, <2>4
<1>14. \A g \in DOMAIN since' : IsFiniteSet(since'[g])
  <2> TAKE g \in DOMAIN since'
  <2>1. CASE g = f
    BY <1>5, <2>1, FS_EmptySet
  <2>2. CASE g # f
    BY <1>2, <1>5, <2>2, FS_AddElement
  <2> QED BY <2>1, <2>2
<1>15. ASSUME NEW i \in 1..n PROVE since'[seen'[i]] = After(seen', i)
  <2>1. CASE i = n
    <3>1. (n + 1)..n = {}
      BY <1>2
    <3>2. After(seen', n) = {}
      BY <1>4, <3>1 DEF After
    <3> QED BY <1>4, <1>5, <2>1, <3>2
  <2>2. CASE i # n
    <3>1. i \in 1..(n - 1) /\ Was(i) \in 1..n /\ Was(i) # p /\ seen'[i] = seen[Was(i)]
      BY <1>2, <1>6, <1>7, <1>10, <2>2
    <3>2. since'[seen'[i]] = After(seen, Was(i)) \cup {f}
      BY <1>2, <1>4, <1>5, <3>1
    <3>3. ASSUME NEW x \in After(seen', i) PROVE x \in After(seen, Was(i)) \cup {f}
      <4>1. PICK j \in (i + 1)..n : x = seen'[j]
        BY <1>4, <3>3 DEF After
      <4>2. CASE j = n
        BY <1>4, <4>1, <4>2
      <4>3. CASE j # n
        <5>1. j \in 1..(n - 1) /\ i < j /\ j \in 1..n
          BY <1>2, <4>1, <4>3, <3>1
        <5>2. Was(i) < Was(j) /\ Was(j) \in 1..n /\ x = seen[Was(j)]
          BY <1>6, <1>7, <1>10, <3>1, <4>1, <5>1
        <5>3. Was(j) \in (Was(i) + 1)..n
          BY <1>2, <3>1, <5>2
        <5> QED BY <5>2, <5>3 DEF After, n
      <4> QED BY <4>2, <4>3
    <3>4. f \in After(seen', i)
      <4>1. n \in (i + 1)..n
        BY <1>2, <3>1
      <4> QED BY <1>4, <4>1 DEF After
    <3>5. ASSUME NEW x \in After(seen, Was(i)), x # f PROVE x \in After(seen', i)
      <4>1. PICK k \in (Was(i) + 1)..n : x = seen[k]
        BY <3>5 DEF After, n
      <4>2. k \in 1..n /\ k # p /\ Was(i) < k
        BY <1>2, <1>4, <3>1, <3>5, <4>1
      <4>3. PICK j \in 1..n : Was(j) = k
        BY <1>8, <4>2
      <4>4. j \in 1..(n - 1)
        BY <1>2, <1>11, <4>2, <4>3
      <4>5. i < j
        BY <1>10, <3>1, <4>2, <4>3, <4>4
      <4>6. j \in (i + 1)..n /\ x = seen'[j]
        BY <1>2, <1>7, <3>1, <4>1, <4>3, <4>5
      <4> QED BY <1>4, <4>6 DEF After
    <3> QED BY <3>2, <3>3, <3>4, <3>5
  <2> QED BY <2>1, <2>2
<1>16. \A g \in DOMAIN since' \ Elements(seen') :
         Len(seen') = SeenCapacity /\ Elements(seen') \subseteq since'[g]
  BY <1>2, <1>4, <1>5, <1>13
<1>17. Elements(seen') \subseteq DOMAIN since'
  BY <1>2, <1>5, <1>13
<1>18. Len(seen') = n
  BY <1>4
<1>19. SeenInv'
  BY <1>12, <1>14, <1>15, <1>16, <1>17, <1>18 DEF SeenInv
<1> QED BY <1>3, <1>18, <1>19 DEF n

\* A finding the cache does not hold is met.
LEMMA SeenNew ==
  ASSUME TypeOK, SeenInv, NEW f \in Findings, f \notin Elements(seen),
         seen' = Youngest(WithLast(seen, f), SeenCapacity), Meet(f)
  PROVE  /\ seen' \in Seq(Findings) /\ Len(seen') <= SeenCapacity
         /\ SeenInv'
<1> DEFINE n == Len(seen)
<1>1. seen \in Seq(Findings) /\ n <= SeenCapacity /\ SeenCapacity \in Nat \ {0}
  BY DetectionAssumption DEF TypeOK
<1>2. /\ n \in Nat
      /\ \A i, j \in 1..n : seen[i] = seen[j] => i = j
      /\ Elements(seen) \subseteq DOMAIN since
      /\ \A g \in DOMAIN since : IsFiniteSet(since[g])
      /\ \A i \in 1..n : since[seen[i]] = After(seen, i) /\ seen[i] \in Elements(seen)
      /\ \A g \in DOMAIN since \ Elements(seen) : n = SeenCapacity /\ Elements(seen) \subseteq since[g]
  BY <1>1, ElementsOf DEF SeenInv
<1>3. seen' = Youngest(Append(seen, f), SeenCapacity)
  <2>1. WithLast(seen, f) = Append(seen, f)
    BY ONLY <1>1, f \in Findings, f \notin Elements(seen), WithLastFacts
  <2> QED BY <2>1
<1>4. /\ seen' \in Seq(Findings)
      /\ n < SeenCapacity => seen' = Append(seen, f)
      /\ n = SeenCapacity => /\ Len(seen') = n
                             /\ \A i \in 1..(n - 1) : seen'[i] = seen[i + 1]
                             /\ seen'[n] = f
  <2> DEFINE y == Youngest(Append(seen, f), SeenCapacity)
  <2>1. /\ y \in Seq(Findings)
        /\ n < SeenCapacity => y = Append(seen, f)
        /\ n = SeenCapacity => /\ Len(y) = SeenCapacity
                               /\ \A i \in 1..(SeenCapacity - 1) : y[i] = seen[i + 1]
                               /\ y[SeenCapacity] = f
    BY ONLY <1>1, f \in Findings, YoungestFacts
  <2> HIDE DEF y
  <2>2. seen' = y
    BY ONLY <1>3 DEF y
  <2> QED BY ONLY <2>1, <2>2
<1>5. /\ DOMAIN since' = DOMAIN since \cup {f} /\ since'[f] = {}
      /\ \A g \in DOMAIN since : g # f => since'[g] = since[g] \cup {f}
  BY DEF Meet
<1>6. \A g \in DOMAIN since' : IsFiniteSet(since'[g])
  <2> TAKE g \in DOMAIN since'
  <2>1. CASE g = f
    BY <1>5, <2>1, FS_EmptySet
  <2>2. CASE g # f
    BY <1>2, <1>5, <2>2, FS_AddElement
  <2> QED BY <2>1, <2>2
\* k places of the cache are given up: none or the first.
<1>7. ASSUME NEW k \in {0, 1}, NEW m \in Nat, m = n + 1 - k, Len(seen') = m,
             \A i \in 1..(m - 1) : seen'[i] = seen[i + k], seen'[m] = f,
             k = 0 => \A g \in DOMAIN since : g \in Elements(seen),
             k = 1 => m = SeenCapacity
      PROVE  SeenInv'
  <2> HIDE DEF n
  <2>0. m >= 1 \/ (m = 0 /\ n = 0 /\ k = 1)
    BY <1>2, <1>7
  <2>1. \A i \in 1..m : i = m \/ (i \in 1..(m - 1) /\ i + k \in 1..n)
    BY <1>2, <1>7
  <2>2. \A i \in 1..m : seen'[i] = f <=> i = m
    <3> TAKE i \in 1..m
    <3>1. CASE i = m
      BY <1>7, <3>1
    <3>2. CASE i # m
      <4>1. i \in 1..(m - 1) /\ i + k \in 1..n
        BY <2>1, <3>2
      <4>2. seen'[i] = seen[i + k] /\ seen[i + k] \in Elements(seen)
        BY <1>2, <1>7, <4>1
      <4> QED BY <3>2, <4>2
    <3> QED BY <3>1, <3>2
  <2>3. ASSUME NEW i \in 1..m, NEW j \in 1..m, seen'[i] = seen'[j] PROVE i = j
    <3>1. CASE i = m \/ j = m
      BY <2>2, <2>3, <3>1
    <3>2. CASE i # m /\ j # m
      <4>1. i + k \in 1..n /\ j + k \in 1..n /\ seen[i + k] = seen[j + k]
        BY <1>7, <2>1, <2>3, <3>2
      <4>2. i + k = j + k
        BY <1>2, <4>1
      <4> QED BY <1>7, <4>2
    <3> QED BY <3>1, <3>2
  <2>4. Elements(seen') \subseteq Elements(seen) \cup {f}
    <3>1. ASSUME NEW i \in 1..m PROVE seen'[i] \in Elements(seen) \cup {f}
      <4>1. CASE i = m
        BY <1>7, <4>1
      <4>2. CASE i # m
        <5>1. i \in 1..(m - 1) /\ i + k \in 1..n
          BY <2>1, <4>2
        <5> QED BY <1>2, <1>7, <5>1
      <4> QED BY <4>1, <4>2
    <3>2. Elements(seen') = {seen'[i] : i \in 1..m}
      BY <1>7 DEF Elements
    <3> QED BY ONLY <3>1, <3>2
  <2>5. Elements(seen') \subseteq DOMAIN since'
    BY <1>2, <1>5, <2>4
  <2>6. ASSUME NEW i \in 1..m PROVE since'[seen'[i]] = After(seen', i)
    <3>1. CASE i = m
      <4>1. (m + 1)..m = {}
        BY <1>7
      <4>2. After(seen', m) = {}
        BY <1>7, <4>1 DEF After
      <4> QED BY <1>5, <1>7, <3>1, <4>2
    <3>2. CASE i # m
      <4>1. i \in 1..(m - 1) /\ i + k \in 1..n /\ seen'[i] = seen[i + k] /\ seen[i + k] # f
        BY <1>2, <1>7, <2>1, <3>2
      <4>2. since'[seen'[i]] = After(seen, i + k) \cup {f}
        BY <1>2, <1>5, <4>1
      <4>3. ASSUME NEW x \in After(seen', i) PROVE x \in After(seen, i + k) \cup {f}
        <5>1. PICK j \in (i + 1)..m : x = seen'[j]
          BY <1>7, <4>3 DEF After
        <5>2. CASE j = m
          BY <1>7, <5>1, <5>2
        <5>3. CASE j # m
          <6>1. j \in 1..(m - 1)
            BY <1>7, <4>1, <5>1, <5>3
          <6>2. j + k \in (i + k + 1)..n
            <7>1. i \in Nat /\ j \in Nat /\ k \in Nat /\ j <= m - 1 /\ i + 1 <= j
              BY <1>7, <4>1, <5>1, <6>1
            <7> QED BY <1>2, <1>7, <7>1
          <6> QED BY <1>7, <5>1, <6>1, <6>2 DEF After, n
        <5> QED BY <5>2, <5>3
      <4>4. f \in After(seen', i)
        <5>1. m \in (i + 1)..m
          BY <1>7, <4>1
        <5> QED BY <1>7, <5>1 DEF After
      <4>5. ASSUME NEW x \in After(seen, i + k) PROVE x \in After(seen', i)
        <5>1. PICK j \in (i + k + 1)..n : x = seen[j]
          BY <4>5 DEF After, n
        <5>2. j - k \in (i + 1)..m /\ j - k \in 1..(m - 1) /\ (j - k) + k = j
          BY <1>2, <1>7, <4>1, <5>1
        <5>3. x = seen'[j - k]
          BY <1>7, <5>1, <5>2
        <5> QED BY <1>7, <5>2, <5>3 DEF After
      <4> QED BY <4>2, <4>3, <4>4, <4>5
    <3> QED BY <3>1, <3>2
  <2>7. ASSUME NEW g \in DOMAIN since' \ Elements(seen')
        PROVE  m = SeenCapacity /\ Elements(seen') \subseteq since'[g]
    <3>1. f \in Elements(seen')
      <4>1. m >= 1
        BY <1>1, <1>2, <1>7, <2>0
      <4>2. m \in 1..m
        BY <1>7, <4>1
      <4> QED BY <1>7, <4>2 DEF Elements
    <3>2. g # f /\ g \in DOMAIN since /\ since'[g] = since[g] \cup {f}
      BY <1>5, <2>7, <3>1
    <3>3. k = 1 /\ m = SeenCapacity
      <4>1. ASSUME k = 0 PROVE FALSE
        <5>1. PICK i \in 1..n : g = seen[i]
          BY <1>7, <3>2, <4>1 DEF Elements, n
        <5>2. i \in 1..(m - 1) /\ i \in 1..m /\ i + k = i
          BY <1>2, <1>7, <4>1, <5>1
        <5>3. g = seen'[i]
          BY <1>7, <5>1, <5>2
        <5> QED BY <1>7, <2>7, <5>2, <5>3 DEF Elements
      <4> QED BY <1>7, <4>1
    <3>4. CASE g \in Elements(seen)
      <4>1. PICK i \in 1..n : g = seen[i]
        BY <3>4 DEF Elements, n
      <4>2. i = 1
        <5>1. ASSUME i # 1 PROVE FALSE
          <6>1. i - 1 \in 1..(m - 1) /\ (i - 1) + k = i /\ i - 1 \in 1..m
            BY <1>2, <1>7, <3>3, <4>1, <5>1
          <6>2. seen'[i - 1] = g
            BY <1>7, <4>1, <6>1
          <6> QED BY <1>7, <2>7, <6>1, <6>2 DEF Elements
        <5> QED BY <5>1
      <4>3. ASSUME NEW x \in Elements(seen') PROVE x \in since'[g]
        <5>1. PICK j \in 1..m : x = seen'[j]
          BY <1>7, <4>3 DEF Elements
        <5>2. CASE j = m
          BY <1>7, <3>2, <5>1, <5>2
        <5>3. CASE j # m
          <6>1. j \in 1..(m - 1) /\ j + k \in (1 + 1)..n
            BY <1>2, <1>7, <3>3, <5>1, <5>3
          <6>2. x \in After(seen, 1)
            BY <1>7, <5>1, <6>1 DEF After, n
          <6> QED BY <1>2, <3>2, <4>1, <4>2, <6>2
        <5> QED BY <5>2, <5>3
      <4> QED BY <3>3, <4>3
    <3>5. CASE g \notin Elements(seen)
      BY <1>2, <2>4, <3>2, <3>3, <3>5
    <3> QED BY <3>4, <3>5
  <2> QED BY <1>6, <1>7, <2>3, <2>5, <2>6, <2>7 DEF SeenInv
<1>8. CASE n < SeenCapacity
  <2>1. /\ Len(seen') = n + 1 /\ seen'[n + 1] = f
        /\ \A i \in 1..n : seen'[i] = seen[i]
    BY <1>1, <1>4, <1>8, AppendedFacts
  <2>2. n + 1 \in Nat /\ n + 1 = n + 1 - 0 /\ (n + 1) - 1 = n
    BY <1>2
  <2>3. \A i \in 1..((n + 1) - 1) : seen'[i] = seen[i + 0]
    BY <2>1, <2>2
  <2>4. \A g \in DOMAIN since : g \in Elements(seen)
    BY <1>1, <1>2, <1>8
  <2>5. SeenInv'
    BY ONLY <1>7, <2>1, <2>2, <2>3, <2>4
  <2>6. Len(seen') <= SeenCapacity
    BY <1>1, <1>2, <1>8, <2>1
  <2> QED BY <1>4, <2>5, <2>6
<1>9. CASE n = SeenCapacity
  <2>1. n \in Nat /\ n = n + 1 - 1
    BY <1>2
  <2>2. SeenInv'
    BY <1>4, <1>7, <1>9, <2>1
  <2> QED BY <1>1, <1>4, <1>9, <2>2
<1> QED BY <1>1, <1>2, <1>8, <1>9

LEMMA SeenStep == ASSUME TypeOK, SeenInv, [Next]_vars PROVE SeenInv'
<1>1. ASSUME NEW f \in Findings, Suppress(f) PROVE SeenInv'
  BY <1>1, SeenAgain DEF Suppress
<1>2. ASSUME NEW f \in Findings, Report(f) PROVE SeenInv'
  BY <1>2, SeenNew DEF Report
<1>3. ASSUME seen' = <<>>, since' = NeverMet PROVE SeenInv'
  <2>1. Len(<<>>) = 0 /\ 1..0 = {} /\ Elements(<<>>) = {} /\ DOMAIN NeverMet = {}
    BY EmptySeq DEF Elements, NeverMet
  <2> QED BY <1>3, <2>1 DEF SeenInv
<1>4. ASSUME UNCHANGED <<seen, since>> PROVE SeenInv'
  BY <1>4 DEF SeenInv
<1>5. CASE Next
  BY <1>1, <1>2, <1>3, <1>4, <1>5
  DEF Next, Raises, FindsNothing, Store, Lose, SetStatus, Quit, Cleanup, StartMonitor, engine
<1>6. CASE UNCHANGED vars
  BY <1>4, <1>6 DEF vars, engine
<1> QED BY <1>5, <1>6

\* What the cache holds are as many findings as it is long.
LEMMA SeenCount ==
  ASSUME TypeOK, SeenInv
  PROVE  IsFiniteSet(Elements(seen)) /\ Cardinality(Elements(seen)) = Len(seen)
<1> DEFINE n == Len(seen)
<1>1. seen \in Seq(Findings) /\ n \in Nat
  BY LenProperties DEF TypeOK
<1>2. seen \in [1..n -> Elements(seen)] /\ \A i, j \in 1..n : seen[i] = seen[j] => i = j
  BY <1>1, SeqDef, LenProperties DEF SeenInv, Elements
<1>3. seen \in Bijection(1..n, Elements(seen))
  <2>1. \A i, j \in DOMAIN seen : seen[i] = seen[j] => i = j
    BY <1>2
  <2>2. \A x \in Elements(seen) : \E i \in 1..n : seen[i] = x
    BY DEF Elements
  <2> QED BY <1>2, <2>1, <2>2 DEF Bijection, Injection, Surjection, IsInjective
<1>4. ExistsBijection(1..n, Elements(seen))
  BY <1>3 DEF ExistsBijection
<1> HIDE DEF n
<1>5. IsFiniteSet(1..n) /\ Cardinality(1..n) = n
  <2>1. /\ IsFiniteSet(1..n) /\ Cardinality(1..n) = IF 1 > n THEN 0 ELSE n - 1 + 1
    BY <1>1, FS_Interval
  <2>2. (IF 1 > n THEN 0 ELSE n - 1 + 1) = n
    BY <1>1
  <2> QED BY <2>1, <2>2
<1> QED BY <1>4, <1>5, FS_Bijection DEF n

LEMMA RemembersRight == ASSUME TypeOK, CountInv, SeenInv PROVE EngineRemembersRight
<1>1. ASSUME NEW r \in Rules PROVE r \in disabled <=> Elements(verdicts[r]) = {"raised"}
  <2>1. /\ verdicts[r] \in Seq({"raised", "judged"}) /\ Len(verdicts[r]) = MaxFailures
        /\ failures[r] \in 0..MaxFailures /\ MaxFailures \in Nat /\ MaxFailures >= 1
    BY <1>1, DetectionAssumption DEF TypeOK, CountInv
  <2>2. CASE r \in disabled
    <3>1. \A i \in 1..MaxFailures : i > MaxFailures - failures[r]
      BY <2>1, <2>2 DEF CountInv
    <3>2. \A i \in 1..MaxFailures : verdicts[r][i] = "raised"
      BY <3>1 DEF CountInv
    <3>3. 1 \in 1..MaxFailures
      BY <2>1
    <3> QED BY <2>1, <2>2, <3>2, <3>3 DEF Elements
  <2>3. CASE r \notin disabled
    <3>1. failures[r] < MaxFailures /\ MaxFailures - failures[r] \in 1..MaxFailures
      <4>1. failures[r] # MaxFailures
        BY <2>3 DEF CountInv
      <4> QED BY <2>1, <4>1
    <3>2. verdicts[r][MaxFailures - failures[r]] = "judged"
      BY <3>1 DEF CountInv
    <3> QED BY <2>1, <2>3, <3>1, <3>2 DEF Elements
  <2> QED BY <2>2, <2>3
<1>2. ASSUME NEW f \in Findings
      PROVE  f \in Elements(seen) <=> f \in DOMAIN since /\ Cardinality(since[f]) < SeenCapacity
  <2>1. /\ seen \in Seq(Findings) /\ Len(seen) \in Nat
        /\ Len(seen) <= SeenCapacity /\ SeenCapacity \in Nat
    BY DetectionAssumption, ElementsOf DEF TypeOK
  <2>2. IsFiniteSet(Elements(seen)) /\ Cardinality(Elements(seen)) = Len(seen)
    BY SeenCount
  <2>3. CASE f \in Elements(seen)
    <3>1. PICK i \in 1..Len(seen) : f = seen[i]
      BY <2>3 DEF Elements
    <3>2. since[f] \subseteq Elements(seen) \ {f}
      <4>1. since[f] = After(seen, i)
        BY <3>1 DEF SeenInv
      <4>2. \A j \in (i + 1)..Len(seen) : j \in 1..Len(seen) /\ j # i
        BY <2>1, <3>1
      <4>3. \A j \in (i + 1)..Len(seen) : seen[j] # f
        BY <3>1, <4>2 DEF SeenInv
      <4> QED BY <4>1, <4>2, <4>3 DEF After, Elements
    <3>3. /\ IsFiniteSet(Elements(seen) \ {f})
          /\ Cardinality(Elements(seen) \ {f}) = Len(seen) - 1
      BY <2>2, <2>3, FS_RemoveElement
    <3>4. IsFiniteSet(since[f]) /\ Cardinality(since[f]) <= Len(seen) - 1
      BY <3>2, <3>3, FS_Subset
    <3>5. Cardinality(since[f]) \in Nat
      BY <3>4, FS_CardinalityType
    <3>6. Cardinality(since[f]) < SeenCapacity
      BY <2>1, <3>4, <3>5
    <3> QED BY <2>3, <3>6 DEF SeenInv
  <2>4. CASE f \in DOMAIN since \ Elements(seen)
    <3>1. Len(seen) = SeenCapacity /\ Elements(seen) \subseteq since[f] /\ IsFiniteSet(since[f])
      BY <2>4 DEF SeenInv
    <3>2. Cardinality(Elements(seen)) <= Cardinality(since[f]) /\ Cardinality(since[f]) \in Nat
      BY <3>1, FS_Subset, FS_CardinalityType
    <3>3. ~(Cardinality(since[f]) < SeenCapacity)
      BY <2>1, <2>2, <3>1, <3>2
    <3> QED BY <2>4, <3>3
  <2>5. CASE f \notin DOMAIN since
    BY <2>5 DEF SeenInv
  <2> QED BY <2>3, <2>4, <2>5
<1> QED BY <1>1, <1>2 DEF EngineRemembersRight

(***************************************************************************)
(* The steps on the way from the alert manager to the database             *)
(***************************************************************************)

\* The queue without its first item.
Shifted ==
  /\ Len(queue) \in Nat /\ Len(queue) >= 1 /\ Len(queue') = Len(queue) - 1
  /\ \A i \in 1..Len(queue') : i + 1 \in 1..Len(queue) /\ queue'[i] = queue[i + 1]
  /\ \A i \in 1..Len(queue) : i # 1 => i - 1 \in 1..Len(queue') /\ queue'[i - 1] = queue[i]

Aside == UNCHANGED <<reported, bucket, alertOf, raised, running>>

StoresDetection ==
  /\ Shifted /\ Aside /\ queue[1].kind = "detection"
  /\ stored' = stored \cup {queue[1].id} /\ written' = written \cup {queue[1].id}
  /\ UNCHANGED <<link, rows, chosen, lost>>

StoresAlert ==
  /\ Shifted /\ Aside /\ queue[1].kind = "alert"
  /\ rows' = [rows EXCEPT ![queue[1].id] =
       [detections |-> queue[1].detections, status |-> StatusAfter(@)]]
  /\ link' = Linked(queue[1])
  /\ UNCHANGED <<stored, written, chosen, lost>>

Loses ==
  /\ Shifted /\ Aside
  /\ lost' = IF queue[1].kind = "alert" THEN lost \cup {queue[1].id} ELSE lost
  /\ UNCHANGED <<stored, link, rows, chosen, written>>

\* Detection d of subject s is reported, and the writer is told of it and, if the score
\* reaches the threshold, of the alert.
Tells(s, d, crosses, alert) ==
  /\ s \in Subjects /\ d = Len(reported) + 1 /\ d \in Ids
  /\ running /\ UNCHANGED <<running, stored, link, rows, chosen, written, lost>>
  /\ reported' \in Seq(Findings) /\ Len(reported') = d
  /\ \A e \in 1..Len(reported) : reported'[e] = reported[e]
  /\ bucket' \in [Subjects -> SUBSET Ids] /\ bucket'[s] = bucket[s] \cup {d}
  /\ alertOf' \in [Subjects -> Ids \cup {None}]
  /\ \A t \in Subjects \ {s} : \/ bucket'[t] = bucket[t] /\ alertOf'[t] = alertOf[t]
                               \/ bucket'[t] = {} /\ alertOf'[t] = None
  /\ alertOf'[s] = IF crosses THEN alert ELSE alertOf[s]
  /\ crosses <=> {reported'[e] : e \in bucket'[s]} \in Raising
  /\ alertOf[s] # None => alert = alertOf[s] /\ raised' = raised
  /\ alertOf[s] = None => alert = raised + 1 /\ raised' = IF crosses THEN raised + 1 ELSE raised
  /\ alert \in Ids
  /\ queue' \in Seq(Item) /\ \A i \in 1..Len(queue) : queue'[i] = queue[i]
  /\ crosses => /\ Len(queue') = Len(queue) + 2
                /\ queue'[Len(queue) + 1] = AlertItem(alert, bucket'[s])
                /\ queue'[Len(queue) + 2] = DetectionItem(d)
  /\ ~crosses => /\ Len(queue') = Len(queue) + 1
                 /\ queue'[Len(queue) + 1] = DetectionItem(d)

LEMMA TypeFacts ==
  ASSUME TypeOK
  PROVE  /\ MaxReports \in Nat /\ Ids \subseteq Nat /\ None \notin Ids
         /\ Len(reported) \in Nat /\ raised \in Nat
         /\ Len(queue) \in Nat
         /\ \A i \in 1..Len(queue) :
              \/ queue[i].kind = "alert" /\ queue[i].id \in Ids /\ queue[i].detections \subseteq Ids
              \/ queue[i].kind = "detection" /\ queue[i].id \in Ids
<1>1. MaxReports \in Nat /\ None \notin Nat /\ raised \in 0..MaxReports
  BY DetectionAssumption DEF TypeOK
<1>2. Len(reported) \in Nat /\ Len(queue) \in Nat
  BY LenProperties DEF TypeOK
<1>3. \A i \in 1..Len(queue) : queue[i] \in Item
  BY ElementOfSeq DEF TypeOK
<1> QED BY <1>1, <1>2, <1>3 DEF Ids, Item

LEMMA Shifts ==
  ASSUME TypeOK, queue # <<>>, queue' = Tail(queue)
  PROVE  Shifted /\ queue' \in Seq(Item) /\ Head(queue) = queue[1]
<1>1. queue \in Seq(Item)
  BY DEF TypeOK
<1>2. /\ Head(queue) = queue[1]
      /\ Len(queue) \in Nat /\ Len(queue) >= 1
      /\ queue' \in Seq(Item) /\ Len(queue') = Len(queue) - 1
      /\ \A i \in 1..(Len(queue) - 1) : queue'[i] = queue[i + 1]
  BY <1>1, TailFacts
<1>3. \A i \in 1..Len(queue) : i # 1 => i - 1 \in 1..(Len(queue) - 1) /\ (i - 1) + 1 = i
  BY <1>2
<1>4. \A i \in 1..(Len(queue) - 1) : i + 1 \in 1..Len(queue)
  BY <1>2
<1> QED BY <1>2, <1>3, <1>4 DEF Shifted

\* Using a subject keeps it.
LEMMA SubjectKept ==
  ASSUME TypeOK, NEW s \in Subjects, subjects' = Youngest(WithLast(subjects, s), MaxAlerts)
  PROVE  /\ subjects' \in Seq(Subjects) /\ Len(subjects') <= MaxAlerts
         /\ s \in Elements(subjects')
<1>1. /\ subjects \in Seq(Subjects) /\ Len(subjects) <= MaxAlerts
      /\ MaxAlerts \in Nat \ {0} /\ Len(subjects) \in Nat
  BY DetectionAssumption, LenProperties DEF TypeOK
<1>2. CASE s \in Elements(subjects)
  <2> DEFINE w == WithLast(subjects, s)
  <2>1. /\ w \in Seq(Subjects) /\ Len(w) = Len(subjects) /\ w[Len(subjects)] = s
        /\ Len(subjects) >= 1
    <3>1. \E p \in 1..Len(subjects) : Len(w) = Len(subjects) /\ w[Len(subjects)] = s
      BY <1>1, <1>2, WithLastFacts
    <3> QED BY <1>1, <3>1, WithLastFacts
  <2> HIDE DEF w
  <2>2. subjects' = w
    BY <1>1, <2>1 DEF Youngest, w
  <2>3. Len(subjects) \in 1..Len(w)
    BY <1>1, <2>1
  <2> QED BY <1>1, <2>1, <2>2, <2>3 DEF Elements
<1>3. CASE s \notin Elements(subjects)
  <2> DEFINE y == Youngest(Append(subjects, s), MaxAlerts)
  <2>1. WithLast(subjects, s) = Append(subjects, s)
    BY <1>1, <1>3, WithLastFacts
  <2>2. /\ y \in Seq(Subjects)
        /\ Len(subjects) < MaxAlerts => y = Append(subjects, s)
        /\ Len(subjects) = MaxAlerts => Len(y) = MaxAlerts /\ y[MaxAlerts] = s
    BY <1>1, YoungestFacts
  <2> HIDE DEF y
  <2>3. Len(Append(subjects, s)) = Len(subjects) + 1 /\ Append(subjects, s)[Len(subjects) + 1] = s
    BY <1>1, AppendedFacts
  <2>4. PICK n \in Nat \ {0} : Len(y) = n /\ n <= MaxAlerts /\ y[n] = s
    BY <1>1, <2>2, <2>3
  <2>5. n \in 1..Len(y)
    BY <2>4
  <2>6. subjects' = y
    BY <2>1 DEF y
  <2> QED BY <2>2, <2>4, <2>5, <2>6 DEF Elements
<1> QED BY <1>2, <1>3

LEMMA Reported ==
  ASSUME TypeOK, BoundInv, NEW f \in Findings, Report(f)
  PROVE  \E s, d, crosses, alert : Tells(s, d, crosses, alert)
<1> DEFINE s == SubjectOf[f]
           d == Len(reported')
           all == bucket[s] \cup {d}
           crosses == FindingsOf(all) \in Raising
           alert == IF alertOf[s] # None THEN alertOf[s] ELSE raised + 1
           old == Elements(subjects) \ Elements(subjects')
           added == IF crosses THEN <<AlertItem(alert, all)>> ELSE <<>>
<1>1. /\ s \in Subjects /\ Len(reported) < MaxReports /\ Judges(RuleOf[f])
      /\ reported' = Append(reported, f) /\ Notify(f, d)
      /\ UNCHANGED <<database, running, lost>>
  BY DetectionAssumption DEF Report
<1>2. /\ reported \in Seq(Findings) /\ bucket \in [Subjects -> SUBSET Ids]
      /\ alertOf \in [Subjects -> Ids \cup {None}] /\ queue \in Seq(Item)
      /\ raised \in 0..MaxReports
  BY DEF TypeOK
<1>3. /\ reported' \in Seq(Findings) /\ d = Len(reported) + 1
      /\ \A e \in 1..Len(reported) : reported'[e] = reported[e]
  BY <1>1, <1>2, AppendedFacts
<1>4. d \in Ids
  BY <1>1, <1>3, TypeFacts DEF Ids
<1>5. /\ running /\ UNCHANGED <<running, stored, link, rows, chosen, written, lost>>
  BY <1>1 DEF Judges, database
<1>6. /\ subjects' = Youngest(WithLast(subjects, s), MaxAlerts)
      /\ bucket' = [t \in Subjects |->
           IF t = s THEN bucket[s] \cup {d} ELSE IF t \in old THEN {} ELSE bucket[t]]
      /\ alertOf' = [t \in Subjects |->
           IF t = s /\ crosses THEN alert ELSE IF t \in old THEN None ELSE alertOf[t]]
      /\ raised' = IF crosses /\ alertOf[s] = None THEN raised + 1 ELSE raised
      /\ queue' = queue \o added \o <<DetectionItem(d)>>
  BY <1>1 DEF Notify, Gathered
<1>7. s \notin old
  BY <1>1, <1>6, SubjectKept
<1>8. alert \in Ids
  <2>1. raised <= Len(reported)
    BY DEF BoundInv
  <2>2. raised + 1 \in Ids
    BY <1>1, <2>1, TypeFacts DEF Ids
  <2> QED BY <1>1, <1>2, <2>2
<1>9. /\ bucket' \in [Subjects -> SUBSET Ids] /\ bucket'[s] = all
      /\ \A t \in Subjects \ {s} : bucket'[t] = IF t \in old THEN {} ELSE bucket[t]
  <2> HIDE DEF s, d, old
  <2> QED BY <1>1, <1>2, <1>4, <1>6
<1>10. /\ alertOf' \in [Subjects -> Ids \cup {None}]
       /\ alertOf'[s] = IF crosses THEN alert ELSE alertOf[s]
       /\ \A t \in Subjects \ {s} : alertOf'[t] = IF t \in old THEN None ELSE alertOf[t]
  <2> HIDE DEF s, d, old, crosses, alert
  <2> QED BY <1>1, <1>2, <1>6, <1>7, <1>8
<1>11. crosses <=> {reported'[e] : e \in bucket'[s]} \in Raising
  BY <1>9 DEF FindingsOf
<1>12. DetectionItem(d) \in Item /\ AlertItem(alert, all) \in Item
  BY <1>1, <1>2, <1>4, <1>8 DEF DetectionItem, AlertItem, Item
<1>13. /\ queue' \in Seq(Item) /\ \A i \in 1..Len(queue) : queue'[i] = queue[i]
       /\ crosses => /\ Len(queue') = Len(queue) + 2
                     /\ queue'[Len(queue) + 1] = AlertItem(alert, all)
                     /\ queue'[Len(queue) + 2] = DetectionItem(d)
       /\ ~crosses => /\ Len(queue') = Len(queue) + 1
                      /\ queue'[Len(queue) + 1] = DetectionItem(d)
  <2> DEFINE x == AlertItem(alert, all)
             y == DetectionItem(d)
  <2> HIDE DEF s, d, all, crosses, alert, old, x, y
  <2>1. x \in Item /\ y \in Item /\ Len(queue) \in Nat
    BY <1>12, TypeFacts DEF x, y
  <2>2. queue' = IF crosses THEN queue \o <<x>> \o <<y>> ELSE queue \o <<>> \o <<y>>
    BY <1>6 DEF x, y
  <2>3. queue \o <<y>> = Append(queue, y) /\ queue \o <<>> = queue
    BY <1>2, <2>1, AppendIsConcat, ConcatEmptySeq
  <2>4. /\ Append(queue, x) \in Seq(Item) /\ Len(Append(queue, x)) = Len(queue) + 1
        /\ Append(queue, x)[Len(queue) + 1] = x
        /\ \A i \in 1..Len(queue) : Append(queue, x)[i] = queue[i]
    BY <1>2, <2>1, AppendedFacts
  <2>5. queue \o <<x>> \o <<y>> = Append(Append(queue, x), y)
    BY <1>2, <2>1, <2>4, AppendIsConcat
  <2>6. CASE crosses
    <3>1. queue' = Append(Append(queue, x), y)
      BY <2>2, <2>5, <2>6
    <3> DEFINE q == Append(queue, x)
    <3> HIDE DEF q
    <3>2. /\ queue' \in Seq(Item) /\ Len(queue') = Len(q) + 1
          /\ queue'[Len(q) + 1] = y /\ \A i \in 1..Len(q) : queue'[i] = q[i]
      BY <2>1, <2>4, <3>1, AppendedFacts DEF q
    <3>3. Len(q) = Len(queue) + 1 /\ q[Len(queue) + 1] = x /\ \A i \in 1..Len(queue) : q[i] = queue[i]
      BY <2>4 DEF q
    <3>4. Len(q) + 1 = Len(queue) + 2 /\ Len(queue) + 1 \in 1..Len(q)
          /\ \A i \in 1..Len(queue) : i \in 1..Len(q)
      BY <2>1, <3>3
    <3> QED BY <2>6, <3>2, <3>3, <3>4 DEF x, y
  <2>7. CASE ~crosses
    <3>1. queue' = Append(queue, y)
      BY <2>2, <2>3, <2>7
    <3> QED BY <1>2, <2>1, <2>7, <3>1, AppendedFacts DEF x, y
  <2> QED BY <2>6, <2>7
<1>14. Tells(s, d, crosses, alert)
  <2>1. /\ \A t \in Subjects \ {s} : \/ bucket'[t] = bucket[t] /\ alertOf'[t] = alertOf[t]
                                     \/ bucket'[t] = {} /\ alertOf'[t] = None
    BY <1>9, <1>10
  <2>2. /\ alertOf[s] # None => alert = alertOf[s] /\ raised' = raised
        /\ alertOf[s] = None => alert = raised + 1 /\ raised' = IF crosses THEN raised + 1 ELSE raised
    BY <1>6
  <2> HIDE DEF s, d, all, crosses, alert, old, added
  <2>3. /\ queue' \in Seq(Item) /\ \A i \in 1..Len(queue) : queue'[i] = queue[i]
        /\ crosses => /\ Len(queue') = Len(queue) + 2
                      /\ queue'[Len(queue) + 1] = AlertItem(alert, bucket'[s])
                      /\ queue'[Len(queue) + 2] = DetectionItem(d)
        /\ ~crosses => /\ Len(queue') = Len(queue) + 1
                       /\ queue'[Len(queue) + 1] = DetectionItem(d)
    BY ONLY <1>9, <1>13
  <2>4. bucket'[s] = bucket[s] \cup {d}
    BY <1>9 DEF all
  <2>5. Len(reported') = d
    BY DEF d
  <2>6. /\ s \in Subjects /\ running
    BY <1>1, <1>5
  <2> QED BY ONLY <1>3, <1>4, <1>5, <1>8, <1>9, <1>10, <1>11, <2>1, <2>2, <2>3, <2>4, <2>5, <2>6
         DEF Tells
<1> QED BY <1>14

LEMMA StepTyped == ASSUME TypeOK, CountInv, SeenInv, BoundInv, [Next]_vars PROVE TypeOK'
<1> USE DetectionAssumption
<1>1. /\ failures \in [Rules -> 0..MaxFailures] /\ disabled \subseteq Rules
      /\ verdicts \in [Rules -> Seq({"raised", "judged"})]
      /\ seen \in Seq(Findings) /\ Len(seen) <= SeenCapacity
      /\ DOMAIN since \subseteq Findings /\ since \in [DOMAIN since -> SUBSET Findings]
      /\ reported \in Seq(Findings) /\ Len(reported) <= MaxReports
  BY DEF TypeOK
<1>2. /\ subjects \in Seq(Subjects) /\ Len(subjects) <= MaxAlerts
      /\ bucket \in [Subjects -> SUBSET Ids] /\ alertOf \in [Subjects -> Ids \cup {None}]
      /\ raised \in 0..MaxReports /\ queue \in Seq(Item)
  BY DEF TypeOK
<1>3. /\ stored \subseteq Ids /\ link \in [Ids -> Ids \cup {None}]
      /\ rows \in [Ids -> Row \cup {None}] /\ running \in BOOLEAN
      /\ chosen \in [Ids -> Statuses \cup {None}] /\ lost \subseteq Ids /\ written \subseteq Ids
  BY DEF TypeOK
\* The parts of the state that the actions change together.
<1> DEFINE EngineTyped ==
             /\ failures \in [Rules -> 0..MaxFailures] /\ disabled \subseteq Rules
             /\ verdicts \in [Rules -> Seq({"raised", "judged"})]
           CacheTyped ==
             /\ seen \in Seq(Findings) /\ Len(seen) <= SeenCapacity
             /\ DOMAIN since \subseteq Findings /\ since \in [DOMAIN since -> SUBSET Findings]
           ReportedTyped == reported \in Seq(Findings) /\ Len(reported) <= MaxReports
           ManagerTyped ==
             /\ subjects \in Seq(Subjects) /\ Len(subjects) <= MaxAlerts
             /\ bucket \in [Subjects -> SUBSET Ids] /\ alertOf \in [Subjects -> Ids \cup {None}]
             /\ raised \in 0..MaxReports
           QueueTyped == queue \in Seq(Item)
           DatabaseTyped ==
             /\ stored \subseteq Ids /\ link \in [Ids -> Ids \cup {None}]
             /\ rows \in [Ids -> Row \cup {None}]
             /\ chosen \in [Ids -> Statuses \cup {None}] /\ written \subseteq Ids
           RestTyped == running \in BOOLEAN /\ lost \subseteq Ids
<1> DEFINE AllTyped == /\ EngineTyped' /\ CacheTyped' /\ ReportedTyped' /\ ManagerTyped'
                       /\ QueueTyped' /\ DatabaseTyped' /\ RestTyped'
<1>4. ASSUME AllTyped PROVE TypeOK'
  BY <1>4 DEF TypeOK
<1>5. /\ UNCHANGED <<failures, disabled, verdicts>> => EngineTyped'
      /\ UNCHANGED <<seen, since>> => CacheTyped'
      /\ UNCHANGED reported => ReportedTyped'
      /\ UNCHANGED manager => ManagerTyped'
      /\ UNCHANGED queue => QueueTyped'
      /\ UNCHANGED database => DatabaseTyped'
      /\ UNCHANGED <<running, lost>> => RestTyped'
  BY <1>1, <1>2, <1>3 DEF manager, database
<1>6. ASSUME NEW r \in Rules, NEW x \in {"raised", "judged"}, Remember(r, x)
      PROVE  verdicts' \in [Rules -> Seq({"raised", "judged"})]
  <2> DEFINE v == verdicts[r]
  <2>1. v \in Seq({"raised", "judged"}) /\ Len(v) = MaxFailures
    BY <1>1 DEF CountInv
  <2> HIDE DEF v
  <2>2. v # <<>>
    BY <2>1, EmptySeq
  <2>3. Append(Tail(v), x) \in Seq({"raised", "judged"})
    BY <2>1, <2>2, TailFacts, AppendedFacts
  <2>4. verdicts' = [verdicts EXCEPT ![r] = Append(Tail(v), x)]
    BY <1>6 DEF Remember, v
  <2> QED BY <1>1, <2>3, <2>4
<1>7. ASSUME NEW f \in Findings, Meet(f)
      PROVE  DOMAIN since' \subseteq Findings /\ since' \in [DOMAIN since' -> SUBSET Findings]
  BY <1>1, <1>7 DEF Meet
<1>8. ASSUME NEW r \in Rules, Judges(r) PROVE EngineTyped'
  <2>1. /\ failures' = [failures EXCEPT ![r] = 0] /\ disabled' = disabled /\ Remember(r, "judged")
    BY <1>8 DEF Judges, Reset
  <2> QED BY <1>1, <1>6, <2>1
<1>9. ASSUME NEW r \in Rules, Raises(r) PROVE AllTyped
  <2>1. /\ failures' = [failures EXCEPT ![r] = @ + 1] /\ r \notin disabled
        /\ disabled' = IF failures[r] + 1 >= MaxFailures THEN disabled \cup {r} ELSE disabled
        /\ Remember(r, "raised")
    BY <1>9 DEF Raises
  <2>2. failures[r] # MaxFailures
    BY <2>1 DEF CountInv
  <2>3. failures[r] + 1 \in 0..MaxFailures
    BY <1>1, <2>2
  <2>4. EngineTyped'
    BY <1>1, <1>6, <2>1, <2>3
  <2>5. UNCHANGED <<seen, since, reported, manager, queue, database, running, lost>>
    BY <1>9 DEF Raises
  <2> QED BY <1>5, <2>4, <2>5
<1>10. ASSUME NEW r \in Rules, FindsNothing(r) PROVE AllTyped
  <2>1. UNCHANGED <<seen, since, reported, manager, queue, database, running, lost>>
    BY <1>10 DEF FindsNothing
  <2> QED BY <1>5, <1>8, <1>10, <2>1 DEF FindsNothing
<1>11. ASSUME NEW f \in Findings, Suppress(f) PROVE AllTyped
  <2>1. UNCHANGED <<reported, manager, queue, database, running, lost>>
    BY <1>11 DEF Suppress
  <2>2. EngineTyped'
    BY <1>8, <1>11 DEF Suppress
  <2>3. seen' \in Seq(Findings) /\ Len(seen') = Len(seen) /\ Meet(f)
    BY <1>11, SeenAgain DEF Suppress
  <2> QED BY <1>1, <1>5, <1>7, <2>1, <2>2, <2>3
<1>12. ASSUME NEW f \in Findings, Report(f) PROVE AllTyped
  <2>1. EngineTyped' /\ UNCHANGED <<database, running, lost>>
    BY <1>8, <1>12 DEF Report
  <2>2. seen' \in Seq(Findings) /\ Len(seen') <= SeenCapacity /\ Meet(f)
    BY <1>12, SeenNew DEF Report
  <2>3. PICK s, d, crosses, alert : Tells(s, d, crosses, alert)
    BY <1>12, Reported
  <2>4. subjects' \in Seq(Subjects) /\ Len(subjects') <= MaxAlerts
    <3>1. subjects' = Youngest(WithLast(subjects, SubjectOf[f]), MaxAlerts)
      BY <1>12 DEF Report, Notify
    <3>2. SubjectOf[f] \in Subjects
      OBVIOUS
    <3> QED BY <3>1, <3>2, SubjectKept
  <2>5. raised' \in 0..MaxReports
    <3>1. raised' = raised \/ raised' = raised + 1
      BY <2>3 DEF Tells
    <3>2. raised' = raised + 1 => raised' \in Ids
      BY <2>3, TypeFacts DEF Tells, Ids
    <3> QED BY <1>2, <3>1, <3>2 DEF Ids
  <2>6. Len(reported') <= MaxReports
    BY <2>3 DEF Tells, Ids
  <2> QED BY <1>5, <1>7, <2>1, <2>2, <2>3, <2>4, <2>5, <2>6
         DEF Tells
<1>13. ASSUME queue # <<>>, queue' = Tail(queue), UNCHANGED <<engine, manager, running>>,
              lost' \subseteq Ids, DatabaseTyped'
       PROVE  AllTyped
  BY <1>3, <1>5, <1>13, Shifts DEF engine
<1>14. ASSUME Store PROVE AllTyped
  <2>1. /\ queue # <<>> /\ queue' = Tail(queue) /\ UNCHANGED <<engine, manager, running>>
        /\ Write(Head(queue)) /\ lost' = lost
    BY <1>14 DEF Store
  <2>2. /\ Head(queue) = queue[1] /\ 1 \in 1..Len(queue)
    BY <2>1, Shifts DEF Shifted
  <2>3. CASE queue[1].kind = "detection"
    <3>1. queue[1].id \in Ids
      BY <2>2, TypeFacts
    <3>2. /\ stored' = stored \cup {queue[1].id} /\ written' = written \cup {queue[1].id}
          /\ UNCHANGED <<link, rows, chosen>>
      BY <2>1, <2>2, <2>3 DEF Write
    <3> QED BY <1>3, <1>13, <2>1, <3>1, <3>2
  <2>4. CASE queue[1].kind # "detection"
    <3>1. queue[1].id \in Ids /\ queue[1].detections \subseteq Ids
      BY <2>2, <2>4, TypeFacts
    <3>2. /\ rows' = [rows EXCEPT ![queue[1].id] =
               [detections |-> queue[1].detections, status |-> StatusAfter(@)]]
          /\ link' = Linked(queue[1]) /\ UNCHANGED <<stored, written, chosen>>
      BY <2>1, <2>2, <2>4 DEF Write
    <3>3. StatusAfter(rows[queue[1].id]) \in Statuses
      BY <1>3, <3>1 DEF StatusAfter, Terminal, Statuses
    <3>4. [detections |-> queue[1].detections, status |-> StatusAfter(rows[queue[1].id])] \in Row
      BY <3>1, <3>3 DEF Row
    <3>5. rows' \in [Ids -> Row \cup {None}]
      BY <1>3, <3>1, <3>2, <3>4
    <3>6. link' \in [Ids -> Ids \cup {None}]
      BY <1>3, <3>1, <3>2 DEF Linked
    <3> QED BY <1>3, <1>13, <2>1, <3>2, <3>5, <3>6
  <2> QED BY <2>3, <2>4
<1>15. ASSUME Lose PROVE AllTyped
  <2>1. /\ queue # <<>> /\ queue' = Tail(queue) /\ UNCHANGED <<engine, manager, database, running>>
        /\ lost' = IF Head(queue).kind = "alert" THEN lost \cup {Head(queue).id} ELSE lost
    BY <1>15 DEF Lose
  <2>2. /\ Head(queue) = queue[1] /\ 1 \in 1..Len(queue)
    BY <2>1, Shifts DEF Shifted
  <2>3. lost' \subseteq Ids
    BY <1>3, <2>1, <2>2, TypeFacts
  <2> QED BY <1>5, <1>13, <2>1, <2>3
<1>16. ASSUME NEW a \in Ids, NEW status \in Statuses, SetStatus(a, status) PROVE AllTyped
  <2>1. /\ rows[a] # None /\ rows' = [rows EXCEPT ![a].status = status]
        /\ chosen' = [chosen EXCEPT ![a] = status]
        /\ UNCHANGED <<engine, manager, queue, stored, link, written, running, lost>>
    BY <1>16 DEF SetStatus
  <2>2. rows[a] \in Row
    BY <1>3, <2>1
  <2>3. [rows[a] EXCEPT !.status = status] \in Row
    BY <2>2 DEF Row
  <2>4. rows' \in [Ids -> Row \cup {None}]
    BY <1>3, <2>1, <2>3
  <2>5. chosen' \in [Ids -> Statuses \cup {None}]
    BY <1>3, <2>1
  <2> QED BY <1>3, <1>5, <2>1, <2>4, <2>5 DEF engine
<1>17. ASSUME Quit PROVE AllTyped
  <2>1. running' = FALSE /\ UNCHANGED <<engine, manager, queue, database, lost>>
    BY <1>17 DEF Quit
  <2> QED BY <1>3, <1>5, <2>1 DEF engine
<1>18. ASSUME Retention PROVE DatabaseTyped'
  <2>1. /\ \E old \in SUBSET Expirable : stored' = stored \ old
        /\ \E old \in SUBSET {a \in Ids : rows[a] # None} :
             rows' = [a \in Ids |-> IF a \in old THEN None ELSE rows[a]]
        /\ UNCHANGED <<link, written, chosen>>
    BY <1>18 DEF Retention
  <2>2. stored' \subseteq Ids
    BY <1>3, <2>1
  <2>3. rows' \in [Ids -> Row \cup {None}]
    BY <1>3, <2>1
  <2> QED BY <1>3, <2>1, <2>2, <2>3
<1>19. ASSUME Cleanup PROVE AllTyped
  <2>1. Retention /\ UNCHANGED <<engine, manager, queue, running, lost>>
    BY <1>19 DEF Cleanup
  <2> QED BY <1>5, <1>18, <2>1 DEF engine
<1>20. ASSUME StartMonitor PROVE AllTyped
  <2>1. /\ Retention /\ running' = TRUE
        /\ failures' = NoFailures /\ disabled' = {} /\ seen' = <<>>
        /\ verdicts' = NoVerdicts /\ since' = NeverMet
        /\ subjects' = <<>> /\ bucket' = NoDetections /\ alertOf' = NoAlerts
        /\ UNCHANGED <<reported, raised, queue, lost>>
    BY <1>20 DEF StartMonitor
  <2>2. EngineTyped'
    <3>1. [i \in 1..MaxFailures |-> "judged"] \in Seq({"raised", "judged"})
      BY SeqDef
    <3> QED BY <2>1, <3>1 DEF NoFailures, NoVerdicts
  <2>3. CacheTyped' /\ ManagerTyped'
    <3>1. /\ <<>> \in Seq(Findings) /\ <<>> \in Seq(Subjects) /\ Len(<<>>) = 0
          /\ 0 <= SeenCapacity /\ 0 <= MaxAlerts
      BY EmptySeq
    <3>2. DOMAIN NeverMet = {} /\ NeverMet \in [{} -> SUBSET Findings]
      BY DEF NeverMet
    <3>3. NoDetections \in [Subjects -> SUBSET Ids] /\ NoAlerts \in [Subjects -> Ids \cup {None}]
      BY DEF NoDetections, NoAlerts
    <3> QED BY <1>2, <2>1, <3>1, <3>2, <3>3
  <2> QED BY <1>3, <1>5, <1>18, <2>1, <2>2, <2>3
<1>21. ASSUME UNCHANGED vars PROVE AllTyped
  BY <1>5, <1>21 DEF vars, engine
<1> QED
  BY <1>4, <1>9, <1>10, <1>11, <1>12, <1>14, <1>15, <1>16, <1>17, <1>19, <1>20, <1>21 DEF Next

SetsStatus(a, status) ==
  /\ rows[a] # None /\ rows' = [rows EXCEPT ![a].status = status]
  /\ chosen' = [chosen EXCEPT ![a] = status]
  /\ Aside /\ UNCHANGED <<queue, stored, link, written, lost>>

Quits ==
  /\ running /\ queue = <<>> /\ running' = FALSE
  /\ UNCHANGED <<reported, bucket, alertOf, raised, queue, stored, link, rows, chosen, written, lost>>

\* With or without a monitor that starts afterwards.
Retains ==
  /\ ~running /\ \E old \in SUBSET Expirable : stored' = stored \ old
  /\ \A a \in Ids : rows'[a] = rows[a] \/ (rows'[a] = None /\ rows[a].status \in Terminal)
  /\ UNCHANGED <<reported, raised, queue, link, chosen, written, lost>>
  /\ \/ UNCHANGED <<bucket, alertOf, running>>
     \/ bucket' = NoDetections /\ alertOf' = NoAlerts /\ running'

PathStays ==
  UNCHANGED <<reported, bucket, alertOf, raised, queue, stored, link, rows, chosen, written,
              running, lost>>

\* What a step does on the way from the alert manager to the database.
LEMMA Effects ==
  ASSUME TypeOK, BoundInv, [Next]_vars
  PROVE  \/ PathStays
         \/ \E s, d, crosses, alert : Tells(s, d, crosses, alert)
         \/ StoresDetection \/ StoresAlert \/ Loses
         \/ \E a \in Ids, status \in Statuses : SetsStatus(a, status)
         \/ Quits \/ Retains
<1>1. ASSUME NEW r \in Rules, Raises(r) \/ FindsNothing(r) PROVE PathStays
  BY <1>1 DEF Raises, FindsNothing, Judges, PathStays, manager, database
<1>2. ASSUME NEW f \in Findings, Suppress(f) PROVE PathStays
  BY <1>2 DEF Suppress, Judges, PathStays, manager, database
<1>3. ASSUME NEW f \in Findings, Report(f)
      PROVE  \E s, d, crosses, alert : Tells(s, d, crosses, alert)
  BY <1>3, Reported
<1>4. CASE Store
  <2>1. queue # <<>> /\ queue' = Tail(queue) /\ Write(Head(queue)) /\ lost' = lost /\ Aside
    BY <1>4 DEF Store, Aside, engine, manager
  <2>2. Shifted /\ Write(queue[1])
    BY <2>1, Shifts
  <2> QED BY <2>1, <2>2 DEF Write, StoresDetection, StoresAlert
<1>5. CASE Lose
  <2>1. /\ queue # <<>> /\ queue' = Tail(queue) /\ Aside
        /\ lost' = IF Head(queue).kind = "alert" THEN lost \cup {Head(queue).id} ELSE lost
        /\ UNCHANGED <<stored, link, rows, chosen, written>>
    BY <1>5 DEF Lose, Aside, engine, manager, database
  <2>2. Shifted /\ Head(queue) = queue[1]
    BY <2>1, Shifts
  <2> QED BY <2>1, <2>2 DEF Loses
<1>6. ASSUME NEW a \in Ids, NEW status \in Statuses, SetStatus(a, status)
      PROVE  SetsStatus(a, status)
  BY <1>6 DEF SetStatus, SetsStatus, Aside, engine, manager
<1>7. ASSUME Quit PROVE Quits
  BY <1>7 DEF Quit, Quits, engine, manager, database
<1>8. ASSUME Retention
      PROVE  /\ ~running /\ \E old \in SUBSET Expirable : stored' = stored \ old
             /\ \A a \in Ids : rows'[a] = rows[a] \/ (rows'[a] = None /\ rows[a].status \in Terminal)
             /\ UNCHANGED <<link, chosen, written>>
  <2>1. PICK old \in SUBSET {a \in Ids : rows[a] # None} :
          /\ \A a \in old : rows[a].status \in Terminal
          /\ rows' = [a \in Ids |-> IF a \in old THEN None ELSE rows[a]]
    BY <1>8 DEF Retention
  <2> QED BY <1>8, <2>1 DEF Retention
<1>9. ASSUME Cleanup \/ StartMonitor PROVE Retains
  <2>1. Retention /\ UNCHANGED <<reported, raised, queue, lost>>
        /\ \/ UNCHANGED <<bucket, alertOf, running>>
           \/ bucket' = NoDetections /\ alertOf' = NoAlerts /\ running'
    BY <1>9 DEF Cleanup, StartMonitor, engine, manager
  <2> QED BY <1>8, <2>1 DEF Retains
<1>10. CASE UNCHANGED vars
  BY <1>10 DEF vars, engine, manager, database, PathStays
<1> QED BY <1>1, <1>2, <1>3, <1>4, <1>5, <1>6, <1>7, <1>9, <1>10 DEF Next

Others ==
  \/ StoresDetection \/ StoresAlert \/ Loses
  \/ \E a \in Ids, status \in Statuses : SetsStatus(a, status)
  \/ Quits \/ Retains

\* A person keeps the evidence and changes the status of an alert.
LEMMA StatusFacts ==
  ASSUME TypeOK, NEW a \in Ids, NEW status \in Statuses, SetsStatus(a, status)
  PROVE  /\ \A b \in Ids : /\ rows'[b] = None <=> rows[b] = None
                           /\ rows[b] # None => rows'[b].detections = rows[b].detections
                           /\ b # a => rows'[b] = rows[b] /\ chosen'[b] = chosen[b]
         /\ rows[a] # None /\ rows'[a].status = status /\ chosen'[a] = status
<1>1. /\ rows \in [Ids -> Row \cup {None}] /\ chosen \in [Ids -> Statuses \cup {None}]
      /\ None \notin Row
  BY DetectionAssumption DEF TypeOK
<1>2. /\ rows[a] \in Row /\ rows' = [rows EXCEPT ![a].status = status]
      /\ chosen' = [chosen EXCEPT ![a] = status]
  BY <1>1 DEF SetsStatus
<1>3. /\ [rows[a] EXCEPT !.status = status] \in Row
      /\ [rows[a] EXCEPT !.status = status].status = status
      /\ [rows[a] EXCEPT !.status = status].detections = rows[a].detections
  BY <1>2 DEF Row
<1>4. /\ rows'[a] = [rows[a] EXCEPT !.status = status] /\ chosen'[a] = status
      /\ \A b \in Ids \ {a} : rows'[b] = rows[b] /\ chosen'[b] = chosen[b]
  BY <1>1, <1>2
<1> QED BY <1>1, <1>2, <1>3, <1>4

\* What a stored alert's row is then.
LEMMA RowFacts ==
  ASSUME TypeOK, StoresAlert
  PROVE  /\ queue[1].id \in Ids /\ queue[1].detections \subseteq Ids
         /\ 1 \in 1..Len(queue) /\ AlertAt(queue, 1, queue[1].id)
         /\ \A b \in Ids \ {queue[1].id} : rows'[b] = rows[b]
         /\ rows'[queue[1].id] # None
         /\ rows'[queue[1].id].detections = queue[1].detections
         /\ rows'[queue[1].id].status = StatusAfter(rows[queue[1].id])
         /\ \A d \in Ids :
              link'[d] = IF d \in queue[1].detections \cap stored THEN queue[1].id ELSE link[d]
<1>1. rows \in [Ids -> Row \cup {None}] /\ None \notin Row
  BY DetectionAssumption DEF TypeOK
<1>2. 1 \in 1..Len(queue) /\ queue[1].kind = "alert"
  BY DEF StoresAlert, Shifted
<1>3. queue[1].id \in Ids /\ queue[1].detections \subseteq Ids
  BY <1>2, TypeFacts
<1>4. StatusAfter(rows[queue[1].id]) \in Statuses
  BY <1>1, <1>3 DEF StatusAfter, Terminal, Statuses, Row
<1>5. [detections |-> queue[1].detections, status |-> StatusAfter(rows[queue[1].id])] \in Row
  BY <1>3, <1>4 DEF Row
<1>6. /\ rows'[queue[1].id] =
           [detections |-> queue[1].detections, status |-> StatusAfter(rows[queue[1].id])]
      /\ \A b \in Ids \ {queue[1].id} : rows'[b] = rows[b]
  BY <1>1, <1>3 DEF StoresAlert
<1>7. \A d \in Ids :
        link'[d] = IF d \in queue[1].detections \cap stored THEN queue[1].id ELSE link[d]
  BY DEF StoresAlert, Linked
<1> QED BY <1>1, <1>2, <1>3, <1>5, <1>6, <1>7 DEF AlertAt

\* Nothing but a report lists a detection anew.
LEMMA ListsShrink ==
  ASSUME TypeOK, Others, NEW a \in Ids, NEW d \in Ids, Lists(queue', rows', link', a, d)
  PROVE  Lists(queue, rows, link, a, d)
<1>1. ASSUME Shifted, NEW i \in 1..Len(queue'), AlertAt(queue', i, a), d \in queue'[i].detections
      PROVE  Lists(queue, rows, link, a, d)
  <2>1. i + 1 \in 1..Len(queue) /\ queue'[i] = queue[i + 1]
    BY <1>1 DEF Shifted
  <2> QED BY <1>1, <2>1 DEF Lists, AlertAt
<1>2. CASE StoresDetection \/ Loses
  BY <1>1, <1>2 DEF Lists, StoresDetection, Loses
<1>3. CASE StoresAlert
  <2>1. CASE \E i \in 1..Len(queue') : AlertAt(queue', i, a) /\ d \in queue'[i].detections
    BY <1>1, <1>3, <2>1 DEF StoresAlert
  <2>2. CASE rows'[a] # None /\ d \in rows'[a].detections
    BY <1>3, <2>2, RowFacts DEF Lists
  <2>3. CASE link'[d] = a
    BY <1>3, <2>3, RowFacts DEF Lists
  <2> QED BY <2>1, <2>2, <2>3 DEF Lists
<1>4. ASSUME NEW b \in Ids, NEW status \in Statuses, SetsStatus(b, status)
      PROVE  Lists(queue, rows, link, a, d)
  <2>1. queue' = queue /\ link' = link
    BY <1>4 DEF SetsStatus
  <2>2. rows'[a] # None => rows[a] # None /\ rows'[a].detections = rows[a].detections
    BY <1>4, StatusFacts
  <2> QED BY <2>1, <2>2 DEF Lists
<1>5. CASE Quits
  BY <1>5 DEF Lists, Quits
<1>6. CASE Retains
  BY <1>6 DEF Lists, Retains
<1> QED BY <1>2, <1>3, <1>4, <1>5, <1>6 DEF Others

\* Where a told detection and its alert are, and where they were not.
LEMMA TellFacts ==
  ASSUME TypeOK, BoundInv, NEW s, NEW d, NEW crosses, NEW alert, Tells(s, d, crosses, alert)
  PROVE  /\ d \in Nat /\ s \in Subjects /\ alert \in Ids
         /\ \A t \in Subjects : d \notin bucket[t]
         /\ \A t \in Subjects : \A e \in bucket'[t] : e < d \/ (t = s /\ e = d)
         /\ d \notin written
         /\ \A a \in Ids : ~Lists(queue, rows, link, a, d)
         /\ \A i \in 1..Len(queue) : i \in 1..Len(queue') /\ queue'[i] = queue[i]
         /\ \A i \in 1..Len(queue') :
              \/ i \in 1..Len(queue)
              \/ /\ crosses /\ i = Len(queue) + 1 /\ queue'[i].kind = "alert"
                 /\ queue'[i].id = alert /\ queue'[i].detections = bucket'[s]
              \/ i > Len(queue) /\ queue'[i].kind = "detection" /\ queue'[i].id = d
         /\ crosses => Len(queue) + 1 \in 1..Len(queue') /\ queue'[Len(queue) + 1].kind = "alert"
         /\ \A a, e \in Ids : Lists(queue', rows', link', a, e) =>
              Lists(queue, rows, link, a, e) \/ (crosses /\ a = alert /\ e \in bucket'[s])
<1>1. /\ d = Len(reported) + 1 /\ d \in Ids /\ s \in Subjects /\ alert \in Ids
      /\ rows' = rows /\ link' = link
      /\ bucket'[s] = bucket[s] \cup {d}
      /\ \A t \in Subjects \ {s} : bucket'[t] = bucket[t] \/ bucket'[t] = {}
  BY DEF Tells
<1>2. /\ \A i \in 1..Len(queue) : queue'[i] = queue[i]
      /\ crosses => /\ Len(queue') = Len(queue) + 2
                    /\ queue'[Len(queue) + 1] = AlertItem(alert, bucket'[s])
                    /\ queue'[Len(queue) + 2] = DetectionItem(d)
      /\ ~crosses => /\ Len(queue') = Len(queue) + 1
                     /\ queue'[Len(queue) + 1] = DetectionItem(d)
  BY DEF Tells
<1>3. Len(reported) \in Nat /\ Len(queue) \in Nat /\ Ids \subseteq Nat
  BY TypeFacts
<1>4. bucket \in [Subjects -> SUBSET Ids] /\ written \subseteq Ids
  BY DEF TypeOK
<1>5. /\ \A t \in Subjects : \A e \in bucket[t] : e < d
      /\ \A e \in written : e < d
  <2>1. /\ \A t \in Subjects : \A e \in bucket[t] : e \in Nat /\ e <= Len(reported)
        /\ \A e \in written : e \in Nat /\ e <= Len(reported)
    BY <1>3, <1>4 DEF BoundInv
  <2> QED BY <1>1, <1>3, <2>1
<1>6. \A a \in Ids : ~Lists(queue, rows, link, a, d)
  <2>1. ~(d <= Len(reported))
    BY <1>1, <1>3
  <2> QED BY <1>1, <2>1 DEF BoundInv
<1>7. \A t \in Subjects : d \notin bucket[t]
  BY <1>1, <1>3, <1>5
<1>8. \A t \in Subjects : \A e \in bucket'[t] : e < d \/ (t = s /\ e = d)
  BY <1>1, <1>5
<1>9. ASSUME NEW i \in 1..Len(queue'), i \notin 1..Len(queue)
      PROVE  \/ crosses /\ i = Len(queue) + 1 /\ queue'[i] = AlertItem(alert, bucket'[s])
             \/ i > Len(queue) /\ queue'[i] = DetectionItem(d)
  BY <1>2, <1>3, <1>9
<1>10. \A i \in 1..Len(queue') :
         \/ i \in 1..Len(queue)
         \/ /\ crosses /\ i = Len(queue) + 1 /\ queue'[i].kind = "alert"
            /\ queue'[i].id = alert /\ queue'[i].detections = bucket'[s]
         \/ i > Len(queue) /\ queue'[i].kind = "detection" /\ queue'[i].id = d
  BY <1>9 DEF AlertItem, DetectionItem
<1>11. \A i \in 1..Len(queue) : i \in 1..Len(queue') /\ queue'[i] = queue[i]
  BY <1>2, <1>3
<1>12. crosses => Len(queue) + 1 \in 1..Len(queue') /\ queue'[Len(queue) + 1].kind = "alert"
  BY <1>2, <1>3 DEF AlertItem
<1>13. ASSUME NEW a \in Ids, NEW e \in Ids, Lists(queue', rows', link', a, e)
       PROVE  Lists(queue, rows, link, a, e) \/ (crosses /\ a = alert /\ e \in bucket'[s])
  <2>1. ASSUME NEW i \in 1..Len(queue'), AlertAt(queue', i, a), e \in queue'[i].detections
        PROVE  Lists(queue, rows, link, a, e) \/ (crosses /\ a = alert /\ e \in bucket'[s])
    <3>1. CASE i \in 1..Len(queue)
      BY <1>11, <2>1, <3>1 DEF Lists, AlertAt
    <3>2. CASE i \notin 1..Len(queue)
      BY <1>10, <2>1, <3>2 DEF AlertAt
    <3> QED BY <3>1, <3>2
  <2> QED BY <1>1, <1>13, <2>1 DEF Lists
<1>14. d \notin written
  BY <1>1, <1>3, <1>5
<1> QED BY <1>1, <1>3, <1>6, <1>7, <1>8, <1>10, <1>11, <1>12, <1>13, <1>14

LEMMA BoundStep ==
  ASSUME TypeOK, BoundInv, TypeOK', [Next]_vars
  PROVE  BoundInv'
<1>1. /\ raised <= Len(reported)
      /\ ~running => queue = <<>>
      /\ \A a \in Ids : rows[a] # None \/ chosen[a] # None => a <= raised
      /\ \A i \in 1..Len(queue) :
           IF queue[i].kind = "alert" THEN queue[i].id <= raised ELSE queue[i].id <= Len(reported)
      /\ \A t \in Subjects : alertOf[t] # None => alertOf[t] <= raised
      /\ \A t \in Subjects : \A d \in bucket[t] : d <= Len(reported)
      /\ \A d \in written : d <= Len(reported)
      /\ \A a, d \in Ids : Lists(queue, rows, link, a, d) => a <= raised /\ d <= Len(reported)
  BY DEF BoundInv
<1>2. /\ MaxReports \in Nat /\ Ids \subseteq Nat /\ None \notin Ids
      /\ Len(reported) \in Nat /\ raised \in Nat /\ Len(queue) \in Nat
      /\ \A i \in 1..Len(queue) : queue[i].id \in Ids
  BY TypeFacts
<1>3. /\ bucket \in [Subjects -> SUBSET Ids] /\ alertOf \in [Subjects -> Ids \cup {None}]
      /\ written \subseteq Ids
  BY DEF TypeOK
<1>4. ASSUME NEW s, NEW d, NEW crosses, NEW alert, Tells(s, d, crosses, alert) PROVE BoundInv'
  <2>1. /\ d = Len(reported) + 1 /\ Len(reported') = d /\ s \in Subjects /\ alert \in Ids
        /\ UNCHANGED <<running, stored, link, rows, chosen, written, lost>> /\ running
        /\ alertOf' \in [Subjects -> Ids \cup {None}]
        /\ \A t \in Subjects \ {s} : alertOf'[t] = alertOf[t] \/ alertOf'[t] = None
        /\ alertOf'[s] = IF crosses THEN alert ELSE alertOf[s]
        /\ alertOf[s] # None => alert = alertOf[s] /\ raised' = raised
        /\ alertOf[s] = None => alert = raised + 1 /\ raised' = IF crosses THEN raised + 1 ELSE raised
        /\ bucket' \in [Subjects -> SUBSET Ids]
    BY <1>4 DEF Tells
  <2>2. /\ raised' \in Nat /\ raised <= raised' /\ raised' <= raised + 1 /\ raised' <= d
    BY <1>1, <1>2, <2>1
  <2>3. crosses => alert <= raised'
    BY <1>1, <1>2, <2>1
  <2>4. /\ d \in Nat /\ \A t \in Subjects : \A e \in bucket'[t] : e < d \/ (t = s /\ e = d)
        /\ \A i \in 1..Len(queue) : i \in 1..Len(queue') /\ queue'[i] = queue[i]
        /\ \A i \in 1..Len(queue') :
             \/ i \in 1..Len(queue)
             \/ /\ crosses /\ queue'[i].kind = "alert" /\ queue'[i].id = alert
             \/ queue'[i].kind = "detection" /\ queue'[i].id = d
        /\ \A a, e \in Ids : Lists(queue', rows', link', a, e) =>
             Lists(queue, rows, link, a, e) \/ (crosses /\ a = alert /\ e \in bucket'[s])
    BY <1>4, TellFacts
  <2>5. /\ \A x \in Ids : x <= raised => x <= raised'
        /\ \A x \in Ids : x <= Len(reported) => x <= d
        /\ \A x \in Ids : x < d => x <= d
    BY <1>2, <2>1, <2>2, <2>4
  <2>6. \A a \in Ids : rows'[a] # None \/ chosen'[a] # None => a <= raised'
    BY <1>1, <2>1, <2>5
  <2>7. \A i \in 1..Len(queue') :
          IF queue'[i].kind = "alert" THEN queue'[i].id <= raised' ELSE queue'[i].id <= Len(reported')
    <3> TAKE i \in 1..Len(queue')
    <3>1. CASE i \in 1..Len(queue)
      BY <1>1, <1>2, <2>1, <2>4, <2>5, <3>1
    <3>2. CASE crosses /\ queue'[i].kind = "alert" /\ queue'[i].id = alert
      BY <2>3, <3>2
    <3>3. CASE queue'[i].kind = "detection" /\ queue'[i].id = d
      BY <2>1, <2>4, <3>3
    <3> QED BY <2>4, <3>1, <3>2, <3>3
  <2>8. \A t \in Subjects : alertOf'[t] # None => alertOf'[t] <= raised'
    BY <1>1, <1>3, <2>1, <2>3, <2>5
  <2>9. \A t \in Subjects : \A e \in bucket'[t] : e <= Len(reported')
    BY <2>1, <2>4, <2>5
  <2>10. \A e \in written' : e <= Len(reported')
    BY <1>1, <1>3, <2>1, <2>5
  <2>11. ASSUME NEW a \in Ids, NEW e \in Ids, Lists(queue', rows', link', a, e)
         PROVE  a <= raised' /\ e <= Len(reported')
    BY <1>1, <2>1, <2>3, <2>4, <2>5, <2>9, <2>11
  <2> QED BY <2>1, <2>2, <2>6, <2>7, <2>8, <2>9, <2>10, <2>11 DEF BoundInv
<1>5. ASSUME Others, raised' = raised, reported' = reported,
             ~running' => queue' = <<>>,
             \A a \in Ids : rows'[a] # None \/ chosen'[a] # None =>
               rows[a] # None \/ chosen[a] # None \/ (\E e \in 1..Len(queue) : AlertAt(queue, e, a)),
             \A i \in 1..Len(queue') : \E j \in 1..Len(queue) : queue'[i] = queue[j],
             \A t \in Subjects : alertOf'[t] = alertOf[t] \/ alertOf'[t] = None,
             \A t \in Subjects : bucket'[t] = bucket[t] \/ bucket'[t] = {},
             \A d \in written' : d \in written \/ (\E i \in 1..Len(queue) : DetectionAt(queue, i, d))
      PROVE  BoundInv'
  <2>1. \A a \in Ids : rows'[a] # None \/ chosen'[a] # None => a <= raised
    BY <1>1, <1>5 DEF AlertAt
  <2>2. \A i \in 1..Len(queue') :
          IF queue'[i].kind = "alert" THEN queue'[i].id <= raised ELSE queue'[i].id <= Len(reported)
    BY <1>1, <1>5
  <2>3. \A t \in Subjects : alertOf'[t] # None => alertOf'[t] <= raised
    BY <1>1, <1>5
  <2>4. \A t \in Subjects : \A d \in bucket'[t] : d <= Len(reported)
    BY <1>1, <1>5
  <2>5. \A d \in written' : d <= Len(reported)
    BY <1>1, <1>5 DEF DetectionAt
  <2>6. \A a, d \in Ids : Lists(queue', rows', link', a, d) => a <= raised /\ d <= Len(reported)
    BY <1>1, <1>5, ListsShrink
  <2> QED BY <1>1, <1>5, <2>1, <2>2, <2>3, <2>4, <2>5, <2>6 DEF BoundInv
<1>6. ASSUME Shifted
      PROVE  /\ \A i \in 1..Len(queue') : \E j \in 1..Len(queue) : queue'[i] = queue[j]
             /\ 1 \in 1..Len(queue) /\ running
  <2>1. queue # <<>>
    BY <1>6, EmptySeq DEF Shifted
  <2> QED BY <1>1, <1>6, <2>1 DEF Shifted
<1>7. CASE StoresDetection
  <2>1. /\ Shifted /\ UNCHANGED <<reported, bucket, alertOf, raised, running, rows, chosen>>
        /\ written' = written \cup {queue[1].id} /\ queue[1].kind = "detection"
    BY <1>7 DEF StoresDetection, Aside
  <2>2. DetectionAt(queue, 1, queue[1].id)
    BY <2>1 DEF DetectionAt
  <2>3. \A d \in written' : d \in written \/ (\E i \in 1..Len(queue) : DetectionAt(queue, i, d))
    BY <1>6, <2>1, <2>2
  <2> QED BY <1>5, <1>6, <1>7, <2>1, <2>3 DEF Others
<1>8. CASE StoresAlert
  <2>1. /\ Shifted /\ UNCHANGED <<reported, bucket, alertOf, raised, running, chosen, written>>
    BY <1>8 DEF StoresAlert, Aside
  <2>2. \A a \in Ids :
          rows'[a] # None => rows[a] # None \/ (\E e \in 1..Len(queue) : AlertAt(queue, e, a))
    BY <1>8, RowFacts
  <2> QED BY <1>5, <1>6, <1>8, <2>1, <2>2 DEF Others
<1>9. CASE Loses
  <2>1. Shifted /\ UNCHANGED <<reported, bucket, alertOf, raised, running, rows, chosen, written>>
    BY <1>9 DEF Loses, Aside
  <2> QED BY <1>5, <1>6, <1>9, <2>1 DEF Others
<1>10. ASSUME NEW b \in Ids, NEW status \in Statuses, SetsStatus(b, status) PROVE BoundInv'
  <2>1. UNCHANGED <<reported, bucket, alertOf, raised, running, queue, written>>
    BY <1>10 DEF SetsStatus, Aside
  <2>2. \A a \in Ids : rows'[a] # None \/ chosen'[a] # None => rows[a] # None \/ chosen[a] # None
    BY <1>10, StatusFacts
  <2> QED BY <1>1, <1>5, <1>10, <2>1, <2>2 DEF Others
<1>11. CASE Quits
  BY <1>5, <1>11 DEF Quits, Others
<1>12. CASE Retains
  <2>1. /\ UNCHANGED <<reported, raised, queue, chosen, written>> /\ ~running
        /\ \A a \in Ids : rows'[a] # None => rows[a] # None
    BY <1>12 DEF Retains
  <2>2. \A t \in Subjects : (alertOf'[t] = alertOf[t] \/ alertOf'[t] = None)
                            /\ (bucket'[t] = bucket[t] \/ bucket'[t] = {})
    BY <1>12 DEF Retains, NoAlerts, NoDetections
  <2> QED BY <1>1, <1>5, <1>12, <2>1, <2>2 DEF Others
<1>13. CASE PathStays
  BY <1>13 DEF PathStays, BoundInv
<1> QED BY <1>4, <1>7, <1>8, <1>9, <1>10, <1>11, <1>12, <1>13, Effects

LEMMA OwnStep ==
  ASSUME TypeOK, BoundInv, OwnInv, TypeOK', [Next]_vars
  PROVE  OwnInv'
<1>1. /\ \A d, a, b \in Ids :
           Lists(queue, rows, link, a, d) /\ Lists(queue, rows, link, b, d) => a = b
      /\ running => \A t \in Subjects : \A d \in bucket[t] : \A a \in Ids :
           Lists(queue, rows, link, a, d) => alertOf[t] = a
      /\ \A t, u \in Subjects : \A d \in bucket[t] \cap bucket[u] : t = u
      /\ \A t, u \in Subjects : alertOf[t] = alertOf[u] /\ alertOf[t] # None => t = u
  BY DEF OwnInv
<1>2. /\ bucket \in [Subjects -> SUBSET Ids] /\ alertOf \in [Subjects -> Ids \cup {None}]
      /\ bucket' \in [Subjects -> SUBSET Ids]
      /\ Ids \subseteq Nat /\ None \notin Ids /\ raised \in Nat
  BY TypeFacts DEF TypeOK
<1>3. ASSUME NEW s, NEW d, NEW crosses, NEW alert, Tells(s, d, crosses, alert) PROVE OwnInv'
  <2>1. /\ s \in Subjects /\ alert \in Ids /\ d \in Ids
        /\ running /\ running' /\ bucket'[s] = bucket[s] \cup {d}
        /\ \A t \in Subjects \ {s} : \/ bucket'[t] = bucket[t] /\ alertOf'[t] = alertOf[t]
                                     \/ bucket'[t] = {} /\ alertOf'[t] = None
        /\ alertOf'[s] = IF crosses THEN alert ELSE alertOf[s]
        /\ alertOf[s] # None => alert = alertOf[s]
        /\ alertOf[s] = None => alert = raised + 1
    BY <1>3 DEF Tells
  <2>2. /\ \A t \in Subjects : d \notin bucket[t]
        /\ \A a \in Ids : ~Lists(queue, rows, link, a, d)
        /\ \A a, e \in Ids : Lists(queue', rows', link', a, e) =>
             Lists(queue, rows, link, a, e) \/ (crosses /\ a = alert /\ e \in bucket'[s])
    BY <1>3, TellFacts
\* What was listed for the subject's detections was the subject's alert.
  <2>3. ASSUME NEW e \in bucket'[s], NEW a \in Ids, Lists(queue, rows, link, a, e) PROVE a = alert
    <3>1. e \in bucket[s]
      BY <2>1, <2>2, <2>3
    <3>2. alertOf[s] = a
      BY <1>1, <2>1, <2>3, <3>1
    <3> QED BY <1>2, <2>1, <3>2
  <2>4. ASSUME NEW e \in Ids, NEW a \in Ids, NEW b \in Ids,
               Lists(queue', rows', link', a, e), Lists(queue', rows', link', b, e)
        PROVE  a = b
    <3>1. CASE Lists(queue, rows, link, a, e) /\ Lists(queue, rows, link, b, e)
      BY <1>1, <3>1
    <3>2. CASE a = alert /\ e \in bucket'[s]
      BY <2>2, <2>3, <2>4, <3>2
    <3>3. CASE b = alert /\ e \in bucket'[s]
      BY <2>2, <2>3, <2>4, <3>3
    <3> QED BY <2>2, <2>4, <3>1, <3>2, <3>3
  <2>5. \A t, u \in Subjects : \A e \in bucket'[t] \cap bucket'[u] : t = u
    <3> TAKE t, u \in Subjects
    <3> TAKE e \in bucket'[t] \cap bucket'[u]
    <3>1. CASE t = s /\ u # s
      BY <1>1, <2>1, <2>2, <3>1
    <3>2. CASE t # s /\ u = s
      BY <1>1, <2>1, <2>2, <3>2
    <3>3. CASE t # s /\ u # s
      BY <1>1, <2>1, <3>3
    <3> QED BY <3>1, <3>2, <3>3
  <2>6. ASSUME NEW t \in Subjects, NEW e \in bucket'[t], NEW a \in Ids,
               Lists(queue', rows', link', a, e)
        PROVE  alertOf'[t] = a
    <3>1. e \in Ids
      BY <1>2
    <3>2. CASE t = s
      <4>1. a = alert
        BY <2>2, <2>3, <2>6, <3>1, <3>2
      <4>2. CASE crosses
        BY <2>1, <3>2, <4>1, <4>2
      <4>3. CASE ~crosses
        <5>1. Lists(queue, rows, link, a, e)
          BY <2>2, <2>6, <3>1, <4>3
        <5>2. e \in bucket[s]
          BY <2>1, <2>2, <2>6, <3>2, <5>1
        <5> QED BY <1>1, <2>1, <3>2, <4>3, <5>1, <5>2
      <4> QED BY <4>2, <4>3
    <3>3. CASE t # s
      <4>1. e \in bucket[t] /\ alertOf'[t] = alertOf[t]
        BY <2>1, <2>6, <3>3
      <4>2. e \notin bucket'[s]
        BY <2>1, <2>5, <2>6, <3>3
      <4> QED BY <1>1, <2>1, <2>2, <2>6, <3>1, <4>1, <4>2
    <3> QED BY <3>2, <3>3
  <2>7. ASSUME NEW t \in Subjects \ {s}, alertOf'[t] # None PROVE alertOf'[t] # alertOf'[s]
    <3>1. alertOf'[t] = alertOf[t] /\ alertOf[t] \in Ids /\ alertOf[t] <= raised
      BY <1>2, <2>1, <2>7 DEF BoundInv
    <3>2. alertOf[t] # alertOf[s]
      BY <1>1, <2>1, <2>7, <3>1
    <3>3. alertOf[t] # raised + 1
      BY <1>2, <3>1
    <3> QED BY <2>1, <3>1, <3>2, <3>3
  <2>8. \A t, u \in Subjects : alertOf'[t] = alertOf'[u] /\ alertOf'[t] # None => t = u
    <3> TAKE t, u \in Subjects
    <3>1. CASE t = s /\ u # s
      BY <2>7, <3>1
    <3>2. CASE t # s /\ u = s
      BY <2>7, <3>2
    <3>3. CASE t # s /\ u # s
      BY <1>1, <2>1, <3>3
    <3> QED BY <3>1, <3>2, <3>3
  <2> QED BY <2>4, <2>5, <2>6, <2>8 DEF OwnInv
<1>4. CASE Others
  <2>1. \A a, d \in Ids : Lists(queue', rows', link', a, d) => Lists(queue, rows, link, a, d)
    BY <1>4, ListsShrink
  <2>2. \/ bucket' = bucket /\ alertOf' = alertOf /\ (running' => running)
        \/ bucket' = NoDetections /\ alertOf' = NoAlerts
    BY <1>4 DEF Others, StoresDetection, StoresAlert, Loses, SetsStatus, Quits, Retains, Aside
  <2>3. CASE bucket' = bucket /\ alertOf' = alertOf /\ (running' => running)
    BY <1>1, <1>2, <2>1, <2>3 DEF OwnInv
  <2>4. CASE bucket' = NoDetections /\ alertOf' = NoAlerts
    <3>1. \A t \in Subjects : bucket'[t] = {} /\ alertOf'[t] = None
      BY <2>4 DEF NoDetections, NoAlerts
    <3> QED BY <1>1, <2>1, <3>1 DEF OwnInv
  <2> QED BY <2>2, <2>3, <2>4
<1>5. CASE PathStays
  BY <1>5 DEF PathStays, OwnInv
<1> QED BY <1>3, <1>4, <1>5, Effects DEF Others

\* Taking the first item leaves the last known of an alert as it was, if what was taken
\* is stored.
LEMMA LatestShifts ==
  ASSUME Shifted, NEW a, NEW detections, IsLatest(queue, rows, a, detections),
         AlertAt(queue, 1, a) => rows'[a] # None /\ rows'[a].detections = queue[1].detections,
         ~AlertAt(queue, 1, a) => rows'[a] = rows[a]
  PROVE  IsLatest(queue', rows', a, detections)
<1>1. /\ Len(queue) \in Nat /\ Len(queue) >= 1 /\ Len(queue') = Len(queue) - 1
      /\ \A i \in 1..Len(queue') : i + 1 \in 1..Len(queue) /\ queue'[i] = queue[i + 1]
      /\ \A i \in 1..Len(queue) : i # 1 => i - 1 \in 1..Len(queue') /\ queue'[i - 1] = queue[i]
  BY DEF Shifted
<1>2. CASE \A j \in 1..Len(queue) : ~AlertAt(queue, j, a)
  <2>1. \A j \in 1..Len(queue') : ~AlertAt(queue', j, a)
    BY <1>1, <1>2 DEF AlertAt
  <2>2. rows'[a] = rows[a]
    <3>1. 1 \in 1..Len(queue)
      BY <1>1
    <3> QED BY <1>2, <3>1
  <2>3. rows[a] # None /\ rows[a].detections = detections
    BY <1>2 DEF IsLatest
  <2> QED BY <2>1, <2>2, <2>3 DEF IsLatest
<1>3. ASSUME NEW i \in 1..Len(queue), AlertAt(queue, i, a), queue[i].detections = detections,
             \A j \in (i + 1)..Len(queue) : ~AlertAt(queue, j, a)
      PROVE  IsLatest(queue', rows', a, detections)
  <2>1. CASE i = 1
    <3>1. \A j \in 1..Len(queue') : j + 1 \in (i + 1)..Len(queue)
      BY <1>1, <2>1
    <3>2. \A j \in 1..Len(queue') : ~AlertAt(queue', j, a)
      BY <1>1, <1>3, <3>1 DEF AlertAt
    <3> QED BY <1>3, <2>1, <3>2 DEF IsLatest
  <2>2. CASE i # 1
    <3>1. \A j \in ((i - 1) + 1)..Len(queue') : j + 1 \in (i + 1)..Len(queue) /\ j \in 1..Len(queue')
      BY <1>1, <2>2
    <3>2. \A j \in ((i - 1) + 1)..Len(queue') : ~AlertAt(queue', j, a)
      BY <1>1, <1>3, <3>1 DEF AlertAt
    <3>3. i - 1 \in 1..Len(queue') /\ queue'[i - 1] = queue[i]
      BY <1>1, <2>2
    <3>4. AlertAt(queue', i - 1, a) /\ queue'[i - 1].detections = detections
      BY <1>3, <3>3 DEF AlertAt
    <3> QED BY <3>2, <3>3, <3>4 DEF IsLatest
  <2> QED BY <2>1, <2>2
<1> QED BY <1>2, <1>3 DEF IsLatest

LEMMA UpdateStep ==
  ASSUME TypeOK, BoundInv, OwnInv, UpdateInv, [Next]_vars
  PROVE  UpdateInv'
<1>1. running => \A t \in Subjects : {reported[d] : d \in bucket[t]} \in Raising =>
        /\ alertOf[t] # None
        /\ alertOf[t] \notin lost => IsLatest(queue, rows, alertOf[t], bucket[t])
  BY DEF UpdateInv
<1>2. /\ bucket \in [Subjects -> SUBSET Ids] /\ alertOf \in [Subjects -> Ids \cup {None}]
      /\ Len(queue) \in Nat /\ Len(reported) \in Nat /\ raised \in Nat
      /\ Ids \subseteq Nat /\ None \notin Ids
  BY TypeFacts DEF TypeOK
<1>3. {} \notin Raising
  BY DetectionAssumption
<1>4. ASSUME NEW s, NEW d, NEW crosses, NEW alert, Tells(s, d, crosses, alert) PROVE UpdateInv'
  <2>1. /\ s \in Subjects /\ alert \in Ids /\ running
        /\ UNCHANGED <<rows, lost>>
        /\ \A e \in 1..Len(reported) : reported'[e] = reported[e]
        /\ \A t \in Subjects \ {s} : \/ bucket'[t] = bucket[t] /\ alertOf'[t] = alertOf[t]
                                     \/ bucket'[t] = {} /\ alertOf'[t] = None
        /\ alertOf'[s] = IF crosses THEN alert ELSE alertOf[s]
        /\ crosses <=> {reported'[e] : e \in bucket'[s]} \in Raising
        /\ alertOf[s] # None => alert = alertOf[s]
        /\ alertOf[s] = None => alert = raised + 1
        /\ crosses => /\ Len(queue') = Len(queue) + 2
                      /\ queue'[Len(queue) + 1] = AlertItem(alert, bucket'[s])
                      /\ queue'[Len(queue) + 2] = DetectionItem(d)
    BY <1>4 DEF Tells
  <2>2. /\ \A i \in 1..Len(queue) : i \in 1..Len(queue') /\ queue'[i] = queue[i]
        /\ \A i \in 1..Len(queue') :
             \/ i \in 1..Len(queue)
             \/ queue'[i].kind = "alert" /\ queue'[i].id = alert
             \/ queue'[i].kind = "detection"
    BY <1>4, TellFacts
  <2>3. ASSUME crosses
        PROVE  alertOf'[s] # None /\ IsLatest(queue', rows', alertOf'[s], bucket'[s])
    <3>1. Len(queue) + 1 \in 1..Len(queue')
      BY <1>2, <2>1, <2>3
    <3>2. AlertAt(queue', Len(queue) + 1, alert) /\ queue'[Len(queue) + 1].detections = bucket'[s]
      BY <2>1, <2>3 DEF AlertAt, AlertItem
    <3>3. \A j \in ((Len(queue) + 1) + 1)..Len(queue') : j = Len(queue) + 2
      BY <1>2, <2>1, <2>3
    <3>4. \A j \in ((Len(queue) + 1) + 1)..Len(queue') : ~AlertAt(queue', j, alert)
      BY <2>1, <2>3, <3>3 DEF AlertAt, DetectionItem
    <3>5. IsLatest(queue', rows', alert, bucket'[s])
      BY <3>1, <3>2, <3>4 DEF IsLatest
    <3> QED BY <1>2, <2>1, <2>3, <3>5
  <2>4. ASSUME NEW t \in Subjects \ {s}, {reported'[e] : e \in bucket'[t]} \in Raising
        PROVE  /\ alertOf'[t] # None
               /\ alertOf'[t] \notin lost => IsLatest(queue', rows', alertOf'[t], bucket'[t])
    <3>1. bucket'[t] = bucket[t] /\ alertOf'[t] = alertOf[t]
      <4>1. CASE bucket'[t] = {}
        <5>1. {reported'[e] : e \in bucket'[t]} = {}
          BY <4>1
        <5> QED BY <1>3, <2>4, <5>1
      <4> QED BY <2>1, <4>1
    <3>2. {reported'[e] : e \in bucket'[t]} = {reported[e] : e \in bucket[t]}
      <4>1. \A e \in bucket[t] : e \in 1..Len(reported)
        BY <1>2 DEF BoundInv, Ids
      <4> QED BY <2>1, <3>1, <4>1
    <3>3. /\ alertOf[t] # None
          /\ alertOf[t] \notin lost => IsLatest(queue, rows, alertOf[t], bucket[t])
      BY <1>1, <2>1, <2>4, <3>2
    <3>4. alertOf[t] # alert
      <4>1. alertOf[t] # alertOf[s]
        BY <2>1, <3>3 DEF OwnInv
      <4>2. alertOf[t] # raised + 1
        <5>1. alertOf[t] \in Nat /\ alertOf[t] <= raised
          BY <1>2, <3>3 DEF BoundInv
        <5> QED BY <1>2, <5>1
      <4> QED BY <2>1, <4>1, <4>2
    <3>5. ASSUME IsLatest(queue, rows, alertOf[t], bucket[t])
          PROVE  IsLatest(queue', rows', alertOf[t], bucket[t])
      <4>1. \A j \in 1..Len(queue') : AlertAt(queue', j, alertOf[t]) =>
              j \in 1..Len(queue) /\ AlertAt(queue, j, alertOf[t])
        BY <2>2, <3>4 DEF AlertAt
      <4>2. ASSUME NEW i \in 1..Len(queue), AlertAt(queue, i, alertOf[t]),
                   queue[i].detections = bucket[t],
                   \A j \in (i + 1)..Len(queue) : ~AlertAt(queue, j, alertOf[t])
            PROVE  IsLatest(queue', rows', alertOf[t], bucket[t])
        <5>1. i \in 1..Len(queue') /\ AlertAt(queue', i, alertOf[t]) /\ queue'[i].detections = bucket[t]
          BY <2>2, <4>2 DEF AlertAt
        <5>2. \A j \in (i + 1)..Len(queue') : j \in 1..Len(queue') /\ j > i
          BY <4>2
        <5>3. \A j \in 1..Len(queue) : j > i => j \in (i + 1)..Len(queue)
          BY <1>2, <4>2
        <5>4. \A j \in (i + 1)..Len(queue') : ~AlertAt(queue', j, alertOf[t])
          BY <4>1, <4>2, <5>2, <5>3
        <5> QED BY <5>1, <5>4 DEF IsLatest
      <4>3. CASE /\ \A j \in 1..Len(queue) : ~AlertAt(queue, j, alertOf[t])
                 /\ rows[alertOf[t]] # None /\ rows[alertOf[t]].detections = bucket[t]
        BY <2>1, <4>1, <4>3 DEF IsLatest
      <4> QED BY <3>5, <4>2, <4>3 DEF IsLatest
    <3> QED BY <3>1, <3>3, <3>5
  <2>5. \A t \in Subjects : {reported'[e] : e \in bucket'[t]} \in Raising =>
          /\ alertOf'[t] # None
          /\ alertOf'[t] \notin lost' => IsLatest(queue', rows', alertOf'[t], bucket'[t])
    <3> TAKE t \in Subjects
    <3>1. CASE t = s
      BY <2>1, <2>3, <3>1
    <3>2. CASE t # s
      BY <2>1, <2>4, <3>2
    <3> QED BY <3>1, <3>2
  <2> QED BY <2>5 DEF UpdateInv
\* A subject's alert stays the last that is known of it when only the queue moves on.
<1>5. ASSUME UNCHANGED <<reported, bucket, alertOf, running>>, lost \subseteq lost',
             \A t \in Subjects : alertOf[t] \in Ids /\ alertOf[t] \notin lost' /\ running
               /\ IsLatest(queue, rows, alertOf[t], bucket[t]) =>
                    IsLatest(queue', rows', alertOf[t], bucket[t])
      PROVE  UpdateInv'
  <2>1. \A t \in Subjects : alertOf[t] # None => alertOf[t] \in Ids
    BY <1>2
  <2> QED BY <1>1, <1>5, <2>1 DEF UpdateInv
<1>6. CASE StoresDetection
  <2>1. /\ Shifted /\ UNCHANGED <<reported, bucket, alertOf, running, rows, lost>>
        /\ \A a \in Ids : ~AlertAt(queue, 1, a)
    BY <1>6 DEF StoresDetection, Aside, AlertAt
  <2> QED BY <1>5, <2>1, LatestShifts
<1>7. CASE StoresAlert
  <2>1. Shifted /\ UNCHANGED <<reported, bucket, alertOf, running, lost>>
    BY <1>7 DEF StoresAlert, Aside
  <2>2. \A a \in Ids :
          /\ AlertAt(queue, 1, a) => rows'[a] # None /\ rows'[a].detections = queue[1].detections
          /\ ~AlertAt(queue, 1, a) => rows'[a] = rows[a]
    BY <1>7, RowFacts DEF AlertAt
  <2>3. \A t \in Subjects : alertOf[t] \in Ids /\ IsLatest(queue, rows, alertOf[t], bucket[t]) =>
          IsLatest(queue', rows', alertOf[t], bucket[t])
    BY <2>1, <2>2, LatestShifts
  <2> QED BY <1>5, <2>1, <2>3
<1>8. CASE Loses
  <2>1. /\ Shifted /\ UNCHANGED <<reported, bucket, alertOf, running, rows>>
        /\ lost' = IF queue[1].kind = "alert" THEN lost \cup {queue[1].id} ELSE lost
    BY <1>8 DEF Loses, Aside
  <2>2. \A a \in Ids : a \notin lost' => ~AlertAt(queue, 1, a)
    BY <2>1 DEF AlertAt
  <2>3. \A t \in Subjects : alertOf[t] \in Ids /\ alertOf[t] \notin lost'
          /\ IsLatest(queue, rows, alertOf[t], bucket[t]) =>
               IsLatest(queue', rows', alertOf[t], bucket[t])
    BY <2>1, <2>2, LatestShifts
  <2> QED BY <1>5, <2>1, <2>3
<1>9. ASSUME NEW b \in Ids, NEW status \in Statuses, SetsStatus(b, status) PROVE UpdateInv'
  <2>1. UNCHANGED <<reported, bucket, alertOf, running, queue, lost>>
    BY <1>9 DEF SetsStatus, Aside
  <2>2. \A a \in Ids : rows[a] # None => rows'[a] # None /\ rows'[a].detections = rows[a].detections
    BY <1>9, StatusFacts
  <2>3. \A t \in Subjects : alertOf[t] \in Ids /\ IsLatest(queue, rows, alertOf[t], bucket[t]) =>
          IsLatest(queue', rows', alertOf[t], bucket[t])
    BY <2>1, <2>2 DEF IsLatest
  <2> QED BY <1>5, <2>1, <2>3
<1>10. CASE Quits
  BY <1>10 DEF Quits, UpdateInv
<1>11. CASE Retains
  <2>1. CASE UNCHANGED <<bucket, alertOf, running>>
    BY <1>11, <2>1 DEF Retains, UpdateInv
  <2>2. CASE bucket' = NoDetections
    <3>1. \A t \in Subjects : {reported'[d] : d \in bucket'[t]} = {}
      BY <2>2 DEF NoDetections
    <3> QED BY <1>3, <3>1 DEF UpdateInv
  <2> QED BY <1>11, <2>1, <2>2 DEF Retains
<1>12. CASE PathStays
  BY <1>12 DEF PathStays, UpdateInv
<1> QED BY <1>4, <1>6, <1>7, <1>8, <1>9, <1>10, <1>11, <1>12, Effects

LEMMA ChosenStep ==
  ASSUME TypeOK, BoundInv, ChosenInv, [Next]_vars
  PROVE  ChosenInv'
<1>1. /\ \A a \in Ids : rows[a] # None /\ chosen[a] \in Terminal => rows[a].status = chosen[a]
      /\ running => \A a \in Ids : rows[a] = None /\ chosen[a] # None =>
           /\ \A i \in 1..Len(queue) : ~AlertAt(queue, i, a)
           /\ \A t \in Subjects : alertOf[t] # a
  BY DEF ChosenInv
<1>2. /\ alertOf \in [Subjects -> Ids \cup {None}] /\ Ids \subseteq Nat /\ None \notin Ids
      /\ raised \in Nat /\ Len(queue) \in Nat
  BY TypeFacts DEF TypeOK
<1>3. ASSUME NEW s, NEW d, NEW crosses, NEW alert, Tells(s, d, crosses, alert) PROVE ChosenInv'
  <2>1. /\ s \in Subjects /\ running /\ UNCHANGED <<rows, chosen>>
        /\ \A t \in Subjects \ {s} : alertOf'[t] = alertOf[t] \/ alertOf'[t] = None
        /\ alertOf'[s] = IF crosses THEN alert ELSE alertOf[s]
        /\ alertOf[s] # None => alert = alertOf[s]
        /\ alertOf[s] = None => alert = raised + 1
    BY <1>3 DEF Tells
  <2>2. /\ \A i \in 1..Len(queue) : queue'[i] = queue[i]
        /\ \A i \in 1..Len(queue') :
             \/ i \in 1..Len(queue)
             \/ queue'[i].kind = "alert" /\ queue'[i].id = alert
             \/ queue'[i].kind = "detection"
    BY <1>3, TellFacts
  <2>3. ASSUME NEW a \in Ids, rows[a] = None, chosen[a] # None PROVE a # alert
    <3>1. a <= raised /\ a \in Nat
      BY <1>2, <2>3 DEF BoundInv
    <3>2. a # alertOf[s]
      BY <1>1, <2>1, <2>3
    <3>3. a # raised + 1
      BY <1>2, <3>1
    <3> QED BY <2>1, <3>2, <3>3
  <2>4. ASSUME NEW a \in Ids, rows[a] = None, chosen[a] # None
        PROVE  /\ \A i \in 1..Len(queue') : ~AlertAt(queue', i, a)
               /\ \A t \in Subjects : alertOf'[t] # a
    <3>1. \A i \in 1..Len(queue') : ~AlertAt(queue', i, a)
      BY <1>1, <2>1, <2>2, <2>3, <2>4 DEF AlertAt
    <3>2. \A t \in Subjects : alertOf'[t] # a
      BY <1>1, <1>2, <2>1, <2>3, <2>4
    <3> QED BY <3>1, <3>2
  <2> QED BY <1>1, <2>1, <2>4 DEF ChosenInv
<1>4. ASSUME Shifted, NEW a, \A i \in 1..Len(queue) : ~AlertAt(queue, i, a)
      PROVE  \A i \in 1..Len(queue') : ~AlertAt(queue', i, a)
  BY <1>4 DEF Shifted, AlertAt
<1>5. CASE StoresDetection \/ Loses
  <2>1. Shifted /\ UNCHANGED <<alertOf, running, rows, chosen>>
    BY <1>5 DEF StoresDetection, Loses, Aside
  <2> QED BY <1>1, <1>4, <2>1 DEF ChosenInv
<1>6. CASE StoresAlert
  <2>1. Shifted /\ UNCHANGED <<alertOf, running, chosen>>
    BY <1>6 DEF StoresAlert, Aside
  <2>2. running
    <3>1. queue # <<>>
      BY <2>1, EmptySeq DEF Shifted
    <3> QED BY <3>1 DEF BoundInv
  <2> DEFINE a == queue[1].id
  <2>3. /\ a \in Ids /\ 1 \in 1..Len(queue) /\ AlertAt(queue, 1, a)
        /\ \A b \in Ids \ {a} : rows'[b] = rows[b]
        /\ rows'[a] # None /\ rows'[a].status = StatusAfter(rows[a])
    BY <1>6, RowFacts
  <2> HIDE DEF a
  <2>4. ASSUME chosen[a] \in Terminal PROVE rows'[a].status = chosen[a]
    <3>1. rows[a] # None
      <4>1. chosen[a] # None
        BY <2>4, DetectionAssumption DEF Terminal, Statuses
      <4> QED BY <1>1, <2>2, <2>3, <4>1
    <3>2. rows[a].status = chosen[a]
      BY <1>1, <2>3, <2>4, <3>1
    <3> QED BY <2>3, <2>4, <3>1, <3>2 DEF StatusAfter
  <2>5. \A b \in Ids : rows'[b] # None /\ chosen[b] \in Terminal => rows'[b].status = chosen[b]
    BY <1>1, <2>3, <2>4
  <2>6. \A b \in Ids : rows'[b] = None => rows[b] = None
    BY <2>3
  <2> QED BY <1>1, <1>4, <2>1, <2>2, <2>5, <2>6 DEF ChosenInv
<1>7. ASSUME NEW b \in Ids, NEW status \in Statuses, SetsStatus(b, status) PROVE ChosenInv'
  <2>1. UNCHANGED <<alertOf, running, queue>>
    BY <1>7 DEF SetsStatus, Aside
  <2>2. \A a \in Ids : /\ rows'[a] = None <=> rows[a] = None
                       /\ a # b => rows'[a] = rows[a] /\ chosen'[a] = chosen[a]
                       /\ a = b => rows'[a].status = chosen'[a] /\ rows[a] # None
    BY <1>7, StatusFacts
  <2> QED BY <1>1, <2>1, <2>2 DEF ChosenInv
<1>8. CASE Quits
  BY <1>1, <1>8 DEF Quits, ChosenInv
<1>9. CASE Retains
  <2>1. /\ ~running /\ queue' = <<>> /\ chosen' = chosen
        /\ \A a \in Ids : rows'[a] # None => rows'[a] = rows[a]
    BY <1>9 DEF Retains, BoundInv
  <2>2. \A i \in 1..Len(queue') : FALSE
    BY <2>1, EmptySeq
  <2>3. running' => \A t \in Subjects : alertOf'[t] = None
    BY <1>9, <2>1 DEF Retains, NoAlerts
  <2> QED BY <1>1, <1>2, <2>1, <2>2, <2>3 DEF ChosenInv
<1>10. CASE PathStays
  BY <1>10 DEF PathStays, ChosenInv
<1> QED BY <1>3, <1>5, <1>6, <1>7, <1>8, <1>9, <1>10, Effects

LEMMA KeptStep ==
  ASSUME TypeOK, BoundInv, KeptInv, [Next]_vars
  PROVE  KeptInv'
<1>1. /\ running => \A t \in Subjects : bucket[t] \cap written \subseteq stored
      /\ \A i \in 1..Len(queue) :
           queue[i].kind = "alert" => queue[i].detections \cap written \subseteq stored
  BY DEF KeptInv
<1>2. ASSUME NEW s, NEW d, NEW crosses, NEW alert, Tells(s, d, crosses, alert) PROVE KeptInv'
  <2>1. /\ s \in Subjects /\ running /\ UNCHANGED <<stored, written>>
        /\ bucket'[s] = bucket[s] \cup {d}
        /\ \A t \in Subjects \ {s} : bucket'[t] = bucket[t] \/ bucket'[t] = {}
    BY <1>2 DEF Tells
  <2>2. /\ d \notin written
        /\ \A i \in 1..Len(queue) : queue'[i] = queue[i]
        /\ \A i \in 1..Len(queue') :
             \/ i \in 1..Len(queue)
             \/ queue'[i].kind = "alert" /\ queue'[i].detections = bucket'[s]
             \/ queue'[i].kind = "detection"
    BY <1>2, TellFacts
  <2>3. \A t \in Subjects : bucket'[t] \cap written \subseteq stored
    BY <1>1, <2>1, <2>2
  <2>4. \A i \in 1..Len(queue') :
          queue'[i].kind = "alert" => queue'[i].detections \cap written \subseteq stored
    <3> TAKE i \in 1..Len(queue')
    <3>1. CASE i \in 1..Len(queue)
      BY <1>1, <2>2, <3>1
    <3>2. CASE i \notin 1..Len(queue)
      BY <2>1, <2>2, <2>3, <3>2
    <3> QED BY <3>1, <3>2
  <2> QED BY <2>1, <2>3, <2>4 DEF KeptInv
<1>3. CASE StoresDetection \/ StoresAlert \/ Loses
  <2>1. /\ Shifted /\ UNCHANGED <<bucket, running>> /\ stored \subseteq stored'
        /\ written' \ written \subseteq stored'
    BY <1>3 DEF StoresDetection, StoresAlert, Loses, Aside
  <2>2. \A i \in 1..Len(queue') : i + 1 \in 1..Len(queue) /\ queue'[i] = queue[i + 1]
    BY <2>1 DEF Shifted
  <2>3. \A i \in 1..Len(queue') :
          queue'[i].kind = "alert" => queue'[i].detections \cap written' \subseteq stored'
    BY <1>1, <2>1, <2>2
  <2>4. running => \A t \in Subjects : bucket[t] \cap written' \subseteq stored'
    BY <1>1, <2>1
  <2> QED BY <2>1, <2>3, <2>4 DEF KeptInv
<1>4. ASSUME NEW b \in Ids, NEW status \in Statuses, SetsStatus(b, status) PROVE KeptInv'
  BY <1>4 DEF SetsStatus, Aside, KeptInv
<1>5. CASE Quits
  BY <1>5 DEF Quits, KeptInv
<1>6. CASE Retains
  <2>1. /\ ~running /\ queue' = <<>>
    BY <1>6 DEF Retains, BoundInv
  <2>2. \A i \in 1..Len(queue') : FALSE
    BY <2>1, EmptySeq
  <2>3. running' => \A t \in Subjects : bucket'[t] = {}
    BY <1>6, <2>1 DEF Retains, NoDetections
  <2> QED BY <2>2, <2>3 DEF KeptInv
<1>7. CASE PathStays
  BY <1>7 DEF PathStays, KeptInv
<1> QED BY <1>2, <1>3, <1>4, <1>5, <1>6, <1>7, Effects

LEMMA EvidenceStep ==
  ASSUME TypeOK, BoundInv, OwnInv, KeptInv, EvidenceInv, [Next]_vars
  PROVE  EvidenceInv'
<1>1. /\ \A a \in Ids : rows[a] # None => \A d \in rows[a].detections \cap written :
           Superseded(d, rows[a].detections) => d \in stored /\ link[d] = a
      /\ \A a \in Ids : rows[a] # None => \A d \in rows[a].detections :
           Superseded(d, rows[a].detections) => \A i \in 1..Len(queue) : ~DetectionAt(queue, i, d)
      /\ \A i \in 1..Len(queue) : queue[i].kind = "alert" => \A d \in queue[i].detections :
           Superseded(d, queue[i].detections) =>
             \A j \in (i + 1)..Len(queue) : ~DetectionAt(queue, j, d)
  BY DEF EvidenceInv, EvidenceIsKept, Superseded
<1>2. /\ rows \in [Ids -> Row \cup {None}] /\ bucket \in [Subjects -> SUBSET Ids]
      /\ Ids \subseteq Nat /\ None \notin Ids /\ Len(queue) \in Nat
      /\ written \subseteq Ids
  BY TypeFacts DEF TypeOK
<1>3. \A a \in Ids : rows[a] # None => rows[a].detections \subseteq Ids
  BY <1>2 DEF Row
<1>4. ASSUME \A a \in Ids : rows'[a] # None => \A d \in rows'[a].detections \cap written' :
               Superseded(d, rows'[a].detections) => d \in stored' /\ link'[d] = a,
             \A a \in Ids : rows'[a] # None => \A d \in rows'[a].detections :
               Superseded(d, rows'[a].detections) =>
                 \A i \in 1..Len(queue') : ~DetectionAt(queue', i, d),
             \A i \in 1..Len(queue') : queue'[i].kind = "alert" => \A d \in queue'[i].detections :
               Superseded(d, queue'[i].detections) =>
                 \A j \in (i + 1)..Len(queue') : ~DetectionAt(queue', j, d)
      PROVE  EvidenceInv'
  BY <1>4 DEF EvidenceInv, EvidenceIsKept, Superseded
<1>5. ASSUME NEW s, NEW d, NEW crosses, NEW alert, Tells(s, d, crosses, alert) PROVE EvidenceInv'
  <2>1. /\ UNCHANGED <<stored, link, rows, written>> /\ bucket'[s] = bucket[s] \cup {d}
        /\ s \in Subjects /\ d = Len(reported) + 1
    BY <1>5 DEF Tells
  <2>2. /\ d \in Nat
        /\ \A e \in bucket'[s] : e < d \/ e = d
        /\ \A a \in Ids : ~Lists(queue, rows, link, a, d)
        /\ \A i \in 1..Len(queue) : i \in 1..Len(queue') /\ queue'[i] = queue[i]
        /\ \A i \in 1..Len(queue') :
             \/ i \in 1..Len(queue)
             \/ i = Len(queue) + 1 /\ queue'[i].kind = "alert" /\ queue'[i].detections = bucket'[s]
             \/ i > Len(queue) /\ queue'[i].kind = "detection" /\ queue'[i].id = d
    BY <1>5, <2>1, TellFacts
  <2>3. \A a \in Ids : rows[a] # None => d \notin rows[a].detections
    BY <2>2 DEF Lists
  <2>4. ASSUME NEW a \in Ids, rows[a] # None, NEW e \in rows[a].detections,
               Superseded(e, rows[a].detections), NEW i \in 1..Len(queue')
        PROVE  ~DetectionAt(queue', i, e)
    <3>1. CASE i \in 1..Len(queue)
      BY <1>1, <2>2, <2>4, <3>1 DEF DetectionAt
    <3>2. CASE i \notin 1..Len(queue)
      BY <2>2, <2>3, <2>4, <3>2 DEF DetectionAt
    <3> QED BY <3>1, <3>2
  <2>5. ASSUME NEW i \in 1..Len(queue'), queue'[i].kind = "alert", NEW e \in queue'[i].detections,
               Superseded(e, queue'[i].detections), NEW j \in (i + 1)..Len(queue')
        PROVE  ~DetectionAt(queue', j, e)
    <3>1. j \in 1..Len(queue') /\ j > i
      BY <2>5
\* The new detection is superseded by none, and no alert that was queued before has it.
    <3>2. e # d
      <4>1. CASE i \in 1..Len(queue)
        <5>1. queue[i].kind = "alert" /\ e \in queue[i].detections
          BY <2>2, <2>5, <4>1
        <5>2. AlertAt(queue, i, queue[i].id) /\ queue[i].id \in Ids
          BY <4>1, <5>1, TypeFacts DEF AlertAt
        <5>3. Lists(queue, rows, link, queue[i].id, e)
          BY <4>1, <5>1, <5>2 DEF Lists
        <5> QED BY <2>2, <5>2, <5>3
      <4>2. CASE i \notin 1..Len(queue)
        <5>1. queue'[i].detections = bucket'[s]
          BY <2>2, <2>5, <4>2
        <5>2. PICK x \in bucket'[s] : e < x
          BY <2>5, <5>1 DEF Superseded
        <5>3. x \in Nat /\ (x < d \/ x = d)
          BY <1>2, <2>1, <2>2, <5>2
        <5>4. ~(d < x)
          BY ONLY <2>2, <5>3
        <5> QED BY <5>2, <5>4
      <4> QED BY <4>1, <4>2
    <3>3. CASE j \in 1..Len(queue)
      <4>1. i \in 1..Len(queue) /\ j \in (i + 1)..Len(queue)
        BY <1>2, <2>5, <3>1, <3>3
      <4> QED BY <1>1, <2>2, <2>5, <3>3, <4>1 DEF DetectionAt
    <3>4. CASE j \notin 1..Len(queue)
      BY <2>2, <3>1, <3>2, <3>4 DEF DetectionAt
    <3> QED BY <3>3, <3>4
  <2> QED BY <1>1, <1>4, <2>1, <2>4, <2>5
\* The last conjunct when the queue has moved on.
<1>6. ASSUME Shifted
      PROVE  /\ \A i \in 1..Len(queue') : queue'[i].kind = "alert" => \A d \in queue'[i].detections :
                  Superseded(d, queue'[i].detections) =>
                    \A j \in (i + 1)..Len(queue') : ~DetectionAt(queue', j, d)
             /\ \A d : (\A i \in 1..Len(queue) : ~DetectionAt(queue, i, d)) =>
                         \A i \in 1..Len(queue') : ~DetectionAt(queue', i, d)
             /\ 1 \in 1..Len(queue)
             /\ queue[1].kind = "alert" => \A d \in queue[1].detections :
                  Superseded(d, queue[1].detections) =>
                    \A i \in 1..Len(queue') : ~DetectionAt(queue', i, d)
  <2>1. /\ Len(queue) \in Nat /\ Len(queue) >= 1 /\ Len(queue') = Len(queue) - 1
        /\ \A i \in 1..Len(queue') : i + 1 \in 1..Len(queue) /\ queue'[i] = queue[i + 1]
    BY <1>6 DEF Shifted
  <2>2. ASSUME NEW i \in 1..Len(queue'), NEW j \in (i + 1)..Len(queue')
        PROVE  j \in 1..Len(queue') /\ j + 1 \in ((i + 1) + 1)..Len(queue)
    BY <2>1, <2>2
  <2>3. \A j \in 1..Len(queue') : j + 1 \in (1 + 1)..Len(queue)
    BY <2>1
  <2>4. ASSUME NEW i \in 1..Len(queue'), queue'[i].kind = "alert", NEW d \in queue'[i].detections,
               Superseded(d, queue'[i].detections), NEW j \in (i + 1)..Len(queue')
        PROVE  ~DetectionAt(queue', j, d)
    <3>1. /\ i + 1 \in 1..Len(queue) /\ queue'[i] = queue[i + 1]
          /\ queue'[j] = queue[j + 1] /\ j + 1 \in ((i + 1) + 1)..Len(queue)
      BY <2>1, <2>2, <2>4
    <3>2. ~DetectionAt(queue, j + 1, d)
      BY <1>1, <2>4, <3>1
    <3> QED BY <3>1, <3>2 DEF DetectionAt
  <2>5. 1 \in 1..Len(queue)
    BY <2>1
  <2>6. ASSUME queue[1].kind = "alert", NEW d \in queue[1].detections,
               Superseded(d, queue[1].detections), NEW i \in 1..Len(queue')
        PROVE  ~DetectionAt(queue', i, d)
    <3>1. ~DetectionAt(queue, i + 1, d)
      BY <1>1, <2>3, <2>5, <2>6
    <3> QED BY <2>1, <2>6, <3>1 DEF DetectionAt
  <2>7. \A d : (\A i \in 1..Len(queue) : ~DetectionAt(queue, i, d)) =>
                 \A i \in 1..Len(queue') : ~DetectionAt(queue', i, d)
    BY <2>1 DEF DetectionAt
  <2> QED BY <2>4, <2>5, <2>6, <2>7
<1>7. CASE StoresDetection
  <2>1. /\ Shifted /\ UNCHANGED <<link, rows>> /\ queue[1].kind = "detection"
        /\ stored' = stored \cup {queue[1].id} /\ written' = written \cup {queue[1].id}
    BY <1>7 DEF StoresDetection
  <2>2. ASSUME NEW a \in Ids, rows[a] # None, NEW d \in rows[a].detections \cap written',
               Superseded(d, rows[a].detections)
        PROVE  d \in stored' /\ link[d] = a
    <3>1. d # queue[1].id
      <4>1. ~DetectionAt(queue, 1, d)
        BY <1>1, <1>6, <2>1, <2>2
      <4> QED BY <2>1, <4>1 DEF DetectionAt
    <3>2. d \in written
      BY <2>1, <2>2, <3>1
    <3> QED BY <1>1, <2>1, <2>2, <3>2
  <2>3. \A a \in Ids : rows[a] # None => \A d \in rows[a].detections :
          Superseded(d, rows[a].detections) => \A i \in 1..Len(queue') : ~DetectionAt(queue', i, d)
    BY <1>1, <1>6, <2>1
  <2> QED BY <1>4, <1>6, <2>1, <2>2, <2>3
<1>8. CASE Loses
  <2>1. Shifted /\ UNCHANGED <<stored, link, rows, written>>
    BY <1>8 DEF Loses
  <2>2. \A a \in Ids : rows[a] # None => \A d \in rows[a].detections :
          Superseded(d, rows[a].detections) => \A i \in 1..Len(queue') : ~DetectionAt(queue', i, d)
    BY <1>1, <1>6, <2>1
  <2> QED BY <1>1, <1>4, <1>6, <2>1, <2>2
<1>9. CASE StoresAlert
  <2>1. Shifted /\ UNCHANGED <<stored, written>> /\ queue[1].kind = "alert"
    BY <1>9 DEF StoresAlert
  <2> DEFINE a == queue[1].id
             D == queue[1].detections
  <2>2. /\ a \in Ids /\ D \subseteq Ids /\ 1 \in 1..Len(queue) /\ AlertAt(queue, 1, a)
        /\ \A b \in Ids \ {a} : rows'[b] = rows[b]
        /\ rows'[a] # None /\ rows'[a].detections = D
        /\ \A d \in Ids : link'[d] = IF d \in D \cap stored THEN a ELSE link[d]
    BY <1>9, RowFacts
  <2>3. D \cap written \subseteq stored
    BY <2>1, <2>2 DEF KeptInv
  <2>4. \A d \in D : Lists(queue, rows, link, a, d)
    BY <2>2 DEF Lists
  <2>5. \A d \in D : Superseded(d, D) => \A i \in 1..Len(queue') : ~DetectionAt(queue', i, d)
    BY <1>6, <2>1
  <2> HIDE DEF a, D
  <2>6. ASSUME NEW b \in Ids, rows'[b] # None, NEW d \in rows'[b].detections \cap written,
               Superseded(d, rows'[b].detections)
        PROVE  d \in stored /\ link'[d] = b
    <3>1. CASE b = a
      BY <2>2, <2>3, <2>6, <3>1
    <3>2. CASE b # a
      <4>1. /\ rows[b] # None /\ d \in rows[b].detections \cap written /\ d \in Ids
            /\ Superseded(d, rows[b].detections)
        BY <1>2, <2>2, <2>6, <3>2
      <4>2. d \in stored /\ link[d] = b
        BY <1>1, <4>1
      <4>3. d \notin D
        <5>1. Lists(queue, rows, link, b, d)
          BY <4>1 DEF Lists
        <5> QED BY <2>2, <2>4, <3>2, <4>1, <5>1 DEF OwnInv
      <4> QED BY <2>2, <4>1, <4>2, <4>3
    <3> QED BY <3>1, <3>2
  <2>7. ASSUME NEW b \in Ids, rows'[b] # None, NEW d \in rows'[b].detections,
               Superseded(d, rows'[b].detections), NEW i \in 1..Len(queue')
        PROVE  ~DetectionAt(queue', i, d)
    <3>1. CASE b = a
      BY <2>2, <2>5, <2>7, <3>1
    <3>2. CASE b # a
      <4>1. /\ rows[b] # None /\ d \in rows[b].detections /\ Superseded(d, rows[b].detections)
        BY <2>2, <2>7, <3>2
      <4>2. \A j \in 1..Len(queue) : ~DetectionAt(queue, j, d)
        BY <1>1, <4>1
      <4> QED BY <1>6, <2>1, <4>2
    <3> QED BY <3>1, <3>2
  <2> QED BY <1>4, <1>6, <2>1, <2>6, <2>7
<1>10. ASSUME NEW b \in Ids, NEW status \in Statuses, SetsStatus(b, status) PROVE EvidenceInv'
  <2>1. UNCHANGED <<queue, stored, link, written>>
    BY <1>10 DEF SetsStatus
  <2>2. \A a \in Ids : rows'[a] # None => rows[a] # None /\ rows'[a].detections = rows[a].detections
    BY <1>10, StatusFacts
  <2> QED BY <1>1, <1>4, <2>1, <2>2
<1>11. CASE Quits
  BY <1>1, <1>4, <1>11 DEF Quits
<1>12. CASE Retains
  <2>1. /\ UNCHANGED <<queue, link, written>>
        /\ \A a \in Ids : rows'[a] # None => rows'[a] = rows[a]
    BY <1>12 DEF Retains
  <2>2. \A d \in stored : link[d] # None => d \in stored'
    BY <1>12 DEF Retains, Expirable
  <2>3. ASSUME NEW a \in Ids, rows'[a] # None, NEW d \in rows'[a].detections \cap written,
               Superseded(d, rows'[a].detections)
        PROVE  d \in stored' /\ link'[d] = a
    <3>1. d \in stored /\ link[d] = a
      BY <1>1, <2>1, <2>3
    <3> QED BY <1>2, <2>1, <2>2, <3>1
  <2> QED BY <1>1, <1>4, <2>1, <2>3
<1>13. CASE PathStays
  BY <1>1, <1>4, <1>13 DEF PathStays
<1> QED BY <1>5, <1>7, <1>8, <1>9, <1>10, <1>11, <1>12, <1>13, Effects

(***************************************************************************)
(* The theorems                                                            *)
(***************************************************************************)

LEMMA InitHolds == Init => IInv
<1> SUFFICES ASSUME Init PROVE IInv
  OBVIOUS
<1> USE DetectionAssumption
<1>1. /\ failures = NoFailures /\ disabled = {} /\ seen = <<>>
      /\ verdicts = NoVerdicts /\ since = NeverMet /\ reported = <<>>
      /\ subjects = <<>> /\ bucket = NoDetections /\ alertOf = NoAlerts /\ raised = 0
      /\ queue = <<>>
      /\ stored = {} /\ link = [d \in Ids |-> None] /\ rows = [a \in Ids |-> None]
      /\ chosen = [a \in Ids |-> None]
      /\ running = TRUE /\ lost = {} /\ written = {}
  BY DEF Init
<1>2. Len(<<>>) = 0 /\ (\A i \in 1..0 : FALSE) /\ (\A S : <<>> \in Seq(S))
  BY EmptySeq
<1>3. /\ [i \in 1..MaxFailures |-> "judged"] \in Seq({"raised", "judged"})
      /\ Len([i \in 1..MaxFailures |-> "judged"]) = MaxFailures
  BY SeqDef, LenProperties
<1>4. TypeOK
  <2>1. failures \in [Rules -> 0..MaxFailures] /\ verdicts \in [Rules -> Seq({"raised", "judged"})]
    BY <1>1, <1>3 DEF NoFailures, NoVerdicts
  <2>2. DOMAIN since \subseteq Findings /\ since \in [DOMAIN since -> SUBSET Findings]
    BY <1>1 DEF NeverMet
  <2>3. /\ bucket \in [Subjects -> SUBSET Ids] /\ alertOf \in [Subjects -> Ids \cup {None}]
        /\ link \in [Ids -> Ids \cup {None}] /\ rows \in [Ids -> Row \cup {None}]
        /\ chosen \in [Ids -> Statuses \cup {None}] /\ raised \in 0..MaxReports
    BY <1>1 DEF NoDetections, NoAlerts
  <2> QED BY <1>1, <1>2, <2>1, <2>2, <2>3 DEF TypeOK
<1>5. CountInv
  <2>1. /\ MaxFailures - 0 = MaxFailures /\ MaxFailures \in 1..MaxFailures /\ 0 # MaxFailures
        /\ \A i \in 1..MaxFailures : ~(i > MaxFailures - 0)
    OBVIOUS
  <2>2. \A r \in Rules : failures[r] = 0 /\ verdicts[r] = [i \in 1..MaxFailures |-> "judged"]
    BY <1>1 DEF NoFailures, NoVerdicts
  <2> QED BY <1>1, <1>3, <2>1, <2>2 DEF CountInv
<1>6. SeenInv
  <2>1. Elements(<<>>) = {} /\ DOMAIN NeverMet = {}
    BY <1>2 DEF Elements, NeverMet
  <2> QED BY <1>1, <1>2, <2>1 DEF SeenInv
<1>7. \A a \in Ids : rows[a] = None /\ chosen[a] = None /\ link[a] = None
  BY <1>1
<1>8. \A t \in Subjects : bucket[t] = {} /\ alertOf[t] = None
  BY <1>1 DEF NoDetections, NoAlerts
<1>9. \A a, d \in Ids : ~Lists(queue, rows, link, a, d)
  <2>1. \A a, d \in Ids : a # None
    BY TypeFacts, <1>4
  <2> QED BY <1>1, <1>2, <1>7, <2>1 DEF Lists
<1>10. BoundInv /\ OwnInv
  BY <1>1, <1>2, <1>7, <1>8, <1>9 DEF BoundInv, OwnInv
<1>11. UpdateInv
  <2>1. \A t \in Subjects : {reported[d] : d \in bucket[t]} = {}
    BY <1>8
  <2>2. {} \notin Raising
    OBVIOUS
  <2> QED BY <2>1, <2>2 DEF UpdateInv
<1>12. ChosenInv /\ KeptInv /\ EvidenceInv
  BY <1>1, <1>2, <1>7, <1>8 DEF ChosenInv, KeptInv, EvidenceInv, EvidenceIsKept
<1> QED BY <1>4, <1>5, <1>6, <1>10, <1>11, <1>12 DEF IInv, PathInv

\* The invariant holds, whatever the constants are.
THEOREM Inductive == Spec => []IInv
<1>1. ASSUME IInv, [Next]_vars PROVE IInv'
  <2>1. TypeOK /\ CountInv /\ SeenInv /\ PathInv
    BY <1>1 DEF IInv
  <2>2. BoundInv /\ OwnInv /\ UpdateInv /\ ChosenInv /\ KeptInv /\ EvidenceInv
    BY <2>1 DEF PathInv
  <2>3. TypeOK'
    BY <1>1, <2>1, <2>2, StepTyped
  <2>4. CountInv' /\ SeenInv'
    BY <1>1, <2>1, CountStep, SeenStep
  <2>5. PathInv'
    BY <1>1, <2>1, <2>2, <2>3, BoundStep, OwnStep, UpdateStep, ChosenStep, KeptStep, EvidenceStep
    DEF PathInv
  <2> QED BY <2>3, <2>4, <2>5 DEF IInv
<1> QED BY <1>1, InitHolds, PTL DEF Spec

\* Every variable has its type: in particular the cache and the table of subjects never
\* grow beyond their capacities, and the numbers of alerts stay within those of reports.
THEOREM TypeCorrect == Spec => []TypeOK
<1>1. IInv => TypeOK
  BY DEF IInv
<1> QED BY <1>1, Inductive, PTL

\* A rule is disabled exactly after MaxFailures failures in a row, and a finding is a
\* duplicate exactly until SeenCapacity others were met since, for any capacities.
THEOREM EngineAlwaysRemembersRight == Spec => []EngineRemembersRight
<1>1. IInv => EngineRemembersRight
  BY RemembersRight DEF IInv
<1> QED BY <1>1, Inductive, PTL

LEMMA IsLatestIsLatest ==
  ASSUME TypeOK, NEW a, NEW detections, IsLatest(queue, rows, a, detections)
  PROVE  Latest(a) = detections
<1>1. Len(queue) \in Nat
  BY TypeFacts
<1>2. \A i \in 1..Len(queue) : i \in Updates(a) <=> AlertAt(queue, i, a)
  BY DEF Updates, AlertAt
<1>3. Updates(a) \subseteq 1..Len(queue)
  BY DEF Updates
<1>4. CASE /\ \A j \in 1..Len(queue) : ~AlertAt(queue, j, a)
           /\ rows[a] # None /\ rows[a].detections = detections
  <2>1. Updates(a) = {}
    BY <1>2, <1>3, <1>4
  <2> QED BY <1>4, <2>1 DEF Latest
<1>5. ASSUME NEW i \in 1..Len(queue), AlertAt(queue, i, a), queue[i].detections = detections,
             \A j \in (i + 1)..Len(queue) : ~AlertAt(queue, j, a)
      PROVE  Latest(a) = detections
  <2>1. i \in Updates(a)
    BY <1>2, <1>5
  <2>2. \A j \in 1..Len(queue) : j <= i \/ j \in (i + 1)..Len(queue)
    BY <1>1, <1>5
  <2>3. \A j \in Updates(a) : j <= i
    BY <1>2, <1>3, <1>5, <2>2
  <2> DEFINE m == CHOOSE k \in Updates(a) : \A j \in Updates(a) : j <= k
  <2>4. m \in Updates(a) /\ \A j \in Updates(a) : j <= m
    BY <2>1, <2>3
  <2>5. m = i
    <3>1. m <= i /\ i <= m /\ m \in Int /\ i \in Int
      BY <1>1, <1>3, <1>5, <2>1, <2>3, <2>4
    <3> HIDE DEF m
    <3> QED BY <3>1
  <2>6. Latest(a) = queue[m].detections
    BY <2>1 DEF Latest
  <2> HIDE DEF m
  <2> QED BY <1>5, <2>5, <2>6
<1> QED BY <1>4, <1>5 DEF IsLatest

\* The last that the writer or the database knows of an alert is what the alert manager
\* holds, unless an update was lost, and an alert that a person closed stays closed.
THEOREM AlertAlwaysUpToDate == Spec => []AlertIsUpToDate
<1>1. IInv => AlertIsUpToDate
  <2> SUFFICES ASSUME IInv PROVE AlertIsUpToDate
    OBVIOUS
  <2>1. TypeOK /\ UpdateInv /\ ChosenInv
    BY DEF IInv, PathInv
  <2>2. ASSUME running, NEW t \in Subjects, {reported[d] : d \in bucket[t]} \in Raising
        PROVE  alertOf[t] # None /\ (alertOf[t] \notin lost => Latest(alertOf[t]) = bucket[t])
    BY <2>1, <2>2, IsLatestIsLatest DEF UpdateInv
  <2> QED BY <2>1, <2>2 DEF AlertIsUpToDate, ChosenInv
<1> QED BY <1>1, Inductive, PTL

\* Retention never removes what a stored alert lists as its evidence, but for the last
\* detection listed, which was stored after the alert.
THEOREM EvidenceAlwaysKept == Spec => []EvidenceIsKept
<1>1. IInv => EvidenceIsKept
  BY DEF IInv, PathInv, EvidenceInv
<1> QED BY <1>1, Inductive, PTL
==============
