----------------------------- MODULE OrderedFeed -----------------------------
(***************************************************************************)
(* What one subscriber is promised by a bounded publish/subscribe queue    *)
(* that drops its oldest entry when full: it is handed the items it wants  *)
(* in publish order, each at most once, and once it is attached an item    *)
(* still owed to it disappears only to make room in a full queue.          *)
(***************************************************************************)
EXTENDS Naturals, Sequences

CONSTANTS
  Capacity,  \* how many items the queue holds
  Items      \* the items, numbered in publish order

VARIABLES
  open,      \* the queue still accepts items
  attached,  \* the subscriber is registered
  load,      \* items in the shared queue, whoever wants them
  pending,   \* the items owed to this subscriber
  received   \* the items it has been handed, in order

vars == <<open, attached, load, pending, received>>

Init ==
  /\ open = TRUE /\ attached = FALSE /\ load = 0
  /\ pending = {} /\ received = <<>>

\* What may remain of pending when the full queue makes room.
Kept == IF load < Capacity THEN {pending} ELSE {pending} \cup {pending \ {i} : i \in pending}

\* An item newer than every other is accepted; this subscriber may want it.
Accept(item) ==
  /\ open
  /\ load' = IF load < Capacity THEN load + 1 ELSE load
  /\ \E kept \in Kept : pending' \in {kept, kept \cup {item}}
  /\ UNCHANGED <<open, attached, received>>

Oldest(item) == item \in pending /\ \A i \in pending : item <= i

\* The dispatcher takes the oldest item of the queue; it stays owed to the
\* subscriber until handed over, and is gone if nobody was attached yet.
Take ==
  /\ load > 0
  /\ load' = load - 1
  /\ \/ pending' = pending
     \/ ~attached /\ \E item \in pending : Oldest(item) /\ pending' = pending \ {item}
  /\ UNCHANGED <<open, attached, received>>

Hand ==
  /\ attached
  /\ \E item \in pending :
       /\ Oldest(item)
       /\ received' = Append(received, item)
       /\ pending' = pending \ {item}
  /\ UNCHANGED <<open, attached, load>>

Attach ==
  /\ attached' = TRUE
  /\ UNCHANGED <<open, load, pending, received>>

Close ==
  /\ open' = FALSE
  /\ UNCHANGED <<attached, load, pending, received>>

\* The newest item ever accepted is a bound for the ones known here.
Newer(item) ==
  /\ \A i \in pending : i < item
  /\ \A i \in DOMAIN received : received[i] < item

Next ==
  \/ \E item \in Items : Newer(item) /\ Accept(item)
  \/ Take
  \/ Hand
  \/ Attach
  \/ Close

Spec == Init /\ [][Next]_vars
=============================================================================
