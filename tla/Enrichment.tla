----------------------------- MODULE Enrichment -----------------------------
(***************************************************************************)
(* From a new process and its first connection to the judgement of a rule  *)
(* that needs the process's signature: the process monitor and the network *)
(* monitor (two scheduler threads, core/engine.py), the process table of   *)
(* core/state.py, the bus, the enrichment worker (core/enrichment.py) and  *)
(* the deferring network rules (detection/rules), which park a connection  *)
(* until PROCESS_ENRICHED arrives.                                         *)
(*                                                                         *)
(* The four threads share the process table and the bus; every critical    *)
(* section is one action, what a thread read before is kept in its own     *)
(* variables.  Here the bus is a bounded queue with one consumer, which is *)
(* what EventBus is proved to be.  A process stands for its process key: a *)
(* reused PID is another process.  An event the modelled handlers ignore   *)
(* only takes room in the bus.  Whether a process's executable is known is *)
(* a fact about a reading of it: the collector may fail to read the path   *)
(* at one snapshot and succeed at the next.                                *)
(***************************************************************************)
EXTENDS Naturals, Sequences, FiniteSets, SequencesExt

CONSTANTS
  Procs,          \* process instances
  Readable,       \* those whose executable path every reading yields
  Elusive,        \* those of which one reading yields it and another does not
  Late,           \* bound: the processes that may start while the monitors run
  Mortal,         \* bound: the processes that may exit
  Conns,          \* sockets
  Owner,          \* the process that opens each socket
  BusCapacity,    \* capacity of the bus
  Capacity,       \* capacity of the enrichment queues together
  MaxDeferred,    \* MAX_DEFERRED_PROCESSES
  MaxPerProcess,  \* MAX_DEFERRED_PER_PROCESS
  None            \* "no process", "no socket", "no event"

Kinds == {"discovered", "started", "unnamed", "stopped", "enriched"}
Event == [type : Kinds, of : Procs] \cup [type : {"opened", "unattributed"}, of : Conns]

ASSUME EnrichmentAssumption ==
  /\ IsFiniteSet(Procs)
  /\ Readable \subseteq Procs /\ Elusive \subseteq Procs 
  /\ Late \subseteq Procs /\ Mortal \subseteq Procs
  /\ Owner \in [Conns -> Procs]
  /\ BusCapacity \in Nat \ {0} /\ Capacity \in Nat \ {0}
  /\ MaxDeferred \in Nat \ {0} /\ MaxPerProcess \in Nat \ {0}
  /\ None \notin Procs \cup Conns \cup Event

VARIABLES
  unborn, alive,                 \* the machine's processes
  current, exited, enriched,     \* SystemState
  named,                         \* the table's processes whose info has an executable
  pm, prev, outbox,              \* process monitor: pc, last snapshot, events to publish
  read,                          \* those the snapshot to be applied has an executable of
  nm, socket,                    \* network monitor: pc, the socket being attributed
  unseen,                        \* sockets not yet reported
  bus,              \* the event bus
  hand, owns,                    \* dispatcher: the event, and what the rule read of it
  urgent, inventory, pending,    \* enrichment queues and the set of their keys
  stopping,                      \* EnrichmentWorker._stopping
  worker, key,                   \* enrichment worker: pc, key in hand
  parked,                        \* EnrichmentDeferral._pending, oldest first
  judged,                        \* history: the sockets that were judged
  sighted,                       \* history: processes that were in a snapshot
  overlooked,                    \* history: processes without an executable when asked for
  lost                           \* history: processes whose wake-up was dropped

world == <<unborn, alive>>
table == <<current, exited, enriched, named>>
monitor == <<pm, prev, read, outbox, sighted>>
network == <<nm, socket, unseen>>
queues == <<urgent, inventory, pending>>
rule == <<parked, judged>>
vars == <<unborn, alive, current, exited, enriched, named, pm, prev, read, outbox,
          nm, socket, unseen, bus, hand, owns, urgent, inventory, pending, stopping,
          worker, key, parked, judged, sighted, overlooked, lost>>

NoSnapshot == {None}

TypeOK ==
  /\ unborn \subseteq Procs /\ alive \subseteq Procs
  /\ current \subseteq Procs /\ exited \subseteq Procs /\ enriched \subseteq Procs
  /\ named \subseteq Procs /\ read \subseteq Procs
  /\ pm \in {"idle", "apply", "publish"} /\ outbox \in Seq(Event)
  /\ prev = NoSnapshot \/ prev \subseteq Procs
  /\ nm \in {"idle", "publish", "orphan"} /\ socket \in Conns \cup {None}
  /\ unseen \subseteq Conns
  /\ bus \in Seq(Event) /\ Len(bus) <= BusCapacity
  /\ stopping \in BOOLEAN
  /\ hand \in Event \cup {None} /\ owns \in {"unread", "pending"}
  /\ urgent \in Seq(Procs) /\ inventory \in Seq(Procs) /\ pending \subseteq Procs
  /\ worker \in {"next", "verify", "publish", "ended"}
  /\ key \in Procs \cup {None}
  /\ parked \in Seq([key : Procs, facts : SUBSET Conns])
  /\ judged \subseteq Conns
  /\ sighted \subseteq Procs /\ overlooked \subseteq Procs /\ lost \subseteq Procs

Init ==
  /\ unborn \in SUBSET Late /\ alive = Procs \ unborn
  /\ current = {} /\ exited = {} /\ enriched = {} /\ named = {}
  /\ pm = "idle" /\ prev = NoSnapshot /\ read = {} /\ outbox = <<>>
  /\ nm = "idle" /\ socket = None /\ unseen = Conns
  /\ bus = <<>>
  /\ hand = None /\ owns = "unread"
  /\ urgent = <<>> /\ inventory = <<>> /\ pending = {}
  /\ stopping = FALSE /\ worker = "next" /\ key = None
  /\ parked = <<>> /\ judged = {}
  /\ sighted = {} /\ overlooked = {} /\ lost = {}

(***************************************************************************)
(* The machine                                                             *)
(***************************************************************************)
Spawn(p) ==
  /\ p \in unborn
  /\ unborn' = unborn \ {p} /\ alive' = alive \cup {p}
  /\ UNCHANGED <<table, monitor, network, bus, hand, owns, queues,
                 stopping, worker, key, rule, lost, overlooked>>

Exit(p) ==
  /\ p \in alive \cap Mortal
  /\ alive' = alive \ {p}
  /\ UNCHANGED <<unborn, table, monitor, network, bus, hand, owns,
                 queues, stopping, worker, key, rule, lost, overlooked>>

(***************************************************************************)
(* The bus                                                                 *)
(***************************************************************************)

\* The processes whose enrichment hangs on an event: its request or its result.
Wakes(e) == IF e.type \in {"discovered", "started", "enriched"} THEN {e.of} ELSE {}

Full == Len(bus) >= BusCapacity

\* publish(e): the oldest event is evicted when the bus is full.
Publish(e) ==
  IF Full THEN
    /\ bus' = Append(Tail(bus), e)
    /\ lost' = lost \cup Wakes(Head(bus))
  ELSE
    /\ bus' = Append(bus, e)
    /\ UNCHANGED lost

(***************************************************************************)
(* The process monitor's thread                                            *)
(***************************************************************************)
Events(type, keys) ==
  LET order == SetToSeq(keys)
  IN  [i \in DOMAIN order |-> [type |-> type, of |-> order[i]]]

\* One reading of processes: those whose executable it yields.
Readings(keys) == {keys \cap (Readable \cup yielded) : yielded \in SUBSET Elusive}

\* The events of new processes; one whose executable the snapshot lacks carries none,
\* and the modelled handlers ignore it.
Arrivals(type, keys, known) ==
  LET order == SetToSeq(keys)
  IN  [i \in DOMAIN order |->
         [type |-> IF order[i] \in known THEN type ELSE "unnamed", of |-> order[i]]]

\* Fault: a process that was resolved on demand is not new to the monitor.
DiffAgainstTable(snapshot, known) ==
  Arrivals("started", snapshot \ (prev \cup current), known) \o
  Events("stopped", prev \ snapshot)

\* diff_snapshots: started first, then stopped.
Diff(snapshot, known) ==
  Arrivals("started", snapshot \ prev, known) \o Events("stopped", prev \ snapshot)

\* poll_snapshot(): collect, diff against the previous snapshot, remember it.
Collect ==
  /\ pm = "idle"
  /\ \E known \in Readings(alive) :
       /\ outbox' = IF prev = NoSnapshot THEN Arrivals("discovered", alive, known)
                    ELSE Diff(alive, known)
       /\ read' = known
       /\ overlooked' = overlooked \cup ((alive \ prev) \ known)
  /\ prev' = alive
  /\ sighted' = sighted \cup alive
  /\ pm' = "apply"
  /\ UNCHANGED <<world, table, network, bus, hand, owns, queues,
                 stopping, worker, key, rule, lost>>

\* apply_process_snapshot: the snapshot replaces the table, executables included, what
\* vanished is kept as exited, and _prune forgets any of the exited whose retention is
\* over.  (A running process is in every snapshot taken after the one that missed it,
\* so it is never among those.)
ApplySnapshot ==
  /\ pm = "apply"
  /\ current' = prev
  /\ \E expired \in SUBSET ((exited \ prev) \ alive) :
       /\ exited' = ((exited \cup current) \ prev) \ expired
       /\ enriched' = enriched \cap (prev \cup exited')
       /\ named' = read \cup (named \cap exited')
  /\ pm' = IF outbox = <<>> THEN "idle" ELSE "publish"
  /\ read' = {}
  /\ UNCHANGED <<world, prev, outbox, sighted, network, bus, hand,
                 owns, queues, stopping, worker, key, rule, lost, overlooked>>

PublishNext ==
  /\ pm = "publish"
  /\ Publish(Head(outbox))
  /\ outbox' = Tail(outbox)
  /\ pm' = IF outbox' = <<>> THEN "idle" ELSE "publish"
  /\ UNCHANGED <<world, table, prev, read, sighted, network, hand, owns,
                 queues, stopping, worker, key, rule, overlooked>>

ProcessMonitor == Collect \/ ApplySnapshot \/ PublishNext

(***************************************************************************)
(* The network monitor's thread                                            *)
(***************************************************************************)
Known(p) == p \in current \cup exited

\* poll(): a socket of a running process is seen, and attributed (_lookup and
\* attribute): a PID no running process of the table holds is resolved on demand,
\* which fails when the process is gone by then or cannot be opened;
\* observe_process adds it unless the table has it; the owner is any instance the
\* table then knows.
Attribute(c, resolved) ==
  /\ nm = "idle"
  /\ c \in unseen
  /\ Owner[c] \in alive
  /\ unseen' = unseen \ {c} /\ socket' = c
  /\ \E known \in Readings({Owner[c]}) :
       IF resolved /\ ~Known(Owner[c]) THEN
         current' = current \cup {Owner[c]} /\ named' = named \cup known
       ELSE
         UNCHANGED <<current, named>>
  /\ nm' = IF resolved \/ Known(Owner[c]) THEN "publish" ELSE "orphan"
  /\ UNCHANGED <<world, exited, enriched, monitor, bus, hand, owns, queues,
                 stopping, worker, key, rule, lost, overlooked>>

\* CONNECTION_OPENED, with or without the owner's key.
PublishOpened ==
  /\ nm \in {"publish", "orphan"}
  /\ Publish([type |-> IF nm = "publish" THEN "opened" ELSE "unattributed",
              of |-> socket])
  /\ nm' = "idle" /\ socket' = None
  /\ UNCHANGED <<world, table, monitor, unseen, hand, owns, queues,
                 stopping, worker, key, rule, overlooked>>

NetworkMonitor ==
  (\E c \in Conns, r \in BOOLEAN : Attribute(c, r)) \/ PublishOpened

(***************************************************************************)
(* The dispatcher: request() for a process event, the deferring rule for a *)
(* connection and for PROCESS_ENRICHED                                     *)
(***************************************************************************)
TakeEvent ==
  /\ hand = None
  /\ bus # <<>>
  /\ hand' = Head(bus) /\ bus' = Tail(bus)
  /\ owns' = "unread"
  /\ UNCHANGED <<world, table, monitor, network, queues, stopping,
                 worker, key, rule, lost, overlooked>>

Handled == hand' = None /\ owns' = "unread"

\* request(): a key is queued once, unless the worker stops or the queues are full.
Accepts(p) == p \notin pending /\ ~stopping /\ Cardinality(pending) < Capacity

\* EnrichmentWorker.on_event: a new process is urgent, the inventory is not.
Request ==
  /\ hand # None /\ hand.type \in {"discovered", "started"}
  /\ LET p == hand.of
     IN /\ urgent' = IF Accepts(p) /\ hand.type = "started"
                     THEN Append(urgent, p) ELSE urgent
        /\ inventory' = IF Accepts(p) /\ hand.type = "discovered"
                        THEN Append(inventory, p) ELSE inventory
        /\ pending' = IF Accepts(p) THEN pending \cup {p} ELSE pending
        /\ lost' = IF ~Accepts(p) /\ p \notin pending THEN lost \cup {p} ELSE lost
  /\ Handled
  /\ UNCHANGED <<world, table, monitor, network, bus, stopping, worker,
                 key, rule, overlooked>>

\* on_event again: an event without an executable requests nothing, and no later event
\* will name the process.
Ignore ==
  /\ hand # None /\ hand.type \in {"unnamed", "stopped", "unattributed"}
  /\ Handled
  /\ UNCHANGED <<world, table, monitor, network, bus, queues, stopping,
                 worker, key, rule, lost, overlooked>>

\* enrichment_pending(process), of what the table has of it now.
AwaitsEnrichment(p) == p \in named /\ p \notin enriched

Judge(conns) == judged' = judged \cup conns

\* evaluate(): the rule reads the owner; an unknown one ends it, one with its
\* signature known is judged, another is parked in a later step.
ReadOwner ==
  /\ hand # None /\ hand.type = "opened" /\ owns = "unread"
  /\ LET p == Owner[hand.of]
     IN IF Known(p) /\ AwaitsEnrichment(p) THEN
          /\ owns' = "pending"
          /\ UNCHANGED <<hand, judged, overlooked>>
        ELSE
          /\ Handled
          /\ Judge(IF Known(p) THEN {hand.of} ELSE {})
  /\ UNCHANGED <<world, table, monitor, network, bus, queues, stopping,
                 worker, key, parked, lost, overlooked>>

\* The dictionary has one bucket at most for a process.
Buckets(p) == {i \in DOMAIN parked : parked[i].key = p}
Bucket(p) == UNION {parked[i].facts : i \in Buckets(p)}
Others(p) ==
  IF Buckets(p) = {} THEN parked ELSE RemoveAt(parked, CHOOSE i \in Buckets(p) : TRUE)

\* park(): the bucket moves to the end, takes the socket while it has room, and
\* the oldest bucket goes when there are too many.
Park ==
  /\ owns = "pending"
  /\ LET p == Owner[hand.of]
         facts == IF Cardinality(Bucket(p)) < MaxPerProcess
                  THEN Bucket(p) \cup {hand.of} ELSE Bucket(p)
         all == Append(Others(p), [key |-> p, facts |-> facts])
     IN parked' = IF Len(all) > MaxDeferred THEN Tail(all) ELSE all
  /\ Handled
  /\ UNCHANGED <<world, table, monitor, network, bus, queues, stopping,
                 worker, key, judged, lost, overlooked>>

\* Fault: the bucket is judged and kept.
Kept(p) == parked

\* release(): the process's bucket is gone.
Released(p) == Others(p)

\* PROCESS_ENRICHED: what was parked is released, and judged if the owner is
\* still in the table.
Release ==
  /\ hand # None /\ hand.type = "enriched"
  /\ parked' = Released(hand.of)
  /\ Judge(IF Known(hand.of) THEN Bucket(hand.of) ELSE {})
  /\ Handled
  /\ UNCHANGED <<world, table, monitor, network, bus, queues, stopping,
                 worker, key, lost, overlooked>>

Dispatcher == TakeEvent \/ Request \/ Ignore \/ ReadOwner \/ Park \/ Release

(***************************************************************************)
(* The enrichment worker                                                   *)
(***************************************************************************)
\* Fault: the key stays in the set of pending keys.
StillPending(p) == pending

\* _next discards the key it hands out.
Discarded(p) == pending \ {p}

\* _next, and the first read of _enrich: urgent keys first; a process the table has
\* forgotten, or has no executable of now, is skipped.
NextKey ==
  /\ worker = "next" /\ ~stopping
  /\ urgent # <<>> \/ inventory # <<>>
  /\ urgent' = IF urgent # <<>> THEN Tail(urgent) ELSE urgent
  /\ inventory' = IF urgent # <<>> THEN inventory ELSE Tail(inventory)
  /\ LET p == IF urgent # <<>> THEN Head(urgent) ELSE Head(inventory)
         found == Known(p) /\ p \in named
     IN /\ pending' = Discarded(p)
        /\ key' = IF found THEN p ELSE None
        /\ worker' = IF found THEN "verify" ELSE "next"
        /\ overlooked' = IF Known(p) /\ ~found THEN overlooked \cup {p} ELSE overlooked
  /\ UNCHANGED <<world, table, monitor, network, bus, hand, owns, stopping, rule, lost>>

WorkerEnds ==
  /\ worker = "next" /\ stopping
  /\ worker' = "ended"
  /\ UNCHANGED <<world, table, monitor, network, bus, hand, owns, queues,
                 stopping, key, rule, lost, overlooked>>

\* The enricher raised: counted, and the process is never requested again.
EnrichFails ==
  /\ worker = "verify"
  /\ worker' = "next" /\ key' = None
  /\ lost' = lost \cup {key}
  /\ UNCHANGED <<world, table, monitor, network, bus, hand, owns, queues,
                 stopping, rule, overlooked>>

\* Fault: the event goes out before the result is stored.
StoredLater == enriched

\* set_enrichment() comes before publish().
Stored == enriched \cup {key}

SetEnrichment ==
  /\ worker = "verify"
  /\ enriched' = Stored
  /\ worker' = "publish"
  /\ UNCHANGED <<world, current, exited, named, monitor, network, bus, hand,
                 owns, queues, stopping, key, rule, lost, overlooked>>

PublishEnriched ==
  /\ worker = "publish"
  /\ Publish([type |-> "enriched", of |-> key])
  /\ worker' = "next" /\ key' = None
  /\ UNCHANGED <<world, table, monitor, network, hand, owns, queues,
                 stopping, rule, overlooked>>

Worker ==
  NextKey \/ WorkerEnds \/ EnrichFails \/ SetEnrichment \/ PublishEnriched

\* stop(): what is queued is abandoned.
StopWorker ==
  /\ ~stopping
  /\ stopping' = TRUE
  /\ UNCHANGED <<world, table, monitor, network, bus, hand, owns, queues,
                 worker, key, rule, lost, overlooked>>

Next ==
  \/ \E p \in Procs : Spawn(p) \/ Exit(p)
  \/ ProcessMonitor
  \/ NetworkMonitor
  \/ Dispatcher
  \/ Worker
  \/ StopWorker

Spec == Init /\ [][Next]_vars

\* The process monitor polls periodically, the dispatcher and the worker have a
\* thread each, and handlers and the enricher return.
FairSpec ==
  /\ Spec
  /\ WF_vars(ProcessMonitor) /\ WF_vars(Dispatcher) /\ WF_vars(Worker)

-----------------------------------------------------------------------------
(***************************************************************************)
(* Properties                                                              *)
(***************************************************************************)

\* _pending is the set of the queued keys, each queued once, in one queue, and
\* together they respect the capacity.
QueuesAgree ==
  /\ pending = ToSet(urgent \o inventory)
  /\ Cardinality(pending) = Len(urgent \o inventory)
  /\ Cardinality(pending) <= Capacity

InFlight(e) == hand = e \/ e \in ToSet(bus)

\* The monitor has p's start still to report, or the bus still to deliver.
RequestComing(p) ==
  \/ p \in alive \ (prev \cup sighted)
  \/ \E k \in {"discovered", "started"} :
       InFlight([type |-> k, of |-> p]) \/ [type |-> k, of |-> p] \in ToSet(outbox)

ResultComing(p) ==
  \/ p \in pending
  \/ key = p
  \/ InFlight([type |-> "enriched", of |-> p])

\* Why a process may never be enriched: its request or result was evicted,
\* refused or failed; its executable was not known when its only event was made or
\* when the worker took its key, however soon it is known after that; the worker
\* stops; it exited before any poll saw it; or the table has forgotten it.
NeverEnriched(p) ==
  \/ p \in lost
  \/ p \in overlooked
  \/ stopping
  \/ p \notin alive \cup sighted
  \/ p \in sighted /\ ~Known(p)

\* No lost wake-up: a connection the rule has parked, or is about to park on what
\* it read before, waits for a PROCESS_ENRICHED that is still to come, in every
\* interleaving of the four threads, unless the enrichment itself was lost or the
\* process was overlooked: one whose executable becomes known only after its event was
\* ignored is waited for by the rule, and nobody enriches it.
NoStrandedFacts ==
  \A p \in Procs :
    (Bucket(p) # {} \/ (owns = "pending" /\ Owner[hand.of] = p)) =>
      RequestComing(p) \/ ResultComing(p) \/ NeverEnriched(p)

\* A rule never judges a connection of a process whose signature is still unknown
\* but whose executable the table has: the result is stored before it is announced.
JudgedWithSignature ==
  [][\A c \in judged' \ judged :
       Owner[c] \in named => Owner[c] \in enriched]_vars

\* A parked connection is released in the end, unless its owner is never enriched.
ParkedIsReleased ==
  \A c \in Conns :
    c \in Bucket(Owner[c]) ~> c \notin Bucket(Owner[c]) \/ NeverEnriched(Owner[c])
=============================================================================
