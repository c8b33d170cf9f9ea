------------------------------ MODULE Sightings ------------------------------
(***************************************************************************)
(* What the program reports as new, gone or changed, from snapshots that   *)
(* may be incomplete: the network and the persistence monitor              *)
(* (monitors/, collectors/network_collector.py and                         *)
(* persistence_collector.py), the tables their events are stored in        *)
(* (storage/repositories.py), and baselines (detection/baseline.py,        *)
(* cli.py).                                                                *)
(*                                                                         *)
(* A snapshot comes from several sources.  One that fails is left out of   *)
(* it, and no monitor asks which were.                                     *)
(***************************************************************************)
EXTENDS Integers, Sequences, FiniteSets, SequencesExt

CONSTANTS
  Sockets, Autostarts,  \* what there is to see: for the monitors,
  Images, Listeners,    \* and processes by their executable, and sockets that listen
  Tables,       \* the socket tables
  Source,       \* the table or the place each is read from; an image is one by itself
  ItemOf,       \* what a baseline calls each thing it keeps
  Unreportable, \* the sockets of PID 0, and ephemeral UDP ports
  Versions,     \* the commands an autostart entry may have; 1 for what has none
  MaxPending,   \* bound on the stored events' queue
  Nothing       \* "no snapshot", "no row", "no baseline"

Kept == Autostarts \cup Images \cup Listeners  \* what a baseline holds
Things == Sockets \cup Kept
Watched == [network |-> Sockets, persistence |-> Autostarts]
Watchers == DOMAIN Watched

ASSUME SightingsAssumption ==
  /\ Unreportable \subseteq Sockets /\ Sockets \cap Autostarts = {} /\ DOMAIN Source = Things
  /\ \A x \in Sockets \cup Listeners : Source[x] \in Tables
  /\ DOMAIN ItemOf = Kept
  /\ Versions \subseteq Nat \ {0} /\ 1 \in Versions
  /\ \A S \in SUBSET Things : Nothing \notin [S -> Versions]
  /\ Nothing \notin [version : Versions, gone : BOOLEAN]

VARIABLES
  world,      \* each thing's version; Absent if it is not there, Over if it never will be
  running,    \* the monitor runs
  held,       \* each monitor's previous snapshot: its things' versions
  reading,    \* history: what was there at that snapshot, and which sources failed
  pending,    \* events on their way to the database
  rows,       \* each thing's row: its version, and whether it is closed or removed
  leftover,   \* history: rows in force when the monitor started, not seen since
  baseline,   \* the stored baseline's items; history: what could be read at its capture
  compared    \* the items the last comparison calls new

sightingsVars ==
  <<world, running, held, reading, pending, rows, leftover, baseline, compared>>

Absent == 0
Over == -1
There == {x \in Things : world[x] \notin {Absent, Over}}

InitSightings ==
  /\ world = [x \in Things |-> Absent] /\ running = FALSE
  /\ held = [m \in Watchers |-> Nothing] /\ reading = [m \in Watchers |-> Nothing]
  /\ pending = <<>> /\ rows = [x \in Things |-> Nothing] /\ leftover = {}
  /\ baseline = Nothing /\ compared = {}

(***************************************************************************)
(* The machine                                                             *)
(***************************************************************************)
\* A monitor's socket has a key of its own and does not come back; the rest may.
Change(x) ==
  /\ \/ world[x] = Absent /\ \E v \in Versions :
          (x \notin Autostarts => v = 1) /\ world' = [world EXCEPT ![x] = v]
     \/ x \in There /\ world' = [world EXCEPT ![x] = IF x \in Sockets THEN Over ELSE Absent]
     \/ /\ x \in There \cap Autostarts
        /\ \E v \in Versions \ {world[x]} : world' = [world EXCEPT ![x] = v]
  /\ UNCHANGED <<running, held, reading, pending, rows, leftover, baseline, compared>>

Readable(things, failed) == {x \in There \cap things : Source[x] \notin failed}

\* What a collector may return when some sources fail: of autostart entries what was read
\* before the failure stays, and an unreadable Run key, task or service is passed over in
\* silence, as is a process without its executable; a socket table is missing altogether.
Seen(things, failed) ==
  LET read == Readable(things, failed)
  IN  {read \cup more : more \in SUBSET ((There \cap things \cap Autostarts) \ read)}

\* If all socket tables fail the network collector raises.
Raises(failed) == Tables \subseteq failed

Sources(things) == {Source[x] : x \in things}
Reading(failed) == [there |-> There, failed |-> failed]

(***************************************************************************)
(* The monitors                                                            *)
(***************************************************************************)
\* A fresh process, and retention, which deletes old rows of sockets.
StartMonitor ==
  /\ ~running /\ running' = TRUE
  /\ \E expired \in SUBSET Sockets :
       rows' = [x \in Things |-> IF x \in expired THEN Nothing ELSE rows[x]]
  /\ leftover' = {x \in Things : rows'[x] # Nothing /\ ~rows'[x].gone}
  /\ UNCHANGED <<world, held, reading, pending, baseline, compared>>

\* The end of the monitor, orderly or not: what it held is forgotten, and what had not
\* been stored may be lost.
EndMonitor ==
  /\ running /\ running' = FALSE
  /\ held' = [m \in Watchers |-> Nothing] /\ reading' = [m \in Watchers |-> Nothing]
  /\ pending' = <<>> /\ leftover' = {}
  /\ UNCHANGED <<world, rows, baseline, compared>>

Events(type, things, version) ==
  [i \in 1..Cardinality(things) |->
     LET x == SetToSeq(things)[i] IN [type |-> type, thing |-> x, version |-> version[x]]]

Reportable(things) == things \ Unreportable

\* diff_connections and diff_persistence; the first snapshot is an inventory.
Diff(before, now) ==
  IF before = Nothing THEN Events("discovered", Reportable(DOMAIN now), now)
  ELSE LET both == DOMAIN before \cap DOMAIN now
       IN  Events("added", Reportable(DOMAIN now \ DOMAIN before), now) \o
           Events("removed", Reportable(DOMAIN before \ DOMAIN now), before) \o
           Events("changed", {x \in both : before[x] # now[x]}, now)

\* Fault: a snapshot with a failed source is compared but not kept.
KeptIfComplete(before, now, failed) == IF failed = {} THEN now ELSE before

NextHeld(before, now, failed) == now

\* NetworkMonitor.poll, over if the collector raises, and PersistenceMonitor.poll.
Poll(m, failed) ==
  /\ running /\ Len(pending) < MaxPending
  /\ m = "network" => ~Raises(failed)
  /\ \E S \in Seen(Watched[m], failed) :
       LET now == [x \in S |-> world[x]]
       IN  /\ pending' = pending \o Diff(held[m], now)
           /\ held' = [held EXCEPT ![m] = NextHeld(@, now, failed)]
           /\ leftover' = leftover \ S
  /\ reading' = [reading EXCEPT ![m] = Reading(failed)]
  /\ UNCHANGED <<world, running, rows, baseline, compared>>

(***************************************************************************)
(* The database                                                            *)
(***************************************************************************)
\* Fault: what is seen again keeps the end it had.
KeepsItsEnd(x, row) == row # Nothing /\ row.gone

\* An entry's removed_at is cleared when it is seen again; a socket's closed_at stays.
StillGone(x, row) == x \in Sockets /\ row # Nothing /\ row.gone

\* _upsert_connection and _apply_persistence.
RowAfter(e, row) ==
  IF e.type = "removed"
  THEN IF row = Nothing /\ e.thing \in Autostarts THEN Nothing
       ELSE [version |-> IF row = Nothing THEN e.version ELSE row.version, gone |-> TRUE]
  ELSE [version |-> e.version, gone |-> StillGone(e.thing, row)]

Store ==
  /\ pending # <<>> /\ pending' = Tail(pending)
  /\ LET e == Head(pending) IN rows' = [rows EXCEPT ![e.thing] = RowAfter(e, @)]
  /\ UNCHANGED <<world, running, held, reading, leftover, baseline, compared>>

(***************************************************************************)
(* Baselines                                                               *)
(***************************************************************************)
\* capture_baseline, from one reading of everything that may be partial.  Processes that
\* run the same program are one item, as are the sockets of a protocol and port.
Items(things) == {ItemOf[x] : x \in things}

\* "baseline create": a process without its executable, or a table or a place that failed,
\* is left out and the baseline stored all the same.
Create(failed) ==
  /\ baseline = Nothing /\ ~Raises(failed)
  /\ \E S \in Seen(Kept, failed) :
       baseline' = [items |-> Items(S), known |-> Readable(Kept, failed)]
  /\ UNCHANGED <<world, running, held, reading, pending, rows, leftover, compared>>

\* "baseline compare", which shows what is there and not in the baseline.
Compare(failed) ==
  /\ baseline # Nothing /\ ~Raises(failed)
  /\ \E S \in Seen(Kept, failed) : compared' = Items(S) \ baseline.items
  /\ UNCHANGED <<world, running, held, reading, pending, rows, leftover, baseline>>

\* "baseline delete".
Delete ==
  /\ baseline # Nothing /\ baseline' = Nothing /\ compared' = {}
  /\ UNCHANGED <<world, running, held, reading, pending, rows, leftover>>

\* The two monitors and the baselines share no row and no snapshot, so each is followed
\* by itself.
NextMonitor(m) ==
  \/ \E x \in Watched[m] : Change(x)
  \/ StartMonitor \/ EndMonitor \/ Store
  \/ \E failed \in SUBSET Sources(Watched[m]) : Poll(m, failed)

NextBaseline ==
  \/ \E x \in Kept : Change(x)
  \/ \E failed \in SUBSET Sources(Kept) : Create(failed) \/ Compare(failed)
  \/ Delete

-----------------------------------------------------------------------------
(***************************************************************************)
(* Properties                                                              *)
(***************************************************************************)
Announced(x) ==
  \E i \in Len(pending) + 1..Len(pending') :
    pending'[i].thing = x /\ pending'[i].type = "added"

NotThere(x, r) == x \notin r.there \/ Source[x] \in r.failed

SaysWhatIsNew ==
  /\ Len(pending') > Len(pending) =>
       \A m \in Watchers : \A x \in Reportable(Watched[m]) :
         Announced(x) => x \in There /\ NotThere(x, reading[m])
  /\ \A m \in Watchers :
       held[m] # Nothing /\ reading'[m] \notin {Nothing, reading[m]} =>
         \A x \in Reportable(Watched[m]) \cap (reading'[m].there \ reading[m].there) :
           Source[x] \notin reading'[m].failed => Announced(x)
  /\ compared' # {} =>
       \A x \in Kept : ItemOf[x] \in compared' => x \notin baseline'.known

\* What a monitor reports as added was not there at the reading before, unless its source
\* could not be read then; and what has come since the monitor's last reading is reported
\* by the next one that can read its source.  Of what a comparison calls new, nothing that
\* makes the same item was there at the capture and could be read: only what was not there,
\* or could not be read then, which the comparison does not tell apart.
NewIsNew == [][SaysWhatIsNew]_<<pending, reading, compared>>

Held(x) == \E m \in Watchers : held[m] # Nothing /\ x \in DOMAIN held[m]
HeldVersion(x) == held[CHOOSE m \in Watchers : x \in Watched[m]][x]

\* While the monitor runs and everything is stored, the tables show what it last saw: an
\* autostart entry is in force exactly if the monitor has it, with that command, and a
\* socket is open only if the monitor has it.  Rows left in force by an earlier run, of
\* things this one has not seen, are the exception.
RowsFollowReports ==
  running /\ pending = <<>> =>
    \A x \in Things :
      LET inForce == rows[x] # Nothing /\ ~rows[x].gone
      IN  /\ inForce => Held(x) \/ x \in leftover
          /\ x \in Autostarts /\ Held(x) => inForce /\ rows[x].version = HeldVersion(x)
=============================================================================
