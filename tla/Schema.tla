-------------------------------- MODULE Schema --------------------------------
(***************************************************************************)
(* Opening the database (storage/database.py, storage/migrations.py): the  *)
(* monitor's main thread, its writer, every command that writes.  Whoever  *)
(* finds no version recorded creates the tables; others may open the same  *)
(* file meanwhile, and any of them may fail or be killed at any step.      *)
(*                                                                         *)
(* sqlite3 opens a transaction by itself before an INSERT and never before *)
(* a CREATE: each statement of a migration is durable at once.             *)
(***************************************************************************)
EXTENDS Naturals

CONSTANTS
  Openers,     \* connections that may be open at the same time
  Statements   \* how many statements the migration has

ASSUME SchemaAssumption == Statements \in Nat \ {0}

VARIABLES
  created,     \* the statements executed: the first ones, tables and indexes
  recorded,    \* schema_migrations has the version
  opener,      \* each connection: where it is, and its next statement
  cut          \* history: a migration was broken off

schemaVars == <<created, recorded, opener, cut>>

Away == [at |-> "away", next |-> 1]

InitSchema ==
  created = 0 /\ recorded = FALSE /\ opener = [o \in Openers |-> Away] /\ cut = FALSE

At(o, place) == opener[o].at = place
GoesTo(o, place) == opener' = [opener EXCEPT ![o].at = place]

\* It has executed a statement of a migration that is not recorded yet.
Migrating(o) == At(o, "migrating") /\ opener[o].next > 1

\* Database.open until the version is read; schema_migrations is created if need be.
Open(o) ==
  /\ At(o, "away") /\ GoesTo(o, "opened")
  /\ UNCHANGED <<created, recorded, cut>>

\* current_version
CurrentVersion(o) ==
  /\ At(o, "opened") /\ GoesTo(o, IF recorded THEN "ready" ELSE "migrating")
  /\ UNCHANGED <<created, recorded, cut>>

\* Fault: one statement too few.
AllButOne(o) == opener[o].next >= Statements

AllExecuted(o) == opener[o].next > Statements

\* CREATE TABLE, CREATE INDEX: durable, or an error if it is there already.
Execute(o) ==
  /\ At(o, "migrating") /\ ~AllExecuted(o)
  /\ opener[o].next = created + 1
  /\ created' = opener[o].next
  /\ opener' = [opener EXCEPT ![o].next = @ + 1]
  /\ UNCHANGED <<recorded, cut>>

AlreadyThere(o) ==
  /\ At(o, "migrating") /\ ~AllExecuted(o) /\ opener[o].next <= created
  /\ opener' = [opener EXCEPT ![o] = Away]
  /\ cut' = (cut \/ Migrating(o)) /\ UNCHANGED <<created, recorded>>

\* The INSERT of the version and its commit.
RecordVersion(o) ==
  /\ At(o, "migrating") /\ AllExecuted(o)
  /\ recorded' = TRUE /\ GoesTo(o, "ready")
  /\ UNCHANGED <<created, cut>>

\* Any statement may fail, on a locked file or a full disk, and the process be killed.
BreaksOff(o) ==
  /\ ~At(o, "away") /\ opener' = [opener EXCEPT ![o] = Away]
  /\ cut' = (cut \/ Migrating(o)) /\ UNCHANGED <<created, recorded>>

NextSchema ==
  \E o \in Openers :
    \/ Open(o) \/ CurrentVersion(o) \/ Execute(o) \/ AlreadyThere(o)
    \/ RecordVersion(o) \/ BreaksOff(o)

-----------------------------------------------------------------------------

\* Whoever races to open the database, it is used only with all its tables; at most one
\* connection gets past the first statement, and unless that one is broken off it leaves
\* all of them there, and their version.
SchemaIsWhole ==
  /\ recorded => created = Statements
  /\ \A o \in Openers : At(o, "ready") => recorded
  /\ \A o, q \in Openers : Migrating(o) /\ Migrating(q) => o = q
  /\ created > 0 /\ ~recorded /\ ~cut => \E o \in Openers : Migrating(o)

\* The claim of storage/migrations.py, that a migration is "applied inside one
\* transaction": while nobody is at it, all of it is there or nothing.
MigrationIsAtomic ==
  (\A o \in Openers : ~Migrating(o)) =>
    created = IF recorded THEN Statements ELSE 0
=============================================================================
