------------------------------- MODULE Writer -------------------------------
(***************************************************************************)
(* The database writer of storage/writer.py: handlers on the dispatcher's  *)
(* thread enqueue items, one thread writes them in batches, one            *)
(* transaction each.  An item is what the caller hands over; the database  *)
(* is the sequence of the items committed.                                 *)
(***************************************************************************)
EXTENDS Naturals, Sequences, SequencesExt

CONSTANTS
  QueueCapacity,  \* capacity of the queue
  BatchSize       \* _BATCH_SIZE

ASSUME WriterAssumption ==
  QueueCapacity \in Nat \ {0} /\ BatchSize \in Nat \ {0}

VARIABLES
  items,      \* _queue
  closing,    \* _stopping
  writer,     \* _thread: "none", "opening", "running", "failed" or "ended"
  batch,      \* the batch being written
  database,   \* the items committed, in order
  evicted,    \* history: the items dropped on overflow (counted in _dropped)
  failed,     \* history: the items of failed batches (one _errors per batch)
  ignored     \* history: the items that came after stop() (counted nowhere)

writerVars == <<items, closing, writer, batch, database, evicted, failed, ignored>>

WriterInit ==
  /\ items = <<>> /\ closing = FALSE /\ writer = "none"
  /\ batch = <<>> /\ database = <<>>
  /\ evicted = {} /\ failed = {} /\ ignored = {}

StartWriter ==
  /\ writer = "none"
  /\ writer' = "opening"
  /\ UNCHANGED <<items, closing, batch, database, evicted, failed, ignored>>

\* Database.open succeeds, or the thread ends with _open_error.
Open(ok) ==
  /\ writer = "opening"
  /\ writer' = IF ok THEN "running" ELSE "failed"
  /\ UNCHANGED <<items, closing, batch, database, evicted, failed, ignored>>

\* _enqueue makes room by dropping the oldest item.
Room == IF Len(items) >= QueueCapacity THEN Tail(items) ELSE items

Enqueue(item) ==
  IF closing THEN
    /\ ignored' = ignored \cup {item}
    /\ UNCHANGED <<items, closing, writer, batch, database, evicted, failed>>
  ELSE
    /\ items' = Append(Room, item)
    /\ evicted' = evicted \cup (ToSet(items) \ ToSet(Room))
    /\ UNCHANGED <<closing, writer, batch, database, failed, ignored>>

Least(a, b) == IF a < b THEN a ELSE b

Taken == Least(BatchSize, Len(items))

\* Fault: the items are popped from the head but filed from behind.
Backwards == [i \in 1..Taken |-> items[Taken + 1 - i]]

\* _take_batch: up to BatchSize items, oldest first.
NextBatch == SubSeq(items, 1, Taken)

TakeBatch ==
  /\ writer = "running" /\ batch = <<>> /\ items # <<>>
  /\ batch' = NextBatch
  /\ items' = SubSeq(items, Taken + 1, Len(items))
  /\ UNCHANGED <<closing, writer, database, evicted, failed, ignored>>

\* Fault: a failed transaction leaves its first item behind.
HalfWritten == <<Head(batch)>>

\* What a transaction that raised leaves in the database: it is rolled back.
RolledBack == <<>>

\* _write_batch: all of the batch, or nothing.
Write(ok) ==
  /\ batch # <<>>
  /\ database' = database \o (IF ok THEN batch ELSE RolledBack)
  /\ failed' = IF ok THEN failed ELSE failed \cup ToSet(batch)
  /\ batch' = <<>>
  /\ UNCHANGED <<items, closing, writer, evicted, ignored>>

\* Fault: the thread leaves as soon as it is told to.
LeavesAtOnce == closing

\* _take_batch returns None.
NothingLeft == closing /\ items = <<>>

\* The thread leaves its loop, checkpoints and closes the database.
Close ==
  /\ writer = "running" /\ batch = <<>>
  /\ NothingLeft
  /\ writer' = "ended"
  /\ UNCHANGED <<items, closing, batch, database, evicted, failed, ignored>>

WriterThread ==
  (\E ok \in BOOLEAN : Open(ok) \/ Write(ok)) \/ TakeBatch \/ Close

StopWriter ==
  /\ closing' = TRUE
  /\ UNCHANGED <<items, writer, batch, database, evicted, failed, ignored>>
=============================================================================
