-------------------------------- MODULE Files --------------------------------
(***************************************************************************)
(* A process's hash and signature, by the enrichment worker                *)
(* (collectors/process_collector.py ProcessEnricher, security/hashing.py,  *)
(* security/signatures.py).  Both are cached under the file's fingerprint: *)
(* its path, size and modification time.                                   *)
(*                                                                         *)
(* The path may lead to another file, or none, at any time, and a file may *)
(* be written while it is read.  A content is numbered by its fingerprint: *)
(* writing gives a file a size or a time it never had.                     *)
(***************************************************************************)
EXTENDS Integers, Sequences, FiniteSets

CONSTANTS
  Contents,   \* the contents the path may lead to
  Missing,    \* "no regular file"
  Signed,     \* how each is signed: "embedded", "catalog" or "none"
  TooLarge,   \* those beyond the size limit for hashing
  Packaged,   \* whether the path is in a package of Windows' own
  Chunks      \* the chunks a file is read in

ASSUME FilesAssumption ==
  /\ Missing \notin Contents /\ Signed \in [Contents -> {"embedded", "catalog", "none"}]
  /\ Chunks \in Nat

VARIABLES
  target,     \* what the path leads to
  written,    \* the contents that have been there
  at,         \* where enrich() is
  key,        \* the fingerprint taken first
  handle,     \* the open file: what it holds, whether the path still leads to it
  read,       \* the chunks hashed so far, each by the content it was read from
  moved,      \* history: the path or the file has changed since the fingerprint
  failed,     \* history: a call into Windows has failed
  hashes,     \* FileHasher._cache
  signatures  \* SignatureVerifier._cache

filesVars == <<target, written, at, key, handle, read, moved, failed, hashes, signatures>>
caches == <<hashes, signatures>>

Closed == [content |-> Missing, attached |-> FALSE]

InitFiles ==
  /\ target \in Contents /\ written = {target}
  /\ at = "idle" /\ key = Missing /\ handle = Closed /\ read = <<>>
  /\ moved = FALSE /\ failed = FALSE
  /\ hashes = <<>> /\ signatures = <<>>

(***************************************************************************)
(* The machine                                                             *)
(***************************************************************************)
\* Somebody writes to the file; who has it open reads the new content from then on.
WriteInPlace(c) ==
  /\ target # Missing /\ c \notin written
  /\ target' = c /\ written' = written \cup {c} /\ moved' = TRUE
  /\ handle' = IF handle.attached THEN [handle EXCEPT !.content = c] ELSE handle
  /\ UNCHANGED <<at, key, read, failed, caches>>

\* The file is renamed away, or the path leads elsewhere: to nothing, to a new file, or
\* back to one that was there.
Replace(c) ==
  /\ c # target /\ target' = c /\ written' = written \cup ({c} \cap Contents) /\ moved' = TRUE
  /\ handle' = IF handle.content = c /\ c # Missing THEN [handle EXCEPT !.attached = TRUE]
               ELSE [handle EXCEPT !.attached = FALSE]
  /\ UNCHANGED <<at, key, read, failed, caches>>

(***************************************************************************)
(* The hash                                                                *)
(***************************************************************************)
Put(cache, k, value) ==
  [c \in DOMAIN cache \cup {k} |-> IF c = k THEN value ELSE cache[c]]

GoTo(place) ==
  /\ at' = place /\ handle' = Closed /\ read' = <<>>
  /\ UNCHANGED <<target, written>>

\* sha256(): the fingerprint, the cache, the size limit.
HashStat ==
  /\ at = "idle" /\ key' = target /\ moved' = FALSE /\ failed' = FALSE
  /\ GoTo(IF target = Missing \/ target \in DOMAIN hashes \cup TooLarge
          THEN "hashed" ELSE "hash open")
  /\ UNCHANGED caches

\* The path is opened, or cannot be.
OpenFor(place, denied) ==
  /\ IF target = Missing THEN GoTo(denied)
     ELSE /\ \/ GoTo(denied)
             \/ /\ at' = place /\ handle' = [content |-> target, attached |-> TRUE]
                /\ UNCHANGED <<target, written, read>>
  /\ UNCHANGED <<key, moved, failed, caches>>

HashOpen == at = "hash open" /\ OpenFor("hash read", "hashed")

HashRead ==
  /\ at = "hash read" /\ Len(read) < Chunks /\ read' = Append(read, handle.content)
  /\ UNCHANGED <<target, written, at, key, handle, moved, failed, caches>>

\* Fault: the path is asked again, not the open file.
AfterByPath == target

\* The fingerprint of the open file.
After == handle.content

HashDone ==
  /\ at = "hash read" /\ Len(read) = Chunks
  /\ hashes' = IF After = key THEN Put(hashes, key, read) ELSE hashes
  /\ GoTo("hashed") /\ UNCHANGED <<key, moved, failed, signatures>>

(***************************************************************************)
(* The signature                                                           *)
(***************************************************************************)
\* verify(): the fingerprint and the cache.
SignatureStat ==
  /\ at = "hashed" /\ key' = target /\ moved' = FALSE
  /\ GoTo(IF target = Missing \/ target \in DOMAIN signatures THEN "idle" ELSE "verify open")
  /\ UNCHANGED <<failed, caches>>

VerifyOpen == at = "verify open" /\ OpenFor("embedded", "idle")

\* The verdict is cached under the first fingerprint, with no second look.
Verdict(status) ==
  /\ signatures' = Put(signatures, key, [status |-> status, moved |-> moved, failed |-> failed'])
  /\ GoTo("idle") /\ UNCHANGED <<key, moved, hashes>>

\* WinVerifyTrust on the file: its own signature, or a code that says nothing; without
\* one the file is looked for in the catalogs.
VerifyEmbedded ==
  /\ at = "embedded"
  /\ \/ Signed[handle.content] = "embedded" /\ UNCHANGED failed /\ Verdict("VALID")
     \/ failed' = TRUE /\ Verdict("UNKNOWN")
     \/ /\ Signed[handle.content] # "embedded" /\ at' = "catalog"
        /\ UNCHANGED <<target, written, key, handle, read, moved, failed, caches>>

\* _verify_catalog: a catalog that cannot be asked is taken for one that has nothing.  A
\* file of a package is not called unsigned.
VerifyCatalog ==
  /\ at = "catalog"
  /\ \/ Signed[handle.content] = "catalog" /\ UNCHANGED failed /\ Verdict("VALID")
     \/ /\ failed' = (failed \/ Signed[handle.content] = "catalog")
        /\ Verdict(IF Packaged THEN "UNKNOWN" ELSE "UNSIGNED")

NextFiles ==
  \/ \E c \in Contents : WriteInPlace(c)
  \/ \E c \in Contents \cup {Missing} : Replace(c)
  \/ HashStat \/ HashOpen \/ HashRead \/ HashDone
  \/ SignatureStat \/ VerifyOpen \/ VerifyEmbedded \/ VerifyCatalog

-----------------------------------------------------------------------------

Whole(c) == [i \in 1..Chunks |-> c]

\* A cached hash is that of the content with its fingerprint, whatever happened to the
\* path and the file while it was read, and never of a mixture.  A cached signature is
\* that of the content with its fingerprint unless something changed between the
\* fingerprint and the verdict, or a call into Windows failed; these are kept too.
CachedIdentityIsTrue ==
  /\ \A c \in DOMAIN hashes : hashes[c] = Whole(c)
  /\ \A c \in DOMAIN signatures :
       LET s == signatures[c]
       IN  ~s.moved /\ ~s.failed =>
             (s.status = "VALID" <=> Signed[c] # "none")
=============================================================================
