------------------------------- MODULE Judging -------------------------------
(***************************************************************************)
(* What the program says of one process while it learns about it           *)
(* (detection/rules/, detection/engine.py, detection/allowlist.py).  A     *)
(* process appears with whatever the collector could read of it, is        *)
(* enriched with its hash and signature later, and opens sockets at any    *)
(* time; the rules judge what is known at that moment.  Autostart entries  *)
(* and files are judged as they come.                                      *)
(***************************************************************************)
EXTENDS Rules

CONSTANTS
  Programs,    \* what a process may be, all of it known
  Talkers,     \* bound: those that open sockets
  SocketKinds, \* what a socket may be, and the event that reports it
  MaxSockets   \* bound on sockets

ASSUME JudgingAssumption ==
  \A p \in Programs : /\ DOMAIN p = {"name", "cmdline", "chain", "exe", "signature"}
                      /\ p.chain \in Seq(ToSet(p.chain))

VARIABLES
  truth,       \* what the process is
  known,       \* what the process table holds of it
  hashed,      \* its SHA256 is known
  stage,       \* the last event of it that was handled
  parked,      \* EnrichmentDeferral: the sockets waiting for the signature
  talked,      \* FirstSeenExecutableOutbound._seen has the executable
  history,     \* HighFrequencyOutbound._history of the process
  allowlist,   \* the kinds of entries that name this program
  found,       \* the findings about the process
  unattributed, \* the findings about entries and files
  opened       \* the number of sockets so far

judgingVars == <<truth, known, hashed, stage, parked, talked, history, allowlist, found,
                 unattributed, opened>>

InitJudging ==
  /\ truth \in Programs /\ known = truth /\ hashed = FALSE /\ stage = "unseen"
  /\ parked = {} /\ talked = FALSE /\ history = <<>>
  /\ allowlist \in {{}, {"EXE_PATH"}, {"SHA256"}, {"SIGNER"}}
  /\ found = {} /\ unattributed = {} /\ opened = 0

\* AllowlistMatcher.match: an entry applies to what is known of the process now.
Allowed ==
  \/ "SHA256" \in allowlist /\ hashed'
  \/ "SIGNER" \in allowlist /\ known'.signature = "VALID"
  \/ "EXE_PATH" \in allowlist /\ known'.exe # Unknown

\* The engine's de-duplication: a rule reports the same thing once.
Fresh(findings, reported) ==
  {f \in findings : ~\E g \in reported : g.rule = f.rule /\ g.about = f.about}

Report(findings) == found' = found \cup (IF Allowed THEN {} ELSE Fresh(findings, found))

(***************************************************************************)
(* The process                                                             *)
(***************************************************************************)

\* PROCESS_STARTED or PROCESS_DISCOVERED, with any of the fields unreadable, and the
\* ancestors that are still known.
Appear(exe, cmdline, ancestors) ==
  /\ stage = "unseen" /\ stage' = "appeared"
  /\ known' = [truth EXCEPT !.exe = exe, !.cmdline = cmdline,
                            !.chain = SubSeq(@, 1, ancestors), !.signature = Unknown]
  /\ UNCHANGED hashed
  /\ Report(AppearanceFindings(known'))
  /\ UNCHANGED <<truth, parked, talked, history, allowlist, unattributed, opened>>

\* Fault: a signature that is not there yet is as good as none.
NeverPending == FALSE

\* enrichment_pending.
EnrichmentPending == known.exe # Unknown /\ stage = "appeared"

\* What the deferring rules say of the sockets that are candidates: PROC-004, NET-004
\* and, for the first that was opened, NET-001.
NetworkFindings(p, candidates) ==
  UNION {
    If(NewProcessExternalConnection(p, c),
       Finding("PROC-004", 20, "MEDIUM", "NETWORK", "")) \cup
    If(UncommonRemotePort(p, c),
       Finding("NET-004", 10, "LOW", "NETWORK", "")) \cup
    If(~talked /\ c.event = "opened" /\ FirstSeenExecutableOutbound(p, c),
       Finding("NET-001", 10, "LOW", "NETWORK", "")) : c \in candidates}

\* judge puts the executable among those seen before it asks for trust.
Talks(p, candidates) ==
  p.exe # Unknown /\ \E c \in candidates : c.event = "opened" /\ IsPublicOutbound(c)

\* NET-001 takes what already talks when the monitor starts for known.
Inventoried(p, c) == c.event = "discovered" /\ c.kind = "outbound" /\ p.exe # Unknown

\* The sockets NET-003 counts.
Counts(p, c) ==
  /\ c.event = "opened" /\ c.kind = "outbound" /\ c.scope # "LOOPBACK"
  /\ p.exe # Unknown /\ ~Trusted(p.exe)

\* What the deferring rules judge at once.
Judged(c) == IF EnrichmentPending THEN {} ELSE {c}

\* PROCESS_ENRICHED: hash and signature are in the table, what was parked is judged.
Enrich(signature, hash) ==
  /\ stage = "appeared" /\ known.exe # Unknown
  /\ stage' = "enriched"
  /\ known' = [known EXCEPT !.signature = signature] /\ hashed' = hash
  /\ Report(EnrichedFindings(known') \cup NetworkFindings(known', parked))
  /\ talked' = (talked \/ Talks(known', parked)) /\ parked' = {}
  /\ UNCHANGED <<truth, history, allowlist, unattributed, opened>>

\* CONNECTION_OPENED or _DISCOVERED, LISTENER_OPENED, attributed to the process: the
\* deferring rules judge or park, NET-001 takes what it discovers for known, NET-002
\* and NET-003 judge at once what was opened; NET-003 forgets what is out of its window.
Connect(c) ==
  /\ stage \in {"appeared", "enriched"} /\ truth \in Talkers /\ opened < MaxSockets
  /\ opened' = opened + 1
  /\ parked' = IF EnrichmentPending /\ IsPublicOutbound(c) THEN parked \cup {c} ELSE parked
  /\ talked' = (talked \/ Talks(known, Judged(c)) \/ Inventoried(known, c))
  /\ IF Counts(known, c)
     THEN \E old \in 0..Len(history) :
            history' = Append(SubSeq(history, old + 1, Len(history)), c)
     ELSE UNCHANGED history
  /\ UNCHANGED <<known, hashed>>
  /\ Report(
       NetworkFindings(known, Judged(c)) \cup
       If(c.event = "opened" /\ NewListeningPort(known, c),
          Finding("NET-002", 20, "LOW", "NETWORK", "")) \cup
       If(Counts(known, c) /\ HighFrequencyOutbound(history') # "none",
          Finding("NET-003", 20, "LOW", "NETWORK", HighFrequencyOutbound(history'))))
  /\ UNCHANGED <<truth, stage, allowlist, unattributed>>

(***************************************************************************)
(* Entries and files, which belong to no process                           *)
(***************************************************************************)
\* Bound: a behaviour with entries is one without the process.
Entries == truth \in Talkers /\ stage \in {"unseen", "entries"} /\ stage' = "entries"

ReportUnattributed(f) == unattributed' = unattributed \cup Fresh({f}, unattributed)

\* PERSISTENCE_ADDED.
AutostartAdded(kind, exe) ==
  /\ Entries /\ ReportUnattributed(AutostartFinding(kind, exe))
  /\ UNCHANGED <<truth, known, hashed, parked, talked, history, allowlist, found, opened>>

\* FILE_CREATED and FILE_RENAMED.
FileWritten(startup) ==
  /\ Entries /\ ReportUnattributed(FileFinding(startup))
  /\ UNCHANGED <<truth, known, hashed, parked, talked, history, allowlist, found, opened>>

NextJudging ==
  \/ \E exe \in {truth.exe, Unknown}, cmdline \in {truth.cmdline, Unknown},
        ancestors \in 0..Len(truth.chain) : Appear(exe, cmdline, ancestors)
  \/ \E signature \in {truth.signature, Unknown}, hash \in BOOLEAN : Enrich(signature, hash)
  \/ \E c \in SocketKinds : Connect(c)
  \/ \E kind \in {"run", "task"}, exe \in {"profile", "programs", Unknown} :
       AutostartAdded(kind, exe)
  \/ \E startup \in BOOLEAN : FileWritten(startup)

-----------------------------------------------------------------------------
(***************************************************************************)
(* Properties                                                              *)
(***************************************************************************)

\* What is said of a process of which only a part is known would also be said if all
\* of it were; and a rule that trusts signed programs has waited for the signature, and
\* speaks of a signed program only if the signature could not be read.
FiredIsJustified ==
  \A f \in found :
    IF f.rule \in {"PROC-004", "NET-001", "NET-004"} THEN
      /\ stage = "enriched" /\ ~Trusted(truth.exe)
      /\ truth.signature = "VALID" => known.signature = Unknown
    ELSE f.rule \notin {"NET-002", "NET-003"} =>
      \E g \in AppearanceFindings(truth) \cup EnrichedFindings(truth) :
        g.rule = f.rule /\ g.score >= f.score

\* Another finding never lowers the score of its subject, which is the process, or the
\* rule itself where there is no process; so an alert, once raised, is never below the
\* threshold later.
OfRule(rule) == {f \in unattributed : f.rule = rule}
ScoreNeverFalls ==
  [][/\ Score(found') >= Score(found)
     /\ \A rule \in {f.rule : f \in unattributed} :
          Score(OfRule(rule)') >= Score(OfRule(rule))]_<<found, unattributed>>
=============================================================================
