-------------------------------- MODULE Rules --------------------------------
(***************************************************************************)
(* The verdicts of the rules (detection/rules/, detection/paths.py,        *)
(* detection/catalog.py) and the score that combines them                  *)
(* (detection/scoring.py), as functions of what is known of a process, a   *)
(* socket, an autostart entry or a file.                                   *)
(*                                                                         *)
(* A process is a record: its name, the kind of place its executable is    *)
(* in, what its command line does, its ancestors' names nearest first, the *)
(* state of its signature.  Unknown stands for what could not be read.     *)
(* Names and places stand for the tables and patterns that tell them       *)
(* apart.                                                                  *)
(***************************************************************************)
EXTENDS Integers, Sequences, FiniteSets, SequencesExt

CONSTANTS
  Unknown,
  FanoutThreshold, AttemptsThreshold, BurstThreshold

(***************************************************************************)
(* Names and places                                                        *)
(***************************************************************************)
DocumentHandlers == {"word"}
Browsers == {"browser"}
ServerProcesses == {"server"}
PowerShell == {"powershell"}
CommandShells == PowerShell \cup {"cmd"}
ScriptHosts == {"mshta"}
Interpreters == CommandShells \cup ScriptHosts
Lolbins == {"certutil"}
Deceptive == {"invoice.pdf.exe"}

\* What core Windows binaries are called, and where alone they run from.
SystemBinaryLocations == [name \in {"cmd", "certutil", "svchost"} |-> {"system"}]

SuspiciousParentChildPair(p, c) ==
  \/ p \in DocumentHandlers /\ c \in Interpreters \cup Lolbins
  \/ p = "wmiprvse" /\ c \in Interpreters
  \/ p = "services" /\ c \in CommandShells
  \/ p \in ServerProcesses /\ c \in Interpreters
  \/ p \in Browsers /\ c \in PowerShell \cup ScriptHosts

Temporary(place) == place \in {"temp"}
UserWritable(place) == Temporary(place) \/ place \in {"profile"}
Trusted(place) == place \in {"system", "programs"}

(***************************************************************************)
(* The rules of one process                                                *)
(***************************************************************************)
TempDirectoryExecution(p) == Temporary(p.exe)

Parent(p) == IF p.chain = <<>> THEN Unknown ELSE Head(p.chain)

SuspiciousParentChild(p) == SuspiciousParentChildPair(Parent(p), p.name)

\* Programs that start others through an interpreter, seen up the chain from it.
Origin(interpreter, name) ==
  \/ name \in DocumentHandlers \cup ServerProcesses \cup {"wmiprvse"}
  \/ name \in Browsers /\ interpreter # "cmd"

UnusualExecutionChain(p) ==
  /\ p.name # "conhost" /\ Parent(p) \in Interpreters
  /\ \E i \in 2..Len(p.chain) : i <= 4 /\ Origin(Parent(p), p.chain[i])

Does(p, what) == p.cmdline # Unknown /\ what \in p.cmdline

SuspiciousPowerShell(p) ==
  p.name \in PowerShell /\ (Does(p, "encoded") \/ Does(p, "downloads and executes"))

LolbinProxyExecution(p) == p.name \in Lolbins /\ Does(p, "proxies")

SystemBinaryMasquerading(p) ==
  /\ p.exe # Unknown /\ p.name \in DOMAIN SystemBinaryLocations
  /\ p.exe \notin SystemBinaryLocations[p.name]

DeceptiveFileName(p) == p.name \in Deceptive

UnsignedUserWritableExecutable(p) ==
  p.signature = "UNSIGNED" /\ UserWritable(p.exe) /\ ~Trusted(p.exe)

\* The errors of an INVALID signature.
Invalid == {"BAD_DIGEST", "EXPIRED", "UNTRUSTED"}
InvalidSignature(p) == p.signature \in Invalid

\* What could not be read is none of what the rules look for.
ASSUME RulesAssumption ==
  Unknown \notin DocumentHandlers \cup Browsers \cup ServerProcesses \cup Interpreters \cup
                {"wmiprvse", "services"} \cup {"temp", "profile", "system", "programs"} \cup
                {"VALID", "UNSIGNED"} \cup Invalid

(***************************************************************************)
(* The rules of a process and its sockets                                  *)
(***************************************************************************)
IsExcludedByTrust(p) ==
  p.exe = Unknown \/ Trusted(p.exe) \/ p.signature = "VALID"

IsPublicOutbound(c) == c.kind = "outbound" /\ c.scope = "PUBLIC"

NewProcessExternalConnection(p, c) ==
  IsPublicOutbound(c) /\ c.soon /\ ~IsExcludedByTrust(p)

UncommonRemotePort(p, c) ==
  IsPublicOutbound(c) /\ c.uncommon /\ ~IsExcludedByTrust(p)

FirstSeenExecutableOutbound(p, c) == IsPublicOutbound(c) /\ ~IsExcludedByTrust(p)

NewListeningPort(p, c) ==
  /\ c.kind = "listener" /\ c.scope # "LOOPBACK"
  /\ p.exe # Unknown /\ ~Trusted(p.exe)

Hosts(history, port) == {c.host : c \in {d \in ToSet(history) : d.uncommon = port}}
Waiting(history) == SelectSeq(history, LAMBDA c : c.waiting)

\* NET-003, for the process's new outbound connections within the window: hosts on one
\* port (here common or uncommon), attempts without an answer, or sheer number.
HighFrequencyOutbound(history) ==
  IF \E port \in BOOLEAN : Cardinality(Hosts(history, port)) >= FanoutThreshold THEN "fanout"
  ELSE IF Len(Waiting(history)) >= AttemptsThreshold THEN "attempts"
  ELSE IF Len(history) >= BurstThreshold THEN "burst"
  ELSE "none"

(***************************************************************************)
(* Findings                                                                *)
(***************************************************************************)
Finding(rule, score, confidence, category, about) ==
  [rule |-> rule, score |-> score, confidence |-> confidence,
   category |-> category, about |-> about]

If(condition, finding) == IF condition THEN {finding} ELSE {}

\* What the rules for PROCESS_STARTED and PROCESS_DISCOVERED find.
AppearanceFindings(p) ==
  If(TempDirectoryExecution(p), Finding("PROC-001", 20, "MEDIUM", "ORIGIN", "")) \cup
  If(SuspiciousParentChild(p), Finding("PROC-003", 25, "MEDIUM", "LINEAGE", "")) \cup
  If(UnusualExecutionChain(p), Finding("TREE-001", 30, "MEDIUM", "LINEAGE", "")) \cup
  If(SystemBinaryMasquerading(p), Finding("PROC-005", 45, "HIGH", "MASQUERADE", "")) \cup
  If(SuspiciousPowerShell(p),
     Finding("PROC-006", IF Does(p, "downloads and executes") THEN 35 ELSE 30, "MEDIUM",
             "EXECUTION", "")) \cup
  If(LolbinProxyExecution(p), Finding("PROC-007", 35, "MEDIUM", "EXECUTION", "")) \cup
  If(DeceptiveFileName(p), Finding("PROC-008", 40, "HIGH", "MASQUERADE", ""))

\* What the rules for PROCESS_ENRICHED find that no socket is needed for.
EnrichedFindings(p) ==
  If(UnsignedUserWritableExecutable(p),
     Finding("PROC-002", 15, "LOW", "SIGNATURE", "")) \cup
  If(InvalidSignature(p),
     CASE p.signature = "BAD_DIGEST" -> Finding("SIG-001", 45, "HIGH", "SIGNATURE", "")
       [] p.signature = "EXPIRED" -> Finding("SIG-001", 10, "LOW", "SIGNATURE", "")
       [] OTHER -> Finding("SIG-001", 30, "MEDIUM", "SIGNATURE", ""))

\* PERSIST-001 and PERSIST-002, for an entry's kind and what is known of its program.
AutostartFinding(kind, exe) ==
  LET rule == IF kind = "run" THEN "PERSIST-001" ELSE "PERSIST-002"
      base == IF kind = "run" THEN 30 ELSE 35
  IN IF UserWritable(exe) THEN Finding(rule, base, "MEDIUM", "PERSISTENCE", exe)
                          ELSE Finding(rule, 20, "LOW", "PERSISTENCE", exe)

\* FILE-001, for an executable or a script created in, or renamed into, a watched folder.
FileFinding(startup) ==
  IF startup THEN Finding("FILE-001", 30, "MEDIUM", "PERSISTENCE", "startup")
             ELSE Finding("FILE-001", 20, "LOW", "PERSISTENCE", "elsewhere")

(***************************************************************************)
(* The score of a set of findings                                          *)
(***************************************************************************)
RuleOrder ==
  <<"PROC-001", "PROC-002", "PROC-003", "PROC-004", "PROC-005", "PROC-006", "PROC-007",
    "PROC-008", "NET-001", "NET-002", "NET-003", "NET-004", "TREE-001", "SIG-001",
    "PERSIST-001", "PERSIST-002", "FILE-001">>

\* Quarters of a point: CONFIDENCE_WEIGHT is 1, 0.75 and 0.5.
Weight == [HIGH |-> 4, MEDIUM |-> 3, LOW |-> 2]

\* Fault: the first finding of a rule counts, or the last, whichever has less.
LowestOfRule(found, rule) ==
  {f \in found : f.rule = rule /\ \A g \in found : g.rule = rule => f.score <= g.score}

HighestOfRule(found, rule) ==
  {f \in found : f.rule = rule /\ \A g \in found : g.rule = rule => f.score >= g.score}

Contributions(found) == UNION {HighestOfRule(found, f.rule) : f \in found}

\* What a rule weighs, in quarters of a point; nothing if it has not fired.
Effective(found, rule) ==
  LET highest == HighestOfRule(found, rule)
      f == CHOOSE f \in highest : TRUE
  IN  IF highest = {} THEN 0 ELSE f.score * Weight[f.confidence]

AllPoints == 100000   \* 100 points, in 1/1000 points

\* What is left of the whole after the first rules have each taken their share of the rest.
Remaining(found) ==
  LET rest[i \in 0..Len(RuleOrder)] ==
        IF i = 0 THEN AllPoints
        ELSE (rest[i - 1] * (400 - Effective(found, RuleOrder[i]))) \div 400
  IN  rest

Combined(found) == AllPoints - Remaining(found)[Len(RuleOrder)]

AtMost(bound, n) == IF n > bound THEN bound ELSE n

\* Fault: one weak finding caps the others.
AnyLow(found) == \E f \in Contributions(found) : f.confidence = "LOW"

AllLow(found) == \A f \in Contributions(found) : f.confidence = "LOW"

Score(found) ==
  LET categories == {f.category : f \in found}
      bonus == AtMost(15, 5 * (Cardinality(categories) - 1))
      rounded == AtMost(100, (Combined(found) + 1000 * bonus + 500) \div 1000)
      weak == IF AllLow(found) THEN AtMost(39, rounded) ELSE rounded
  IN  IF found = {} THEN 0
      ELSE IF Cardinality(categories) = 1 THEN AtMost(59, weak) ELSE weak
=============================================================================
