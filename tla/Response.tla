------------------------------ MODULE Response -------------------------------
(***************************************************************************)
(* Response: what a person asks for, with a command (cli.py) or at the     *)
(* dashboard (module Dashboard), what is done to the machine               *)
(* (response/process_control.py, memory.py, firewall_control.py) and what  *)
(* the audit log and the firewall table keep of it                         *)
(* (response/response_manager.py, storage/repositories.py).                *)
(*                                                                         *)
(* Processes end, and others get their PID, between any two steps.         *)
(***************************************************************************)
EXTENDS Naturals

CONSTANTS
  Pids, Processes,  \* processes: numbers, in the order of their creation
  PidOf,
  Protected,        \* the processes the protection policy names
  MaxRequests,      \* bound on requests
  NoOne             \* "no process"

ASSUME ResponseAssumption ==
  /\ Processes \subseteq Nat \ {0} /\ PidOf \in [Processes -> Pids]
  /\ Protected \subseteq Processes
  /\ MaxRequests \in Nat /\ NoOne \notin Processes

VARIABLES
  alive, born,     \* the processes that run; those that ever did
  inForce,         \* Windows Firewall has the rule
  request,         \* who is at work on which request
  made,            \* requests made so far
  listed,          \* table firewall_rules: the rule is active
  hit,             \* history: [meant, checked, hit] of the latest action on a process
  unmatched,       \* history: outcomes table actions has no row of, or rows with no such outcome
  unsure           \* history: the firewall and its table may differ

machine == <<alive, born, inForce>>
records == <<unmatched, listed, unsure>>
responseVars == <<machine, request, made, records, hit>>

Agents == {"cli", "dashboard", "trimmer"}
ProcessVerbs == {"suspend", "resume", "terminate"}
FirewallVerbs == {"block", "unblock"}

Idle == [phase |-> "idle"]

InitResponse ==
  /\ alive = {} /\ born = {} /\ inForce = FALSE
  /\ request = [a \in Agents |-> Idle] /\ made = 0
  /\ unmatched = {} /\ listed = FALSE /\ unsure = FALSE /\ hit = {}

(***************************************************************************)
(* The machine                                                             *)
(***************************************************************************)
Holders(pid) == {p \in alive : PidOf[p] = pid}

Begins(p) ==
  /\ p \notin born /\ Holders(PidOf[p]) = {} /\ \A q \in Processes : q < p => q \in born
  /\ born' = born \cup {p} /\ alive' = alive \cup {p}
  /\ UNCHANGED <<inForce, request, made, records, hit>>

Ends(p) ==
  /\ p \in alive /\ alive' = alive \ {p}
  /\ UNCHANGED <<born, inForce, request, made, records, hit>>

(***************************************************************************)
(* The steps of a request                                                  *)
(***************************************************************************)

\* ProtectionPolicy.evaluate, and what act_on_process makes of it.
Refused(verb, p, forced) == verb # "resume" /\ p \in Protected /\ ~forced

NextPhase(verb) == IF verb \in ProcessVerbs THEN "verify" ELSE "operate"

New(verb, p, phase, forced) ==
  [id |-> made + 1, verb |-> verb, process |-> p, meant |-> p, phase |-> phase,
   forced |-> forced, checked |-> NoOne, outcome |-> "none"]

Recording(r, outcome) == [r EXCEPT !.phase = "record", !.outcome = outcome]

\* act_on_process, trim_memory, firewall_block, firewall_unblock as they begin.
Carry(r) ==
  IF Refused(r.verb, r.process, r.forced)
  THEN Recording(r, "DENIED_BY_POLICY") ELSE [r EXCEPT !.phase = NextPhase(r.verb)]

Step(a, r) == request' = [request EXCEPT ![a] = r]

Row(r, outcome) == [id |-> r.id, verb |-> r.verb, outcome |-> outcome]

\* What has happened, whatever is recorded of it.
Settle(a, outcome) ==
  /\ Step(a, Recording(request[a], outcome))
  /\ unmatched' = unmatched \cup {Row(request[a], outcome)}

\* The row is written; or it never will be.
Written(r) ==
  unmatched' = IF Row(r, r.outcome) \in unmatched THEN unmatched \ {Row(r, r.outcome)}
               ELSE unmatched \cup {Row(r, r.outcome)}
Lost(r) == unmatched' = {row \in unmatched : row.id # r.id}

\* Fault: the PID is enough.
AnyHolder(r) == Holders(PidOf[r.process])

\* _verify: the process that has the PID is the one that was asked about.
Verified(r) == Holders(PidOf[r.process]) \cap {r.process}

\* Reading the process, and its identity.
Verify(a) ==
  /\ request[a].phase = "verify"
  /\ \/ \E p \in Verified(request[a]) :
          /\ Step(a, [request[a] EXCEPT !.phase = "operate", !.checked = p])
          /\ UNCHANGED unmatched
     \/ Verified(request[a]) = {} /\ Settle(a, "FAILED")
  /\ UNCHANGED <<machine, made, listed, unsure, hit>>

\* OpenProcess by PID, then the operation; Windows may deny either.
OperateOnProcess(a) ==
  LET r == request[a] IN
  /\ r.phase = "operate" /\ r.verb \in ProcessVerbs
  /\ \/ \E p \in Holders(PidOf[r.process]) :
          /\ hit' = {[meant |-> r.meant, checked |-> r.checked, hit |-> p]}
          /\ alive' = IF r.verb = "terminate" THEN alive \ {p} ELSE alive
          /\ Settle(a, "SUCCEEDED")
     \/ Settle(a, "FAILED") /\ UNCHANGED <<alive, hit>>
  /\ UNCHANGED <<born, inForce, made, listed, unsure>>

\* trim_all: at least one process was trimmed, or none.
Trim(a) ==
  /\ request[a].phase = "operate" /\ request[a].verb = "trim"
  /\ \E outcome \in {"SUCCEEDED", "FAILED"} : Settle(a, outcome)
  /\ UNCHANGED <<machine, made, listed, unsure, hit>>

\* Fault: netsh's answer is not read.
Unread(ok) == TRUE

\* add, remove: the return code and the text of netsh.
Answered(ok) == ok

\* netsh does it, refuses, or is timed out having done it or not; a rule that is
\* not there counts as removed.
OperateFirewall(a) ==
  LET r == request[a] IN
  /\ r.phase = "operate" /\ r.verb \in FirewallVerbs
  /\ \E done, ok \in BOOLEAN :
       /\ ok => done
       /\ inForce' = IF done THEN r.verb = "block" ELSE inForce
       /\ Settle(a, IF Answered(ok) THEN "SUCCEEDED" ELSE "FAILED")
       /\ unsure' = (IF ok THEN FALSE ELSE unsure \/ done)
  /\ UNCHANGED <<alive, born, made, listed, hit>>

Operate(a) == OperateOnProcess(a) \/ Trim(a) \/ OperateFirewall(a)

\* After the record: a firewall command goes on to its own table.
AfterRecord(r) ==
  IF r.verb \in FirewallVerbs /\ r.outcome = "SUCCEEDED" THEN [r EXCEPT !.phase = "list"]
  ELSE Idle

Record(a) ==
  LET r == request[a] IN
  /\ r.phase = "record"
  /\ Written(r) /\ Step(a, AfterRecord(r))
  /\ UNCHANGED <<machine, made, listed, unsure, hit>>

\* The recorder logs what it cannot write.
NotRecorded(a) ==
  LET r == request[a] IN
  /\ r.phase = "record"
  /\ Lost(r) /\ Step(a, AfterRecord(r))
  /\ UNCHANGED <<machine, made, listed, unsure, hit>>

\* sqlite3's own errors are neither OSError nor ThreatLensError: they leave the recorder
\* and end the command before its table is written.
RecordRaises(a) ==
  LET r == request[a] IN
  /\ r.phase = "record"
  /\ Lost(r) /\ Step(a, Idle)
  /\ unsure' = (unsure \/ (r.verb \in FirewallVerbs /\ r.outcome = "SUCCEEDED"))
  /\ UNCHANGED <<machine, made, listed, hit>>

\* _maybe_record_firewall; what cannot be written is passed over or ends the command.
RecordRule ==
  LET r == request["cli"] IN
  /\ r.phase = "list"
  /\ \/ listed' = (r.verb = "block") /\ UNCHANGED unsure
     \/ UNCHANGED listed /\ unsure' = TRUE
  /\ Step("cli", Idle)
  /\ UNCHANGED <<machine, made, unmatched, hit>>

(***************************************************************************)
(* Commands: suspend, resume, terminate, clear-ram, firewall               *)
(***************************************************************************)

\* Whose fate is known as soon as the request is made or answered.
Decided(a, r, outcome) ==
  /\ Step(a, Recording(r, outcome))
  /\ unmatched' = unmatched \cup {Row(r, outcome)}

\* cmd_process_action until it asks; resume, --yes and the configuration skip the
\* question.
Command ==
  /\ request["cli"] = Idle /\ made < MaxRequests /\ made' = made + 1
  /\ \E forced, asks \in BOOLEAN :
       \/ \E verb \in ProcessVerbs, p \in alive :
            LET r == New(verb, p, "asking", forced) IN
            IF Refused(verb, p, forced) THEN Decided("cli", r, "DENIED_BY_POLICY")
            ELSE /\ Step("cli", IF asks /\ verb # "resume" THEN r ELSE Carry(r))
                 /\ UNCHANGED unmatched
       \/ \E verb \in FirewallVerbs \cup {"trim"} :
            LET r == New(verb, NoOne, "asking", FALSE) IN
            Step("cli", IF asks THEN r ELSE Carry(r)) /\ UNCHANGED unmatched
  /\ UNCHANGED <<machine, listed, unsure, hit>>

\* cmd_firewall's answer to a No: it is over, and table actions never has a row of it.
Unrecorded(r) == Step("cli", Idle) /\ unmatched' = unmatched \cup {Row(r, "CANCELLED")}

\* Fault: nothing that is declined is recorded.
Dropped(r) == Unrecorded(r)

\* record_cancelled, and cmd_process_action's own record of it.
Declined(r) == Decided("cli", r, "CANCELLED")

\* The answer.
Answer ==
  LET r == request["cli"] IN
  /\ r.phase = "asking"
  /\ \/ Step("cli", Carry(r)) /\ UNCHANGED unmatched
     \/ IF r.verb \in FirewallVerbs THEN Unrecorded(r) ELSE Declined(r)
  /\ UNCHANGED <<machine, made, listed, unsure, hit>>

\* Ctrl+C, or the end of the program, between any two steps.
Interrupt ==
  LET r == request["cli"] IN
  /\ r # Idle /\ Step("cli", Idle)
  /\ Lost(r)
  /\ unsure' = (unsure \/ (r.verb \in FirewallVerbs /\ r.outcome = "SUCCEEDED"))
  /\ UNCHANGED <<machine, made, listed, hit>>

NextMachine == \E p \in Processes : Begins(p) \/ Ends(p)
Work(a) == Verify(a) \/ Operate(a) \/ Record(a) \/ NotRecorded(a)
NextCommand ==
  \/ NextMachine \/ Work("cli") \/ RecordRaises("cli")
  \/ RecordRule \/ Command \/ Answer \/ Interrupt

-----------------------------------------------------------------------------
(***************************************************************************)
(* Properties                                                              *)
(***************************************************************************)

\* What is hit is the process the person saw in the dialog, or named in the command,
\* when confirming; another one only if the right one was there at the check and has
\* ended since.
OnlyConfirmedIsHit == \A h \in hit : h.hit = h.meant \/ h.checked = h.meant

\* A request that is over is in the audit log with what became of it, refused and
\* declined ones too, unless the record could not be written or the program ended
\* first.  One thing is missing that SECURITY.md promises: a firewall command that was
\* declined.
InWork == {request[a].id : a \in {b \in Agents : request[b] # Idle}}
DeclinedFirewall(row) == row.verb \in FirewallVerbs /\ row.outcome = "CANCELLED"
ActedIsAudited ==
  \A row \in unmatched : row.id \in InWork \/ DeclinedFirewall(row)

\* A rule the table lists as active is in force, unless netsh or the table left
\* the last change in doubt.
ListedIsInForce ==
  listed /\ ~unsure /\ request["cli"] = Idle => inForce
=============================================================================
