-------------------------- MODULE DashboardProofs ---------------------------
(***************************************************************************)
(* Proofs about Response and Dashboard together, for any processes, PIDs   *)
(* and protection policy, and any number of requests and keys: a command   *)
(* and the dashboard are at work at the same time, on the same machine.    *)
(***************************************************************************)
EXTENDS Dashboard, SequenceTheorems, TLAPS

allVars == <<responseVars, dashboardVars>>
NextBoth == (NextCommand /\ UNCHANGED dashboardVars) \/ NextDashboard
BothSpec == InitResponse /\ InitDashboard /\ [][NextBoth]_allVars

(***************************************************************************)
(* The inductive invariant, in named parts                                 *)
(***************************************************************************)
Verbs == ProcessVerbs \cup FirewallVerbs \cup {"trim"}
Phases == {"asking", "verify", "operate", "record", "list"}
Outcomes == {"none", "SUCCEEDED", "FAILED", "DENIED_BY_POLICY", "CANCELLED"}

Fields == {"id", "verb", "process", "meant", "phase", "forced", "checked", "outcome"}

IsRequest(r) ==
  /\ r = [f \in Fields |-> r[f]]
  /\ r.id \in Nat /\ r.verb \in Verbs /\ r.phase \in Phases /\ r.outcome \in Outcomes

\* A request is about the process that was meant; what is operated on has been checked to
\* be that one; what is refused is never asked about.
Sensible(r) ==
  /\ IsRequest(r)
  /\ r.verb \in ProcessVerbs => r.process = r.meant
  /\ r.phase = "operate" /\ r.verb \in ProcessVerbs => r.checked = r.process
  /\ r.phase \in {"asking", "verify", "operate"} => r.outcome = "none"
  /\ r.phase = "asking" => ~Refused(r.verb, r.process, r.forced)
  /\ r.phase = "list" => r.verb \in FirewallVerbs /\ r.outcome = "SUCCEEDED"

\* Everybody's request is sensible, and another one than the others'.
RequestInv ==
  /\ made \in Nat /\ DOMAIN request = Agents /\ request = [a \in Agents |-> request[a]]
  /\ \A a \in Agents : request[a] # Idle => Sensible(request[a]) /\ request[a].id \in 1..made
  /\ \A a, b \in Agents :
       a # b /\ request[a] # Idle /\ request[b] # Idle => request[a].id # request[b].id

\* What is about to be recorded has no row yet; nothing else lacks one but firewall
\* commands that were declined.
RowInv ==
  /\ \A row \in unmatched : DeclinedFirewall(row) \/ \E a \in Agents :
       request[a].phase = "record" /\ row = Row(request[a], request[a].outcome)
  /\ \A a \in Agents :
       request[a].phase = "record" => Row(request[a], request[a].outcome) \in unmatched

\* Only a command is about the firewall.  The table is right, or is about to be.
Succeeded(r) == r # Idle /\ r.verb \in FirewallVerbs /\ r.outcome = "SUCCEEDED"
FirewallInv ==
  /\ \A a \in {"dashboard", "trimmer"} : request[a] # Idle => request[a].verb \notin FirewallVerbs
  /\ ~unsure => IF Succeeded(request["cli"]) THEN inForce <=> request["cli"].verb = "block"
                ELSE listed => inForce

\* A Y that is meant for a process is the first key, and the dialog open is the one it
\* was pressed for.  A dialog asks what may be done.
DialogInv ==
  /\ \E S : keys \in Seq(S)
  /\ \A i \in 1..Len(keys) : keys[i] # NoOne =>
       i = 1 /\ dialog.kind = "stop" /\ keys[i] = dialog.process
  /\ dialog.kind = "stop" => dialog.process \notin Protected
  /\ dialog.kind = "trim" => request["trimmer"] = Idle

IInv == RequestInv /\ RowInv /\ FirewallInv /\ DialogInv /\ OnlyConfirmedIsHit

(***************************************************************************)
(* Lemmas about the operators                                              *)
(***************************************************************************)
Same(q, r) ==
  /\ q.id = r.id /\ q.verb = r.verb /\ q.process = r.process /\ q.meant = r.meant
  /\ q.forced = r.forced

LEMMA RequestIsNotIdle == \A r : IsRequest(r) => r # Idle /\ r.phase \in Phases /\ r.id \in Nat
                                 /\ r.verb \in Verbs /\ r.outcome \in Outcomes
BY DEF IsRequest, Idle, Phases

LEMMA PhaseChange ==
  ASSUME NEW r, IsRequest(r), NEW phase \in Phases
  PROVE  LET q == [r EXCEPT !.phase = phase] IN
         /\ IsRequest(q) /\ Same(q, r)
         /\ q.phase = phase /\ q.outcome = r.outcome
<1>1. r = [f \in Fields |-> r[f]]
      /\ r.id \in Nat /\ r.verb \in Verbs /\ r.phase \in Phases /\ r.outcome \in Outcomes
  BY DEF IsRequest
<1> QED BY <1>1 DEF IsRequest, Same, Fields, Phases, Recording

LEMMA OutcomeChange ==
  ASSUME NEW r, IsRequest(r), NEW outcome \in Outcomes
  PROVE  LET q == Recording(r, outcome) IN
         /\ IsRequest(q) /\ Same(q, r)
         /\ q.phase = "record" /\ q.outcome = outcome
<1>1. r = [f \in Fields |-> r[f]]
      /\ r.id \in Nat /\ r.verb \in Verbs /\ r.phase \in Phases /\ r.outcome \in Outcomes
  BY DEF IsRequest
<1> QED BY <1>1 DEF IsRequest, Same, Fields, Phases, Recording

LEMMA CheckedChange ==
  ASSUME NEW r, IsRequest(r), NEW c
  PROVE  LET q == [r EXCEPT !.phase = "operate", !.checked = c] IN
         /\ IsRequest(q) /\ Same(q, r)
         /\ q.phase = "operate" /\ q.outcome = r.outcome /\ q.checked = c
<1>1. r = [f \in Fields |-> r[f]]
      /\ r.id \in Nat /\ r.verb \in Verbs /\ r.phase \in Phases /\ r.outcome \in Outcomes
  BY DEF IsRequest
<1> QED BY <1>1 DEF IsRequest, Same, Fields, Phases, Recording

LEMMA NewRequest ==
  ASSUME made \in Nat, NEW verb \in Verbs, NEW p, NEW phase \in Phases, NEW f
  PROVE  LET q == New(verb, p, phase, f) IN
         /\ IsRequest(q) /\ q.id = made + 1 /\ q.verb = verb /\ q.process = p /\ q.meant = p
         /\ q.forced = f /\ q.phase = phase /\ q.outcome = "none"
<1>1. made + 1 \in Nat /\ "none" \in Outcomes
  BY DEF Outcomes
<1>2. IsRequest(New(verb, p, phase, f))
  BY <1>1 DEF IsRequest, New, Fields
<1> QED BY <1>2 DEF New

LEMMA RecordingIsSensible ==
  ASSUME NEW r, Sensible(r), NEW outcome \in Outcomes
  PROVE  LET q == Recording(r, outcome) IN
         Sensible(q) /\ Same(q, r) /\ q.phase = "record" /\ q.outcome = outcome
<1>1. /\ IsRequest(Recording(r, outcome)) /\ Same(Recording(r, outcome), r)
      /\ Recording(r, outcome).phase = "record" /\ Recording(r, outcome).outcome = outcome
  BY OutcomeChange DEF Sensible
<1> QED BY <1>1 DEF Sensible, Same

LEMMA CarryIsSensible ==
  ASSUME NEW r, Sensible(r), ~Refused(r.verb, r.process, r.forced), r.outcome = "none"
  PROVE  Sensible(Carry(r)) /\ Same(Carry(r), r) /\ Carry(r).phase \in {"verify", "operate"}
         /\ Carry(r).outcome = "none"
<1>1. Carry(r) = [r EXCEPT !.phase = NextPhase(r.verb)]
  BY DEF Carry
<1>2. NextPhase(r.verb) \in {"verify", "operate"}
      /\ (r.verb \in ProcessVerbs => NextPhase(r.verb) = "verify")
  BY DEF NextPhase
<1>3. IsRequest(Carry(r)) /\ Same(Carry(r), r) /\ Carry(r).phase = NextPhase(r.verb)
      /\ Carry(r).outcome = r.outcome
  <2>1. IsRequest(r) /\ NextPhase(r.verb) \in Phases
    BY <1>2 DEF Sensible, Phases
  <2> QED BY <1>1, <2>1, PhaseChange
<1> QED BY <1>2, <1>3 DEF Sensible, Same

(***************************************************************************)
(* A step of one agent's request                                           *)
(***************************************************************************)

\* The request goes on, ends, or is a new one.
GoesOn(a, r) ==
  /\ \/ r = Idle /\ made' = made
     \/ /\ Sensible(r) /\ request[a] # Idle /\ r.id = request[a].id /\ made' = made
     \/ /\ Sensible(r) /\ r.id = made + 1 /\ made' = made + 1
  /\ r # Idle /\ a # "cli" => r.verb \notin FirewallVerbs

\* Its row is owed from when it is to be recorded until it is.
RowFollows(a, r) ==
  \/ request[a].phase # "record" /\ r.phase # "record" /\ UNCHANGED unmatched
  \/ /\ request[a].phase # "record" /\ r.phase # "record"
     /\ \E row : DeclinedFirewall(row) /\ unmatched' = unmatched \cup {row}
  \/ /\ request[a].phase # "record" /\ r.phase = "record"
     /\ unmatched' = unmatched \cup {Row(r, r.outcome)}
  \/ request[a].phase = "record" /\ r.phase # "record" /\ Written(request[a])
  \/ request[a] # Idle /\ r.phase # "record" /\ Lost(request[a])

\* The firewall, the table and the doubt follow the command.
FirewallFollows(a, r) ==
  /\ a = "cli" /\ ~unsure' =>
       IF Succeeded(r) THEN inForce' <=> r.verb = "block" ELSE listed' => inForce'
  /\ a # "cli" => UNCHANGED <<inForce, listed>> /\ (unsure => unsure')

Progress(a, r) ==
  Step(a, r) /\ GoesOn(a, r) /\ RowFollows(a, r) /\ FirewallFollows(a, r) /\ OnlyConfirmedIsHit'

LEMMA Steps ==
  ASSUME RequestInv, NEW a \in Agents, NEW r, Step(a, r)
  PROVE  /\ DOMAIN request' = Agents /\ request' = [b \in Agents |-> request'[b]]
         /\ request'[a] = r /\ \A b \in Agents : b # a => request'[b] = request[b]
BY DEF RequestInv, Step

LEMMA RequestKept ==
  ASSUME RequestInv, NEW a \in Agents, NEW r, Step(a, r), GoesOn(a, r)
  PROVE  RequestInv'
<1>1. /\ DOMAIN request' = Agents /\ request' = [b \in Agents |-> request'[b]]
      /\ request'[a] = r /\ \A b \in Agents : b # a => request'[b] = request[b]
  BY Steps
<1>2. made \in Nat /\ made' \in {made, made + 1}
  BY DEF RequestInv, GoesOn
<1>3. \A b \in Agents : request[b] # Idle => Sensible(request[b]) /\ request[b].id \in 1..made
  BY DEF RequestInv
<1>4. r # Idle => Sensible(r) /\ r.id \in 1..made'
  BY <1>2, <1>3 DEF GoesOn
<1>5. r # Idle => \A b \in Agents : b # a /\ request[b] # Idle => request[b].id # r.id
  <2>1. CASE r.id = made + 1
    BY <1>2, <1>3, <2>1
  <2>2. CASE request[a] # Idle /\ r.id = request[a].id
    BY <2>2 DEF RequestInv
  <2> QED BY <2>1, <2>2 DEF GoesOn
<1>6. \A b \in Agents : request'[b] # Idle => Sensible(request'[b]) /\ request'[b].id \in 1..made'
  BY <1>1, <1>2, <1>3, <1>4
<1>7. \A b, c \in Agents :
        b # c /\ request'[b] # Idle /\ request'[c] # Idle => request'[b].id # request'[c].id
  BY <1>1, <1>5 DEF RequestInv
<1> QED BY <1>1, <1>2, <1>6, <1>7 DEF RequestInv

LEMMA RowKept ==
  ASSUME RequestInv, RowInv, NEW a \in Agents, NEW r, Step(a, r), GoesOn(a, r), RowFollows(a, r)
  PROVE  RowInv'
<1>1. request'[a] = r /\ \A b \in Agents : b # a => request'[b] = request[b]
  BY Steps
<1>2. \A b \in Agents : request[b].phase = "record" =>
        request[b] # Idle /\ Row(request[b], request[b].outcome) \in unmatched
  BY DEF RowInv, Idle
<1>3. \A row \in unmatched : DeclinedFirewall(row) \/ \E b \in Agents :
        request[b].phase = "record" /\ row = Row(request[b], request[b].outcome)
  BY DEF RowInv
<1>4. \A q, o : Row(q, o).id = q.id
  BY DEF Row
<1>5. \A b \in Agents : b # a /\ request[b] # Idle /\ request[a] # Idle =>
        request[b].id # request[a].id
  BY DEF RequestInv
<1>6. CASE request[a].phase # "record" /\ r.phase # "record" /\ UNCHANGED unmatched
  BY <1>1, <1>2, <1>3, <1>6 DEF RowInv
<1>7. CASE /\ request[a].phase # "record" /\ r.phase = "record"
           /\ unmatched' = unmatched \cup {Row(r, r.outcome)}
  BY <1>1, <1>2, <1>3, <1>7 DEF RowInv
<1>8. ASSUME request[a] # Idle, r.phase # "record",
             unmatched' = {row \in unmatched : row.id # request[a].id}
      PROVE  RowInv'
  <2>1. \A row \in unmatched' : DeclinedFirewall(row) \/ \E b \in Agents :
          b # a /\ request[b].phase = "record" /\ row = Row(request[b], request[b].outcome)
    BY <1>3, <1>4, <1>8
  <2>2. \A b \in Agents : b # a /\ request[b].phase = "record" =>
          Row(request[b], request[b].outcome) \in unmatched'
    BY <1>2, <1>4, <1>5, <1>8
  <2> QED BY <1>1, <1>8, <2>1, <2>2 DEF RowInv
<1>9. CASE request[a].phase = "record" /\ r.phase # "record" /\ Written(request[a])
  <2>1. request[a] # Idle /\ Row(request[a], request[a].outcome) \in unmatched
    BY <1>2, <1>9
  <2>2. unmatched' = unmatched \ {Row(request[a], request[a].outcome)}
    BY <1>9, <2>1 DEF Written
  <2>3. \A row \in unmatched' : DeclinedFirewall(row) \/ \E b \in Agents :
          b # a /\ request[b].phase = "record" /\ row = Row(request[b], request[b].outcome)
    BY <1>3, <2>2
  <2>4. \A b \in Agents : b # a /\ request[b].phase = "record" =>
          Row(request[b], request[b].outcome) \in unmatched'
    BY <1>2, <1>4, <1>5, <2>1, <2>2
  <2> QED BY <1>1, <1>9, <2>3, <2>4 DEF RowInv
<1>10. ASSUME request[a].phase # "record", r.phase # "record",
              NEW row, DeclinedFirewall(row), unmatched' = unmatched \cup {row}
       PROVE  RowInv'
  <2>1. \A x \in unmatched' : DeclinedFirewall(x) \/ \E b \in Agents :
          b # a /\ request[b].phase = "record" /\ x = Row(request[b], request[b].outcome)
    BY <1>3, <1>10
  <2>2. \A b \in Agents : request[b].phase = "record" =>
          b # a /\ Row(request[b], request[b].outcome) \in unmatched'
    BY <1>2, <1>10
  <2> QED BY <1>1, <1>10, <2>1, <2>2 DEF RowInv
<1> QED BY <1>6, <1>7, <1>8, <1>9, <1>10 DEF RowFollows, Lost

LEMMA FirewallKept ==
  ASSUME RequestInv, FirewallInv, NEW a \in Agents, NEW r,
         Step(a, r), GoesOn(a, r), FirewallFollows(a, r)
  PROVE  FirewallInv'
<1>1. request'[a] = r /\ \A b \in Agents : b # a => request'[b] = request[b]
  BY Steps
<1>2. \A b \in {"dashboard", "trimmer"} :
        request'[b] # Idle => request'[b].verb \notin FirewallVerbs
  BY <1>1 DEF FirewallInv, GoesOn, Agents
<1>3. ~unsure' => IF Succeeded(request'["cli"]) THEN inForce' <=> request'["cli"].verb = "block"
                  ELSE listed' => inForce'
  <2>1. CASE a = "cli"
    BY <1>1, <2>1 DEF FirewallFollows
  <2>2. CASE a # "cli"
    BY <1>1, <2>2 DEF FirewallFollows, FirewallInv, Agents
  <2> QED BY <2>1, <2>2
<1> QED BY <1>2, <1>3 DEF FirewallInv

LEMMA ProgressKeeps ==
  ASSUME RequestInv, RowInv, FirewallInv, NEW a \in Agents, NEW r, Progress(a, r)
  PROVE  RequestInv' /\ RowInv' /\ FirewallInv' /\ OnlyConfirmedIsHit'
BY RequestKept, RowKept, FirewallKept DEF Progress

\* What is known of a request that is not idle.
LEMMA RequestFacts ==
  ASSUME RequestInv, FirewallInv, NEW a \in Agents, request[a].phase # "idle"
  PROVE  /\ request[a] # Idle /\ Sensible(request[a])
         /\ a # "cli" => request[a].verb \notin FirewallVerbs
BY DEF RequestInv, FirewallInv, Idle, Agents

LEMMA Idleness == Idle.phase = "idle" /\ ~Succeeded(Idle)
BY DEF Idle, Succeeded

(***************************************************************************)
(* The steps of a request                                                  *)
(***************************************************************************)
LEMMA SettleProgresses ==
  ASSUME RequestInv, FirewallInv, NEW a \in Agents, NEW outcome \in Outcomes \ {"none"},
         request[a].phase \in {"asking", "verify", "operate"}, Settle(a, outcome),
         UNCHANGED made, OnlyConfirmedIsHit',
         FirewallFollows(a, Recording(request[a], outcome))
  PROVE  Progress(a, Recording(request[a], outcome))
<1>1. request[a] # Idle /\ Sensible(request[a])
      /\ (a # "cli" => request[a].verb \notin FirewallVerbs)
  BY RequestFacts
<1> DEFINE q == Recording(request[a], outcome)
<1>2. Sensible(q) /\ Same(q, request[a]) /\ q.phase = "record" /\ q.outcome = outcome
  BY <1>1, RecordingIsSensible
<1>3. Step(a, q) /\ unmatched' = unmatched \cup {Row(request[a], outcome)}
  BY DEF Settle
<1>4. Row(request[a], outcome) = Row(q, q.outcome)
  BY <1>2 DEF Row, Same
<1> HIDE DEF q
<1>5. GoesOn(a, q)
  BY <1>1, <1>2 DEF GoesOn, Same
<1>6. RowFollows(a, q)
  BY <1>2, <1>3, <1>4 DEF RowFollows
<1> QED BY <1>3, <1>5, <1>6 DEF Progress, q

\* A step that leaves the firewall and its table alone, of a request that has not
\* changed them.
LEMMA FirewallAlone ==
  ASSUME RequestInv, FirewallInv, NEW a \in Agents, NEW r,
         UNCHANGED <<inForce, listed, unsure>>,
         Succeeded(r) <=> Succeeded(request[a]),
         Succeeded(r) => r.verb = request[a].verb
  PROVE  FirewallFollows(a, r)
BY DEF FirewallFollows, FirewallInv, Agents

LEMMA UnfinishedHasNotSucceeded ==
  ASSUME RequestInv, FirewallInv, NEW a \in Agents,
         request[a].phase \in {"asking", "verify", "operate"} \/ a # "cli" \/ request[a].verb \notin FirewallVerbs
  PROVE  ~Succeeded(request[a])
<1>1. CASE request[a] = Idle
  BY <1>1, Idleness
<1>2. CASE request[a] # Idle /\ request[a].phase \in {"asking", "verify", "operate"}
  BY <1>2 DEF RequestInv, Sensible, Succeeded
<1>3. CASE request[a] # Idle /\ a # "cli"
  BY <1>3 DEF FirewallInv, Succeeded, Agents
<1>4. CASE request[a].verb \notin FirewallVerbs
  BY <1>4 DEF Succeeded
<1> QED BY <1>1, <1>2, <1>3, <1>4

LEMMA VerifyProgresses ==
  ASSUME IInv, NEW a \in Agents, Verify(a)
  PROVE  \E r : Progress(a, r)
<1> USE DEF IInv
<1>1. /\ request[a].phase = "verify" /\ OnlyConfirmedIsHit'
      /\ UNCHANGED <<inForce, made, listed, unsure, hit>>
  BY DEF Verify, machine, OnlyConfirmedIsHit
<1>2. request[a] # Idle /\ Sensible(request[a]) /\ ~Succeeded(request[a])
      /\ (a # "cli" => request[a].verb \notin FirewallVerbs)
  BY <1>1, RequestFacts, UnfinishedHasNotSucceeded
<1>3. ASSUME NEW p \in Verified(request[a]), UNCHANGED unmatched,
             Step(a, [request[a] EXCEPT !.phase = "operate", !.checked = p])
      PROVE  \E r : Progress(a, r)
  <2> DEFINE q == [request[a] EXCEPT !.phase = "operate", !.checked = p]
  <2>1. p = request[a].process
    BY <1>3 DEF Verified
  <2>2. /\ IsRequest(q) /\ Same(q, request[a])
        /\ q.phase = "operate" /\ q.outcome = request[a].outcome /\ q.checked = p
    BY <1>2, CheckedChange DEF Sensible
  <2> HIDE DEF q
  <2>3. Sensible(q) /\ ~Succeeded(q)
    BY <1>1, <1>2, <2>1, <2>2 DEF Sensible, Same, Succeeded
  <2>4. FirewallFollows(a, q)
    BY <1>1, <1>2, <2>3, FirewallAlone
  <2>5. GoesOn(a, q) /\ RowFollows(a, q)
    BY <1>1, <1>2, <1>3, <2>2, <2>3 DEF GoesOn, RowFollows, Same
  <2>6. Step(a, q)
    BY <1>3 DEF q
  <2> QED BY <1>1, <2>4, <2>5, <2>6 DEF Progress
<1>4. ASSUME Settle(a, "FAILED") PROVE \E r : Progress(a, r)
  <2> DEFINE q == Recording(request[a], "FAILED")
  <2>1. q.outcome = "FAILED"
    BY <1>2, RecordingIsSensible DEF Outcomes
  <2> HIDE DEF q
  <2>2. ~Succeeded(q)
    BY <2>1 DEF Succeeded
  <2>3. FirewallFollows(a, q)
    BY <1>1, <1>2, <2>2, FirewallAlone
  <2> QED BY <1>1, <1>4, <2>3, SettleProgresses DEF q, Outcomes
<1> QED BY <1>3, <1>4 DEF Verify

LEMMA OperateProgresses ==
  ASSUME IInv, NEW a \in Agents, Operate(a)
  PROVE  \E r : Progress(a, r)
<1> USE DEF IInv
<1>1. request[a].phase = "operate" /\ UNCHANGED made
  BY DEF Operate, OperateOnProcess, Trim, OperateFirewall
<1>2. request[a] # Idle /\ Sensible(request[a]) /\ ~Succeeded(request[a])
      /\ (a # "cli" => request[a].verb \notin FirewallVerbs)
  BY <1>1, RequestFacts, UnfinishedHasNotSucceeded
<1>3. \A o \in Outcomes : LET q == Recording(request[a], o) IN
        q.outcome = o /\ q.verb = request[a].verb /\ q # Idle
  BY <1>2, RecordingIsSensible, RequestIsNotIdle DEF Same, Sensible
<1>4. ASSUME NEW o \in {"SUCCEEDED", "FAILED"}, Settle(a, o), OnlyConfirmedIsHit',
             UNCHANGED <<inForce, listed, unsure>>, request[a].verb \notin FirewallVerbs
      PROVE  \E r : Progress(a, r)
  <2> DEFINE q == Recording(request[a], o)
  <2>1. q.verb = request[a].verb
    BY <1>3 DEF Outcomes
  <2> HIDE DEF q
  <2>2. ~Succeeded(q)
    BY <1>4, <2>1 DEF Succeeded
  <2>3. FirewallFollows(a, q)
    BY <1>2, <1>4, <2>2, FirewallAlone
  <2> QED BY <1>1, <1>4, <2>3, SettleProgresses DEF q, Outcomes
<1>5. ASSUME OperateOnProcess(a) PROVE \E r : Progress(a, r)
  <2>1. /\ request[a].verb \in ProcessVerbs /\ UNCHANGED <<inForce, listed, unsure>>
        /\ \E o \in {"SUCCEEDED", "FAILED"} : Settle(a, o)
    BY <1>5 DEF OperateOnProcess
  <2>2. request[a].verb \notin FirewallVerbs
    BY <2>1 DEF ProcessVerbs, FirewallVerbs
  <2>3. request[a].checked = request[a].meant
    BY <1>1, <1>2, <2>1 DEF Sensible
  <2>4. OnlyConfirmedIsHit'
    BY <1>5, <2>3 DEF OperateOnProcess, OnlyConfirmedIsHit
  <2> QED BY <1>4, <2>1, <2>2, <2>4
<1>6. ASSUME Trim(a) PROVE \E r : Progress(a, r)
  <2>1. /\ request[a].verb = "trim" /\ UNCHANGED <<inForce, listed, unsure, hit>>
        /\ \E o \in {"SUCCEEDED", "FAILED"} : Settle(a, o)
    BY <1>6 DEF Trim, machine
  <2> QED BY <1>4, <2>1 DEF OnlyConfirmedIsHit, FirewallVerbs
<1>7. ASSUME OperateFirewall(a) PROVE \E r : Progress(a, r)
  <2>1. PICK done, ok \in BOOLEAN :
          /\ ok => done
          /\ inForce' = IF done THEN request[a].verb = "block" ELSE inForce
          /\ Settle(a, IF ok THEN "SUCCEEDED" ELSE "FAILED")
          /\ unsure' = (IF ok THEN FALSE ELSE unsure \/ done)
    BY <1>7 DEF OperateFirewall, Answered
  <2>2. request[a].verb \in FirewallVerbs /\ UNCHANGED <<listed, hit>> /\ a = "cli"
    BY <1>2, <1>7 DEF OperateFirewall
  <2> DEFINE o == IF ok THEN "SUCCEEDED" ELSE "FAILED"
             q == Recording(request[a], o)
  <2>3. o \in {"SUCCEEDED", "FAILED"} /\ (o = "SUCCEEDED" <=> ok) /\ Settle(a, o)
    BY <2>1
  <2> HIDE DEF o
  <2>4. q.outcome = o /\ q.verb = request[a].verb /\ q # Idle
    BY <1>3, <2>3 DEF Outcomes
  <2> HIDE DEF q
  <2>5. Succeeded(q) <=> ok
    BY <2>2, <2>3, <2>4 DEF Succeeded
  <2>6. FirewallFollows(a, q)
    <3>1. CASE ok
      BY <2>1, <2>2, <2>4, <2>5, <3>1 DEF FirewallFollows
    <3>2. CASE ~ok
      BY <1>2, <2>1, <2>2, <2>5, <3>2 DEF FirewallFollows, FirewallInv
    <3> QED BY <3>1, <3>2
  <2>7. OnlyConfirmedIsHit'
    BY <2>2 DEF OnlyConfirmedIsHit
  <2> QED BY <1>1, <2>3, <2>6, <2>7, SettleProgresses DEF q, Outcomes
<1> QED BY <1>5, <1>6, <1>7 DEF Operate

\* After the record the request is over, or goes on to the table.
LEMMA AfterRecordFacts ==
  ASSUME RequestInv, FirewallInv, NEW a \in Agents, request[a].phase = "record", UNCHANGED made
  PROVE  LET q == AfterRecord(request[a]) IN
         /\ GoesOn(a, q) /\ q.phase # "record" /\ (Succeeded(q) <=> Succeeded(request[a]))
         /\ Succeeded(q) => q.verb = request[a].verb
<1>1. request[a] # Idle /\ Sensible(request[a])
      /\ (a # "cli" => request[a].verb \notin FirewallVerbs)
  BY RequestFacts
<1>2. CASE Succeeded(request[a])
  <2> DEFINE q == [request[a] EXCEPT !.phase = "list"]
  <2>1. AfterRecord(request[a]) = q
    BY <1>2 DEF AfterRecord, Succeeded
  <2>2. IsRequest(q) /\ Same(q, request[a]) /\ q.phase = "list" /\ q.outcome = request[a].outcome
    BY <1>1, PhaseChange DEF Sensible, Phases
  <2>3. q # Idle
    BY <2>2, RequestIsNotIdle
  <2> HIDE DEF q
  <2>4. Sensible(q) /\ Succeeded(q)
    BY <1>1, <1>2, <2>2, <2>3 DEF Sensible, Same, Succeeded, ProcessVerbs, FirewallVerbs
  <2> QED BY <1>1, <1>2, <2>1, <2>2, <2>4 DEF GoesOn, Same
<1>3. CASE ~Succeeded(request[a])
  <2>1. AfterRecord(request[a]) = Idle
    BY <1>1, <1>3 DEF AfterRecord, Succeeded
  <2> QED BY <1>3, <2>1, Idleness DEF GoesOn
<1> QED BY <1>2, <1>3

LEMMA RecordProgresses ==
  ASSUME IInv, NEW a \in Agents, Record(a) \/ NotRecorded(a)
  PROVE  \E r : Progress(a, r)
<1> USE DEF IInv
<1> DEFINE q == AfterRecord(request[a])
<1>1. /\ request[a].phase = "record" /\ Step(a, q)
      /\ Written(request[a]) \/ Lost(request[a])
      /\ UNCHANGED <<inForce, made, listed, unsure, hit>>
  BY DEF Record, NotRecorded, machine
<1>2. /\ GoesOn(a, q) /\ q.phase # "record" /\ (Succeeded(q) <=> Succeeded(request[a]))
      /\ Succeeded(q) => q.verb = request[a].verb
  BY <1>1, AfterRecordFacts
<1>3. request[a] # Idle
  BY <1>1, RequestFacts
<1> HIDE DEF q
<1>4. RowFollows(a, q)
  BY <1>1, <1>2, <1>3 DEF RowFollows
<1>5. FirewallFollows(a, q)
  BY <1>1, <1>2, FirewallAlone
<1> QED BY <1>1, <1>2, <1>4, <1>5 DEF Progress, OnlyConfirmedIsHit

LEMMA RecordRaisesProgresses ==
  ASSUME IInv, NEW a \in Agents, RecordRaises(a)
  PROVE  Progress(a, Idle)
<1> USE DEF IInv
<1>1. /\ request[a].phase = "record" /\ Step(a, Idle) /\ Lost(request[a])
      /\ unsure' = (unsure \/ (request[a].verb \in FirewallVerbs /\ request[a].outcome = "SUCCEEDED"))
      /\ UNCHANGED <<inForce, made, listed, hit>>
  BY DEF RecordRaises, machine
<1>2. request[a] # Idle
  BY <1>1, RequestFacts
<1>3. GoesOn(a, Idle) /\ RowFollows(a, Idle)
  BY <1>1, <1>2, Idleness DEF GoesOn, RowFollows
<1>4. FirewallFollows(a, Idle)
  BY <1>1, <1>2, Idleness DEF FirewallFollows, FirewallInv, Succeeded
<1> QED BY <1>1, <1>3, <1>4 DEF Progress, OnlyConfirmedIsHit

(***************************************************************************)
(* Commands                                                                *)
(***************************************************************************)
LEMMA RecordRuleProgresses ==
  ASSUME IInv, RecordRule
  PROVE  Progress("cli", Idle)
<1> USE DEF IInv
<1>1. /\ "cli" \in Agents /\ request["cli"].phase = "list" /\ Step("cli", Idle)
      /\ \/ listed' = (request["cli"].verb = "block") /\ UNCHANGED unsure
         \/ unsure' = TRUE
      /\ UNCHANGED <<inForce, made, unmatched, hit>>
  BY DEF RecordRule, Agents, machine
<1>2. request["cli"] # Idle /\ Succeeded(request["cli"])
  BY <1>1, RequestFacts DEF Sensible, Succeeded
<1>3. GoesOn("cli", Idle) /\ RowFollows("cli", Idle)
  BY <1>1, Idleness DEF GoesOn, RowFollows
<1>4. ~unsure' => (listed' => inForce')
  <2>1. ~unsure => (inForce <=> request["cli"].verb = "block")
    BY <1>2 DEF FirewallInv
  <2>2. CASE listed' = (request["cli"].verb = "block") /\ UNCHANGED unsure
    BY <1>1, <2>1, <2>2
  <2>3. CASE unsure' = TRUE
    BY <2>3
  <2> QED BY <1>1, <2>2, <2>3
<1>5. FirewallFollows("cli", Idle)
  BY <1>4, Idleness DEF FirewallFollows
<1> QED BY <1>1, <1>5, <1>3, <1>4 DEF Progress, OnlyConfirmedIsHit

LEMMA InterruptProgresses ==
  ASSUME IInv, Interrupt
  PROVE  Progress("cli", Idle)
<1> USE DEF IInv
<1>1. /\ "cli" \in Agents /\ request["cli"] # Idle /\ Step("cli", Idle) /\ Lost(request["cli"])
      /\ unsure' = (unsure \/ (request["cli"].verb \in FirewallVerbs /\ request["cli"].outcome = "SUCCEEDED"))
      /\ UNCHANGED <<inForce, made, listed, hit>>
  BY DEF Interrupt, Agents, machine
<1>2. GoesOn("cli", Idle) /\ RowFollows("cli", Idle)
  BY <1>1, Idleness DEF GoesOn, RowFollows
<1>3. FirewallFollows("cli", Idle)
  BY <1>1, Idleness DEF FirewallFollows, FirewallInv, Succeeded
<1> QED BY <1>1, <1>2, <1>3 DEF Progress, OnlyConfirmedIsHit

\* A request that begins, asks or not, or is refused or declined at once.
LEMMA BeginProgresses ==
  ASSUME IInv, NEW a \in Agents, request[a] = Idle, made' = made + 1, OnlyConfirmedIsHit',
         UNCHANGED <<inForce, listed, unsure>>,
         NEW r, Sensible(r), r.id = made + 1, Step(a, r), ~Succeeded(r),
         a # "cli" => r.verb \notin FirewallVerbs,
         \/ r.phase # "record" /\ UNCHANGED unmatched
         \/ r.phase = "record" /\ unmatched' = unmatched \cup {Row(r, r.outcome)}
  PROVE  Progress(a, r)
<1> USE DEF IInv
<1>1. GoesOn(a, r) /\ RowFollows(a, r)
  BY Idleness DEF GoesOn, RowFollows
<1>2. FirewallFollows(a, r)
  BY Idleness, FirewallAlone
<1> QED BY <1>1, <1>2 DEF Progress

\* What is decided at once has the row that Decided adds.
LEMMA DecidedFacts ==
  ASSUME NEW a \in Agents, NEW r, Sensible(r), NEW outcome \in {"DENIED_BY_POLICY", "CANCELLED"},
         Decided(a, r, outcome)
  PROVE  LET q == Recording(r, outcome) IN
         /\ Sensible(q) /\ Same(q, r) /\ q.phase = "record" /\ ~Succeeded(q)
         /\ Step(a, q) /\ unmatched' = unmatched \cup {Row(q, q.outcome)}
<1>1. LET q == Recording(r, outcome) IN
      Sensible(q) /\ Same(q, r) /\ q.phase = "record" /\ q.outcome = outcome
  BY RecordingIsSensible DEF Outcomes
<1> QED BY <1>1 DEF Decided, Row, Same, Succeeded

LEMMA NewIsSensible ==
  ASSUME made \in Nat, NEW verb \in Verbs, NEW p, NEW f,
         NEW phase \in {"asking", "verify", "record"}, phase = "asking" => ~Refused(verb, p, f)
  PROVE  LET q == New(verb, p, phase, f) IN
         /\ Sensible(q) /\ q.id = made + 1 /\ q.verb = verb /\ q.process = p /\ q.meant = p
         /\ q.forced = f /\ q.phase = phase /\ q.outcome = "none" /\ ~Succeeded(q)
<1>1. phase \in Phases
  BY DEF Phases
<1>2. LET q == New(verb, p, phase, f) IN
      /\ IsRequest(q) /\ q.id = made + 1 /\ q.verb = verb /\ q.process = p /\ q.meant = p
      /\ q.forced = f /\ q.phase = phase /\ q.outcome = "none"
  BY <1>1, NewRequest
<1> QED BY <1>2 DEF Sensible, Succeeded

LEMMA NewTrim ==
  ASSUME made \in Nat
  PROVE  LET q == New("trim", NoOne, "operate", FALSE) IN
         Sensible(q) /\ q.id = made + 1 /\ q.verb = "trim" /\ q.phase = "operate" /\ ~Succeeded(q)
<1> DEFINE f == FALSE
<1> HIDE DEF f
<1>1. "trim" \in Verbs /\ "operate" \in Phases
  BY DEF Verbs, Phases
<1>2. LET q == New("trim", NoOne, "operate", f) IN
      IsRequest(q) /\ q.id = made + 1 /\ q.verb = "trim" /\ q.phase = "operate" /\ q.outcome = "none"
  BY <1>1, NewRequest
<1>3. "trim" \notin ProcessVerbs
  BY DEF ProcessVerbs
<1> QED BY <1>2, <1>3 DEF f, Sensible, Succeeded

LEMMA NobodyIsNotRefused == \A verb, f : ~Refused(verb, NoOne, f)
BY ResponseAssumption DEF ResponseAssumption, Refused

LEMMA CommandProgresses ==
  ASSUME IInv, Command
  PROVE  \E r : Progress("cli", r)
<1> USE DEF IInv
<1>1. /\ "cli" \in Agents /\ request["cli"] = Idle /\ made' = made + 1 /\ OnlyConfirmedIsHit'
      /\ UNCHANGED <<inForce, listed, unsure>> /\ made \in Nat
  BY DEF Command, Agents, machine, OnlyConfirmedIsHit, RequestInv
<1>2. ASSUME NEW verb \in Verbs, NEW p, NEW forced \in BOOLEAN, ~Refused(verb, p, forced),
             UNCHANGED unmatched,
             \/ Step("cli", New(verb, p, "asking", forced))
             \/ Step("cli", Carry(New(verb, p, "asking", forced)))
      PROVE  \E r : Progress("cli", r)
  <2> DEFINE n == New(verb, p, "asking", forced)
  <2>1. /\ Sensible(n) /\ n.id = made + 1 /\ n.phase = "asking" /\ n.outcome = "none"
        /\ ~Succeeded(n) /\ ~Refused(n.verb, n.process, n.forced)
    BY <1>1, <1>2, NewIsSensible
  <2>2. Step("cli", n) \/ Step("cli", Carry(n))
    BY <1>2
  <2> HIDE DEF n
  <2>3. /\ Sensible(Carry(n)) /\ Carry(n).id = made + 1 /\ Carry(n).phase # "record"
        /\ ~Succeeded(Carry(n))
    BY <2>1, CarryIsSensible DEF Same, Succeeded
  <2>4. CASE Step("cli", n)
    BY <1>1, <1>2, <2>1, <2>4, BeginProgresses
  <2>5. CASE Step("cli", Carry(n))
    BY <1>1, <1>2, <2>3, <2>5, BeginProgresses
  <2> QED BY <2>2, <2>4, <2>5
<1>3. ASSUME NEW verb \in ProcessVerbs, NEW p, NEW forced \in BOOLEAN, Refused(verb, p, forced),
             Decided("cli", New(verb, p, "asking", forced), "DENIED_BY_POLICY")
      PROVE  \E r : Progress("cli", r)
  <2> DEFINE n == New(verb, p, "asking", forced)
             q == Recording(n, "DENIED_BY_POLICY")
  <2>1. IsRequest(n) /\ n.id = made + 1 /\ n.verb = verb /\ n.process = p /\ n.meant = p
    BY <1>1, NewRequest DEF Verbs, Phases
  <2>2. Decided("cli", n, "DENIED_BY_POLICY")
    BY <1>3
  <2>3. Step("cli", q) /\ unmatched' = unmatched \cup {Row(n, "DENIED_BY_POLICY")}
    BY <2>2 DEF Decided
  <2> HIDE DEF n
  <2>4. IsRequest(q) /\ Same(q, n) /\ q.phase = "record" /\ q.outcome = "DENIED_BY_POLICY"
    BY <2>1, OutcomeChange DEF Outcomes
  <2> HIDE DEF q
  <2>5. Sensible(q) /\ ~Succeeded(q) /\ q.id = made + 1
    BY <2>1, <2>4 DEF Sensible, Succeeded, Same
  <2>6. Row(n, "DENIED_BY_POLICY") = Row(q, q.outcome)
    BY <2>4 DEF Row, Same
  <2> QED BY <1>1, <2>3, <2>4, <2>5, <2>6, BeginProgresses
<1>4. ASSUME NEW forced \in BOOLEAN, NEW asks \in BOOLEAN, NEW verb \in ProcessVerbs, NEW p,
             LET r == New(verb, p, "asking", forced) IN
             IF Refused(verb, p, forced) THEN Decided("cli", r, "DENIED_BY_POLICY")
             ELSE /\ Step("cli", IF asks /\ verb # "resume" THEN r ELSE Carry(r))
                  /\ UNCHANGED unmatched
      PROVE  \E r : Progress("cli", r)
  <2>1. verb \in Verbs
    BY DEF Verbs
  <2> QED BY <1>2, <1>3, <1>4, <2>1
<1>5. ASSUME NEW asks \in BOOLEAN, NEW verb \in FirewallVerbs \cup {"trim"}, UNCHANGED unmatched,
             LET r == New(verb, NoOne, "asking", FALSE) IN
             Step("cli", IF asks THEN r ELSE Carry(r))
      PROVE  \E r : Progress("cli", r)
  <2>1. verb \in Verbs
    BY DEF Verbs
  <2> QED BY <1>2, <1>5, <2>1, NobodyIsNotRefused
<1> QED BY <1>4, <1>5 DEF Command

LEMMA AnswerProgresses ==
  ASSUME IInv, Answer
  PROVE  \E r : Progress("cli", r)
<1> USE DEF IInv
<1>1. /\ "cli" \in Agents /\ request["cli"].phase = "asking" /\ OnlyConfirmedIsHit'
      /\ UNCHANGED <<inForce, listed, unsure, made>>
      /\ \/ Step("cli", Carry(request["cli"])) /\ UNCHANGED unmatched
         \/ /\ request["cli"].verb \in FirewallVerbs /\ Step("cli", Idle)
            /\ unmatched' = unmatched \cup {Row(request["cli"], "CANCELLED")}
         \/ Decided("cli", request["cli"], "CANCELLED")
  BY DEF Answer, Declined, Unrecorded, Agents, machine, OnlyConfirmedIsHit
<1>2. request["cli"] # Idle /\ Sensible(request["cli"]) /\ ~Succeeded(request["cli"])
  BY <1>1, RequestFacts, UnfinishedHasNotSucceeded
<1>3. ASSUME NEW r, r = Idle \/ (Sensible(r) /\ r.id = request["cli"].id), Step("cli", r),
             ~Succeeded(r),
             \/ r.phase # "record" /\ UNCHANGED unmatched
             \/ r.phase = "record" /\ unmatched' = unmatched \cup {Row(r, r.outcome)}
             \/ /\ r.phase # "record"
                /\ \E row : DeclinedFirewall(row) /\ unmatched' = unmatched \cup {row}
      PROVE  Progress("cli", r)
  <2>1. GoesOn("cli", r) /\ RowFollows("cli", r)
    BY <1>1, <1>2, <1>3 DEF GoesOn, RowFollows
  <2>2. FirewallFollows("cli", r)
    BY <1>1, <1>2, <1>3, FirewallAlone
  <2> QED BY <1>1, <1>3, <2>1, <2>2 DEF Progress
<1>4. CASE Step("cli", Carry(request["cli"])) /\ UNCHANGED unmatched
  <2>1. /\ Sensible(Carry(request["cli"])) /\ Carry(request["cli"]).id = request["cli"].id
        /\ Carry(request["cli"]).phase # "record" /\ ~Succeeded(Carry(request["cli"]))
    BY <1>1, <1>2, CarryIsSensible DEF Sensible, Same, Succeeded
  <2> QED BY <1>3, <1>4, <2>1
<1>5. CASE /\ request["cli"].verb \in FirewallVerbs /\ Step("cli", Idle)
           /\ unmatched' = unmatched \cup {Row(request["cli"], "CANCELLED")}
  <2>1. DeclinedFirewall(Row(request["cli"], "CANCELLED"))
    BY <1>5 DEF DeclinedFirewall, Row
  <2> QED BY <1>3, <1>5, <2>1, Idleness
<1>6. CASE Decided("cli", request["cli"], "CANCELLED")
  BY <1>1, <1>2, <1>3, <1>6, DecidedFacts DEF Same
<1> QED BY <1>1, <1>4, <1>5, <1>6

LEMMA MachineKeeps ==
  ASSUME IInv, NextMachine
  PROVE  RequestInv' /\ RowInv' /\ FirewallInv' /\ OnlyConfirmedIsHit'
<1>1. UNCHANGED <<inForce, request, made, unmatched, listed, unsure, hit>>
  BY DEF NextMachine, Begins, Ends, records
<1> QED BY <1>1 DEF IInv, RequestInv, RowInv, FirewallInv, OnlyConfirmedIsHit

\* A step that has no request, whatever it does to the view.
LEMMA NoRequestKeeps ==
  ASSUME IInv, UNCHANGED <<inForce, request, made, unmatched, listed, unsure, hit>>
  PROVE  RequestInv' /\ RowInv' /\ FirewallInv' /\ OnlyConfirmedIsHit'
BY DEF IInv, RequestInv, RowInv, FirewallInv, OnlyConfirmedIsHit

\* Work goes on with a request that is there.
LEMMA WorkIsAtWork ==
  ASSUME NEW a \in Agents, Work(a) \/ RecordRaises(a), IInv
  PROVE  request[a] # Idle
<1>1. request[a].phase \in {"verify", "operate", "record"}
  BY DEF Work, Verify, Operate, OperateOnProcess, Trim, OperateFirewall, Record, NotRecorded,
         RecordRaises
<1> QED BY <1>1, Idleness

LEMMA WorkKeeps ==
  ASSUME IInv, NEW a \in Agents, Work(a) \/ RecordRaises(a)
  PROVE  /\ RequestInv' /\ RowInv' /\ FirewallInv' /\ OnlyConfirmedIsHit'
         /\ \A b \in Agents : request[b] = Idle => request'[b] = Idle
<1>1. PICK r : Progress(a, r)
  BY VerifyProgresses, OperateProgresses, RecordProgresses, RecordRaisesProgresses DEF Work
<1>2. request[a] # Idle
  BY WorkIsAtWork
<1> QED BY <1>1, <1>2, ProgressKeeps, Steps DEF IInv, Progress

LEMMA CommandKeeps ==
  ASSUME IInv, NextCommand
  PROVE  /\ RequestInv' /\ RowInv' /\ FirewallInv' /\ OnlyConfirmedIsHit'
         /\ request["trimmer"] = Idle => request'["trimmer"] = Idle
<1>1. "cli" \in Agents /\ "trimmer" \in Agents
  BY DEF Agents
<1>2. CASE NextMachine
  <2>1. UNCHANGED request
    BY <1>2 DEF NextMachine, Begins, Ends
  <2> QED BY <1>2, <2>1, MachineKeeps
<1>3. CASE Work("cli") \/ RecordRaises("cli")
  BY <1>1, <1>3, WorkKeeps
<1>4. ASSUME NEW r, Progress("cli", r)
      PROVE  /\ RequestInv' /\ RowInv' /\ FirewallInv' /\ OnlyConfirmedIsHit'
             /\ request["trimmer"] = Idle => request'["trimmer"] = Idle
  BY <1>1, <1>4, ProgressKeeps, Steps DEF IInv, Progress
<1>5. CASE RecordRule \/ Command \/ Answer \/ Interrupt
  BY <1>4, <1>5, RecordRuleProgresses, CommandProgresses, AnswerProgresses, InterruptProgresses
<1> QED BY <1>2, <1>3, <1>5 DEF NextCommand

(***************************************************************************)
(* The dashboard                                                           *)
(***************************************************************************)
LEMMA DialogKept ==
  ASSUME DialogInv, UNCHANGED <<keys, dialog>>,
         request["trimmer"] = Idle => request'["trimmer"] = Idle
  PROVE  DialogInv'
BY DEF DialogInv

\* What follows the first key.
LEMMA TailFacts ==
  ASSUME DialogInv, keys # <<>>
  PROVE  /\ \E S : Tail(keys) \in Seq(S)
         /\ \A i \in 1..Len(Tail(keys)) : Tail(keys)[i] = NoOne
         /\ Head(keys) # NoOne => dialog.kind = "stop" /\ Head(keys) = dialog.process
<1>1. PICK S : keys \in Seq(S)
  BY DEF DialogInv
<1>2. /\ Tail(keys) \in Seq(S) /\ Len(keys) \in Nat \ {0} /\ Len(Tail(keys)) = Len(keys) - 1
      /\ \A i \in 1..Len(Tail(keys)) : Tail(keys)[i] = keys[i + 1]
      /\ Head(keys) = keys[1]
  BY <1>1, HeadTailProperties, EmptySeq
<1>3. ASSUME NEW i \in 1..Len(Tail(keys)) PROVE Tail(keys)[i] = NoOne
  <2>1. i + 1 \in 1..Len(keys) /\ i + 1 # 1
    BY <1>2
  <2> QED BY <1>2, <2>1 DEF DialogInv
<1>4. 1 \in 1..Len(keys)
  BY <1>2
<1> QED BY <1>2, <1>3, <1>4 DEF DialogInv

LEMMA HandlesKeeps ==
  ASSUME DialogInv, Handles,
         dialog'.kind = "stop" => dialog'.process \notin Protected,
         dialog'.kind = "trim" => request'["trimmer"] = Idle
  PROVE  DialogInv'
<1>1. keys # <<>> /\ keys' = Tail(keys)
  BY DEF Handles
<1> QED BY <1>1, TailFacts DEF DialogInv

\* The program's end: what was at work is forgotten.
LEMMA NoKeys == ASSUME keys' = <<>>, dialog' = NoDialog PROVE DialogInv'
<1>1. keys' \in Seq({}) /\ Len(keys') = 0
  BY EmptySeq
<1>2. dialog'.kind = "none"
  BY DEF NoDialog
<1> QED BY <1>1, <1>2 DEF DialogInv

LEMMA PressKeeps ==
  ASSUME DialogInv, Press
  PROVE  DialogInv'
<1>1. UNCHANGED <<dialog, request>>
  BY DEF Press, responseVars
<1>2. CASE keys' = Append(keys, NoOne)
  <2>1. PICK S : keys \in Seq(S)
    BY DEF DialogInv
  <2>2. keys \in Seq(S \cup {NoOne}) /\ NoOne \in S \cup {NoOne}
    BY <2>1, SeqMonotonic
  <2>3. /\ keys' \in Seq(S \cup {NoOne}) /\ Len(keys') = Len(keys) + 1 /\ Len(keys) \in Nat
        /\ \A i \in 1..Len(keys) : keys'[i] = keys[i]
        /\ keys'[Len(keys) + 1] = NoOne
    BY <1>2, <2>2, AppendProperties, LenProperties
  <2>4. ASSUME NEW i \in 1..Len(keys'), keys'[i] # NoOne PROVE i \in 1..Len(keys) /\ keys'[i] = keys[i]
    BY <2>3, <2>4
  <2> QED BY <1>1, <2>3, <2>4 DEF DialogInv
<1>3. CASE drawn = dialog /\ drawn.kind = "stop" /\ keys' = <<drawn.process>>
  <2>1. keys' \in Seq({dialog.process}) /\ Len(keys') = 1 /\ keys'[1] = dialog.process
    BY <1>3
  <2>2. \A i \in 1..Len(keys') : i = 1
    BY <2>1
  <2>3. \A i \in 1..Len(keys') : i = 1 /\ dialog'.kind = "stop" /\ keys'[i] = dialog'.process
    BY <1>1, <1>3, <2>1, <2>2
  <2> QED BY <1>1, <2>1, <2>3 DEF DialogInv
<1> QED BY <1>2, <1>3 DEF Press

LEMMA OpenStopKeeps ==
  ASSUME IInv, OpenStop
  PROVE  IInv'
<1> USE DEF IInv
<1>1. /\ "dashboard" \in Agents /\ "trimmer" \in Agents /\ request["dashboard"] = Idle
      /\ Handles /\ UNCHANGED <<inForce, listed, unsure, hit>> /\ OnlyConfirmedIsHit'
      /\ made \in Nat
  BY DEF OpenStop, HandlesAny, Handles, AtKeys, Agents, machine, OnlyConfirmedIsHit, RequestInv
<1>2. CASE SelectedProcess = NoOne
  <2>1. UNCHANGED <<dialog, request, made, unmatched>>
    BY <1>2 DEF OpenStop
  <2>2. DialogInv'
    BY <1>1, <2>1, HandlesKeeps DEF DialogInv
  <2> QED BY <1>1, <2>1, <2>2, NoRequestKeeps
<1>3. ASSUME NEW p, p = SelectedProcess, p # NoOne, p \in Protected PROVE IInv'
  <2> DEFINE f == FALSE
             n == New("terminate", p, "record", f)
             q == Recording(n, "DENIED_BY_POLICY")
  <2> HIDE DEF f
  <2>1. /\ made' = made + 1 /\ Decided("dashboard", n, "DENIED_BY_POLICY")
        /\ dialog' = [kind |-> "notice", process |-> p]
    BY <1>3 DEF OpenStop, f
  <2>2. Sensible(n) /\ n.id = made + 1 /\ n.verb = "terminate"
    <3>1. "terminate" \in Verbs
      BY DEF Verbs, ProcessVerbs
    <3> QED BY <1>1, <3>1, NewIsSensible
  <2> HIDE DEF n
  <2>3. /\ Sensible(q) /\ Same(q, n) /\ q.phase = "record" /\ ~Succeeded(q)
        /\ Step("dashboard", q) /\ unmatched' = unmatched \cup {Row(q, q.outcome)}
    BY <1>1, <2>1, <2>2, DecidedFacts
  <2> HIDE DEF q
  <2>4. Progress("dashboard", q)
    BY <1>1, <2>1, <2>2, <2>3, BeginProgresses DEF Same, FirewallVerbs
  <2>5. dialog'.kind = "notice"
    BY <2>1
  <2> QED BY <1>1, <2>4, <2>5, ProgressKeeps, HandlesKeeps
<1>4. ASSUME NEW p, p = SelectedProcess, p # NoOne, p \notin Protected PROVE IInv'
  <2>1. /\ dialog' = [kind |-> "stop", process |-> p] /\ UNCHANGED <<request, made, unmatched>>
    BY <1>4 DEF OpenStop
  <2>2. DialogInv'
    BY <1>1, <1>4, <2>1, HandlesKeeps
  <2> QED BY <1>1, <2>1, <2>2, NoRequestKeeps
<1> QED BY <1>2, <1>3, <1>4

LEMMA YesKeeps ==
  ASSUME IInv, Yes
  PROVE  IInv'
<1> USE DEF IInv
<1>1. /\ "dashboard" \in Agents /\ "trimmer" \in Agents /\ request["dashboard"] = Idle
      /\ Handles /\ UNCHANGED <<inForce, listed, unsure, hit, unmatched>> /\ OnlyConfirmedIsHit'
      /\ made \in Nat /\ made' = made + 1 /\ dialog' = NoDialog /\ keys # <<>>
  BY DEF Yes, Handles, AtKeys, Agents, machine, OnlyConfirmedIsHit, RequestInv
<1>2. DialogInv'
  <2>1. dialog'.kind = "none"
    BY <1>1 DEF NoDialog
  <2> QED BY <1>1, <2>1, HandlesKeeps
<1>3. ASSUME NEW a \in {"dashboard", "trimmer"}, request[a] = Idle,
             NEW r, Step(a, r), Sensible(r), r.id = made + 1, ~Succeeded(r),
             r.phase # "record", r.verb \notin FirewallVerbs
      PROVE  IInv'
  <2>1. a \in Agents
    BY <1>1
  <2>2. Progress(a, r)
    BY <1>1, <1>3, <2>1, BeginProgresses
  <2> QED BY <1>2, <2>1, <2>2, ProgressKeeps
<1>4. CASE dialog.kind = "stop"
  <2> DEFINE f == FALSE
             meant == IF Head(keys) = NoOne THEN dialog.process ELSE Head(keys)
             n == New("terminate", dialog.process, "verify", f)
             stop == [n EXCEPT !.meant = meant]
  <2> HIDE DEF f
  <2>1. meant = dialog.process
    BY <1>1, TailFacts
  <2>2. /\ Sensible(n) /\ n.id = made + 1 /\ n.verb = "terminate" /\ n.process = dialog.process
        /\ n.meant = dialog.process /\ n.outcome = "none" /\ n.forced = f
    <3>1. "terminate" \in Verbs
      BY DEF Verbs, ProcessVerbs
    <3> QED BY <1>1, <3>1, NewIsSensible
  <2>3. Step("dashboard", Carry(stop))
    BY <1>4 DEF Yes, Confirmed, f
  <2> HIDE DEF meant, n
  <2>4. stop = n
    BY <2>1, <2>2 DEF Sensible, IsRequest, Fields
  <2>5. ~Refused(n.verb, n.process, n.forced)
    BY <1>4, <2>2 DEF DialogInv, Refused
  <2>6. /\ Sensible(Carry(n)) /\ Same(Carry(n), n) /\ Carry(n).phase \in {"verify", "operate"}
        /\ Carry(n).outcome = "none"
    BY <2>2, <2>5, CarryIsSensible
  <2> QED BY <1>1, <1>3, <2>2, <2>3, <2>4, <2>6 DEF Same, Succeeded, FirewallVerbs
<1>5. CASE dialog.kind = "trim"
  <2> DEFINE n == New("trim", NoOne, "operate", FALSE)
  <2>1. /\ Sensible(n) /\ n.id = made + 1 /\ n.verb = "trim" /\ n.phase = "operate"
        /\ ~Succeeded(n)
    BY <1>1, NewTrim
  <2>2. Step("trimmer", n) /\ request["trimmer"] = Idle
    BY <1>5 DEF Yes, DialogInv
  <2> HIDE DEF n
  <2>3. n.verb \notin FirewallVerbs
    BY <2>1 DEF FirewallVerbs
  <2> QED BY <1>3, <2>1, <2>2, <2>3
<1> QED BY <1>4, <1>5 DEF Yes

LEMMA NoKeeps ==
  ASSUME IInv, No
  PROVE  IInv'
<1> USE DEF IInv
<1> DEFINE verb == IF dialog.kind = "stop" THEN "terminate" ELSE "trim"
           f == FALSE
           n == New(verb, dialog.process, "record", f)
           q == Recording(n, "CANCELLED")
<1> HIDE DEF f
<1>1. /\ "dashboard" \in Agents /\ "trimmer" \in Agents /\ request["dashboard"] = Idle
      /\ Handles /\ UNCHANGED <<inForce, listed, unsure, hit>> /\ OnlyConfirmedIsHit'
      /\ made \in Nat /\ made' = made + 1 /\ dialog' = NoDialog
      /\ Decided("dashboard", n, "CANCELLED")
  BY DEF No, HandlesAny, Handles, AtKeys, Agents, machine, OnlyConfirmedIsHit, RequestInv, f
<1>2. DialogInv'
  <2>1. dialog'.kind = "none"
    BY <1>1 DEF NoDialog
  <2> QED BY <1>1, <2>1, HandlesKeeps
<1>3. verb \in Verbs \ FirewallVerbs
  BY DEF Verbs, ProcessVerbs, FirewallVerbs
<1> HIDE DEF verb
<1>4. Sensible(n) /\ n.id = made + 1 /\ n.verb = verb
  BY <1>1, <1>3, NewIsSensible
<1> HIDE DEF n
<1>5. /\ Sensible(q) /\ Same(q, n) /\ q.phase = "record" /\ ~Succeeded(q)
      /\ Step("dashboard", q) /\ unmatched' = unmatched \cup {Row(q, q.outcome)}
  BY <1>1, <1>4, DecidedFacts
<1> HIDE DEF q
<1>6. Progress("dashboard", q)
  BY <1>1, <1>3, <1>4, <1>5, BeginProgresses DEF Same
<1> QED BY <1>1, <1>2, <1>6, ProgressKeeps

LEMMA ProgramEndsKeeps ==
  ASSUME IInv, ProgramEnds
  PROVE  IInv'
<1> USE DEF IInv
<1> DEFINE cut == {a \in {"dashboard", "trimmer"} : request[a] # Idle}
<1>1. /\ request' = [a \in Agents |-> IF a \in cut THEN Idle ELSE request[a]]
      /\ unmatched' = {row \in unmatched : row.id \notin {request[a].id : a \in cut}}
      /\ UNCHANGED <<inForce, made, listed, unsure, hit>>
      /\ keys' = <<>> /\ dialog' = NoDialog
  BY DEF ProgramEnds, Leave, machine
<1>2. /\ DOMAIN request' = Agents /\ "cli" \in Agents /\ cut \subseteq Agents
      /\ \A a \in Agents : request'[a] = IF a \in cut THEN Idle ELSE request[a]
      /\ request'["cli"] = request["cli"] /\ UNCHANGED made
  BY <1>1 DEF Agents
<1>3. \A a \in cut : request[a] # Idle
  OBVIOUS
<1> HIDE DEF cut
<1>4. RequestInv'
  BY <1>1, <1>2 DEF RequestInv
<1>5. RowInv'
  <2>1. \A q, o : Row(q, o).id = q.id
    BY DEF Row
  <2>2. \A a \in Agents : request[a].phase = "record" => request[a] # Idle
    BY Idleness
  <2>3. ASSUME NEW row \in unmatched'
        PROVE  DeclinedFirewall(row) \/ \E a \in Agents :
                 request'[a].phase = "record" /\ row = Row(request'[a], request'[a].outcome)
    <3> SUFFICES ASSUME ~DeclinedFirewall(row)
                 PROVE  \E a \in Agents :
                          request'[a].phase = "record" /\ row = Row(request'[a], request'[a].outcome)
      OBVIOUS
    <3>1. PICK a \in Agents : request[a].phase = "record" /\ row = Row(request[a], request[a].outcome)
      BY <1>1, <2>3 DEF RowInv
    <3>2. a \notin cut
      BY <1>1, <2>1, <2>3, <3>1
    <3> QED BY <1>2, <3>1, <3>2
  <2>4. ASSUME NEW a \in Agents, request'[a].phase = "record"
        PROVE  Row(request'[a], request'[a].outcome) \in unmatched'
    <3>1. a \notin cut /\ request'[a] = request[a]
      BY <1>2, <2>4, Idleness
    <3>2. Row(request[a], request[a].outcome) \in unmatched /\ request[a] # Idle
      BY <2>2, <2>4, <3>1 DEF RowInv
    <3>3. \A b \in cut : request[b].id # request[a].id
      BY <1>2, <1>3, <3>1, <3>2 DEF RequestInv
    <3> QED BY <1>1, <2>1, <3>1, <3>2, <3>3
  <2> QED BY <2>3, <2>4 DEF RowInv
<1>6. FirewallInv'
  BY <1>1, <1>2 DEF FirewallInv, Agents
<1>7. OnlyConfirmedIsHit'
  BY <1>1 DEF OnlyConfirmedIsHit
<1> QED BY <1>1, <1>4, <1>5, <1>6, <1>7, NoKeys

LEMMA ViewKeeps ==
  ASSUME IInv, Refresh \/ Press \/ Move \/ Pause \/ OpenTrim \/ Dismiss \/ Quit \/ FoundNoKeys \/ Draw
  PROVE  IInv'
<1> USE DEF IInv
<1>1. UNCHANGED <<inForce, request, made, unmatched, listed, unsure, hit>>
  BY DEF Refresh, Press, Move, Pause, OpenTrim, Dismiss, Quit, FoundNoKeys, Draw, HandlesAny, Handles,
         responseVars, machine, records
<1>2. ASSUME UNCHANGED <<keys, dialog>> PROVE DialogInv'
  BY <1>1, <1>2, DialogKept
<1>3. ASSUME Press PROVE DialogInv'
  BY <1>3, PressKeeps
<1>4. ASSUME Move \/ Pause PROVE DialogInv'
  <2>1. Handles /\ UNCHANGED dialog
    BY <1>4 DEF Move, Pause, HandlesAny
  <2> QED BY <1>1, <2>1, HandlesKeeps DEF DialogInv
<1>5. ASSUME OpenTrim PROVE DialogInv'
  <2>1. Handles
    BY <1>5 DEF OpenTrim, HandlesAny
  <2>2. \/ dialog' = [kind |-> "trim", process |-> NoOne] /\ request["trimmer"] = Idle
        \/ dialog' = dialog
    BY <1>5 DEF OpenTrim
  <2> QED BY <1>1, <2>1, <2>2, HandlesKeeps DEF DialogInv
<1>6. ASSUME Dismiss PROVE DialogInv'
  <2>1. Handles
    BY <1>6 DEF Dismiss
  <2>2. dialog' = NoDialog \/ dialog' = dialog
    BY <1>6 DEF Dismiss
  <2>3. NoDialog.kind = "none"
    BY DEF NoDialog
  <2> QED BY <1>1, <2>1, <2>2, <2>3, HandlesKeeps DEF DialogInv
<1>7. ASSUME Quit PROVE DialogInv'
  BY <1>7, NoKeys DEF Quit, Leave
<1>8. Refresh \/ FoundNoKeys \/ Draw => UNCHANGED <<keys, dialog>>
  BY DEF Refresh, FoundNoKeys, Draw
<1> QED BY <1>1, <1>2, <1>3, <1>4, <1>5, <1>6, <1>7, <1>8, NoRequestKeeps

LEMMA InitHolds == InitResponse /\ InitDashboard => IInv
<1> SUFFICES ASSUME InitResponse, InitDashboard PROVE IInv
  OBVIOUS
<1>1. \A a \in Agents : request[a] = Idle
  BY DEF InitResponse
<1>2. "cli" \in Agents /\ "dashboard" \in Agents /\ "trimmer" \in Agents
  BY DEF Agents
<1>3. RequestInv
  BY <1>1 DEF InitResponse, RequestInv
<1>4. RowInv
  BY <1>1, Idleness DEF InitResponse, RowInv
<1>5. FirewallInv
  BY <1>1, <1>2, Idleness DEF InitResponse, FirewallInv
<1>6. DialogInv
  <2>1. keys \in Seq({}) /\ Len(keys) = 0 /\ dialog.kind = "none"
    BY EmptySeq DEF InitDashboard, InitView, NoDialog
  <2> QED BY <2>1 DEF DialogInv
<1>7. OnlyConfirmedIsHit
  BY DEF InitResponse, OnlyConfirmedIsHit
<1> QED BY <1>3, <1>4, <1>5, <1>6, <1>7 DEF IInv

LEMMA StepKeeps == IInv /\ [NextBoth]_allVars => IInv'
<1> SUFFICES ASSUME IInv, [NextBoth]_allVars PROVE IInv'
  OBVIOUS
<1>1. CASE UNCHANGED allVars
  BY <1>1, NoRequestKeeps, DialogKept DEF allVars, responseVars, machine, records, dashboardVars, view,
                                         IInv
<1>2. CASE NextCommand /\ UNCHANGED dashboardVars
  BY <1>2, CommandKeeps, DialogKept DEF dashboardVars, view, IInv
<1>3. CASE NextMachine /\ UNCHANGED dashboardVars
  <2>1. UNCHANGED request
    BY <1>3 DEF NextMachine, Begins, Ends
  <2> QED BY <1>3, <2>1, MachineKeeps, DialogKept DEF dashboardVars, view, IInv
<1>4. ASSUME NEW a \in {"dashboard", "trimmer"}, (Work(a) /\ UNCHANGED dashboardVars) \/ RecorderRaises(a)
      PROVE  IInv'
  <2>1. a \in Agents /\ "trimmer" \in Agents
    BY DEF Agents
  <2>2. Work(a) \/ RecordRaises(a)
    BY <1>4 DEF RecorderRaises
  <2>3. UNCHANGED <<keys, dialog>> \/ (keys' = <<>> /\ dialog' = NoDialog)
    BY <1>4 DEF RecorderRaises, Leave, dashboardVars, view
  <2> QED BY <2>1, <2>2, <2>3, WorkKeeps, DialogKept, NoKeys DEF IInv
<1> QED BY <1>1, <1>2, <1>3, <1>4, OpenStopKeeps, YesKeeps, NoKeeps, ProgramEndsKeeps, ViewKeeps
        DEF NextBoth, NextDashboard

\* The invariant of requests, rows, the firewall table and the dialog, for a command and
\* the dashboard at once.
THEOREM Inductive == BothSpec => []IInv
BY InitHolds, StepKeeps, PTL DEF BothSpec

\* Whatever ends, begins, is typed ahead or drawn late (response_manager.py,
\* process_control.py, dashboard.py): what is hit is what was confirmed, or has taken its
\* place after the check.
THEOREM OnlyConfirmedIsEverHit == BothSpec => []OnlyConfirmedIsHit
<1>1. IInv => OnlyConfirmedIsHit
  BY DEF IInv
<1> QED BY Inductive, <1>1, PTL

\* Of a command, a stop and a trim at once, none loses the audit record of another; what
\* is over is recorded, unless the record could not be written or the program ended, or
\* it was a firewall command that was declined (cli.py), which never has a record.
THEOREM ActedIsAlwaysAudited == BothSpec => []ActedIsAudited
<1>1. IInv => ActedIsAudited
  <2> SUFFICES ASSUME IInv, NEW row \in unmatched, ~DeclinedFirewall(row)
               PROVE  row.id \in InWork
    BY DEF ActedIsAudited
  <2>1. PICK a \in Agents : request[a].phase = "record" /\ row = Row(request[a], request[a].outcome)
    BY DEF IInv, RowInv
  <2>2. request[a] # Idle /\ row.id = request[a].id
    BY <2>1, Idleness DEF Row
  <2> QED BY <2>2 DEF InWork
<1> QED BY Inductive, <1>1, PTL

\* A rule the table firewall_rules lists as active is in force, whatever netsh answers and
\* wherever a command is cut off, unless that left the last change in doubt.
THEOREM ListedIsAlwaysInForce == BothSpec => []ListedIsInForce
<1>1. IInv => ListedIsInForce
  BY Idleness DEF IInv, FirewallInv, ListedIsInForce
<1> QED BY Inductive, <1>1, PTL
=============================================================================
