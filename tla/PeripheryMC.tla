----------------------------- MODULE PeripheryMC ------------------------------
(* What surrounds the monitor's core.  The parts share no state except a person's  *)
(* commands and dashboard, which share processes that end and begin at any time    *)
(* anyway, and an audit log where each writes rows of its own; so a behaviour      *)
(* follows one of them.                                                            *)
EXTENDS Dashboard, Instances, Judging, Sightings, Collector, Files, Schema, Forest

VARIABLE topic
vars == <<responseVars, dashboardVars, instancesVars, judgingVars, sightingsVars,
          collectorVars, filesVars, schemaVars, forestVars, topic>>

Topics == {"commands", "dashboard", "instances", "judging", "network", "persistence",
           "baseline", "collector", "files", "schema", "tree"}

\* Only the topic's part varies at the start, so that nothing is explored twice.
Init ==
  /\ InitResponse /\ InitDashboard /\ InitInstances
  /\ InitJudging /\ InitSightings /\ InitCollector /\ InitFiles
  /\ InitSchema /\ InitForest
  /\ topic \in Topics
  /\ topic # "judging" => truth = CHOOSE p \in Programs : TRUE
  /\ topic # "judging" => allowlist = {}
  /\ topic # "files" => target = CHOOSE c \in Contents : TRUE

Still(topics, part) == IF topic \in topics THEN TRUE ELSE UNCHANGED part
Next ==
  /\ UNCHANGED topic
  /\ Still({"commands", "dashboard"}, responseVars) /\ Still({"dashboard"}, dashboardVars)
  /\ Still({"instances"}, instancesVars) /\ Still({"judging"}, judgingVars)
  /\ Still({"network", "persistence", "baseline"}, sightingsVars)
  /\ Still({"collector"}, collectorVars) /\ Still({"files"}, filesVars)
  /\ Still({"schema"}, schemaVars) /\ Still({"tree"}, forestVars)
  /\ \/ topic = "commands" /\ NextCommand
     \/ topic = "dashboard" /\ NextDashboard
     \/ topic = "instances" /\ NextInstances
     \/ topic = "judging" /\ NextJudging
     \/ topic \in {"network", "persistence"} /\ NextMonitor(topic)
     \/ topic = "baseline" /\ NextBaseline
     \/ topic = "collector" /\ NextCollector
     \/ topic = "files" /\ NextFiles
     \/ topic = "schema" /\ NextSchema
     \/ topic = "tree" /\ NextForest
Spec == Init /\ [][Next]_vars

\* Processes
PidOfProcess == [p \in Processes |-> IF p = 2 THEN "b" ELSE "a"]
PidsOfSubjects == [p \in Subjects |-> "a"]

\* Programs
Apps == [name : {"app"}, cmdline : {{}}, chain : {<<>>},
         exe : {"temp", "profile", "system", "programs"},
         signature : {"VALID", "UNSIGNED"} \cup Invalid]
Shapes ==
  [name : {"app", "svchost", "invoice.pdf.exe", "conhost", "cmd"}, cmdline : {{}}] \cup
  [name : {"powershell"}, cmdline : {{}, {"encoded"}, {"encoded", "downloads and executes"}}] \cup
  [name : {"certutil"}, cmdline : {{}, {"proxies"}}]
Chains == {<<>>, <<"word">>, <<"services">>, <<"cmd", "browser">>, <<"mshta", "browser">>,
           <<"powershell", "app", "server">>}
AllPrograms ==
  Apps \cup {[name |-> s.name, cmdline |-> s.cmdline, chain |-> c, exe |-> e,
              signature |-> "UNSIGNED"] :
               s \in Shapes, c \in Chains, e \in {"temp", "profile", "system", "programs"}}

Outbound(scope, soon, uncommon, host, waiting, event) ==
  [kind |-> "outbound", scope |-> scope, soon |-> soon, uncommon |-> uncommon,
   host |-> host, waiting |-> waiting, event |-> event]
SomeSockets ==
  {Outbound("PUBLIC", TRUE, TRUE, "h1", TRUE, e) : e \in {"opened", "discovered"}} \cup
  {Outbound("PUBLIC", FALSE, FALSE, "h2", TRUE, "opened"),
   Outbound("PUBLIC", FALSE, TRUE, "h2", FALSE, "opened"),
   Outbound("LOOPBACK", TRUE, TRUE, "h1", FALSE, "opened"),
   [Outbound("PRIVATE", FALSE, FALSE, "h3", FALSE, "opened") EXCEPT !.kind = "listener"]}

\* Sightings
SourceOf ==
  [x \in Things |-> CASE x \in {"tcp", "port"} -> "TCP/IPV4"
                      [] x \in {"tcp6", "idle"} -> "TCP/IPV6"
                      [] x = "run" -> "registry" [] x = "task" -> "tasks"
                      [] OTHER -> x]
ItemOfKept ==
  [x \in Kept |-> CASE x \in Images -> "PROCESS" [] x \in Listeners -> "LISTENER"
                    [] OTHER -> x]

\* Files
SignatureOf == [c \in Contents |-> CASE c = 1 -> "embedded" [] c = 2 -> "catalog"
                                     [] OTHER -> "none"]
=============================================================================
