--------------------------- MODULE ProcessTableMC ---------------------------
(* Two PIDs, so that three processes make one of them be reused.           *)
EXTENDS ProcessTable

MCPids == {"p", "q"}
MCMayHold == <<{"p"}, MCPids, {"p"}>>
MCMortal == {1, 2}
MCChildren == {2}
MCBusy == {1}
=============================================================================
