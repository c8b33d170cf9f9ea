----------------------------- MODULE ShutdownMC -----------------------------
(* The storage handler beside another one.                                *)
EXTENDS Shutdown

MCHandlers == {"history", "storage"}
MCTypes == {"event"}
MCWants == [h \in MCHandlers |-> MCTypes]
=============================================================================
