---------------------------- MODULE EventBusMC ----------------------------
(* A small bus for TLC: the all-types history handler and a filtered one.  *)
EXTENDS EventBus

MCHandlers == {"history", "detection"}
MCTypes == {"started", "opened"}
MCWants == [h \in MCHandlers |-> IF h = "history" THEN MCTypes ELSE {"opened"}]
===========================================================================
