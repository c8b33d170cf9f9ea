---------------------------- MODULE EnrichmentMC ----------------------------
(* Two processes and two sockets, all the capacities small; one process's  *)
(* executable is always read, the other's only sometimes; it may also start *)
(* late and end early.                                                     *)
EXTENDS Enrichment

CONSTANTS p1, p2, c1, c2

MCProcs == {p1, p2}
MCReadable == {p1}
MCElusive == {p2}
MCLate == {p2}
MCMortal == {p2}
MCConns == {c1, c2}
MCOwner == (c1 :> p1) @@ (c2 :> p2)
=============================================================================
