----------------------------- MODULE DetectionMC -----------------------------
(* Two rules and two subjects.  "f1" alone is below the threshold.            *)
EXTENDS Detection

MCFindings == {"f1", "f2", "f3"}
MCRuleOf == [f \in MCFindings |-> IF f = "f2" THEN "r2" ELSE "r1"]
MCSubjectOf == [f \in MCFindings |-> IF f = "f3" THEN "s2" ELSE "s1"]
MCRaising == {{"f2"}, {"f1", "f2"}, {"f3"}}
=============================================================================
