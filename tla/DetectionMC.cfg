SPECIFICATION Spec
CONSTANTS
  Rules = {"r1", "r2"}
  Subjects = {"s1", "s2"}
  Findings <- MCFindings
  RuleOf <- MCRuleOf
  SubjectOf <- MCSubjectOf
  Raising <- MCRaising
  MaxFailures = 2
  SeenCapacity = 2
  MaxAlerts = 1
  Fallible = {"r1"}
  MaxReports = 3
  None = None
INVARIANTS
  EngineRemembersRight
  AlertIsUpToDate
  EvidenceIsKept
