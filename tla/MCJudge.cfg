SPECIFICATION Spec
CONSTANTS
  floored = floored
  fixed = fixed
  Bad = Bad
  None = None
  Findings <- MCFindings
  SeverityOf <- MCSeverityOf
  PolicyOf <- MCPolicyOf
  Judged0 = {fixed}
  Calls <- MCCalls
  MaxReply = 2
  Budget = 2
  Compacts = TRUE
INVARIANTS
  SubmittedIsComplete
  OnlySureApplied
PROPERTIES
  LastWordStands
  ImplementsJudgement
