SPECIFICATION Spec
CONSTANTS
  None = None
  Calls = {"trap", "outside", "inside", "submit", "mistake"}
  MaxReply = 2
  Budget = 2
  Compacts = TRUE
INVARIANTS
  AttemptIsRecorded
