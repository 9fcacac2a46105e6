SPECIFICATION Spec
CONSTANTS
  None = None
  Calls = {"trap", "outside", "inside", "submit", "mistake"}
  MaxReply = 3
  Budget = 3
  Compacts = TRUE
INVARIANTS
  NoTrapMissed
PROPERTIES
  SessionEnds
