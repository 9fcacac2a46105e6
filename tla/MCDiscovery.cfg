SPECIFICATION Spec
CONSTANTS
  file = file
  hidden = hidden
  text = text
  graver = graver
  milder = milder
  Bad = Bad
  None = None
  Items <- MCItems
  SeverityOf <- MCSeverityOf
  TwinOf <- MCTwinOf
  Texts <- MCTexts
  Raised <- MCRaised
  Covers <- MCCovers
  Calls <- MCCalls
  MaxReply = 2
  Budget = 2
  Compacts = TRUE
INVARIANTS
  ReportedOnce
  NothingDropped
PROPERTIES
  LastWordCounts
