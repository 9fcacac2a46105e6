SPECIFICATION Spec
CONSTANTS
  None = None
  Targets = 2
  Gate = 3
  LayerSeq <- MostLayers
  Findings <- MostFindings
  LayerOf <- MCLayerOf
  SeverityOf <- MCSeverityOf
  PolicyOf <- MCPolicyOf
  Interrupting <- MCInterrupting
  Deciding <- MCDeciding
  Asked <- MCAsked
  GroupOf <- MCGroupOf
  TooMany <- MCTooMany
  Judgeable <- MCJudgeable
INVARIANTS
  InterruptStands
  PolicyHeld
  CleanMeansFullScan
PROPERTIES
  JudgedOnce
  NothingAfterInterrupt
