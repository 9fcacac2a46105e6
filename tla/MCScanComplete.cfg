SPECIFICATION Spec
CONSTANTS
  None = None
  Targets = 1
  Gate = 3
  LayerSeq <- FewLayers
  Findings <- FewFindings
  LayerOf <- MCLayerOf
  SeverityOf <- MCSeverityOf
  PolicyOf <- MCPolicyOf
  Interrupting <- MCInterrupting
  Deciding <- MCDeciding
  Asked <- MCAsked
  GroupOf <- MCGroupOf
  TooMany <- MCTooMany
  Judgeable <- MCJudgeable
INVARIANTS
  InterruptedIsComplete
