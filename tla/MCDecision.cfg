CONSTANTS
  Cases <- MCCases
  Templates <- MCTemplates
  Capitals = {"KEYS"}
  Selves = {"self"}
  Options = {}
  MaxNodes = 30
  MaxDepth = 4
  MaxCallSites = 3
SPECIFICATION Spec
INVARIANTS
  BatchesFit AnswersAreOwn EveryPlaceIsAsked WorstPlaceWins UsageIsTold TraceIsWhole
PROPERTIES
  LayerReturns ImplementsDeciding
