CONSTANTS
  Cases <- SharedCases
  Templates <- MCTemplates
  Capitals = {"KEYS"}
  Selves = {"self"}
  Options = {}
  MaxNodes = 30
  MaxDepth = 4
  MaxCallSites = 3
SPECIFICATION Spec
INVARIANTS
  EachReferenceTold
