CONSTANTS
  Runes <- MCRunes
  Tags = {"sh"}
  Around = 1
  Before = 1
  MaxBlockLines = 4
  KeptLines = 2
  MaxHops = 5
  MaxPerRule = 2
  Cases <- MCCases
SPECIFICATION Spec
INVARIANTS
  LimitsAreTold HitsAreRight SourceIsOrigin MatchIsShown EveryLineOnce FencesAgree FramesShow
  LinksAreTold LinkedIsWhole
