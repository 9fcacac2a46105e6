SPECIFICATION WholeSpec
CONSTANTS
  lib = lib
  site = site
  target = target
  mirror = mirror
  zone = zone
  install = install
  clone = clone
  NoRef = NoRef
  None = None
  w1 = w1
  w2 = w2
  Refs = {lib, site, target, mirror}
  Extracted = {lib, site}
  Workers = {w1, w2}
  MaxReferences = 3
  Places = {install, clone}
  NamesOf <- MCNamesOf
  Kinds <- MCKinds
  Platforms = {mirror}
  Unclaimed = {mirror}
  Candidates <- MCCandidates
  Up <- MCUp
  Served = {lib, site}
  RedirectsTo <- MCRedirectsTo
  MaxRedirects = 1
  Shared <- MCShared
  Again <- MCAgain
INVARIANTS
  NothingLost
  TooManyIsTold
PROPERTIES
  ReportIsKnown
  ImplementsReferences
  LayerReturns
