SPECIFICATION Spec
CONSTANTS
  lib = lib
  site = site
  target = target
  mirror = mirror
  install = install
  clone = clone
  NoRef = NoRef
  w1 = w1
  w2 = w2
  Refs = {lib, site, target, mirror}
  Extracted = {lib, site}
  Workers = {w1, w2}
  MaxReferences = 2
  Places = {install, clone}
  NamesOf <- MCNamesOf
INVARIANTS
  UnpopularIsKnown
