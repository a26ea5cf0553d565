SPECIFICATION Spec
SYMMETRY Symmetry
CONSTANTS
  Services = {s1, s2, k1}
  Rebuilders = {k1}
  Tasks = {t1, t2}
  BundleIds = {b1, b2}
  Refs = {r1}
  CacheMax = 1
  MaxTime = 1
  NoBundle = NoBundle
  NoService = NoService
  NoCall = NoCall
INVARIANTS
  TypeOK
  CacheIsBounded
  OwnBundleIsSeen
  OnlyOwnDraftsAreCached
PROPERTIES
  StoredForGood
