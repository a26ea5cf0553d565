SPECIFICATION FairSpec
CONSTANTS
  Pieces <- SmallPieces
  lower <- SmallLower
  Samples = {}
  Invalid = Invalid
  Rows <- SmallRows
  Registered <- AllResolvers
  Fetchers = {"evidence"}
  Adapters = {"github"}
  NoBundle = NoBundle
INVARIANTS
  TypeOK
  CompleteUnlessPartial
  RawIsOfASource
PROPERTIES
  BuildIsStored
