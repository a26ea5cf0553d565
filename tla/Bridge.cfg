SPECIFICATION ViewsSpec
SYMMETRY Symmetry
CONSTANTS
  Bridges = {b1, b2}
  Keys <- TwoKeys
  RemoteKey <- OneIssue
  MaxVersion = 1
  MaxEvents = 2
  MaxDone = 1
  MaxLinks = 1
  NoRow = NoRow
  NoBridge = NoBridge
  NoCall = NoCall
  NoReading = NoReading
  Unknown = Unknown
  Pieces <- SmallPieces
  lower <- SmallLower
  Samples <- SampleTexts
  Invalid = Invalid
  Provider = "github"
  RefTexts <- SmallRefTexts
  Roles = {"primary", "related"}
INVARIANTS
  ViewsTypeOK
  CachedAsReported
  CommentsWerePosted
  SnapshotKnowsItsSync
  LockedViewIsCurrent
  ReadBothWriteOne
  RefsLeadBack
PROPERTIES
  LockedFetchGoesForward
