SPECIFICATION Spec
SYMMETRY Symmetry
CONSTANTS
  CliBuilders = {c1}
  LibBuilders = {a1}
  Exporters = {e1}
  BundleIds = {b1, b2}
  MaxWrites = 1
  Nobody = Nobody
  Nothing = Nothing
INVARIANTS
  TypeOK
  LockedBuildIsOneMoment
  NoTaskIsAhead
  BundleIsAuditable
