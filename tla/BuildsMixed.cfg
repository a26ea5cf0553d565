SPECIFICATION Spec
CONSTANTS
  CliBuilders = {}
  LibBuilders = {a1}
  Exporters = {}
  BundleIds = {b1}
  MaxWrites = 1
  Nobody = Nobody
  Nothing = Nothing
INVARIANTS
  EveryBundleIsOneMoment
