SPECIFICATION Spec
SYMMETRY Symmetry
CONSTANTS
  Processes = {p1, p2, p3}
  Tasks = {t1, t2}
  BundleIds = {b1, b2}
  Statuses = {s1, s2}
  NewTables = {n1}
  NewColumns = {c1, c2}
  MaxHistory = 3
  NoStatus = NoStatus
  NoBundle = NoBundle
  Nobody = Nobody
INVARIANTS
  TypeOK
  MigratedAsOne
  CommandsSeeMigrated
