SPECIFICATION Spec
SYMMETRY Symmetry
CONSTANTS
  Clients = {c1, c2, c3}
  Fields = {step, notes}
  Values = {empty, v1}
  Empty = empty
  StepField = step
  MaxRevision = 4
  NoPlan = NoPlan
INVARIANTS
  TypeOK
  RevisionIdentifiesContent
  AppliedAtMostOnce
PROPERTIES
  NoLostUpdate
