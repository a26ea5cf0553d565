SPECIFICATION Spec
SYMMETRY Symmetry
CONSTANTS
  Tasks = {t1}
  DecisionIds = {d1}
  QuestionIds = {q1}
  RunIds = {r1}
  MaxHistory = 4
  NoRow = NoRow
INVARIANTS
  TypeOK
  GatesStillHold
PROPERTIES
  ImplementsStatusLog
  ClosedStaysClosed
