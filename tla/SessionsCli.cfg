SPECIFICATION TimesSpec
SYMMETRY Symmetry
CONSTANTS
  Tasks = {t1}
  CliSessions = {c1, c2}
  ApiSessions = {}
  MaxHistory = 4
  MaxTime = 1
  NoSession = NoSession
  NoRequest = NoRequest
INVARIANTS
  TypeOK
  HistoryReadsInOrder
PROPERTIES
  ImplementsStatusLog
