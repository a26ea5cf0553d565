SPECIFICATION Spec
CONSTANTS
  Tasks = {t1}
  CliSessions = {c1}
  ApiSessions = {a1, a2}
  MaxHistory = 1
  NoSession = NoSession
  NoRequest = NoRequest
INVARIANTS
  HistoryIsPath
