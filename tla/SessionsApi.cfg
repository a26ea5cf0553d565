SPECIFICATION Spec
CONSTANTS
  Tasks = {t1}
  CliSessions = {c1}
  ApiSessions = {a1}
  MaxHistory = 3
  NoSession = NoSession
  NoRequest = NoRequest
INVARIANTS
  StatusIsLastEntry
  LockedCheckIsCurrent
PROPERTIES
  AppendOnly
  CliCommandReturns
