SPECIFICATION FairSpec
CONSTANTS
  c1 = c1  c2 = c2  c3 = c3  s1 = s1  s2 = s2  p1 = p1  w1 = w1
  m1 = m1  m2 = m2  a1 = a1
  NoRun = NoRun  AnySession = AnySession
  Children = {c1}
  Sessions = {s1}
  Prompts = {p1}
  RunIds = {}
  Messages = {m1, m2}
  Askers = {}
  Requests <- MessageRequests
  HostSessions = {s1}
  MaxConcurrent = 1
  FailAtLimit = FALSE
  MaxCompleted = 1
  MaxBuffered = 0
  MaxInFlight = 1
  MaxPermits = 2
INVARIANTS TypeOK PermitsAccounted NoLostCompletion DefiniteAnswer FinalizedIsSettled
PROPERTIES MessageAnswered
CHECK_DEADLOCK FALSE
