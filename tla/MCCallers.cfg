SPECIFICATION FairSpec
CONSTANTS
  c1 = c1  c2 = c2  c3 = c3  s1 = s1  s2 = s2  p1 = p1  w1 = w1
  m1 = m1  m2 = m2  a1 = a1
  NoRun = NoRun  AnySession = AnySession
  Children = {c1, c2}
  Sessions = {s1}
  Prompts = {p1}
  RunIds = {}
  Messages = {}
  Askers = {}
  Requests <- FifoRequests
  HostSessions = {s1}
  MaxConcurrent = 1
  FailAtLimit = FALSE
  MaxCompleted = 2
  MaxBuffered = 0
  MaxInFlight = 1
  MaxPermits = 1
PROPERTIES ForegroundCallerAnswered ChildFinishes
CHECK_DEADLOCK FALSE
