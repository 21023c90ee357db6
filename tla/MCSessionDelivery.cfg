SPECIFICATION FairSpec
CONSTANTS
  p1 = p1  p2 = p2  w1 = w1  r1 = r1  m1 = m1  m2 = m2
  NoRow = NoRow
  Prompts = {}
  Wakes = {}
  Resumes = {r1}
  Messages = {m1, m2}
  Notes = {}
  Edited = {}
  CancelKinds = {"keep", "shutdown", "close"}
  Features = {"outage"}
  MaxSlots = 1
INVARIANTS SlotsBoundToRunning
PROPERTIES LedgerRefined EveryInputAnswered
CHECK_DEADLOCK FALSE
