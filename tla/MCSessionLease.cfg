SPECIFICATION Spec
CONSTANTS
  p1 = p1  p2 = p2  w1 = w1  r1 = r1  m1 = m1  m2 = m2
  NoRow = NoRow
  Prompts = {p1}
  Wakes = {}
  Resumes = {r1}
  Messages = {}
  Notes = {}
  Edited = {}
  CancelKinds = {"keep"}
  Features = {}
  MaxSlots = 1
INVARIANTS LeaseFinished
CHECK_DEADLOCK FALSE
