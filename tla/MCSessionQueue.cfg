SPECIFICATION Spec
CONSTANTS
  p1 = p1  p2 = p2  w1 = w1  r1 = r1  m1 = m1  m2 = m2
  NoRow = NoRow
  Prompts = {p1, p2}
  Wakes = {w1}
  Resumes = {}
  Messages = {}
  Notes = {p1, p2}
  Edited = {p1, p2}
  CancelKinds = {"keep", "hard", "named", "legacy"}
  Features = {"hooks", "goal", "combine", "steer", "outage"}
  MaxSlots = 1
SYMMETRY PromptSymmetry
INVARIANTS TypeOK FrontIsRunning OnePlace PinNamesRunning SendNowSparesUnseen LeaseFinished ClaimBelongsToTurn StoppedTurnReported
PROPERTIES RewindTakesItsTurn LedgerRefined
CHECK_DEADLOCK FALSE
