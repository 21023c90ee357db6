SPECIFICATION Spec
CONSTANTS
  t1 = t1  t2 = t2  i1 = i1  i2 = i2  i3 = i3  p = p  q = q
  NoIter = NoIter  NoTask = NoTask
  Tasks = {t1}
  Legacy = {}
  Kinds = {"plain"}
  Prompts = {p}
  Iterations = {i1, i2}
  MaxTasks = 2
  FreshEvery = 2
  MaxRevision = 2
  MaxQueue = 0
SYMMETRY Symmetry
INVARIANTS NoOverlap
CHECK_DEADLOCK FALSE
