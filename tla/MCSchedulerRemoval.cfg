SPECIFICATION Spec
CONSTANTS
  t1 = t1  t2 = t2  i1 = i1  i2 = i2  i3 = i3  p = p  q = q
  NoIter = NoIter  NoTask = NoTask
  Tasks = {t1, t2}
  Legacy = {t1, t2}
  Kinds = {"durable", "plain"}
  Prompts = {p}
  Iterations = {}
  MaxTasks = 2
  FreshEvery = 2
  MaxRevision = 2
  MaxQueue = 2
SYMMETRY Symmetry
INVARIANTS TypeOK RemovalIsFinal ReservationFresh
CHECK_DEADLOCK FALSE
