SPECIFICATION Spec
CONSTANTS
  t1 = t1
  t2 = t2
  t3 = t3
  v = v
  s = s
  p = p
  Thread = {t1, t2, t3}
  Ref = {v}
  Kind <- KindV
  Transient = {}
  Captured = {v}
  MaxFrame = 2
  NoThread = NoThread
  NoRef = NoRef
SYMMETRY Threads3
CONSTRAINT OneCalls
INVARIANTS
  MutualExclusion
  OwnedIsOnTop
  OneRequestPerWait
  QueuedOnce
  HolderIsAlive
PROPERTIES
  ImplementsOwnership
CHECK_DEADLOCK FALSE
