SPECIFICATION FairSpec
CONSTANTS
  t1 = t1
  t2 = t2
  t3 = t3
  v = v
  s = s
  p = p
  Thread = {t1, t2}
  Ref = {v, s, p}
  Kind <- KindVSP
  Transient = {p}
  Captured = {v}
  MaxFrame = 2
  NoThread = NoThread
  NoRef = NoRef
CONSTRAINT OneDeclares
ACTION_CONSTRAINT FewAborts
INVARIANTS
  OwnerMatchesLocks
PROPERTIES
  SyncHeldUntilReturn
  EveryWaitEnds
CHECK_DEADLOCK FALSE
