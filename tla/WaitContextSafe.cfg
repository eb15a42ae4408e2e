SPECIFICATION Spec
CONSTANTS
  m = m
  a = a
  b = b
  w1 = w1
  w2 = w2
  timer = timer
  Thread = {m, a, b}
  Async = {a, b}
  Targets <- TargetsOfAll
  Worker = {w1, w2}
  Main = w1
  Outside = {timer}
  MaxId = 2
  MaxCall <- CallsOfAll
  NoThread = NoThread
  NoOne = NoOne
INVARIANTS
  ContextTypeOK
  OneRunner
  WaitingIdsOnce
  WaiterHasWaker
  SafeToRemove
  WaitReturns
PROPERTIES
  TriggeredOnce
CHECK_DEADLOCK FALSE
