SPECIFICATION FairSpec
CONSTANTS
  a = a
  b = b
  w1 = w1
  w2 = w2
  w3 = w3
  Thread = {a, b}
  BreakPoint = {a, b}
  Sleeper = {a, b}
  Worker = {w1, w2, w3}
  Workers = 3
  Host = host
  MaxRun = 2
  MaxPause = 2
  NoThread = NoThread
  NoOne = NoOne
INVARIANTS
  TypeOK
  WorkersObey
  ThreadOnce

  
CHECK_DEADLOCK FALSE
