SPECIFICATION FairSpec
CONSTANTS
  Handler = {h1}
  Process = {p1}
  MaxTime = 1
  Kinds = {"System"}
PROPERTY SleepEnds
CHECK_DEADLOCK FALSE
