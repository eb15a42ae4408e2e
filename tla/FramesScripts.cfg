CONSTANTS
  Node <- MCNode
  Script <- Scripts
  Special = 50
  Exception = {"E"}
  MaxThrows = 2
  MaxTrue = 2
SPECIFICATION FairSpec
INVARIANTS
  TypeOK
  Agrees
PROPERTY
  Terminates
