CONSTANTS
  Width = 4
  Node <- NodeSet
  Expression <- ExpressionSet
  Name = {"x", "y", "u", "b", "f", "bump", "two", "fail"}
  Function = {"f", "bump", "two", "fail"}
  Setter = {"f"}
  InitialValue <- InitialValueDef
  Body <- BodyDef
  MaxContentions = 2
SPECIFICATION FairSpec
INVARIANTS
  Agrees
  OperandsLocked
  OneValueLeft
PROPERTY
  Terminates
