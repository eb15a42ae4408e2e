SPECIFICATION Spec
CONSTANTS
  Handler = {h1, h2, h3}
  Process = {p1, p2}
  MaxTime = 2
  Kinds = {"System", "Emulated"}
SYMMETRY Symmetry
INVARIANTS TypeOK TablesAgree NoneOverdue
PROPERTY ImplementsAlarm
CHECK_DEADLOCK FALSE
