SPECIFICATION Spec
CONSTANTS
  Worker = {w1, w2}
  Object = {o1, o2}
  Scope = {g, s}
  Global = {g}
  MaxCycle = 2
  NoObject = NoObject
  NoScope = NoScope
SYMMETRY Symmetry
CONSTRAINT NotRaced
INVARIANTS
  TypeOK
  LiveIsKept
  NoDangling
  CollectedInOneCycle
CHECK_DEADLOCK FALSE
