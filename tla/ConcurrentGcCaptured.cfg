SPECIFICATION Spec
CONSTANTS
  Worker = {w1}
  Object = {o1, o2, o3}
  Scope = {g, s}
  Global = {g}
  MaxCycle = 1
  NoObject = NoObject
  NoScope = NoScope
SYMMETRY Symmetry
CONSTRAINT CollectsClosures

INVARIANTS
  CapturedIsKept
CHECK_DEADLOCK FALSE
