CONSTANTS
  Width = 4
  Params <- MCParams
  Args <- MCArgs
  Packages <- MCPackages
  Scripts <- MCScripts
  Trees <- MCTrees
SPECIFICATION Spec
INVARIANTS
  CalculatesExactly
  CallsWhatMatches
  InheritsFromAll
  LinesInTheirBlocks
  OperatorsBind
CHECK_DEADLOCK FALSE
