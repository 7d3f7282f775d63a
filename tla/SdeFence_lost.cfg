SPECIFICATION Spec
CONSTANTS
  Fences = {f1, f2}
  Offsets = {1}
  MaxOffset = 1
  Half = 3
  MaxLag = 1
  MaxAge = 1
  Errors = {FALSE}
INVARIANTS SignalReachesAll
CHECK_DEADLOCK FALSE
SYMMETRY FencesSymmetry
