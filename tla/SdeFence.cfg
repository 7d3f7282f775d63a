SPECIFICATION Spec
CONSTANTS
  Fences = {f1, f2}
  Offsets = {1}
  MaxOffset = 1
  Half = 3
  MaxLag = 1
  MaxAge = 0
  Errors = {FALSE}
INVARIANTS TypeOK OneHome ContextOutlivesFences DoneWithinCommits
PROPERTIES ImplementsTimeline DueFenceSignals
CHECK_DEADLOCK FALSE
