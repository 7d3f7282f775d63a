SPECIFICATION Spec
CONSTANTS
  k0 = k0
  Crtcs = {k0}
  CrtcIndex <- MCIndex
  Planes = {p}
  Clients = {a, b}
  Commits = {c1, c2}
  Faults = FALSE
  None = None
INVARIANTS LastCloseTurnsOff
CHECK_DEADLOCK TRUE
