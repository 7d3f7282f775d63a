SPECIFICATION Spec
CONSTANTS
  k0 = k0
  Crtcs = {k0, k1}
  CrtcIndex <- MCIndex
  Planes = {p}
  Clients = {a}
  Commits = {c1, c2}
  Faults = TRUE
  None = None
INVARIANTS TypeOK NoUseAfterFree AsyncBeforeSwap SwHwInSync
PROPERTIES CommitsReturn
CHECK_DEADLOCK TRUE
