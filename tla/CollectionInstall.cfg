SPECIFICATION Spec
CONSTANTS
  g = g
  h = h
  v1 = v1
  v2 = v2
  r1 = r1
  r2 = r2
  a = a
  b = b
  dir = dir
  other = other
  Project = {p, q}
  Gem = {g, h}
  Version = {v1, v2}
  File = {a, b}
  Revision = {r1, r2}
  Path = {dir, other}
  Contents <- TwoRevisions
  Lockfiles <- Changing
  None = None
  MaxCrashes = 1
SYMMETRY Projects
INVARIANTS AvailableIsInstalled InstallMakesAvailable
CHECK_DEADLOCK FALSE
