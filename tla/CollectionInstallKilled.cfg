SPECIFICATION Spec
CONSTANTS
  g = g
  h = h
  v1 = v1
  v2 = v2
  r1 = r1
  r2 = r2
  a = a
  b = b
  dir = dir
  other = other
  Project = {p}
  Gem = {g, h}
  Version = {v1, v2}
  File = {a, b}
  Revision = {r1, r2}
  Path = {dir, other}
  Contents <- TwoRevisions
  Lockfiles <- Returning
  None = None
  MaxCrashes = 1
INVARIANTS AvailableIsInstalledAfterKills
CHECK_DEADLOCK FALSE
