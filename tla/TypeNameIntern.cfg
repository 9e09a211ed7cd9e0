SPECIFICATION FairSpec
CONSTANTS
  A = A
  B = B
  n = n
  m = m
  Thread = {t1, t2}
  Name = {n, m}
  Symbol = {A, B}
  Path <- Paths
  Key <- Keys
  MaxInterrupts = 1
INVARIANTS TypeOK Canonical ReturnsWhatWasAskedFor
PROPERTIES ImplementsFlyweight RequestsReturn
