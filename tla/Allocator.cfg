SPECIFICATION Spec
CONSTANTS
  SystemPage = 16
  FallbackPage = 16
  Header = 3
  Alignment = {1, 2, 4}
  Address = {8}
  Size = {1, 2, 3, 8, 12, 16}
  MaxBlocks = 5
INVARIANTS BlocksStayInTheirPage BlocksAreDisjoint BlocksAreAligned EveryPageIsListedOnce
CHECK_DEADLOCK FALSE
