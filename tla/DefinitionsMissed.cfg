SPECIFICATION Spec
CONSTANTS
  InterfaceId = {"_I", "_J"}
  StackLimit = 16
  Absent = {"Missing"}
  Cases <- TwiceBelow
INVARIANTS DuplicatesAreEliminated
