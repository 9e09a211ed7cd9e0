SPECIFICATION BuildersSpec
CONSTANTS
  InterfaceId = {"_I", "_J"}
  StackLimit = 24
  Absent = {"Missing"}
  Cases <- AllCases
  CircularAliases <- Circular
  RegularityAnswers <- Regularity
INVARIANTS
  TypeOK
  AncestorsAreOrdered
  CyclesAreRefused
  ConstantsAreFound
  AliasesAreJudged
  MethodsFollowAncestors
  VariablesFollowAncestors
  NewFollowsInitialize
  FaultsAreRaised
  BuildsAreNotNested
