SPECIFICATION NamingSpec
CONSTANTS
  Source <- Sources
  Queried <- Names
  Resolved <- ResolvedIn
  ResolvedNamespace <- ResolvedNamespaceIn
  MaxEnvironments = 2
  MaxSources = 1
INVARIANTS AbsoluteNamesAreNotSearched
CHECK_DEADLOCK FALSE
