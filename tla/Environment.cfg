SPECIFICATION NamingSpec
CONSTANTS
  Source <- Sources
  Queried <- Names
  Resolved <- ResolvedIn
  ResolvedNamespace <- ResolvedNamespaceIn
  MaxEnvironments = 2
  MaxSources = 2
INVARIANTS RaisesIffConflict TablesAreSources CacheIsCurrent NormalizingIsResolving ResolveIsRewriting
CHECK_DEADLOCK FALSE
