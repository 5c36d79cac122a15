CONSTANTS
  MaxIncludeDepth = 3
  MaxBytes = 3
  MaxIncludes = 2
SPECIFICATION FairSpec
INVARIANTS OnlyUnparsedTmpLeaks FetchedWhole
PROPERTY EveryIncludeReturns
