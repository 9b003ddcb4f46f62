CONSTANTS
  Keys <- MCKeys
  Hash <- MCHash
  InitialCapacity = 3
  MaxCapacity = 23
  MaxInfos = 4
  MaxArgument = 400
  NULL = NULL
SPECIFICATION SearchingSpec
CHECK_DEADLOCK FALSE
INVARIANTS
  TypeOK
  ProbePathsUnbroken
  InfosOwned
  NeverFull
  LeastPrime
PROPERTIES
  ImplementsNameMap
  ImplementsTable
  SearchEnds
