CONSTANTS
  Keys <- MCKeys
  Hash <- MCHash
  InitialCapacity = 17
  MaxCapacity = 23
  MaxInfos = 3
  MaxArgument = 17
  NULL = NULL
SPECIFICATION SearchingSpec
CHECK_DEADLOCK FALSE
PROPERTY GrowsOnlyAboveLoadFactor
