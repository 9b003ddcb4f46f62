CONSTANTS
  Names = {x, y, z}
  MaxDepth = 3
  MaxDefines = 4
SPECIFICATION Spec
CHECK_DEADLOCK FALSE
SYMMETRY NameSymmetry
INVARIANTS
  TypeOK
  SlotsDisjoint
  InfosOwned
  LookupIsLatest
