CONSTANTS
  Names <- MCNames
  Exprs <- MCExprs
  Programs <- MCPrograms
  LabelBufSize = 8
SPECIFICATION Spec
CHECK_DEADLOCK FALSE
INVARIANTS
  TypeOK
  FunctionsNotNested
  BranchesLand
  ReferencesResolve
