CONSTANTS
  Names <- MCNames
  Exprs <- MCExprs
  Programs <- MCPrograms
  Correct <- MCCorrect
  LabelBufSize = 256
  MaxStack = 24
SPECIFICATION MachineSpec
CHECK_DEADLOCK FALSE
INVARIANTS
  MachineTypeOK
  StackDiscipline
  CompiledAgrees
  ControlIntact
PROPERTIES
  RunsToTheEnd
  EverythingEnds
