CONSTANTS
  Names <- MCNames
  Exprs <- MCExprs
  Programs <- MCRedefinition
  Correct <- MCRedefinition
  LabelBufSize = 256
  MaxStack = 24
SPECIFICATION MachineSpec
CHECK_DEADLOCK FALSE
PROPERTY RunsToTheEnd
