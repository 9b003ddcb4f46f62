CONSTANTS
  Names <- MCNames
  Exprs <- MCExprs
  Programs <- MCNestedDefine
  Correct <- MCNestedDefine
  LabelBufSize = 256
  MaxStack = 24
SPECIFICATION MachineSpec
CHECK_DEADLOCK FALSE
INVARIANT CompiledAgrees
