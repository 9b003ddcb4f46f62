CONSTANTS
  Names <- MCNames
  Exprs <- MCExprs
  Programs <- MCSubtraction
  Correct <- MCSubtraction
  LabelBufSize = 256
  MaxStack = 24
SPECIFICATION MachineSpec
CHECK_DEADLOCK FALSE
INVARIANT CompiledAgrees
