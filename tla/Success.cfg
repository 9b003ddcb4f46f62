CONSTANTS
  Inputs <- MCInputs
  Source = Source
  MaxRuns = 1
  MaxChunks <- MCMaxChunks
SPECIFICATION Spec
CHECK_DEADLOCK FALSE
INVARIANT SuccessMeansOutput
