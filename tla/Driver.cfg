CONSTANTS
  Inputs <- MCInputs
  Source = Source
  MaxRuns = 2
  MaxChunks <- MCMaxChunks
SPECIFICATION Spec
CHECK_DEADLOCK FALSE
INVARIANTS
  TypeOK
  SectionsInPlace
  OutputWhole
  ErrorsKeepOutput
  SourceKept
  FewLeftovers
PROPERTY InvocationsEnd
