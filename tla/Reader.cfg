CONSTANTS
  Sources <- MCSources
  Letters <- MCLetters
  LexemeCapacity = 3
  Garbage = Garbage
  ListCapacity = 8
  ExprSize = 64
SPECIFICATION Spec
CHECK_DEADLOCK FALSE
INVARIANTS
  LexerTypeOK
  BufferFits
  PlacesRight
  TokensTile
  TokensMaximal
  TreesDerive
  RejectsAtFirstError
  SpansNest
  ShortListsSafe
PROPERTY ReaderEnds
