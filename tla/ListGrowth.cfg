CONSTANTS
  Sources <- MCLongLists
  Letters <- MCLetters
  LexemeCapacity = 256
  Garbage = Garbage
  ListCapacity = 8
  ExprSize = 64
SPECIFICATION Spec
CHECK_DEADLOCK FALSE
INVARIANT ListsOfAnyLength
