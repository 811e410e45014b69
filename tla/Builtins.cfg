CONSTANTS
  MaxMoves = 4
SPECIFICATION Spec
INVARIANTS
  AnswersAgree
  GlobFinds
  LogicalIsHere
PROPERTIES
  CdGoesThere
CHECK_DEADLOCK FALSE
