CONSTANTS
  MaxWords = 5
  MaxTrees = 2
SPECIFICATION Spec
INVARIANTS
  ParsesBack
  ReadsAsWritten
  NewlinesIgnored
CHECK_DEADLOCK FALSE
