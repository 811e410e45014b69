CONSTANTS
  MaxExpressions = 2
  MaxStatements = 2
SPECIFICATION Spec
INVARIANTS
  WellTyped
  NeverGoesWrong
  ComputesAsWritten
CHECK_DEADLOCK FALSE
