CONSTANTS
  MaxCalls = 4
SPECIFICATION Spec
INVARIANTS
  DueGiven
  MethodsAgree
CHECK_DEADLOCK FALSE
