CONSTANTS
  Path = {a, b}
  Name = {x, y}
  Private = {y}
  Holder = {h}
  MaxMade = 5
  MaxPaths = 2
SPECIFICATION FrontSpec
INVARIANTS
  HandlesResolve
  SlotsOwned
  SetBeforeUse
PROPERTIES
  DiscardRestores
CHECK_DEADLOCK FALSE
