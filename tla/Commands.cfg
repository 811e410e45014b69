SPECIFICATION Spec
CONSTANTS
  Subjects = {"redirection", "path"}
  o1 = o1
  usr = usr
  home = home
  c1 = c1
  c2 = c2
  unset = unset
  MaxFd = 6
  File <- MCFile
  Closed = Closed
  Obj <- MCObj
  RedirArg <- MCRedirArg
  MaxOps = 2
  MaxDepth = 2
  MaxMade = 4
  MaxLost = 1
  Cmd <- MCCmd
  Dir <- MCDir
  PathValue <- MCPathValue
  Unset = unset
  Default <- MCDefault
  MaxCache = 1
INVARIANTS
  DescriptorsOwned
  InheritsOnlyPassed
  SecondRunFinds
PROPERTIES
  RestoredAsBefore
\* A shell that cannot make a pipe exits.
CHECK_DEADLOCK FALSE
