SPECIFICATION Spec
CONSTANTS
  Pid <- MCPid2
  NoPid <- MCNoPid
  ExitCode = {0}
  Job = {j1}
  NoJob = NoJob
  JobLimit = 1
  MaxProcs = 2
  JobControl = TRUE
  MaxWaitArgs = 1
  Script <- MCAll
INVARIANTS
  TypeOK
  TableAgrees
  NoStatusLost
  ChildrenKnown
PROPERTIES
  ReapRecorded
  WaitEndsWithJob
  SignalReachesGroup
