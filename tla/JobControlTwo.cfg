SPECIFICATION Spec
CONSTANTS
  Pid <- MCPid2
  NoPid <- MCNoPid
  ExitCode = {0, 1}
  Job = {j1, j2}
  NoJob = NoJob
  JobLimit = 2
  MaxProcs = 2
  JobControl = TRUE
  MaxWaitArgs = 1
  Script <- MCTwo
SYMMETRY JobSymmetry
PROPERTIES
  IdKeptUntilEnd
  WaitIdsStatus
