SPECIFICATION LiveSpec
CONSTANTS
  Pid <- MCPid2
  NoPid <- MCNoPid
  ExitCode = {0}
  Job = {j1, j2}
  NoJob = NoJob
  JobLimit = 2
  MaxProcs = 1
  JobControl = TRUE
  MaxWaitArgs = 1
  Script <- MCLive
PROPERTIES
  ZombieReaped
  WaitReturns
