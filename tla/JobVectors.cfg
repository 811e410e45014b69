SPECIFICATION Spec
CONSTANTS
  Pid <- MCPid
  NoPid <- MCNoPid
  ExitCode = {1}
  Job = {j1, j2, j3}
  NoJob = NoJob
  JobLimit = 3
  MaxProcs = 2
PROPERTIES
  ImplementsMaps
SYMMETRY JobSymmetry
