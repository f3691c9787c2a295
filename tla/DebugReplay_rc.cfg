\* Replay, through a debug proxy, of a workflow run by two executions under
\* READ COMMITTED with crashes.
CONSTANTS
  Execs = {e1, e2}
  Values = {v1, v2}
  v1 = v1
  Messages <- MC_OneMessage
  TargetStatuses <- MC_OneTargetStatus
  NULL = NULL
  Program <- MC_ReplayProgram
  Isolation = "READ COMMITTED"
  MaxAttempts = 2
  RetriesAllowed = TRUE
  MaxSerFailures = 0
  DebugProxy = TRUE
SYMMETRY MC_Symmetry
INIT DebugInit
NEXT DebugNext
INVARIANTS
  ReplayOfSuccessSucceeds
  
