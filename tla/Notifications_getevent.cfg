\* Two executions under READ COMMITTED, with crashes: a read-only
\* transaction followed by getEvent.
CONSTANTS
  Execs = {e1, e2}
  Values = {v1, v2}
  v1 = v1
  v2 = v2
  Messages <- MC_NoMessages
  TargetStatuses <- MC_NoTarget
  NULL = NULL
  Program <- MC_GetEventProgram
  Isolation = "READ COMMITTED"
  MaxAttempts = 1
  RetriesAllowed = FALSE
  MaxSerFailures = 0
SYMMETRY MC_Symmetry
INIT NInit
NEXT NNext
INVARIANT
  SideEffectsMatchLog
