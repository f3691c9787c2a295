\* Two executions under READ COMMITTED, with crashes, receiving the
\* messages another workflow sends, awaiting a child workflow, sending a
\* message, reading another workflow's event and setting one.
CONSTANTS
  Execs = {e1, e2}
  Values = {v1, v2}
  v1 = v1
  v2 = v2
  Messages <- MC_Messages
  TargetStatuses <- MC_TargetStatuses
  NULL = NULL
  Program <- MC_NotifyProgram
  Isolation = "READ COMMITTED"
  MaxAttempts = 1
  RetriesAllowed = FALSE
  MaxSerFailures = 0
SYMMETRY MC_Symmetry
INIT NInit
NEXT NNext
INVARIANTS
  SideEffectsMatchLog
  ConsistentResults
PROPERTY
  NotifyImplementsOperationLog
