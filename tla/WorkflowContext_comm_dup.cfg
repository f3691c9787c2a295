\* Two executions of a workflow made of one communicator.
CONSTANTS
  Execs = {e1, e2}
  Values = {v1, v2}
  NULL = NULL
  Program <- MC_CommProgram
  Isolation = "READ COMMITTED"
  MaxAttempts = 2
  RetriesAllowed = TRUE
  MaxSerFailures = 0
SPECIFICATION Spec
PROPERTIES
  NoCallAfterRecord
