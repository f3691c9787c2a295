\* Two executions of one workflow UUID under SERIALIZABLE, where Postgres
\* may abort one transaction with a serialization failure.
CONSTANTS
  Execs = {e1, e2}
  Values = {v1, v2}
  NULL = NULL
  Program <- MC_Program
  Isolation = "SERIALIZABLE"
  MaxAttempts = 2
  RetriesAllowed = TRUE
  MaxSerFailures = 1
SYMMETRY MC_Symmetry
SPECIFICATION Spec
INVARIANTS
  SideEffectsMatchLog
