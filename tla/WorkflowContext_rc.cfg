\* Three executions of one workflow UUID under READ COMMITTED, with crashes,
\* also checked against the abstract operation log.
CONSTANTS
  Execs = {e1, e2, e3}
  Values = {v1, v2}
  NULL = NULL
  Program <- MC_Program
  Isolation = "READ COMMITTED"
  MaxAttempts = 2
  RetriesAllowed = TRUE
  MaxSerFailures = 0
SYMMETRY MC_Symmetry
SPECIFICATION Spec
INVARIANTS
  TypeOK
  AtMostOnceWrite
  SideEffectsMatchLog
  ConsistentResults
PROPERTY
  ImplementsOperationLog
