\* Two executions under SERIALIZABLE, with crashes, one serialization
\* failure raised by Postgres, and fair scheduling of every task.
CONSTANTS
  Execs = {e1, e2}
  Values = {v1, v2}
  NULL = NULL
  Program <- MC_Program
  Isolation = "SERIALIZABLE"
  MaxAttempts = 2
  RetriesAllowed = TRUE
  MaxSerFailures = 1
SPECIFICATION FairSpec
INVARIANTS
  AtMostOnceWrite
PROPERTIES
  EveryExecutionEnds
