\* One execution under REPEATABLE READ (40001 is raised there as under
\* SERIALIZABLE) with fair scheduling, against a Postgres that may raise
\* a serialization failure any number of times.
CONSTANTS
  Execs = {e1}
  Values = {v1, v2}
  NULL = NULL
  Program <- MC_Program
  Isolation = "REPEATABLE READ"
  MaxAttempts = 2
  RetriesAllowed = TRUE
  MaxSerFailures = 0
  CanFailSerialization <- MC_AnySerFailure
  CountSerFailure <- MC_Uncounted
SPECIFICATION FairSpec
PROPERTIES
  EveryExecutionEnds
