\* Two concurrent migrators race on check-then-create.
CONSTANTS
  Procs = {p1, p2}
  MigrateCmds <- MC_MigrateCmds
  RollbackCmds <- MC_RollbackCmds
SYMMETRY MC_Symmetry
INIT Init
NEXT Next
INVARIANT ConcurrentMigrationsSucceed
