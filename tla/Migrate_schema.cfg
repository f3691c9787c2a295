\* Two concurrent processes, each a migrate or a rollback: a successful
\* return ran every command and, for a migrate, leaves the schema complete.
CONSTANTS
  Procs = {p1, p2}
  MigrateCmds <- MC_MigrateCmds
  RollbackCmds <- MC_RollbackCmds
SYMMETRY MC_Symmetry
INIT Init
NEXT Next
INVARIANT SuccessIsComplete
