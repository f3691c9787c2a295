----------------------------- MODULE MC_Migrate -----------------------------
EXTENDS Migrate

\* Two migration commands, so that one can fail after another succeeded,
\* and one rollback command.
MC_MigrateCmds == 2
MC_RollbackCmds == 1

MC_Symmetry == Permutations(Procs)
=============================================================================
