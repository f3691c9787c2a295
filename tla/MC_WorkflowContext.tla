------------------------ MODULE MC_WorkflowContext ------------------------
(***************************************************************************)
(* Model-checking instances of WorkflowContext.                            *)
(***************************************************************************)
EXTENDS WorkflowContext

\* A read-only transaction, a write transaction that follows it, and a
\* communicator: the smallest program in which a write depends on a
\* buffered read and an external call depends on both.
MC_Program == <<"ro", "rw", "comm">>

\* A workflow whose only step is a communicator.
MC_CommProgram == <<"comm">>

\* Postgres may raise 40001 at any statement, any number of times: no
\* bound and no count.
MC_AnySerFailure == Isolation \in SnapshotLevels
MC_Uncounted == UNCHANGED serFailures

\* Executions are interchangeable.
MC_Symmetry == Permutations(Execs)
=============================================================================
