--------------------------- MODULE MC_DebugReplay ---------------------------
EXTENDS DebugReplay

CONSTANT v1

\* Another workflow sends this one a single message.
MC_OneMessage == <<v1>>

\* The retrieved workflow does not exist (null), then has status v1.
MC_OneTargetStatus == <<v1>>

\* A read-only transaction whose output is flushed by the communicator
\* step, a write, then a message received, a child workflow awaited, and
\* a send recorded in the system database, and the status of a retrieved
\* workflow.
MC_ReplayProgram == <<"ro", "comm", "rw", "recv", "child", "send", "retrieve">>

MC_Symmetry == Permutations(Execs)
=============================================================================
