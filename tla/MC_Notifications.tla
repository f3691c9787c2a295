------------------------- MODULE MC_Notifications -------------------------
(***************************************************************************)
(* Model-checking instances of Notifications.                              *)
(***************************************************************************)
EXTENDS Notifications

CONSTANTS v1, v2

\* The other workflow sends two payloads, so that a recv can take the
\* wrong one or a second one.
MC_Messages == <<v1, v2>>

\* Nobody sends to this workflow.
MC_NoMessages == <<>>

\* The retrieved workflow's status: v1 while it runs, then v2 once it has
\* ended, so that a status read late differs from one read early.
MC_TargetStatuses == <<v1, v2>>

\* No step retrieves a workflow.
MC_NoTarget == <<>>

\* A read whose output is buffered until recv flushes it, a message
\* received, a child workflow awaited, a message sent, an event read from
\* another workflow, an event set from everything seen, and the status of
\* a retrieved workflow.
MC_NotifyProgram == <<"ro", "recv", "child", "send", "getEvent", "setEvent", "retrieve">>

\* A read still buffered when getEvent records its result.
MC_GetEventProgram == <<"ro", "getEvent">>

\* Executions are interchangeable.
MC_Symmetry == Permutations(Execs)
=============================================================================
