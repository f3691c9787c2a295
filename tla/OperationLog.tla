---------------------------- MODULE OperationLog ----------------------------
(***************************************************************************)
(* What the operation log of one workflow UUID promises (spec 4.1-4.4),   *)
(* independently of how WorkflowContextImpl writes it.                     *)
(*                                                                         *)
(* The log maps every function ID of the workflow to its outcome: nothing  *)
(* yet, a returned value, or an error.  An outcome, once there, never      *)
(* changes (it is what every later execution and every replay must see),  *)
(* though several may appear in one step (a flushed resultBuffer).  The    *)
(* workflow's status goes from NONE to PENDING and then to ERROR or to     *)
(* SUCCESS; SUCCESS only once every step has a returned value logged, so   *)
(* that the workflow can be replayed from the log alone.                   *)
(***************************************************************************)
EXTENDS FiniteSets, TLC

CONSTANTS
  FuncIds,   \* the function IDs the workflow's steps take
  Values,    \* results a step can return
  NULL       \* no outcome logged

VARIABLES
  log,       \* function ID -> logged outcome or NULL
  status     \* the workflow status

Outcomes == [output : Values, error : {FALSE}] \cup [output : {NULL}, error : {TRUE}]

Returned(f) == log'[f] \in Outcomes /\ ~log'[f].error

-----------------------------------------------------------------------------

\* Outcomes appear for some steps that had none; the others are kept.
Append ==
  /\ log' # log
  /\ log' \in [FuncIds -> Outcomes \cup {NULL}]
  /\ \A f \in FuncIds : log[f] # NULL => log'[f] = log[f]

\* The workflow is started (or started again while PENDING).
Start == status = "NONE" /\ status' = "PENDING"

\* The workflow function threw.
Error == status = "PENDING" /\ status' = "ERROR"

\* The workflow function returned, and every step's value is in the log.
Succeed ==
  /\ status = "PENDING"
  /\ \A f \in FuncIds : Returned(f)
  /\ status' = "SUCCESS"

Init ==
  /\ log = [f \in FuncIds |-> NULL]
  /\ status = "NONE"

\* A step may append outcomes, change the status, or both at once (a final
\* flush written with SUCCESS, an error row written as the workflow fails).
Next ==
  /\ Append \/ UNCHANGED log
  /\ Start \/ Error \/ Succeed \/ UNCHANGED status

Spec == Init /\ [][Next]_<<log, status>>

=============================================================================
