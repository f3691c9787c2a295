--------------------------- MODULE ChildWorkflow ---------------------------
(***************************************************************************)
(* WorkflowContextImpl.childWorkflow and the handle's getResult            *)
(* (src/unnamed/part_002, lines 287-301 and 599-614), composed with the    *)
(* executions of WorkflowContext.                                          *)
(*                                                                         *)
(* childWorkflow takes the next functionID and names the child             *)
(* "<workflowUUID>-<functionID>", so every execution of the parent, a      *)
(* duplicate or a recovery, starts the same child UUID.  internalWorkflow  *)
(* (the executor, not under src/) inserts the child's workflow_status row  *)
(* unless it exists (spec 4.4 and line 117) and runs the child; the        *)
(* parent awaits the child's result through the handle.                    *)
(*                                                                         *)
(* The child's own steps are abstracted: a started child ends once, with a *)
(* value or an error, and every execution of it returns that outcome.     *)
(* That is what WorkflowContext shows of any workflow UUID                 *)
(* (ConsistentResults).                                                    *)
(***************************************************************************)
EXTENDS WorkflowContext

VARIABLE
  children   \* child workflow UUID -> its workflow_status row

cvars == <<vars, children>>

\* Child UUIDs: a function ID, and NULL for the parent UUID that all
\* executions share.
ChildIds == FuncIds \X {NULL}

\* `this.workflowUUID + "-" + funcId`: the parent UUID is the same for all
\* executions, so the child UUID is determined by the function ID.
childUUID(e, f) == <<f, NULL>>

-----------------------------------------------------------------------------

\* childWorkflow: internalWorkflow with the child UUID, which inserts the
\* child's status row if absent and otherwise finds the existing one.
StartChildWorkflow(e) ==
  LET c == ctx[e]  u == childUUID(e, c.funcId) IN
  /\ c.pc = "childStart"
  /\ children' = [children EXCEPT ![u].status = IF @ = "NONE" THEN "PENDING" ELSE @]
  /\ ctx' = [ctx EXCEPT ![e].pc = "childWait"]
  /\ UNCHANGED <<txnOutputs, opOutputs, wfStatus, pending, effects, serFailures>>

\* The child workflow function returns a value or throws; its status row
\* records the outcome.
ChildEnds(u) ==
  /\ children[u].status = "PENDING"
  /\ \/ \E v \in Values : children' = [children EXCEPT ![u] = [status |-> "SUCCESS", output |-> v]]
     \/ children' = [children EXCEPT ![u].status = "ERROR"]
  /\ UNCHANGED vars

\* handle.getResult(): the child's result is returned to the parent's code;
\* a child error is thrown in the parent.
ChildGetResult(e) ==
  LET c == ctx[e]  row == children[childUUID(e, c.funcId)] IN
  /\ c.pc = "childWait"
  /\ row.status \in {"SUCCESS", "ERROR"}
  /\ IF row.status = "SUCCESS"
       THEN /\ ctx' = [ctx EXCEPT ![e] = Advance(c, row.output)]
            /\ UNCHANGED wfStatus
       ELSE Fail(e)
  /\ UNCHANGED <<txnOutputs, opOutputs, pending, effects, serFailures, children>>

-----------------------------------------------------------------------------

CInit ==
  /\ Init
  /\ children = [u \in ChildIds |-> [status |-> "NONE", output |-> NULL]]

CNext ==
  \/ Next /\ UNCHANGED children
  \/ \E u \in ChildIds : ChildEnds(u)
  \/ \E e \in Execs : StartChildWorkflow(e) \/ ChildGetResult(e)

=============================================================================
