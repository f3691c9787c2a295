---------------------------- MODULE DebugReplay ----------------------------
(***************************************************************************)
(* Replay of a recorded workflow by WorkflowContextDebug                   *)
(* (src/unnamed/part_001), composed with the executions of                 *)
(* WorkflowContext and Notifications that produce the log it reads.       *)
(*                                                                         *)
(* Once the workflow's status row is SUCCESS or ERROR, a debugger may      *)
(* replay it at any moment, while lagging duplicate executions may still   *)
(* be running.  The replay calls the same workflow function: every step    *)
(* takes the next functionID and must find the outcome recorded under it.  *)
(* In direct mode the recorded output is returned without running the      *)
(* step; with a debug proxy the user's transaction runs again, and its     *)
(* result is compared with the recorded one and then discarded.            *)
(***************************************************************************)
EXTENDS Notifications

CONSTANT DebugProxy   \* dbosExec.debugProxy is configured

ASSUME DebugProxy \in BOOLEAN

VARIABLE dbg   \* the replaying WorkflowContextDebug

dvars == <<nvars, dbg>>

\* functionIDGetIncrement of WorkflowContextDebug, the step's result handed
\* to the workflow code.
DebugAdvance(d, v) ==
  [d EXCEPT !.obs = d.obs @@ (d.funcId :> v), !.funcId = d.funcId + 1]

ReplayResult(recorded, executed) == recorded

\* DBOSExecutor.debugWorkflow (not under src/: spec 4.8) starts the replay
\* of a workflow whose status row is terminal.
DebugStart ==
  /\ dbg.pc = "idle"
  /\ wfStatus \in {"SUCCESS", "ERROR"}
  /\ dbg' = [dbg EXCEPT !.pc = "step", !.status = wfStatus]
  /\ UNCHANGED nvars

\* WorkflowContextDebug.transaction with its checkExecution: exactly one
\* transaction_outputs row must exist; without it checkExecution throws
\* DBOSDebuggerError inside the transaction, `check` stays unset and the
\* read of check.output throws (both are the error outcome "debugError").
\* A recorded error is thrown; otherwise the recorded output is returned.
\* With the proxy the user's function runs first and may return anything.
DebugTransaction ==
  LET f == dbg.funcId  row == txnOutputs[f] IN
  /\ dbg.pc = "step"
  /\ f < Len(Program)
  /\ Kind(f) \in {"ro", "rw"}
  /\ CASE row = NULL -> dbg' = [dbg EXCEPT !.pc = "debugError"]
       [] row.error  -> dbg' = [dbg EXCEPT !.pc = "threw"]
       [] OTHER      ->
            \E v \in IF DebugProxy THEN Values ELSE {row.output} :
              dbg' = DebugAdvance(dbg, ReplayResult(row.output, v))
  /\ UNCHANGED nvars

\* WorkflowContextDebug.external: the communicator is never called; its
\* recorded outcome must exist in operation_outputs.
DebugExternal ==
  LET f == dbg.funcId  row == opOutputs[f] IN
  /\ dbg.pc = "step"
  /\ f < Len(Program)
  /\ Kind(f) = "comm"
  /\ CASE row = NULL -> dbg' = [dbg EXCEPT !.pc = "debugError"]
       [] row.error  -> dbg' = [dbg EXCEPT !.pc = "threw"]
       [] OTHER      -> dbg' = DebugAdvance(dbg, row.output)
  /\ UNCHANGED nvars

\* send, recv, setEvent and getEvent of WorkflowContextDebug: nothing is
\* sent, consumed or set; the outcome recorded in operation_outputs must
\* exist (else DBOSDebuggerError), and recv and getEvent return it.
DebugNotify ==
  LET f == dbg.funcId  row == opOutputs[f] IN
  /\ dbg.pc = "step"
  /\ f < Len(Program)
  /\ Kind(f) \in {"send", "recv", "setEvent", "getEvent"}
  /\ dbg' = IF row = NULL THEN [dbg EXCEPT !.pc = "debugError"]
            ELSE DebugAdvance(dbg, IF Kind(f) \in {"recv", "getEvent"}
                                   THEN row.output ELSE NULL)
  /\ UNCHANGED nvars

\* RetrievedHandleDebug.getStatus: the status recorded under the caller's
\* (workflow UUID, function ID); NULL when none was recorded.
RecordedStatus(f) == opOutputs[f]

\* WorkflowContextDebug.retrieveWorkflow takes the next function ID for a
\* RetrievedHandleDebug, whose one getStatus must find the recorded status
\* (else DBOSDebuggerError) and returns it.
DebugRetrieve ==
  LET f == dbg.funcId IN
  /\ dbg.pc = "step"
  /\ f < Len(Program)
  /\ Kind(f) = "retrieve"
  /\ dbg' = IF RecordedStatus(f) = NULL THEN [dbg EXCEPT !.pc = "debugError"]
            ELSE DebugAdvance(dbg, RecordedStatus(f).output)
  /\ UNCHANGED nvars

\* startChildWorkflow of WorkflowContextDebug: the child UUID is derived
\* from the next function ID as in the original execution, and the child
\* is replayed by debugWorkflow (not under src/).  Its replay finds the
\* child's outcome if the child ended, and otherwise a missing record
\* raises DBOSDebuggerError; the parent awaits the handle's result.
DebugChildWorkflow ==
  LET f == dbg.funcId  row == children[childUUID(NULL, f)] IN
  /\ dbg.pc = "step"
  /\ f < Len(Program)
  /\ Kind(f) = "child"
  /\ dbg' = CASE row.status = "SUCCESS" -> DebugAdvance(dbg, row.output)
              [] row.status = "ERROR"   -> [dbg EXCEPT !.pc = "threw"]
              [] OTHER                  -> [dbg EXCEPT !.pc = "debugError"]
  /\ UNCHANGED nvars

\* The replayed workflow function returns.
DebugFinish ==
  /\ dbg.pc = "step"
  /\ dbg.funcId = Len(Program)
  /\ dbg' = [dbg EXCEPT !.pc = "done"]
  /\ UNCHANGED nvars

DebugInit ==
  /\ NInit
  /\ dbg = [pc |-> "idle", funcId |-> 0, obs |-> EmptyFn, status |-> "NONE"]

DebugNext ==
  \/ NNext /\ UNCHANGED dbg
  \/ DebugStart \/ DebugTransaction \/ DebugExternal \/ DebugNotify
  \/ DebugRetrieve \/ DebugChildWorkflow \/ DebugFinish

DebugSpec == DebugInit /\ [][DebugNext]_dvars

-----------------------------------------------------------------------------
(* Properties                                                              *)

\* Spec 4.8: a workflow that completed successfully can be replayed: every
\* step finds its recorded outcome (no DBOSDebuggerError) and no recorded
\* error is rethrown.  This needs every read-only output the execution saw
\* to have been flushed before the status became SUCCESS.
ReplayOfSuccessSucceeds ==
  dbg.status = "SUCCESS" => dbg.pc \notin {"debugError", "threw"}

=============================================================================
