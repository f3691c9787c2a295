-------------------------- MODULE WorkflowContext --------------------------
(***************************************************************************)
(* The operation log of one workflow UUID, as driven by WorkflowContextImpl *)
(* (src/unnamed/part_002, the workflow.ts fragment).                        *)
(*                                                                         *)
(* Several executions of the same workflow UUID may exist: a duplicate     *)
(* start by a caller, or a re-execution after a crash (recovery).  Each    *)
(* execution runs the same deterministic workflow function, given here as  *)
(* Program, a sequence of step kinds:                                      *)
(*   "ro"   a transaction registered with readOnly: true                   *)
(*   "rw"   any other transaction                                          *)
(*   "comm" a communicator, called through WorkflowContextImpl.external    *)
(*   "send", "recv", "setEvent", "getEvent" the notification calls (their *)
(*          actions are in the Notifications module)                       *)
(*   "child" a child workflow started and awaited (ChildWorkflow module)   *)
(*   "retrieve" retrieveWorkflow and one getStatus of the handle           *)
(*          (Notifications module)                                         *)
(* Every step call takes the next functionID (functionIDGetIncrement).     *)
(*                                                                         *)
(* Durable state: dbos.transaction_outputs in the user database            *)
(* (txnOutputs), dbos.operation_outputs in the system database            *)
(* (opOutputs), and the workflow status row (wfStatus).  Each execution    *)
(* keeps its in-memory resultBuffer, the write set of its open user-       *)
(* database transaction (pending), and a ghost record of the step results  *)
(* its workflow code has seen (obs).                                       *)
(*                                                                         *)
(* Data is abstracted to the small set Values: a step's result is any      *)
(* member, since the database or the outside world may answer differently  *)
(* on each execution.                                                      *)
(***************************************************************************)
EXTENDS Naturals, Sequences, FiniteSets, TLC

\* IsolationLevel of transaction.ts: the levels a TransactionConfig may name
\* (readOnly, its other field, is the step kind "ro" or "rw").
IsolationLevel == {"READ UNCOMMITTED", "READ COMMITTED", "REPEATABLE READ",
                   "SERIALIZABLE"}

\* The levels at which a transaction runs on one snapshot.
SnapshotLevels == {"REPEATABLE READ", "SERIALIZABLE"}

CONSTANTS
  Execs,            \* executions of the one workflow UUID (model values)
  Program,          \* the workflow function: a sequence of step kinds
  Values,           \* results a step can return
  NULL,             \* model value: no row / no value
  Isolation,        \* isolation level of the registered transactions
  MaxAttempts,      \* communicator maxAttempts
  RetriesAllowed,   \* communicator retriesAllowed
  MaxSerFailures    \* bound on serialization failures raised by Postgres

ASSUME Program \in Seq({"ro", "rw", "comm", "send", "recv", "setEvent", "getEvent", "child", "retrieve"}) /\ Len(Program) > 0
ASSUME Isolation \in IsolationLevel
ASSUME MaxAttempts \in Nat \ {0} /\ RetriesAllowed \in BOOLEAN
ASSUME MaxSerFailures \in Nat /\ NULL \notin Values

VARIABLES
  txnOutputs,   \* dbos.transaction_outputs rows of this workflow, by function_id
  opOutputs,    \* dbos.operation_outputs rows of this workflow, by function_id
  wfStatus,     \* status column of the workflow_status row
  ctx,          \* per execution: program counter, functionID, resultBuffer, ...
  pending,      \* per execution: rows written by its open user-db transaction
  effects,      \* ghost: committed user writes and communicator invocations
  serFailures   \* serialization failures raised so far

vars == <<txnOutputs, opOutputs, wfStatus, ctx, pending, effects, serFailures>>

FuncIds == 0 .. Len(Program) - 1
Kind(f) == Program[f + 1]

Row == [output : Values \cup {NULL}, error : BOOLEAN]
OutputRow(v) == [output |-> v, error |-> FALSE]
GuardRow == OutputRow(NULL)
ErrorRow == [output |-> NULL, error |-> TRUE]

PCs == {"init", "check", "flush", "run", "commit", "txnError",
        "extFlush", "extCheck", "extAttempt", "extRecord",
        "notifyFlush", "notifySys", "childStart", "childWait",
        "finish", "done", "returned", "failed", "crashed"}
Ended == {"done", "returned", "failed", "crashed"}
Alive(e) == ctx[e].pc \notin Ended \cup {"init"}

Ctx == [pc : PCs, funcId : 0 .. Len(Program), buffer : UNION {[D -> Values \cup {NULL}] : D \in SUBSET FuncIds},
        obs : UNION {[D -> Values \cup {NULL}] : D \in SUBSET FuncIds},
        result : Values \cup {NULL}, attempts : 0 .. MaxAttempts]

Effect == [kind : {"rw", "comm", "send", "setEvent", "getEvent", "retrieve"}, fid : FuncIds, exec : Execs,
           basis : UNION {[D -> Values \cup {NULL}] : D \in SUBSET FuncIds}]

EmptyFn == [k \in {} |-> NULL]

-----------------------------------------------------------------------------
(* Helpers translated from WorkflowContextImpl.                            *)

\* The program counter a step call starts at, once functionIDGetIncrement
\* has handed it function ID f (or the end of the workflow function).
StepEntry(f) ==
  CASE f = Len(Program)                -> "finish"
    [] Kind(f) = "comm"                -> "extFlush"
    [] Kind(f) \in {"send", "recv", "setEvent"} -> "notifyFlush"
    [] Kind(f) \in {"getEvent", "retrieve"} -> "notifySys"
    [] Kind(f) = "child"               -> "childStart"
    [] OTHER                           -> "check"

\* The step is complete: its result is handed to the workflow code, which
\* calls the next step.
Advance(c, v) ==
  [c EXCEPT !.obs = c.obs @@ (c.funcId :> v), !.funcId = c.funcId + 1,
            !.pc = StepEntry(c.funcId + 1), !.result = NULL, !.attempts = 0]

\* guardOperation: buffer a placeholder for funcID.
guardOperation(buf, f) == (f :> NULL) @@ buf

\* The rows flushResultBuffer inserts for a resultBuffer.
flushResultBuffer(buf) == [k \in DOMAIN buf |-> OutputRow(buf[k])]

\* Mutant: the INSERT of flushResultBuffer made ON CONFLICT DO NOTHING.
KeyConflictsIgnored(rows) == {}

\* Keys whose INSERT would hit an existing committed row (unique violation).
KeyConflicts(rows) == {k \in DOMAIN rows : txnOutputs[k] # NULL}

\* An INSERT of these keys blocks while another open transaction holds them.
Blocked(e, keys) == \E o \in Execs \ {e} : keys \cap DOMAIN pending[o] # {}

\* Postgres may abort a statement of a REPEATABLE READ or SERIALIZABLE
\* transaction with 40001 (a concurrent update of user data that the model
\* does not otherwise represent); READ UNCOMMITTED runs as READ COMMITTED.
CanFailSerialization == Isolation \in SnapshotLevels /\ serFailures < MaxSerFailures

\* Only SERIALIZABLE also raises 40001 at COMMIT (a dangerous structure
\* found by predicate locking); REPEATABLE READ fails at the statement.
CanFailCommit == Isolation = "SERIALIZABLE" /\ CanFailSerialization

\* A serialization failure raised: counted against MaxSerFailures.
CountSerFailure == serFailures' = serFailures + 1

\* The workflow function throws: the executor records the error (spec 4.4).
Fail(e) ==
  /\ ctx' = [ctx EXCEPT ![e].pc = "failed"]
  /\ wfStatus' = IF wfStatus = "PENDING" THEN "ERROR" ELSE wfStatus

-----------------------------------------------------------------------------
(* The executor's start and end of a workflow (dbos-executor, not under   *)
(* src/: modelled from spec 4.4 and 4.8).                                 *)

StartWorkflow(e) ==
  /\ ctx[e].pc = "init"
  /\ IF wfStatus \in {"NONE", "PENDING"}
       THEN /\ wfStatus' = "PENDING"
            /\ ctx' = [ctx EXCEPT ![e].pc = StepEntry(0)]
       ELSE /\ ctx' = [ctx EXCEPT ![e].pc = "returned"]
            /\ UNCHANGED wfStatus
  /\ UNCHANGED <<txnOutputs, opOutputs, pending, effects, serFailures>>

\* The workflow function returned: its remaining buffered read-only outputs
\* are written with the workflow's terminal status.
FinishWorkflow(e) ==
  LET rows == flushResultBuffer(ctx[e].buffer) IN
  /\ ctx[e].pc = "finish"
  /\ ~Blocked(e, DOMAIN rows)
  /\ IF KeyConflicts(rows) = {}
       THEN /\ txnOutputs' = rows @@ txnOutputs
            /\ ctx' = [ctx EXCEPT ![e].pc = "done", ![e].buffer = EmptyFn]
            /\ wfStatus' = IF wfStatus = "PENDING" THEN "SUCCESS" ELSE wfStatus
       ELSE /\ Fail(e)
            /\ UNCHANGED txnOutputs
  /\ UNCHANGED <<opOutputs, pending, effects, serFailures>>

\* The process dies: the open transaction is rolled back and everything in
\* memory, the resultBuffer included, is lost.
Crash(e) ==
  /\ Alive(e)
  /\ ctx' = [ctx EXCEPT ![e].pc = "crashed", ![e].buffer = EmptyFn]
  /\ pending' = [pending EXCEPT ![e] = EmptyFn]
  /\ UNCHANGED <<txnOutputs, opOutputs, wfStatus, effects, serFailures>>

-----------------------------------------------------------------------------
(* WorkflowContextImpl.transaction: one action per await of the            *)
(* wrappedTransaction and of the retry loop around it.                     *)

\* checkExecution: the recorded row, if any, is returned (or its error
\* thrown) without running the user's function; otherwise guardOperation.
\* For a read-only transaction nothing is written: go run the function.
checkExecution(e) ==
  LET c == ctx[e]  f == c.funcId  row == txnOutputs[f] IN
  /\ c.pc = "check"
  /\ CASE row # NULL /\ row.error ->
            Fail(e)
       [] row # NULL ->
            /\ ctx' = [ctx EXCEPT ![e] = Advance(c, row.output)]
            /\ UNCHANGED wfStatus
       [] OTHER ->
            /\ ctx' = [ctx EXCEPT ![e].buffer = guardOperation(c.buffer, f),
                                  ![e].pc = IF Kind(f) = "ro" THEN "run" ELSE "flush"]
            /\ UNCHANGED wfStatus
  /\ UNCHANGED <<txnOutputs, opOutputs, pending, effects, serFailures>>

\* Mutant: the write transaction inserts only its own guard row and leaves
\* the buffered read-only outputs out (the flush before the user's function
\* dropped).
TransactionFlushGuardOnly(e) ==
  LET c == ctx[e]  rows == flushResultBuffer(c.funcId :> NULL) IN
  /\ c.pc = "flush"
  /\ ~Blocked(e, DOMAIN rows)
  /\ IF KeyConflicts(rows) = {}
       THEN /\ pending' = [pending EXCEPT ![e] = rows]
            /\ ctx' = [ctx EXCEPT ![e].pc = "run"]
       ELSE /\ ctx' = [ctx EXCEPT ![e].pc = "txnError"]
            /\ UNCHANGED pending
  /\ UNCHANGED <<txnOutputs, opOutputs, wfStatus, effects, serFailures>>

\* flushResultBuffer inside the write transaction: the buffered read-only
\* outputs and the guard row for funcID.  A unique violation on a buffered
\* key is a DBOSWorkflowConflictUUIDError; on funcID itself, which this
\* transaction read as absent, SERIALIZABLE reports 40001 and the loop
\* retries, READ COMMITTED reports the unique violation.
TransactionFlush(e) ==
  LET c == ctx[e]  rows == flushResultBuffer(c.buffer)
      bad == KeyConflicts(rows) IN
  /\ c.pc = "flush"
  /\ ~Blocked(e, DOMAIN rows)
  /\ CASE bad = {} ->
            /\ pending' = [pending EXCEPT ![e] = rows]
            /\ ctx' = [ctx EXCEPT ![e].pc = "run"]
       [] bad = {c.funcId} /\ Isolation = "SERIALIZABLE" ->
            /\ ctx' = [ctx EXCEPT ![e].pc = "check"]
            /\ UNCHANGED pending
       [] OTHER ->
            /\ ctx' = [ctx EXCEPT ![e].pc = "txnError"]
            /\ UNCHANGED pending
  /\ UNCHANGED <<txnOutputs, opOutputs, wfStatus, effects, serFailures>>

\* recordGuardedOutput: UPDATE the guard row with the output.
recordGuardedOutput(rows, f, v) == [rows EXCEPT ![f] = OutputRow(v)]

\* Mutant: a throwing user function leaves its transaction open, so the
\* rows it inserted stay locked.
TransactionRunNoRollback(e) ==
  LET c == ctx[e]  f == c.funcId IN
  /\ c.pc = "run"
  /\ \/ \E v \in Values :
          /\ ctx' = [ctx EXCEPT ![e].result = v, ![e].pc = "commit",
                        ![e].buffer = IF Kind(f) = "ro" THEN (f :> v) @@ c.buffer ELSE EmptyFn]
          /\ pending' = IF Kind(f) = "ro" THEN pending
                        ELSE [pending EXCEPT ![e] = recordGuardedOutput(@, f, v)]
          /\ UNCHANGED serFailures
     \/ /\ ctx' = [ctx EXCEPT ![e].pc = "txnError"]
        /\ UNCHANGED <<pending, serFailures>>
     \/ /\ CanFailSerialization
        /\ CountSerFailure
        /\ ctx' = [ctx EXCEPT ![e].pc = "check"]
        /\ pending' = [pending EXCEPT ![e] = EmptyFn]
  /\ UNCHANGED <<txnOutputs, opOutputs, wfStatus, effects>>

\* The user's function runs.  It returns a value, throws, or hits a
\* serialization failure.  On return, a read-only result replaces the guard
\* in the resultBuffer; a write result is recorded and the resultBuffer is
\* cleared, before the transaction commits.
TransactionRun(e) ==
  LET c == ctx[e]  f == c.funcId IN
  /\ c.pc = "run"
  /\ \/ \E v \in Values :
          /\ ctx' = [ctx EXCEPT ![e].result = v, ![e].pc = "commit",
                        ![e].buffer = IF Kind(f) = "ro" THEN (f :> v) @@ c.buffer ELSE EmptyFn]
          /\ pending' = IF Kind(f) = "ro" THEN pending
                        ELSE [pending EXCEPT ![e] = recordGuardedOutput(@, f, v)]
          /\ UNCHANGED serFailures
     \/ /\ ctx' = [ctx EXCEPT ![e].pc = "txnError"]
        /\ pending' = [pending EXCEPT ![e] = EmptyFn]
        /\ UNCHANGED serFailures
     \/ /\ CanFailSerialization
        /\ CountSerFailure
        /\ ctx' = [ctx EXCEPT ![e].pc = "check"]
        /\ pending' = [pending EXCEPT ![e] = EmptyFn]
  /\ UNCHANGED <<txnOutputs, opOutputs, wfStatus, effects>>

\* userDatabase.transaction commits.  A SERIALIZABLE commit may still fail
\* with 40001; the loop sleeps and calls wrappedTransaction again.
TransactionCommit(e) ==
  LET c == ctx[e] IN
  /\ c.pc = "commit"
  /\ \/ /\ txnOutputs' = pending[e] @@ txnOutputs
        /\ effects' = IF Kind(c.funcId) = "rw"
                        THEN effects \cup {[kind |-> "rw", fid |-> c.funcId,
                                            exec |-> e, basis |-> c.obs]}
                        ELSE effects
        /\ ctx' = [ctx EXCEPT ![e] = Advance(c, c.result)]
        /\ UNCHANGED serFailures
     \/ /\ CanFailCommit
        /\ CountSerFailure
        /\ ctx' = [ctx EXCEPT ![e].pc = "check", ![e].result = NULL]
        /\ UNCHANGED <<txnOutputs, effects>>
  /\ pending' = [pending EXCEPT ![e] = EmptyFn]
  /\ UNCHANGED <<opOutputs, wfStatus>>

\* Mutant: the error row and the flushed outputs are written over whatever
\* rows exist, as an UPSERT would.
recordGuardedErrorOverwrite(e) ==
  LET c == ctx[e]  rows == flushResultBuffer(c.buffer) IN
  /\ c.pc = "txnError"
  /\ ~Blocked(e, DOMAIN rows)
  /\ txnOutputs' = [rows EXCEPT ![c.funcId] = ErrorRow] @@ txnOutputs
  /\ Fail(e)
  /\ UNCHANGED <<opOutputs, pending, effects, serFailures>>

\* recordGuardedError, after flushResultBuffer, in a READ COMMITTED
\* transaction of its own.  If the flush hits a unique violation the
\* DBOSWorkflowConflictUUIDError escapes and nothing is recorded.  Either
\* way the resultBuffer is cleared and the workflow function sees an error.
recordGuardedError(e) ==
  LET c == ctx[e]  rows == flushResultBuffer(c.buffer) IN
  /\ c.pc = "txnError"
  /\ ~Blocked(e, DOMAIN rows)
  /\ txnOutputs' = IF KeyConflicts(rows) = {}
                     THEN [rows EXCEPT ![c.funcId] = ErrorRow] @@ txnOutputs
                     ELSE txnOutputs
  /\ Fail(e)
  /\ UNCHANGED <<opOutputs, pending, effects, serFailures>>

-----------------------------------------------------------------------------
(* WorkflowContextImpl.external: flush, check, attempts, record.           *)

\* Mutant: external() clears the resultBuffer without flushing it.
ExternalFlushSkipped(e) ==
  /\ ctx[e].pc = "extFlush"
  /\ ctx' = [ctx EXCEPT ![e].pc = "extCheck", ![e].buffer = EmptyFn]
  /\ UNCHANGED <<txnOutputs, opOutputs, wfStatus, pending, effects, serFailures>>

\* The resultBuffer is flushed in a READ COMMITTED transaction of its own
\* and cleared.  A unique violation escapes as DBOSWorkflowConflictUUIDError.
ExternalFlush(e) ==
  LET c == ctx[e]  rows == flushResultBuffer(c.buffer) IN
  /\ c.pc = "extFlush"
  /\ ~Blocked(e, DOMAIN rows)
  /\ IF KeyConflicts(rows) = {}
       THEN /\ txnOutputs' = rows @@ txnOutputs
            /\ ctx' = [ctx EXCEPT ![e].pc = "extCheck", ![e].buffer = EmptyFn]
            /\ UNCHANGED wfStatus
       ELSE /\ Fail(e)
            /\ UNCHANGED txnOutputs
  /\ UNCHANGED <<opOutputs, pending, effects, serFailures>>

\* checkOperationOutput: a recorded output is returned, a recorded error
\* is thrown, and otherwise the communicator runs.
ExternalCheck(e) ==
  LET c == ctx[e]  row == opOutputs[c.funcId] IN
  /\ c.pc = "extCheck"
  /\ CASE row = NULL  -> /\ ctx' = [ctx EXCEPT ![e].pc = "extAttempt"]
                         /\ UNCHANGED wfStatus
       [] row.error   -> Fail(e)
       [] OTHER       -> /\ ctx' = [ctx EXCEPT ![e] = Advance(c, row.output)]
                         /\ UNCHANGED wfStatus
  /\ UNCHANGED <<txnOutputs, opOutputs, pending, effects, serFailures>>

\* Mutant: the retry loop tests numAttempts++ <= maxAttempts.
ExternalAttemptOffByOne(e) ==
  LET c == ctx[e]  tries == c.attempts + 1 IN
  /\ c.pc = "extAttempt"
  /\ effects' = effects \cup {[kind |-> "comm", fid |-> c.funcId, exec |-> e, basis |-> c.obs]}
  /\ \/ \E v \in Values :
          ctx' = [ctx EXCEPT ![e].result = v, ![e].attempts = tries, ![e].pc = "extRecord"]
     \/ ctx' = [ctx EXCEPT ![e].attempts = tries,
                  ![e].pc = IF RetriesAllowed /\ tries <= MaxAttempts THEN "extAttempt" ELSE "extRecord"]
  /\ UNCHANGED <<txnOutputs, opOutputs, wfStatus, pending, serFailures>>

\* One call of the communicator function.  With retriesAllowed the loop
\* `while (result === dbosNull && numAttempts++ < maxAttempts)` calls it
\* again after a failure (after a sleep); without, a failure is final.
ExternalAttempt(e) ==
  LET c == ctx[e]  tries == c.attempts + 1 IN
  /\ c.pc = "extAttempt"
  /\ effects' = effects \cup {[kind |-> "comm", fid |-> c.funcId, exec |-> e, basis |-> c.obs]}
  /\ \/ \E v \in Values :
          ctx' = [ctx EXCEPT ![e].result = v, ![e].attempts = tries, ![e].pc = "extRecord"]
     \/ ctx' = [ctx EXCEPT ![e].attempts = tries,
                  ![e].pc = IF RetriesAllowed /\ tries < MaxAttempts THEN "extAttempt" ELSE "extRecord"]
  /\ UNCHANGED <<txnOutputs, opOutputs, wfStatus, pending, serFailures>>

\* Mutant: recording is an insert ON CONFLICT DO NOTHING that reports
\* success whatever the existing row holds.
recordOperationOutputBlind(e) ==
  LET c == ctx[e]  f == c.funcId
      row == IF c.result = NULL THEN ErrorRow ELSE OutputRow(c.result) IN
  /\ c.pc = "extRecord"
  /\ opOutputs' = IF opOutputs[f] = NULL THEN [opOutputs EXCEPT ![f] = row] ELSE opOutputs
  /\ IF c.result # NULL
       THEN /\ ctx' = [ctx EXCEPT ![e] = Advance(c, c.result)]
            /\ UNCHANGED wfStatus
       ELSE Fail(e)
  /\ UNCHANGED <<txnOutputs, pending, effects, serFailures>>

\* recordOperationOutput / recordOperationError (system_database, not under
\* src/: spec 4.1, an insert that succeeds silently on an equal row and
\* raises a conflict on a different one).  The error is then thrown.
recordOperationOutput(e) ==
  LET c == ctx[e]  f == c.funcId
      row == IF c.result = NULL THEN ErrorRow ELSE OutputRow(c.result) IN
  /\ c.pc = "extRecord"
  /\ opOutputs' = IF opOutputs[f] = NULL THEN [opOutputs EXCEPT ![f] = row] ELSE opOutputs
  /\ IF opOutputs[f] \in {NULL, row} /\ c.result # NULL
       THEN /\ ctx' = [ctx EXCEPT ![e] = Advance(c, c.result)]
            /\ UNCHANGED wfStatus
       ELSE Fail(e)
  /\ UNCHANGED <<txnOutputs, pending, effects, serFailures>>

-----------------------------------------------------------------------------

Init ==
  /\ txnOutputs = [f \in FuncIds |-> NULL]
  /\ opOutputs = [f \in FuncIds |-> NULL]
  /\ wfStatus = "NONE"
  /\ ctx = [e \in Execs |-> [pc |-> "init", funcId |-> 0, buffer |-> EmptyFn,
                             obs |-> EmptyFn, result |-> NULL, attempts |-> 0]]
  /\ pending = [e \in Execs |-> EmptyFn]
  /\ effects = {}
  /\ serFailures = 0

\* Every execution has returned, failed or crashed.
Terminated ==
  /\ \A e \in Execs : ctx[e].pc \in Ended
  /\ UNCHANGED vars

Next ==
  \/ \E e \in Execs :
       \/ StartWorkflow(e) \/ FinishWorkflow(e) \/ Crash(e)
       \/ checkExecution(e) \/ TransactionFlush(e) \/ TransactionRun(e)
       \/ TransactionCommit(e) \/ recordGuardedError(e)
       \/ ExternalFlush(e) \/ ExternalCheck(e) \/ ExternalAttempt(e)
       \/ recordOperationOutput(e)
  \/ Terminated

Spec == Init /\ [][Next]_vars

\* Workflows are tasks of one cooperative scheduler: a task whose next step
\* is enabled is eventually resumed, and Postgres eventually answers.  The
\* caller's start and a crash are not assumed to happen.
Progress(e) ==
  \/ FinishWorkflow(e) \/ checkExecution(e) \/ TransactionFlush(e)
  \/ TransactionRun(e) \/ TransactionCommit(e) \/ recordGuardedError(e)
  \/ ExternalFlush(e) \/ ExternalCheck(e) \/ ExternalAttempt(e)
  \/ recordOperationOutput(e)

FairSpec == Spec /\ \A e \in Execs : WF_vars(Progress(e))

-----------------------------------------------------------------------------
(* Properties                                                              *)

\* Every variable keeps its type; in particular a communicator's attempt
\* counter stays within maxAttempts (the retry loop of external()).
TypeOK ==
  /\ txnOutputs \in [FuncIds -> Row \cup {NULL}]
  /\ opOutputs \in [FuncIds -> Row \cup {NULL}]
  /\ wfStatus \in {"NONE", "PENDING", "SUCCESS", "ERROR"}
  /\ ctx \in [Execs -> Ctx]
  /\ \A e \in Execs : pending[e] \in [DOMAIN pending[e] -> Row] /\ DOMAIN pending[e] \subseteq FuncIds
  /\ effects \subseteq Effect
  /\ serFailures \in 0 .. MaxSerFailures

\* The durable record of step f, from whichever table its kind writes.
LogRow(f) == IF Kind(f) \in {"ro", "rw"} THEN txnOutputs[f] ELSE opOutputs[f]

\* The log as the abstract OperationLog sees it: each step's outcome, from
\* the table its kind writes, and the workflow status.
OL == INSTANCE OperationLog WITH log <- [f \in FuncIds |-> LogRow(f)], status <- wfStatus

\* WorkflowContextImpl implements the operation log of spec 4.1-4.4: a
\* committed transaction_outputs or operation_outputs row is never changed
\* or removed by any flush, commit, error record or communicator record of
\* any execution, no guard row ever commits, and the status becomes
\* SUCCESS only when every step has a returned value logged.
ImplementsOperationLog == OL!Spec

\* At most one committed run of a write transaction's user code per
\* function ID, across duplicate executions, crashes and retries (the
\* guard row of WorkflowContextImpl.transaction).
AtMostOnceWrite ==
  \A f \in FuncIds :
    Kind(f) = "rw" => Cardinality({x \in effects : x.kind = "rw" /\ x.fid = f}) <= 1

\* Every committed write and every communicator call was made by workflow
\* code that had seen, at each earlier step, exactly the result the log
\* records for that step (or will record: checked in every later state).
\* This is what flushing the read-only outputs inside the next write
\* transaction is for: a write must never become durable without the reads
\* it depended on.
SideEffectsMatchLog ==
  \A x \in effects : \A j \in DOMAIN x.basis :
    LogRow(j) # NULL => LogRow(j) = OutputRow(x.basis[j])

\* Two executions of the same workflow UUID that both return normally have
\* seen the same result at every step.
ConsistentResults ==
  \A e1, e2 \in Execs :
    ctx[e1].pc = "done" /\ ctx[e2].pc = "done" => ctx[e1].obs = ctx[e2].obs

\* Spec 8, P4: once a communicator's outcome is recorded, its function is
\* not called again for that function ID (WorkflowContextImpl.external
\* checks operation_outputs before the calls and records after them).
NoCallAfterRecord ==
  [][\A x \in effects' \ effects : x.kind = "comm" => opOutputs[x.fid] = NULL]_vars

\* Every execution that has started eventually returns, fails or crashes:
\* no execution waits forever on rows another execution's transaction
\* has inserted.
EveryExecutionEnds ==
  \A e \in Execs : ctx[e].pc # "init" ~> ctx[e].pc \in Ended

=============================================================================
