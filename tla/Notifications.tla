--------------------------- MODULE Notifications ---------------------------
(***************************************************************************)
(* WorkflowContextImpl.send, recv, setEvent and getEvent (src/unnamed/     *)
(* part_002, lines 495-563), composed with the executions of               *)
(* WorkflowContext and their child workflows (module ChildWorkflow).       *)
(*                                                                         *)
(* send, recv and setEvent take the next functionID, flush the            *)
(* resultBuffer in a READ COMMITTED user-database transaction of their     *)
(* own, clear it, and then call the system database.  getEvent takes its   *)
(* functionID and calls the system database at once, without a flush.     *)
(* The system-database side (system_database, not under src/) is modelled  *)
(* from spec 4.1 and 4.5: each call is one transaction keyed by            *)
(* (workflow, functionID) in operation_outputs; a call whose row exists    *)
(* returns what it recorded.                                               *)
(*                                                                         *)
(* The workflow code passes the event a value computed from the results it *)
(* has seen: the model takes that value to be obs itself.  The target of  *)
(* getEvent is another workflow; its event is any value, or none when the  *)
(* wait times out.  Another workflow sends this one the payloads Messages, *)
(* in order, on the one topic recv reads.                                  *)
(*                                                                         *)
(* retrieveWorkflow (lines 569-573) takes a functionID for the handle it   *)
(* returns, and RetrievedHandle.getStatus (621-627) passes the caller's    *)
(* (workflow, functionID) to systemDatabase.getWorkflowStatus.  The        *)
(* debugger's RetrievedHandleDebug.getStatus (part_001, 320-327) replays   *)
(* it from operation_outputs under that key ("Must use original result"),  *)
(* so the original records the status it read there.  A status object is   *)
(* abstracted to a member of Values; the retrieved workflow's status moves *)
(* through TargetStatuses, and is null before that workflow exists.        *)
(***************************************************************************)
EXTENDS ChildWorkflow

CONSTANTS
  Messages,        \* payloads another workflow sends to this one, in order
  TargetStatuses   \* the statuses the workflow a retrieve targets goes through

ASSUME Messages \in Seq(Values) /\ TargetStatuses \in Seq(Values)

VARIABLES
  notifications,   \* function ID of a send -> notification rows it inserted
  events,          \* workflow_events value of the one key, or NULL
  inbox,           \* notifications rows addressed to this workflow, oldest first
  nsent,           \* how many of Messages the other workflow has sent
  targetAt         \* how many of TargetStatuses the retrieved workflow has reached

nvars == <<cvars, notifications, events, inbox, nsent, targetAt>>

-----------------------------------------------------------------------------

\* Mutant: the resultBuffer is cleared without being flushed.
NotifyFlushSkipped(e) ==
  /\ ctx[e].pc = "notifyFlush"
  /\ ctx' = [ctx EXCEPT ![e].pc = "notifySys", ![e].buffer = EmptyFn]
  /\ UNCHANGED <<txnOutputs, opOutputs, wfStatus, pending, effects, serFailures,
                 notifications, events, inbox, nsent, targetAt>>

\* The flushResultBuffer transaction of send, recv and setEvent, then
\* resultBuffer.clear().  A unique violation escapes as
\* DBOSWorkflowConflictUUIDError and the workflow function throws.
NotifyFlush(e) ==
  LET c == ctx[e]  rows == flushResultBuffer(c.buffer) IN
  /\ c.pc = "notifyFlush"
  /\ ~Blocked(e, DOMAIN rows)
  /\ IF KeyConflicts(rows) = {}
       THEN /\ txnOutputs' = rows @@ txnOutputs
            /\ ctx' = [ctx EXCEPT ![e].pc = "notifySys", ![e].buffer = EmptyFn]
            /\ UNCHANGED wfStatus
       ELSE /\ Fail(e)
            /\ UNCHANGED txnOutputs
  /\ UNCHANGED <<opOutputs, pending, effects, serFailures, notifications, events, inbox, nsent, targetAt>>

\* systemDatabase.send: in one transaction, the notification row and the
\* operation output of (workflow, functionID); a duplicate send finds the
\* row and is a silent no-op.  send returns nothing.
SystemSend(e) ==
  LET c == ctx[e]  f == c.funcId IN
  /\ c.pc = "notifySys"
  /\ Kind(f) = "send"
  /\ IF opOutputs[f] = NULL
       THEN /\ opOutputs' = [opOutputs EXCEPT ![f] = OutputRow(NULL)]
            /\ notifications' = [notifications EXCEPT ![f] = @ + 1]
            /\ effects' = effects \cup {[kind |-> "send", fid |-> f, exec |-> e, basis |-> c.obs]}
       ELSE UNCHANGED <<opOutputs, notifications, effects>>
  /\ ctx' = [ctx EXCEPT ![e] = Advance(c, NULL)]
  /\ UNCHANGED <<txnOutputs, wfStatus, pending, serFailures, events, inbox, nsent, targetAt>>

\* systemDatabase.setEvent: a recorded call returns; otherwise the first
\* value for the key wins, an equal value succeeds silently, and a
\* different one raises the already-set error, which the workflow throws.
SystemSetEvent(e) ==
  LET c == ctx[e]  f == c.funcId IN
  /\ c.pc = "notifySys"
  /\ Kind(f) = "setEvent"
  /\ CASE opOutputs[f] # NULL ->
            /\ ctx' = [ctx EXCEPT ![e] = Advance(c, NULL)]
            /\ UNCHANGED <<opOutputs, effects, events, wfStatus>>
       [] events \in {NULL, c.obs} ->
            /\ events' = c.obs
            /\ opOutputs' = [opOutputs EXCEPT ![f] = OutputRow(NULL)]
            /\ effects' = effects \cup {[kind |-> "setEvent", fid |-> f, exec |-> e, basis |-> c.obs]}
            /\ ctx' = [ctx EXCEPT ![e] = Advance(c, NULL)]
            /\ UNCHANGED wfStatus
       [] OTHER ->
            /\ Fail(e)
            /\ UNCHANGED <<opOutputs, effects, events>>
  /\ UNCHANGED <<txnOutputs, pending, serFailures, notifications, inbox, nsent, targetAt>>

\* Mutant: the event is read and recorded again even when the call is
\* already recorded (an upsert in place of the recorded-output check).
SystemGetEventNoDedup(e) ==
  LET c == ctx[e]  f == c.funcId IN
  /\ c.pc = "notifySys"
  /\ Kind(f) = "getEvent"
  /\ \E v \in Values \cup {NULL} :
       /\ opOutputs' = [opOutputs EXCEPT ![f] = OutputRow(v)]
       /\ effects' = effects \cup {[kind |-> "getEvent", fid |-> f, exec |-> e, basis |-> c.obs]}
       /\ ctx' = [ctx EXCEPT ![e] = Advance(c, v)]
  /\ UNCHANGED <<txnOutputs, wfStatus, pending, serFailures, notifications, events, inbox, nsent, targetAt>>

\* systemDatabase.getEvent with the caller's (workflow, functionID): a
\* recorded result is returned; otherwise the target's event, or null on
\* timeout, is read and recorded in the same call.
SystemGetEvent(e) ==
  LET c == ctx[e]  f == c.funcId IN
  /\ c.pc = "notifySys"
  /\ Kind(f) = "getEvent"
  /\ IF opOutputs[f] # NULL
       THEN /\ ctx' = [ctx EXCEPT ![e] = Advance(c, opOutputs[f].output)]
            /\ UNCHANGED <<opOutputs, effects>>
       ELSE \E v \in Values \cup {NULL} :
              /\ opOutputs' = [opOutputs EXCEPT ![f] = OutputRow(v)]
              /\ effects' = effects \cup {[kind |-> "getEvent", fid |-> f, exec |-> e, basis |-> c.obs]}
              /\ ctx' = [ctx EXCEPT ![e] = Advance(c, v)]
  /\ UNCHANGED <<txnOutputs, wfStatus, pending, serFailures, notifications, events, inbox, nsent, targetAt>>

\* The other workflow's send commits the next message to this workflow.
ExternalSend ==
  /\ nsent < Len(Messages)
  /\ inbox' = Append(inbox, Messages[nsent + 1])
  /\ nsent' = nsent + 1
  /\ UNCHANGED <<vars, notifications, events, targetAt>>

\* systemDatabase.recv: a recorded call returns its output.  Otherwise the
\* oldest message is deleted in the transaction that records it as the
\* output.  Otherwise the wait for a notification times out and null is
\* recorded: the SELECT found nothing, and a message committed since has
\* lost the race with the timeout (it stays for a later recv).
SystemRecv(e) ==
  LET c == ctx[e]  f == c.funcId IN
  /\ c.pc = "notifySys"
  /\ Kind(f) = "recv"
  /\ \/ /\ opOutputs[f] # NULL
        /\ ctx' = [ctx EXCEPT ![e] = Advance(c, opOutputs[f].output)]
        /\ UNCHANGED <<opOutputs, inbox>>
     \/ /\ opOutputs[f] = NULL
        /\ inbox # <<>>
        /\ opOutputs' = [opOutputs EXCEPT ![f] = OutputRow(Head(inbox))]
        /\ inbox' = Tail(inbox)
        /\ ctx' = [ctx EXCEPT ![e] = Advance(c, Head(inbox))]
     \/ /\ opOutputs[f] = NULL
        /\ opOutputs' = [opOutputs EXCEPT ![f] = OutputRow(NULL)]
        /\ ctx' = [ctx EXCEPT ![e] = Advance(c, NULL)]
        /\ UNCHANGED inbox
  /\ UNCHANGED <<txnOutputs, wfStatus, pending, effects, serFailures,
                 notifications, events, nsent, targetAt>>

\* The retrieved workflow starts or moves to its next status.
TargetAdvances ==
  /\ targetAt < Len(TargetStatuses)
  /\ targetAt' = targetAt + 1
  /\ UNCHANGED <<vars, notifications, events, inbox, nsent>>

\* getWorkflowStatus's answer now: null for a workflow not yet started.
TargetStatus == IF targetAt = 0 THEN NULL ELSE TargetStatuses[targetAt]

\* Mutant: the status read now is returned, even when the call is already
\* recorded (the recorded row is kept).
SystemGetStatusReturnsCurrent(e) ==
  LET c == ctx[e]  f == c.funcId IN
  /\ c.pc = "notifySys"
  /\ Kind(f) = "retrieve"
  /\ IF opOutputs[f] # NULL
       THEN UNCHANGED <<opOutputs, effects>>
       ELSE /\ opOutputs' = [opOutputs EXCEPT ![f] = OutputRow(TargetStatus)]
            /\ effects' = effects \cup {[kind |-> "retrieve", fid |-> f, exec |-> e, basis |-> c.obs]}
  /\ ctx' = [ctx EXCEPT ![e] = Advance(c, TargetStatus)]
  /\ UNCHANGED <<txnOutputs, wfStatus, pending, serFailures, notifications, events, inbox, nsent, targetAt>>

\* retrieveWorkflow, then the handle's getStatus: getWorkflowStatus with the
\* caller's (workflow, functionID) returns the status recorded there, and
\* otherwise reads the target's status and records it.  Like getEvent it
\* flushes no resultBuffer first.
SystemGetStatus(e) ==
  LET c == ctx[e]  f == c.funcId IN
  /\ c.pc = "notifySys"
  /\ Kind(f) = "retrieve"
  /\ IF opOutputs[f] # NULL
       THEN /\ ctx' = [ctx EXCEPT ![e] = Advance(c, opOutputs[f].output)]
            /\ UNCHANGED <<opOutputs, effects>>
       ELSE /\ opOutputs' = [opOutputs EXCEPT ![f] = OutputRow(TargetStatus)]
            /\ effects' = effects \cup {[kind |-> "retrieve", fid |-> f, exec |-> e, basis |-> c.obs]}
            /\ ctx' = [ctx EXCEPT ![e] = Advance(c, TargetStatus)]
  /\ UNCHANGED <<txnOutputs, wfStatus, pending, serFailures, notifications, events, inbox, nsent, targetAt>>

-----------------------------------------------------------------------------

NInit ==
  /\ CInit
  /\ notifications = [f \in FuncIds |-> 0]
  /\ events = NULL
  /\ inbox = <<>>
  /\ nsent = 0
  /\ targetAt = 0

NNext ==
  \/ CNext /\ UNCHANGED <<notifications, events, inbox, nsent, targetAt>>
  \/ /\ \/ ExternalSend
        \/ \E e \in Execs :
             \/ NotifyFlush(e) \/ SystemSend(e) \/ SystemRecv(e)
             \/ SystemSetEvent(e) \/ SystemGetEvent(e) \/ SystemGetStatus(e)
        \/ TargetAdvances
     /\ UNCHANGED children

NSpec == NInit /\ [][NNext]_nvars

-----------------------------------------------------------------------------
(* Properties                                                              *)

\* The steps that leave a row in the workflow's own log: all but child
\* workflows, whose outcome is the child's status row.
LoggedFids == {f \in FuncIds : Kind(f) # "child"}

\* The log as OperationLog sees it.  send and setEvent return nothing and
\* recv and getEvent may return null, so a returned null is an outcome.
NOL == INSTANCE OperationLog
         WITH FuncIds <- LoggedFids, Values <- Values \cup {NULL},
              log <- [f \in LoggedFids |-> LogRow(f)], status <- wfStatus

\* With the system-database calls of send, recv, setEvent and getEvent
\* run by duplicate executions, every operation_outputs row is still
\* written once and never changed, and SUCCESS comes only when every
\* logged step has its outcome: a recorded recv or getEvent result is what
\* every later execution and replay gets back.
NotifyImplementsOperationLog == NOL!Spec

=============================================================================
