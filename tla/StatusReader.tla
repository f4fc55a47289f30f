------------------------------ MODULE StatusReader ------------------------------
(***************************************************************************)
(* A parent that works from what it is told: it reads the status of a task *)
(* (scripts/governance_diagnostics.py), or has the answer of a             *)
(* confirmation, and fills in the operation inputs these offer             *)
(* (governance_operation_inputs.py), while other processes go on changing  *)
(* the ledger.                                                             *)
(*                                                                         *)
(* Status takes no lock and writes nothing; that it reads a whole file     *)
(* although the file is being replaced is NeverTorn of StateStore.  An     *)
(* offer promises nothing: the operation judges the ledger it finds.       *)
(***************************************************************************)
EXTENDS SessionLedger

VARIABLES
    view,    \* what the parent was last told about a task, or NoView
    sent     \* history: what the last step submitted from it, and on which record

readerVars == <<tasks, reply, granted, told, view, sent>>

NoView == [id |-> -1, ref |-> None, phase |-> "absent", target |-> None,
           expires |-> NoTime, at |-> NoTime, expired |-> FALSE]
NotSent == [what |-> "nothing", fresh |-> FALSE, prompt |-> FALSE]

Operations == {"confirm", "notification", "observation", "close"}

\* project_status for one task.  Only a prepared record says when it expires, and
\* whether it did.
ShownExpiry(t) == IF t.phase = "prepared" THEN t.expires ELSE NoTime
Mut_ExpiresAfter(id, t, now) ==
    [id |-> id, ref |-> t.ref, phase |-> t.phase, target |-> t.target,
     expires |-> ShownExpiry(t), at |-> now, expired |-> t.phase = "prepared" /\ t.expires < now]
ProjectStatus(id, t, now) ==
    [id |-> id, ref |-> t.ref, phase |-> t.phase, target |-> t.target,
     expires |-> ShownExpiry(t), at |-> now, expired |-> t.phase = "prepared" /\ t.expires <= now]

NextAction(v) ==
    CASE v.phase = "prepared" ->
            IF v.expired THEN "parent_review_expired_preparation" ELSE "invoke_exact_spawn_args"
      [] v.phase = "claimed" -> "confirm_exact_target"
      [] v.phase = "bound" -> "observe_exact_target"
      [] v.phase = "terminal" -> "parent_close"
      [] v.phase = "reconcile" -> "manual_reconcile"
      [] v.phase \in {"closed", "absent"} -> "none"

\* operation_inputs: the operations that are offered; each comes with the task id,
\* the ref and, for a fact, the target of the record.
Mut_OffersAnyOpen(v) ==
    CASE v.phase \in {"prepared", "claimed"} -> {"confirm"}
      [] v.phase \in {"bound", "terminal", "reconcile"} -> {"notification", "observation", "close"}
      [] v.phase \in {"closed", "absent"} -> {}
OperationInputs(v) ==
    CASE v.phase \in {"prepared", "claimed"} -> {"confirm"}
      [] v.phase = "bound" -> {"notification", "observation", "close"}
      [] v.phase \in {"terminal", "reconcile"} -> {"close"}
      [] v.phase \in {"closed", "absent"} -> {}

\* The record still says what the parent was told.  An id that was evicted and drawn
\* again, which only the model's small set of ids makes likely, is told by its expiry.
Fresh ==
    view # NoView /\ LET t == tasks[view.id] IN
        /\ t.phase = view.phase /\ t.ref = view.ref /\ t.target = view.target
        /\ ShownExpiry(t) = view.expires

-----------------------------------------------------------------------------
RInit == Init /\ view = NoView /\ sent = NotSent

\* Any process of the Session.
OthersAct == Next /\ sent' = NotSent /\ UNCHANGED view

\* status with task id and ref: an identity that is not in the ledger is refused.
ReadStatus(id, ref, now) ==
    /\ IF tasks[id].phase # "absent" /\ tasks[id].ref = ref
       THEN view' = ProjectStatus(id, tasks[id], now) ELSE view' = NoView
    /\ sent' = NotSent /\ UNCHANGED vars

\* The answer of a confirmation carries the inputs of the record it left.
ConfirmAnswers(id, ref, target, now) ==
    /\ ConfirmDispatch(id, ref, target, now)
    /\ view' = (IF reply' = "done" THEN ProjectStatus(id, tasks'[id], now) ELSE view)

\* The parent takes an offer and adds what only it knows: the target of its
\* receipt, the status it saw, its reason.
Takes(op, now) ==
    \/ op = "confirm" /\ \E target \in Targets : ConfirmAnswers(view.id, view.ref, target, now)
    \/ /\ op = "notification"
       /\ \E status \in TerminalStatuses \cap Reports :
             RecordTerminalNotification(view.id, view.ref, view.target, status, now)
       /\ UNCHANGED view
    \/ /\ op = "observation"
       /\ \E status \in PlatformStatuses \cap Reports :
             RecordPlatformObservation(view.id, view.ref, view.target, status, now)
       /\ UNCHANGED view
    \/ /\ op = "close"
       /\ \E reason \in Reasons : CloseTask(view.id, view.ref, reason, now)
       /\ UNCHANGED view

Submit(op, now) ==
    /\ op \in OperationInputs(view)
    /\ sent' = [what |-> op, fresh |-> Fresh, prompt |-> now = view.at]
    /\ Takes(op, now)

\* The parent makes the native call exactly as prepared, whatever it is told about
\* the expiry, and the Hook claims with the time it reads.
Spawn(call, now) ==
    /\ view.phase = "prepared" /\ now >= view.at
    /\ FindByRef(Pruned, view.ref) = {view.id}
    /\ ClaimSpawn(view.id, call, "exact", "same", now)
    /\ sent' = [what |-> NextAction(view), fresh |-> Fresh, prompt |-> now = view.at]
    /\ UNCHANGED view

RNext ==
    \/ OthersAct
    \/ \E id \in TaskIds, ref \in Refs, now \in Time : ReadStatus(id, ref, now)
    \/ \E op \in Operations, now \in Time : Submit(op, now)
    \/ \E call \in CallIds, now \in Time : Spawn(call, now)

RSpec == RInit /\ [][RNext]_readerVars

-----------------------------------------------------------------------------
(***************************************************************************)
(* Properties                                                              *)
(***************************************************************************)

\* An offer that is taken while the record still says what the parent was told is
\* accepted in every state the ledger can be in, whatever target, status or reason
\* the parent adds: only its own clock or the size limit can refuse it.
OfferIsAccepted ==
    sent.what \in Operations /\ sent.fresh => reply \in {"done", "clock", "oversize"}

\* Status and the claim draw the line of the expiry at the same second: a native
\* call in the second in which status was read is refused as expired exactly when
\* status said so, and one made later never succeeds once it did.
ExpiryAgreesWithClaim ==
    /\ sent.what = "parent_review_expired_preparation" /\ sent.fresh => reply # "done"
    /\ sent.what = "invoke_exact_spawn_args" /\ sent.fresh /\ sent.prompt => reply # "expired"
=============================================================================
