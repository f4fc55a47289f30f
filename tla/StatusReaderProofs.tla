-------------------------- MODULE StatusReaderProofs --------------------------
(***************************************************************************)
(* Proofs about StatusReader.  Whatever the parent was told, all it can do *)
(* is an operation of the ledger, so what is proved of the ledger holds    *)
(* here as well; of what it was told, only that the view is well formed    *)
(* and that its "expired" was judged by the expiry and the time it shows.  *)
(***************************************************************************)
EXTENDS StatusReader, SessionLedgerProofs

\* A view of a record the ledger held says "expired" as the record and the clock had it.
Shows(v) ==
    /\ v.id \in TaskIds /\ v.ref \in Refs /\ v.phase \in Phases
    /\ v.target \in Targets \cup {None} /\ v.at \in Time
    /\ v.phase = "bound" => v.target \in Targets
    /\ v.phase = "prepared" => v.expires \in Int /\ (v.expired <=> v.expires <= v.at)
Seen == Shows(view)
ViewOK == view = NoView \/ Seen

-----------------------------------------------------------------------------
(* What is offered *)

LEMMA NothingToOffer == OperationInputs(NoView) = {} /\ NoView.phase # "prepared"
BY DEF OperationInputs, NoView

\* An offer names what the phase of the view allows.
LEMMA Offered ==
    ASSUME ViewOK, NEW op \in OperationInputs(view)
    PROVE  /\ Seen
           /\ op \in Operations
           /\ op = "confirm" => view.phase \in {"prepared", "claimed"}
           /\ op \in {"notification", "observation"} => view.phase = "bound"
           /\ op = "close" => view.phase \in {"bound", "terminal", "reconcile"}
<1>1. Seen
  BY NothingToOffer DEF ViewOK
<1>2. view.phase \in Phases
  BY <1>1 DEF Seen, Shows
<1>3. CASE view.phase \in {"prepared", "claimed"}
  <2>1. OperationInputs(view) = {"confirm"}
    BY <1>3 DEF OperationInputs
  <2>2. QED
    BY <1>1, <1>3, <2>1 DEF Operations
<1>4. CASE view.phase = "bound"
  <2>1. OperationInputs(view) = {"notification", "observation", "close"}
    BY <1>4 DEF OperationInputs
  <2>2. QED
    BY <1>1, <1>4, <2>1 DEF Operations
<1>5. CASE view.phase \in {"terminal", "reconcile"}
  <2>1. OperationInputs(view) = {"close"}
    BY <1>5 DEF OperationInputs
  <2>2. QED
    BY <1>1, <1>5, <2>1 DEF Operations
<1>6. CASE view.phase = "closed"
  <2>1. OperationInputs(view) = {}
    BY <1>6 DEF OperationInputs
  <2>2. QED
    BY <2>1
<1>7. QED
  BY <1>2, <1>3, <1>4, <1>5, <1>6 DEF Phases

-----------------------------------------------------------------------------
(* The parent only performs operations of the ledger *)

LEMMA SubmitIsOperation ==
    ASSUME ViewOK, NEW op \in Operations, NEW now \in Time, Submit(op, now)
    PROVE  Next
<1>1. /\ Seen
      /\ op \in {"notification", "observation"} => view.phase = "bound"
      /\ Takes(op, now)
  BY Offered DEF Submit
<1>2. CASE op = "confirm"
  <2>1. \E target \in Targets : ConfirmDispatch(view.id, view.ref, target, now)
    BY <1>1, <1>2 DEF Takes, ConfirmAnswers
  <2>2. QED
    BY <1>1, <2>1 DEF Next, Confirms, Seen, Shows
<1>3. CASE op = "notification"
  <2>1. \E status \in TerminalStatuses \cap Reports :
           RecordTerminalNotification(view.id, view.ref, view.target, status, now)
    BY <1>1, <1>3 DEF Takes
  <2>2. QED
    BY <1>1, <1>3, <2>1 DEF Next, Notifications, Seen, Shows
<1>4. CASE op = "observation"
  <2>1. \E status \in PlatformStatuses \cap Reports :
           RecordPlatformObservation(view.id, view.ref, view.target, status, now)
    BY <1>1, <1>4 DEF Takes
  <2>2. QED
    BY <1>1, <1>4, <2>1 DEF Next, Observations, Seen, Shows
<1>5. CASE op = "close"
  <2>1. \E reason \in Reasons : CloseTask(view.id, view.ref, reason, now)
    BY <1>1, <1>5 DEF Takes
  <2>2. QED
    BY <1>1, <2>1 DEF Next, Closes, Seen, Shows
<1>6. QED
  BY <1>2, <1>3, <1>4, <1>5 DEF Operations

LEMMA SpawnIsOperation ==
    ASSUME ViewOK, NEW call \in CallIds, NEW now \in Time, Spawn(call, now)
    PROVE  Seen /\ Next
<1>1. Seen
  BY NothingToOffer DEF ViewOK, Spawn
<1>2. FindByRef(Pruned, view.ref) = {view.id} /\ ClaimSpawn(view.id, call, "exact", "same", now)
  BY DEF Spawn
<1>3. Claims
  BY <1>1, <1>2 DEF Claims, Seen, Shows
<1>4. QED
  BY <1>1, <1>3 DEF Next

LEMMA ReaderStep == ViewOK /\ [RNext]_readerVars => [Next]_vars
<1> SUFFICES ASSUME ViewOK, [RNext]_readerVars PROVE [Next]_vars
  OBVIOUS
<1>1. CASE OthersAct
  BY <1>1 DEF OthersAct
<1>2. CASE \E id \in TaskIds, ref \in Refs, now \in Time : ReadStatus(id, ref, now)
  BY <1>2 DEF ReadStatus
<1>3. CASE \E op \in Operations, now \in Time : Submit(op, now)
  BY <1>3, SubmitIsOperation
<1>4. CASE \E call \in CallIds, now \in Time : Spawn(call, now)
  BY <1>4, SpawnIsOperation
<1>5. CASE UNCHANGED readerVars
  BY <1>5 DEF readerVars, vars
<1>6. QED
  BY <1>1, <1>2, <1>3, <1>4, <1>5 DEF RNext

-----------------------------------------------------------------------------
(* Views stay well formed *)

LEMMA ProjectShows ==
    ASSUME NEW id \in TaskIds, NEW t \in Task, ShapeOK(t), NEW now \in Time,
           NEW v, v = ProjectStatus(id, t, now)
    PROVE  Shows(v)
<1>1. /\ t.phase \in Phases /\ t.ref \in Refs /\ t.target \in Targets \cup {None}
      /\ t.phase = "bound" => t.target \in Targets
  BY DEF Task, ShapeOK
<1>2. t.phase = "prepared" => t.expires \in Int
  BY LimitAssumption DEF Task, ShapeOK
<1>3. /\ v.id = id /\ v.ref = t.ref /\ v.phase = t.phase /\ v.target = t.target
      /\ v.expires = ShownExpiry(t) /\ v.at = now
      /\ v.expired = (t.phase = "prepared" /\ t.expires <= now)
  BY DEF ProjectStatus
<1>4. t.phase = "prepared" => v.expires = t.expires
  BY <1>3 DEF ShownExpiry
<1>5. v.phase = "prepared" => v.expires \in Int
  BY <1>2, <1>3, <1>4
<1>6. v.phase = "prepared" => (v.expired <=> v.expires <= v.at)
  BY <1>3, <1>4
<1>7. QED
  BY <1>1, <1>3, <1>5, <1>6 DEF Shows

\* A confirmation that is accepted leaves a record to tell about.
LEMMA ConfirmedPresent ==
    ASSUME Inv, NEW id \in TaskIds, NEW ref, NEW target, NEW now,
           ConfirmDispatch(id, ref, target, now), reply' = "done"
    PROVE  id \in Present(tasks')
<1> DEFINE t == Pruned[id]
           Noted(code) == EnterReconcile(t, code, now)
           Bound == [CommonFields(t) EXCEPT !.phase = "bound", !.updated = now, !.target = target]
<1>1. ~Refuse("conflict") /\ Pruned \in [TaskIds -> Task]
  BY PrunedFacts DEF Refuse, Ledger
<1>2. \A tt : Store(tt, "existing") => tasks' = tt
  <2>1. \A tt : Rejection(tt, "existing") \in {None, "clock", "full", "oversize", "invalid"}
    BY DEF Rejection
  <2>2. ASSUME NEW tt, Store(tt, "existing"), ~(tasks' = tt)
        PROVE  FALSE
    <3>1. Rejection(tt, "existing") = "done"
      BY <2>2 DEF Store
    <3>2. QED
      BY <2>1, <3>1 DEF None
  <2>3. QED
    BY <2>2
<1>3. t.phase # "absent"
  BY <1>1 DEF ConfirmDispatch, Repeats
<1>4. \A code : Noted(code).phase # "absent"
  BY <1>1, <1>3 DEF EnterReconcile, Task
<1>5. Bound.phase = "bound"
  BY DEF CommonFields, Absent
<1>6. \/ tasks' = Pruned
      \/ \E code : tasks' = [Pruned EXCEPT ![id] = Noted(code)]
      \/ tasks' = [Pruned EXCEPT ![id] = Bound]
  BY <1>1, <1>2 DEF ConfirmDispatch, Tell, Reconcile, Bind
<1> HIDE DEF Noted, Bound
<1>7. tasks'[id].phase # "absent"
  BY <1>1, <1>3, <1>4, <1>5, <1>6
<1>8. QED
  BY <1>7 DEF Present

LEMMA ViewStep == Inv /\ ViewOK /\ [RNext]_readerVars => ViewOK'
<1> SUFFICES ASSUME Inv, ViewOK, [RNext]_readerVars PROVE ViewOK'
  OBVIOUS
<1>1. CASE UNCHANGED view
  BY <1>1 DEF ViewOK, Seen, Shows
<1>2. CASE view' = NoView
  BY <1>2 DEF ViewOK
<1>3. Inv'
  BY ReaderStep, StepInv
<1>4. ASSUME NEW id \in Present(tasks'), NEW now \in Time, view' = ProjectStatus(id, tasks'[id], now)
      PROVE  ViewOK'
  <2>1. id \in TaskIds /\ tasks'[id] \in Task /\ ShapeOK(tasks'[id])
    BY <1>3 DEF Inv, TypeOK, WellFormed, Present
  <2>2. Shows(view')
    BY <1>4, <2>1, ProjectShows
  <2>3. QED
    BY <2>2 DEF ViewOK, Seen
<1>5. ASSUME NEW id \in TaskIds, NEW ref \in Refs, NEW now \in Time, ReadStatus(id, ref, now),
             view' # NoView
      PROVE  ViewOK'
  <2>1. tasks' = tasks /\ id \in Present(tasks) /\ view' = ProjectStatus(id, tasks[id], now)
    BY <1>5 DEF ReadStatus, vars, Present
  <2>2. QED
    BY <1>4, <2>1
<1>6. ASSUME NEW op \in Operations, NEW now \in Time, Submit(op, now), view' # view
      PROVE  ViewOK'
  <2>1. Takes(op, now) /\ Seen
    BY <1>6, Offered DEF Submit
  <2>2. PICK target \in Targets : ConfirmAnswers(view.id, view.ref, target, now)
    BY <1>6, <2>1 DEF Takes
  <2>3. view.id \in TaskIds /\ reply' = "done" /\ view' = ProjectStatus(view.id, tasks'[view.id], now)
    BY <1>6, <2>1, <2>2 DEF ConfirmAnswers, Seen, Shows
  <2>4. view.id \in Present(tasks')
    BY <2>2, <2>3, ConfirmedPresent DEF ConfirmAnswers
  <2>5. QED
    BY <1>4, <2>3, <2>4
<1>7. QED
  BY <1>1, <1>2, <1>5, <1>6 DEF RNext, OthersAct, Spawn, readerVars

\* Whatever a parent is told and however late it acts on it, it takes only steps the
\* ledger's specification allows: every theorem about the ledger holds with such
\* parents too (status, and the offers of governance_operation_inputs.py, change nothing
\* themselves).
THEOREM ReadersOnlyOperate == RSpec => Spec /\ []ViewOK
<1>1. RInit => Init /\ ViewOK
  BY DEF RInit, ViewOK
<1>2. Init => Inv
  BY InitInv
<1>3. Inv /\ ViewOK /\ [RNext]_readerVars => Inv' /\ ViewOK' /\ [Next]_vars
  BY ViewStep, ReaderStep, StepInv
<1>4. QED
  BY <1>1, <1>2, <1>3, PTL DEF RSpec, Spec

-----------------------------------------------------------------------------
(* An offer on a record that is as it was told *)

Accepted == {"done", "clock", "oversize"}

\* A write that adds no task is refused only for the clock or the bytes: it cannot
\* exceed the number of tasks the ledger already respects.
LEMMA StoreAccepted ==
    ASSUME RecordsValid, NEW tt, Present(tt) \subseteq Present(tasks),
           Store(tt, "existing"), reply' # "invalid"
    PROVE  reply' \in Accepted
<1>1. Cardinality(Present(tt)) <= MaxTasks
  <2>1. Present(tasks) \subseteq TaskIds
    BY DEF Present
  <2>2. IsFiniteSet(Present(tasks))
    BY <2>1, IdAssumption, FS_Subset
  <2>3. /\ Cardinality(Present(tt)) <= Cardinality(Present(tasks))
        /\ Cardinality(Present(tt)) \in Nat /\ Cardinality(Present(tasks)) \in Nat
    BY <2>2, FS_Subset, FS_CardinalityType
  <2>4. QED
    BY <2>3, LimitAssumption DEF RecordsValid
<1>2. ~(Cardinality(Present(tt)) > MaxTasks)
  BY <1>1, IdAssumption, FS_Subset, FS_CardinalityType, LimitAssumption DEF Present
<1>3. Rejection(tt, "existing") \in {None, "invalid", "clock", "oversize"}
  BY <1>2 DEF Rejection
<1>4. QED
  BY <1>3 DEF Store, Accepted

LEMMA UpdateAccepted ==
    ASSUME Inv, RecordsValid, NEW id \in Present(tasks), NEW u, Update(id, u), reply' # "invalid"
    PROVE  reply' \in Accepted
<1> DEFINE tt == Prune([tasks EXCEPT ![id] = u], "existing")
<1>1. tasks \in [TaskIds -> Task]
  BY InvFacts DEF Ledger
<1>2. Present(tt) \subseteq Present(tasks)
  BY <1>1, AbsentTask DEF Prune, Without, Present
<1>3. Store(tt, "existing")
  BY DEF Update
<1> HIDE DEF tt
<1>4. QED
  BY <1>2, <1>3, StoreAccepted

LEMMA ConfirmAccepted ==
    ASSUME Inv, RecordsValid, NEW id \in Present(tasks), NEW ref, NEW target, NEW now,
           tasks[id].phase \in {"prepared", "claimed"}, tasks[id].ref = ref,
           ConfirmDispatch(id, ref, target, now), reply' # "invalid"
    PROVE  reply' \in Accepted
<1>1. /\ Pruned \in [TaskIds -> Task] /\ id \in TaskIds
      /\ Present(Pruned) \subseteq Present(tasks)
  BY PrunedFacts, AbsentTask DEF Ledger, Present
<1>2. Pruned[id] = tasks[id]
  <2>1. \/ Pruned[id] = tasks[id]
        \/ tasks[id].phase = "closed"
    BY <1>1, InvFacts, PruneKeeps DEF Pruned
  <2>2. QED
    BY <2>1
<1>3. \/ \E code : Reconcile(id, code, now)
      \/ Bind(id, target, now)
  BY <1>2 DEF ConfirmDispatch, Repeats
<1>4. \E u : Store([Pruned EXCEPT ![id] = u], "existing")
  BY <1>3 DEF Reconcile, Bind
<1>5. ASSUME NEW u PROVE Present([Pruned EXCEPT ![id] = u]) \subseteq Present(tasks)
  BY <1>1 DEF Present
<1>6. QED
  BY <1>4, <1>5, StoreAccepted

\* What each lifecycle offer does to a record in the phase it is offered for.
LEMMA FactAccepted ==
    ASSUME Inv, RecordsValid, NEW id \in TaskIds, NEW ref, NEW target, NEW status, NEW now,
           tasks[id].phase = "bound", tasks[id].ref = ref, tasks[id].target = target,
           \/ RecordTerminalNotification(id, ref, target, status, now)
           \/ /\ status \in PlatformStatuses
              /\ RecordPlatformObservation(id, ref, target, status, now),
           reply' # "invalid"
    PROVE  reply' \in Accepted
<1>1. id \in Present(tasks) /\ Identified(id, ref, target)
  BY DEF Present, Identified
<1>2. \E u : Update(id, u)
  BY <1>1 DEF RecordTerminalNotification, RecordPlatformObservation, RecordUnknown, Replay
<1>3. QED
  BY <1>1, <1>2, UpdateAccepted

LEMMA CloseAccepted ==
    ASSUME Inv, RecordsValid, NEW id \in TaskIds, NEW ref, NEW reason, NEW now,
           tasks[id].phase \in {"bound", "terminal", "reconcile"}, tasks[id].ref = ref,
           CloseTask(id, ref, reason, now), reply' # "invalid"
    PROVE  reply' \in Accepted
<1>1. id \in Present(tasks)
  BY DEF Present
<1>2. Update(id, CloseRecord(tasks[id], reason, now))
  BY DEF CloseTask
<1>3. QED
  BY <1>1, <1>2, UpdateAccepted

LEMMA OfferStep ==
    ASSUME Inv, RecordsValid, ViewOK, NEW op \in Operations, NEW now \in Time,
           Submit(op, now), Fresh
    PROVE  reply' \in Accepted
<1>1. /\ Seen /\ Takes(op, now)
      /\ op = "confirm" => view.phase \in {"prepared", "claimed"}
      /\ op \in {"notification", "observation"} => view.phase = "bound"
      /\ op = "close" => view.phase \in {"bound", "terminal", "reconcile"}
  BY Offered DEF Submit
<1>2. /\ view.id \in TaskIds /\ tasks[view.id].phase = view.phase
      /\ tasks[view.id].ref = view.ref /\ tasks[view.id].target = view.target
  BY <1>1 DEF Fresh, Seen, Shows
<1>3. reply' # "invalid"
  BY SubmitIsOperation, StepInv DEF Inv, ValidatorNeverFires
<1>4. CASE op = "confirm"
  <2>1. PICK target \in Targets : ConfirmDispatch(view.id, view.ref, target, now)
    BY <1>1, <1>4 DEF Takes, ConfirmAnswers
  <2>2. view.id \in Present(tasks)
    BY <1>1, <1>2, <1>4 DEF Present
  <2>3. QED
    BY <1>1, <1>2, <1>3, <1>4, <2>1, <2>2, ConfirmAccepted
<1>5. CASE op = "notification"
  <2>1. PICK status \in TerminalStatuses \cap Reports :
           RecordTerminalNotification(view.id, view.ref, view.target, status, now)
    BY <1>1, <1>5 DEF Takes
  <2>2. QED
    BY <1>1, <1>2, <1>3, <1>5, <2>1, FactAccepted
<1>6. CASE op = "observation"
  <2>1. PICK status \in PlatformStatuses \cap Reports :
           RecordPlatformObservation(view.id, view.ref, view.target, status, now)
    BY <1>1, <1>6 DEF Takes
  <2>2. QED
    BY <1>1, <1>2, <1>3, <1>6, <2>1, FactAccepted
<1>7. CASE op = "close"
  <2>1. PICK reason \in Reasons : CloseTask(view.id, view.ref, reason, now)
    BY <1>1, <1>7 DEF Takes
  <2>2. QED
    BY <1>1, <1>2, <1>3, <1>7, <2>1, CloseAccepted
<1>8. QED
  BY <1>4, <1>5, <1>6, <1>7 DEF Operations

-----------------------------------------------------------------------------
(* The line of the expiry *)

\* A claim of a prepared record with the prepared parameters on the same material is
\* refused as expired exactly when the expiry it still has is not after the Hook's clock.
LEMMA PromptClaim ==
    ASSUME Inv, NEW id \in TaskIds, tasks[id].phase = "prepared", NEW call, NEW now,
           ClaimSpawn(id, call, "exact", "same", now)
    PROVE  (reply' = "expired") <=> Expired(tasks[id], now)
<1>1. tasks \in Ledger /\ tasks[id].phase # "closed"
  BY InvFacts
<1>2. Pruned[id] = tasks[id]
  BY <1>1, PruneKeeps DEF Pruned
<1>3. ASSUME NEW tt, Grant(id, call, tt) PROVE reply' # "expired"
  <2>1. Rejection(tt, "existing") \in {None, "invalid", "clock", "full", "oversize"}
    BY DEF Rejection
  <2>2. Store(tt, "existing")
    BY <1>3 DEF Grant
  <2>3. QED
    BY <2>1, <2>2 DEF Store
<1>4. CASE Expired(tasks[id], now)
  BY <1>2, <1>4 DEF ClaimSpawn, HeldBy, Refuse
<1>5. CASE ~Expired(tasks[id], now)
  <2>1. \E tt : Grant(id, call, tt)
    BY <1>2, <1>5 DEF ClaimSpawn, HeldBy
  <2>2. QED
    BY <1>3, <1>5, <2>1
<1>6. QED
  BY <1>4, <1>5

LEMMA SpawnAgrees ==
    ASSUME Inv, ViewOK, NEW call \in CallIds, NEW now \in Time, Spawn(call, now), Fresh
    PROVE  /\ view.expired => reply' # "done" /\ NextAction(view) = "parent_review_expired_preparation"
           /\ ~view.expired =>
                 /\ NextAction(view) = "invoke_exact_spawn_args"
                 /\ now = view.at => reply' # "expired"
<1>1. Shows(view) /\ view.phase = "prepared" /\ now >= view.at
  BY SpawnIsOperation DEF Spawn, Seen
<1>2. /\ view.id \in TaskIds /\ view.at \in Int /\ now \in Int /\ view.expires \in Int
      /\ view.expired <=> view.expires <= view.at
  BY <1>1 DEF Shows, Time
<1>3. tasks[view.id].phase = "prepared" /\ tasks[view.id].expires = view.expires
  BY <1>1 DEF Fresh, ShownExpiry
<1>4. (reply' = "expired") <=> view.expires <= now
  <2>1. ClaimSpawn(view.id, call, "exact", "same", now)
    BY DEF Spawn
  <2>2. QED
    BY <1>2, <1>3, <2>1, PromptClaim DEF Expired
<1>5. NextAction(view) = IF view.expired THEN "parent_review_expired_preparation"
                                         ELSE "invoke_exact_spawn_args"
  BY <1>1 DEF NextAction
<1>6. view.expired => view.expires <= now
  BY <1>1, <1>2
<1>7. QED
  BY <1>2, <1>4, <1>5, <1>6

-----------------------------------------------------------------------------
(* The theorems *)

ReaderInv == Inv /\ RecordsValid /\ ViewOK

LEMMA ReaderInvariance == RSpec => []ReaderInv
BY ReadersOnlyOperate, Invariance, WrittenIsValid, PTL DEF ReaderInv

LEMMA OfferKept == ReaderInv /\ OfferIsAccepted /\ [RNext]_readerVars => OfferIsAccepted'
<1> SUFFICES ASSUME ReaderInv, OfferIsAccepted, [RNext]_readerVars,
                    sent'.what \in Operations, sent'.fresh
             PROVE  reply' \in Accepted
  BY DEF OfferIsAccepted, Accepted
<1>1. CASE OthersAct \/ \E id \in TaskIds, ref \in Refs, now \in Time : ReadStatus(id, ref, now)
  BY <1>1 DEF OthersAct, ReadStatus, NotSent
<1>2. ASSUME NEW op \in Operations, NEW now \in Time, Submit(op, now)
      PROVE  reply' \in Accepted
  <2>1. Fresh
    BY <1>2 DEF Submit
  <2>2. QED
    BY <1>2, <2>1, OfferStep DEF ReaderInv
<1>3. ASSUME NEW call \in CallIds, NEW now \in Time, Spawn(call, now)
      PROVE  FALSE
  <2>1. sent'.what = NextAction(view) /\ Fresh
    BY <1>3 DEF Spawn
  <2>2. NextAction(view) \in {"parent_review_expired_preparation", "invoke_exact_spawn_args"}
    BY <1>3, <2>1, SpawnAgrees DEF ReaderInv
  <2>3. QED
    BY <2>1, <2>2 DEF Operations
<1>4. CASE UNCHANGED readerVars
  BY <1>4 DEF readerVars, OfferIsAccepted, Accepted
<1>5. QED
  BY <1>1, <1>2, <1>3, <1>4 DEF RNext

\* An operation offered for a record, submitted while the record is still as it was told,
\* is refused only for the parent's clock or the size limit, whatever the parent adds and
\* whatever happened to the other records (governance_operation_inputs.py offers only
\* what the handlers accept).
THEOREM OffersStand == RSpec => []OfferIsAccepted
<1>1. RInit => OfferIsAccepted
  BY DEF RInit, NotSent, OfferIsAccepted
<1>2. QED
  BY <1>1, ReaderInvariance, OfferKept, PTL DEF RSpec

LEMMA ExpiryKept == ReaderInv /\ ExpiryAgreesWithClaim /\ [RNext]_readerVars => ExpiryAgreesWithClaim'
<1> SUFFICES ASSUME ReaderInv, ExpiryAgreesWithClaim, [RNext]_readerVars
             PROVE  ExpiryAgreesWithClaim'
  OBVIOUS
<1>1. CASE OthersAct \/ \E id \in TaskIds, ref \in Refs, now \in Time : ReadStatus(id, ref, now)
  BY <1>1 DEF OthersAct, ReadStatus, NotSent, ExpiryAgreesWithClaim
<1>2. ASSUME NEW op \in Operations, NEW now \in Time, Submit(op, now)
      PROVE  ExpiryAgreesWithClaim'
  <2>1. sent'.what \in Operations
    BY <1>2 DEF Submit
  <2>2. QED
    BY <2>1 DEF Operations, ExpiryAgreesWithClaim
<1>3. ASSUME NEW call \in CallIds, NEW now \in Time, Spawn(call, now)
      PROVE  ExpiryAgreesWithClaim'
  <2>1. sent' = [what |-> NextAction(view), fresh |-> Fresh, prompt |-> now = view.at]
    BY <1>3 DEF Spawn
  <2>2. CASE ~Fresh
    BY <2>1, <2>2 DEF ExpiryAgreesWithClaim
  <2>3. CASE Fresh
    BY <1>3, <2>1, <2>3, SpawnAgrees DEF ReaderInv, ExpiryAgreesWithClaim
  <2>4. QED
    BY <2>2, <2>3
<1>4. CASE UNCHANGED readerVars
  BY <1>4 DEF readerVars, ExpiryAgreesWithClaim
<1>5. QED
  BY <1>1, <1>2, <1>3, <1>4 DEF RNext

\* Status and the Hook draw the line of the expiry at the same second: what status calls
\* expired can no longer be claimed, and a claim in the second status was read is never
\* refused as expired if status did not say so (project_status and claim_spawn both
\* compare with <=).
THEOREM OneExpiryLine == RSpec => []ExpiryAgreesWithClaim
<1>1. RInit => ExpiryAgreesWithClaim
  BY DEF RInit, NotSent, ExpiryAgreesWithClaim
<1>2. QED
  BY <1>1, ReaderInvariance, ExpiryKept, PTL DEF RSpec
=============================================================================
