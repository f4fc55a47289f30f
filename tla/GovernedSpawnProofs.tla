-------------------------- MODULE GovernedSpawnProofs --------------------------
(* Proofs about GovernedSpawn, for every number of tasks, calls and Hooks, every   *)
(* time the platform allows a Hook and any number of faults.                       *)
EXTENDS GovernedSpawn, SessionLedgerProofs

Working == {"claiming", "recovering"}
Done == {"answered", "gone"}

\* What holds of a Hook in state s, run for a call with request r, while ids are the
\* ids drawn and calls the claims written so far: it works only on a governed request;
\* it has written nothing before it claims; an error after its own write is one of the
\* commit stage, which never denies; a confirmed claim is the one that was written.
HookFacts(call, r, s, ids, calls) ==
    /\ s.pc # "idle" => r # NoRequest
    /\ s.pc \in Working => Recognize(r) = "governed" /\ s.now \in Time
    /\ s.pc \in {"idle", "claiming"} => ~s.wrote
    /\ s.pc = "recovering" /\ s.wrote => s.stage = "commit"
    /\ s.pc \in {"replying", "answered"} =>
          /\ s.wrote => s.says.action # "deny" /\ s.says.claim \in {"confirmed", "unknown"}
          /\ s.says.claim = "confirmed" => s.task \in ids /\ calls[s.task] = {call}
          /\ Governed(r) => s.says.action \in {"allow", "continue", "deny"}

HooksOK == \A h \in Hooks : HookFacts(CallOf[h], asked[CallOf[h]], hook[h], used, granted)

\* A call ran only after its Hooks were through, and none of them denied it.
CreatedOK ==
    \A c \in CallIds : ran[c] = "created" =>
        \A h \in HooksOf(c) : hook[h].pc \in Done /\ hook[h].says.action # "deny"

\* The inductive invariant.
GInv == Inv /\ SpawnTypeOK /\ HooksOK /\ CreatedOK

-----------------------------------------------------------------------------
(* Recognition *)

LEMMA RequestType ==
    ASSUME SpawnTypeOK, NEW h \in Hooks
    PROVE  RequestOf(h) \in Request /\ CallOf[h] \in CallIds
BY SpawnAssumption DEF SpawnTypeOK, RequestOf

\* A call that goes to the ledger names one task.
LEMMA GovernedQuotesRef ==
    ASSUME NEW r \in Request, Recognize(r) = "governed"
    PROVE  QuotedRef(r) \in Refs
<1>1. r.object /\ r.name # "number" /\ ~Contradicts(r) /\ ~(r.name \in {None, "plain"} /\ r.marker = None)
  BY DEF Recognize, Request
<1>2. CASE r.name \in Refs
  BY <1>2 DEF QuotedRef
<1>3. CASE r.name \notin Refs
  <2>1. r.name \in {None, "plain"}
    BY <1>1, <1>3 DEF Request, Names
  <2>2. r.marker \in Refs
    BY <1>1, <2>1 DEF Request, Contradicts
  <2>3. QED
    BY <1>3, <2>2 DEF QuotedRef
<1>4. QED
  BY <1>2, <1>3

\* A call that bears the mark of governance is never taken for an unmanaged one.
LEMMA GovernedIsManaged ==
    ASSUME NEW r \in Request, Governed(r)
    PROVE  Recognize(r) # "unmanaged"
BY IdAssumption, RequestAssumption DEF Governed, Recognize

-----------------------------------------------------------------------------
(* What the steps of Hooks and parent do to the ledger *)

\* No record appears, and a capability granted to one call stays that call's.
NoneAppears == Present(tasks)' \subseteq Present(tasks)
GrantsStay == \A i \in TaskIds, c \in CallIds : granted[i] = {c} => granted'[i] = {c}

LEMMA StoreAddsNothing ==
    ASSUME NEW tt, NEW admission, Store(tt, admission),
           \A i \in TaskIds : tasks[i].phase = "absent" => tt[i].phase = "absent"
    PROVE  NoneAppears
<1>1. tasks' = tt \/ tasks' = tasks
  BY DEF Store
<1>2. QED
  BY <1>1 DEF NoneAppears, Present

LEMMA RefuseAddsNothing ==
    ASSUME NEW why, Refuse(why)
    PROVE  NoneAppears /\ GrantsStay
BY DEF Refuse, NoneAppears, GrantsStay, Present

LEMMA UpdateAddsNothing ==
    ASSUME Inv, NEW id \in Present(tasks), NEW u, Update(id, u)
    PROVE  NoneAppears /\ granted' = granted
<1> DEFINE uu == [tasks EXCEPT ![id] = u]
<1>1. id \in TaskIds /\ tasks[id].phase # "absent"
  BY DEF Present
<1>2. \A i \in TaskIds : i # id => uu[i] = tasks[i]
  BY InvFacts DEF Ledger
<1>3. Store(Prune(uu, "existing"), "existing") /\ granted' = granted
  BY DEF Update
<1> HIDE DEF uu
<1>4. \A i \in TaskIds : tasks[i].phase = "absent" => Prune(uu, "existing")[i].phase = "absent"
  BY <1>1, <1>2, AbsentTask DEF Prune, Without
<1>5. QED
  BY <1>3, <1>4, StoreAddsNothing

\* Pruning first and then replacing one record that is still there adds nothing.
LEMMA PrunedAddsNothing ==
    ASSUME Inv, NEW i \in TaskIds, tasks[i].phase = "absent"
    PROVE  Pruned[i].phase = "absent"
BY PrunedFacts, AbsentTask

LEMMA ReplacedAddsNothing ==
    ASSUME Inv, NEW id \in TaskIds, Pruned[id].phase # "absent", NEW u,
           NEW admission, Store([Pruned EXCEPT ![id] = u], admission)
    PROVE  NoneAppears
<1>1. \A i \in TaskIds : i # id => [Pruned EXCEPT ![id] = u][i] = Pruned[i]
  BY PrunedFacts DEF Ledger
<1>2. \A i \in TaskIds : tasks[i].phase = "absent" => i # id
  BY PrunedAddsNothing
<1>3. \A i \in TaskIds : tasks[i].phase = "absent" => [Pruned EXCEPT ![id] = u][i].phase = "absent"
  BY <1>1, <1>2, PrunedAddsNothing
<1>4. QED
  BY <1>3, StoreAddsNothing

\* A claim that ends without an error has granted the capability to its call alone.
LEMMA ClaimEffect ==
    ASSUME Inv, NEW id \in TaskIds, NEW call \in CallIds, NEW args, NEW material,
           NEW now, ClaimSpawn(id, call, args, material, now)
    PROVE  /\ NoneAppears /\ GrantsStay
           /\ reply' = "done" => id \in Present(tasks) /\ granted'[id] = {call}
<1> DEFINE t == Pruned[id]
<1>1. CASE \E why \in {"conflict", "unavailable", "expired"} : Refuse(why)
  BY <1>1, RefuseAddsNothing DEF Refuse
<1>2. CASE t.phase = "claimed" /\ t.call = call /\ Grant(id, call, Pruned)
  <2>1. granted[id] = {call}
    BY <1>2, PrunedHistory DEF HistoryOK
  <2>2. granted' = granted
    BY <1>2, <2>1, InvFacts DEF Grant
  <2>3. NoneAppears
    BY <1>2, PrunedAddsNothing, StoreAddsNothing DEF Grant
  <2>4. id \in Present(tasks)
    BY <1>2, PrunedAddsNothing DEF Present
  <2>5. QED
    BY <2>1, <2>2, <2>3, <2>4 DEF GrantsStay
<1>3. CASE /\ t.phase = "prepared"
           /\ Grant(id, call, [Pruned EXCEPT ![id] = [t EXCEPT !.phase = "claimed", !.call = call,
                                                               !.updated = now]])
  <2>1. granted[id] = {}
    BY <1>3, PrunedHistory DEF HistoryOK
  <2>2. granted' = (IF reply' = "done" THEN [granted EXCEPT ![id] = {call}] ELSE granted)
    BY <1>3, <2>1 DEF Grant
  <2>3. GrantsStay /\ (reply' = "done" => granted'[id] = {call})
    BY <2>1, <2>2, InvFacts DEF GrantsStay
  <2>4. NoneAppears
    BY <1>3, ReplacedAddsNothing DEF Grant
  <2>5. id \in Present(tasks)
    BY <1>3, PrunedAddsNothing DEF Present
  <2>6. QED
    BY <2>3, <2>4, <2>5
<1>4. QED
  BY <1>1, <1>2, <1>3 DEF ClaimSpawn, HeldBy

\* A prepare touches only the ids it drew.
LEMMA PrepareEffect ==
    ASSUME Inv, NEW first \in TaskIds, NEW second \in TaskIds, NEW now \in Time,
           PrepareDispatch(first, second, now)
    PROVE  /\ Present(tasks)' \subseteq Present(tasks) \cup {first, second}
           /\ \A i \in TaskIds \ {first, second} : granted'[i] = granted[i]
<1> DEFINE id == IF Usable(first) THEN first ELSE second
           tt == [tasks EXCEPT ![id] = InitialTaskRecord(SelectTaskRef(id), now)]
<1>1. CASE Refuse("conflict")
  BY <1>1 DEF Refuse, Present
<1>2. CASE /\ Usable(id) /\ Store(Prune(tt, "new_task"), "new_task")
           /\ granted' = IF reply' = "done" THEN [granted EXCEPT ![id] = {}] ELSE granted
  <2>1. id \in {first, second} /\ tasks \in Ledger
    BY InvFacts
  <2> HIDE DEF id
  <2>2. \A i \in TaskIds \ {first, second} : tt[i] = tasks[i]
    BY <2>1 DEF Ledger
  <2> HIDE DEF tt
  <2>3. \A i \in TaskIds \ {first, second} :
            Prune(tt, "new_task")[i] = tt[i] \/ Prune(tt, "new_task")[i] = Absent
    BY DEF Prune, Without
  <2>4. tasks' = Prune(tt, "new_task") \/ tasks' = tasks
    BY <1>2 DEF Store
  <2>5. \A i \in TaskIds \ {first, second} : tasks'[i] = tasks[i] \/ tasks'[i] = Absent
    BY <2>2, <2>3, <2>4
  <2>6. Present(tasks)' \subseteq Present(tasks) \cup {first, second}
    BY <2>5, AbsentTask DEF Present
  <2>7. \A i \in TaskIds \ {first, second} : granted'[i] = granted[i]
    BY <1>2, <2>1, InvFacts
  <2>8. QED
    BY <2>6, <2>7
<1>3. QED
  BY <1>1, <1>2 DEF PrepareDispatch

\* Confirmations, dispatch results and closes neither add a record nor grant anything.
LEMMA ConfirmEffect ==
    ASSUME Inv, NEW id \in TaskIds, NEW ref, NEW target, NEW now,
           ConfirmDispatch(id, ref, target, now)
    PROVE  NoneAppears /\ granted' = granted
<1> DEFINE t == Pruned[id]
           Replaced == \E u : Store([Pruned EXCEPT ![id] = u], "existing")
<1>1. CASE Refuse("conflict")
  BY <1>1, RefuseAddsNothing DEF Refuse
<1>2. CASE Store(Pruned, "existing") /\ granted' = granted
  BY <1>2, PrunedAddsNothing, StoreAddsNothing
<1>3. CASE t.phase # "absent" /\ Replaced /\ granted' = granted
  BY <1>3, ReplacedAddsNothing
<1>4. ASSUME Bind(id, target, now) PROVE Replaced /\ granted' = granted
  BY <1>4 DEF Bind
<1>5. ASSUME NEW code, Reconcile(id, code, now) PROVE Replaced /\ granted' = granted
  BY <1>5 DEF Reconcile
<1> HIDE DEF Replaced
<1>6. QED
  BY <1>1, <1>2, <1>3, <1>4, <1>5 DEF ConfirmDispatch, Tell

LEMMA DispatchResultEffect ==
    ASSUME Inv, NEW id \in TaskIds, NEW ref, NEW result, NEW now,
           RecordDispatchResult(id, ref, result, now)
    PROVE  NoneAppears /\ granted' = granted
<1>1. CASE Refuse("conflict")
  BY <1>1, RefuseAddsNothing DEF Refuse
<1>2. CASE tasks[id].phase \in {"prepared", "claimed"} /\ \E u : Update(id, u)
  BY <1>2, UpdateAddsNothing DEF Present
<1>3. QED
  BY <1>1, <1>2 DEF RecordDispatchResult

LEMMA CloseEffect ==
    ASSUME Inv, NEW id \in TaskIds, NEW ref, NEW reason, NEW now,
           CloseTask(id, ref, reason, now)
    PROVE  NoneAppears /\ granted' = granted
<1>1. CASE Refuse("conflict")
  BY <1>1, RefuseAddsNothing DEF Refuse
<1>2. CASE tasks[id].phase # "absent" /\ \E u : Update(id, u)
  BY <1>2, UpdateAddsNothing DEF Present
<1>3. QED
  BY <1>1, <1>2 DEF CloseTask, Replay

-----------------------------------------------------------------------------
(* Every step is a step of the ledger or leaves it alone *)

LEMMA ClaimIsLedgerStep ==
    ASSUME GInv, NEW h \in Hooks, hook[h].pc = "claiming", NEW id \in TaskIds,
           NEW material \in {"same", "changed", "unavailable"}, MatchesOf(h) = {id},
           ClaimSpawn(id, CallOf[h], RequestOf(h).args, material, hook[h].now)
    PROVE  Claims
<1> DEFINE r == RequestOf(h)
<1>1. r \in Request /\ CallOf[h] \in CallIds
  BY RequestType DEF GInv
<1>2. Recognize(r) = "governed" /\ hook[h].now \in Time
  BY DEF GInv, HooksOK, HookFacts, Working, RequestOf
<1>3. QuotedRef(r) \in Refs
  BY <1>1, <1>2, GovernedQuotesRef
<1>4. r.args \in {"exact", "changed", "unreadable"}
  BY <1>1 DEF Request
<1>5. FindByRef(Pruned, QuotedRef(r)) = {id}
  BY DEF MatchesOf
<1> HIDE DEF r
<1> USE DEF r
<1>6. QED
  BY <1>1, <1>2, <1>3, <1>4, <1>5 DEF Claims

LEMMA UnknownRefIsLedgerStep ==
    ASSUME GInv, NEW h \in Hooks, hook[h].pc = "claiming",
           ClaimUnknownRef(QuotedRef(RequestOf(h)))
    PROVE  Claims
<1>1. RequestOf(h) \in Request /\ Recognize(RequestOf(h)) = "governed"
  BY RequestType DEF GInv, HooksOK, HookFacts, Working, RequestOf
<1>2. QuotedRef(RequestOf(h)) \in Refs
  BY <1>1, GovernedQuotesRef
<1>3. QED
  BY <1>2 DEF Claims

LEMMA PresentRef ==
    ASSUME GInv, NEW id \in Present(tasks)
    PROVE  id \in TaskIds /\ tasks[id].ref \in Refs
BY InvFacts DEF GInv, Present, Task, ShapeOK

LEMMA ClockIsTime ==
    ASSUME GInv
    PROVE  clock \in Time
BY DEF GInv, SpawnTypeOK

\* Hooks, platform and parent change the ledger through its operations only.
LEMMA HookIsLedgerStep ==
    ASSUME GInv, NEW h \in Hooks, HookStep(h)
    PROVE  Next \/ UNCHANGED vars
<1>1. CASE Claim(h)
  BY <1>1, ClaimIsLedgerStep, UnknownRefIsLedgerStep DEF Claim, Transacts, Next
<1>2. CASE ClaimThenError(h)
  BY <1>2, ClaimIsLedgerStep DEF ClaimThenError, Transacts, Next
<1>3. CASE UNCHANGED ledgerVars
  BY <1>3 DEF ledgerVars, vars
<1>4. QED
  BY <1>1, <1>2, <1>3 DEF HookStep, StartHook, StoreMissing, LongCallId, WriteFails, TransactionFails,
     ReadBack, ReadBackFails, Escapes, Deliver, Quiet

LEMMA ParentIsLedgerStep ==
    ASSUME GInv, \/ Prepare
                 \/ \E c \in CallIds : ParentConfirms(c)
                 \/ \E id \in TaskIds : ParentSettles(id) \/ ParentCloses(id)
    PROVE  Next
<1>1. CASE Prepare
  BY <1>1, ClockIsTime DEF Prepare, Prepares, Next
<1>2. ASSUME NEW c \in CallIds, ParentConfirms(c) PROVE Next
  <2>1. PICK id \in FindByRef(tasks, QuotedRef(asked[c])) :
             ConfirmDispatch(id, tasks[id].ref, AgentOf[c], clock)
    BY <1>2 DEF ParentConfirms
  <2>2. id \in Present(tasks) /\ AgentOf[c] \in Targets
    BY SpawnAssumption DEF FindByRef
  <2>3. QED
    BY <2>1, <2>2, PresentRef, ClockIsTime DEF Confirms, Next
<1>3. ASSUME NEW id \in TaskIds, ParentSettles(id) PROVE Next
  <2>1. id \in Present(tasks)
    BY <1>3 DEF ParentSettles
  <2>2. \E result \in {"failed", "unknown"} : RecordDispatchResult(id, tasks[id].ref, result, clock)
    BY <1>3 DEF ParentSettles
  <2>3. QED
    BY <2>1, <2>2, PresentRef, ClockIsTime DEF DispatchResults, Next
<1>4. ASSUME NEW id \in TaskIds, ParentCloses(id) PROVE Next
  <2>1. id \in Present(tasks) /\ \E reason \in Reasons : CloseTask(id, tasks[id].ref, reason, clock)
    BY <1>4 DEF ParentCloses
  <2>2. QED
    BY <2>1, PresentRef, ClockIsTime DEF Closes, Next
<1>5. QED
  BY <1>1, <1>2, <1>3, <1>4

LEMMA LedgerStep ==
    ASSUME GInv, [GNext]_gvars
    PROVE  [Next]_vars
<1>1. CASE UNCHANGED ledgerVars
  BY <1>1 DEF ledgerVars, vars
<1>2. CASE UNCHANGED gvars
  BY <1>2 DEF gvars, vars
<1>3. CASE \E h \in Hooks : HookStep(h)
  BY <1>3, HookIsLedgerStep
<1>4. QED
  BY <1>1, <1>2, <1>3, ParentIsLedgerStep DEF GNext, Tick, Lose, NativeEnds, Ask, Quiet

-----------------------------------------------------------------------------
(* What the steps do to the invariant *)

\* One Hook moves to a state that bears out what it knows; nothing granted is lost.
LEMMA HookMoves ==
    ASSUME GInv, Inv', NEW h \in Hooks, hook[h].pc \notin Done, NEW new \in HookState,
           hook' = [hook EXCEPT ![h] = new],
           HookFacts(CallOf[h], RequestOf(h), new, used, granted'),
           NoneAppears, GrantsStay, Elsewhere, faults' \in 0..MaxFaults, lost' \in 0..MaxLost
    PROVE  GInv'
<1>1. /\ hook \in [Hooks -> HookState] /\ used \subseteq TaskIds
      /\ UNCHANGED <<clock, used, asked, ran, receipts>>
  BY DEF GInv, SpawnTypeOK, Elsewhere
<1>2. SpawnTypeOK'
  <2>1. hook' \in [Hooks -> HookState]
    BY <1>1
  <2>2. (Present(tasks) \subseteq used)'
    BY <1>1 DEF GInv, SpawnTypeOK, NoneAppears
  <2>3. QED
    BY <1>1, <2>1, <2>2 DEF GInv, SpawnTypeOK
<1>3. HooksOK'
  <2> SUFFICES ASSUME NEW g \in Hooks
               PROVE  HookFacts(CallOf[g], asked[CallOf[g]], hook'[g], used, granted')
    BY <1>1 DEF HooksOK
  <2>1. CASE g = h
    BY <2>1, <1>1 DEF RequestOf
  <2>2. CASE g # h
    <3>1. hook'[g] = hook[g] /\ HookFacts(CallOf[g], asked[CallOf[g]], hook[g], used, granted)
      BY <2>2, <1>1 DEF GInv, HooksOK
    <3>2. hook[g].task \in used /\ granted[hook[g].task] = {CallOf[g]}
              => granted'[hook[g].task] = {CallOf[g]}
      BY <1>1, SpawnAssumption DEF GrantsStay
    <3>3. QED
      BY <3>1, <3>2 DEF HookFacts
  <2>3. QED
    BY <2>1, <2>2
<1>4. CreatedOK'
  <2> SUFFICES ASSUME NEW c \in CallIds, ran[c] = "created", NEW g \in HooksOf(c)
               PROVE  hook'[g].pc \in Done /\ hook'[g].says.action # "deny"
    BY <1>1 DEF CreatedOK, HooksOf
  <2>1. hook[g].pc \in Done /\ hook[g].says.action # "deny" /\ g \in Hooks
    BY DEF GInv, CreatedOK, HooksOf
  <2>2. QED
    BY <2>1, <1>1
<1>5. QED
  BY <1>2, <1>3, <1>4 DEF GInv

LEMMA HookFactsNow ==
    ASSUME GInv, NEW h \in Hooks
    PROVE  /\ HookFacts(CallOf[h], RequestOf(h), hook[h], used, granted)
           /\ hook[h] \in HookState /\ hook \in [Hooks -> HookState]
           /\ faults \in 0..MaxFaults /\ lost \in 0..MaxLost
BY DEF GInv, HooksOK, RequestOf, SpawnTypeOK

\* A step that leaves the ledger alone and adds at most one fault.
LEMMA QuietStep ==
    ASSUME GInv, Quiet, \/ faults < MaxFaults /\ faults' = faults + 1
                        \/ UNCHANGED faults,
           \/ lost < MaxLost /\ lost' = lost + 1
           \/ UNCHANGED lost
    PROVE  /\ Inv' /\ NoneAppears /\ GrantsStay /\ granted' = granted
           /\ faults' \in 0..MaxFaults /\ lost' \in 0..MaxLost
<1>1. Inv'
  BY StepInv DEF Quiet, ledgerVars, vars, GInv
<1>2. NoneAppears /\ GrantsStay /\ granted' = granted
  BY DEF Quiet, ledgerVars, NoneAppears, GrantsStay, Present
<1>3. faults' \in 0..MaxFaults /\ lost' \in 0..MaxLost
  BY SpawnAssumption DEF GInv, SpawnTypeOK
<1>4. QED
  BY <1>1, <1>2, <1>3

LEMMA HookTypes ==
    /\ NewHook \in HookState
    /\ \A a \in {"allow", "deny", "continue", "nothing"},
          c \in {"not_attempted", "unconfirmed", "unknown", "confirmed"} :
          Say(a, c) \in Answer /\ Say(a, c).action = a /\ Say(a, c).claim = c
BY DEF NewHook, HookState, Silent, Answer, Say, Causes, Stages

LEMMA SpeakingType ==
    ASSUME NEW answer \in Answer, NEW id \in TaskIds \cup {0}, NEW written \in BOOLEAN
    PROVE  /\ Speaking(answer, id, written) \in HookState
           /\ Speaking(answer, id, written).pc = "replying"
           /\ Speaking(answer, id, written).says = answer
           /\ Speaking(answer, id, written).task = id
           /\ Speaking(answer, id, written).wrote = written
BY HookTypes DEF Speaking, HookState

\* A Hook that answers without a confirmed claim.
LEMMA SpeaksSafe ==
    ASSUME GInv, Inv', NEW h \in Hooks, hook[h].pc \notin Done, RequestOf(h) # NoRequest,
           NEW answer \in Answer, answer.claim # "confirmed", Speaks(h, answer),
           hook[h].wrote => answer.action # "deny" /\ answer.claim = "unknown",
           Governed(RequestOf(h)) => answer.action \in {"allow", "continue", "deny"},
           NoneAppears, GrantsStay, Elsewhere, faults' \in 0..MaxFaults, lost' \in 0..MaxLost
    PROVE  GInv'
<1> DEFINE new == Speaking(answer, hook[h].task, hook[h].wrote)
<1>1. hook[h] \in HookState
  BY HookFactsNow
<1>2. hook[h].task \in TaskIds \cup {0} /\ hook[h].wrote \in BOOLEAN
  BY <1>1 DEF HookState
<1>3. hook' = [hook EXCEPT ![h] = new]
  BY DEF Speaks
<1>4. /\ new \in HookState /\ new.pc = "replying" /\ new.says = answer
      /\ new.wrote = hook[h].wrote
  BY <1>2, SpeakingType
<1> HIDE DEF new
<1>5. HookFacts(CallOf[h], RequestOf(h), new, used, granted')
  BY <1>4 DEF HookFacts, Working
<1>6. QED
  BY <1>3, <1>4, <1>5, HookMoves

\* A Hook that answers with the claim it knows to be written.
LEMMA ConfirmsSafe ==
    ASSUME GInv, Inv', NEW h \in Hooks, hook[h].pc \in Working, NEW id \in used,
           NEW written \in BOOLEAN,
           ClaimStands(h, id, written), granted'[id] = {CallOf[h]},
           NoneAppears, GrantsStay, Elsewhere, faults' \in 0..MaxFaults, lost' \in 0..MaxLost
    PROVE  GInv'
<1> DEFINE answer == Say("allow", "confirmed")
           new == Speaking(answer, id, written)
<1>1. id \in TaskIds
  BY DEF GInv, SpawnTypeOK
<1>2. answer \in Answer /\ answer.action = "allow" /\ answer.claim = "confirmed"
  BY HookTypes
<1> HIDE DEF answer
<1>3. new \in HookState /\ new.pc = "replying" /\ new.says = answer /\ new.task = id
  BY <1>1, <1>2, SpeakingType
<1>4. RequestOf(h) # NoRequest /\ hook[h].pc \notin Done
  BY HookFactsNow DEF HookFacts, Working, Done
<1>5. hook' = [hook EXCEPT ![h] = new]
  BY DEF answer, ClaimStands
<1> HIDE DEF new
<1>6. HookFacts(CallOf[h], RequestOf(h), new, used, granted')
  BY <1>2, <1>3, <1>4 DEF HookFacts, Working
<1>7. QED
  BY <1>3, <1>4, <1>5, <1>6, HookMoves

\* A Hook whose transaction raised: unless it wrote the claim, nothing is remembered.
LEMMA RaisesSafe ==
    ASSUME GInv, Inv', NEW h \in Hooks, hook[h].pc = "claiming",
           NEW cause \in Causes, NEW stage \in Stages, Raises(h, cause, stage),
           NoneAppears, GrantsStay, Elsewhere, faults' \in 0..MaxFaults, lost' \in 0..MaxLost
    PROVE  GInv'
<1> DEFINE new == [hook[h] EXCEPT !.pc = "recovering", !.cause = cause, !.stage = stage]
<1>1. hook[h] \in HookState /\ hook \in [Hooks -> HookState]
      /\ HookFacts(CallOf[h], RequestOf(h), hook[h], used, granted)
  BY HookFactsNow
<1>2. hook' = [hook EXCEPT ![h] = new]
  BY <1>1 DEF Raises
<1>3. /\ new \in HookState /\ new.pc = "recovering" /\ new.now = hook[h].now
      /\ new.wrote = hook[h].wrote
  BY <1>1 DEF HookState
<1> HIDE DEF new
<1>4. HookFacts(CallOf[h], RequestOf(h), new, used, granted')
  BY <1>1, <1>3 DEF HookFacts, Working
<1>5. QED
  BY <1>2, <1>3, <1>4, HookMoves DEF Done

-----------------------------------------------------------------------------
(* One lemma per step of a Hook *)

LEMMA StartHookSafe ==
    ASSUME GInv, NEW h \in Hooks, StartHook(h)
    PROVE  GInv'
<1> DEFINE r == RequestOf(h)
           code == Recognize(r)
<1>1. hook[h].pc = "idle" /\ r # NoRequest /\ Quiet /\ Elsewhere /\ UNCHANGED <<faults, lost>>
  BY DEF StartHook
<1>2. /\ Inv' /\ NoneAppears /\ GrantsStay /\ granted' = granted
      /\ faults' \in 0..MaxFaults /\ lost' \in 0..MaxLost
  BY <1>1, QuietStep
<1>3. /\ HookFacts(CallOf[h], r, hook[h], used, granted)
      /\ hook[h] \in HookState /\ hook \in [Hooks -> HookState]
  BY HookFactsNow
<1>4. CASE code = "governed"
  <2> DEFINE new == [hook[h] EXCEPT !.pc = "claiming", !.now = clock]
  <2>1. hook' = [hook EXCEPT ![h] = new]
    BY <1>3, <1>4 DEF StartHook
  <2>2. /\ new \in HookState /\ new.pc = "claiming" /\ new.now \in Time
        /\ new.wrote = hook[h].wrote
    BY <1>3, ClockIsTime DEF HookState
  <2> HIDE DEF new
  <2>3. HookFacts(CallOf[h], r, new, used, granted')
    BY <1>1, <1>3, <1>4, <2>2 DEF HookFacts, Working
  <2>4. QED
    BY <1>1, <1>2, <2>1, <2>2, <2>3, HookMoves DEF Done
<1>5. CASE code # "governed"
  <2>1. Speaks(h, Refusal(code))
    BY <1>5 DEF StartHook
  <2>2. r \in Request /\ code \in {"input_unavailable", "marker_conflict", "unmanaged",
                                   "session_unavailable", "call_id_unavailable"}
    BY <1>5, RequestType DEF GInv, Recognize
  <2>3. Governed(r) => code # "unmanaged"
    BY <2>2, GovernedIsManaged
  <2>4. /\ Refusal(code) \in Answer /\ Refusal(code).claim = "not_attempted"
        /\ code # "unmanaged" => Refusal(code).action \in {"allow", "deny"}
    BY <2>2, HookTypes DEF Refusal
  <2>5. ~hook[h].wrote
    BY <1>1, <1>3 DEF HookFacts
  <2> HIDE DEF r, code
  <2>6. Governed(RequestOf(h)) => Refusal(code).action \in {"allow", "continue", "deny"}
    BY <2>3, <2>4 DEF r
  <2>7. QED
    BY <1>1, <1>2, <2>1, <2>4, <2>5, <2>6, SpeaksSafe DEF Done, r
<1>6. QED
  BY <1>4, <1>5

\* The answer to an error, given without having learnt of a claim.
LEMMA ClassifyFacts ==
    ASSUME NEW code, NEW stage
    PROVE  /\ Classify(code, stage) \in Answer
           /\ Classify(code, stage).claim \in {"unknown", "unconfirmed"}
           /\ Classify(code, stage).action \in {"allow", "deny"}
           /\ stage = "commit" => /\ Classify(code, stage).action = "allow"
                                  /\ Classify(code, stage).claim = "unknown"
BY HookTypes DEF Classify

LEMMA ClassifySafe ==
    ASSUME GInv, NEW h \in Hooks, hook[h].pc = "recovering",
           Speaks(h, Classify(hook[h].cause, hook[h].stage)),
           Quiet, Elsewhere, UNCHANGED lost,
           \/ faults < MaxFaults /\ faults' = faults + 1
           \/ UNCHANGED faults
    PROVE  GInv'
<1> DEFINE answer == Classify(hook[h].cause, hook[h].stage)
<1>1. /\ Inv' /\ NoneAppears /\ GrantsStay
      /\ faults' \in 0..MaxFaults /\ lost' \in 0..MaxLost
  BY QuietStep
<1>2. HookFacts(CallOf[h], RequestOf(h), hook[h], used, granted)
  BY HookFactsNow
<1>3. /\ answer \in Answer /\ answer.claim \in {"unknown", "unconfirmed"}
      /\ answer.action \in {"allow", "deny"}
      /\ hook[h].stage = "commit" => answer.action = "allow" /\ answer.claim = "unknown"
  BY ClassifyFacts
<1> HIDE DEF answer
<1>4. hook[h].wrote => answer.action # "deny" /\ answer.claim = "unknown"
  BY <1>2, <1>3 DEF HookFacts
<1>5. RequestOf(h) # NoRequest /\ hook[h].pc \notin Done
  BY <1>2 DEF HookFacts, Done
<1>6. Speaks(h, answer)
  BY DEF answer
<1>7. QED
  BY <1>1, <1>3, <1>4, <1>5, <1>6, SpeaksSafe

LEMMA ReadBackSafe ==
    ASSUME GInv, NEW h \in Hooks, ReadBack(h)
    PROVE  GInv'
<1>1. hook[h].pc = "recovering" /\ Quiet /\ Elsewhere /\ UNCHANGED <<faults, lost>>
  BY DEF ReadBack
<1>2. CASE Speaks(h, Classify(hook[h].cause, hook[h].stage))
  BY <1>1, <1>2, ClassifySafe
<1>3. ASSUME NEW id \in TaskIds, FindByRef(tasks, QuotedRef(RequestOf(h))) = {id}, SameClaim(h, id),
             ClaimStands(h, id, hook[h].wrote)
      PROVE  GInv'
  <2>1. /\ Inv' /\ NoneAppears /\ GrantsStay /\ granted' = granted
        /\ faults' \in 0..MaxFaults /\ lost' \in 0..MaxLost
    BY <1>1, QuietStep
  <2>2. id \in used
    BY <1>3 DEF FindByRef, GInv, SpawnTypeOK
  <2>3. granted[id] = {CallOf[h]}
    BY <1>3 DEF SameClaim, HeldBy, GInv, Inv, HistoryInv, HistoryOK
  <2>4. hook[h].wrote \in BOOLEAN
    BY HookFactsNow DEF HookState
  <2>5. QED
    BY <1>1, <1>3, <2>1, <2>2, <2>3, <2>4, ConfirmsSafe DEF Working
<1>4. QED
  BY <1>2, <1>3 DEF ReadBack

\* The transaction itself: Inv' holds because it is a step of the ledger.
LEMMA TransactionFacts ==
    ASSUME GInv, NEW h \in Hooks, hook[h].pc = "claiming", NEW id \in TaskIds,
           NEW material \in {"same", "changed", "unavailable"}, MatchesOf(h) = {id},
           ClaimSpawn(id, CallOf[h], RequestOf(h).args, material, hook[h].now)
    PROVE  /\ Inv' /\ NoneAppears /\ GrantsStay
           /\ reply' = "done" => id \in used /\ granted'[id] = {CallOf[h]}
<1>1. Inv'
  BY ClaimIsLedgerStep, StepInv DEF GInv, Next
<1>2. CallOf[h] \in CallIds /\ Inv /\ Present(tasks) \subseteq used
  BY RequestType DEF GInv, SpawnTypeOK
<1>3. /\ NoneAppears /\ GrantsStay
      /\ reply' = "done" => id \in Present(tasks) /\ granted'[id] = {CallOf[h]}
  BY <1>2, ClaimEffect
<1>4. QED
  BY <1>1, <1>2, <1>3

LEMMA ClaimHookSafe ==
    ASSUME GInv, NEW h \in Hooks, Claim(h)
    PROVE  GInv'
<1> DEFINE args == RequestOf(h).args
<1>1. hook[h].pc = "claiming" /\ Elsewhere /\ UNCHANGED <<faults, lost>>
  BY DEF Claim, Transacts
<1>2. faults' \in 0..MaxFaults /\ lost' \in 0..MaxLost
  BY <1>1, HookFactsNow
<1>3. CASE ClaimUnknownRef(QuotedRef(RequestOf(h))) /\ Raises(h, "conflict", "validation")
  <2>1. Inv'
    BY <1>1, <1>3, UnknownRefIsLedgerStep, StepInv DEF GInv, Next
  <2>2. NoneAppears /\ GrantsStay
    BY <1>3, RefuseAddsNothing DEF ClaimUnknownRef
  <2>3. QED
    BY <1>1, <1>2, <1>3, <2>1, <2>2, RaisesSafe DEF Causes, Stages
<1>4. ASSUME NEW id \in TaskIds, NEW material \in {"same", "changed", "unavailable"},
             MatchesOf(h) = {id}, ClaimSpawn(id, CallOf[h], args, material, hook[h].now),
             IF reply' = "done" THEN ClaimStands(h, id, TRUE)
             ELSE Raises(h, Raised(reply', args)[1], Raised(reply', args)[2])
      PROVE  GInv'
  <2>1. /\ Inv' /\ NoneAppears /\ GrantsStay
        /\ reply' = "done" => id \in used /\ granted'[id] = {CallOf[h]}
    BY <1>1, <1>4, TransactionFacts
  <2>2. CASE reply' = "done"
    <3>1. ClaimStands(h, id, TRUE)
      BY <1>4, <2>2
    <3>2. QED
      BY <1>1, <1>2, <2>1, <2>2, <3>1, ConfirmsSafe DEF Working
  <2>3. CASE reply' # "done"
    <3>1. Raised(reply', args)[1] \in Causes /\ Raised(reply', args)[2] \in Stages
      BY DEF Raised, Causes, Stages
    <3>2. Raises(h, Raised(reply', args)[1], Raised(reply', args)[2])
      BY <1>4, <2>3
    <3>3. QED
      BY <1>1, <1>2, <2>1, <3>1, <3>2, RaisesSafe
  <2>4. QED
    BY <2>2, <2>3
<1>5. QED
  BY <1>3, <1>4 DEF Claim

LEMMA ClaimThenErrorSafe ==
    ASSUME GInv, NEW h \in Hooks, ClaimThenError(h)
    PROVE  GInv'
<1>1. PICK id \in TaskIds :
          /\ MatchesOf(h) = {id}
          /\ ClaimSpawn(id, CallOf[h], RequestOf(h).args, "same", hook[h].now)
          /\ hook' = [hook EXCEPT ![h].pc = "recovering", ![h].task = id, ![h].wrote = TRUE,
                                  ![h].cause = "state_unavailable", ![h].stage = "commit"]
  BY DEF ClaimThenError
<1>2. /\ hook[h].pc = "claiming" /\ faults < MaxFaults /\ faults' = faults + 1
      /\ Elsewhere /\ UNCHANGED lost
  BY DEF ClaimThenError, Transacts
<1>3. Inv' /\ NoneAppears /\ GrantsStay
  BY <1>1, <1>2, TransactionFacts
<1>4. faults' \in 0..MaxFaults /\ lost' \in 0..MaxLost
  BY <1>2, SpawnAssumption DEF GInv, SpawnTypeOK
<1> DEFINE new == [hook[h] EXCEPT !.pc = "recovering", !.task = id, !.wrote = TRUE,
                                  !.cause = "state_unavailable", !.stage = "commit"]
<1>5. /\ hook[h] \in HookState /\ hook \in [Hooks -> HookState]
      /\ HookFacts(CallOf[h], RequestOf(h), hook[h], used, granted)
  BY HookFactsNow
<1>6. hook' = [hook EXCEPT ![h] = new]
  BY <1>1, <1>5
<1>7. /\ new \in HookState /\ new.pc = "recovering" /\ new.now = hook[h].now
      /\ new.stage = "commit"
  BY <1>5 DEF HookState, Causes, Stages
<1> HIDE DEF new
<1>8. HookFacts(CallOf[h], RequestOf(h), new, used, granted')
  BY <1>2, <1>5, <1>7 DEF HookFacts, Working
<1>9. QED
  BY <1>2, <1>3, <1>4, <1>6, <1>7, <1>8, HookMoves DEF Done

LEMMA FaultSafe ==
    ASSUME GInv, NEW h \in Hooks,
           StoreMissing(h) \/ WriteFails(h) \/ TransactionFails(h) \/ ReadBackFails(h)
    PROVE  GInv'
<1>1. /\ Quiet /\ Elsewhere /\ UNCHANGED lost
      /\ faults < MaxFaults /\ faults' = faults + 1
  BY DEF StoreMissing, WriteFails, TransactionFails, ReadBackFails
<1>2. /\ Inv' /\ NoneAppears /\ GrantsStay
      /\ faults' \in 0..MaxFaults /\ lost' \in 0..MaxLost
  BY <1>1, QuietStep
<1>3. HookFacts(CallOf[h], RequestOf(h), hook[h], used, granted)
  BY HookFactsNow
<1>4. CASE StoreMissing(h)
  <2>1. hook[h].pc = "claiming" /\ Speaks(h, Say("allow", "not_attempted"))
    BY <1>4 DEF StoreMissing
  <2>2. /\ Say("allow", "not_attempted") \in Answer
        /\ Say("allow", "not_attempted").action = "allow"
        /\ Say("allow", "not_attempted").claim = "not_attempted"
    BY HookTypes
  <2>3. ~hook[h].wrote /\ RequestOf(h) # NoRequest
    BY <1>3, <2>1 DEF HookFacts
  <2>4. QED
    BY <1>1, <1>2, <2>1, <2>2, <2>3, SpeaksSafe DEF Done
<1>5. CASE WriteFails(h) \/ TransactionFails(h)
  <2>1. /\ hook[h].pc = "claiming"
        /\ \E cause \in Causes, stage \in Stages : Raises(h, cause, stage)
    BY <1>5 DEF WriteFails, TransactionFails, Transacts, Causes, Stages
  <2>2. QED
    BY <1>1, <1>2, <2>1, RaisesSafe
<1>6. CASE ReadBackFails(h)
  BY <1>1, <1>6, ClassifySafe DEF ReadBackFails
<1>7. QED
  BY <1>4, <1>5, <1>6

\* An id that is too long is denied before the transaction.
LEMMA LongCallIdSafe ==
    ASSUME GInv, NEW h \in Hooks, LongCallId(h)
    PROVE  GInv'
<1> DEFINE answer == Classify("conflict", "validation")
<1>1. /\ Quiet /\ Elsewhere /\ UNCHANGED <<faults, lost>>
      /\ hook[h].pc = "claiming" /\ Speaks(h, answer)
  BY DEF LongCallId
<1>2. Inv' /\ NoneAppears /\ GrantsStay /\ faults' \in 0..MaxFaults /\ lost' \in 0..MaxLost
  BY <1>1, QuietStep
<1>3. answer \in Answer /\ answer.action = "deny" /\ answer.claim = "unconfirmed"
  BY HookTypes DEF Classify
<1>4. ~hook[h].wrote /\ RequestOf(h) # NoRequest
  BY <1>1, HookFactsNow DEF HookFacts
<1> QED
  BY <1>1, <1>2, <1>3, <1>4, SpeaksSafe DEF Done

LEMMA EscapesSafe ==
    ASSUME GInv, NEW h \in Hooks, Escapes(h)
    PROVE  GInv'
<1> DEFINE answer == Say("continue", "unknown")
           new == [hook[h] EXCEPT !.pc = "answered", !.says = answer]
<1>1. /\ hook[h].pc \in {"idle", "replying"} /\ RequestOf(h) # NoRequest
      /\ Quiet /\ Elsewhere /\ UNCHANGED lost /\ faults < MaxFaults /\ faults' = faults + 1
  BY DEF Escapes
<1>2. /\ Inv' /\ NoneAppears /\ GrantsStay
      /\ faults' \in 0..MaxFaults /\ lost' \in 0..MaxLost
  BY <1>1, QuietStep
<1>3. hook[h] \in HookState /\ hook \in [Hooks -> HookState]
  BY HookFactsNow
<1>4. hook' = [hook EXCEPT ![h] = new]
  BY <1>3 DEF Escapes
<1>5. answer \in Answer /\ answer.action = "continue" /\ answer.claim = "unknown"
  BY HookTypes
<1> HIDE DEF answer
<1>6. new \in HookState /\ new.pc = "answered" /\ new.says = answer
  BY <1>3, <1>5 DEF HookState
<1> HIDE DEF new
<1>7. HookFacts(CallOf[h], RequestOf(h), new, used, granted')
  BY <1>1, <1>5, <1>6 DEF HookFacts, Working
<1>8. QED
  BY <1>1, <1>2, <1>4, <1>6, <1>7, HookMoves DEF Done

LEMMA DeliverSafe ==
    ASSUME GInv, NEW h \in Hooks, Deliver(h)
    PROVE  GInv'
<1> DEFINE new == [hook[h] EXCEPT !.pc = "answered"]
<1>1. hook[h].pc = "replying" /\ Quiet /\ Elsewhere /\ UNCHANGED <<faults, lost>>
  BY DEF Deliver
<1>2. /\ Inv' /\ NoneAppears /\ GrantsStay /\ granted' = granted
      /\ faults' \in 0..MaxFaults /\ lost' \in 0..MaxLost
  BY <1>1, QuietStep
<1>3. /\ hook[h] \in HookState /\ hook \in [Hooks -> HookState]
      /\ HookFacts(CallOf[h], RequestOf(h), hook[h], used, granted)
  BY HookFactsNow
<1>4. hook' = [hook EXCEPT ![h] = new]
  BY <1>3 DEF Deliver
<1>5. /\ new \in HookState /\ new.pc = "answered" /\ new.says = hook[h].says
      /\ new.task = hook[h].task /\ new.wrote = hook[h].wrote
  BY <1>3 DEF HookState
<1> HIDE DEF new
<1>6. HookFacts(CallOf[h], RequestOf(h), new, used, granted')
  BY <1>1, <1>2, <1>3, <1>5 DEF HookFacts, Working
<1>7. QED
  BY <1>1, <1>2, <1>4, <1>5, <1>6, HookMoves DEF Done

LEMMA LoseSafe ==
    ASSUME GInv, NEW h \in Hooks, Lose(h)
    PROVE  GInv'
<1> DEFINE new == [NewHook EXCEPT !.pc = "gone"]
<1>1. /\ hook[h].pc \notin Done /\ RequestOf(h) # NoRequest
      /\ Quiet /\ Elsewhere /\ UNCHANGED faults /\ lost < MaxLost /\ lost' = lost + 1
      /\ hook' = [hook EXCEPT ![h] = new]
  BY DEF Lose, Done
<1>2. /\ Inv' /\ NoneAppears /\ GrantsStay
      /\ faults' \in 0..MaxFaults /\ lost' \in 0..MaxLost
  BY <1>1, QuietStep
<1>3. new \in HookState /\ new.pc = "gone"
  BY HookTypes DEF HookState
<1> HIDE DEF new
<1>4. HookFacts(CallOf[h], RequestOf(h), new, used, granted')
  BY <1>1, <1>3 DEF HookFacts, Working
<1>5. QED
  BY <1>1, <1>2, <1>3, <1>4, HookMoves

-----------------------------------------------------------------------------
(* The platform and the parent *)

LEMMA TickSafe ==
    ASSUME GInv, Tick
    PROVE  GInv'
<1>1. Quiet /\ clock' = clock + 1 /\ clock < MaxTime
      /\ UNCHANGED <<used, asked, hook, ran, receipts, faults, lost>>
  BY DEF Tick
<1>2. Inv' /\ NoneAppears /\ granted' = granted
  BY <1>1, QuietStep
<1>3. clock' \in Time
  BY <1>1, LimitAssumption, ClockIsTime DEF Time
<1>4. SpawnTypeOK'
  BY <1>1, <1>2, <1>3 DEF GInv, SpawnTypeOK, NoneAppears
<1>5. HooksOK' /\ CreatedOK'
  BY <1>1, <1>2 DEF GInv, HooksOK, HookFacts, CreatedOK, HooksOf
<1>6. QED
  BY <1>2, <1>4, <1>5 DEF GInv

LEMMA NativeEndsSafe ==
    ASSUME GInv, NEW c \in CallIds, NativeEnds(c)
    PROVE  GInv'
<1>1. Quiet /\ UNCHANGED <<clock, used, asked, hook, faults, lost>>
  BY DEF NativeEnds
<1>2. Inv' /\ NoneAppears /\ granted' = granted
  BY <1>1, QuietStep
<1>3. receipts' \subseteq CallIds
  BY DEF NativeEnds, GInv, SpawnTypeOK
<1>4. ran' \in [CallIds -> {"pending", "created", "not_created"}]
  BY DEF NativeEnds, GInv, SpawnTypeOK
<1>5. SpawnTypeOK'
  BY <1>1, <1>2, <1>3, <1>4 DEF GInv, SpawnTypeOK, NoneAppears
<1>6. HooksOK'
  BY <1>1, <1>2 DEF GInv, HooksOK, HookFacts
<1>7. CreatedOK'
  <2> SUFFICES ASSUME NEW d \in CallIds, ran'[d] = "created", NEW h \in HooksOf(d)
               PROVE  hook[h].pc \in Done /\ hook[h].says.action # "deny"
    BY <1>1 DEF CreatedOK, HooksOf
  <2>1. CASE d = c /\ ran[c] # "created"
    <3>1. ran \in [CallIds -> {"pending", "created", "not_created"}]
      BY DEF GInv, SpawnTypeOK
    <3>2. \A g \in HooksOf(c) : hook[g].says.action # "deny"
      BY <2>1, <3>1 DEF NativeEnds
    <3>3. QED
      BY <2>1, <3>2 DEF NativeEnds, Done
  <2>2. CASE d # c \/ ran[c] = "created"
    <3>1. ran[d] = "created"
      BY <2>2 DEF NativeEnds, GInv, SpawnTypeOK
    <3>2. QED
      BY <3>1 DEF GInv, CreatedOK
  <2>3. QED
    BY <2>1, <2>2
<1>8. QED
  BY <1>2, <1>5, <1>6, <1>7 DEF GInv

\* A call without a request has Hooks that have not begun.
LEMMA AskSafe ==
    ASSUME GInv, NEW c \in CallIds, NEW request \in RequestsOf[c], Ask(c, request)
    PROVE  GInv'
<1>1. /\ Quiet /\ UNCHANGED <<clock, used, hook, ran, receipts, faults, lost>>
      /\ asked[c] = NoRequest /\ asked' = [asked EXCEPT ![c] = request]
      /\ asked \in [CallIds -> Request]
  BY DEF Ask, GInv, SpawnTypeOK
<1>2. Inv' /\ NoneAppears /\ granted' = granted
  BY <1>1, QuietStep
<1>3. asked' \in [CallIds -> Request]
  BY <1>1, RequestAssumption
<1>4. SpawnTypeOK'
  BY <1>1, <1>2, <1>3 DEF GInv, SpawnTypeOK, NoneAppears
<1>5. HooksOK'
  <2> SUFFICES ASSUME NEW h \in Hooks
               PROVE  HookFacts(CallOf[h], asked'[CallOf[h]], hook[h], used, granted)
    BY <1>1, <1>2 DEF HooksOK
  <2>1. HookFacts(CallOf[h], asked[CallOf[h]], hook[h], used, granted)
    BY DEF GInv, HooksOK
  <2>2. CASE CallOf[h] = c
    <3>1. hook[h].pc = "idle"
      BY <1>1, <2>1, <2>2 DEF HookFacts
    <3>2. QED
      BY <2>1, <3>1 DEF HookFacts, Working
  <2>3. CASE CallOf[h] # c
    BY <1>1, <2>1, <2>3, SpawnAssumption
  <2>4. QED
    BY <2>2, <2>3
<1>6. CreatedOK'
  BY <1>1 DEF GInv, CreatedOK, HooksOf
<1>7. QED
  BY <1>2, <1>4, <1>5, <1>6 DEF GInv

\* A prepare draws ids nobody knows.
LEMMA PrepareStepSafe ==
    ASSUME GInv, Prepare
    PROVE  GInv'
<1>1. PICK first \in TaskIds \ used, second \in TaskIds \ used :
          PrepareDispatch(first, second, clock) /\ used' = used \cup {first, second}
  BY DEF Prepare
<1>2. UNCHANGED <<clock, asked, hook, ran, receipts, faults, lost>>
  BY DEF Prepare, NoSpawnStep
<1>3. Inv'
  BY ParentIsLedgerStep, StepInv DEF GInv
<1>4. /\ Present(tasks)' \subseteq Present(tasks) \cup {first, second}
      /\ \A i \in TaskIds \ {first, second} : granted'[i] = granted[i]
  BY <1>1, PrepareEffect, ClockIsTime DEF GInv
<1>5. SpawnTypeOK'
  BY <1>1, <1>2, <1>4 DEF GInv, SpawnTypeOK
<1>6. \A i \in used : i \in used' /\ granted'[i] = granted[i]
  BY <1>1, <1>4 DEF GInv, SpawnTypeOK
<1>7. HooksOK'
  <2> SUFFICES ASSUME NEW h \in Hooks
               PROVE  HookFacts(CallOf[h], asked[CallOf[h]], hook[h], used', granted')
    BY <1>2 DEF HooksOK
  <2>1. QED
    BY <1>6 DEF GInv, HooksOK, HookFacts
<1>8. CreatedOK'
  BY <1>2 DEF GInv, CreatedOK, HooksOf
<1>9. QED
  BY <1>3, <1>5, <1>7, <1>8 DEF GInv

LEMMA ParentStepSafe ==
    ASSUME GInv, \/ \E c \in CallIds : ParentConfirms(c)
                 \/ \E id \in TaskIds : ParentSettles(id) \/ ParentCloses(id)
    PROVE  GInv'
<1>1. NoSpawnStep /\ UNCHANGED used
  BY DEF ParentConfirms, ParentSettles, ParentCloses
<1>2. Inv'
  BY ParentIsLedgerStep, StepInv DEF GInv
<1>3. NoneAppears /\ granted' = granted
  BY ConfirmEffect, DispatchResultEffect, CloseEffect
     DEF ParentConfirms, ParentSettles, ParentCloses, FindByRef, Present, GInv
<1>4. SpawnTypeOK'
  BY <1>1, <1>3 DEF GInv, SpawnTypeOK, NoneAppears, NoSpawnStep
<1>5. HooksOK' /\ CreatedOK'
  BY <1>1, <1>3 DEF GInv, HooksOK, HookFacts, CreatedOK, HooksOf, NoSpawnStep
<1>6. QED
  BY <1>2, <1>4, <1>5 DEF GInv

-----------------------------------------------------------------------------
(* The invariant holds of every reachable state *)

LEMMA GInitInv == GInit => GInv
<1> SUFFICES ASSUME GInit PROVE GInv
  OBVIOUS
<1>1. Inv
  BY InitInv DEF GInit
<1>2. SpawnTypeOK
  <2>1. NoRequest \in Request
    BY DEF NoRequest, Request, Names
  <2> QED
    BY <2>1, HookTypes, AbsentTask, SpawnAssumption, LimitAssumption
       DEF GInit, Init, SpawnTypeOK, Present, Time
<1>3. HooksOK /\ CreatedOK
  BY DEF GInit, HooksOK, HookFacts, CreatedOK, NewHook, Working
<1>4. QED
  BY <1>1, <1>2, <1>3 DEF GInv

LEMMA GStepInv == GInv /\ [GNext]_gvars => GInv'
<1> SUFFICES ASSUME GInv, [GNext]_gvars PROVE GInv'
  OBVIOUS
<1>1. CASE UNCHANGED gvars
  <2>1. Inv'
    BY LedgerStep, StepInv DEF GInv
  <2>2. UNCHANGED <<tasks, granted, clock, used, asked, hook, ran, receipts, faults, lost>>
    BY <1>1 DEF gvars
  <2>3. QED
    BY <2>1, <2>2 DEF GInv, SpawnTypeOK, HooksOK, HookFacts, CreatedOK, HooksOf, Present
<1>2. CASE Tick
  BY <1>2, TickSafe
<1>3. CASE Prepare
  BY <1>3, PrepareStepSafe
<1>4. ASSUME NEW h \in Hooks, HookStep(h) PROVE GInv'
  BY <1>4, StartHookSafe, LongCallIdSafe, FaultSafe, ClaimHookSafe, ClaimThenErrorSafe, ReadBackSafe, EscapesSafe,
     DeliverSafe DEF HookStep
<1>5. ASSUME NEW h \in Hooks, Lose(h) PROVE GInv'
  BY <1>5, LoseSafe
<1>6. ASSUME NEW c \in CallIds, NativeEnds(c) PROVE GInv'
  BY <1>6, NativeEndsSafe
<1>7. ASSUME NEW c \in CallIds, NEW r \in RequestsOf[c], Ask(c, r) PROVE GInv'
  BY <1>7, AskSafe
<1>8. CASE \/ \E c \in CallIds : ParentConfirms(c)
           \/ \E id \in TaskIds : ParentSettles(id) \/ ParentCloses(id)
  BY <1>8, ParentStepSafe
<1>9. QED
  BY <1>1, <1>2, <1>3, <1>4, <1>5, <1>6, <1>7, <1>8 DEF GNext

LEMMA GInvariance == GSpec => []GInv
BY GInitInv, GStepInv, PTL DEF GSpec

LEMMA GInvImplies ==
    GInv => /\ SpawnTypeOK /\ ConfirmedIsTrue /\ WrittenClaimIsNotDenied
            /\ NoSilentBypass
<1> SUFFICES ASSUME GInv
             PROVE  /\ ConfirmedIsTrue /\ WrittenClaimIsNotDenied
                    /\ NoSilentBypass
  BY DEF GInv
<1>1. ConfirmedIsTrue /\ WrittenClaimIsNotDenied
  BY DEF GInv, HooksOK, HookFacts, ConfirmedIsTrue, WrittenClaimIsNotDenied
<1>2. ASSUME NEW c \in CallIds, Governed(asked[c]), ran[c] = "created"
      PROVE  HoldsClaim(c) \/ \E h \in HooksOf(c) : Warned(h)
  <2>1. PICK h \in HooksOf(c) : TRUE
    BY SpawnAssumption DEF HooksOf
  <2>2. /\ h \in Hooks /\ CallOf[h] = c
        /\ hook[h].pc \in Done /\ hook[h].says.action # "deny"
        /\ HookFacts(c, asked[c], hook[h], used, granted)
    BY <1>2, <2>1 DEF GInv, CreatedOK, HooksOK, HooksOf
  <2>3. CASE hook[h].pc = "gone"
    BY <2>1, <2>3 DEF Warned
  <2>4. CASE hook[h].pc = "answered" /\ hook[h].says.claim # "confirmed"
    BY <1>2, <2>1, <2>2, <2>4 DEF Warned, HookFacts
  <2>5. CASE hook[h].pc = "answered" /\ hook[h].says.claim = "confirmed"
    <3>1. hook[h].task \in used /\ granted[hook[h].task] = {c}
      BY <2>2, <2>5 DEF HookFacts
    <3>2. QED
      BY <3>1 DEF HoldsClaim, GInv, SpawnTypeOK
  <2>6. QED
    BY <2>2, <2>3, <2>4, <2>5 DEF Done
<1>3. QED
  BY <1>1, <1>2 DEF NoSilentBypass

\* Hooks, platform and parent, faults included, only ever do what the ledger's own
\* specification allows: every theorem about SessionLedger holds of the whole.
THEOREM SpawnImplementsLedger == GSpec => ImplementsLedger
<1>1. GInit => Init
  BY DEF GInit
<1>2. GInv /\ [GNext]_gvars => [UNCHANGED vars \/ Next]_vars
  BY LedgerStep
<1>3. QED
  BY <1>1, <1>2, GInvariance, PTL DEF GSpec, ImplementsLedger

\* The variables of the Hook processes, the platform and the parent keep their types.
THEOREM SpawnTypeCorrect == GSpec => []SpawnTypeOK
BY GInvariance, GInvImplies, PTL

\* A Hook says "claim confirmed" only of a claim that was written, for its own call
\* and no other, whatever error came between the write and the answer.
THEOREM ConfirmedClaims == GSpec => []ConfirmedIsTrue
BY GInvariance, GInvImplies, PTL

\* A Hook whose transaction wrote the claim never denies its call.
THEOREM NoDenialAfterWrite == GSpec => []WrittenClaimIsNotDenied
BY GInvariance, GInvImplies, PTL

\* No agent is created by a governed call without a claim of that call or a warning
\* to the parent, however many Hooks serve the call and however many are lost.
THEOREM BypassIsHeard == GSpec => []NoSilentBypass
BY GInvariance, GInvImplies, PTL

-----------------------------------------------------------------------------
(* How late a claim may come *)

\* While a Hook is claiming, the time it read is at most its timeout ago.
InTime(h) ==
    hook[h].pc = "claiming" => hook[h].now <= clock /\ clock <= hook[h].now + HookTimeout
TimelyInv == GInv /\ \A h \in Hooks : InTime(h)

\* A Hook that is replaced by one in another state, and every other is left alone.
Moves(h) == \E new : hook' = [hook EXCEPT ![h] = new] /\ new.pc # "claiming"

LEMMA SpeakingMoves ==
    ASSUME NEW h \in Hooks, NEW answer, NEW id, NEW written,
           hook' = [hook EXCEPT ![h] = Speaking(answer, id, written)]
    PROVE  Moves(h)
<1>1. Speaking(answer, id, written).pc # "claiming"
  BY DEF Speaking, NewHook
<1>2. QED
  BY <1>1 DEF Moves

LEMMA SpeaksMoves ==
    ASSUME NEW h \in Hooks, NEW answer, Speaks(h, answer)
    PROVE  Moves(h)
BY SpeakingMoves DEF Speaks

LEMMA RaisesMoves ==
    ASSUME GInv, NEW h \in Hooks, NEW cause, NEW stage, Raises(h, cause, stage)
    PROVE  Moves(h)
<1> DEFINE new == [hook[h] EXCEPT !.pc = "recovering", !.cause = cause, !.stage = stage]
<1>1. hook[h] \in HookState /\ hook \in [Hooks -> HookState]
  BY HookFactsNow
<1>2. hook' = [hook EXCEPT ![h] = new]
  BY <1>1 DEF Raises
<1>3. new.pc # "claiming"
  BY <1>1 DEF HookState
<1>4. QED
  BY <1>2, <1>3 DEF Moves

\* Only the start of a Hook makes it one that is claiming.
LEMMA OtherStepsMove ==
    ASSUME GInv, NEW h \in Hooks, (HookStep(h) /\ ~StartHook(h)) \/ Lose(h)
    PROVE  Moves(h)
<1>1. hook[h] \in HookState /\ hook \in [Hooks -> HookState]
  BY HookFactsNow
<1>2. ASSUME NEW id, NEW written, ClaimStands(h, id, written) PROVE Moves(h)
  BY <1>2, SpeakingMoves DEF ClaimStands
<1>3. CASE Claim(h)
  BY <1>2, <1>3, RaisesMoves DEF Claim
<1>4. CASE StoreMissing(h) \/ LongCallId(h) \/ ReadBackFails(h)
  BY <1>4, SpeaksMoves DEF StoreMissing, LongCallId, ReadBackFails
<1>5. CASE WriteFails(h) \/ TransactionFails(h)
  BY <1>5, RaisesMoves DEF WriteFails, TransactionFails
<1>6. CASE ReadBack(h)
  BY <1>2, <1>6, SpeaksMoves DEF ReadBack
<1>7. CASE ClaimThenError(h)
  <2>1. PICK id \in TaskIds :
            hook' = [hook EXCEPT ![h].pc = "recovering", ![h].task = id, ![h].wrote = TRUE,
                                 ![h].cause = "state_unavailable", ![h].stage = "commit"]
    BY <1>7 DEF ClaimThenError
  <2> DEFINE new == [hook[h] EXCEPT !.pc = "recovering", !.task = id, !.wrote = TRUE,
                                    !.cause = "state_unavailable", !.stage = "commit"]
  <2>2. hook' = [hook EXCEPT ![h] = new]
    BY <1>1, <2>1
  <2>3. new.pc # "claiming"
    BY <1>1 DEF HookState
  <2>4. QED
    BY <2>2, <2>3 DEF Moves
<1>8. CASE Escapes(h)
  <2> DEFINE new == [hook[h] EXCEPT !.pc = "answered", !.says = Say("continue", "unknown")]
  <2>1. hook' = [hook EXCEPT ![h] = new]
    BY <1>1, <1>8 DEF Escapes
  <2>2. new.pc # "claiming"
    BY <1>1 DEF HookState
  <2>3. QED
    BY <2>1, <2>2 DEF Moves
<1>9. CASE Deliver(h)
  <2> DEFINE new == [hook[h] EXCEPT !.pc = "answered"]
  <2>1. hook' = [hook EXCEPT ![h] = new]
    BY <1>1, <1>9 DEF Deliver
  <2>2. new.pc # "claiming"
    BY <1>1 DEF HookState
  <2>3. QED
    BY <2>1, <2>2 DEF Moves
<1>10. CASE Lose(h)
  <2>1. [NewHook EXCEPT !.pc = "gone"].pc # "claiming"
    BY DEF NewHook
  <2>2. QED
    BY <1>10, <2>1 DEF Lose, Moves
<1>11. QED
  BY <1>3, <1>4, <1>5, <1>6, <1>7, <1>8, <1>9, <1>10 DEF HookStep

LEMMA TimelyStep == TimelyInv /\ [GNext]_gvars => TimelyInv'
<1> SUFFICES ASSUME TimelyInv, [GNext]_gvars PROVE TimelyInv'
  OBVIOUS
<1>1. GInv /\ GInv'
  BY GStepInv DEF TimelyInv
<1>2. clock \in Nat /\ HookTimeout \in Nat
  BY <1>1, ClockIsTime, SpawnAssumption, LimitAssumption DEF Time
<1>3. hook \in [Hooks -> HookState] /\ hook' \in [Hooks -> HookState]
  BY <1>1 DEF GInv, SpawnTypeOK
<1>4. ASSUME NEW h \in Hooks, hook'[h].pc = "claiming" PROVE InTime(h)'
  <2>1. CASE UNCHANGED gvars
    BY <2>1, <1>4 DEF gvars, TimelyInv, InTime
  <2>2. CASE Tick
    <3>1. hook[h].pc = "claiming" /\ clock' = clock + 1 /\ hook' = hook
      BY <2>2, <1>4 DEF Tick
    <3>2. hook[h].now \in Time
      BY <1>1, <3>1 DEF GInv, HooksOK, HookFacts, Working
    <3>3. clock - hook[h].now < HookTimeout
      BY <2>2, <3>1, <3>2, LimitAssumption DEF Tick, Waiting, Time, NoTime
    <3>4. QED
      BY <1>2, <3>1, <3>2, <3>3, LimitAssumption DEF TimelyInv, InTime, Time
  <2>3. CASE \E g \in Hooks : StartHook(g)
    <3>1. PICK g \in Hooks : StartHook(g)
      BY <2>3
    <3>2. clock' = clock
      BY <3>1 DEF StartHook, Elsewhere
    <3>3. CASE g = h
      <4>1. ~\E answer : Speaks(h, answer)
        BY <1>3, <1>4, SpeaksMoves DEF Moves
      <4>2. hook' = [hook EXCEPT ![h].pc = "claiming", ![h].now = clock]
        BY <3>1, <3>3, <4>1 DEF StartHook
      <4>3. QED
        BY <1>2, <1>3, <3>2, <4>2 DEF InTime, HookState
    <3>4. CASE g # h
      <4>1. hook'[h] = hook[h]
        BY <1>3, <3>1, <3>4 DEF StartHook, Speaks
      <4>2. QED
        BY <1>4, <3>2, <4>1 DEF TimelyInv, InTime
    <3>5. QED
      BY <3>3, <3>4
  <2>4. CASE \E g \in Hooks : (HookStep(g) /\ ~StartHook(g)) \/ Lose(g)
    <3>1. PICK g \in Hooks : (HookStep(g) /\ ~StartHook(g)) \/ Lose(g)
      BY <2>4
    <3>2. clock' = clock
      BY <3>1 DEF HookStep, StoreMissing, LongCallId, Claim, ClaimThenError, WriteFails, TransactionFails,
         ReadBack, ReadBackFails, Escapes, Deliver, Lose, Elsewhere
    <3>3. hook'[g].pc # "claiming" /\ (g # h => hook'[h] = hook[h])
      BY <1>1, <1>3, <3>1, OtherStepsMove DEF Moves
    <3>4. QED
      BY <1>4, <3>2, <3>3 DEF TimelyInv, InTime
  <2>5. CASE UNCHANGED <<hook, clock>>
    BY <2>5, <1>4 DEF TimelyInv, InTime
  <2>6. QED
    BY <2>1, <2>2, <2>3, <2>4, <2>5 DEF GNext, Prepare, NativeEnds, Ask, ParentConfirms, ParentSettles,
       ParentCloses, NoSpawnStep
<1>5. QED
  BY <1>1, <1>4 DEF TimelyInv, InTime

LEMMA TimelyInvariance == GSpec => []TimelyInv
<1>1. GInit => TimelyInv
  BY GInitInv DEF GInit, NewHook, TimelyInv, InTime
<1>2. QED
  BY <1>1, TimelyStep, PTL DEF GSpec

\* No record becomes a claimed one.
NothingClaimed ==
    \A i \in TaskIds : tasks'[i].phase = "claimed" => tasks[i].phase = "claimed"

LEMMA StoreClaimsNothing ==
    ASSUME NEW tt, NEW admission, Store(tt, admission),
           \A i \in TaskIds : tt[i].phase = "claimed" => tasks[i].phase = "claimed"
    PROVE  NothingClaimed
BY DEF Store, NothingClaimed

LEMMA UpdateClaimsNothing ==
    ASSUME Inv, NEW id \in TaskIds, NEW u, u = tasks[id] \/ u.phase # "claimed", Update(id, u)
    PROVE  NothingClaimed
<1> DEFINE uu == [tasks EXCEPT ![id] = u]
<1>1. uu[id] = u /\ \A i \in TaskIds : i # id => uu[i] = tasks[i]
  BY InvFacts DEF Ledger
<1>2. Store(Prune(uu, "existing"), "existing")
  BY DEF Update
<1> HIDE DEF uu
<1>3. \A i \in TaskIds : Prune(uu, "existing")[i].phase = "claimed" => tasks[i].phase = "claimed"
  BY <1>1, AbsentTask DEF Prune, Without
<1>4. QED
  BY <1>2, <1>3, StoreClaimsNothing

LEMMA ReplacedClaimsNothing ==
    ASSUME Inv, NEW id \in TaskIds, NEW u, u.phase # "claimed",
           Store([Pruned EXCEPT ![id] = u], "existing")
    PROVE  NothingClaimed
<1> DEFINE uu == [Pruned EXCEPT ![id] = u]
<1>1. uu[id] = u /\ \A i \in TaskIds : i # id => uu[i] = Pruned[i]
  BY PrunedFacts DEF Ledger
<1> HIDE DEF uu
<1>2. \A i \in TaskIds : uu[i].phase = "claimed" => tasks[i].phase = "claimed"
  BY <1>1, PrunedFacts, AbsentTask
<1>3. Store(uu, "existing")
  BY DEF uu
<1>4. QED
  BY <1>2, <1>3, StoreClaimsNothing

LEMMA PrunedClaimsNothing ==
    ASSUME Inv, Store(Pruned, "existing")
    PROVE  NothingClaimed
BY PrunedFacts, AbsentTask, StoreClaimsNothing

\* What reconcile and close write is not a claimed record.
LEMMA WrittenPhases ==
    ASSUME NEW t \in Task
    PROVE  /\ \A code, now : EnterReconcile(t, code, now).phase = "reconcile"
           /\ \A reason, now : CloseRecord(t, reason, now).phase = "closed"
           /\ \A target, now :
                 [CommonFields(t) EXCEPT !.phase = "bound", !.updated = now, !.target = target].phase
                     = "bound"
<1>1. \A target, now :
          [CommonFields(t) EXCEPT !.phase = "bound", !.updated = now, !.target = target].phase = "bound"
  BY CommonFieldsType DEF Task
<1>2. QED
  BY <1>1 DEF EnterReconcile, CloseRecord, Task

\* Only a claim makes a prepared record a claimed one, and only before it expires.
LEMMA ClaimInTime ==
    ASSUME Inv, NEW id \in TaskIds, NEW call \in CallIds, NEW args, NEW material, NEW now \in Time,
           ClaimSpawn(id, call, args, material, now),
           NEW i \in TaskIds, tasks[i].phase = "prepared", tasks'[i].phase = "claimed"
    PROVE  now < tasks[i].expires
<1> DEFINE t == Pruned[id]
<1>1. CASE UNCHANGED tasks \/ Store(Pruned, "existing")
  BY <1>1, PrunedClaimsNothing DEF NothingClaimed
<1>2. CASE /\ t.phase = "prepared" /\ ~Expired(t, now)
           /\ \E u : Store([Pruned EXCEPT ![id] = u], "existing")
  <2>1. PICK u : Store([Pruned EXCEPT ![id] = u], "existing")
    BY <1>2
  <2>2. CASE i = id
    <3>1. t = tasks[i]
      BY <1>2, <2>2, PrunedFacts, AbsentTask
    <3>2. tasks[i].expires \in Int /\ now \in Int
      BY InvFacts, LimitAssumption DEF Ledger, Task, Time, NoTime
    <3>3. QED
      BY <1>2, <3>1, <3>2 DEF Expired
  <2>3. CASE i # id
    <3>1. [Pruned EXCEPT ![id] = u][i] = Pruned[i]
      BY <2>3, PrunedFacts DEF Ledger
    <3>2. tasks'[i] = Pruned[i] \/ tasks'[i] = tasks[i]
      BY <2>1, <3>1 DEF Store
    <3>3. QED
      BY <3>2, PrunedFacts, AbsentTask
  <2>4. QED
    BY <2>2, <2>3
<1>3. QED
  BY <1>1, <1>2 DEF ClaimSpawn, Grant, Refuse

LEMMA ConfirmClaimsNothing ==
    ASSUME Inv, NEW id \in TaskIds, NEW ref, NEW target, NEW now,
           ConfirmDispatch(id, ref, target, now)
    PROVE  NothingClaimed
<1> DEFINE Replaced == \E u : u.phase # "claimed" /\ Store([Pruned EXCEPT ![id] = u], "existing")
<1>1. Pruned[id] \in Task /\ Pruned \in Ledger
  BY PrunedFacts DEF Ledger
<1>2. CASE UNCHANGED tasks \/ Store(Pruned, "existing")
  BY <1>2, PrunedClaimsNothing DEF NothingClaimed
<1>3. CASE Replaced
  BY <1>3, ReplacedClaimsNothing
<1>4. ASSUME Bind(id, target, now) PROVE Replaced
  <2> DEFINE u == [CommonFields(Pruned[id]) EXCEPT !.phase = "bound", !.updated = now, !.target = target]
  <2>1. u.phase # "claimed"
    BY <1>1, WrittenPhases
  <2>2. Store([Pruned EXCEPT ![id] = u], "existing")
    BY <1>4 DEF Bind
  <2> HIDE DEF u
  <2>3. QED
    BY <2>1, <2>2
<1>5. ASSUME NEW code, Reconcile(id, code, now) PROVE Replaced
  <2> DEFINE u == EnterReconcile(Pruned[id], code, now)
  <2>1. u.phase # "claimed"
    BY <1>1, WrittenPhases
  <2>2. Store([Pruned EXCEPT ![id] = u], "existing")
    BY <1>5 DEF Reconcile
  <2> HIDE DEF u
  <2>3. QED
    BY <2>1, <2>2
<1> HIDE DEF Replaced
<1>6. QED
  BY <1>2, <1>3, <1>4, <1>5 DEF ConfirmDispatch, Tell, Refuse

LEMMA SettleClaimsNothing ==
    ASSUME Inv, NEW id \in TaskIds, NEW ref, NEW result, NEW reason, NEW now,
           RecordDispatchResult(id, ref, result, now) \/ CloseTask(id, ref, reason, now)
    PROVE  NothingClaimed
<1>1. tasks[id] \in Task /\ CommonFields(tasks[id]) \in Task
  BY InvFacts, CommonFieldsType DEF Ledger
<1>2. CASE UNCHANGED tasks
  BY <1>2 DEF NothingClaimed
<1>3. CASE \E u : (u = tasks[id] \/ u.phase # "claimed") /\ Update(id, u)
  BY <1>3, UpdateClaimsNothing
<1>4. \A code : EnterReconcile(CommonFields(tasks[id]), code, now).phase # "claimed"
  BY <1>1, WrittenPhases
<1>5. \A why : /\ CloseRecord(CommonFields(tasks[id]), why, now).phase # "claimed"
               /\ CloseRecord(tasks[id], why, now).phase # "claimed"
  BY <1>1, WrittenPhases
<1>6. QED
  BY <1>2, <1>3, <1>4, <1>5 DEF RecordDispatchResult, CloseTask, Replay, Refuse

LEMMA PrepareClaimsNothing ==
    ASSUME Inv, NEW first \in TaskIds, NEW second \in TaskIds, NEW now,
           PrepareDispatch(first, second, now)
    PROVE  NothingClaimed
<1> DEFINE id == IF Usable(first) THEN first ELSE second
           u == InitialTaskRecord(SelectTaskRef(id), now)
           tt == [tasks EXCEPT ![id] = u]
<1>1. CASE Refuse("conflict")
  BY <1>1 DEF Refuse, NothingClaimed
<1>2. CASE Store(Prune(tt, "new_task"), "new_task")
  <2>1. u.phase = "prepared"
    BY DEF InitialTaskRecord, Absent
  <2>2. id \in TaskIds
    OBVIOUS
  <2> HIDE DEF id, u
  <2>3. tt[id] = u /\ \A i \in TaskIds : i # id => tt[i] = tasks[i]
    BY <2>2, InvFacts DEF Ledger
  <2> HIDE DEF tt
  <2>4. \A i \in TaskIds : Prune(tt, "new_task")[i].phase = "claimed" => tasks[i].phase = "claimed"
    BY <2>1, <2>3, AbsentTask DEF Prune, Without
  <2>5. QED
    BY <1>2, <2>4, StoreClaimsNothing
<1>3. QED
  BY <1>1, <1>2 DEF PrepareDispatch

\* The step property, for one step.
Late == \A id \in TaskIds :
    tasks[id].phase = "prepared" /\ tasks'[id].phase = "claimed" =>
        clock < tasks[id].expires + HookTimeout

LEMMA LateStep == TimelyInv /\ [GNext]_gvars => [Late]_gvars
<1> SUFFICES ASSUME TimelyInv, GNext PROVE Late
  OBVIOUS
<1>1. Inv /\ GInv
  BY DEF TimelyInv, GInv
<1>2. CASE NothingClaimed
  BY <1>2 DEF NothingClaimed, Late
<1>3. ASSUME NEW h \in Hooks, Claim(h) \/ ClaimThenError(h) PROVE Late
  <2> SUFFICES ASSUME NEW i \in TaskIds, tasks[i].phase = "prepared", tasks'[i].phase = "claimed"
               PROVE  clock < tasks[i].expires + HookTimeout
    BY DEF Late
  <2>1. hook[h].pc = "claiming" /\ hook[h].now \in Time /\ CallOf[h] \in CallIds
    BY <1>1, <1>3, RequestType DEF Claim, ClaimThenError, Transacts, GInv, HooksOK, HookFacts, Working
  <2>2. \E id \in TaskIds : \E material :
            ClaimSpawn(id, CallOf[h], RequestOf(h).args, material, hook[h].now)
    BY <1>3 DEF Claim, ClaimThenError, ClaimUnknownRef, Refuse
  <2>3. hook[h].now < tasks[i].expires
    BY <1>1, <2>1, <2>2, ClaimInTime
  <2>4. clock <= hook[h].now + HookTimeout
    BY <2>1 DEF TimelyInv, InTime
  <2>5. clock \in Int /\ hook[h].now \in Int /\ HookTimeout \in Int /\ tasks[i].expires \in Int
    BY <1>1, <2>1, ClockIsTime, SpawnAssumption, InvFacts, LimitAssumption
       DEF Time, Ledger, Task, NoTime
  <2>6. QED
    BY <2>3, <2>4, <2>5
<1>4. CASE Prepare
  BY <1>1, <1>2, <1>4, PrepareClaimsNothing DEF Prepare
<1>5. CASE \/ \E c \in CallIds : ParentConfirms(c)
           \/ \E id \in TaskIds : ParentSettles(id) \/ ParentCloses(id)
  BY <1>1, <1>2, <1>5, ConfirmClaimsNothing, SettleClaimsNothing
     DEF ParentConfirms, ParentSettles, ParentCloses, FindByRef, Present
<1>6. CASE UNCHANGED tasks
  BY <1>6 DEF Late
<1>7. QED
  BY <1>3, <1>4, <1>5, <1>6 DEF GNext, HookStep, StartHook, StoreMissing, LongCallId, WriteFails, TransactionFails,
     ReadBack, ReadBackFails, Escapes, Deliver, Lose, Tick, NativeEnds, Ask, Quiet, ledgerVars

\* A claim is granted at most the platform's timeout after its capability expired, even
\* though the Hook judges the expiry with a time it read before it waited for the lock.
THEOREM LateByTimeoutAtMost == GSpec => LateClaimBounded
<1>1. [Late]_gvars => [\A id \in TaskIds :
         tasks[id].phase = "prepared" /\ tasks'[id].phase = "claimed" =>
            clock < tasks[id].expires + HookTimeout]_gvars
  BY DEF Late
<1>2. QED
  BY <1>1, TimelyInvariance, LateStep, PTL DEF GSpec, LateClaimBounded
=============================================================================
