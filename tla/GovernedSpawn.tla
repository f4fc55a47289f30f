----------------------------- MODULE GovernedSpawn -----------------------------
(***************************************************************************)
(* A governed native spawn from end to end: the parent prepares a task and *)
(* makes native calls, the platform runs the PreToolUse Hook of each call  *)
(* (scripts/governance_hook.py), the Hook recognises the call, claims the  *)
(* prepared capability (claim_spawn in governance_dispatch.py), reads back *)
(* after a failure and turns what it knows into allow or deny              *)
(* (governance_hook_diagnostics.py, the outer boundary in                  *)
(* governance_cli.py); the platform runs the call or blocks it, and the    *)
(* parent acts on the receipt.                                             *)
(*                                                                         *)
(* Every step that changes the ledger is the operation of module           *)
(* SessionLedger, with the time this process read before it waited for the *)
(* lock.  The platform and the parent are not the plugin's: they are       *)
(* modelled from what the Hook registration, the diagnostics and the       *)
(* operations expect of them.                                              *)
(***************************************************************************)
EXTENDS SessionLedger

CONSTANTS
    Hooks,        \* Hook processes
    CallOf,       \* the native call each of them is run for; two may serve one call
    AgentOf,      \* the agent a native call creates if it runs
    RequestsOf,   \* what each native call may look like
    HookTimeout,  \* seconds after which the platform kills a Hook
    MaxFaults,    \* bound: faults of the store or the Hook's own code
    MaxLost       \* bound: Hooks that are killed, never run, or not heard

ASSUME SpawnAssumption ==
    /\ \A h \in Hooks : CallOf[h] \in CallIds
    /\ \A c \in CallIds : AgentOf[c] \in Targets /\ \E h \in Hooks : CallOf[h] = c
    /\ 0 \notin TaskIds
    /\ HookTimeout \in Nat /\ MaxFaults \in Nat /\ MaxLost \in Nat

VARIABLES
    clock,    \* the time
    used,     \* the task ids drawn so far
    asked,    \* the request each native call was made with
    hook,     \* the Hook processes
    ran,      \* what became of each native call
    receipts, \* the calls whose result the parent holds
    faults, lost

ledgerVars == <<tasks, reply, granted, told>>
spawnVars == <<clock, used, asked, hook, ran, receipts, faults, lost>>
gvars == <<tasks, reply, granted, told, clock, used, asked, hook, ran, receipts, faults, lost>>

-----------------------------------------------------------------------------
(* Recognition *)

\* A native call: is its input an object, what its task_name is (a governed name
\* stands for the ref in it, "plain" for any other string, "number" for what is
\* no string), the governed name its message is marked with, whether session and
\* call id came along (an id of more than 1024 characters is "long"), and how its
\* parameters compare with the prepared ones.
Names == Refs \cup {"plain"}
Request ==
    [object : BOOLEAN, name : Names \cup {None, "number"}, marker : Refs \cup {None, "broken"},
     session : BOOLEAN, id : {"given", "missing", "long"},
     args : {"exact", "changed", "unreadable"}]
NoRequest == [object |-> FALSE, name |-> None, marker |-> None,
              session |-> FALSE, id |-> "missing", args |-> "unreadable"]

ASSUME RequestAssumption ==
    RequestsOf \in [CallIds -> SUBSET Request] /\ {"plain", "number", "broken"} \cap Refs = {}

\* name and marker contradict each other, or the marker names nothing.
Contradicts(r) ==
    r.marker = "broken" \/ (r.name # None /\ r.marker # None /\ r.name # r.marker)

QuotedRef(r) == IF r.name \in Refs THEN r.name ELSE r.marker

\* What the Hook makes of a call before it touches the ledger.
Mut_MarkerOverlooked(r) ==
    CASE ~r.object \/ r.name = "number" -> "input_unavailable"
      [] r.object /\ r.name \in {None, "plain"} -> "unmanaged"
      [] OTHER -> "governed"
Recognize(r) ==
    CASE ~r.object \/ r.name = "number" -> "input_unavailable"
      [] r.object /\ r.name # "number" /\ Contradicts(r) -> "marker_conflict"
      [] r.object /\ r.name \in {None, "plain"} /\ r.marker = None -> "unmanaged"
      [] OTHER -> IF ~r.session THEN "session_unavailable"
                  ELSE IF r.id = "missing" THEN "call_id_unavailable" ELSE "governed"

\* The call bears the mark of governance, whatever the Hook makes of it.
Governed(r) == r.name \in Refs \/ r.marker # None

-----------------------------------------------------------------------------
(* What the Hook says *)

Causes == {"none", "input_unavailable", "conflict", "expired", "material_unavailable",
           "state_unavailable", "internal_error"}
Stages == {"state", "validation", "material", "commit"}
\* The action: a decision with its diagnostic, the outer boundary's message, or no
\* output at all.
Answer == [action : {"allow", "deny", "continue", "nothing"},
           claim : {"not_attempted", "unconfirmed", "unknown", "confirmed"}]

Silent == [action |-> "nothing", claim |-> "unknown"]
Say(action, claim) == [action |-> action, claim |-> claim]

\* The answer to a call that never reaches the ledger.
Refusal(code) ==
    CASE code = "unmanaged" -> Say("nothing", "not_attempted")
      [] code = "marker_conflict" -> Say("deny", "not_attempted")
      [] OTHER -> Say("allow", "not_attempted")

\* classify_failure: only a disagreement that was established denies the call, and
\* an error after the transaction began to write leaves the claim unknown.
Mut_UncertainDenies(code, stage) ==
    IF stage = "commit" \/ code \in {"conflict", "expired"} THEN Say("deny", "unconfirmed")
    ELSE Say("allow", "unconfirmed")
Classify(code, stage) ==
    IF stage = "commit" THEN Say("allow", "unknown")
    ELSE IF code \in {"conflict", "expired"} THEN Say("deny", "unconfirmed")
    ELSE Say("allow", "unconfirmed")

\* Where a transaction that ends with this reply raises, and with which code.
\* A refusal of the store comes after the callback set its stage to commit.
Raised(why, args) ==
    CASE why = "unavailable" /\ args # "exact" -> <<"input_unavailable", "validation">>
      [] why = "unavailable" /\ args = "exact" -> <<"material_unavailable", "material">>
      [] why \in {"conflict", "expired"} -> <<why, "validation">>
      [] OTHER -> <<"state_unavailable", "commit">>
-----------------------------------------------------------------------------
(* The Hook process *)

HookState ==
    [pc : {"idle", "claiming", "recovering", "replying", "answered", "gone"},
     now : Time \cup {NoTime}, task : TaskIds \cup {0}, wrote : BOOLEAN,
     cause : Causes, stage : Stages, says : Answer]
NewHook ==
    [pc |-> "idle", now |-> NoTime, task |-> 0, wrote |-> FALSE,
     cause |-> "none", stage |-> "state", says |-> Silent]

RequestOf(h) == asked[CallOf[h]]
MatchesOf(h) == FindByRef(Pruned, QuotedRef(RequestOf(h)))

\* The process has its answer; until it is delivered nobody has heard it.
Speaking(answer, id, written) ==
    [NewHook EXCEPT !.pc = "replying", !.says = answer, !.task = id, !.wrote = written]
Speaks(h, answer) ==
    hook' = [hook EXCEPT ![h] = Speaking(answer, hook[h].task, hook[h].wrote)]
ClaimStands(h, id, written) ==
    hook' = [hook EXCEPT ![h] = Speaking(Say("allow", "confirmed"), id, written)]
\* claim_spawn has caught an exception and reads the ledger back.
Raises(h, cause, stage) ==
    hook' = [hook EXCEPT ![h].pc = "recovering", ![h].cause = cause, ![h].stage = stage]

Quiet == UNCHANGED ledgerVars
Elsewhere == UNCHANGED <<clock, used, asked, ran, receipts>>

\* The Hook recognises the call and, if it is governed, reads the clock.
StartHook(h) ==
    /\ hook[h].pc = "idle" /\ RequestOf(h) # NoRequest
    /\ LET code == Recognize(RequestOf(h)) IN
       IF code = "governed"
       THEN hook' = [hook EXCEPT ![h].pc = "claiming", ![h].now = clock]
       ELSE Speaks(h, Refusal(code))
    /\ Quiet /\ Elsewhere /\ UNCHANGED <<faults, lost>>

\* The data directory cannot be created: nothing was attempted.
StoreMissing(h) ==
    /\ hook[h].pc = "claiming" /\ faults < MaxFaults
    /\ Speaks(h, Say("allow", "not_attempted"))
    /\ faults' = faults + 1
    /\ Quiet /\ Elsewhere /\ UNCHANGED lost

\* claim_spawn refuses an id that is too long: a conflict, before the transaction
\* and its readback.
LongCallId(h) ==
    /\ hook[h].pc = "claiming" /\ RequestOf(h).id = "long"
    /\ Speaks(h, Classify("conflict", "validation"))
    /\ Quiet /\ Elsewhere /\ UNCHANGED <<faults, lost>>

Transacts(h) == hook[h].pc = "claiming" /\ RequestOf(h).id # "long"

\* The transaction.  When it ends without an error the claim stands.
Claim(h) ==
    /\ Transacts(h)
    /\ \/ /\ ClaimUnknownRef(QuotedRef(RequestOf(h)))
          /\ Raises(h, "conflict", "validation")
       \/ \E id \in TaskIds, material \in {"same", "changed", "unavailable"} :
             /\ MatchesOf(h) = {id}
             /\ ClaimSpawn(id, CallOf[h], RequestOf(h).args, material, hook[h].now)
             /\ IF reply' = "done" THEN ClaimStands(h, id, TRUE)
                ELSE Raises(h, Raised(reply', RequestOf(h).args)[1],
                               Raised(reply', RequestOf(h).args)[2])
    /\ Elsewhere /\ UNCHANGED <<faults, lost>>

\* The claim is written, then an error is raised.
ClaimThenError(h) ==
    /\ Transacts(h) /\ faults < MaxFaults
    /\ \E id \in TaskIds :
          /\ MatchesOf(h) = {id}
          /\ ClaimSpawn(id, CallOf[h], RequestOf(h).args, "same", hook[h].now)
          /\ reply' = "done"
          /\ hook' = [hook EXCEPT ![h].pc = "recovering", ![h].task = id, ![h].wrote = TRUE,
                                  ![h].cause = "state_unavailable", ![h].stage = "commit"]
    /\ faults' = faults + 1
    /\ Elsewhere /\ UNCHANGED lost

\* The callback has gone through, and the write fails before the replace.
Claimable(id, call, args, now) ==
    /\ args = "exact"
    /\ \/ HeldBy(Pruned[id], call)
       \/ Pruned[id].phase = "prepared" /\ ~Expired(Pruned[id], now)
WriteFails(h) ==
    /\ Transacts(h) /\ faults < MaxFaults
    /\ \E id \in TaskIds :
          MatchesOf(h) = {id} /\ Claimable(id, CallOf[h], RequestOf(h).args, hook[h].now)
    /\ Raises(h, "state_unavailable", "commit")
    /\ faults' = faults + 1
    /\ Quiet /\ Elsewhere /\ UNCHANGED lost

\* The ledger cannot be locked or read, or the code itself fails.
TransactionFails(h) ==
    /\ Transacts(h) /\ faults < MaxFaults
    /\ \/ Raises(h, "state_unavailable", "state")
       \/ Raises(h, "internal_error", "validation")
    /\ faults' = faults + 1
    /\ Quiet /\ Elsewhere /\ UNCHANGED lost

\* The readback: only the very same claim counts as committed.
Mut_AnyClaimCounts(h, id) == tasks[id].phase = "claimed"
SameClaim(h, id) == HeldBy(tasks[id], CallOf[h]) /\ RequestOf(h).args = "exact"
Mut_RollsBack(h) ==
    /\ hook[h].pc = "recovering" /\ hook[h].stage = "commit"
    /\ tasks' = [id \in TaskIds |->
          IF SameClaim(h, id) THEN [tasks[id] EXCEPT !.phase = "prepared", !.call = None] ELSE tasks[id]]
    /\ Speaks(h, Classify(hook[h].cause, hook[h].stage))
    /\ UNCHANGED <<reply, granted, told>> /\ Elsewhere /\ UNCHANGED <<faults, lost>>
ReadBack(h) ==
    /\ hook[h].pc = "recovering"
    /\ LET ref == QuotedRef(RequestOf(h)) IN
       \/ \E id \in TaskIds :
             /\ FindByRef(tasks, ref) = {id} /\ SameClaim(h, id)
             /\ ClaimStands(h, id, hook[h].wrote)
       \/ /\ ~\E id \in TaskIds : FindByRef(tasks, ref) = {id} /\ SameClaim(h, id)
          /\ Speaks(h, Classify(hook[h].cause, hook[h].stage))
    /\ Quiet /\ Elsewhere /\ UNCHANGED <<faults, lost>>

\* The readback fails: the first error is the one that counts.
ReadBackFails(h) ==
    /\ hook[h].pc = "recovering" /\ faults < MaxFaults
    /\ Speaks(h, Classify(hook[h].cause, hook[h].stage))
    /\ faults' = faults + 1
    /\ Quiet /\ Elsewhere /\ UNCHANGED lost

\* What is raised outside the claim, by recognition or by composing the answer,
\* reaches the outer boundary, which lets the call pass.
Escapes(h) ==
    /\ hook[h].pc \in {"idle", "replying"} /\ RequestOf(h) # NoRequest /\ faults < MaxFaults
    /\ hook' = [hook EXCEPT ![h].pc = "answered", ![h].says = Say("continue", "unknown")]
    /\ faults' = faults + 1
    /\ Quiet /\ Elsewhere /\ UNCHANGED lost

Deliver(h) ==
    /\ hook[h].pc = "replying"
    /\ hook' = [hook EXCEPT ![h].pc = "answered"]
    /\ Quiet /\ Elsewhere /\ UNCHANGED <<faults, lost>>

HookStep(h) ==
    \/ StartHook(h) \/ StoreMissing(h) \/ LongCallId(h) \/ Claim(h) \/ ClaimThenError(h)
    \/ WriteFails(h) \/ TransactionFails(h) \/ ReadBack(h) \/ ReadBackFails(h) \/ Escapes(h) \/ Deliver(h)

-----------------------------------------------------------------------------
(* The platform *)

\* A Hook is never run, is killed, or its answer does not arrive.
Lose(h) ==
    /\ hook[h].pc \notin {"answered", "gone"} /\ RequestOf(h) # NoRequest /\ lost < MaxLost
    /\ hook' = [hook EXCEPT ![h] = [NewHook EXCEPT !.pc = "gone"]]
    /\ lost' = lost + 1
    /\ Quiet /\ Elsewhere /\ UNCHANGED faults

Waiting == {h \in Hooks : hook[h].pc \in {"claiming", "recovering", "replying"}}
HooksOf(c) == {h \in Hooks : CallOf[h] = c}

\* A Hook that reached its timeout is killed before the clock moves on.
Tick ==
    /\ clock < MaxTime
    /\ \A h \in Waiting : hook[h].now # NoTime => clock - hook[h].now < HookTimeout
    /\ clock' = clock + 1
    /\ Quiet /\ UNCHANGED <<used, asked, hook, ran, receipts, faults, lost>>

\* A call runs when every Hook of it has ended and none denied it; running, it
\* creates its agent or fails.  The receipt may not reach the parent.
NativeEnds(c) ==
    /\ asked[c] # NoRequest /\ ran[c] = "pending"
    /\ \A h \in HooksOf(c) : hook[h].pc \in {"answered", "gone"}
    /\ \/ /\ \A h \in HooksOf(c) : hook[h].says.action # "deny"
          /\ ran' = [ran EXCEPT ![c] = "created"]
       \/ ran' = [ran EXCEPT ![c] = "not_created"]
    /\ receipts' \in {receipts, receipts \cup {c}}
    /\ Quiet /\ UNCHANGED <<clock, used, asked, hook, faults, lost>>

-----------------------------------------------------------------------------
(* The parent *)

NoSpawnStep == UNCHANGED <<clock, asked, hook, ran, receipts, faults, lost>>

\* Ids are 128 random bits: no id is drawn twice.
Prepare ==
    /\ \E first, second \in TaskIds \ used :
          PrepareDispatch(first, second, clock) /\ used' = used \cup {first, second}
    /\ NoSpawnStep

Ask(c, request) ==
    /\ asked[c] = NoRequest
    /\ asked' = [asked EXCEPT ![c] = request]
    /\ Quiet /\ UNCHANGED <<clock, used, hook, ran, receipts, faults, lost>>

\* The parent confirms with the target that the receipt of this call names.
ParentConfirms(c) ==
    /\ c \in receipts /\ ran[c] = "created"
    /\ \E id \in FindByRef(tasks, QuotedRef(asked[c])) :
          ConfirmDispatch(id, tasks[id].ref, AgentOf[c], clock)
    /\ NoSpawnStep /\ UNCHANGED used

CallsFor(id) == {c \in CallIds : Governed(asked[c]) /\ QuotedRef(asked[c]) = tasks[id].ref}

\* "failed" is recorded only when every call made for the task is known to have
\* created nothing, "unknown" when the receipt of one is missing.
ParentSettles(id) ==
    /\ id \in Present(tasks)
    /\ \/ /\ \A c \in CallsFor(id) : c \in receipts /\ ran[c] = "not_created"
          /\ RecordDispatchResult(id, tasks[id].ref, "failed", clock)
       \/ /\ \E c \in CallsFor(id) : c \notin receipts /\ ran[c] # "pending"
          /\ RecordDispatchResult(id, tasks[id].ref, "unknown", clock)
    /\ NoSpawnStep /\ UNCHANGED used

ParentCloses(id) ==
    /\ id \in Present(tasks)
    /\ \E reason \in Reasons : CloseTask(id, tasks[id].ref, reason, clock)
    /\ NoSpawnStep /\ UNCHANGED used

GInit ==
    /\ Init
    /\ clock = 0 /\ used = {}
    /\ asked = [c \in CallIds |-> NoRequest]
    /\ hook = [h \in Hooks |-> NewHook]
    /\ ran = [c \in CallIds |-> "pending"] /\ receipts = {}
    /\ faults = 0 /\ lost = 0

GNext ==
    \/ Tick \/ Prepare
    \/ \E h \in Hooks : HookStep(h) \/ Lose(h)
    \/ \E c \in CallIds : NativeEnds(c) \/ ParentConfirms(c) \/ \E r \in RequestsOf[c] : Ask(c, r)
    \/ \E id \in TaskIds : ParentSettles(id) \/ ParentCloses(id)

GSpec == GInit /\ [][GNext]_gvars
-----------------------------------------------------------------------------
(***************************************************************************)
(* Properties                                                              *)
(***************************************************************************)

\* Every variable has its type.
SpawnTypeOK ==
    /\ clock \in Time /\ used \subseteq TaskIds /\ Present(tasks) \subseteq used
    /\ asked \in [CallIds -> Request]
    /\ hook \in [Hooks -> HookState]
    /\ ran \in [CallIds -> {"pending", "created", "not_created"}]
    /\ receipts \subseteq CallIds
    /\ faults \in 0..MaxFaults /\ lost \in 0..MaxLost

\* Every run of Hooks, platform and parent, faults included, is a run of the
\* ledger: what is shown and proved of SessionLedger holds here.  (This is Spec, with
\* the steps that leave the ledger alone, which are most, named first.)
ImplementsLedger == Init /\ [][UNCHANGED vars \/ Next]_vars

\* A Hook that reports a confirmed claim tells the truth, also when it learnt it
\* from the readback after an error: the claim of exactly this call was written
\* for that task, and that of no other call.
ConfirmedIsTrue ==
    \A h \in Hooks :
        hook[h].pc \in {"replying", "answered"} /\ hook[h].says.claim = "confirmed" =>
            /\ hook[h].task \in used
            /\ granted[hook[h].task] = {CallOf[h]}

\* A call is denied only while it holds nothing: a Hook whose own transaction
\* wrote the claim answers "confirmed" or "unknown", or is not heard; it never
\* denies, and never says that nothing was attempted or confirmed.  Otherwise the
\* capability would be spent by a call that does not run, and nobody would look.
WrittenClaimIsNotDenied ==
    \A h \in Hooks :
        hook[h].wrote /\ hook[h].pc \in {"replying", "answered"} =>
            hook[h].says.action # "deny" /\ hook[h].says.claim \in {"confirmed", "unknown"}

HoldsClaim(c) == \E id \in TaskIds : c \in granted[id]

\* The parent knows that governance did not see the call through: the Hook said so,
\* or nothing was heard of it.
Warned(h) ==
    \/ hook[h].pc = "gone"
    \/ hook[h].says.action \in {"allow", "continue"} /\ hook[h].says.claim # "confirmed"

\* No silent bypass: an agent created by a call that bears the mark of governance
\* runs on the claim of that very call, or the parent was warned.
NoSilentBypass ==
    \A c \in CallIds :
        Governed(asked[c]) /\ ran[c] = "created" =>
            HoldsClaim(c) \/ \E h \in HooksOf(c) : Warned(h)

\* "Prepared expiry prevents a new claim" (README.md), but the time a Hook judges the
\* expiry with was read before it waited for the lock, so a claim may be written
\* after its capability expired; the platform's timeout bounds by how much.
LateClaimBounded ==
    [][\A id \in TaskIds :
         tasks[id].phase = "prepared" /\ tasks'[id].phase = "claimed" =>
            clock < tasks[id].expires + HookTimeout]_gvars

\* "A confirm that lacks a claim enters reconcile": an agent is told to be the
\* task's own only if the call that created it held the claim.
UnclaimedNeverBound ==
    \A id \in TaskIds, c \in CallIds :
        AgentOf[c] \in told[id] => c \in granted[id]
=============================================================================
