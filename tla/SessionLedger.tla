---------------------------- MODULE SessionLedger ----------------------------
(***************************************************************************)
(* The governance ledger of one Session and every operation that changes   *)
(* it: prepare, claim, confirm and dispatch result                         *)
(* (scripts/governance_protocol.py, governance_dispatch.py), the lifecycle *)
(* facts and close (governance_lifecycle.py), the strict validator every   *)
(* write passes (governance_state.py) and the capacity limits of the store *)
(* (governance_state_store.py).                                            *)
(*                                                                         *)
(* One action is one transaction: StateStore.update holds the Session lock *)
(* from its read to its write.  How that transaction reaches the disk, and *)
(* what an error or a crash leaves behind, is module StateStore.           *)
(*                                                                         *)
(* Handlers read the clock BEFORE they wait for the lock, so the time an   *)
(* operation carries is not ordered with the commits, and the wall clock   *)
(* itself may be set back: every action picks its own "now".               *)
(***************************************************************************)
EXTENDS Integers, FiniteSets, FiniteSetsExt

CONSTANTS
    TaskIds,       \* task ids; natural numbers, in the order of the id strings
    ShortRef,      \* the 12-digit ref of each id; two ids may share one
    LongRef,       \* the 20-digit ref of each id
    Targets,       \* native agents a confirmation may name
    CallIds,       \* tool_use_ids of native spawn calls
    Reasons,       \* close reasons a parent may give
    Reports,       \* the statuses and results that are reported
    Retention,     \* CLOSED_TASK_RETENTION
    MaxTasks,      \* MAX_TASKS_PER_SESSION
    ContractBytes,    \* encoded size of what a record always has: identity, contract, times
    CapabilityBytes,  \* encoded size of "prepared": message, native parameters, material
    EntryBytes,       \* encoded size of each other key, with each value it may have
    LargestEntry,     \* no such key is larger
    SoftLimit,     \* NEW_TASK_SOFT_LIMIT_BYTES
    HardLimit,     \* MAX_STATE_BYTES
    Expiry,        \* PREPARED_EXPIRY_SECONDS
    MaxTime        \* bound: the clock reads 0..MaxTime

None == "none"     \* a field the record does not have
NoTime == -1       \* a timestamp the record does not have

Time == 0..MaxTime
Refs == {ShortRef[id] : id \in TaskIds} \cup {LongRef[id] : id \in TaskIds}

TerminalStatuses == {"completed", "stopped", "interrupted"}
PlatformStatuses == TerminalStatuses \cup {"running", "error", "unknown"}
CallResults == {"success", "failed", "unknown"}
InterruptResults == {"failed", "inactive", "unknown"}
UnknownCodes == {"delivery", "observation", "interrupt"}
DispatchFailed == "dispatch_failed_not_created"

ASSUME IdAssumption ==
    /\ TaskIds \subseteq Nat /\ IsFiniteSet(TaskIds)
    /\ ShortRef \in [TaskIds -> Refs] /\ LongRef \in [TaskIds -> Refs]
    /\ None \notin Refs \cup Targets \cup CallIds \cup Reasons
ASSUME ReportAssumption ==
    Reports \subseteq PlatformStatuses \cup CallResults \cup InterruptResults
ASSUME LimitAssumption ==
    /\ Retention \in Nat /\ MaxTasks \in Nat /\ SoftLimit \in Nat /\ HardLimit \in Nat
    /\ Expiry \in Nat /\ MaxTime \in Nat

(***************************************************************************)
(* A task record.  The code deletes a key where this model writes a blank, *)
(* so the set of present keys the validator checks is the set of non-blank *)
(* fields.  The contract, its digests and the native parameters are fixed  *)
(* at prepare and never told apart here; of the timestamps inside a fact   *)
(* only that of an unknown receipt is kept (the first one must survive).   *)
(***************************************************************************)
Phases == {"prepared", "claimed", "bound", "terminal", "closed", "reconcile"}
TargetOwningPhases == {"bound", "terminal", "reconcile"}
ReconcileCodes ==
    {"dispatch_target_conflict", "dispatch_target_already_bound", "dispatch_identity_mismatch",
     "dispatch_claim_missing", "dispatch_result_unknown", "terminal_status_conflict"}
TerminalSources == {"platform", "notification", "interrupt"}
Stamp == Time \cup {NoTime}

NoFact == [source |-> None, status |-> None]
NoUnknown == [c \in UnknownCodes |-> NoTime]

TerminalFact ==
    [source : TerminalSources \cup {None}, status : TerminalStatuses \cup {"inactive", None}]

Task ==
    [phase : Phases \cup {"absent"}, ref : Refs \cup {None},
     created : Stamp, updated : Stamp,
     expires : 0..(MaxTime + Expiry) \cup {NoTime},
     call : CallIds \cup {None}, target : Targets \cup {None},
     observation : (PlatformStatuses \ {"unknown"}) \cup {None},
     terminal : TerminalFact,
     interrupt : {"failed", "inactive", None},
     unknown : [UnknownCodes -> Stamp],
     code : ReconcileCodes \cup {None},
     reason : Reasons \cup {DispatchFailed, None}, closed : Stamp]

Absent ==
    [phase |-> "absent", ref |-> None, created |-> NoTime, updated |-> NoTime,
     expires |-> NoTime, call |-> None, target |-> None, observation |-> None,
     terminal |-> NoFact, interrupt |-> None, unknown |-> NoUnknown,
     code |-> None, reason |-> None, closed |-> NoTime]

(***************************************************************************)
(* The size of a record.  The store counts the bytes of the whole ledger   *)
(* as it encodes it, so every key a record holds counts, with its value:   *)
(* facts that arrive within a phase, a target, a call id and a close       *)
(* reason make it larger, what a phase drops makes it smaller.  A time has *)
(* ten digits whatever it is, so it is counted with the key it belongs to; *)
(* what the ledger has besides its records is counted off the limits.      *)
(***************************************************************************)
SizedKeys ==
    {"phase", "call", "target", "platform_observation", "terminal_source", "terminal_status",
     "interrupt_fact", "code", "reason", "unknown_facts"} \cup UnknownCodes
SizedValues ==
    Phases \cup CallIds \cup Targets \cup Reasons \cup {DispatchFailed} \cup PlatformStatuses
    \cup InterruptResults \cup TerminalSources \cup ReconcileCodes \cup {"receipt"}

ASSUME SizeAssumption ==
    /\ ContractBytes \in [TaskIds -> Nat] /\ CapabilityBytes \in [TaskIds -> Nat]
    /\ LargestEntry \in Nat
    /\ EntryBytes \in [SizedKeys -> [SizedValues -> 0..LargestEntry]]

\* No operation writes more than four keys of a record.  The gap between the two limits is
\* 1 MiB; the validator bounds every text a key may hold by 1024 characters.
ASSUME GapAssumption == SoftLimit + 4 * LargestEntry <= HardLimit

Entry(key, value) == IF value = None THEN 0 ELSE EntryBytes[key][value]
Receipt(t, c) == IF t.unknown[c] = NoTime THEN None ELSE "receipt"
Receipts(t) == IF t.unknown = NoUnknown THEN None ELSE "receipt"

Size(id, t) ==
    ContractBytes[id] + (IF t.expires = NoTime THEN 0 ELSE CapabilityBytes[id])
    + Entry("phase", t.phase) + Entry("call", t.call) + Entry("target", t.target)
    + Entry("platform_observation", t.observation) + Entry("terminal_source", t.terminal.source)
    + Entry("terminal_status", t.terminal.status) + Entry("interrupt_fact", t.interrupt)
    + Entry("code", t.code) + Entry("reason", t.reason)
    + Entry("unknown_facts", Receipts(t))
    + Entry("delivery", Receipt(t, "delivery"))
    + Entry("observation", Receipt(t, "observation"))
    + Entry("interrupt", Receipt(t, "interrupt"))

VARIABLES
    tasks,     \* the ledger: the record of each id, or Absent
    reply,     \* how the last operation ended
    granted,   \* history: the native calls whose claim of the task's capability was written
    told       \* history: the targets a confirmation reported as the task's own

\* Definitions named Mut_... are plausible bugs in the definition that follows
\* them.  Nothing uses them but PROJECT.json, which says which property each breaks.

vars == <<tasks, reply, granted, told>>

Replies == {"done", "conflict", "expired", "unavailable", "invalid", "clock", "full", "oversize"}

Present(tt) == {id \in TaskIds : tt[id].phase # "absent"}
Closed(tt) == {id \in TaskIds : tt[id].phase = "closed"}
Open(tt) == Present(tt) \ Closed(tt)
Owners(tt) == {id \in TaskIds : tt[id].phase \in TargetOwningPhases /\ tt[id].target # None}

-----------------------------------------------------------------------------
(* The strict validator *)

\* The keys a record of each phase must have and may have (which values a
\* present key may take is TypeOK's matter).
ShapeOK(t) ==
    /\ t.phase \in Phases /\ t.ref # None /\ t.created # NoTime /\ t.updated # NoTime
    /\ (t.expires # NoTime) <=> (t.phase \in {"prepared", "claimed"})
    /\ (t.call # None) <=> (t.phase = "claimed")
    /\ t.phase \in {"bound", "terminal"} => t.target # None
    /\ t.phase \in {"prepared", "claimed"} =>
          t.target = None /\ t.observation = None /\ t.interrupt = None
    /\ t.phase = "terminal" => t.terminal # NoFact
    /\ t.phase \in {"prepared", "claimed", "bound"} => t.terminal = NoFact
    /\ (t.terminal.source = None) <=> (t.terminal.status = None)
    /\ t.unknown # NoUnknown => t.target # None
    /\ t.phase = "reconcile" => t.code # None
    /\ t.phase \notin {"reconcile", "closed"} => t.code = None
    /\ (t.closed # NoTime) <=> (t.phase = "closed")
    /\ (t.reason # None) <=> (t.phase = "closed")

ClockOK(t) == t.updated >= t.created

RefsDistinct(tt) ==
    \A i, j \in Present(tt) : tt[i].ref = tt[j].ref => i = j
TargetsDistinct(tt) ==
    \A i, j \in Owners(tt) : tt[i].target = tt[j].target => i = j

WellFormed(tt) ==
    /\ \A id \in Present(tt) : ShapeOK(tt[id])
    /\ RefsDistinct(tt)
    /\ TargetsDistinct(tt)

-----------------------------------------------------------------------------
(* Capacity and eviction *)

Bytes(tt) == MapThenSumSet(LAMBDA id : Size(id, tt[id]), Present(tt))

NewTaskExceedsCapacity(tt) ==
    Cardinality(Present(tt)) > MaxTasks \/ Bytes(tt) > SoftLimit

\* Closed records are evicted in ascending (closed_at, created_at, task_id).
Mut_CreationIgnored(tt, i, j) ==
    tt[i].closed < tt[j].closed \/ (tt[i].closed = tt[j].closed /\ i < j)
Older(tt, i, j) ==
    \/ tt[i].closed < tt[j].closed
    \/ tt[i].closed = tt[j].closed /\ tt[i].created < tt[j].created
    \/ tt[i].closed = tt[j].closed /\ tt[i].created = tt[j].created /\ i < j

OlderThan(tt, id) == {i \in Closed(tt) : Older(tt, i, id)}
Without(tt, ids) == [id \in TaskIds |-> IF id \in ids THEN Absent ELSE tt[id]]

\* A closed record goes when it is in the excess over the retention, or when
\* a new task is admitted and the older ones did not make enough room.
Mut_NoAdmissionPressure(tt, admission) ==
    {id \in Closed(tt) : Cardinality(OlderThan(tt, id)) < Cardinality(Closed(tt)) - Retention}
Mut_EvictAllUnderPressure(tt, admission) ==
    {id \in Closed(tt) :
        \/ Cardinality(OlderThan(tt, id)) < Cardinality(Closed(tt)) - Retention
        \/ admission = "new_task" /\ NewTaskExceedsCapacity(tt)}
Evicted(tt, admission) ==
    {id \in Closed(tt) :
        \/ Cardinality(OlderThan(tt, id)) < Cardinality(Closed(tt)) - Retention
        \/ admission = "new_task" /\ NewTaskExceedsCapacity(Without(tt, OlderThan(tt, id)))}

Prune(tt, admission) == Without(tt, Evicted(tt, admission))

-----------------------------------------------------------------------------
(* The transaction: StateStore.update *)

\* Why the store refuses to write a ledger; "none" when it writes it.  The
\* task count is checked by the validator, the bytes by the store.
Mut_SoftLimitForAll(tt, admission) ==
    CASE ~WellFormed(tt) -> "invalid"
      [] WellFormed(tt) /\ Cardinality(Present(tt)) > MaxTasks -> "full"
      [] OTHER -> IF Bytes(tt) > SoftLimit THEN "oversize" ELSE None
Rejection(tt, admission) ==
    CASE ~WellFormed(tt) -> "invalid"
      [] WellFormed(tt) /\ ~(\A id \in Present(tt) : ClockOK(tt[id])) -> "clock"
      [] OTHER ->
           IF Cardinality(Present(tt)) > MaxTasks \/ (admission = "new_task" /\ Bytes(tt) > SoftLimit)
           THEN "full"
           ELSE IF Bytes(tt) > HardLimit THEN "oversize" ELSE None

Store(tt, admission) ==
    LET why == Rejection(tt, admission) IN
    \/ why = None /\ tasks' = tt /\ reply' = "done"
    \/ why # None /\ tasks' = tasks /\ reply' = why

\* An operation that raises inside the transaction writes nothing.
Refuse(why) == reply' = why /\ UNCHANGED <<tasks, granted, told>>

\* A lifecycle operation replaces one record, then prunes, then writes.
Mut_PruneBeforeChange(id, t) ==
    /\ Store([Prune(tasks, "existing") EXCEPT ![id] = t], "existing")
    /\ UNCHANGED <<granted, told>>
Update(id, t) ==
    /\ Store(Prune([tasks EXCEPT ![id] = t], "existing"), "existing")
    /\ UNCHANGED <<granted, told>>

\* A replay leaves the record as it is; the transaction still prunes and writes.
Replay(id) == Update(id, tasks[id])

-----------------------------------------------------------------------------
(* prepare-dispatch *)

Occupied == {tasks[id].ref : id \in Present(tasks)}
SelectTaskRef(id) ==
    IF ShortRef[id] \notin Occupied THEN ShortRef[id]
    ELSE IF LongRef[id] \notin Occupied THEN LongRef[id] ELSE None

Usable(id) == id \notin Present(tasks) /\ SelectTaskRef(id) # None

InitialTaskRecord(ref, now) ==
    [Absent EXCEPT !.phase = "prepared", !.ref = ref, !.created = now,
                   !.updated = now, !.expires = now + Expiry]

\* The id factory is asked at most twice.  An id evicted from the model's small
\* set may be drawn again: it stands for a fresh random id, so its history
\* starts afresh.
PrepareDispatch(first, second, now) ==
    LET id == IF Usable(first) THEN first ELSE second
        inserted == [tasks EXCEPT ![id] = InitialTaskRecord(SelectTaskRef(id), now)]
    IN \/ /\ Usable(id)
          /\ Store(Prune(inserted, "new_task"), "new_task")
          /\ granted' = IF reply' = "done" THEN [granted EXCEPT ![id] = {}] ELSE granted
          /\ told' = IF reply' = "done" THEN [told EXCEPT ![id] = {}] ELSE told
       \/ ~Usable(id) /\ Refuse("conflict")

-----------------------------------------------------------------------------
(* claim: the PreToolUse Hook finds the task by the ref in the native call *)

\* The transaction's own prune comes first; it finds nothing to evict when
\* every earlier write has pruned.
Pruned == Prune(tasks, "existing")
FindByRef(tt, ref) == {id \in Present(tt) : tt[id].ref = ref}

Grant(id, call, tt) ==
    /\ Store(tt, "existing")
    /\ granted' = IF reply' = "done" THEN [granted EXCEPT ![id] = @ \cup {call}] ELSE granted
    /\ UNCHANGED told

\* The same native call asks again.
Mut_AnyCallHolds(t, call) == t.phase = "claimed"
HeldBy(t, call) == t.phase = "claimed" /\ t.call = call

\* Expiry gates the first claim only.
Mut_NeverExpires(t, now) == FALSE
Expired(t, now) == t.expires <= now

\* args: do the native parameters equal the prepared ones?
\* material: is the verified context what prepare recorded?
ClaimSpawn(id, call, args, material, now) ==
    LET t == Pruned[id] IN
    \/ /\ HeldBy(t, call) /\ args = "exact"
       /\ Grant(id, call, Pruned)
    \/ /\ HeldBy(t, call) /\ args # "exact"
       /\ Refuse(IF args = "changed" THEN "conflict" ELSE "unavailable")
    \/ t.phase # "prepared" /\ ~HeldBy(t, call) /\ Refuse("conflict")
    \/ /\ t.phase = "prepared" /\ Expired(t, now)
       /\ Refuse("expired")
    \/ /\ t.phase = "prepared" /\ ~Expired(t, now) /\ args # "exact"
       /\ Refuse(IF args = "changed" THEN "conflict" ELSE "unavailable")
    \/ /\ t.phase = "prepared" /\ ~Expired(t, now) /\ args = "exact" /\ material # "same"
       /\ Refuse(IF material = "changed" THEN "conflict" ELSE "unavailable")
    \/ /\ t.phase = "prepared" /\ ~Expired(t, now) /\ args = "exact" /\ material = "same"
       /\ Grant(id, call,
                [Pruned EXCEPT ![id] = [t EXCEPT !.phase = "claimed", !.call = call, !.updated = now]])

ClaimUnknownRef(ref) == Cardinality(FindByRef(Pruned, ref)) # 1 /\ Refuse("conflict")

-----------------------------------------------------------------------------
(* What a record keeps when it changes phase *)

Mut_KeepCapability(t, code, now) ==
    IF t.phase = "reconcile" THEN t
    ELSE [t EXCEPT !.phase = "reconcile", !.updated = now, !.code = code, !.call = None]
Mut_DropTerminalFact(t, code, now) ==
    IF t.phase = "reconcile" THEN t
    ELSE [t EXCEPT !.phase = "reconcile", !.updated = now, !.code = code,
                   !.expires = NoTime, !.call = None, !.terminal = NoFact]
EnterReconcile(t, code, now) ==
    IF t.phase = "reconcile" THEN t
    ELSE [t EXCEPT !.phase = "reconcile", !.updated = now, !.code = code,
                   !.expires = NoTime, !.call = None]

Mut_KeepCall(t, reason, now) ==
    [t EXCEPT !.phase = "closed", !.updated = now, !.reason = reason, !.closed = now,
              !.expires = NoTime]
CloseRecord(t, reason, now) ==
    [t EXCEPT !.phase = "closed", !.updated = now, !.reason = reason, !.closed = now,
              !.expires = NoTime, !.call = None]

\* Only the identity and the contract survive a dispatch that is settled.
CommonFields(t) == [Absent EXCEPT !.ref = t.ref, !.created = t.created]

-----------------------------------------------------------------------------
(* confirm-dispatch *)

Tell(id, target) ==
    /\ Store(Pruned, "existing")
    /\ told' = IF reply' = "done" THEN [told EXCEPT ![id] = @ \cup {target}] ELSE told
    /\ UNCHANGED granted

Reconcile(id, code, now) ==
    /\ Store([Pruned EXCEPT ![id] = EnterReconcile(@, code, now)], "existing")
    /\ UNCHANGED <<granted, told>>

Mut_ReconcileOwnsNothing(tt, id, target) ==
    \E i \in Owners(tt) \ {id} : tt[i].target = target /\ tt[i].phase # "reconcile"
OtherOwner(tt, id, target) == \E i \in Owners(tt) \ {id} : tt[i].target = target

Bind(id, target, now) ==
    /\ Store([Pruned EXCEPT ![id] =
                 [CommonFields(@) EXCEPT !.phase = "bound", !.updated = now, !.target = target]],
             "existing")
    /\ told' = IF reply' = "done" THEN [told EXCEPT ![id] = @ \cup {target}] ELSE told
    /\ UNCHANGED granted

\* The confirmation repeats what the record says.
Mut_AnyTarget(t, ref, target) == t.ref = ref /\ t.target # None
Repeats(t, ref, target) == t.ref = ref /\ t.target = target

ConfirmDispatch(id, ref, target, now) ==
    LET t == Pruned[id] IN
    \/ t.phase = "absent" /\ Refuse("conflict")
    \/ t.phase = "closed" /\ ~Repeats(t, ref, target) /\ Refuse("conflict")
    \/ t.phase \in {"bound", "terminal", "closed"} /\ Repeats(t, ref, target) /\ Tell(id, target)
    \/ /\ t.phase \notin {"absent", "closed"} /\ t.ref # ref
       /\ Reconcile(id, "dispatch_identity_mismatch", now)
    \/ /\ t.phase \in {"bound", "terminal"} /\ t.ref = ref /\ ~Repeats(t, ref, target)
       /\ Reconcile(id, "dispatch_target_conflict", now)
    \/ /\ t.phase = "reconcile" /\ t.ref = ref
       /\ Store(Pruned, "existing") /\ UNCHANGED <<granted, told>>
    \/ /\ t.phase = "prepared" /\ t.ref = ref
       /\ Reconcile(id, "dispatch_claim_missing", now)
    \/ /\ t.phase = "claimed" /\ t.ref = ref /\ OtherOwner(Pruned, id, target)
       /\ Reconcile(id, "dispatch_target_already_bound", now)
    \/ /\ t.phase = "claimed" /\ t.ref = ref /\ ~OtherOwner(Pruned, id, target)
       /\ Bind(id, target, now)

-----------------------------------------------------------------------------
(* record-dispatch-result: the native call failed, or nobody knows *)

RecordDispatchResult(id, ref, result, now) ==
    LET t == tasks[id] IN
    \/ (t.ref # ref \/ t.phase \notin {"prepared", "claimed"}) /\ Refuse("conflict")
    \/ /\ t.ref = ref /\ t.phase \in {"prepared", "claimed"} /\ result = "failed"
       /\ Update(id, CloseRecord(CommonFields(t), DispatchFailed, now))
    \/ /\ t.ref = ref /\ t.phase \in {"prepared", "claimed"} /\ result = "unknown"
       /\ Update(id, EnterReconcile(CommonFields(t), "dispatch_result_unknown", now))

-----------------------------------------------------------------------------
(* Lifecycle facts: each names the exact task, ref and bound target *)

Identified(id, ref, target) ==
    tasks[id].phase # "absent" /\ tasks[id].ref = ref /\ tasks[id].target = target

\* The first receipt of each kind is kept; a later one is a replay.
Mut_UnknownAsObservation(id, c, now) ==
    Update(id, [tasks[id] EXCEPT !.observation = "unknown", !.updated = now])
Mut_LastReceiptWins(id, c, now) ==
    Update(id, [tasks[id] EXCEPT !.unknown[c] = now, !.updated = now])
RecordUnknown(id, c, now) ==
    IF tasks[id].unknown[c] # NoTime THEN Replay(id)
    ELSE Update(id, [tasks[id] EXCEPT !.unknown[c] = now, !.updated = now])

Mut_SourceMixedUp(source, status) == [source |-> "platform", status |-> status]
Fact(source, status) == [source |-> source, status |-> status]

Mut_ReopenOnConflict(id, now) ==
    Update(id, [tasks[id] EXCEPT !.phase = "bound", !.terminal = NoFact, !.updated = now])
TerminalConflict(id, now) ==
    Update(id, EnterReconcile(tasks[id], "terminal_status_conflict", now))

RecordPlatformObservation(id, ref, target, status, now) ==
    LET t == tasks[id]
        seen == [t EXCEPT !.observation = status, !.updated = now]
        ended == [seen EXCEPT !.phase = "terminal", !.terminal = Fact("platform", status)]
    IN
    \/ ~Identified(id, ref, target) /\ Refuse("conflict")
    \/ /\ Identified(id, ref, target)
       /\ \/ t.phase = "reconcile" /\ Replay(id)
          \/ /\ t.phase \in {"bound", "terminal"} /\ status = "unknown"
             /\ RecordUnknown(id, "observation", now)
          \/ /\ t.phase = "terminal" /\ status \in {"running", "error"}
             /\ Refuse("conflict")
          \/ /\ t.phase = "terminal" /\ status \in TerminalStatuses
             /\ \/ t.terminal.status = "inactive" /\ Update(id, ended)
                \/ t.terminal.status \notin {"inactive", status} /\ TerminalConflict(id, now)
                \/ t.terminal.status = status /\ t.observation = status /\ Replay(id)
                \/ t.terminal.status = status /\ t.observation # status /\ Update(id, seen)
          \/ t.phase \notin {"reconcile", "bound", "terminal"} /\ Refuse("conflict")
          \/ t.phase = "bound" /\ status \in TerminalStatuses /\ Update(id, ended)
          \/ /\ t.phase = "bound" /\ status \in {"running", "error"}
             /\ IF t.observation = status THEN Replay(id) ELSE Update(id, seen)

\* A known call result is checked and returned, never stored.
RecordCallResult(id, ref, target, result, now) ==
    LET t == tasks[id] IN
    \/ ~Identified(id, ref, target) /\ Refuse("conflict")
    \/ /\ Identified(id, ref, target) /\ result # "unknown"
       /\ Refuse(IF t.phase = "bound" THEN "done" ELSE "conflict")
    \/ /\ Identified(id, ref, target) /\ result = "unknown"
       /\ \/ t.phase = "reconcile" /\ Replay(id)
          \/ t.phase \in {"bound", "terminal"} /\ RecordUnknown(id, "delivery", now)
          \/ t.phase \notin {"reconcile", "bound", "terminal"} /\ Refuse("conflict")

RecordTerminalNotification(id, ref, sender, status, now) ==
    LET t == tasks[id]
        ended == [t EXCEPT !.phase = "terminal", !.terminal = Fact("notification", status),
                           !.updated = now]
    IN
    \/ ~Identified(id, ref, sender) /\ Refuse("conflict")
    \/ /\ Identified(id, ref, sender)
       /\ \/ t.phase = "reconcile" /\ Replay(id)
          \/ t.phase = "terminal" /\ t.terminal.status = "inactive" /\ Update(id, ended)
          \/ t.phase = "terminal" /\ t.terminal.status = status /\ Replay(id)
          \/ /\ t.phase = "terminal" /\ t.terminal.status \notin {"inactive", status}
             /\ TerminalConflict(id, now)
          \/ t.phase \notin {"reconcile", "bound", "terminal"} /\ Refuse("conflict")
          \/ t.phase = "bound" /\ Update(id, ended)

RecordInterruptResult(id, ref, target, result, now) ==
    LET t == tasks[id]
        noted == [t EXCEPT !.interrupt = result, !.updated = now]
    IN
    \/ ~Identified(id, ref, target) /\ Refuse("conflict")
    \/ /\ Identified(id, ref, target)
       /\ \/ t.phase = "reconcile" /\ Replay(id)
          \/ t.phase \notin {"reconcile", "bound", "terminal"} /\ Refuse("conflict")
          \/ /\ t.phase \in {"bound", "terminal"} /\ result = "unknown"
             /\ RecordUnknown(id, "interrupt", now)
          \/ t.phase = "terminal" /\ result = "failed" /\ Refuse("conflict")
          \/ /\ \/ t.phase = "bound" /\ result = "failed"
                \/ t.phase = "terminal" /\ result = "inactive"
             /\ IF t.interrupt = result THEN Replay(id) ELSE Update(id, noted)
          \/ /\ t.phase = "bound" /\ result = "inactive"
             /\ Update(id, [noted EXCEPT !.phase = "terminal",
                                         !.terminal = Fact("interrupt", "inactive")])

Mut_CloseAgain(id, ref, reason, now) ==
    \/ (tasks[id].phase = "absent" \/ tasks[id].ref # ref) /\ Refuse("conflict")
    \/ /\ tasks[id].phase # "absent" /\ tasks[id].ref = ref
       /\ Update(id, CloseRecord(tasks[id], reason, now))
CloseTask(id, ref, reason, now) ==
    LET t == tasks[id] IN
    \/ (t.phase = "absent" \/ t.ref # ref) /\ Refuse("conflict")
    \/ t.phase = "closed" /\ t.ref = ref /\ t.reason # reason /\ Refuse("conflict")
    \/ t.phase = "closed" /\ t.ref = ref /\ t.reason = reason /\ Replay(id)
    \/ /\ t.phase \notin {"absent", "closed"} /\ t.ref = ref
       /\ Update(id, CloseRecord(t, reason, now))

-----------------------------------------------------------------------------
Init ==
    /\ tasks = [id \in TaskIds |-> Absent]
    /\ reply = "done"
    /\ granted = [id \in TaskIds |-> {}]
    /\ told = [id \in TaskIds |-> {}]

Prepares == \E first, second \in TaskIds, now \in Time : PrepareDispatch(first, second, now)
Claims ==
    \/ \E ref \in Refs : ClaimUnknownRef(ref)
    \/ \E ref \in Refs : \E id \in TaskIds, call \in CallIds :
         \E args \in {"exact", "changed", "unreadable"},
            material \in {"same", "changed", "unavailable"}, now \in Time :
            FindByRef(Pruned, ref) = {id} /\ ClaimSpawn(id, call, args, material, now)
Confirms ==
    \E id \in TaskIds, ref \in Refs, target \in Targets, now \in Time :
        ConfirmDispatch(id, ref, target, now)
DispatchResults ==
    \E id \in TaskIds, ref \in Refs, result \in {"failed", "unknown"}, now \in Time :
        RecordDispatchResult(id, ref, result, now)
Observations ==
    \E id \in TaskIds, ref \in Refs, target \in Targets, status \in PlatformStatuses \cap Reports, now \in Time :
        RecordPlatformObservation(id, ref, target, status, now)
CallReports ==
    \E id \in TaskIds, ref \in Refs, target \in Targets, result \in CallResults \cap Reports, now \in Time :
        RecordCallResult(id, ref, target, result, now)
Notifications ==
    \E id \in TaskIds, ref \in Refs, sender \in Targets, status \in TerminalStatuses \cap Reports, now \in Time :
        RecordTerminalNotification(id, ref, sender, status, now)
InterruptReports ==
    \E id \in TaskIds, ref \in Refs, target \in Targets, result \in InterruptResults \cap Reports, now \in Time :
        RecordInterruptResult(id, ref, target, result, now)
Closes ==
    \E id \in TaskIds, ref \in Refs, reason \in Reasons, now \in Time :
        CloseTask(id, ref, reason, now)

Next ==
    \/ Prepares \/ Claims \/ Confirms \/ DispatchResults \/ Observations
    \/ CallReports \/ Notifications \/ InterruptReports \/ Closes

Spec == Init /\ [][Next]_vars

-----------------------------------------------------------------------------
(***************************************************************************)
(* Properties                                                              *)
(***************************************************************************)

\* Every variable has its type: a record holds only values its fields may have.
TypeOK ==
    /\ tasks \in [TaskIds -> Task]
    /\ reply \in Replies
    /\ granted \in [TaskIds -> SUBSET CallIds]
    /\ told \in [TaskIds -> SUBSET Targets]

\* The strict validator is a net that must never catch anything: no sequence of
\* operations computes a ledger that validate_current_state_format would refuse
\* (a field of another phase left behind, two owners of one target, a ref used
\* twice).  A clock set back is told apart: the reply is then "clock".
ValidatorNeverFires == reply # "invalid"

\* The ledger passes the validator: in particular no two open tasks own one native
\* agent and no two records share a ref.
RecordsValid ==
    /\ WellFormed(tasks)
    /\ \A id \in Present(tasks) : ClockOK(tasks[id])
    /\ Cardinality(Present(tasks)) <= MaxTasks

\* What was written can be read back: every later transaction starts by reading at
\* most MAX_STATE_BYTES and validating what it read, so a ledger that is larger or
\* that the validator refuses would block the Session for good.
RecordsReadable == RecordsValid /\ Bytes(tasks) <= HardLimit

\* One prepared capability lets at most one native spawn call through, however
\* many calls quote its ref: every call whose claim was written, at first or as a
\* replay, is the same call.  And a task that names a native agent, bound or in any
\* later phase, is one whose capability some call was granted.
OneGrantPerCapability ==
    \A id \in Present(tasks) :
        /\ Cardinality(granted[id]) <= 1
        /\ tasks[id].target # None => granted[id] # {}

\* First bind wins: no confirmation, repeated or conflicting, is ever told that
\* the task belongs to a target other than the one it was first bound to, and
\* the record still names that one, through terminal, reconcile and closed.
FirstBindWins ==
    \A id \in Present(tasks) : told[id] \subseteq {tasks[id].target}

\* The facts of a record agree, in whatever order they arrived: a platform
\* observation that ends the task names the status of its terminal fact, a
\* successful interrupt implies a terminal fact, the bare "inactive" comes
\* only from an interrupt, and a platform terminal fact has its observation.
FactsAgree ==
    \A id \in Present(tasks) : LET t == tasks[id] IN
        /\ t.observation \in TerminalStatuses => t.terminal.status = t.observation
        /\ t.interrupt = "inactive" => t.terminal # NoFact
        /\ t.terminal.source = "interrupt" <=> t.terminal.status = "inactive"
        /\ t.terminal.source = "interrupt" => t.interrupt = "inactive"
        /\ t.terminal.source = "platform" => t.observation = t.terminal.status

\* A reconcile code says what happened, and the record bears it out: a conflict
\* about a target or a terminal status keeps the first one, while a dispatch
\* that was never bound records no target, never the conflicting one submitted.
ReconcileMatchesEvidence ==
    \A id \in Present(tasks) : LET t == tasks[id] IN
        /\ t.code \in {"dispatch_target_already_bound", "dispatch_claim_missing",
                       "dispatch_result_unknown"} => t.target = None
        /\ t.code = "dispatch_target_conflict" => t.target # None
        /\ t.code = "terminal_status_conflict" => t.terminal.status \in TerminalStatuses
        /\ t.code = "dispatch_claim_missing" => granted[id] = {}

\* Every write leaves at most Retention closed records.
ClosedBounded == Cardinality(Closed(tasks)) <= Retention

\* The size a task has when it is prepared.
NewBytes(id) == ContractBytes[id] + CapabilityBytes[id] + Entry("phase", "prepared")

\* A new task is refused for capacity only if evicting every closed record
\* would not have made room for it.
AdmissionTight ==
    reply = "full" =>
        LET open == Open(tasks) IN
        \/ Cardinality(open) + 1 > MaxTasks
        \/ \E id \in TaskIds \ Present(tasks) :
              Bytes(Without(tasks, Closed(tasks))) + NewBytes(id) > SoftLimit

\* The gap between the two limits is kept for what admitted tasks grow by: a fact, a
\* confirmation or a close is refused for its size only when the ledger already is
\* over the line above which no task is admitted.
SizeRefusalAboveSoft == reply = "oversize" => Bytes(tasks) > SoftLimit

\* An open task can be ended in every state, unless its close makes its own record
\* larger and there is no room left for that: at any time not before its creation
\* the store accepts the close, whatever conflicts and clock changes came before.
CloseRefusedOnlyForGrowth ==
    \A id \in Open(tasks), reason \in Reasons, now \in Time :
        LET closed == CloseRecord(tasks[id], reason, now)
            why == Rejection(Prune([tasks EXCEPT ![id] = closed], "existing"), "existing")
        IN now >= tasks[id].created =>
              \/ why = None
              \/ why = "oversize" /\ Size(id, closed) > Size(id, tasks[id])

-----------------------------------------------------------------------------
Edges ==
    {<<"absent", "prepared">>, <<"prepared", "claimed">>, <<"claimed", "bound">>,
     <<"bound", "terminal">>}
    \cup ({"prepared", "claimed", "bound", "terminal"} \X {"reconcile", "closed"})
    \cup {<<"reconcile", "closed">>, <<"closed", "absent">>}

\* A task only advances along the phase graph: never back to a phase that could
\* be claimed again, never out of reconcile but by close, never out of closed
\* but by eviction.  A task that is still open leaves the ledger only if the
\* write that closes it fills the retention without it: the clock is read before
\* the lock, so the record being closed may be the oldest of the closed ones.
PhaseAdvances ==
    [][\A id \in TaskIds :
         \/ tasks'[id].phase = tasks[id].phase
         \/ <<tasks[id].phase, tasks'[id].phase>> \in Edges
         \/ tasks'[id] = Absent /\ Cardinality(Closed(tasks')) = Retention]_vars

\* While a record lasts, evidence once recorded survives every later operation:
\* identity, target, the first reconcile code, the time of the first unknown
\* receipt of each kind; a terminal fact changes only from the interrupt's bare
\* "inactive" to a concrete status.
EvidenceKept ==
    [][\A id \in Present(tasks) :
         LET t == tasks[id]
             u == tasks'[id]
         IN u.phase # "absent" =>
            /\ u.ref = t.ref /\ u.created = t.created
            /\ t.target # None => u.target = t.target
            /\ t.code # None => u.code = t.code
            /\ t.observation # None => u.observation # None
            /\ t.interrupt # None => u.interrupt # None
            /\ \A c \in UnknownCodes : t.unknown[c] # NoTime => u.unknown[c] = t.unknown[c]
            /\ t.terminal # NoFact =>
                  \/ u.terminal = t.terminal
                  \/ t.terminal.status = "inactive" /\ u.terminal.status \in TerminalStatuses
      ]_vars

\* A closed record accepts no new fact: it stays exactly as close wrote it
\* until it is evicted whole.
ClosedIsFinal ==
    [][\A id \in Closed(tasks) : tasks'[id] \in {tasks[id], Absent}]_vars

\* Eviction takes the oldest closed records, as the documentation promises: one
\* that stays was not closed before one that went, and of two closed at the same
\* time it was not created before it.
EvictionTakesOldest ==
    [][\A i, j \in Closed(tasks) :
         tasks'[i] = Absent /\ tasks'[j] # Absent =>
            /\ tasks[i].closed <= tasks[j].closed
            /\ tasks[i].closed = tasks[j].closed => tasks[i].created <= tasks[j].created
      ]_vars

\* Eviction takes no more than it must: when records went, either the retention
\* is exactly used up, or putting one of them back would leave no room for the
\* task that was admitted.
EvictionIsMinimal ==
    [][LET gone == {id \in Closed(tasks) : tasks'[id] = Absent} IN
       gone # {} =>
         \/ Cardinality(Closed(tasks')) = Retention
         \/ \E id \in gone : NewTaskExceedsCapacity([tasks' EXCEPT ![id] = tasks[id]])]_vars
=============================================================================
