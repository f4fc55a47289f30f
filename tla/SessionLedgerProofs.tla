------------------------- MODULE SessionLedgerProofs -------------------------
(* Proofs about SessionLedger, for every number of tasks, targets and calls. *)
EXTENDS SessionLedger, FiniteSetTheorems, TLAPS

Ledger == [TaskIds -> Task]

\* What the history of a task has to do with its phase: no call holds a capability
\* that is still prepared, exactly the recorded call holds a claimed one, a task with
\* a target was claimed, and every confirmation told the recorded target.
HistoryOK(tt, calls, targets) ==
    \A id \in TaskIds :
        /\ tt[id].phase = "prepared" => calls[id] = {}
        /\ tt[id].phase = "claimed" => calls[id] = {tt[id].call}
        /\ tt[id].target # None => calls[id] # {}
        /\ tt[id].phase # "absent" => /\ \A x, y \in calls[id] : x = y
                                      /\ targets[id] \subseteq {tt[id].target}
HistoryInv == HistoryOK(tasks, granted, told)

\* The inductive invariant.
Inv ==
    /\ TypeOK
    /\ ValidatorNeverFires
    /\ WellFormed(tasks)
    /\ HistoryInv

-----------------------------------------------------------------------------
(* Records and pruning *)

LEMMA AbsentTask == Absent \in Task /\ Absent.phase = "absent" /\ Absent.target = None
BY DEF Absent, Task, TerminalFact, NoFact, NoUnknown, Stamp

\* Pruning turns some closed records into Absent and touches nothing else.
LEMMA PruneKeeps ==
    ASSUME NEW tt \in Ledger, NEW admission
    PROVE  /\ Prune(tt, admission) \in Ledger
           /\ \A i \in TaskIds : \/ Prune(tt, admission)[i] = tt[i]
                                 \/ tt[i].phase = "closed" /\ Prune(tt, admission)[i] = Absent
<1>1. Evicted(tt, admission) \subseteq Closed(tt)
  BY DEF Evicted
<1>2. QED
  BY <1>1, AbsentTask DEF Prune, Without, Closed, Ledger

\* A ledger stays well formed when some of its records disappear.
LEMMA FewerWellFormed ==
    ASSUME NEW tt \in Ledger, NEW uu \in Ledger, WellFormed(tt),
           \A i \in TaskIds : uu[i] = tt[i] \/ uu[i] = Absent
    PROVE  WellFormed(uu)
<1>1. \A i \in Present(uu) : i \in Present(tt) /\ uu[i] = tt[i]
  BY AbsentTask DEF Present
<1>2. \A i \in Owners(uu) : i \in Owners(tt) /\ uu[i] = tt[i]
  BY AbsentTask DEF Owners, TargetOwningPhases
<1>3. RefsDistinct(uu)
  BY <1>1 DEF WellFormed, RefsDistinct
<1>4. TargetsDistinct(uu)
  BY <1>2 DEF WellFormed, TargetsDistinct
<1>5. QED
  BY <1>1, <1>3, <1>4 DEF WellFormed

\* Replacing one record keeps the ledger well formed if the new record is, if its
\* ref is not another's, and if its target, when it owns one, is not another owner's.
LEMMA ReplaceWellFormed ==
    ASSUME NEW tt \in Ledger, WellFormed(tt), NEW id \in TaskIds, NEW u \in Task,
           ShapeOK(u),
           \A i \in Present(tt) \ {id} : tt[i].ref # u.ref,
           u.phase \in TargetOwningPhases /\ u.target # None =>
               \A i \in Owners(tt) \ {id} : tt[i].target # u.target
    PROVE  /\ [tt EXCEPT ![id] = u] \in Ledger
           /\ WellFormed([tt EXCEPT ![id] = u])
<1> DEFINE uu == [tt EXCEPT ![id] = u]
<1>1. uu \in Ledger /\ uu[id] = u /\ \A i \in TaskIds \ {id} : uu[i] = tt[i]
  BY DEF Ledger
<1> HIDE DEF uu
<1>2. \A i \in Present(uu) : i = id \/ i \in Present(tt) \ {id}
  BY <1>1 DEF Present
<1>3. \A i \in Owners(uu) : i = id \/ i \in Owners(tt) \ {id}
  BY <1>1 DEF Owners
<1>4. ASSUME NEW i \in Present(uu) PROVE ShapeOK(uu[i])
  <2>1. i = id => uu[i] = u
    BY <1>1
  <2>2. i # id => i \in Present(tt) /\ uu[i] = tt[i]
    BY <1>1, <1>2 DEF Present
  <2>3. QED
    BY <2>1, <2>2 DEF WellFormed
<1>5. RefsDistinct(uu)
  <2> SUFFICES ASSUME NEW i \in Present(uu), NEW j \in Present(uu), uu[i].ref = uu[j].ref
               PROVE  i = j
    BY DEF RefsDistinct
  <2>1. i \in TaskIds /\ j \in TaskIds
    BY DEF Present
  <2>2. QED
    BY <2>1, <1>1, <1>2 DEF WellFormed, RefsDistinct
<1>6. TargetsDistinct(uu)
  <2> SUFFICES ASSUME NEW i \in Owners(uu), NEW j \in Owners(uu), uu[i].target = uu[j].target
               PROVE  i = j
    BY DEF TargetsDistinct
  <2>1. i \in TaskIds /\ j \in TaskIds
    BY DEF Owners
  <2>2. id \in Owners(uu) => u.phase \in TargetOwningPhases /\ u.target # None
    BY <1>1 DEF Owners
  <2>3. QED
    BY <2>1, <2>2, <1>1, <1>3 DEF WellFormed, TargetsDistinct
<1>7. WellFormed(uu)
  BY <1>4, <1>5, <1>6 DEF WellFormed
<1>8. QED
  BY <1>1, <1>7 DEF uu

\* A well-formed ledger is stored or refused for the clock or for its size.
LEMMA StoreOutcome ==
    ASSUME NEW tt \in Ledger, WellFormed(tt), NEW admission, Store(tt, admission)
    PROVE  /\ reply' \in Replies \ {"invalid"}
           /\ \/ reply' = "done" /\ tasks' = tt
              \/ reply' # "done" /\ tasks' = tasks
<1>1. Rejection(tt, admission) \in {None, "clock", "full", "oversize"}
  BY DEF Rejection
<1>2. QED
  BY <1>1 DEF Store, Replies, None

-----------------------------------------------------------------------------
(* What a transaction does to the invariant *)

LEMMA InvFacts ==
    ASSUME Inv
    PROVE  /\ tasks \in Ledger /\ WellFormed(tasks)
           /\ granted \in [TaskIds -> SUBSET CallIds] /\ told \in [TaskIds -> SUBSET Targets]
           /\ \A id \in Present(tasks) : ShapeOK(tasks[id])
           /\ \A id \in TaskIds : id \in Present(tasks) => tasks[id] \in Task /\ ShapeOK(tasks[id])
BY DEF Inv, TypeOK, Ledger, WellFormed

\* A refused operation changes only the reply.
LEMMA RefuseSafe ==
    ASSUME Inv, NEW why \in Replies \ {"invalid"}, Refuse(why)
    PROVE  Inv'
BY DEF Inv, TypeOK, ValidatorNeverFires, HistoryInv, HistoryOK, WellFormed, RefsDistinct, TargetsDistinct,
       Present, Owners, Refuse

\* Every record is the current one, is gone, or has left the prepared and claimed phases
\* with its target.
Advanced(tt) ==
    \A i \in TaskIds :
        \/ tt[i] = tasks[i]
        \/ tt[i] = Absent
        \/ /\ tt[i].phase \notin {"prepared", "claimed"} /\ tasks[i].phase # "absent"
           /\ tt[i].target = tasks[i].target

\* A transaction that adds nothing to the history.
LEMMA StoreSafe ==
    ASSUME Inv, NEW tt \in Ledger, WellFormed(tt), NEW admission, Store(tt, admission),
           UNCHANGED <<granted, told>>, Advanced(tt)
    PROVE  Inv'
<1>1. /\ reply' \in Replies \ {"invalid"}
      /\ tasks' = tt \/ tasks' = tasks
  BY StoreOutcome
<1>2. CASE tasks' = tasks
  BY <1>1, <1>2 DEF Inv, TypeOK, ValidatorNeverFires, HistoryInv, HistoryOK, WellFormed, RefsDistinct,
     TargetsDistinct, Present, Owners
<1>3. CASE tasks' = tt
  <2>1. TypeOK' /\ ValidatorNeverFires'
    BY <1>1, <1>3 DEF Inv, TypeOK, ValidatorNeverFires, Ledger
  <2>2. WellFormed(tasks)'
    BY <1>3 DEF WellFormed, RefsDistinct, TargetsDistinct, Present, Owners
  <2>3. HistoryInv'
    <3> SUFFICES ASSUME NEW i \in TaskIds
                 PROVE  /\ tt[i].phase = "prepared" => granted[i] = {}
                        /\ tt[i].phase = "claimed" => granted[i] = {tt[i].call}
                        /\ tt[i].target # None => granted[i] # {}
                        /\ tt[i].phase # "absent" => /\ \A x, y \in granted[i] : x = y
                                                     /\ told[i] \subseteq {tt[i].target}
      BY <1>3 DEF HistoryInv, HistoryOK
    <3>1. CASE tt[i] = tasks[i]
      BY <3>1 DEF Inv, HistoryInv, HistoryOK
    <3>2. CASE tt[i] = Absent
      BY <3>2, AbsentTask
    <3>3. CASE /\ tt[i].phase \notin {"prepared", "claimed"} /\ tasks[i].phase # "absent"
               /\ tt[i].target = tasks[i].target
      BY <3>3 DEF Inv, HistoryInv, HistoryOK
    <3>4. QED
      BY <3>1, <3>2, <3>3 DEF Advanced
  <2>4. QED
    BY <2>1, <2>2, <2>3 DEF Inv
<1>4. QED
  BY <1>1, <1>2, <1>3
\* The records a lifecycle operation may write over the record t.
Successor(t, u) ==
    /\ u \in Task /\ ShapeOK(u)
    /\ u.ref = t.ref /\ u.target = t.target
    /\ u.phase \in TargetOwningPhases /\ u.target # None => t.phase \in TargetOwningPhases
    /\ u = t \/ u.phase \notin {"prepared", "claimed"}

\* Such a record can replace t in a ledger that is the current one up to eviction.
LEMMA SuccessorWellFormed ==
    ASSUME Inv, NEW bb \in Ledger, WellFormed(bb),
           \A i \in TaskIds : bb[i] = tasks[i] \/ bb[i] = Absent,
           NEW id \in Present(bb), NEW u, Successor(tasks[id], u)
    PROVE  /\ [bb EXCEPT ![id] = u] \in Ledger
           /\ WellFormed([bb EXCEPT ![id] = u])
           /\ Advanced([bb EXCEPT ![id] = u])
<1>1. id \in TaskIds /\ bb[id] = tasks[id] /\ tasks[id].phase # "absent" /\ u \in Task /\ ShapeOK(u)
  BY AbsentTask DEF Present, Successor
<1>2. \A i \in Present(bb) \ {id} : bb[i].ref # u.ref
  BY <1>1 DEF WellFormed, RefsDistinct, Successor
<1>3. ASSUME u.phase \in TargetOwningPhases, u.target # None, NEW i \in Owners(bb) \ {id}
      PROVE  bb[i].target # u.target
  <2>1. id \in Owners(bb) /\ bb[id].target = u.target
    BY <1>1, <1>3 DEF Owners, Successor
  <2>2. QED
    BY <2>1 DEF WellFormed, TargetsDistinct
<1>4. [bb EXCEPT ![id] = u] \in Ledger /\ WellFormed([bb EXCEPT ![id] = u])
  BY <1>1, <1>2, <1>3, ReplaceWellFormed
<1>5. QED
  BY <1>1, <1>4 DEF Ledger, Successor, Advanced

LEMMA UpdateSafe ==
    ASSUME Inv, NEW id \in Present(tasks), NEW u, Successor(tasks[id], u), Update(id, u)
    PROVE  Inv'
<1> DEFINE uu == [tasks EXCEPT ![id] = u]
           pp == Prune(uu, "existing")
<1>1. uu \in Ledger /\ WellFormed(uu) /\ Advanced(uu)
  <2>1. tasks \in Ledger /\ WellFormed(tasks)
    BY InvFacts
  <2>2. \A i \in TaskIds : tasks[i] = tasks[i] \/ tasks[i] = Absent
    OBVIOUS
  <2>3. QED
    BY <2>1, <2>2, SuccessorWellFormed
<1>2. Store(pp, "existing") /\ UNCHANGED <<granted, told>>
  BY DEF Update
<1> HIDE DEF uu
<1>3. pp \in Ledger /\ \A i \in TaskIds : pp[i] = uu[i] \/ pp[i] = Absent
  BY <1>1, PruneKeeps
<1> HIDE DEF pp
<1>4. WellFormed(pp)
  BY <1>1, <1>3, FewerWellFormed
<1>5. Advanced(pp)
  BY <1>1, <1>3 DEF Advanced
<1>6. QED
  BY <1>2, <1>3, <1>4, <1>5, StoreSafe

\* The ledger a claim or a confirmation works on is the current one up to eviction.
LEMMA PrunedFacts ==
    ASSUME Inv
    PROVE  /\ Pruned \in Ledger /\ WellFormed(Pruned)
           /\ \A i \in TaskIds : Pruned[i] = tasks[i] \/ Pruned[i] = Absent
<1>1. Pruned \in Ledger /\ \A i \in TaskIds : Pruned[i] = tasks[i] \/ Pruned[i] = Absent
  BY InvFacts, PruneKeeps DEF Pruned
<1>2. QED
  BY <1>1, InvFacts, FewerWellFormed

-----------------------------------------------------------------------------
(* The records the operations write *)

LEMMA ReplaySuccessor ==
    ASSUME Inv, NEW id \in Present(tasks)
    PROVE  Successor(tasks[id], tasks[id])
BY InvFacts DEF Successor, Present

LEMMA ReplaySafe ==
    ASSUME Inv, NEW id \in Present(tasks), Replay(id)
    PROVE  Inv'
BY ReplaySuccessor, UpdateSafe, InvFacts DEF Replay

LEMMA EnterReconcileSuccessor ==
    ASSUME NEW t \in Task, ShapeOK(t), t.phase # "closed", NEW code \in ReconcileCodes,
           NEW now \in Time
    PROVE  Successor(t, EnterReconcile(t, code, now))
<1>1. now \in Stamp /\ now # NoTime /\ code # None
  BY LimitAssumption DEF Time, Stamp, NoTime, ReconcileCodes, None
<1>2. CASE t.phase = "reconcile"
  BY <1>2 DEF EnterReconcile, Successor
<1>3. CASE t.phase # "reconcile"
  <2> DEFINE u == EnterReconcile(t, code, now)
  <2>1. u = [t EXCEPT !.phase = "reconcile", !.updated = now, !.code = code,
                      !.expires = NoTime, !.call = None]
    BY <1>3 DEF EnterReconcile
  <2>2. u \in Task
    BY <2>1, <1>1 DEF Task, Phases
  <2>3. ShapeOK(u)
    BY <2>1, <1>1, <1>3 DEF ShapeOK, Task, Phases
  <2>4. t.target # None => t.phase \in TargetOwningPhases
    BY <1>3 DEF ShapeOK, Phases, TargetOwningPhases
  <2>5. u.ref = t.ref /\ u.target = t.target /\ u.phase = "reconcile"
    BY <2>1 DEF Task
  <2>6. QED
    BY <2>2, <2>3, <2>4, <2>5 DEF Successor
<1>4. QED
  BY <1>2, <1>3

LEMMA CloseRecordSuccessor ==
    ASSUME NEW t \in Task, ShapeOK(t), t.phase # "closed",
           NEW reason \in Reasons \cup {DispatchFailed}, NEW now \in Time
    PROVE  Successor(t, CloseRecord(t, reason, now))
<1> DEFINE u == CloseRecord(t, reason, now)
<1>1. now \in Stamp /\ now # NoTime /\ reason # None
  BY LimitAssumption, IdAssumption DEF Time, Stamp, NoTime, None, DispatchFailed
<1>2. u = [t EXCEPT !.phase = "closed", !.updated = now, !.reason = reason, !.closed = now,
                    !.expires = NoTime, !.call = None]
  BY DEF CloseRecord
<1>3. u \in Task
  BY <1>1, <1>2 DEF Task, Phases
<1>4. ShapeOK(u)
  BY <1>1, <1>2 DEF ShapeOK, Task, Phases
<1>5. u.ref = t.ref /\ u.target = t.target /\ u.phase = "closed"
  BY <1>2 DEF Task
<1>6. QED
  BY <1>3, <1>4, <1>5 DEF Successor, TargetOwningPhases
LEMMA FactType ==
    ASSUME NEW source \in TerminalSources, NEW status \in TerminalStatuses \cup {"inactive"}
    PROVE  /\ Fact(source, status) \in TerminalFact /\ Fact(source, status) # NoFact
           /\ Fact(source, status).source # None /\ Fact(source, status).status # None
BY DEF Fact, TerminalFact, NoFact, None, TerminalSources, TerminalStatuses

\* A fact about a bound or ended task: only its observation, terminal fact, interrupt,
\* unknown receipts and update time may change.
LEMMA FactSuccessor ==
    ASSUME NEW t \in Task, ShapeOK(t), t.phase \in {"bound", "terminal"},
           NEW u \in Task, u.phase \in {"bound", "terminal"}, u.updated # NoTime,
           u.ref = t.ref, u.created = t.created, u.expires = t.expires, u.call = t.call,
           u.target = t.target, u.code = t.code, u.reason = t.reason, u.closed = t.closed,
           u.phase = "bound" => u.terminal = NoFact,
           u.phase = "terminal" => u.terminal # NoFact,
           u.terminal.source = None <=> u.terminal.status = None
    PROVE  Successor(t, u)
<1>1. ShapeOK(u)
  BY DEF ShapeOK, Phases
<1>2. QED
  BY <1>1 DEF Successor, TargetOwningPhases

LEMMA RecordUnknownSafe ==
    ASSUME Inv, NEW id \in Present(tasks), tasks[id].phase \in {"bound", "terminal"},
           NEW c \in UnknownCodes, NEW now \in Time, RecordUnknown(id, c, now)
    PROVE  Inv'
<1> DEFINE t == tasks[id]
           u == [t EXCEPT !.unknown[c] = now, !.updated = now]
<1>1. t \in Task /\ ShapeOK(t)
  BY InvFacts DEF Present
<1>2. now \in Stamp /\ now # NoTime
  BY DEF Time, Stamp, NoTime
<1>3. u \in Task
  BY <1>1, <1>2 DEF Task
<1>4. Successor(t, u)
  <2>1. /\ u.phase = t.phase /\ u.updated = now /\ u.terminal = t.terminal
        /\ u.ref = t.ref /\ u.created = t.created /\ u.expires = t.expires /\ u.call = t.call
        /\ u.target = t.target /\ u.code = t.code /\ u.reason = t.reason /\ u.closed = t.closed
    BY <1>1 DEF Task
  <2> HIDE DEF u
  <2>2. QED
    BY <1>1, <1>2, <1>3, <2>1, FactSuccessor DEF ShapeOK
<1>5. Replay(id) \/ Update(id, u)
  BY DEF RecordUnknown
<1> HIDE DEF u
<1>6. QED
  BY <1>4, <1>5, ReplaySafe, UpdateSafe

LEMMA TerminalConflictSafe ==
    ASSUME Inv, NEW id \in Present(tasks), tasks[id].phase = "terminal",
           NEW now \in Time, TerminalConflict(id, now)
    PROVE  Inv'
<1>1. tasks[id] \in Task /\ ShapeOK(tasks[id])
  BY InvFacts DEF Present
<1>2. Successor(tasks[id], EnterReconcile(tasks[id], "terminal_status_conflict", now))
  BY <1>1, EnterReconcileSuccessor DEF ReconcileCodes
<1>3. QED
  BY <1>2, UpdateSafe DEF TerminalConflict

-----------------------------------------------------------------------------
(* One lemma per handler *)

LEMMA IdentifiedPresent ==
    ASSUME Inv, NEW id \in TaskIds, NEW ref, NEW target, Identified(id, ref, target)
    PROVE  id \in Present(tasks) /\ tasks[id] \in Task /\ ShapeOK(tasks[id])
BY InvFacts DEF Identified, Present

LEMMA ObservationSafe ==
    ASSUME Inv, NEW id \in TaskIds, NEW ref, NEW target, NEW status \in PlatformStatuses,
           NEW now \in Time, RecordPlatformObservation(id, ref, target, status, now)
    PROVE  Inv'
<1> DEFINE t == tasks[id]
           seen == [t EXCEPT !.observation = status, !.updated = now]
           ended == [seen EXCEPT !.phase = "terminal", !.terminal = Fact("platform", status)]
<1>1. CASE Refuse("conflict")
  BY <1>1, RefuseSafe DEF Replies
<1>2. CASE Identified(id, ref, target) /\ ~Refuse("conflict")
  <2>1. id \in Present(tasks) /\ t \in Task /\ ShapeOK(t)
    BY <1>2, IdentifiedPresent
  <2>2. now \in Stamp /\ now # NoTime
    BY DEF Time, Stamp, NoTime
  <2>3. ASSUME status # "unknown", t.phase \in {"bound", "terminal"}
        PROVE  Successor(t, seen)
    <3>1. seen \in Task
      BY <2>1, <2>2, <2>3 DEF Task
    <3>2. /\ seen.phase = t.phase /\ seen.updated = now /\ seen.terminal = t.terminal
          /\ seen.ref = t.ref /\ seen.created = t.created /\ seen.expires = t.expires
          /\ seen.call = t.call /\ seen.target = t.target /\ seen.code = t.code
          /\ seen.reason = t.reason /\ seen.closed = t.closed
      BY <2>1 DEF Task
    <3> HIDE DEF seen
    <3>3. QED
      BY <2>1, <2>2, <2>3, <3>1, <3>2, FactSuccessor DEF ShapeOK
  <2>4. ASSUME status \in TerminalStatuses, t.phase \in {"bound", "terminal"}
        PROVE  Successor(t, ended)
    <3>1. ended \in Task
      BY <2>1, <2>2, <2>4, FactType DEF Task, TerminalStatuses, PlatformStatuses, TerminalSources, Phases
    <3>2. ended.terminal # NoFact /\ ended.terminal.source # None /\ ended.terminal.status # None
      BY <2>1, <2>4, FactType DEF Task, TerminalSources
    <3>3. QED
      BY <2>1, <2>2, <2>4, <3>1, <3>2, FactSuccessor DEF Task
  <2>5. \/ Replay(id)
        \/ t.phase \in {"bound", "terminal"} /\ RecordUnknown(id, "observation", now)
        \/ t.phase = "terminal" /\ TerminalConflict(id, now)
        \/ /\ t.phase \in {"bound", "terminal"} /\ status \in TerminalStatuses
           /\ Update(id, ended)
        \/ t.phase \in {"bound", "terminal"} /\ status # "unknown" /\ Update(id, seen)
    BY <1>2 DEF RecordPlatformObservation, TerminalStatuses
  <2> HIDE DEF seen, ended
  <2>6. QED
    BY <2>1, <2>3, <2>4, <2>5, ReplaySafe, RecordUnknownSafe, TerminalConflictSafe, UpdateSafe
       DEF UnknownCodes
<1>3. QED
  BY <1>1, <1>2 DEF RecordPlatformObservation

LEMMA CallResultSafe ==
    ASSUME Inv, NEW id \in TaskIds, NEW ref, NEW target, NEW result \in CallResults,
           NEW now \in Time, RecordCallResult(id, ref, target, result, now)
    PROVE  Inv'
<1>1. CASE Refuse("conflict") \/ Refuse("done")
  BY <1>1, RefuseSafe DEF Replies
<1>2. CASE /\ Identified(id, ref, target)
           /\ \/ Replay(id)
              \/ tasks[id].phase \in {"bound", "terminal"} /\ RecordUnknown(id, "delivery", now)
  BY <1>2, IdentifiedPresent, ReplaySafe, RecordUnknownSafe DEF UnknownCodes
<1>3. QED
  BY <1>1, <1>2 DEF RecordCallResult

LEMMA NotificationSafe ==
    ASSUME Inv, NEW id \in TaskIds, NEW ref, NEW sender, NEW status \in TerminalStatuses,
           NEW now \in Time, RecordTerminalNotification(id, ref, sender, status, now)
    PROVE  Inv'
<1> DEFINE t == tasks[id]
           ended == [t EXCEPT !.phase = "terminal", !.terminal = Fact("notification", status),
                              !.updated = now]
<1>1. CASE Refuse("conflict")
  BY <1>1, RefuseSafe DEF Replies
<1>2. CASE Identified(id, ref, sender) /\ ~Refuse("conflict")
  <2>1. id \in Present(tasks) /\ t \in Task /\ ShapeOK(t)
    BY <1>2, IdentifiedPresent
  <2>2. ASSUME t.phase \in {"bound", "terminal"}
        PROVE  Successor(t, ended)
    <3>1. now \in Stamp /\ now # NoTime
      BY DEF Time, Stamp, NoTime
    <3>2. ended \in Task
      BY <2>1, <3>1, FactType DEF Task, TerminalSources, Phases
    <3>3. ended.terminal # NoFact /\ ended.terminal.source # None /\ ended.terminal.status # None
      BY <2>1, FactType DEF Task, TerminalSources
    <3>4. QED
      BY <2>1, <2>2, <3>1, <3>2, <3>3, FactSuccessor DEF Task
  <2>3. \/ Replay(id)
        \/ t.phase = "terminal" /\ TerminalConflict(id, now)
        \/ t.phase \in {"bound", "terminal"} /\ Update(id, ended)
    BY <1>2 DEF RecordTerminalNotification
  <2> HIDE DEF ended
  <2>4. QED
    BY <2>1, <2>2, <2>3, ReplaySafe, TerminalConflictSafe, UpdateSafe
<1>3. QED
  BY <1>1, <1>2 DEF RecordTerminalNotification
LEMMA InterruptSafe ==
    ASSUME Inv, NEW id \in TaskIds, NEW ref, NEW target, NEW result \in InterruptResults,
           NEW now \in Time, RecordInterruptResult(id, ref, target, result, now)
    PROVE  Inv'
<1> DEFINE t == tasks[id]
           noted == [t EXCEPT !.interrupt = result, !.updated = now]
           ended == [noted EXCEPT !.phase = "terminal", !.terminal = Fact("interrupt", "inactive")]
<1>1. CASE Refuse("conflict")
  BY <1>1, RefuseSafe DEF Replies
<1>2. CASE Identified(id, ref, target) /\ ~Refuse("conflict")
  <2>1. id \in Present(tasks) /\ t \in Task /\ ShapeOK(t)
    BY <1>2, IdentifiedPresent
  <2>2. now \in Stamp /\ now # NoTime
    BY DEF Time, Stamp, NoTime
  <2>3. ASSUME result # "unknown", t.phase \in {"bound", "terminal"}
        PROVE  Successor(t, noted)
    <3>1. noted \in Task
      BY <2>1, <2>2, <2>3 DEF Task, InterruptResults
    <3>2. /\ noted.phase = t.phase /\ noted.updated = now /\ noted.terminal = t.terminal
          /\ noted.ref = t.ref /\ noted.created = t.created /\ noted.expires = t.expires
          /\ noted.call = t.call /\ noted.target = t.target /\ noted.code = t.code
          /\ noted.reason = t.reason /\ noted.closed = t.closed
      BY <2>1 DEF Task
    <3> HIDE DEF noted
    <3>3. QED
      BY <2>1, <2>2, <2>3, <3>1, <3>2, FactSuccessor DEF ShapeOK
  <2>4. ASSUME result # "unknown", t.phase = "bound"
        PROVE  Successor(t, ended)
    <3>1. ended \in Task
      BY <2>1, <2>2, <2>4, FactType DEF Task, TerminalSources, Phases, InterruptResults
    <3>2. ended.terminal # NoFact /\ ended.terminal.source # None /\ ended.terminal.status # None
      BY <2>1, FactType DEF Task, TerminalSources
    <3>3. QED
      BY <2>1, <2>2, <2>4, <3>1, <3>2, FactSuccessor DEF Task
  <2>5. \/ Replay(id)
        \/ t.phase \in {"bound", "terminal"} /\ RecordUnknown(id, "interrupt", now)
        \/ t.phase \in {"bound", "terminal"} /\ result # "unknown" /\ Update(id, noted)
        \/ t.phase = "bound" /\ result # "unknown" /\ Update(id, ended)
    BY <1>2 DEF RecordInterruptResult
  <2> HIDE DEF noted, ended
  <2>6. QED
    BY <2>1, <2>3, <2>4, <2>5, ReplaySafe, RecordUnknownSafe, UpdateSafe DEF UnknownCodes
<1>3. QED
  BY <1>1, <1>2 DEF RecordInterruptResult

LEMMA CloseSafe ==
    ASSUME Inv, NEW id \in TaskIds, NEW ref \in Refs, NEW reason \in Reasons, NEW now \in Time,
           CloseTask(id, ref, reason, now)
    PROVE  Inv'
<1> DEFINE t == tasks[id]
<1>1. CASE Refuse("conflict")
  BY <1>1, RefuseSafe DEF Replies
<1>2. CASE t.phase = "closed" /\ Replay(id)
  BY <1>2, ReplaySafe DEF Present
<1>3. CASE t.phase \notin {"absent", "closed"} /\ Update(id, CloseRecord(t, reason, now))
  <2>1. id \in Present(tasks) /\ t \in Task /\ ShapeOK(t)
    BY <1>3, InvFacts DEF Present
  <2>2. Successor(t, CloseRecord(t, reason, now))
    BY <1>3, <2>1, CloseRecordSuccessor
  <2>3. QED
    BY <1>3, <2>1, <2>2, UpdateSafe
<1>4. QED
  BY <1>1, <1>2, <1>3 DEF CloseTask

\* What survives a settled dispatch has neither facts nor a target, like the prepared or
\* claimed record it came from.
LEMMA CommonFieldsType ==
    ASSUME NEW t \in Task
    PROVE  /\ CommonFields(t) \in Task
           /\ CommonFields(t).ref = t.ref /\ CommonFields(t).created = t.created
           /\ CommonFields(t).phase = "absent" /\ CommonFields(t).expires = NoTime
           /\ CommonFields(t).call = None /\ CommonFields(t).target = None
           /\ CommonFields(t).observation = None /\ CommonFields(t).terminal = NoFact
           /\ CommonFields(t).interrupt = None /\ CommonFields(t).unknown = NoUnknown
           /\ CommonFields(t).code = None /\ CommonFields(t).reason = None
           /\ CommonFields(t).closed = NoTime
<1> DEFINE c == CommonFields(t)
<1>1. c = [Absent EXCEPT !.ref = t.ref, !.created = t.created]
  BY DEF CommonFields
<1>2. Absent \in Task
  BY AbsentTask
<1>3. t.ref \in Refs \cup {None} /\ t.created \in Stamp
  BY DEF Task
<1>4. c \in Task
  BY <1>1, <1>2, <1>3 DEF Task
<1>5. QED
  BY <1>1, <1>4 DEF Absent

LEMMA DispatchResultSafe ==
    ASSUME Inv, NEW id \in TaskIds, NEW ref \in Refs, NEW result, NEW now \in Time,
           RecordDispatchResult(id, ref, result, now)
    PROVE  Inv'
<1> DEFINE t == tasks[id]
           failed == CloseRecord(CommonFields(t), DispatchFailed, now)
           unsure == EnterReconcile(CommonFields(t), "dispatch_result_unknown", now)
<1>1. CASE Refuse("conflict")
  BY <1>1, RefuseSafe DEF Replies
<1>2. CASE t.phase \in {"prepared", "claimed"} /\ (Update(id, failed) \/ Update(id, unsure))
  <2>1. id \in Present(tasks) /\ t \in Task /\ ShapeOK(t)
    BY <1>2, InvFacts DEF Present
  <2>2. now \in Stamp /\ now # NoTime
    BY DEF Time, Stamp, NoTime
  <2>3. t.target = None /\ t.ref # None /\ t.created # NoTime /\ t.ref \in Refs \cup {None} /\ t.created \in Stamp
    BY <1>2, <2>1 DEF ShapeOK, Task
  <2>4. Successor(t, failed)
    <3> DEFINE c == CommonFields(t)
    <3>1. c \in Task /\ failed = [c EXCEPT !.phase = "closed", !.updated = now, !.reason = DispatchFailed,
                                           !.closed = now, !.expires = NoTime, !.call = None]
      BY <2>1, CommonFieldsType DEF CloseRecord
    <3> HIDE DEF c
    <3>2. failed \in Task
      BY <2>2, <3>1 DEF Task, Phases
    <3>3. /\ failed.phase = "closed" /\ failed.updated = now /\ failed.reason = DispatchFailed
          /\ failed.closed = now /\ failed.expires = NoTime /\ failed.call = None
          /\ failed.ref = c.ref /\ failed.created = c.created /\ failed.target = c.target
          /\ failed.terminal = c.terminal /\ failed.unknown = c.unknown
      BY <3>1 DEF Task
    <3> HIDE DEF failed
    <3> USE DEF c
    <3>4. ShapeOK(failed)
      BY <2>1, <2>2, <2>3, <3>3, CommonFieldsType DEF ShapeOK, Phases, NoFact, None, DispatchFailed
    <3>5. QED
      BY <2>1, <2>3, <3>2, <3>3, <3>4, CommonFieldsType DEF Successor, TargetOwningPhases
  <2>5. Successor(t, unsure)
    <3> DEFINE c == CommonFields(t)
    <3>1. c \in Task /\ unsure = [c EXCEPT !.phase = "reconcile", !.updated = now,
                                           !.code = "dispatch_result_unknown",
                                           !.expires = NoTime, !.call = None]
      BY <2>1, CommonFieldsType DEF EnterReconcile
    <3> HIDE DEF c
    <3>2. unsure \in Task
      BY <2>2, <3>1 DEF Task, Phases, ReconcileCodes
    <3>3. /\ unsure.phase = "reconcile" /\ unsure.updated = now
          /\ unsure.code = "dispatch_result_unknown"
          /\ unsure.expires = NoTime /\ unsure.call = None
          /\ unsure.ref = c.ref /\ unsure.created = c.created /\ unsure.target = c.target
          /\ unsure.reason = c.reason /\ unsure.closed = c.closed
          /\ unsure.terminal = c.terminal /\ unsure.unknown = c.unknown
      BY <3>1 DEF Task
    <3> HIDE DEF unsure
    <3> USE DEF c
    <3>4. ShapeOK(unsure)
      BY <2>1, <2>2, <2>3, <3>3, CommonFieldsType DEF ShapeOK, Phases, NoFact, None
    <3>5. QED
      BY <2>1, <2>3, <3>2, <3>3, <3>4, CommonFieldsType DEF Successor
  <2> HIDE DEF failed, unsure
  <2>6. QED
    BY <1>2, <2>1, <2>4, <2>5, UpdateSafe
<1>3. QED
  BY <1>1, <1>2 DEF RecordDispatchResult
-----------------------------------------------------------------------------
(* Transactions that add to the history *)

LEMMA HistoryStoreSafe ==
    ASSUME Inv, NEW tt \in Ledger, WellFormed(tt), NEW admission, Store(tt, admission),
           NEW calls \in [TaskIds -> SUBSET CallIds], NEW targets \in [TaskIds -> SUBSET Targets],
           granted' = (IF reply' = "done" THEN calls ELSE granted),
           told' = (IF reply' = "done" THEN targets ELSE told),
           HistoryOK(tt, calls, targets)
    PROVE  Inv'
<1>1. /\ reply' \in Replies \ {"invalid"}
      /\ \/ reply' = "done" /\ tasks' = tt
         \/ reply' # "done" /\ tasks' = tasks
  BY StoreOutcome
<1>2. CASE reply' # "done"
  BY <1>1, <1>2 DEF Inv, TypeOK, ValidatorNeverFires, HistoryInv, HistoryOK, WellFormed, RefsDistinct,
     TargetsDistinct, Present, Owners
<1>3. CASE reply' = "done"
  <2>1. tasks' = tt /\ granted' = calls /\ told' = targets
    BY <1>1, <1>3
  <2>2. TypeOK' /\ ValidatorNeverFires'
    BY <1>1, <2>1 DEF TypeOK, ValidatorNeverFires, Ledger
  <2>3. WellFormed(tasks)'
    BY <2>1 DEF WellFormed, RefsDistinct, TargetsDistinct, Present, Owners
  <2>4. HistoryInv'
    BY <2>1 DEF HistoryInv, HistoryOK
  <2>5. QED
    BY <2>2, <2>3, <2>4 DEF Inv
<1>4. QED
  BY <1>2, <1>3

\* The pruned ledger has the history of the current one.
LEMMA PrunedHistory ==
    ASSUME Inv
    PROVE  HistoryOK(Pruned, granted, told)
<1> SUFFICES ASSUME NEW i \in TaskIds
             PROVE  /\ Pruned[i].phase = "prepared" => granted[i] = {}
                    /\ Pruned[i].phase = "claimed" => granted[i] = {Pruned[i].call}
                    /\ Pruned[i].target # None => granted[i] # {}
                    /\ Pruned[i].phase # "absent" => /\ \A x, y \in granted[i] : x = y
                                                     /\ told[i] \subseteq {Pruned[i].target}
  BY DEF HistoryOK
<1>1. CASE Pruned[i] = tasks[i]
  BY <1>1 DEF Inv, HistoryInv, HistoryOK
<1>2. CASE Pruned[i] = Absent
  BY <1>2, AbsentTask
<1>3. QED
  BY <1>1, <1>2, PrunedFacts

\* Telling a caller again what the record says.
LEMMA TellSafe ==
    ASSUME Inv, NEW id \in Present(Pruned), NEW target \in Targets,
           Pruned[id].target = target, Tell(id, target)
    PROVE  Inv'
<1> DEFINE targets == [told EXCEPT ![id] = @ \cup {target}]
<1>1. id \in TaskIds /\ Pruned[id].phase # "absent"
  BY DEF Present
<1>2. targets \in [TaskIds -> SUBSET Targets]
  BY <1>1, InvFacts
<1>3. HistoryOK(Pruned, granted, targets)
  BY <1>1, PrunedHistory, InvFacts DEF HistoryOK
<1>4. /\ Store(Pruned, "existing")
      /\ granted' = (IF reply' = "done" THEN granted ELSE granted)
      /\ told' = (IF reply' = "done" THEN targets ELSE told)
  BY DEF Tell
<1> HIDE DEF targets
<1>5. QED
  BY <1>2, <1>3, <1>4, PrunedFacts, InvFacts, HistoryStoreSafe

\* Binding a claimed task to a target no other open task owns.
LEMMA BindSafe ==
    ASSUME Inv, NEW id \in TaskIds, NEW target \in Targets, NEW now \in Time,
           Pruned[id].phase = "claimed", ~OtherOwner(Pruned, id, target), Bind(id, target, now)
    PROVE  Inv'
<1> DEFINE t == Pruned[id]
           c == CommonFields(t)
           u == [c EXCEPT !.phase = "bound", !.updated = now, !.target = target]
           tt == [Pruned EXCEPT ![id] = u]
           targets == [told EXCEPT ![id] = @ \cup {target}]
<1>1. Pruned \in Ledger /\ WellFormed(Pruned) /\ t \in Task /\ ShapeOK(t) /\ id \in Present(Pruned)
  BY PrunedFacts DEF Ledger, WellFormed, Present
<1>2. c \in Task
  BY <1>1, CommonFieldsType
<1>3. now \in Stamp /\ now # NoTime /\ target # None
  BY IdAssumption DEF Time, Stamp, NoTime
<1>4. u \in Task
  BY <1>2, <1>3 DEF Task, Phases
<1>5. /\ u.phase = "bound" /\ u.updated = now /\ u.target = target /\ u.ref = c.ref
      /\ u.created = c.created /\ u.expires = c.expires /\ u.call = c.call /\ u.code = c.code
      /\ u.terminal = c.terminal /\ u.reason = c.reason /\ u.closed = c.closed
  BY <1>2 DEF Task
<1> HIDE DEF u
<1>6. ShapeOK(u)
  BY <1>1, <1>3, <1>5, CommonFieldsType DEF ShapeOK, Phases, NoFact, None
<1>7. \A i \in Present(Pruned) \ {id} : Pruned[i].ref # u.ref
  BY <1>1, <1>5, CommonFieldsType DEF WellFormed, RefsDistinct
<1>8. \A i \in Owners(Pruned) \ {id} : Pruned[i].target # u.target
  BY <1>5 DEF OtherOwner
<1>9. tt \in Ledger /\ WellFormed(tt)
  BY <1>1, <1>4, <1>6, <1>7, <1>8, ReplaceWellFormed
<1>10. targets \in [TaskIds -> SUBSET Targets]
  BY InvFacts
<1>11. HistoryOK(tt, granted, targets)
  <2> SUFFICES ASSUME NEW i \in TaskIds
               PROVE  /\ tt[i].phase = "prepared" => granted[i] = {}
                      /\ tt[i].phase = "claimed" => granted[i] = {tt[i].call}
                      /\ tt[i].target # None => granted[i] # {}
                      /\ tt[i].phase # "absent" => /\ \A x, y \in granted[i] : x = y
                                                   /\ targets[i] \subseteq {tt[i].target}
    BY DEF HistoryOK
  <2>1. CASE i # id
    <3>1. tt[i] = Pruned[i] /\ targets[i] = told[i]
      BY <2>1, <1>1, InvFacts DEF Ledger
    <3>2. QED
      BY <3>1, PrunedHistory DEF HistoryOK
  <2>2. CASE i = id
    <3>1. tt[i] = u /\ targets[i] = told[i] \cup {target}
      BY <2>2, <1>1, InvFacts DEF Ledger
    <3>2. granted[i] = {t.call} /\ t.call \in CallIds
      BY <2>2, <1>1, PrunedHistory DEF HistoryOK, ShapeOK, Task
    <3>3. told[i] \subseteq {t.target} /\ t.target = None
      BY <2>2, <1>1, PrunedHistory DEF HistoryOK, ShapeOK
    <3>4. told[i] = {}
      BY <3>3, InvFacts, IdAssumption
    <3>5. QED
      BY <3>1, <3>2, <3>4, <1>5
  <2>3. QED
    BY <2>1, <2>2
<1>12. /\ Store(tt, "existing")
       /\ granted' = (IF reply' = "done" THEN granted ELSE granted)
       /\ told' = (IF reply' = "done" THEN targets ELSE told)
  BY DEF Bind, u
<1> HIDE DEF tt, targets
<1>13. QED
  BY <1>9, <1>10, <1>11, <1>12, InvFacts, HistoryStoreSafe
\* A confirmation that contradicts the record.
LEMMA ReconcileSafe ==
    ASSUME Inv, NEW id \in Present(Pruned), Pruned[id].phase # "closed",
           NEW code \in ReconcileCodes, NEW now \in Time, Reconcile(id, code, now)
    PROVE  Inv'
<1> DEFINE u == EnterReconcile(tasks[id], code, now)
           tt == [Pruned EXCEPT ![id] = u]
<1>1. id \in TaskIds /\ Pruned[id] = tasks[id] /\ tasks[id] \in Task /\ ShapeOK(tasks[id])
  BY PrunedFacts, AbsentTask DEF Present, Ledger, WellFormed
<1>2. Successor(tasks[id], u)
  BY <1>1, EnterReconcileSuccessor
<1>3. Store(tt, "existing") /\ UNCHANGED <<granted, told>>
  BY <1>1 DEF Reconcile
<1> HIDE DEF u
<1>4. tt \in Ledger /\ WellFormed(tt) /\ Advanced(tt)
  BY <1>2, PrunedFacts, SuccessorWellFormed
<1> HIDE DEF tt
<1>5. QED
  BY <1>3, <1>4, StoreSafe

LEMMA ConfirmSafe ==
    ASSUME Inv, NEW id \in TaskIds, NEW ref \in Refs, NEW target \in Targets, NEW now \in Time,
           ConfirmDispatch(id, ref, target, now)
    PROVE  Inv'
<1> DEFINE t == Pruned[id]
<1>1. CASE Refuse("conflict")
  BY <1>1, RefuseSafe DEF Replies
<1>2. CASE t.phase # "absent" /\ t.target = target /\ Tell(id, target)
  BY <1>2, TellSafe DEF Present
<1>3. CASE /\ t.phase \notin {"absent", "closed"}
           /\ \E code \in ReconcileCodes : Reconcile(id, code, now)
  BY <1>3, ReconcileSafe DEF Present
<1>4. CASE Store(Pruned, "existing") /\ UNCHANGED <<granted, told>>
  BY <1>4, PrunedFacts, StoreSafe DEF Advanced
<1>5. CASE t.phase = "claimed" /\ ~OtherOwner(Pruned, id, target) /\ Bind(id, target, now)
  BY <1>5, BindSafe
<1>6. QED
  BY <1>1, <1>2, <1>3, <1>4, <1>5 DEF ConfirmDispatch, Repeats, ReconcileCodes

\* The call that holds the capability is told again.
LEMMA GrantAgainSafe ==
    ASSUME Inv, NEW id \in TaskIds, NEW call \in CallIds,
           Pruned[id].phase = "claimed", Pruned[id].call = call, Grant(id, call, Pruned)
    PROVE  Inv'
<1> DEFINE calls == [granted EXCEPT ![id] = @ \cup {call}]
<1>1. calls \in [TaskIds -> SUBSET CallIds]
  BY InvFacts
<1>2. HistoryOK(Pruned, calls, told)
  <2>1. granted[id] = {call}
    BY PrunedHistory DEF HistoryOK
  <2>2. calls = granted
    BY <2>1, InvFacts
  <2>3. QED
    BY <2>2, PrunedHistory
<1>3. /\ Store(Pruned, "existing")
      /\ granted' = (IF reply' = "done" THEN calls ELSE granted)
      /\ told' = (IF reply' = "done" THEN told ELSE told)
  BY DEF Grant
<1> HIDE DEF calls
<1>4. QED
  BY <1>1, <1>2, <1>3, PrunedFacts, InvFacts, HistoryStoreSafe

\* The first call to quote a prepared capability gets it.
LEMMA GrantSafe ==
    ASSUME Inv, NEW id \in TaskIds, NEW call \in CallIds, NEW now \in Time,
           Pruned[id].phase = "prepared",
           Grant(id, call, [Pruned EXCEPT ![id] = [Pruned[id] EXCEPT !.phase = "claimed", !.call = call,
                                                                     !.updated = now]])
    PROVE  Inv'
<1> DEFINE t == Pruned[id]
           u == [t EXCEPT !.phase = "claimed", !.call = call, !.updated = now]
           tt == [Pruned EXCEPT ![id] = u]
           calls == [granted EXCEPT ![id] = @ \cup {call}]
<1>1. Pruned \in Ledger /\ WellFormed(Pruned) /\ t \in Task /\ ShapeOK(t) /\ id \in Present(Pruned)
  BY PrunedFacts DEF Ledger, WellFormed, Present
<1>2. now \in Stamp /\ now # NoTime /\ call # None
  BY IdAssumption DEF Time, Stamp, NoTime
<1>3. u \in Task
  BY <1>1, <1>2 DEF Task, Phases
<1>4. ShapeOK(u)
  BY <1>1, <1>2 DEF ShapeOK, Task, Phases
<1>5. u.phase = "claimed" /\ u.call = call /\ u.ref = t.ref /\ u.target = t.target
  BY <1>1 DEF Task
<1> HIDE DEF u
<1>6. \A i \in Present(Pruned) \ {id} : Pruned[i].ref # u.ref
  BY <1>1, <1>5 DEF WellFormed, RefsDistinct
<1>7. tt \in Ledger /\ WellFormed(tt)
  BY <1>1, <1>3, <1>4, <1>5, <1>6, ReplaceWellFormed DEF TargetOwningPhases
<1>8. calls \in [TaskIds -> SUBSET CallIds]
  BY InvFacts
<1>9. HistoryOK(tt, calls, told)
  <2> SUFFICES ASSUME NEW i \in TaskIds
               PROVE  /\ tt[i].phase = "prepared" => calls[i] = {}
                      /\ tt[i].phase = "claimed" => calls[i] = {tt[i].call}
                      /\ tt[i].target # None => calls[i] # {}
                      /\ tt[i].phase # "absent" => /\ \A x, y \in calls[i] : x = y
                                                   /\ told[i] \subseteq {tt[i].target}
    BY DEF HistoryOK
  <2>1. CASE i # id
    <3>1. tt[i] = Pruned[i] /\ calls[i] = granted[i]
      BY <2>1, <1>1, InvFacts DEF Ledger
    <3>2. QED
      BY <3>1, PrunedHistory DEF HistoryOK
  <2>2. CASE i = id
    <3>1. tt[i] = u /\ calls[i] = granted[i] \cup {call}
      BY <2>2, <1>1, InvFacts DEF Ledger
    <3>2. granted[i] = {} /\ told[i] \subseteq {t.target}
      BY <2>2, <1>1, PrunedHistory DEF HistoryOK, Present
    <3>3. QED
      BY <3>1, <3>2, <1>5
  <2>3. QED
    BY <2>1, <2>2
<1>10. /\ Store(tt, "existing")
       /\ granted' = (IF reply' = "done" THEN calls ELSE granted)
       /\ told' = (IF reply' = "done" THEN told ELSE told)
  BY DEF Grant, u
<1> HIDE DEF tt, calls
<1>11. QED
  BY <1>7, <1>8, <1>9, <1>10, InvFacts, HistoryStoreSafe

LEMMA ClaimSafe ==
    ASSUME Inv, NEW id \in TaskIds, NEW call \in CallIds, NEW args, NEW material,
           NEW now \in Time, ClaimSpawn(id, call, args, material, now)
    PROVE  Inv'
<1> DEFINE t == Pruned[id]
<1>1. CASE \E why \in {"conflict", "unavailable", "expired"} : Refuse(why)
  BY <1>1, RefuseSafe DEF Replies
<1>2. CASE t.phase = "claimed" /\ t.call = call /\ Grant(id, call, Pruned)
  BY <1>2, GrantAgainSafe
<1>3. CASE /\ t.phase = "prepared"
           /\ Grant(id, call, [Pruned EXCEPT ![id] = [t EXCEPT !.phase = "claimed", !.call = call,
                                                               !.updated = now]])
  BY <1>3, GrantSafe
<1>4. QED
  BY <1>1, <1>2, <1>3 DEF ClaimSpawn, HeldBy

\* A new task starts with the ref no other record has, and with no history.
LEMMA PrepareSafe ==
    ASSUME Inv, NEW first \in TaskIds, NEW second \in TaskIds, NEW now \in Time,
           PrepareDispatch(first, second, now)
    PROVE  Inv'
<1> DEFINE id == IF Usable(first) THEN first ELSE second
           ref == SelectTaskRef(id)
           u == InitialTaskRecord(ref, now)
           tt == [tasks EXCEPT ![id] = u]
           pp == Prune(tt, "new_task")
           calls == [granted EXCEPT ![id] = {}]
           targets == [told EXCEPT ![id] = {}]
<1>1. CASE Refuse("conflict")
  BY <1>1, RefuseSafe DEF Replies
<1>2. CASE /\ Usable(id) /\ Store(pp, "new_task")
           /\ granted' = IF reply' = "done" THEN calls ELSE granted
           /\ told' = IF reply' = "done" THEN targets ELSE told
  <2>1. id \in TaskIds /\ id \notin Present(tasks) /\ ref # None
    BY <1>2 DEF Usable
  <2> HIDE DEF id
  <2>2. ref \in Refs /\ ref \notin Occupied
    BY <2>1, IdAssumption DEF SelectTaskRef
  <2> HIDE DEF ref
  <2>3. now \in Stamp /\ now # NoTime /\ now + Expiry \in 0..(MaxTime + Expiry) /\ now + Expiry # NoTime
    BY LimitAssumption DEF Time, Stamp, NoTime
  <2>4. u \in Task
    <3>1. u = [Absent EXCEPT !.phase = "prepared", !.ref = ref, !.created = now,
                             !.updated = now, !.expires = now + Expiry]
      BY DEF InitialTaskRecord
    <3>2. Absent \in Task
      BY AbsentTask
    <3> HIDE DEF u
    <3>3. QED
      BY <2>2, <2>3, <3>1, <3>2 DEF Task, Phases
  <2>5. /\ u.phase = "prepared" /\ u.ref = ref /\ u.created = now /\ u.updated = now
        /\ u.expires = now + Expiry /\ u.call = None /\ u.target = None /\ u.observation = None
        /\ u.interrupt = None /\ u.terminal = NoFact /\ u.unknown = NoUnknown /\ u.code = None
        /\ u.reason = None /\ u.closed = NoTime
    BY AbsentTask DEF InitialTaskRecord, Absent
  <2> HIDE DEF u
  <2>6. ShapeOK(u)
    BY <2>1, <2>3, <2>5 DEF ShapeOK, Phases, NoFact, None
  <2>7. \A i \in Present(tasks) \ {id} : tasks[i].ref # u.ref
    BY <2>2, <2>5 DEF Occupied
  <2>8. tt \in Ledger /\ WellFormed(tt)
    BY <2>1, <2>4, <2>5, <2>6, <2>7, InvFacts, ReplaceWellFormed DEF TargetOwningPhases
  <2>9. tt[id] = u /\ \A i \in TaskIds \ {id} : tt[i] = tasks[i]
    BY <2>1, InvFacts DEF Ledger
  <2> HIDE DEF tt
  <2>10. /\ pp \in Ledger
         /\ \A i \in TaskIds : pp[i] = tt[i] \/ (tt[i].phase = "closed" /\ pp[i] = Absent)
    BY <2>8, PruneKeeps
  <2> HIDE DEF pp
  <2>11. WellFormed(pp)
    BY <2>8, <2>10, FewerWellFormed
  <2>12. calls \in [TaskIds -> SUBSET CallIds] /\ targets \in [TaskIds -> SUBSET Targets]
    BY InvFacts
  <2>13. HistoryOK(pp, calls, targets)
    <3> SUFFICES ASSUME NEW i \in TaskIds
                 PROVE  /\ pp[i].phase = "prepared" => calls[i] = {}
                        /\ pp[i].phase = "claimed" => calls[i] = {pp[i].call}
                        /\ pp[i].target # None => calls[i] # {}
                        /\ pp[i].phase # "absent" => /\ \A x, y \in calls[i] : x = y
                                                     /\ targets[i] \subseteq {pp[i].target}
      BY DEF HistoryOK
    <3>1. CASE pp[i] = Absent
      BY <3>1, AbsentTask
    <3>2. CASE i = id /\ pp[i] # Absent
      <4>1. pp[i] = u /\ calls[i] = {} /\ targets[i] = {}
        BY <3>2, <2>9, <2>10, InvFacts
      <4>2. QED
        BY <4>1, <2>5
    <3>3. CASE i # id /\ pp[i] # Absent
      <4>1. pp[i] = tasks[i] /\ calls[i] = granted[i] /\ targets[i] = told[i]
        BY <3>3, <2>9, <2>10, InvFacts
      <4>2. QED
        BY <4>1 DEF Inv, HistoryInv, HistoryOK
    <3>4. QED
      BY <3>1, <3>2, <3>3
  <2> HIDE DEF calls, targets
  <2>14. QED
    BY <1>2, <2>10, <2>11, <2>12, <2>13, HistoryStoreSafe
<1>3. QED
  BY <1>1, <1>2 DEF PrepareDispatch
-----------------------------------------------------------------------------
(* The invariant holds of every reachable state *)

LEMMA InitInv == Init => Inv
<1> SUFFICES ASSUME Init PROVE Inv
  OBVIOUS
<1>1. TypeOK /\ ValidatorNeverFires
  BY AbsentTask DEF Init, TypeOK, ValidatorNeverFires, Replies
<1>2. WellFormed(tasks)
  BY AbsentTask DEF Init, WellFormed, RefsDistinct, TargetsDistinct, Present, Owners
<1>3. HistoryInv
  BY AbsentTask DEF Init, HistoryInv, HistoryOK
<1>4. QED
  BY <1>1, <1>2, <1>3 DEF Inv

LEMMA StepInv == Inv /\ [Next]_vars => Inv'
<1> SUFFICES ASSUME Inv, [Next]_vars PROVE Inv'
  OBVIOUS
<1>1. CASE UNCHANGED vars
  BY <1>1 DEF vars, Inv, TypeOK, ValidatorNeverFires, HistoryInv, HistoryOK, WellFormed,
     RefsDistinct, TargetsDistinct, Present, Owners
<1>2. CASE Prepares
  BY <1>2, PrepareSafe DEF Prepares
<1>3. CASE Claims
  <2>1. CASE \E ref \in Refs : ClaimUnknownRef(ref)
    BY <2>1, RefuseSafe DEF ClaimUnknownRef, Replies
  <2>2. CASE \E id \in TaskIds, call \in CallIds, now \in Time : \E args, material :
               ClaimSpawn(id, call, args, material, now)
    BY <2>2, ClaimSafe
  <2>3. QED
    BY <1>3, <2>1, <2>2 DEF Claims
<1>4. CASE Confirms
  BY <1>4, ConfirmSafe DEF Confirms
<1>5. CASE DispatchResults
  BY <1>5, DispatchResultSafe DEF DispatchResults
<1>6. CASE Observations
  BY <1>6, ObservationSafe DEF Observations
<1>7. CASE CallReports
  BY <1>7, CallResultSafe DEF CallReports
<1>8. CASE Notifications
  BY <1>8, NotificationSafe DEF Notifications
<1>9. CASE InterruptReports
  BY <1>9, InterruptSafe DEF InterruptReports
<1>10. CASE Closes
  BY <1>10, CloseSafe DEF Closes
<1>11. QED
  BY <1>1, <1>2, <1>3, <1>4, <1>5, <1>6, <1>7, <1>8, <1>9, <1>10 DEF Next

LEMMA Invariance == Spec => []Inv
BY InitInv, StepInv, PTL DEF Spec

\* The invariant implies the properties the runs check.
LEMMA InvImplies ==
    Inv => TypeOK /\ ValidatorNeverFires /\ OneGrantPerCapability /\ FirstBindWins
<1> SUFFICES ASSUME Inv
             PROVE  OneGrantPerCapability /\ FirstBindWins
  BY DEF Inv
<1>1. ASSUME NEW id \in Present(tasks)
      PROVE  Cardinality(granted[id]) <= 1
  <2>1. \A x, y \in granted[id] : x = y
    BY <1>1 DEF Inv, HistoryInv, HistoryOK, Present
  <2>2. CASE granted[id] = {}
    BY <2>2, FS_EmptySet
  <2>3. CASE \E c : granted[id] = {c}
    BY <2>3, FS_Singleton
  <2>4. QED
    BY <2>1, <2>2, <2>3
<1>2. \A id \in Present(tasks) : tasks[id].target # None => granted[id] # {}
  BY DEF Inv, HistoryInv, HistoryOK, Present
<1>3. FirstBindWins
  BY DEF Inv, HistoryInv, HistoryOK, FirstBindWins, Present
<1>4. QED
  BY <1>1, <1>2, <1>3 DEF OneGrantPerCapability

\* Every variable keeps its type, for any number of tasks, agents and calls.
THEOREM TypeCorrect == Spec => []TypeOK
BY Invariance, InvImplies, PTL

\* No sequence of operations computes a ledger the strict validator refuses: the
\* validator in StateStore.update never has to stop a transition.
THEOREM ValidatorSilent == Spec => []ValidatorNeverFires
BY Invariance, InvImplies, PTL

\* However many native calls quote a task's ref, at most one of them is told that
\* it holds the prepared capability, and a task that names an agent was claimed by one.
THEOREM CapabilityHeldOnce == Spec => []OneGrantPerCapability
BY Invariance, InvImplies, PTL

\* Every confirmation that is told "bound", "already_bound" or "already_closed" is
\* told the target of the first binding.
THEOREM BindingFixed == Spec => []FirstBindWins
BY Invariance, InvImplies, PTL
-----------------------------------------------------------------------------
(* What a record keeps and how its facts agree.  Every operation of the ledger    *)
(* changes a record in one of a few ways, and stores the result in one of a few;  *)
(* the properties are proved of those.                                            *)

\* A reconcile code the record itself bears out.
Warrants(t, code) ==
    /\ t.phase \notin {"absent", "closed", "reconcile"}
    /\ code = "dispatch_claim_missing" => t.phase = "prepared"
    /\ code = "dispatch_target_already_bound" => t.phase = "claimed"
    /\ code = "dispatch_target_conflict" => t.phase \in {"bound", "terminal"}
    /\ code = "terminal_status_conflict" => t.terminal.status \in TerminalStatuses
    /\ code # "dispatch_result_unknown"

\* What a fact about a bound or ended task does to its record.
FactStep(t, u, now) ==
    \/ /\ t.phase = "bound"
       /\ \E s \in {"running", "error"} : u = [t EXCEPT !.observation = s, !.updated = now]
    \/ /\ t.phase = "terminal"
       /\ \E s \in TerminalStatuses :
             t.terminal.status = s /\ u = [t EXCEPT !.observation = s, !.updated = now]
    \/ /\ t.phase = "bound" \/ t.terminal.status = "inactive"
       /\ \E s \in TerminalStatuses :
             \/ u = [t EXCEPT !.observation = s, !.updated = now, !.phase = "terminal",
                              !.terminal = Fact("platform", s)]
             \/ u = [t EXCEPT !.phase = "terminal", !.terminal = Fact("notification", s),
                              !.updated = now]
    \/ t.phase = "bound" /\ u = [t EXCEPT !.interrupt = "failed", !.updated = now]
    \/ t.phase = "terminal" /\ u = [t EXCEPT !.interrupt = "inactive", !.updated = now]
    \/ /\ t.phase = "bound"
       /\ u = [t EXCEPT !.interrupt = "inactive", !.updated = now, !.phase = "terminal",
                        !.terminal = Fact("interrupt", "inactive")]
    \/ \E c \in UnknownCodes :
          t.unknown[c] = NoTime /\ u = [t EXCEPT !.unknown[c] = now, !.updated = now]

\* What an operation may put in the place of the record t.
RecordStep(t, u) == \E now \in Time :
    \/ /\ t.phase = "prepared"
       /\ \E call \in CallIds :
             u = [t EXCEPT !.phase = "claimed", !.call = call, !.updated = now]
    \/ /\ t.phase = "claimed"
       /\ \E target \in Targets :
             u = [CommonFields(t) EXCEPT !.phase = "bound", !.updated = now, !.target = target]
    \/ \E code \in ReconcileCodes : Warrants(t, code) /\ u = EnterReconcile(t, code, now)
    \/ /\ t.phase \in {"prepared", "claimed"}
       /\ \/ u = CloseRecord(CommonFields(t), DispatchFailed, now)
          \/ u = EnterReconcile(CommonFields(t), "dispatch_result_unknown", now)
    \/ t.phase \in {"bound", "terminal"} /\ FactStep(t, u, now)
    \/ /\ t.phase \notin {"absent", "closed"}
       /\ \E reason \in Reasons : u = CloseRecord(t, reason, now)

\* What a step may do to one record: nothing, its eviction, the start of a new one, or
\* one of the changes above; who was granted the capability changes with it only while
\* there is one.
Evolves(t, u) ==
    \/ u = t
    \/ u = Absent
    \/ /\ t.phase = "absent"
       /\ \E ref \in Refs, now \in Time : u = InitialTaskRecord(ref, now)
    \/ RecordStep(t, u)
StepOf(i) ==
    /\ Evolves(tasks[i], tasks'[i])
    /\ granted'[i] = granted[i] \/ tasks'[i].phase \in {"absent", "prepared", "claimed"}

\* What a step asks the store to write, and how: nothing, the ledger as it is, one record
\* changed, or a new task.
Answers == {"done", "conflict", "expired", "unavailable"}
Transaction ==
    \/ UNCHANGED tasks /\ (UNCHANGED reply \/ reply' \in Answers)
    \/ Store(Pruned, "existing")
    \/ \E id \in TaskIds : \E u :
          /\ u = tasks[id] \/ RecordStep(tasks[id], u)
          /\ \/ Store(Prune([tasks EXCEPT ![id] = u], "existing"), "existing")
             \/ u.phase # "closed" /\ Store([Pruned EXCEPT ![id] = u], "existing")
    \/ \E id \in TaskIds, ref \in Refs, now \in Time :
          /\ tasks[id].phase = "absent"
          /\ Store(Prune([tasks EXCEPT ![id] = InitialTaskRecord(ref, now)], "new_task"), "new_task")

Evolution == (\A i \in TaskIds : StepOf(i)) /\ Transaction

-----------------------------------------------------------------------------
(* Every operation makes such a step *)

LEMMA UnchangedEvolves ==
    ASSUME UNCHANGED <<tasks, granted>>, Transaction
    PROVE  Evolution
BY DEF Evolution, StepOf, Evolves

LEMMA RefuseEvolves ==
    ASSUME NEW why \in Answers, Refuse(why)
    PROVE  Evolution
BY UnchangedEvolves DEF Refuse, Transaction

LEMMA UpdateEvolves ==
    ASSUME Inv, NEW id \in TaskIds, NEW u, u = tasks[id] \/ RecordStep(tasks[id], u), Update(id, u)
    PROVE  Evolution
<1> DEFINE uu == [tasks EXCEPT ![id] = u]
<1>1. uu[id] = u /\ \A i \in TaskIds : i # id => uu[i] = tasks[i]
  BY InvFacts DEF Ledger
<1>2. Store(Prune(uu, "existing"), "existing") /\ granted' = granted
  BY DEF Update
<1> HIDE DEF uu
<1>3. \A i \in TaskIds : Evolves(tasks[i], Prune(uu, "existing")[i])
  BY <1>1 DEF Prune, Without, Evolves
<1>4. tasks' = Prune(uu, "existing") \/ tasks' = tasks
  BY <1>2 DEF Store
<1>5. Transaction
  BY <1>2 DEF Transaction, uu
<1>6. QED
  BY <1>2, <1>3, <1>4, <1>5 DEF Evolution, StepOf, Evolves

LEMMA PrunedEvolves ==
    ASSUME Inv, Store(Pruned, "existing"), granted' = granted
    PROVE  Evolution
<1>1. \A i \in TaskIds : StepOf(i)
  BY PrunedFacts DEF Store, StepOf, Evolves
<1>2. Transaction
  BY DEF Transaction
<1>3. QED
  BY <1>1, <1>2 DEF Evolution

LEMMA ReplacedEvolves ==
    ASSUME Inv, NEW id \in TaskIds, Pruned[id].phase # "absent", NEW u,
           u = Pruned[id] \/ RecordStep(Pruned[id], u), u.phase # "closed",
           Store([Pruned EXCEPT ![id] = u], "existing"),
           \A i \in TaskIds : i # id => granted'[i] = granted[i],
           \/ granted' = granted
           \/ u.phase = "claimed" /\ (reply' # "done" => granted' = granted)
    PROVE  Evolution
<1> DEFINE uu == [Pruned EXCEPT ![id] = u]
<1>1. uu[id] = u /\ \A i \in TaskIds : i # id => uu[i] = Pruned[i]
  BY PrunedFacts DEF Ledger
<1>2. Pruned[id] = tasks[id]
  BY PrunedFacts, AbsentTask
<1>3. \/ reply' = "done" /\ tasks' = uu
      \/ reply' # "done" /\ tasks' = tasks
  <2>1. Rejection(uu, "existing") \in {None, "invalid", "clock", "full", "oversize"}
    BY DEF Rejection
  <2>2. QED
    BY <2>1 DEF Store, None
<1> HIDE DEF uu
<1>4. \A i \in TaskIds : Evolves(tasks[i], uu[i])
  BY <1>1, <1>2, PrunedFacts DEF Evolves
<1>5. Transaction
  BY <1>2 DEF Transaction
<1>6. CASE tasks' = uu
  BY <1>1, <1>4, <1>5, <1>6 DEF Evolution, StepOf
<1>7. CASE reply' # "done" /\ tasks' = tasks
  BY <1>5, <1>7, UnchangedEvolves
<1>8. QED
  BY <1>3, <1>6, <1>7

LEMMA PrepareEvolves ==
    ASSUME Inv, NEW first \in TaskIds, NEW second \in TaskIds, NEW now \in Time,
           PrepareDispatch(first, second, now)
    PROVE  Evolution
<1> DEFINE id == IF Usable(first) THEN first ELSE second
           ref == SelectTaskRef(id)
           u == InitialTaskRecord(ref, now)
           tt == [tasks EXCEPT ![id] = u]
<1>1. CASE Refuse("conflict")
  BY <1>1, RefuseEvolves DEF Answers
<1>2. CASE /\ Usable(id) /\ Store(Prune(tt, "new_task"), "new_task")
           /\ granted' = IF reply' = "done" THEN [granted EXCEPT ![id] = {}] ELSE granted
  <2>1. id \in TaskIds /\ tasks[id].phase = "absent" /\ ref # None
    BY <1>2 DEF Usable, Present
  <2> HIDE DEF id
  <2>2. ref \in Refs
    BY <2>1, IdAssumption DEF SelectTaskRef
  <2>3. u.phase = "prepared"
    BY DEF InitialTaskRecord, Absent
  <2>4. Evolves(tasks[id], u)
    BY <2>1, <2>2 DEF Evolves
  <2>5. Transaction
    BY <1>2, <2>1, <2>2 DEF Transaction
  <2> HIDE DEF u
  <2>6. tt[id] = u /\ \A i \in TaskIds : i # id => tt[i] = tasks[i]
    BY <2>1, InvFacts DEF Ledger
  <2>7. \A i \in TaskIds : i # id => granted'[i] = granted[i]
    BY <1>2, <2>1, InvFacts
  <2> HIDE DEF tt
  <2>8. \A i \in TaskIds : Prune(tt, "new_task")[i] = tt[i] \/ Prune(tt, "new_task")[i] = Absent
    BY DEF Prune, Without
  <2>9. \/ reply' = "done" /\ tasks' = Prune(tt, "new_task")
        \/ reply' # "done" /\ tasks' = tasks
    <3>1. Rejection(Prune(tt, "new_task"), "new_task") \in {None, "invalid", "clock", "full", "oversize"}
      BY DEF Rejection
    <3>2. QED
      BY <1>2, <3>1 DEF Store, None
  <2>10. CASE reply' = "done" /\ tasks' = Prune(tt, "new_task")
    BY <2>3, <2>4, <2>6, <2>7, <2>8, <2>10, <2>5, AbsentTask DEF Evolution, StepOf, Evolves
  <2>11. CASE reply' # "done" /\ tasks' = tasks
    BY <1>2, <2>11, <2>5, UnchangedEvolves
  <2>12. QED
    BY <2>9, <2>10, <2>11
<1>3. QED
  BY <1>1, <1>2 DEF PrepareDispatch

LEMMA ClaimEvolves ==
    ASSUME Inv, NEW id \in TaskIds, NEW call \in CallIds, NEW args, NEW material,
           NEW now \in Time, ClaimSpawn(id, call, args, material, now)
    PROVE  Evolution
<1> DEFINE t == Pruned[id]
           u == [t EXCEPT !.phase = "claimed", !.call = call, !.updated = now]
<1>1. CASE \E why \in Answers : Refuse(why)
  BY <1>1, RefuseEvolves
<1>2. CASE t.phase = "claimed" /\ t.call = call /\ Grant(id, call, Pruned)
  <2>1. granted[id] = {call}
    BY <1>2, PrunedHistory DEF HistoryOK
  <2>2. granted' = granted
    BY <1>2, <2>1, InvFacts DEF Grant
  <2>3. QED
    BY <1>2, <2>2, PrunedEvolves DEF Grant
<1>3. CASE t.phase = "prepared" /\ Grant(id, call, [Pruned EXCEPT ![id] = u])
  <2>1. t \in Task
    BY PrunedFacts DEF Ledger
  <2>2. u.phase = "claimed" /\ RecordStep(t, u)
    BY <1>3, <2>1 DEF RecordStep, Task
  <2>3. /\ Store([Pruned EXCEPT ![id] = u], "existing")
        /\ granted' = IF reply' = "done" THEN [granted EXCEPT ![id] = @ \cup {call}] ELSE granted
    BY <1>3 DEF Grant
  <2> HIDE DEF u
  <2>4. \A i \in TaskIds : i # id => granted'[i] = granted[i]
    BY <2>3, InvFacts
  <2>5. QED
    BY <1>3, <2>2, <2>3, <2>4, ReplacedEvolves
<1>4. QED
  BY <1>1, <1>2, <1>3 DEF ClaimSpawn, HeldBy, Answers

LEMMA ConfirmEvolves ==
    ASSUME Inv, NEW id \in TaskIds, NEW ref, NEW target \in Targets, NEW now \in Time,
           ConfirmDispatch(id, ref, target, now)
    PROVE  Evolution
<1> DEFINE t == Pruned[id]
<1>1. t \in Task
  BY PrunedFacts DEF Ledger
<1>2. CASE \E why \in Answers : Refuse(why)
  BY <1>2, RefuseEvolves
<1>3. CASE Store(Pruned, "existing") /\ granted' = granted
  BY <1>3, PrunedEvolves
<1>4. ASSUME NEW code \in ReconcileCodes, Warrants(t, code), Reconcile(id, code, now)
      PROVE  Evolution
  <2>1. RecordStep(t, EnterReconcile(t, code, now)) /\ t.phase # "absent"
    BY <1>4 DEF RecordStep, Warrants
  <2>2. EnterReconcile(t, code, now).phase = "reconcile"
    BY <1>4, <1>1 DEF EnterReconcile, Warrants, Task
  <2>3. Store([Pruned EXCEPT ![id] = EnterReconcile(t, code, now)], "existing") /\ granted' = granted
    BY <1>4 DEF Reconcile
  <2>4. QED
    BY <2>1, <2>3, <2>2, ReplacedEvolves
<1>5. CASE t.phase = "claimed" /\ Bind(id, target, now)
  <2> DEFINE u == [CommonFields(t) EXCEPT !.phase = "bound", !.updated = now, !.target = target]
  <2>1. RecordStep(t, u)
    BY <1>5 DEF RecordStep
  <2>2. u.phase = "bound"
    BY DEF CommonFields, Absent
  <2>3. Store([Pruned EXCEPT ![id] = u], "existing") /\ granted' = granted
    BY <1>5 DEF Bind
  <2> HIDE DEF u
  <2>4. QED
    BY <1>5, <2>1, <2>2, <2>3, ReplacedEvolves
<1>6. CASE t.phase = "reconcile" /\ \E code : Reconcile(id, code, now)
  <2>1. PICK code : Reconcile(id, code, now)
    BY <1>6
  <2>2. EnterReconcile(t, code, now) = t
    BY <1>6 DEF EnterReconcile
  <2>3. Store([Pruned EXCEPT ![id] = t], "existing") /\ granted' = granted
    BY <2>1, <2>2 DEF Reconcile
  <2>4. QED
    BY <1>6, <2>3, ReplacedEvolves
<1>7. t.phase \in Phases \cup {"absent"}
  BY <1>1 DEF Task
<1>8. \/ \E why \in Answers : Refuse(why)
      \/ Store(Pruned, "existing") /\ granted' = granted
      \/ \E code \in ReconcileCodes : Warrants(t, code) /\ Reconcile(id, code, now)
      \/ t.phase = "claimed" /\ Bind(id, target, now)
      \/ t.phase = "reconcile" /\ \E code : Reconcile(id, code, now)
  BY <1>7 DEF ConfirmDispatch, Tell, Warrants, ReconcileCodes, Answers
<1>9. QED
  BY <1>2, <1>3, <1>4, <1>5, <1>6, <1>8

LEMMA DispatchResultEvolves ==
    ASSUME Inv, NEW id \in TaskIds, NEW ref, NEW result, NEW now \in Time,
           RecordDispatchResult(id, ref, result, now)
    PROVE  Evolution
<1> DEFINE t == tasks[id]
           failed == CloseRecord(CommonFields(t), DispatchFailed, now)
           unsure == EnterReconcile(CommonFields(t), "dispatch_result_unknown", now)
<1>1. CASE Refuse("conflict")
  BY <1>1, RefuseEvolves DEF Answers
<1>2. CASE t.phase \in {"prepared", "claimed"} /\ (Update(id, failed) \/ Update(id, unsure))
  <2>1. RecordStep(t, failed) /\ RecordStep(t, unsure)
    BY <1>2 DEF RecordStep
  <2> HIDE DEF failed, unsure
  <2>2. QED
    BY <1>2, <2>1, UpdateEvolves
<1>3. QED
  BY <1>1, <1>2 DEF RecordDispatchResult

\* A fact about a bound or ended task, written over its record.
LEMMA FactEvolves ==
    ASSUME Inv, NEW id \in TaskIds, tasks[id].phase \in {"bound", "terminal"}, NEW now \in Time,
           NEW u, FactStep(tasks[id], u, now), Update(id, u)
    PROVE  Evolution
<1>1. RecordStep(tasks[id], u)
  BY DEF RecordStep
<1>2. QED
  BY <1>1, UpdateEvolves

LEMMA ReplayEvolves ==
    ASSUME Inv, NEW id \in TaskIds, Replay(id)
    PROVE  Evolution
BY UpdateEvolves DEF Replay

LEMMA RecordUnknownEvolves ==
    ASSUME Inv, NEW id \in TaskIds, tasks[id].phase \in {"bound", "terminal"},
           NEW c \in UnknownCodes, NEW now \in Time, RecordUnknown(id, c, now)
    PROVE  Evolution
<1> DEFINE u == [tasks[id] EXCEPT !.unknown[c] = now, !.updated = now]
<1>1. CASE Replay(id)
  BY <1>1, ReplayEvolves
<1>2. CASE tasks[id].unknown[c] = NoTime /\ Update(id, u)
  <2>1. FactStep(tasks[id], u, now)
    BY <1>2 DEF FactStep
  <2> HIDE DEF u
  <2>2. QED
    BY <1>2, <2>1, FactEvolves
<1>3. QED
  BY <1>1, <1>2 DEF RecordUnknown

LEMMA TerminalConflictEvolves ==
    ASSUME Inv, NEW id \in TaskIds, tasks[id].phase = "terminal",
           tasks[id].terminal.status # "inactive",
           NEW now \in Time, TerminalConflict(id, now)
    PROVE  Evolution
<1> DEFINE t == tasks[id]
           code == "terminal_status_conflict"
<1>1. t \in Task /\ ShapeOK(t)
  BY InvFacts DEF Present
<1>2. t.terminal.status \in TerminalStatuses
  <2>1. t.terminal.source # None
    BY <1>1 DEF ShapeOK, NoFact, Task, TerminalFact
  <2>2. t.terminal.status # None
    BY <1>1, <2>1 DEF ShapeOK
  <2>3. QED
    BY <1>1, <2>2 DEF Task, TerminalFact
<1>3. Warrants(t, code) /\ code \in ReconcileCodes
  BY <1>2 DEF Warrants, ReconcileCodes
<1>4. RecordStep(t, EnterReconcile(t, code, now))
  BY <1>3 DEF RecordStep
<1>5. Update(id, EnterReconcile(t, code, now))
  BY DEF TerminalConflict
<1>6. QED
  BY <1>4, <1>5, UpdateEvolves

LEMMA ObservationEvolves ==
    ASSUME Inv, NEW id \in TaskIds, NEW ref, NEW target, NEW status \in PlatformStatuses,
           NEW now \in Time, RecordPlatformObservation(id, ref, target, status, now)
    PROVE  Evolution
<1> DEFINE t == tasks[id]
           seen == [t EXCEPT !.observation = status, !.updated = now]
           ended == [t EXCEPT !.observation = status, !.updated = now, !.phase = "terminal",
                              !.terminal = Fact("platform", status)]
<1>1. CASE Refuse("conflict")
  BY <1>1, RefuseEvolves DEF Answers
<1>2. CASE Replay(id)
  BY <1>2, ReplayEvolves
<1>3. CASE t.phase \in {"bound", "terminal"} /\ RecordUnknown(id, "observation", now)
  BY <1>3, RecordUnknownEvolves DEF UnknownCodes
<1>4. CASE t.phase = "terminal" /\ t.terminal.status # "inactive" /\ TerminalConflict(id, now)
  BY <1>4, TerminalConflictEvolves
<1>5. CASE /\ status \in TerminalStatuses /\ Update(id, ended)
           /\ t.phase = "bound" \/ (t.phase = "terminal" /\ t.terminal.status = "inactive")
  <2>1. FactStep(t, ended, now)
    BY <1>5 DEF FactStep
  <2> HIDE DEF ended
  <2>2. QED
    BY <1>5, <2>1, FactEvolves
<1>6. CASE /\ Update(id, seen)
           /\ \/ t.phase = "bound" /\ status \in {"running", "error"}
              \/ t.phase = "terminal" /\ status \in TerminalStatuses /\ t.terminal.status = status
  <2>1. FactStep(t, seen, now)
    BY <1>6 DEF FactStep
  <2> HIDE DEF seen
  <2>2. QED
    BY <1>6, <2>1, FactEvolves
<1>7. QED
  BY <1>1, <1>2, <1>3, <1>4, <1>5, <1>6 DEF RecordPlatformObservation

LEMMA CallResultEvolves ==
    ASSUME Inv, NEW id \in TaskIds, NEW ref, NEW target, NEW result,
           NEW now \in Time, RecordCallResult(id, ref, target, result, now)
    PROVE  Evolution
BY RefuseEvolves, ReplayEvolves, RecordUnknownEvolves DEF RecordCallResult, UnknownCodes, Answers

LEMMA NotificationEvolves ==
    ASSUME Inv, NEW id \in TaskIds, NEW ref, NEW sender, NEW status \in TerminalStatuses,
           NEW now \in Time, RecordTerminalNotification(id, ref, sender, status, now)
    PROVE  Evolution
<1> DEFINE t == tasks[id]
           ended == [t EXCEPT !.phase = "terminal", !.terminal = Fact("notification", status),
                              !.updated = now]
<1>1. CASE Refuse("conflict")
  BY <1>1, RefuseEvolves DEF Answers
<1>2. CASE Replay(id)
  BY <1>2, ReplayEvolves
<1>3. CASE t.phase = "terminal" /\ t.terminal.status # "inactive" /\ TerminalConflict(id, now)
  BY <1>3, TerminalConflictEvolves
<1>4. CASE /\ Update(id, ended)
           /\ t.phase = "bound" \/ (t.phase = "terminal" /\ t.terminal.status = "inactive")
  <2>1. FactStep(t, ended, now)
    BY <1>4 DEF FactStep
  <2> HIDE DEF ended
  <2>2. QED
    BY <1>4, <2>1, FactEvolves
<1>5. QED
  BY <1>1, <1>2, <1>3, <1>4 DEF RecordTerminalNotification

LEMMA InterruptEvolves ==
    ASSUME Inv, NEW id \in TaskIds, NEW ref, NEW target, NEW result,
           NEW now \in Time, RecordInterruptResult(id, ref, target, result, now)
    PROVE  Evolution
<1> DEFINE t == tasks[id]
           noted == [t EXCEPT !.interrupt = result, !.updated = now]
           ended == [t EXCEPT !.interrupt = "inactive", !.updated = now, !.phase = "terminal",
                              !.terminal = Fact("interrupt", "inactive")]
<1>1. CASE Refuse("conflict")
  BY <1>1, RefuseEvolves DEF Answers
<1>2. CASE Replay(id)
  BY <1>2, ReplayEvolves
<1>3. CASE t.phase \in {"bound", "terminal"} /\ RecordUnknown(id, "interrupt", now)
  BY <1>3, RecordUnknownEvolves DEF UnknownCodes
<1>4. CASE /\ Update(id, noted)
           /\ \/ t.phase = "bound" /\ result = "failed"
              \/ t.phase = "terminal" /\ result = "inactive"
  <2>1. FactStep(t, noted, now)
    BY <1>4 DEF FactStep
  <2> HIDE DEF noted
  <2>2. QED
    BY <1>4, <2>1, FactEvolves
<1>5. CASE t.phase = "bound" /\ Update(id, ended)
  <2>1. FactStep(t, ended, now)
    BY <1>5 DEF FactStep
  <2> HIDE DEF ended
  <2>2. QED
    BY <1>5, <2>1, FactEvolves
<1>6. QED
  BY <1>1, <1>2, <1>3, <1>4, <1>5 DEF RecordInterruptResult

LEMMA CloseEvolves ==
    ASSUME Inv, NEW id \in TaskIds, NEW ref, NEW reason \in Reasons, NEW now \in Time,
           CloseTask(id, ref, reason, now)
    PROVE  Evolution
<1> DEFINE t == tasks[id]
<1>1. CASE Refuse("conflict")
  BY <1>1, RefuseEvolves DEF Answers
<1>2. CASE Replay(id)
  BY <1>2, ReplayEvolves
<1>3. CASE t.phase \notin {"absent", "closed"} /\ Update(id, CloseRecord(t, reason, now))
  <2>1. RecordStep(t, CloseRecord(t, reason, now))
    BY <1>3 DEF RecordStep
  <2>2. QED
    BY <1>3, <2>1, UpdateEvolves
<1>4. QED
  BY <1>1, <1>2, <1>3 DEF CloseTask

LEMMA StepEvolves == Inv /\ [Next]_vars => Evolution
<1> SUFFICES ASSUME Inv, [Next]_vars PROVE Evolution
  OBVIOUS
<1>1. CASE UNCHANGED vars
  BY <1>1, UnchangedEvolves DEF vars, Transaction
<1>2. CASE Prepares
  BY <1>2, PrepareEvolves DEF Prepares
<1>3. CASE Claims
  BY <1>3, ClaimEvolves, RefuseEvolves DEF Claims, ClaimUnknownRef, Answers
<1>4. CASE Confirms
  BY <1>4, ConfirmEvolves DEF Confirms
<1>5. CASE DispatchResults
  BY <1>5, DispatchResultEvolves DEF DispatchResults
<1>6. CASE Observations
  BY <1>6, ObservationEvolves DEF Observations
<1>7. CASE CallReports
  BY <1>7, CallResultEvolves DEF CallReports
<1>8. CASE Notifications
  BY <1>8, NotificationEvolves DEF Notifications
<1>9. CASE InterruptReports
  BY <1>9, InterruptEvolves DEF InterruptReports
<1>10. CASE Closes
  BY <1>10, CloseEvolves DEF Closes
<1>11. QED
  BY <1>1, <1>2, <1>3, <1>4, <1>5, <1>6, <1>7, <1>8, <1>9, <1>10 DEF Next

-----------------------------------------------------------------------------
(* What such a step keeps of one record *)

Evidence(t, u) ==
    /\ u.ref = t.ref /\ u.created = t.created
    /\ t.target # None => u.target = t.target
    /\ t.code # None => u.code = t.code
    /\ t.observation # None => u.observation # None
    /\ t.interrupt # None => u.interrupt # None
    /\ \A c \in UnknownCodes : t.unknown[c] # NoTime => u.unknown[c] = t.unknown[c]
    /\ t.terminal # NoFact =>
          \/ u.terminal = t.terminal
          \/ t.terminal.status = "inactive" /\ u.terminal.status \in TerminalStatuses

FactsOK(t) ==
    /\ t.observation \in TerminalStatuses => t.terminal.status = t.observation
    /\ t.interrupt = "inactive" => t.terminal # NoFact
    /\ t.terminal.source = "interrupt" <=> t.terminal.status = "inactive"
    /\ t.terminal.source = "interrupt" => t.interrupt = "inactive"
    /\ t.terminal.source = "platform" => t.observation = t.terminal.status

CodeOK(t, calls) ==
    /\ t.code \in {"dispatch_target_already_bound", "dispatch_claim_missing",
                   "dispatch_result_unknown"} => t.target = None
    /\ t.code = "dispatch_target_conflict" => t.target # None
    /\ t.code = "terminal_status_conflict" => t.terminal.status \in TerminalStatuses
    /\ t.code = "dispatch_claim_missing" => calls = {}

\* A record without facts about its target has none to disagree or to lose.
LEMMA Unfactual ==
    ASSUME NEW t \in Task, ShapeOK(t), t.phase \in {"prepared", "claimed"}
    PROVE  /\ t.target = None /\ t.observation = None /\ t.interrupt = None
           /\ t.terminal = NoFact /\ t.unknown = NoUnknown /\ t.code = None
BY DEF ShapeOK

\* Records that differ only in the fields the facts do not speak of.
LEMMA SameFacts ==
    ASSUME NEW t, NEW u, u.observation = t.observation, u.interrupt = t.interrupt,
           u.terminal = t.terminal
    PROVE  FactsOK(t) => FactsOK(u)
BY DEF FactsOK

LEMMA NoFactsOK ==
    ASSUME NEW u, u.observation = None, u.interrupt = None, u.terminal = NoFact
    PROVE  FactsOK(u)
BY DEF FactsOK, NoFact, None, TerminalStatuses

LEMMA FactStepKeeps ==
    ASSUME NEW t \in Task, ShapeOK(t), t.phase \in {"bound", "terminal"}, NEW now \in Time,
           NEW u, FactStep(t, u, now)
    PROVE  /\ Evidence(t, u) /\ u.code = None
           /\ FactsOK(t) => FactsOK(u)
           /\ u.phase \in {"bound", "terminal"}
<1> DEFINE Kept == /\ Evidence(t, u) /\ u.code = None
                   /\ FactsOK(t) => FactsOK(u)
                   /\ u.phase \in {"bound", "terminal"}
<1>1. t.code = None /\ (t.phase = "bound" => t.terminal = NoFact)
  BY DEF ShapeOK
<1>2. ASSUME NEW s \in {"running", "error"}, t.phase = "bound",
             u = [t EXCEPT !.observation = s, !.updated = now]
      PROVE  Kept
  <2>1. /\ u.ref = t.ref /\ u.created = t.created /\ u.target = t.target /\ u.code = t.code
        /\ u.interrupt = t.interrupt /\ u.unknown = t.unknown /\ u.terminal = t.terminal
        /\ u.phase = t.phase /\ u.observation = s
    BY <1>2 DEF Task
  <2>2. s # None /\ s \notin TerminalStatuses
    BY DEF TerminalStatuses, None
  <2>3. FactsOK(t) => FactsOK(u)
    BY <1>1, <1>2, <2>1, <2>2 DEF FactsOK, NoFact, None
  <2>4. QED
    BY <1>1, <1>2, <2>1, <2>2, <2>3 DEF Evidence
<1>3. ASSUME NEW s \in TerminalStatuses, t.phase = "terminal", t.terminal.status = s,
             u = [t EXCEPT !.observation = s, !.updated = now]
      PROVE  Kept
  <2>1. /\ u.ref = t.ref /\ u.created = t.created /\ u.target = t.target /\ u.code = t.code
        /\ u.interrupt = t.interrupt /\ u.unknown = t.unknown /\ u.terminal = t.terminal
        /\ u.phase = t.phase /\ u.observation = s
    BY <1>3 DEF Task
  <2>2. s # None
    BY DEF TerminalStatuses, None
  <2>3. QED
    BY <1>1, <1>3, <2>1, <2>2 DEF Evidence, FactsOK
<1>4. ASSUME NEW s \in TerminalStatuses, t.phase = "bound" \/ t.terminal.status = "inactive",
             \/ u = [t EXCEPT !.observation = s, !.updated = now, !.phase = "terminal",
                              !.terminal = Fact("platform", s)]
             \/ u = [t EXCEPT !.phase = "terminal", !.terminal = Fact("notification", s),
                              !.updated = now]
      PROVE  Kept
  <2>1. /\ u.ref = t.ref /\ u.created = t.created /\ u.target = t.target /\ u.code = t.code
        /\ u.interrupt = t.interrupt /\ u.unknown = t.unknown /\ u.phase = "terminal"
        /\ u.terminal.status = s
        /\ \/ u.observation = s /\ u.terminal.source = "platform"
           \/ u.observation = t.observation /\ u.terminal.source = "notification"
    <3>1. CASE u = [t EXCEPT !.observation = s, !.updated = now, !.phase = "terminal",
                             !.terminal = Fact("platform", s)]
      BY <3>1 DEF Task, Fact
    <3>2. CASE u = [t EXCEPT !.phase = "terminal", !.terminal = Fact("notification", s),
                             !.updated = now]
      BY <3>2 DEF Task, Fact
    <3>3. QED
      BY <1>4, <3>1, <3>2
  <2>2. s # None /\ s # "inactive" /\ u.terminal # NoFact
    BY <2>1 DEF TerminalStatuses, None, NoFact
  <2>3. Evidence(t, u)
    BY <1>1, <1>4, <2>1, <2>2 DEF Evidence
  <2>4. FactsOK(t) => t.observation \notin TerminalStatuses
    BY <1>1, <1>4 DEF FactsOK, NoFact, TerminalStatuses, None
  <2>5. FactsOK(t) => FactsOK(u)
    BY <2>1, <2>2, <2>4 DEF FactsOK
  <2>6. QED
    BY <1>1, <2>1, <2>3, <2>5
<1>5. ASSUME \/ t.phase = "bound" /\ u = [t EXCEPT !.interrupt = "failed", !.updated = now]
             \/ t.phase = "terminal" /\ u = [t EXCEPT !.interrupt = "inactive", !.updated = now]
      PROVE  Kept
  <2>1. /\ u.ref = t.ref /\ u.created = t.created /\ u.target = t.target /\ u.code = t.code
        /\ u.observation = t.observation /\ u.unknown = t.unknown /\ u.terminal = t.terminal
        /\ u.phase = t.phase
        /\ \/ u.interrupt = "failed" /\ t.phase = "bound"
           \/ u.interrupt = "inactive" /\ t.phase = "terminal"
    BY <1>5 DEF Task
  <2>2. Evidence(t, u)
    BY <2>1 DEF Evidence, None
  <2>3. t.phase = "terminal" => t.terminal # NoFact
    BY DEF ShapeOK
  <2>4. FactsOK(t) => FactsOK(u)
    BY <1>1, <2>1, <2>3 DEF FactsOK, NoFact, None
  <2>5. QED
    BY <1>1, <2>1, <2>2, <2>4
<1>6. ASSUME t.phase = "bound",
             u = [t EXCEPT !.interrupt = "inactive", !.updated = now, !.phase = "terminal",
                           !.terminal = Fact("interrupt", "inactive")]
      PROVE  Kept
  <2>1. /\ u.ref = t.ref /\ u.created = t.created /\ u.target = t.target /\ u.code = t.code
        /\ u.observation = t.observation /\ u.unknown = t.unknown
        /\ u.terminal.source = "interrupt" /\ u.terminal.status = "inactive"
        /\ u.phase = "terminal" /\ u.interrupt = "inactive"
    BY <1>6 DEF Task, Fact
  <2>2. Evidence(t, u)
    BY <1>1, <1>6, <2>1 DEF Evidence, None
  <2>3. FactsOK(t) => t.observation \notin TerminalStatuses
    BY <1>1, <1>6 DEF FactsOK, NoFact, TerminalStatuses, None
  <2>4. FactsOK(t) => FactsOK(u)
    BY <2>1, <2>3 DEF FactsOK, NoFact, None
  <2>5. QED
    BY <1>1, <2>1, <2>2, <2>4
<1>7. ASSUME NEW c \in UnknownCodes, t.unknown[c] = NoTime,
             u = [t EXCEPT !.unknown[c] = now, !.updated = now]
      PROVE  Kept
  <2>1. /\ u.ref = t.ref /\ u.created = t.created /\ u.target = t.target /\ u.code = t.code
        /\ u.observation = t.observation /\ u.terminal = t.terminal
        /\ u.phase = t.phase /\ u.interrupt = t.interrupt
        /\ \A d \in UnknownCodes \ {c} : u.unknown[d] = t.unknown[d]
    BY <1>7 DEF Task
  <2>2. Evidence(t, u)
    BY <1>7, <2>1 DEF Evidence
  <2>3. QED
    BY <1>1, <2>1, <2>2, SameFacts
<1>8. QED
  BY <1>2, <1>3, <1>4, <1>5, <1>6, <1>7 DEF FactStep

LEMMA RecordStepKeeps ==
    ASSUME NEW t \in Task, ShapeOK(t), NEW u, RecordStep(t, u), NEW calls,
           t.phase = "prepared" => calls = {}
    PROVE  /\ t.phase # "closed" /\ t.phase # "absent" /\ Evidence(t, u)
           /\ FactsOK(t) => FactsOK(u)
           /\ u.phase # "absent"
           /\ CodeOK(t, calls) => CodeOK(u, calls)
<1> DEFINE Kept == /\ t.phase # "closed" /\ t.phase # "absent" /\ Evidence(t, u)
                   /\ FactsOK(t) => FactsOK(u)
                   /\ u.phase # "absent"
                   /\ CodeOK(t, calls) => CodeOK(u, calls)
<1>1. PICK now \in Time : RecordStep(t, u)!(now)
  BY DEF RecordStep
<1>2. ASSUME t.phase = "prepared", NEW call \in CallIds,
             u = [t EXCEPT !.phase = "claimed", !.call = call, !.updated = now]
      PROVE  Kept
  <2>1. /\ u.ref = t.ref /\ u.created = t.created /\ u.target = t.target /\ u.code = t.code
        /\ u.observation = t.observation /\ u.terminal = t.terminal /\ u.unknown = t.unknown
        /\ u.phase = "claimed" /\ u.interrupt = t.interrupt
    BY <1>2 DEF Task
  <2>2. QED
    BY <1>2, <2>1, SameFacts DEF Evidence, CodeOK
<1>3. ASSUME t.phase = "claimed", NEW target \in Targets,
             u = [CommonFields(t) EXCEPT !.phase = "bound", !.updated = now, !.target = target]
      PROVE  Kept
  <2>1. CommonFields(t) \in Task
    BY CommonFieldsType
  <2>2. /\ u.ref = t.ref /\ u.created = t.created /\ u.code = None /\ u.observation = None
        /\ u.terminal = NoFact /\ u.phase = "bound" /\ u.interrupt = None
    BY <1>3, <2>1, CommonFieldsType DEF Task
  <2>3. FactsOK(u) /\ CodeOK(u, calls)
    BY <2>2, NoFactsOK DEF CodeOK, None
  <2>4. QED
    BY <1>3, <2>2, <2>3, Unfactual DEF Evidence, NoUnknown
<1>4. ASSUME NEW code \in ReconcileCodes, Warrants(t, code), u = EnterReconcile(t, code, now)
      PROVE  Kept
  <2>1. /\ u.ref = t.ref /\ u.created = t.created /\ u.target = t.target /\ u.code = code
        /\ u.observation = t.observation /\ u.terminal = t.terminal /\ u.unknown = t.unknown
        /\ u.phase = "reconcile" /\ u.interrupt = t.interrupt
    BY <1>4 DEF EnterReconcile, Warrants, Task
  <2>2. t.code = None
    BY <1>4 DEF ShapeOK, Warrants
  <2>3. CodeOK(u, calls)
    BY <1>4, <2>1, Unfactual DEF Warrants, CodeOK, ShapeOK
  <2>4. QED
    BY <1>4, <2>1, <2>2, <2>3, SameFacts DEF Evidence, Warrants
<1>5. ASSUME t.phase \in {"prepared", "claimed"},
             \/ u = CloseRecord(CommonFields(t), DispatchFailed, now)
             \/ u = EnterReconcile(CommonFields(t), "dispatch_result_unknown", now)
      PROVE  Kept
  <2>1. CommonFields(t) \in Task
    BY CommonFieldsType
  <2>2. /\ u.ref = t.ref /\ u.created = t.created /\ u.target = None /\ u.observation = None
        /\ u.terminal = NoFact /\ u.interrupt = None
        /\ u.code \in {None, "dispatch_result_unknown"} /\ u.phase \in {"closed", "reconcile"}
    <3> DEFINE c == CommonFields(t)
    <3>1. CASE u = CloseRecord(c, DispatchFailed, now)
      <4>1. /\ u.ref = c.ref /\ u.created = c.created /\ u.target = c.target
            /\ u.observation = c.observation /\ u.terminal = c.terminal
            /\ u.interrupt = c.interrupt /\ u.code = c.code /\ u.phase = "closed"
        BY <2>1, <3>1 DEF Task, CloseRecord
      <4>2. QED
        BY <4>1, CommonFieldsType
    <3>2. CASE u = EnterReconcile(c, "dispatch_result_unknown", now)
      <4>1. /\ u.ref = c.ref /\ u.created = c.created /\ u.target = c.target
            /\ u.observation = c.observation /\ u.terminal = c.terminal
            /\ u.interrupt = c.interrupt /\ u.code = "dispatch_result_unknown"
            /\ u.phase = "reconcile"
        BY <2>1, <3>2, CommonFieldsType DEF Task, EnterReconcile
      <4>2. QED
        BY <4>1, CommonFieldsType
    <3>3. QED
      BY <1>5, <3>1, <3>2
  <2>3. FactsOK(u) /\ CodeOK(u, calls)
    BY <2>2, NoFactsOK DEF CodeOK, None
  <2>4. QED
    BY <1>5, <2>2, <2>3, Unfactual DEF Evidence, NoUnknown
<1>6. ASSUME t.phase \in {"bound", "terminal"}, FactStep(t, u, now)
      PROVE  Kept
  <2>1. CodeOK(u, calls)
    BY <1>6, FactStepKeeps DEF CodeOK, None
  <2>2. QED
    BY <1>6, <2>1, FactStepKeeps
<1>7. ASSUME t.phase \notin {"absent", "closed"}, NEW reason \in Reasons, u = CloseRecord(t, reason, now)
      PROVE  Kept
  <2>1. /\ u.ref = t.ref /\ u.created = t.created /\ u.target = t.target /\ u.code = t.code
        /\ u.observation = t.observation /\ u.terminal = t.terminal /\ u.unknown = t.unknown
        /\ u.phase = "closed" /\ u.interrupt = t.interrupt
    BY <1>7 DEF CloseRecord, Task
  <2>2. QED
    BY <1>7, <2>1, SameFacts DEF Evidence, CodeOK
<1>8. QED
  BY <1>1, <1>2, <1>3, <1>4, <1>5, <1>6, <1>7

-----------------------------------------------------------------------------
(* The properties *)

\* The inductive invariant.
EvidenceInv == Inv /\ FactsAgree /\ ReconcileMatchesEvidence

LEMMA EvidenceStep == EvidenceInv /\ [Next]_vars => EvidenceInv'
<1> SUFFICES ASSUME EvidenceInv, [Next]_vars PROVE EvidenceInv'
  OBVIOUS
<1>1. Inv /\ Inv' /\ Evolution
  BY StepInv, StepEvolves DEF EvidenceInv
<1>2. ASSUME NEW i \in TaskIds, tasks'[i].phase # "absent"
      PROVE  FactsOK(tasks'[i]) /\ CodeOK(tasks'[i], granted'[i])
  <2> DEFINE t == tasks[i]
             u == tasks'[i]
  <2>1. StepOf(i)
    BY <1>1 DEF Evolution
  <2>2. CASE u = t
    <3>1. t.phase # "absent"
      BY <1>2, <2>2
    <3>2. FactsOK(t) /\ CodeOK(t, granted[i])
      BY <3>1 DEF EvidenceInv, FactsAgree, ReconcileMatchesEvidence, FactsOK, CodeOK, Present
    <3>3. ShapeOK(t)
      BY <1>1, <3>1, InvFacts DEF Present
    <3>4. u.phase \in {"prepared", "claimed"} => u.code = None
      BY <2>2, <3>3 DEF ShapeOK
    <3>5. QED
      BY <1>2, <2>1, <2>2, <3>2, <3>4 DEF StepOf, CodeOK, None
  <2>3. CASE u = Absent
    BY <1>2, <2>3, AbsentTask
  <2>4. CASE \E ref \in Refs, now \in Time : u = InitialTaskRecord(ref, now)
    <3>1. /\ u.observation = None /\ u.interrupt = None /\ u.terminal = NoFact
          /\ u.code = None
      BY <2>4 DEF InitialTaskRecord, Absent
    <3>2. QED
      BY <3>1, NoFactsOK DEF CodeOK, None
  <2>5. CASE RecordStep(t, u)
    <3>1. t.phase # "absent"
      BY <2>5 DEF RecordStep, Warrants
    <3>2. t \in Task /\ ShapeOK(t) /\ (t.phase = "prepared" => granted[i] = {})
      BY <1>1, <3>1, InvFacts DEF Present, Inv, HistoryInv, HistoryOK
    <3>3. FactsOK(t) /\ CodeOK(t, granted[i])
      BY <3>1 DEF EvidenceInv, FactsAgree, ReconcileMatchesEvidence, FactsOK, CodeOK, Present
    <3>4. FactsOK(u) /\ CodeOK(u, granted[i])
      BY <2>5, <3>2, <3>3, RecordStepKeeps
    <3>5. u.phase \in {"prepared", "claimed"} => u.code = None
      BY <1>1, InvFacts DEF Inv, WellFormed, ShapeOK, Present
    <3>6. QED
      BY <1>2, <2>1, <3>4, <3>5 DEF StepOf, CodeOK, None
  <2>6. QED
    BY <2>1, <2>2, <2>3, <2>4, <2>5 DEF StepOf, Evolves
<1>3. FactsAgree'
  BY <1>2 DEF FactsAgree, FactsOK, Present
<1>4. ReconcileMatchesEvidence'
  BY <1>2 DEF ReconcileMatchesEvidence, CodeOK, Present
<1>5. QED
  BY <1>1, <1>3, <1>4 DEF EvidenceInv

LEMMA EvidenceInvariance == Spec => []EvidenceInv
<1>1. Init => EvidenceInv
  BY InitInv, AbsentTask DEF Init, EvidenceInv, FactsAgree, ReconcileMatchesEvidence, Present
<1>2. QED
  BY <1>1, EvidenceStep, PTL DEF Spec

\* What one step keeps.
KeepsEvidence == \A id \in Present(tasks) :
    tasks'[id].phase # "absent" => Evidence(tasks[id], tasks'[id])
KeepsClosed == \A id \in Closed(tasks) : tasks'[id] \in {tasks[id], Absent}

LEMMA StepKeeps == Inv /\ [Next]_vars => [KeepsEvidence /\ KeepsClosed]_vars
<1> SUFFICES ASSUME Inv, [Next]_vars PROVE KeepsEvidence /\ KeepsClosed
  OBVIOUS
<1>1. Evolution
  BY StepEvolves
<1>2. ASSUME NEW id \in Present(tasks), tasks'[id].phase # "absent"
      PROVE  Evidence(tasks[id], tasks'[id])
  <2>1. /\ id \in TaskIds /\ tasks[id].phase # "absent" /\ tasks[id] \in Task
        /\ ShapeOK(tasks[id]) /\ (tasks[id].phase = "prepared" => granted[id] = {})
    BY InvFacts DEF Present, Inv, HistoryInv, HistoryOK
  <2>2. tasks'[id] = tasks[id] \/ RecordStep(tasks[id], tasks'[id])
    BY <1>1, <1>2, <2>1, AbsentTask DEF Evolution, StepOf, Evolves
  <2>3. CASE tasks'[id] = tasks[id]
    BY <2>3 DEF Evidence
  <2>4. CASE RecordStep(tasks[id], tasks'[id])
    BY <2>1, <2>4, RecordStepKeeps
  <2>5. QED
    BY <2>2, <2>3, <2>4
<1>3. ASSUME NEW id \in Closed(tasks)
      PROVE  tasks'[id] \in {tasks[id], Absent}
  <2>1. id \in TaskIds /\ tasks[id].phase = "closed"
    BY DEF Closed
  <2>2. ~RecordStep(tasks[id], tasks'[id])
    BY <2>1 DEF RecordStep, Warrants
  <2>3. QED
    BY <1>1, <2>1, <2>2 DEF Evolution, StepOf, Evolves
<1>4. QED
  BY <1>2, <1>3 DEF KeepsEvidence, KeepsClosed

\* The facts of a record agree, in whatever order and by whatever channel they arrive.
THEOREM FactsNeverContradict == Spec => []FactsAgree
<1>1. EvidenceInv => FactsAgree
  BY DEF EvidenceInv
<1>2. QED
  BY <1>1, EvidenceInvariance, PTL

\* A reconcile code is borne out by the rest of its record, also after later operations.
THEOREM CodesAreWarranted == Spec => []ReconcileMatchesEvidence
<1>1. EvidenceInv => ReconcileMatchesEvidence
  BY DEF EvidenceInv
<1>2. QED
  BY <1>1, EvidenceInvariance, PTL

\* Evidence once recorded survives every later operation on its record.
THEOREM NoEvidenceLost == Spec => EvidenceKept
<1>1. [KeepsEvidence /\ KeepsClosed]_vars =>
          [\A id \in Present(tasks) :
             LET t == tasks[id]
                 u == tasks'[id]
             IN u.phase # "absent" =>
                /\ u.ref = t.ref /\ u.created = t.created
                /\ t.target # None => u.target = t.target
                /\ t.code # None => u.code = t.code
                /\ t.observation # None => u.observation # None
                /\ t.interrupt # None => u.interrupt # None
                /\ \A c \in UnknownCodes : t.unknown[c] # NoTime => u.unknown[c] = t.unknown[c]
                /\ t.terminal # NoFact =>
                      \/ u.terminal = t.terminal
                      \/ t.terminal.status = "inactive" /\ u.terminal.status \in TerminalStatuses]_vars
  BY DEF KeepsEvidence, Evidence
<1>2. QED
  BY <1>1, Invariance, StepKeeps, PTL DEF Spec, EvidenceKept

\* Nothing is written over a closed record: it stays as it is until it is evicted whole.
THEOREM ClosedStaysClosed == Spec => ClosedIsFinal
<1>1. [KeepsEvidence /\ KeepsClosed]_vars =>
          [\A id \in Closed(tasks) : tasks'[id] \in {tasks[id], Absent}]_vars
  BY DEF KeepsClosed
<1>2. QED
  BY <1>1, Invariance, StepKeeps, PTL DEF Spec, ClosedIsFinal

-----------------------------------------------------------------------------
(* What was written can be read back *)

LEMMA StoreReadable ==
    ASSUME RecordsValid, NEW tt, NEW admission, Store(tt, admission)
    PROVE  RecordsValid'
<1>1. CASE tasks' = tasks
  BY <1>1 DEF RecordsValid, WellFormed, RefsDistinct, TargetsDistinct, Present, Owners
<1>2. CASE Rejection(tt, admission) = None /\ tasks' = tt
  <2>1. WellFormed(tt) /\ \A id \in Present(tt) : ClockOK(tt[id])
    BY <1>2 DEF Rejection, None
  <2>2. ~(Cardinality(Present(tt)) > MaxTasks)
    BY <1>2, <2>1 DEF Rejection, None
  <2>3. Cardinality(Present(tt)) \in Nat
    BY IdAssumption, FS_Subset, FS_CardinalityType DEF Present
  <2>4. Cardinality(Present(tt)) <= MaxTasks
    BY <2>2, <2>3, LimitAssumption
  <2>5. QED
    BY <1>2, <2>1, <2>4 DEF RecordsValid, WellFormed, RefsDistinct, TargetsDistinct, Present, Owners
<1>3. QED
  BY <1>1, <1>2 DEF Store

\* Every operation either changes no record or ends in one write.
OneWrite == UNCHANGED tasks \/ \E tt, admission : Store(tt, admission)

LEMMA Writes ==
    /\ \A why : Refuse(why) => OneWrite
    /\ \A tt : Store(tt, "existing") => OneWrite
    /\ \A id, u : Update(id, u) => OneWrite
    /\ \A id : Replay(id) => OneWrite
    /\ \A id, c, now : RecordUnknown(id, c, now) => OneWrite
    /\ \A id, now : TerminalConflict(id, now) => OneWrite
<1>1. \A id, u : Update(id, u) => OneWrite
  BY DEF Update, OneWrite
<1>2. QED
  BY <1>1 DEF OneWrite, Refuse, Replay, RecordUnknown, TerminalConflict

LEMMA ClaimWrites ==
    ASSUME NEW id, NEW call, NEW args, NEW material, NEW now, ClaimSpawn(id, call, args, material, now)
    PROVE  OneWrite
<1>1. CASE \E why : Refuse(why)
  BY <1>1, Writes
<1>2. CASE \E tt : Grant(id, call, tt)
  BY <1>2, Writes DEF Grant
<1>3. QED
  BY <1>1, <1>2 DEF ClaimSpawn

LEMMA FactWrites ==
    ASSUME NEW id, NEW ref, NEW agent, NEW what, NEW now,
           \/ RecordPlatformObservation(id, ref, agent, what, now)
           \/ RecordCallResult(id, ref, agent, what, now)
           \/ RecordTerminalNotification(id, ref, agent, what, now)
           \/ RecordInterruptResult(id, ref, agent, what, now)
    PROVE  OneWrite
<1>1. CASE RecordPlatformObservation(id, ref, agent, what, now)
  BY <1>1, Writes DEF RecordPlatformObservation
<1>2. CASE RecordCallResult(id, ref, agent, what, now)
  BY <1>2, Writes DEF RecordCallResult
<1>3. CASE RecordTerminalNotification(id, ref, agent, what, now)
  BY <1>3, Writes DEF RecordTerminalNotification
<1>4. CASE RecordInterruptResult(id, ref, agent, what, now)
  BY <1>4, Writes DEF RecordInterruptResult
<1>5. QED
  BY <1>1, <1>2, <1>3, <1>4

LEMMA NextWrites ==
    ASSUME Next
    PROVE  OneWrite
<1>1. Prepares => OneWrite
  BY DEF Prepares, PrepareDispatch, Refuse, OneWrite
<1>2. Claims => OneWrite
  BY ClaimWrites, Writes DEF Claims, ClaimUnknownRef
<1>3. Confirms => OneWrite
  BY Writes DEF Confirms, ConfirmDispatch, Tell, Reconcile, Bind
<1>4. DispatchResults \/ Closes => OneWrite
  BY Writes DEF DispatchResults, Closes, RecordDispatchResult, CloseTask
<1>5. Observations \/ CallReports \/ Notifications \/ InterruptReports => OneWrite
  BY FactWrites DEF Observations, CallReports, Notifications, InterruptReports
<1>6. QED
  BY <1>1, <1>2, <1>3, <1>4, <1>5 DEF Next

LEMMA ReadableStep == RecordsValid /\ [Next]_vars => RecordsValid'
<1> SUFFICES ASSUME RecordsValid, [Next]_vars PROVE RecordsValid'
  OBVIOUS
<1>1. CASE UNCHANGED tasks
  BY <1>1 DEF RecordsValid, WellFormed, RefsDistinct, TargetsDistinct, Present, Owners
<1>2. CASE \E tt, admission : Store(tt, admission)
  BY <1>2, StoreReadable
<1>3. QED
  BY <1>1, <1>2, NextWrites DEF vars, OneWrite

\* The records of every ledger that was ever written pass the validator of the next
\* transaction that reads it: shape, refs, owners, timestamps and number.
LEMMA WrittenIsValid == Spec => []RecordsValid
<1>1. Init => RecordsValid
  <2> SUFFICES ASSUME Init PROVE RecordsValid
    OBVIOUS
  <2>1. Present(tasks) = {}
    BY AbsentTask DEF Init, Present
  <2>2. WellFormed(tasks)
    BY InitInv DEF Inv
  <2>3. QED
    BY <2>1, <2>2, FS_EmptySet, LimitAssumption DEF RecordsValid
<1>2. QED
  BY <1>1, ReadableStep, PTL DEF Spec
=============================================================================
