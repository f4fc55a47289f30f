# Subagent Governance in TLA+

Subagent Governance keeps, for every Codex Session, one JSON ledger of the
sub-agents a parent dispatches.  A parent *prepares* a task; a PreToolUse Hook lets
one native spawn call *claim* the prepared capability; the parent *confirms* which
native agent resulted; observations, call results, notifications and interrupts are
recorded as facts; the parent *closes* the task.  Every operation is a separate,
short-lived process, and nothing orders them but the lock of the Session's file.

The ledger exists to be evidence.  What could go wrong is that evidence is lost or
contradicts itself, that one capability lets two native calls through, or that the
ledger reaches a state its own strict validator refuses, which blocks the Session for
good.  These modules state and check that none of this happens.

## The system

| component | state | operations | what makes it correct |
|---|---|---|---|
| Dispatch (`governance_protocol.py`, `governance_dispatch.py`, `governance_dispatch_identity.py`) | task records: phase, ref, capability, call, target | prepare, claim, confirm, dispatch result | one call per capability, first bind wins, refs are unambiguous |
| Lifecycle (`governance_lifecycle.py`) | the facts of a record, its close | platform observation, call result, notification, interrupt result, close, eviction | facts agree in any order, evidence is kept, closed is final, eviction is by age and no more than needed |
| Validator (`governance_state.py`, `governance_semantics.py`) | none | validate the whole ledger, before and after every change | no operation produces what it refuses |
| Store (`governance_state_store.py`, `governance_storage.py`, `governance_store_support.py`) | the Session file, its lock, temporary files | update, read, lock-free read | no lost update, never a torn file, an answer is true and survives |
| PreToolUse Hook (`governance_hook.py`, `governance_hook_diagnostics.py`) | none | recognise a governed spawn, claim, allow or deny; Session summary | a conflict denies, a fault of governance does not block |
| Context verification (`governance_context.py`) | none; reads files and git | verify the declared material at prepare and at claim, within a time budget | what was verified is what was read |
| Native adapter (`governance_native_adapter.py`) | none | render, normalise and compare native parameters | only the prepared parameters match |
| Status (`governance_diagnostics.py`, `governance_operation_inputs.py`) | none | project a ledger | the next action fits the phase |
| Contract, rendering, input (`governance_contracts.py`, `governance_dispatch_rendering.py`, `governance_input.py`) | none | validate and render one value | pure functions |
| CLI (`governance_cli.py`, `subagent_governance.py`) | none | one operation per invocation; Hook transport | a fault never becomes a denial |
| Development deployment (`dev_deploy.py`, `runtime_bundle.py`) | stable tree, plugin cache, transaction directory | snapshot, stage, switch, install, verify, roll back, recover | after any interruption a later run restores or completes |
| Release preflight (`release_preflight.py`) | none | lint the repository | read only |

The components meet in the ledger: every dispatch and lifecycle operation is a callback
that `StateStore.update` runs between a read and a write under the Session's lock; the
validator sits on both sides of it; the Hook is one more process that runs one such
operation; status and the Session summary read the file without the lock.

What is hard about it:

* **Interleaving.** Hooks and commands of one Session run at the same time; a duplicated
  Hook asks twice; two calls quote one ref; agents are confirmed twice or for two tasks.
* **Order.** Facts arrive late, repeated and contradicting.  Each operation reads the clock
  *before* it waits for the lock, and the wall clock may be set back, so times are not
  ordered with commits.
* **Failure.** A system call may fail after `os.replace` has already committed; a process
  may be killed between any two steps; power may be lost before the directory is synced.
  `claim_spawn` and `prepare_dispatch` then read back, under a new lock, whether their own
  operation took effect.
* **Limits.** 64 closed records are kept, 512 tasks and a soft byte limit admit new tasks,
  a hard byte limit stops every write.  Records grow by their facts long after they were
  admitted, so a write may be refused that no admission foresaw.

## Modules

| module | what it is |
|---|---|
| `SessionLedger` | the records of one Session and every operation that changes them; one action is one transaction |
| `SessionLedgerProofs`, `LedgerRetentionProofs` | theorems about `SessionLedger`: capability and binding, facts, evidence and what is written; phases, eviction and the limits |
| `GovernedSpawn` | parent, platform and Hook processes around the ledger, with a clock that runs |
| `GovernedSpawnProofs` | theorems about `GovernedSpawn`, among them that it implements `SessionLedger` |
| `StatusReader`, `StatusReaderProofs` | a parent that acts on what status and the operation inputs told it, around the ledger, and theorems about it |
| `NativeCall`, `NativeCallProofs` | rendering, normalisation and comparison of native parameters, and the Hook's decision, and theorems about them |
| `ContextVerification`, `ContextVerificationProofs` | the verification of declared files beside a writer, and theorems about it |
| `StateStore`, `StateStoreProofs` | how one transaction reaches the disk, system call by system call, and theorems about it |
| `AtomicLedger` | the abstract ledger `StateStore` implements |
| `DevDeploy`, `DevDeployProofs` | one deployment after the other, with rollback and recovery, disk change by disk change, and theorems about it |
| `MCSessionLedger`, `MCGovernedSpawn`, `MCStatusReader`, `MCStateStore`, `MCDevDeploy` | values of constants that a cfg cannot write |

How they compose:

* `GovernedSpawn` and `StatusReader` EXTEND `SessionLedger` and change the records only
  through its operations.  `ImplementsLedger` says so of the former and `ReadersOnlyOperate` of
  the latter, and both are proved, so every theorem about the ledger holds of the whole.
* `SessionLedger` takes a transaction as one step.  `StateStore` shows why that is allowed:
  it implements `AtomicLedger`, in which operations take effect one at a time.
* A claim in `SessionLedger` sees the native parameters as exact, changed or unreadable and
  the material as the same, changed or unavailable.  `NativeCall` says which calls are which;
  `ContextVerification` says when a verification may end with which verdict.

### SessionLedger

`tasks` maps each id to its record, or to `Absent`.  A record has the fields of the JSON
record that decisions depend on; where the code deletes a key the model writes a blank
(`None`, `NoTime`, `NoFact`), so the validator's rules about present keys become rules
about non-blank fields (`ShapeOK`).  The contract, its digests, the native parameters and
the texts are constant per task and left out, except for their size; a claim sees the parameters as exact,
changed or unreadable and the material as the same, changed or unavailable, which is all
the code branches on.  Timestamps inside facts are left out, except the first time of an
unknown receipt, which must survive.

`reply` is how the last operation ended: `done`, or the class of the refusal (`conflict`,
`expired`, `unavailable`, and from the store `invalid`, `clock`, `full`, `oversize`).
`granted` and `told` are history: the native calls that were told they hold a capability
and the targets a confirmation reported as the task's own.

Each handler is one action: its early returns and exceptions are disjuncts ending in
`Refuse`, its branches end in `Update` or `Store`, which contain what the code always does
afterwards: `prune_closed_tasks` and the checks of `_write_path`.  Prepare prunes with admission
pressure (`Evicted(tt, "new_task")`), the others only for retention, and the model keeps
the code's order of change and prune.  `prune_closed_tasks` is a loop over the sorted
closed records that stops at the first that need not go; `Evicted` says the same without a
loop: a closed record goes when it is among the excess, or when the older ones did not make
enough room.

The store counts the bytes of the whole ledger as it encodes it (`_encoded_state`), so a record is as
large as what it holds (`Size`): its contract (`ContractBytes`), the capability while it has one
(`CapabilityBytes`), and every other key with the value it has (`EntryBytes[key][value]`).  An
observation, an interrupt result, an unknown receipt, a target, a call id, a reconcile code and a close
reason therefore make a record larger within a phase or across phases, a longer text more than a
shorter one, and what a phase drops makes it smaller.  A time has ten digits whatever it is and counts
with its key; what the ledger has besides its records (`session_id`, `schema_version`) is the same for
all ledgers of a Session and is taken off the limits.  `LargestEntry` bounds one entry, as the
validator bounds every text by 1024 characters; `GapAssumption` says that the gap between the soft and
the hard limit is at least four of them, which is the most one operation adds.  In the program the
gap is 1 MiB and an entry, escaped and with its times, stays below 7 KB.

Task ids are numbers because eviction breaks ties by the order of ids.  An id that was
evicted may be drawn again and then stands for a fresh one.

### GovernedSpawn

The parent prepares a task and makes native calls that quote it; a call has a form
(`Request`: its name, its marker, whether the platform passed Session and call id, how its
parameters compare; the call id may be missing, or longer than a claim admits).  `RequestsOf` says which
forms each call may have.  The platform runs the Hooks of a call, several for one call if it is
registered twice, and runs the call when none of them denied it.  A Hook's program is
`_pre`, `claim_spawn` and `classify_failure`:

| step | code |
|---|---|
| `StartHook` | recognition (`governance_hook.py`) and `utc_now()`, read before the lock |
| `StoreMissing` | the data directory cannot be created |
| `LongCallId` | a `tool_use_id` of more than 1024 characters: a denial before the transaction |
| `Claim` | the transaction; its ledger part is `ClaimSpawn` of `SessionLedger` with the Hook's own time |
| `ClaimThenError`, `WriteFails`, `TransactionFails` | an error after, during and before the write |
| `ReadBack`, `ReadBackFails` | the exact readback under a new lock, or its failure |
| `Deliver`, `Escapes` | the answer, or what the outer boundary of `governance_cli.py` makes of an exception |

`stage` is the variable of that name in `claim_spawn`: an error at `commit` leaves the claim
"unknown" and never denies.  `Lose` is a Hook that is killed, never run or not heard.  `Tick`
kills none by itself: it waits while a Hook is as old as `HookTimeout`, so that such a Hook
must end or be lost, which is what the platform's timeout (hooks.json) does.  A Hook that is gone
counts as known to the parent (`Warned`): that nothing was heard of it is for the platform to show, and
the plugin can do no more.

The parent is not the plugin's; it is modelled from what the operations ask of it: it confirms
with the target of a receipt, records "failed" only when all calls are known to have created
nothing, "unknown" when a receipt is missing, and closes.

### ContextVerification

A step is one system call or one git command of `governance_context.py`: HEAD, the tree,
locating and opening each path, reading it in chunks, the second fstat, the stat of the path,
git status, HEAD again, the comparison.  Meanwhile others write in place (an open
descriptor sees it), replace paths (it does not), commit, stage or check out.  A change gives
the path a new stamp, which stands for what `_file_identity` compares.  `Hidden` are paths git
status is told to skip.  `Timed` steps ask for the time left before they act; those that do
not (`After`, `Current` before its last act) are written out.  `After` is the second fstat alone and
decides nothing; `Current` is the stat of the path and what follows it in the code's order: a conflict
if no regular file is there any more, whatever the fstats said, then the comparison of the three, then
the clock.  `seen` and `strayed` are history: the
contents each path has had, and whether the material ever differed, since the verification
began.

What is verified is the file a declared path leads to when `resolve()` follows its links; the code digests
that file and does not look at the declared path again.  A path of the model is the resolved one: a link
inside the workspace that is repointed between `resolve()` and the claim's end is not in the model, and no
property speaks of it.

The two classes of failure are told apart as the code does: `conflict` denies the native call,
`unavailable` lets it pass unclaimed.

### NativeCall

One prepared call, any number of changed fields, both native interfaces.  `Render`,
`Normalize`, `ClaimParametersMatch` and `Decision` are the functions of
`governance_native_adapter.py` and the Hook.  `Effect` is external: what the native tool makes of
an omitted field, from the defaults the adapter relies on.

A field's values are those the code tells apart: omitted, null, of a wrong type, no admissible text,
and otherwise any of `Others` (governed names of other tasks), `Counts` (the finite `fork_turns`),
`Models` and `Efforts`.  `ValueAssumption` says that none of these is taken for the former.

### StatusReader

`ProjectStatus`, `NextAction` and `OperationInputs` are the projections of
`governance_diagnostics.py` and `governance_operation_inputs.py`.  The parent holds a `view`
that may be stale and submits what it was offered; `Fresh` says whether the record is still as the
view has it.  An id that was evicted may be drawn again in the model, with the same ref; the
program's ids are random, and its status shows when a prepared record expires, which is how `Fresh`
tells the new record from the old one.

### StateStore and AtomicLedger

A process is one invocation.  Its steps are the system calls of `compare_and_set`: open and
flock, read, decide (the callback and the checks before the write), write the temporary
file, fsync, replace, sync the directory, verify, unlock, reply.  `IOError` may strike at
each of them, `Kill` between any two, `PowerLoss` at any time.  A claim or a prepare that
raised then takes the lock again and looks for its own operation (`attempt = "recover"`).
The ledger is the set of operations that took effect; which records they change is
`SessionLedger`'s matter, so an operation other than the replay of a standing claim may
also be refused.  The operations in `Claims` contend for one capability; those in
`Settling` end the task they would claim; the one in `Prepares`, if there is one, makes the task, and
without it neither of the others finds anything (`Needs`).  A readback looks for its operation in the very
phase that operation gave the task: a prepare that was overtaken by a claim or a close of its own task
(`Overtakes`) does not find itself any more, nor does a claim that was overtaken by a close.

`onDisk` is what a power loss may leave: a replace adds the new version (and a torn one if
its data was not fsynced), the directory sync removes all but the current one.  An answer
of a plain success is `durable`; one that rests on the readback alone is not, because the
directory may not have been synced, and a power loss takes it back in the model.

`AtomicLedger` is the promise: operations take effect one at a time (`Commit`), answers are
about what took effect (`Ack`), durable ones survive (`AckDurable`, `LosePower`), and rival
claims exclude each other.  `ImplementsAtomicLedger` maps the visible file to the ledger and
`onDisk` to the survivors.

### DevDeploy

`tree` says what is at each place of the disk: stable, the three switch paths, the two
snapshots inside the transaction, and every cache.  A tree is a version and whether it is its
exact bundle, complete but dirty, or torn; equality stands for equal digests.
`shutil.rmtree` and `copytree` take two steps and leave a torn tree between them, renames and
manifest writes take one.  `manifest` is the state the transaction records (`bare`: a
directory whose manifest is not written yet, or already deleted), `facts` the rest of it.
What a run reads and compares before a change is part of the step that makes it.

`mode` tells a recovery at the start of a run (`resume`) from a rollback of the run itself;
both are the same code, `_recover_transaction`, and differ in what follows.  `Raise` is any
exception (I/O, a source that changed under the run), `Kill` the end of the process.  Both
strike at the steps in the constant `Interruptible`.  The native command is external:
it installs the target wholly, in part or not at all, may remove or spoil other versions, and
returns any code.

The operation lock is taken without waiting and held until the run returns; a run that does
not get it changes nothing.  So runs follow one another in the model, and the lock is left
out.  The dry run changes nothing and is left out too.

`damaged` is history: the `Windows` in which the present transaction was interrupted, those steps at
which an interruption leaves something the next run does not accept; it is empty again when the
transaction ends.  They are stated as a definition of the module because the properties are about
them: a transaction interrupted anywhere else is recovered by the next run (`RefusesOnlyDamage`),
and in the windows nothing is lost either (`NothingLost`).  `Spent` is the one that weakens what
is promised: the deletion of the transaction itself, of a deployment that was verified, was
interrupted, so the old caches may be gone.

## Runs

| run | instance | question |
|---|---|---|
| `ledger_facts` | 1 task, 2 targets, 2 calls, 7 reports, clock 0..1 | is the record valid, consistent and evidence-keeping under every order of facts, when is its close refused? |
| `ledger_dispatch` | 2 tasks with colliding short refs, 2 calls, 2 targets, limits near | one call per capability, first bind wins, one open task per agent, when is a write refused for its size? |
| `ledger_retention` | 4 tasks, 3 allowed, retention 2, clock 0..1 | what eviction takes, and when a new task is refused |
| `spawn_rivals` | 2 calls for one capability, one of them perhaps with too long an id, each with its Hook, clock 0..2, 1 fault, 1 lost Hook | is every answer of a Hook true, is no agent silently ungoverned, how late may a claim be? |
| `spawn_unclaimed_bound` | the same, clock stands still, no Hook lost | finding: an agent without a claim is bound |
| `status_offers` | 1 task, 1 call, retention 0, clock 0..1 | is what the parent is offered accepted, do status and claim agree on expiry? |
| `native_edits` | every valid preparation, 2 models, 2 efforts, 1 other task; all fields changed | does a claimed call run as prepared, is a denial justified? |
| `context_verified` | 2 paths, 1 hidden from git status, both baselines, 2 changes, 1 failing call; fair | was a verdict really so, does the verification end? |
| `store_rivals` | a call, its duplicate and a rival; 2 I/O errors, 1 kill, 1 power loss | does the file behave as an atomic ledger? |
| `store_calls_end` | the prepare of a task, its claim and its close; 1 I/O error, 1 kill; fair | does every call end, is a reported failure true? |
| `deploy_faults` | 3 versions, 3 runs, 2 kills, 2 exceptions, everywhere | is the old or the new deployment always on the disk, are reports true, does every later run recover? |
| `deploy_release_killed` | 3 versions, killed while deleting the backup or the transaction | finding: the next run refuses |

The bounds and why they are enough:

* `ledger_facts` has one task because facts of one task never read another record, except
  for the target's owner, which is `ledger_dispatch`'s subject.  Two targets give a right
  and a wrong one; the reports include, for every handler, each class of value it treats
  differently, and two terminal statuses so that they can contradict.  Two clock readings
  give earlier, equal and later.  The hard limit is one byte below what the record can grow to, so
  that a close with a long reason is refused in some states.
* `ledger_dispatch` needs a second task for collisions of refs and for the reuse of a
  target, and a second call and target for the rivals.  The clock stands still, because
  `ledger_facts` and `ledger_retention` cover times.  Two prepared tasks fill the soft limit, and
  two tasks with facts exceed the hard one, so that facts, confirmations and closes are refused.
* `ledger_retention` needs one task more than the limit, so that an admission can fail,
  and one closed record more than the retention.  Claims and targets are empty: a record
  that is closed from `prepared` or sent to `reconcile` (by an unknown dispatch result)
  is counted like any other.  The soft limit has room for three of the tasks if the largest is not
  among them, so that either limit can be what refuses a task.
* `spawn_rivals` has calls of one form, the one that lost its name and is known by its marker
  alone (one of the two may also have too long an id); two calls, so that one can hold what the other quotes; and three
  readings of the clock, so that a capability (`Expiry` 1) can expire while a Hook waits.  All
  forms of a call and duplicated Hooks of one call are in the theorems alone, which hold for every
  value of the constants; all forms that a changed parameter gives are in `native_edits`.
* `native_edits` has as many edits as fields, so it reaches every call there is over its values, of
  every valid preparation.  Two models and two efforts give a right and a wrong one, and one other
  task is enough, since names are only compared; the theorems are for all values.
* `status_offers` keeps no closed record, so that an id is drawn again under the parent's view.
* `context_verified` needs two paths (one can change while the other is read), one of them
  hidden, and two changes: there and back, or one of each path.
* `store_rivals` allows two errors because one may strike the write and one the readback.
* `store_calls_end` has one operation of each kind, so that every one that reads back can be overtaken
  between its failed write and its readback.
* The deployment runs need three versions: the double-version rule keeps two and evicts
  the third.  Every initial cache set is tried, dirty trees included, and every stable tree,
  the new one among them.  Two kills interrupt a run and the recovery of it; the third run shows
  what is left.  One exception makes a run roll back by itself, the second strikes the rollback.
* Symmetry of targets and calls is used in the ledger runs and of versions in
  `deploy_faults`; no liveness property is checked there.

**Fairness.** Two runs assume any.  `store_calls_end`: weak fairness of each process's own
steps, that is, the operating system schedules a process that can run and a system call
returns.  Nothing makes a caller start, retry, fail or die.  A process waiting for flock needs no
strong fairness because calls are finitely many: a parent repeats a call only after it
failed or died, which the bounds limit.  `context_verified`: the verifier is scheduled and its
calls return (`WF_vars(Step)`; git is run with a timeout), and time passes
(`WF_vars(BudgetEnds)`).  Both are needed: a file may grow as fast as it is read, and then only the
budget ends the reading.  `CHECK_DEADLOCK FALSE` stands where everything may have ended: the
calls of the store, the deployments, the calls and edits of a bounded instance.

## Properties worth reading first

* `ValidatorNeverFires`: the validator is run on every write, and no reachable operation
  computes a ledger it would refuse for its shape.  It can still refuse for the clock
  (`reply = "clock"`, when an operation carries a time before the record's creation) and
  for capacity.
* `CloseRefusedOnlyForGrowth`: whatever happened, the validator takes the close of an open task; only
  its size can stand in the way, and only if the close makes the record larger (a long reason, a
  record that has no capability any more to drop).  So a ledger that has grown to the hard limit
  may refuse closes; `SizeRefusalAboveSoft` says that this takes a ledger beyond the soft limit, where no
  task is admitted either.
* `PhaseAdvances` also records a consequence of reading the clock before the lock: a task that
  is closed with an old time while 64 newer closed records exist is evicted by the very
  write that closes it.
* `ClosedBounded` distinguishes the code from its earlier form, in which the record being
  closed was not counted and 65 closed records remained
  (docs/improvement-plans/native-return-identity-and-retention-2026-09-16.md:17).
* `WrittenClaimIsNotDenied`: an error that follows the write of the claim must not deny the call,
  for the capability would be spent by a call that never runs.
* `NoSilentBypass`: the Hook is fail-open by design, so a call may run without its claim; the
  property is that the parent can know.
* `LateClaimBounded`: README.md:159 says that expiry prevents a new claim.  The time that is
  compared was read before the lock was awaited, so a claim may be written after its
  capability expired, by less than the Hook's timeout.
* `FailureIsTrue`: a single I/O error never makes a claim or a prepare report failure for something
  that stands.  It excepts a task that was taken on in between (a claim or a close may come between
  the failed write and the readback, which then does not find the phase it looks for), a second error
  inside the readback, and a loss of power, which may undo what took it on.
* `DigestIsOfOneMoment`: without a lock on the workspace, the two fstats and the stat are all
  that keeps a mixture of two contents from being recorded.  `VerifiedWasThere` needs only this
  of each path; it does not say that all paths were right at one moment, and the code does not
  promise it.
* `NothingLost` and `RefusesOnlyDamage` say different things of an interruption: that nothing an
  operator would need is gone, and that the program itself finds its way back.  The old deployment
  is kept until the new one is verified and its transaction is being deleted.  If that deletion is
  interrupted (`Spent`), the next run may have put the old stable tree back beside the new caches, and
  that is the worst it can leave: all of the new caches are there, and so is the old stable tree.

## Where the code does less than its documents say

**An agent without a claim is bound** (`spawn_unclaimed_bound`).  skills/subagent-governance/references/recovery.md:54 says that a
confirmation that lacks a claim enters reconcile.  `confirm_dispatch` looks at the phase: when two calls
quoted one capability, one claimed it, and the other was let through because its Hook failed
open, the confirmation of the second call's agent finds a claimed record and binds it.  The parent
was warned about that call (`NoSilentBypass`).

**Some interruptions of a deployment end in a refusal** (`deploy_release_killed`).
docs/architecture.md:155 promises that a failed or interrupted transaction restores the
stable tree and the complete set of caches from before the deployment.  It does, except in
these windows (`Windows` in `DevDeploy`):

* `release`: the backup of a verified deployment is being deleted.  The next run finds a
  damaged backup and refuses, for good, although the snapshot is intact.
* `finishing`: the transaction itself is being deleted.  If the cache snapshot goes first, the
  next run puts the old stable back and then refuses: the old stable stands beside the new
  caches, which are whole (the last disjunct of `NothingLost`).
* `record` and `discard`: a transaction directory without a manifest, or with half of its
  snapshots.  The live trees are whole; later runs refuse until the directory is removed.
* `drop stable`, `copy recovery`, and `swing` from the recovery tree: an interrupted recovery
  leaves a stable or a recovery tree that the next one does not accept.  The old deployment is
  in the snapshot (`NothingLost`); an operator has to put it back.

## How the properties were tested

Every property is broken by a plausible bug in some mapped definition; these are the
`Mut_...` operators, each placed before the definition it would replace.

## Proofs

**The ledger** (`SessionLedgerProofs`, `LedgerRetentionProofs`), for every
finite set of task ids, every set of targets, calls and reports, all limits and all sizes of records
(`IdAssumption`, `ReportAssumption`, `LimitAssumption`, `SizeAssumption`, `GapAssumption`):

| theorem | property |
|---|---|
| `TypeCorrect` | `TypeOK` |
| `ValidatorSilent` | `ValidatorNeverFires` |
| `CapabilityHeldOnce` | `OneGrantPerCapability` |
| `BindingFixed` | `FirstBindWins` |
| `FactsNeverContradict` | `FactsAgree` |
| `CodesAreWarranted` | `ReconcileMatchesEvidence` |
| `NoEvidenceLost` | `EvidenceKept` |
| `ClosedStaysClosed` | `ClosedIsFinal` |
| `PhasesOnlyAdvance` | `PhaseAdvances` |
| `RetentionKept` | `ClosedBounded` |
| `OldestAreEvicted` | `EvictionTakesOldest` |
| `FewestAreEvicted` | `EvictionIsMinimal` |
| `RefusalIsTight` | `AdmissionTight` |
| `WrittenIsReadable` | `RecordsReadable`: what is written passes the validator and is no larger than a reader takes |
| `GrowthHasItsGap` | `SizeRefusalAboveSoft` |
| `EveryTaskCanEnd` | `CloseRefusedOnlyForGrowth` |

The inductive invariant `Inv` joins the type invariant, `WellFormed(tasks)` (what is stored
is valid, from which what an operation computes is valid) and `HistoryInv`, which ties the
history to the phases: no call holds a capability that is still prepared, exactly the
recorded call holds a claimed one, a task with a target was claimed, and every confirmation
told the recorded target.  `OneGrantPerCapability` and `FirstBindWins` alone are not
inductive: a claim adds a call, and only the prepared phase says that there was none.  The proof
has a lemma per operator of the transaction (`PruneKeeps`, `ReplaceWellFormed`,
`StoreOutcome`, ...), one per handler (`ClaimSafe`, `ConfirmSafe`, ...), and `StepInv` puts
them together.  The theorems about facts rest on one description of a step that all handlers
satisfy: a record stays, is evicted, is new, or evolves by one admissible fact; the properties then
follow from that description without looking at the handlers again.

`LedgerRetentionProofs` goes on from there.  `RetentionInv` adds to `Inv` that the ledger is
readable (`RecordsReadable`), holds at most `Retention` closed records and that a refusal, for
capacity or for size, was warranted.  It is why the
prune at the start of a claim or a confirmation finds nothing to do (`NothingToEvict`), so that a
step keeps the ledger, changes one record or adds one (`StepOutcome`).  What eviction takes is about
the order of closed records: `OlderIsOrder` says that it is a strict total order, `Oldest` and
`Youngest` that finite sets have ends, `OlderGoes` that with a record go all older ones.  The sums
are where induction would be used; instead of it, `Smallest` takes, of the sets for which a claim
about sums fails, one with no smaller such set.  With it `SummingExists` and `SummingUnique` show
that the recursion the library sums by has exactly one solution, and `TotalTake` (any member may be
taken first), `TotalLeq` and `TotalGap` follow.

Of the sizes only `GapAssumption` is supposed.  No handler writes more than four keys of a record and
every entry is at most `LargestEntry`, so one operation adds at most `4 * LargestEntry` bytes to what was
there; a ledger within the soft limit therefore fits the hard one afterwards, which is
`SizeRefusalAboveSoft`.  A close drops the capability, if there is one, and adds a reason and a time;
pruning only takes away.  So the close of a ledger that fits is refused for its size only if the
record it writes is larger than the one it replaces, which is `CloseRefusedOnlyForGrowth`.  Nothing
stronger holds: the gap is shared by all open tasks, and no part of it is reserved for their closes.

**The Hook** (`GovernedSpawnProofs`), for any Hooks, calls, forms of a call, timeout and faults:

| theorem | property |
|---|---|
| `SpawnImplementsLedger` | `ImplementsLedger` |
| `SpawnTypeCorrect` | `SpawnTypeOK` |
| `ConfirmedClaims` | `ConfirmedIsTrue` |
| `NoDenialAfterWrite` | `WrittenClaimIsNotDenied` |
| `BypassIsHeard` | `NoSilentBypass` |
| `LateByTimeoutAtMost` | `LateClaimBounded` |

The invariant `GInv` is `Inv` of the ledger, which the refinement carries over, with what
each Hook knows (`HooksOK`: a Hook that wrote is at stage commit or has spoken; one that says
"confirmed" names a task granted to its call alone) and what is known of a call that ran (`CreatedOK`).
`TimelyInv` adds that a waiting Hook's time is younger than the timeout.

**The store** (`StateStoreProofs`), for any processes, operations and numbers of errors, kills and
losses of power:

| theorem | property |
|---|---|
| `StoreTypeCorrect` | `TypeOK`: types, and who holds the lock |
| `NoLostUpdate` | `AckedStays` |
| `OneClaimTold` | `OneClaimAcked` |
| `AlwaysWhole` | `NeverTorn` |
| `StoreImplementsAtomicLedger` | `ImplementsAtomicLedger` |
| `FailuresAreTrue` | `FailureIsTrue` |

`StoreInv` says what the one process inside the lock knows of the file (`Inside`: between its
read and its replace, `next` is the file with its own operation added; after the replace it is
the file), what holds of every version a loss of power may leave (`Versions`), and that an
answer on its way is true (`Answers`).  The lock part of `TypeOK` gives that everybody else is
outside (`Alone`).  `FailureIsTrue` needs a second invariant (`Refused`) that counts the errors behind
a failure: one in the transaction and one in the readback.

**The verification** (`ContextVerificationProofs`), for any number of paths, changes and failing
calls, both baselines:

| theorem | property |
|---|---|
| `ContextTypeCorrect` | `TypeOK` |
| `ConflictsAreReal` | `ConflictIsReal` |
| `DigestsAreOfOneMoment` | `DigestIsOfOneMoment` |
| `VerifiedMaterialWasThere` | `VerifiedWasThere` |

The invariant's core is `OpenFile`: while a file is read, a path that still has the stamp of its
open has the content that was read.  That makes a recorded digest one of the contents seen
(`Digests`), and a digest that is not as expected a proof that the material strayed.

**The native call** (`NativeCallProofs`), for any models, efforts, counts and other tasks, and any
number of changes (`ValueAssumption`, `EditAssumption`):

| theorem | property |
|---|---|
| `ClaimsRunAsPrepared` | `ClaimedRunsAsPrepared` |
| `RenderedGetsTheClaim` | `RenderedIsClaimed` |
| `ClaimIsOfTheEffect` | which calls get the claim, exactly |
| `DenialsAreEstablished` | `DenialIsEstablished` |

The argument is that the adapter and the native tool read a call alike: a call is normalised to the
prepared parameters just when its effect is the prepared one (`NormalizeIsEffect`), and one the
adapter cannot normalise has another effect (`MismatchIsOtherEffect`).  `ClaimedExactly` makes of it
a description of the claimed calls that does not mention normalisation: they bear the prepared name
(`Marked`), have only fields their interface knows (`Legible`), and ask for the prepared agent.  The
invariant needed of the behaviour is only that the preparation stays what was validated (`Frozen`),
because a call that inherits everything must not also override the model.

**The deployment** (`DevDeployProofs`), for any versions, runs, kills and exceptions, and any set of
steps at which they may strike (`VersionAssumption`, `BoundAssumption`, `StepAssumption`):

| theorem | property |
|---|---|
| `TypeCorrect` | types of all variables |
| `NothingIsLost` | `NothingLost` |
| `ReportsAreTrue` | `ReportIsTrue` |
| `TransactionsEndWhole` | `EndsWhole` |
| `OnlyDamageIsRefused` | `RefusesOnlyDamage` |

`Inv` says, step by step, which trees are the old deployment's and which the new one's
(`AtSnapshot`, `AtSwitch`, `AtRecovery`), and of a transaction that waits for a recovery two things.
`Restorable`: the old deployment is live or can be put together from the kept caches and one good
stable tree (`Preserved`); or the transaction is spent and the new deployment is live, except that its
stable tree may have been replaced by the old one (`Halfway`).  `Recoverable`, of one that was not
interrupted in a window: nothing will make the recovery refuse.  The first survives any interruption,
the second is what `RefusesOnlyDamage` needs and is lost in the windows.  `NothingLost` alone is not
inductive: that a tree is *somewhere* does not say that the recovery will not delete it, which
`Swung` and `Under` say of the steps that do.  There is one lemma per step of the run and of the
recovery, and one for an interruption at any of them.

**The reader** (`StatusReaderProofs`), under the assumptions of the ledger:

| theorem | property |
|---|---|
| `ReadersOnlyOperate` | the reader's specification implements the ledger's |
| `OffersStand` | `OfferIsAccepted` |
| `OneExpiryLine` | `ExpiryAgreesWithClaim` |

`ViewOK` is all that is needed of the view: it names an id, ref and target that can be named, and its
`expired` was judged by the expiry and the time it shows.  Whether an offer is accepted follows from
the ledger's own invariants at the moment it is submitted (`StoreAccepted`: a write that adds no
task cannot be refused as full, nor, by `Inv`, as invalid).

Only model-checked, and why (every other property of a passing run is a theorem):

* Liveness (`CallsEnd`, `VerificationEnds`): the proof system does not handle fairness.

## Not modelled, and why

* `delete` and `delete_if` of the store and `UnavailableStateStore`: the program does not
  call the first two, and the last always raises.
* Temporary files left behind by a kill: nothing reads them.
* Checks of owner, permission and file type of the store's paths: they refuse, as an I/O
  error of `open` or `read` does.
* Windows: the directory is not synced there (`sync_directory` returns), so the durability
  part of `AckedStays` is about POSIX.
* The Session summary that the Hook adds at SessionStart and SubagentStart: it changes nothing
  and reads the file as status does (`NeverTorn`); the report of all tasks and of the
  installation in status, which lists what the projection says of each.
* The validation of a manifest's structure; the validation of a contract, the prompt rendered from it,
  messages, task names and other texts: functions of one value.
* The resolution of a manifest's paths into the workspace.  It reads the links on the way, so its result
  can be out of date when the file is opened (see `ContextVerification`).
* What happens to a declared file after the claim: the native agent reads it when it runs, and nothing
  holds it until then.
* A loss of power during a deployment (only its manifest is synced, and no document claims
  more), a native command that outlives a killed run, several programs writing the
  deployment's directories at once (docs/release-process.md:64 disclaims it), and the checks of
  types, owners and permissions of its paths.
* The CLI's argument parsing, release preflight (it reads the repository and changes nothing),
  tests and CI.

## Plan

What could come next, most useful first:

1. `SessionLedger`'s operations inside `StateStore`'s transactions, instead of the set of
   operations that took effect, so that the durability of a close or a fact is stated of the record.
2. Links inside the workspace in `ContextVerification`, with the declared path and the file it leads to
   told apart.
