------------------------------ MODULE StateStore ------------------------------
(***************************************************************************)
(* How one transaction on a Session reaches the disk: StateStore.update    *)
(* (scripts/governance_state_store.py) over locked_file, read_private_bytes *)
(* and atomic_write_bytes (governance_storage.py), flock and the directory *)
(* sync (governance_store_support.py), and the exact readback by which     *)
(* claim_spawn and prepare_dispatch recover from a write that failed after *)
(* it had committed.                                                       *)
(*                                                                         *)
(* Every process is one invocation: a CLI command or a PreToolUse Hook     *)
(* that does one operation and exits.  A step is one system call; any of   *)
(* them may fail, the process may be killed between any two, and the       *)
(* machine may lose power.  What an operation does to the records is       *)
(* module SessionLedger; here the ledger is the set of the operations that *)
(* took effect, and an operation that is in it already is a replay.        *)
(***************************************************************************)
EXTENDS Integers, FiniteSets

CONSTANTS
    Procs,       \* invocations
    OpOf,        \* the operation of each; a duplicated Hook shares it
    Prepares,    \* the operation that prepares a task, if it is one of them
    Claims,      \* the operations that contend for the capability of that task
    Settling,    \* the operations that take the task on: a close, a result
    Recovering,  \* the operations that read back after a failure: claim and prepare
    MaxFaults,   \* bound: I/O errors
    MaxKills,    \* bound: processes killed
    MaxLosses    \* bound: losses of power

Ops == {OpOf[p] : p \in Procs}
Nobody == "nobody"

ASSUME OpAssumption ==
    /\ Prepares \subseteq Ops /\ Claims \subseteq Ops \ Prepares
    /\ Settling \subseteq Ops \ (Prepares \cup Claims) /\ Recovering \subseteq Ops
    /\ Nobody \notin Procs
ASSUME BoundAssumption == MaxFaults \in Nat /\ MaxKills \in Nat /\ MaxLosses \in Nat

VARIABLES
    file,      \* the Session file: what a read returns
    onDisk,    \* the versions of it that a loss of power may leave
    lock,      \* the process that holds the Session's flock
    pc,        \* the next system call of each process
    attempt,   \* is it in the transaction or in the readback that recovers it
    outcome,   \* how its call ended, or will end unless the readback says otherwise
    next,      \* the ledger it is about to write
    synced,    \* is its temporary file on the disk
    acked,     \* history: the operations somebody was told took effect
    durable,   \* history: those of them reported by a plain success
    faults, kills, losses

io == <<file, onDisk>>
hist == <<acked, durable>>
bounds == <<faults, kills, losses>>
vars == <<file, onDisk, lock, pc, attempt, outcome, next, synced, acked, durable,
          faults, kills, losses>>

IOSteps == {"open", "read", "write", "fsync", "replace", "syncdir", "verify"}
Steps == {"idle", "decide", "unlock", "reply"} \cup IOSteps
Outcomes == {"none", "ok", "recovered", "conflict", "failed", "dead"}
Version == [ops : SUBSET Ops, whole : BOOLEAN]

Torn == [ops |-> {}, whole |-> FALSE]
Whole(ops) == [ops |-> ops, whole |-> TRUE]

\* What stands in the way of a claim: a rival's, or the end of the task.
Mut_NoRivals(op) == IF op \in Claims THEN Settling ELSE {}
Against(op) == IF op \in Claims THEN (Claims \ {op}) \cup Settling ELSE {}

\* A task must be there to be claimed or settled.
Needs(op) == IF op \in Claims \cup Settling THEN Prepares ELSE {}

\* The ledger shows that this very operation took effect: the readback looks for the
\* task in the phase the operation gave it, and a task that was claimed or settled
\* since is not prepared any more.
Overtakes(op) == IF op \in Prepares THEN Claims \cup Settling ELSE Against(op)
Stands(op, ops) == op \in ops /\ Overtakes(op) \cap ops = {}

Init ==
    /\ file = Whole({}) /\ onDisk = {Whole({})}
    /\ lock = Nobody
    /\ pc = [p \in Procs |-> "idle"]
    /\ attempt = [p \in Procs |-> "update"]
    /\ outcome = [p \in Procs |-> "none"]
    /\ next = [p \in Procs |-> {}]
    /\ synced = [p \in Procs |-> FALSE]
    /\ acked = {} /\ durable = {}
    /\ faults = 0 /\ kills = 0 /\ losses = 0

-----------------------------------------------------------------------------
(* How a call leaves the transaction *)

\* The readback follows a transaction that raised, once.
Mut_NoReadback(p, how) == FALSE
ReadsBack(p, how) ==
    how \in {"conflict", "failed"} /\ attempt[p] = "update" /\ OpOf[p] \in Recovering

\* The call goes on after its lock is free, or was never taken.
Leave(p, how) ==
    /\ pc' = [pc EXCEPT ![p] = IF ReadsBack(p, how) THEN "open" ELSE "reply"]
    /\ attempt' = [attempt EXCEPT ![p] = IF ReadsBack(p, how) THEN "recover" ELSE @]

\* An error inside the readback is swallowed: the first one is what counts.
Blame(p, how) == IF attempt[p] = "recover" THEN outcome[p] ELSE how

\* Leaving the with statement of _lock.
Mut_UnlockOnSuccess(p) ==
    /\ pc[p] = "unlock"
    /\ lock' = IF outcome[p] = "ok" THEN Nobody ELSE lock
    /\ Leave(p, outcome[p])
    /\ UNCHANGED <<io, outcome, next, synced, hist, bounds>>
Unlock(p) ==
    /\ pc[p] = "unlock"
    /\ lock' = Nobody
    /\ Leave(p, outcome[p])
    /\ UNCHANGED <<io, outcome, next, synced, hist, bounds>>

-----------------------------------------------------------------------------
(* The transaction *)

\* A call, or the retry of one that failed or died; a parent does not repeat
\* what was answered, and to prepare again makes another task.
Start(p) ==
    /\ pc[p] = "idle" /\ outcome[p] \in {"none", "failed", "dead"}
    /\ OpOf[p] \in Prepares => outcome[p] = "none"
    /\ pc' = [pc EXCEPT ![p] = "open"]
    /\ attempt' = [attempt EXCEPT ![p] = "update"]
    /\ outcome' = [outcome EXCEPT ![p] = "none"]
    /\ UNCHANGED <<io, lock, next, synced, hist, bounds>>

\* Opening the lock file and waiting for flock(LOCK_EX).
Mut_NoLock(p) ==
    /\ pc[p] = "open"
    /\ lock' = p
    /\ pc' = [pc EXCEPT ![p] = "read"]
    /\ UNCHANGED <<io, attempt, outcome, next, synced, hist, bounds>>
Acquire(p) ==
    /\ pc[p] = "open" /\ lock = Nobody
    /\ lock' = p
    /\ pc' = [pc EXCEPT ![p] = "read"]
    /\ UNCHANGED <<io, attempt, outcome, next, synced, hist, bounds>>

\* A file that cannot be decoded is an error like any other.  The transaction
\* goes on with what it read; the readback looks for its own operation.
Read(p) ==
    /\ pc[p] = "read"
    /\ pc' = [pc EXCEPT ![p] = IF file.whole /\ attempt[p] = "update" THEN "decide" ELSE "unlock"]
    /\ next' = [next EXCEPT ![p] = file.ops]
    /\ outcome' = [outcome EXCEPT ![p] =
          IF ~file.whole THEN Blame(p, "failed")
          ELSE IF attempt[p] = "recover" /\ Stands(OpOf[p], file.ops) THEN "recovered" ELSE @]
    /\ UNCHANGED <<io, lock, attempt, synced, hist, bounds>>

\* The callback and the checks of _write_path.  A replay writes the ledger as it
\* is.  A claim is refused when a rival holds the capability or the task has
\* been settled, anything about the task when it is not prepared yet, and all but
\* the replay of a standing claim may be refused for reasons that are
\* SessionLedger's matter.
Decide(p) ==
    /\ pc[p] = "decide"
    /\ \/ /\ Against(OpOf[p]) \cap next[p] = {} /\ Needs(OpOf[p]) \subseteq next[p]
          /\ pc' = [pc EXCEPT ![p] = "write"]
          /\ next' = [next EXCEPT ![p] = @ \cup {OpOf[p]}]
          /\ UNCHANGED outcome
       \/ /\ ~(OpOf[p] \in Recovering /\ Stands(OpOf[p], next[p]))
          /\ pc' = [pc EXCEPT ![p] = "unlock"]
          /\ outcome' = [outcome EXCEPT ![p] = "conflict"]
          /\ UNCHANGED next
    /\ UNCHANGED <<io, lock, attempt, synced, hist, bounds>>

\* mkstemp, write and flush: the bytes are in the page cache.
Mut_NoFsync(p) ==
    /\ pc[p] = "write"
    /\ pc' = [pc EXCEPT ![p] = "replace"]
    /\ synced' = [synced EXCEPT ![p] = FALSE]
    /\ UNCHANGED <<io, lock, attempt, outcome, next, hist, bounds>>
Write(p) ==
    /\ pc[p] = "write"
    /\ pc' = [pc EXCEPT ![p] = "fsync"]
    /\ synced' = [synced EXCEPT ![p] = FALSE]
    /\ UNCHANGED <<io, lock, attempt, outcome, next, hist, bounds>>

Fsync(p) ==
    /\ pc[p] = "fsync"
    /\ pc' = [pc EXCEPT ![p] = "replace"]
    /\ synced' = [synced EXCEPT ![p] = TRUE]
    /\ UNCHANGED <<io, lock, attempt, outcome, next, hist, bounds>>

\* os.replace: readers see the new file at once; until the directory is synced
\* a loss of power may leave the old one, or an empty one if the data was not.
Replace(p) ==
    /\ pc[p] = "replace"
    /\ pc' = [pc EXCEPT ![p] = "syncdir"]
    /\ file' = Whole(next[p])
    /\ onDisk' = onDisk \cup {file'} \cup (IF synced[p] THEN {} ELSE {Torn})
    /\ UNCHANGED <<lock, attempt, outcome, next, synced, hist, bounds>>

Mut_NoDirectorySync(p) ==
    /\ pc[p] = "syncdir"
    /\ pc' = [pc EXCEPT ![p] = "verify"]
    /\ UNCHANGED <<io, lock, attempt, outcome, next, synced, hist, bounds>>
SyncDirectory(p) ==
    /\ pc[p] = "syncdir"
    /\ pc' = [pc EXCEPT ![p] = "verify"]
    /\ onDisk' = {file}
    /\ UNCHANGED <<file, lock, attempt, outcome, next, synced, hist, bounds>>

\* The readback of _write_path.
Verify(p) ==
    /\ pc[p] = "verify"
    /\ pc' = [pc EXCEPT ![p] = "unlock"]
    /\ outcome' = [outcome EXCEPT ![p] = IF file = Whole(next[p]) THEN "ok" ELSE "failed"]
    /\ UNCHANGED <<io, lock, attempt, next, synced, hist, bounds>>

\* The answer reaches the caller.
Reply(p) ==
    /\ pc[p] = "reply"
    /\ pc' = [pc EXCEPT ![p] = "idle"]
    /\ acked' = IF outcome[p] \in {"ok", "recovered"} THEN acked \cup {OpOf[p]} ELSE acked
    /\ durable' = IF outcome[p] = "ok" THEN durable \cup {OpOf[p]} ELSE durable
    /\ UNCHANGED <<io, lock, attempt, outcome, next, synced, bounds>>

Step(p) ==
    \/ Acquire(p) \/ Read(p) \/ Decide(p) \/ Write(p) \/ Fsync(p) \/ Replace(p)
    \/ SyncDirectory(p) \/ Verify(p) \/ Unlock(p) \/ Reply(p)

-----------------------------------------------------------------------------
(* What goes wrong *)

\* A system call fails.  Replacing is atomic: it either fails or happens.  After
\* it, an error no longer undoes anything.
IOError(p) ==
    /\ pc[p] \in IOSteps /\ faults < MaxFaults
    /\ faults' = faults + 1
    /\ outcome' = [outcome EXCEPT ![p] = Blame(p, "failed")]
    /\ IF lock = p
       THEN pc' = [pc EXCEPT ![p] = "unlock"] /\ UNCHANGED attempt
       ELSE Leave(p, outcome'[p])
    /\ UNCHANGED <<io, lock, next, synced, hist, kills, losses>>

\* A killed process loses its lock: flock goes with the descriptor.
Kill(p) ==
    /\ pc[p] # "idle" /\ kills < MaxKills
    /\ kills' = kills + 1
    /\ pc' = [pc EXCEPT ![p] = "idle"]
    /\ outcome' = [outcome EXCEPT ![p] = "dead"]
    /\ lock' = IF lock = p THEN Nobody ELSE lock
    /\ UNCHANGED <<io, attempt, next, synced, hist, faults, losses>>

\* Nobody holds an answer that rested on an unsynced directory to anything.
PowerLoss ==
    /\ losses < MaxLosses
    /\ losses' = losses + 1
    /\ file' \in onDisk
    /\ onDisk' = {file'}
    /\ lock' = Nobody
    /\ pc' = [p \in Procs |-> "idle"]
    /\ outcome' = [p \in Procs |-> IF pc[p] = "idle" THEN outcome[p] ELSE "dead"]
    /\ acked' = durable
    /\ UNCHANGED <<attempt, next, synced, durable, faults, kills>>

Next ==
    \/ \E p \in Procs : Start(p) \/ Step(p) \/ IOError(p) \/ Kill(p)
    \/ PowerLoss

Spec == Init /\ [][Next]_vars

\* A process that can run does; nobody has to call, retry, fail or be killed.
\* Calls are retried only after a failure, so the lock is taken finitely often
\* and weak fairness suffices for those who wait for it.
FairSpec == Spec /\ \A p \in Procs : WF_vars(Step(p))

-----------------------------------------------------------------------------
(* Properties *)

\* Every variable has its type, and the lock is held exactly by the process that
\* is between its acquire and its unlock, whatever was killed or failed.
TypeOK ==
    /\ file \in Version /\ onDisk \subseteq Version
    /\ lock \in Procs \cup {Nobody}
    /\ pc \in [Procs -> Steps]
    /\ attempt \in [Procs -> {"update", "recover"}]
    /\ outcome \in [Procs -> Outcomes]
    /\ next \in [Procs -> SUBSET Ops]
    /\ synced \in [Procs -> BOOLEAN]
    /\ acked \subseteq Ops /\ durable \subseteq acked
    /\ faults \in 0..MaxFaults /\ kills \in 0..MaxKills /\ losses \in 0..MaxLosses
    /\ \A p \in Procs : lock = p <=> pc[p] \notin {"idle", "open", "reply"}

\* No lost update: what somebody was told took effect is in the ledger, however
\* the transactions of others interleave with it, and what a plain success
\* reported is in everything a loss of power may leave behind.
AckedStays ==
    /\ acked \subseteq file.ops
    /\ \A left \in onDisk : durable \subseteq left.ops

\* Two native calls that contend for one capability are never both told it is
\* theirs, not even when one of them learns it from the readback after an error.
OneClaimAcked == Cardinality(acked \cap Claims) <= 1

\* Readers that take no lock (status and the Session summary) and the next
\* transaction find a complete ledger, also after a kill or a loss of power in
\* the middle of a write.
NeverTorn == file.whole /\ \A left \in onDisk : left.whole

\* One I/O error never makes a claim or a prepare report failure for something
\* that took effect and was not overtaken since: the readback finds it, although it
\* takes the lock anew and others may have written in between.  (A task that was
\* claimed or closed before the readback is not found as prepared.  A second error
\* may hit the readback itself, a loss of power may undo what settled it; an
\* operation shared with another invocation is that one's matter.)
FailureIsTrue ==
    \A p \in Procs :
        /\ pc[p] = "idle" /\ outcome[p] \in {"conflict", "failed"} /\ faults <= 1 /\ losses = 0
        /\ OpOf[p] \in Recovering /\ \A q \in Procs \ {p} : OpOf[q] # OpOf[p]
        => ~Stands(OpOf[p], file.ops)

\* A call always ends: an error or a death inside the lock leaves nobody
\* waiting for it.
CallsEnd == \A p \in Procs : (pc[p] # "idle") ~> (pc[p] = "idle")

\* The transactions implement an atomic ledger: each takes effect at its
\* replace, and the answers are about what took effect.
Atomic == INSTANCE AtomicLedger WITH
    ledger <- file.ops, survivors <- {left.ops : left \in onDisk}
ImplementsAtomicLedger == Atomic!Spec
=============================================================================
