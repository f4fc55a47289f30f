--------------------------- MODULE StateStoreProofs ---------------------------
(***************************************************************************)
(* Theorems about StateStore, for any number of processes, operations,     *)
(* I/O errors, kills and losses of power.                                  *)
(*                                                                         *)
(* What makes the properties inductive is what the process inside the lock *)
(* knows: between its read and its replace the ledger it is about to write *)
(* is the file with its own operation added, between its replace and its   *)
(* unlock it is the file (Inside); what a process that has left the lock   *)
(* knows about its answer (Answers); and, as long as no power was lost,    *)
(* what one that failed or was refused knows about the operation that only *)
(* it does (Refused).                                                      *)
(***************************************************************************)
EXTENDS StateStore, FiniteSetTheorems, TLAPS

\* What is on the disk, or may be after a loss of power.
Versions ==
    /\ file \in onDisk
    /\ \A left \in onDisk : left.whole = TRUE
    /\ \A left \in onDisk : durable \subseteq left.ops
    /\ acked \subseteq file.ops
    /\ \A left \in onDisk : \A a, b \in left.ops \cap Claims : a = b

\* What the process inside the lock knows of the file.
Inside(p) ==
    /\ pc[p] = "decide" => next[p] = file.ops
    /\ pc[p] \in {"write", "fsync", "replace"} =>
          next[p] = file.ops \cup {OpOf[p]} /\ Against(OpOf[p]) \cap file.ops = {}
    /\ pc[p] = "replace" => synced[p] = TRUE
    /\ pc[p] \in {"syncdir", "verify"} => file = Whole(next[p]) /\ OpOf[p] \in next[p]
    /\ pc[p] = "verify" => onDisk = {file}

\* An answer that is on its way is true, and a plain success already durable.
Answers(p) ==
    /\ outcome[p] \in {"ok", "recovered"} => pc[p] \in {"unlock", "reply", "idle"}
    /\ pc[p] \in {"unlock", "reply"} /\ outcome[p] = "ok" =>
          \A left \in onDisk : OpOf[p] \in left.ops
    /\ pc[p] \in {"unlock", "reply"} /\ outcome[p] = "recovered" => OpOf[p] \in file.ops

StoreInv ==
    /\ TypeOK /\ Versions
    /\ \A p \in Procs : Inside(p)
    /\ \A p \in Procs : Answers(p)

\* Operations are those of the processes, and nobody is not one of them.
LEMMA OpFacts ==
    /\ \A p \in Procs : OpOf[p] \in Ops
    /\ Nobody \notin Procs /\ Claims \subseteq Ops /\ Settling \cap Claims = {}
BY OpAssumption DEF Ops

\* Two processes are never inside the lock at once.
LEMMA Alone ==
    ASSUME TypeOK, NEW p \in Procs, NEW q \in Procs, p # q,
           pc[p] \notin {"idle", "open", "reply"}
    PROVE  lock = p /\ pc[q] \in {"idle", "open", "reply"}
BY DEF TypeOK

\* Initially nothing is written and nobody calls.
LEMMA StoreInit == Init => StoreInv
<1> SUFFICES ASSUME Init PROVE StoreInv
  OBVIOUS
<1>1. TypeOK
  BY OpFacts, BoundAssumption
  DEF Init, TypeOK, Version, Whole, Steps, IOSteps, Outcomes
<1>2. Versions
  BY DEF Init, Versions, Whole
<1>3. \A p \in Procs : Inside(p) /\ Answers(p)
  BY DEF Init, Inside, Answers
<1> QED
  BY <1>1, <1>2, <1>3 DEF StoreInv

-----------------------------------------------------------------------------
(* The type invariant *)

\* One process moves, and takes or frees the lock as its step says.
LEMMA Moves ==
    ASSUME TypeOK, NEW p \in Procs, NEW step \in Steps,
           pc' = [pc EXCEPT ![p] = step],
           \/ /\ lock' = lock
              /\ pc[p] \in {"idle", "open", "reply"} <=> step \in {"idle", "open", "reply"}
           \/ /\ lock' = p /\ lock = Nobody /\ step \notin {"idle", "open", "reply"}
           \/ /\ lock' = Nobody /\ lock = p /\ step \in {"idle", "open", "reply"}
    PROVE  /\ pc' \in [Procs -> Steps] /\ lock' \in Procs \cup {Nobody}
           /\ \A q \in Procs : lock' = q <=> pc'[q] \notin {"idle", "open", "reply"}
BY OpFacts DEF TypeOK

\* Where a call goes when it leaves the lock.
LEMMA LeaveMoves ==
    ASSUME TypeOK, NEW p \in Procs, NEW how \in Outcomes, Leave(p, how)
    PROVE  /\ \E step \in {"open", "reply"} : pc' = [pc EXCEPT ![p] = step]
           /\ attempt' \in [Procs -> {"update", "recover"}]
           /\ \A q \in Procs \ {p} : attempt'[q] = attempt[q]
BY DEF TypeOK, Leave

\* Every step keeps the types.
LEMMA TypeStep == TypeOK /\ [Next]_vars => TypeOK'
<1> SUFFICES ASSUME TypeOK, [Next]_vars PROVE TypeOK'
  OBVIOUS
<1> USE OpFacts DEF Steps, IOSteps, Outcomes
<1>1. ASSUME NEW p \in Procs, Start(p) PROVE TypeOK'
  <2>1. pc' = [pc EXCEPT ![p] = "open"] /\ lock' = lock /\ pc[p] = "idle"
    BY <1>1 DEF Start
  <2> QED
    BY <1>1, <2>1, Moves DEF Start, TypeOK, io, hist, bounds
<1>2. ASSUME NEW p \in Procs, Acquire(p) PROVE TypeOK'
  <2>1. pc' = [pc EXCEPT ![p] = "read"] /\ lock' = p /\ lock = Nobody
    BY <1>2 DEF Acquire
  <2> QED
    BY <1>2, <2>1, Moves DEF Acquire, TypeOK, io, hist, bounds
<1>3. ASSUME NEW p \in Procs, Read(p) PROVE TypeOK'
  <2>1. \E step \in {"decide", "unlock"} : pc' = [pc EXCEPT ![p] = step]
    BY <1>3 DEF Read
  <2>2. lock' = lock /\ pc[p] = "read"
    BY <1>3 DEF Read
  <2>3. outcome' \in [Procs -> Outcomes]
    BY <1>3 DEF Read, TypeOK, Blame
  <2>4. next' \in [Procs -> SUBSET Ops]
    BY <1>3 DEF Read, TypeOK, Version
  <2> QED
    BY <1>3, <2>1, <2>2, <2>3, <2>4, Moves DEF Read, TypeOK, io, hist, bounds
<1>4. ASSUME NEW p \in Procs, Decide(p) PROVE TypeOK'
  <2>1. \E step \in {"write", "unlock"} : pc' = [pc EXCEPT ![p] = step]
    BY <1>4 DEF Decide
  <2>2. lock' = lock /\ pc[p] = "decide"
    BY <1>4 DEF Decide
  <2>3. outcome' \in [Procs -> Outcomes] /\ next' \in [Procs -> SUBSET Ops]
    BY <1>4 DEF Decide, TypeOK
  <2> QED
    BY <1>4, <2>1, <2>2, <2>3, Moves DEF Decide, TypeOK, io, hist, bounds
<1>5. ASSUME NEW p \in Procs, Write(p) \/ Fsync(p) PROVE TypeOK'
  <2>1. \E step \in {"fsync", "replace"} : pc' = [pc EXCEPT ![p] = step]
    BY <1>5 DEF Write, Fsync
  <2>2. lock' = lock /\ pc[p] \in {"write", "fsync"}
    BY <1>5 DEF Write, Fsync
  <2>3. synced' \in [Procs -> BOOLEAN]
    BY <1>5 DEF Write, Fsync, TypeOK
  <2> QED
    BY <1>5, <2>1, <2>2, <2>3, Moves DEF Write, Fsync, TypeOK, io, hist, bounds
<1>6. ASSUME NEW p \in Procs, Replace(p) PROVE TypeOK'
  <2>1. pc' = [pc EXCEPT ![p] = "syncdir"] /\ lock' = lock /\ pc[p] = "replace"
    BY <1>6 DEF Replace
  <2>2. next[p] \subseteq Ops
    BY DEF TypeOK
  <2>3. Whole(next[p]) \in Version /\ Torn \in Version
    BY <2>2 DEF Version, Whole, Torn
  <2>4. file' \in Version /\ onDisk' \subseteq Version
    BY <1>6, <2>3 DEF Replace, TypeOK
  <2> QED
    BY <1>6, <2>1, <2>4, Moves DEF Replace, TypeOK, hist, bounds
<1>7. ASSUME NEW p \in Procs, SyncDirectory(p) PROVE TypeOK'
  <2>1. pc' = [pc EXCEPT ![p] = "verify"] /\ lock' = lock /\ pc[p] = "syncdir"
    BY <1>7 DEF SyncDirectory
  <2> QED
    BY <1>7, <2>1, Moves DEF SyncDirectory, TypeOK, hist, bounds
<1>8. ASSUME NEW p \in Procs, Verify(p) PROVE TypeOK'
  <2>1. pc' = [pc EXCEPT ![p] = "unlock"] /\ lock' = lock /\ pc[p] = "verify"
    BY <1>8 DEF Verify
  <2>2. outcome' \in [Procs -> Outcomes]
    BY <1>8 DEF Verify, TypeOK
  <2> QED
    BY <1>8, <2>1, <2>2, Moves DEF Verify, TypeOK, io, hist, bounds
<1>9. ASSUME NEW p \in Procs, Unlock(p) PROVE TypeOK'
  <2>1. lock' = Nobody /\ lock = p /\ outcome[p] \in Outcomes
    BY <1>9 DEF Unlock, TypeOK
  <2>2. /\ \E step \in {"open", "reply"} : pc' = [pc EXCEPT ![p] = step]
        /\ attempt' \in [Procs -> {"update", "recover"}]
    BY <1>9, <2>1, LeaveMoves DEF Unlock
  <2>3. pc[p] \notin {"idle", "open", "reply"}
    BY <1>9 DEF Unlock
  <2>4. /\ pc' \in [Procs -> Steps] /\ lock' \in Procs \cup {Nobody}
        /\ \A q \in Procs : lock' = q <=> pc'[q] \notin {"idle", "open", "reply"}
    BY <2>1, <2>2, <2>3, Moves
  <2> QED
    BY <1>9, <2>2, <2>4 DEF Unlock, TypeOK, io, hist, bounds
<1>10. ASSUME NEW p \in Procs, Reply(p) PROVE TypeOK'
  <2>1. pc' = [pc EXCEPT ![p] = "idle"] /\ lock' = lock /\ pc[p] = "reply"
    BY <1>10 DEF Reply
  <2>2. acked' \subseteq Ops /\ durable' \subseteq acked'
    BY <1>10 DEF Reply, TypeOK
  <2> QED
    BY <1>10, <2>1, <2>2, Moves DEF Reply, TypeOK, io, bounds
<1>11. ASSUME NEW p \in Procs, IOError(p) PROVE TypeOK'
  <2>1. outcome' \in [Procs -> Outcomes] /\ faults' \in 0..MaxFaults
    BY <1>11, BoundAssumption DEF IOError, TypeOK, Blame
  <2>2. /\ \/ lock = p /\ pc' = [pc EXCEPT ![p] = "unlock"]
           \/ lock # p /\ \E step \in {"open", "reply"} : pc' = [pc EXCEPT ![p] = step]
        /\ attempt' \in [Procs -> {"update", "recover"}]
    BY <1>11, <2>1, LeaveMoves DEF IOError, TypeOK
  <2>3. lock' = lock
    BY <1>11 DEF IOError
  <2>4. lock = p <=> pc[p] \notin {"idle", "open", "reply"}
    BY DEF TypeOK
  <2>5. /\ pc' \in [Procs -> Steps] /\ lock' \in Procs \cup {Nobody}
        /\ \A q \in Procs : lock' = q <=> pc'[q] \notin {"idle", "open", "reply"}
    BY <2>2, <2>3, <2>4, Moves
  <2> QED
    BY <1>11, <2>1, <2>2, <2>5 DEF IOError, TypeOK, io, hist
<1>12. ASSUME NEW p \in Procs, Kill(p) PROVE TypeOK'
  <2>1. pc' = [pc EXCEPT ![p] = "idle"] /\ pc[p] # "idle"
    BY <1>12 DEF Kill
  <2>2. \/ lock = p /\ lock' = Nobody
        \/ lock' = lock /\ pc[p] \in {"idle", "open", "reply"}
    BY <1>12 DEF Kill, TypeOK
  <2>3. outcome' \in [Procs -> Outcomes] /\ kills' \in 0..MaxKills
    BY <1>12, BoundAssumption DEF Kill, TypeOK
  <2> QED
    BY <1>12, <2>1, <2>2, <2>3, Moves DEF Kill, TypeOK, io, hist
<1>13. CASE PowerLoss
  <2>1. losses' \in 0..MaxLosses
    BY <1>13, BoundAssumption DEF PowerLoss, TypeOK
  <2>2. outcome' \in [Procs -> Outcomes] /\ pc' \in [Procs -> Steps]
    BY <1>13 DEF PowerLoss, TypeOK
  <2>3. \A q \in Procs : lock' = q <=> pc'[q] \notin {"idle", "open", "reply"}
    BY <1>13 DEF PowerLoss
  <2> QED
    BY <1>13, <2>1, <2>2, <2>3 DEF PowerLoss, TypeOK
<1>14. CASE UNCHANGED vars
  BY <1>14 DEF vars, TypeOK
<1> QED
  BY <1>1, <1>2, <1>3, <1>4, <1>5, <1>6, <1>7, <1>8, <1>9, <1>10, <1>11, <1>12, <1>13, <1>14
  DEF Next, Step

-----------------------------------------------------------------------------
(* The ledger and the answers *)

\* The fields of a whole version.
LEMMA WholeFacts == \A S : Whole(S).ops = S /\ Whole(S).whole = TRUE
BY DEF Whole

\* A process that does not move while the file stays knows what it knew.
LEMMA OthersKeep ==
    ASSUME NEW q \in Procs, Inside(q), Answers(q),
           file' = file, onDisk' = onDisk, pc'[q] = pc[q], next'[q] = next[q],
           synced'[q] = synced[q], outcome'[q] = outcome[q]
    PROVE  Inside(q)' /\ Answers(q)'
BY DEF Inside, Answers

\* One process moves, nothing is written and nothing told: what remains to show
\* is what the process itself knows.
LEMMA OneMoves ==
    ASSUME StoreInv, NEW p \in Procs, UNCHANGED <<file, onDisk, acked, durable>>,
           \A q \in Procs \ {p} :
              /\ pc'[q] = pc[q] /\ next'[q] = next[q]
              /\ synced'[q] = synced[q] /\ outcome'[q] = outcome[q],
           Inside(p)', Answers(p)'
    PROVE  Versions' /\ \A q \in Procs : Inside(q)' /\ Answers(q)'
<1>1. Versions'
  BY DEF StoreInv, Versions
<1>2. ASSUME NEW q \in Procs PROVE Inside(q)' /\ Answers(q)'
  <2>1. CASE q = p
    BY <2>1
  <2>2. CASE q # p
    <3>1. Inside(q) /\ Answers(q)
      BY DEF StoreInv
    <3> QED
      BY <2>2, <3>1, OthersKeep
  <2> QED
    BY <2>1, <2>2
<1> QED
  BY <1>1, <1>2

\* A call, its way to the lock and its read.
LEMMA EnterStep ==
    ASSUME StoreInv, NEW p \in Procs, Start(p) \/ Acquire(p) \/ Read(p)
    PROVE  Versions' /\ \A q \in Procs : Inside(q)' /\ Answers(q)'
<1> USE DEF io, hist
<1>1. CASE Start(p)
  <2>1. Inside(p)' /\ Answers(p)'
    BY <1>1 DEF Start, StoreInv, TypeOK, Inside, Answers
  <2> QED
    BY <1>1, <2>1, OneMoves DEF Start, StoreInv, TypeOK
<1>2. CASE Acquire(p)
  <2>1. outcome[p] \notin {"ok", "recovered"}
    BY <1>2 DEF Acquire, StoreInv, Answers
  <2>2. pc'[p] = "read" /\ outcome'[p] = outcome[p]
    BY <1>2 DEF Acquire, StoreInv, TypeOK
  <2>3. Inside(p)' /\ Answers(p)'
    BY <2>1, <2>2 DEF Inside, Answers
  <2> QED
    BY <1>2, <2>3, OneMoves DEF Acquire, StoreInv, TypeOK
<1>3. CASE Read(p)
  <2>1. outcome[p] \notin {"ok", "recovered"}
    BY <1>3 DEF Read, StoreInv, Answers
  <2>2. file.whole = TRUE
    BY DEF StoreInv, Versions
  <2>3. /\ pc'[p] \in {"decide", "unlock"} /\ next'[p] = file.ops
        /\ outcome'[p] = "recovered" => OpOf[p] \in file.ops /\ pc'[p] = "unlock"
        /\ outcome'[p] # "ok"
    BY <1>3, <2>1, <2>2 DEF Read, StoreInv, TypeOK, Stands
  <2>4. file' = file
    BY <1>3 DEF Read
  <2>5. Inside(p)' /\ Answers(p)'
    BY <2>3, <2>4 DEF Inside, Answers
  <2> QED
    BY <1>3, <2>5, OneMoves DEF Read, StoreInv, TypeOK
<1> QED
  BY <1>1, <1>2, <1>3

\* The decision and the temporary file.
LEMMA WriteStep ==
    ASSUME StoreInv, NEW p \in Procs, Decide(p) \/ Write(p) \/ Fsync(p)
    PROVE  Versions' /\ \A q \in Procs : Inside(q)' /\ Answers(q)'
<1> USE DEF io, hist
<1>1. outcome[p] \notin {"ok", "recovered"}
  BY DEF Decide, Write, Fsync, StoreInv, Answers
<1>2. CASE Decide(p)
  <2>1. next[p] = file.ops
    BY <1>2 DEF Decide, StoreInv, Inside
  <2>2. \/ /\ pc'[p] = "write" /\ outcome'[p] = outcome[p]
           /\ next'[p] = file.ops \cup {OpOf[p]} /\ Against(OpOf[p]) \cap file.ops = {}
        \/ pc'[p] = "unlock" /\ outcome'[p] = "conflict"
    BY <1>2, <2>1 DEF Decide, StoreInv, TypeOK
  <2>3. file' = file
    BY <1>2 DEF Decide
  <2>4. Inside(p)' /\ Answers(p)'
    BY <1>1, <2>2, <2>3 DEF Inside, Answers
  <2> QED
    BY <1>2, <2>4, OneMoves DEF Decide, StoreInv, TypeOK
<1>3. CASE Write(p) \/ Fsync(p)
  <2>1. /\ next[p] = file.ops \cup {OpOf[p]} /\ Against(OpOf[p]) \cap file.ops = {}
    BY <1>3 DEF Write, Fsync, StoreInv, Inside
  <2>2. /\ pc'[p] \in {"fsync", "replace"}
        /\ pc'[p] = "replace" => synced'[p] = TRUE
        /\ next'[p] = next[p] /\ outcome'[p] = outcome[p] /\ file' = file
    BY <1>3 DEF Write, Fsync, StoreInv, TypeOK
  <2>3. Inside(p)' /\ Answers(p)'
    BY <1>1, <2>1, <2>2 DEF Inside, Answers
  <2> QED
    BY <1>3, <2>3, OneMoves DEF Write, Fsync, StoreInv, TypeOK
<1> QED
  BY <1>2, <1>3

\* The replace makes the new ledger what a reader finds, and a loss of power may
\* leave it or an earlier one, all of them whole and without two rival claims.
LEMMA ReplaceStep ==
    ASSUME StoreInv, NEW p \in Procs, Replace(p)
    PROVE  Versions' /\ \A q \in Procs : Inside(q)' /\ Answers(q)'
<1>1. /\ next[p] = file.ops \cup {OpOf[p]} /\ Against(OpOf[p]) \cap file.ops = {}
      /\ synced[p] = TRUE
  BY DEF Replace, StoreInv, Inside
<1>2. /\ file' = Whole(next[p]) /\ onDisk' = onDisk \cup {file'}
      /\ acked' = acked /\ durable' = durable /\ next' = next /\ outcome' = outcome
      /\ pc'[p] = "syncdir" /\ \A q \in Procs \ {p} : pc'[q] = pc[q]
  BY <1>1 DEF Replace, StoreInv, TypeOK, hist
<1>3. file'.ops = file.ops \cup {OpOf[p]} /\ file'.whole = TRUE
  BY <1>1, <1>2, WholeFacts
<1>4. Versions
  BY DEF StoreInv
<1>5. \A left \in onDisk' : left \in onDisk \/ left = file'
  BY <1>2
<1>6. Versions'
  <2>1. durable \subseteq file.ops /\ \A a, b \in file.ops \cap Claims : a = b
    BY <1>4 DEF Versions
  <2>2. \A a, b \in file'.ops \cap Claims : a = b
    BY <1>1, <1>3, <2>1 DEF Against
  <2>3. /\ file' \in onDisk' /\ \A left \in onDisk' : left.whole = TRUE
        /\ \A left \in onDisk' : durable' \subseteq left.ops
        /\ acked' \subseteq file'.ops
    BY <1>2, <1>3, <1>4, <1>5, <2>1 DEF Versions
  <2>4. \A left \in onDisk' : \A a, b \in left.ops \cap Claims : a = b
    BY <1>4, <1>5, <2>2 DEF Versions
  <2> QED
    BY <2>3, <2>4 DEF Versions
<1>7. Inside(p)' /\ Answers(p)'
  <2>1. outcome[p] \notin {"ok", "recovered"}
    BY DEF Replace, StoreInv, Answers
  <2>2. next'[p] = next[p] /\ outcome'[p] = outcome[p] /\ OpOf[p] \in next[p]
    BY <1>1, <1>2
  <2> QED
    BY <1>2, <2>1, <2>2 DEF Inside, Answers
<1>8. ASSUME NEW q \in Procs, q # p PROVE Inside(q)' /\ Answers(q)'
  <2>1. pc'[q] = pc[q] /\ pc[q] \in {"idle", "open", "reply"} /\ outcome'[q] = outcome[q]
    BY <1>2, <1>8, Alone DEF StoreInv, Replace
  <2>2. Answers(q) /\ file \in onDisk
    BY <1>4 DEF StoreInv, Versions
  <2>3. Answers(q)'
    BY <1>3, <1>5, <2>1, <2>2 DEF Answers
  <2> QED
    BY <2>1, <2>3 DEF Inside
<1> QED
  BY <1>6, <1>7, <1>8

\* The directory sync leaves nothing but the file itself.
LEMMA SyncStep ==
    ASSUME StoreInv, NEW p \in Procs, SyncDirectory(p)
    PROVE  Versions' /\ \A q \in Procs : Inside(q)' /\ Answers(q)'
<1>1. Versions /\ Inside(p) /\ Answers(p)
  BY DEF StoreInv
<1>2. /\ file' = file /\ onDisk' = {file} /\ acked' = acked /\ durable' = durable
      /\ next' = next /\ outcome' = outcome
      /\ pc[p] = "syncdir" /\ pc'[p] = "verify" /\ \A q \in Procs \ {p} : pc'[q] = pc[q]
  BY DEF SyncDirectory, StoreInv, TypeOK, hist
<1>3. Versions'
  BY <1>1, <1>2 DEF Versions
<1>4. Inside(p)' /\ Answers(p)'
  BY <1>1, <1>2 DEF Inside, Answers
<1>5. ASSUME NEW q \in Procs, q # p PROVE Inside(q)' /\ Answers(q)'
  <2>1. pc'[q] = pc[q] /\ pc[q] \in {"idle", "open", "reply"} /\ outcome'[q] = outcome[q]
    BY <1>2, <1>5, Alone DEF StoreInv
  <2>2. Answers(q) /\ file \in onDisk
    BY <1>1 DEF StoreInv, Versions
  <2> QED
    BY <1>2, <2>1, <2>2 DEF Inside, Answers
<1> QED
  BY <1>3, <1>4, <1>5

\* The check of what was written, and the way out of the lock.
LEMMA LeaveStep ==
    ASSUME StoreInv, NEW p \in Procs, Verify(p) \/ Unlock(p)
    PROVE  Versions' /\ \A q \in Procs : Inside(q)' /\ Answers(q)'
<1> USE DEF io, hist
<1>0. Inside(p) /\ Answers(p)
  BY DEF StoreInv
<1>1. CASE Verify(p)
  <2>1. /\ file = Whole(next[p]) /\ OpOf[p] \in next[p] /\ onDisk = {file}
        /\ file' = file /\ onDisk' = onDisk /\ pc'[p] = "unlock" /\ outcome'[p] = "ok"
    BY <1>0, <1>1 DEF Verify, Inside, StoreInv, TypeOK
  <2>2. \A left \in onDisk' : OpOf[p] \in left.ops
    BY <2>1, WholeFacts
  <2>3. Inside(p)' /\ Answers(p)'
    BY <2>1, <2>2 DEF Inside, Answers
  <2> QED
    BY <1>1, <2>3, OneMoves DEF Verify, StoreInv, TypeOK
<1>2. CASE Unlock(p)
  <2>1. /\ pc'[p] = IF ReadsBack(p, outcome[p]) THEN "open" ELSE "reply"
        /\ pc[p] = "unlock" /\ file' = file /\ onDisk' = onDisk /\ outcome' = outcome
    BY <1>2 DEF Unlock, Leave, StoreInv, TypeOK
  <2>2. Inside(p)' /\ Answers(p)'
    BY <1>0, <2>1 DEF Inside, Answers, ReadsBack
  <2>3. \A q \in Procs \ {p} : pc'[q] = pc[q]
    BY <1>2 DEF Unlock, Leave, StoreInv, TypeOK
  <2> QED
    BY <1>2, <2>2, <2>3, OneMoves DEF Unlock
<1> QED
  BY <1>1, <1>2

\* The answer: it is about what is in the ledger.
LEMMA ReplyStep ==
    ASSUME StoreInv, NEW p \in Procs, Reply(p)
    PROVE  Versions' /\ \A q \in Procs : Inside(q)' /\ Answers(q)'
<1>1. Versions /\ Answers(p)
  BY DEF StoreInv
<1>2. /\ file' = file /\ onDisk' = onDisk /\ next' = next /\ outcome' = outcome /\ synced' = synced
      /\ pc[p] = "reply" /\ pc'[p] = "idle" /\ \A q \in Procs \ {p} : pc'[q] = pc[q]
  BY DEF Reply, StoreInv, TypeOK, io
<1>3. Versions'
  BY <1>1, <1>2 DEF Reply, Versions, Answers
<1>4. Inside(p)' /\ Answers(p)'
  BY <1>2 DEF Inside, Answers
<1>5. ASSUME NEW q \in Procs, q # p PROVE Inside(q)' /\ Answers(q)'
  <2>1. Inside(q) /\ Answers(q)
    BY DEF StoreInv
  <2> QED
    BY <1>2, <1>5, <2>1, OthersKeep
<1> QED
  BY <1>3, <1>4, <1>5

\* An error, a kill, a loss of power.
LEMMA FaultStep ==
    ASSUME StoreInv, NEW p \in Procs, IOError(p) \/ Kill(p)
    PROVE  Versions' /\ \A q \in Procs : Inside(q)' /\ Answers(q)'
<1> USE DEF io, hist
<1>1. CASE IOError(p)
  <2>1. outcome[p] \notin {"ok", "recovered"} /\ pc[p] \in IOSteps
    BY <1>1 DEF IOError, IOSteps, StoreInv, Answers
  <2>2. /\ outcome'[p] \notin {"ok", "recovered"} /\ pc'[p] \in {"unlock", "open", "reply"}
        /\ \A q \in Procs \ {p} : pc'[q] = pc[q] /\ outcome'[q] = outcome[q]
    BY <1>1, <2>1 DEF IOError, Blame, Leave, StoreInv, TypeOK
  <2>3. Inside(p)' /\ Answers(p)'
    BY <2>2 DEF Inside, Answers
  <2> QED
    BY <1>1, <2>2, <2>3, OneMoves DEF IOError
<1>2. CASE Kill(p)
  <2>1. /\ outcome'[p] = "dead" /\ pc'[p] = "idle"
        /\ \A q \in Procs \ {p} : pc'[q] = pc[q] /\ outcome'[q] = outcome[q]
    BY <1>2 DEF Kill, StoreInv, TypeOK
  <2>2. Inside(p)' /\ Answers(p)'
    BY <2>1 DEF Inside, Answers
  <2> QED
    BY <1>2, <2>1, <2>2, OneMoves DEF Kill
<1> QED
  BY <1>1, <1>2

LEMMA PowerStep ==
    ASSUME StoreInv, PowerLoss
    PROVE  Versions' /\ \A q \in Procs : Inside(q)' /\ Answers(q)'
<1>1. Versions /\ durable \subseteq acked
  BY DEF StoreInv, TypeOK
<1>2. Versions'
  BY <1>1 DEF PowerLoss, Versions
<1>3. \A q \in Procs : pc'[q] = "idle"
  BY DEF PowerLoss
<1>4. \A q \in Procs : Inside(q)' /\ Answers(q)'
  BY <1>3 DEF Inside, Answers
<1> QED
  BY <1>2, <1>4

\* Every step keeps the invariant.
LEMMA StoreStep == StoreInv /\ [Next]_vars => StoreInv'
<1> SUFFICES ASSUME StoreInv, [Next]_vars PROVE StoreInv'
  OBVIOUS
<1>1. TypeOK'
  BY TypeStep DEF StoreInv
<1>2. CASE UNCHANGED vars
  <2>1. Versions'
    BY <1>2 DEF vars, StoreInv, Versions
  <2>2. \A q \in Procs : Inside(q)' /\ Answers(q)'
    BY <1>2 DEF vars, StoreInv, Inside, Answers
  <2> QED
    BY <1>1, <2>1, <2>2 DEF StoreInv
<1>3. CASE Next
  <2>1. Versions' /\ \A q \in Procs : Inside(q)' /\ Answers(q)'
    BY <1>3, EnterStep, WriteStep, ReplaceStep, SyncStep, LeaveStep, ReplyStep, FaultStep, PowerStep
    DEF Next, Step
  <2> QED
    BY <1>1, <2>1 DEF StoreInv
<1> QED
  BY <1>2, <1>3

\* In every reachable state the disk, the process inside the lock and the
\* answers on their way agree.
THEOREM StoreInvariant == Spec => []StoreInv
BY StoreInit, StoreStep, PTL DEF Spec

-----------------------------------------------------------------------------
(* The safety properties *)

\* The lock is held exactly by the process between its acquire and its unlock.
THEOREM StoreTypeCorrect == Spec => []TypeOK
<1>1. StoreInv => TypeOK
  BY DEF StoreInv
<1> QED
  BY <1>1, StoreInvariant, PTL

\* No acknowledged operation is ever missing from the ledger, and none that a
\* plain success reported from what a loss of power leaves.
THEOREM NoLostUpdate == Spec => []AckedStays
<1>1. StoreInv => AckedStays
  BY DEF StoreInv, Versions, AckedStays
<1> QED
  BY <1>1, StoreInvariant, PTL

\* Of the native calls that contend for a capability one at most is told that
\* it is theirs, for any number of them.
THEOREM OneClaimTold == Spec => []OneClaimAcked
<1>1. ASSUME StoreInv PROVE OneClaimAcked
  <2>1. \A a, b \in acked \cap Claims : a = b
    BY <1>1 DEF StoreInv, Versions
  <2>2. CASE acked \cap Claims = {}
    BY <2>2, FS_EmptySet DEF OneClaimAcked
  <2>3. CASE acked \cap Claims # {}
    <3>1. PICK a \in acked \cap Claims : TRUE
      BY <2>3
    <3>2. acked \cap Claims = {a}
      BY <2>1, <3>1
    <3>3. Cardinality({a}) = 1
      BY FS_Singleton
    <3>4. Cardinality(acked \cap Claims) = 1
      BY <3>2, <3>3, Zenon
    <3> QED
      BY <3>4 DEF OneClaimAcked
  <2> QED
    BY <2>2, <2>3
<1> QED
  BY <1>1, StoreInvariant, PTL

\* A reader finds a complete ledger at every moment and after every loss of power.
THEOREM AlwaysWhole == Spec => []NeverTorn
<1>1. StoreInv => NeverTorn
  BY DEF StoreInv, Versions, NeverTorn
<1> QED
  BY <1>1, StoreInvariant, PTL

-----------------------------------------------------------------------------
(* The abstract ledger *)

\* The steps that neither write nor tell nor lose are stutters of the abstract
\* ledger.
Silent == UNCHANGED <<file, onDisk, acked, durable>>

\* The others are its commit, its settling, its answers and its loss of power.
LEMMA StepRefines ==
    ASSUME StoreInv, [Next]_vars
    PROVE  [Atomic!Next]_(Atomic!vars)
<1> USE DEF Atomic!vars
<1>0. Versions
  BY DEF StoreInv
<1>1. CASE Silent
  BY <1>1 DEF Silent
<1>2. ASSUME NEW p \in Procs, Replace(p) PROVE Atomic!Next
  <2>1. /\ next[p] = file.ops \cup {OpOf[p]} /\ Against(OpOf[p]) \cap file.ops = {}
        /\ synced[p] = TRUE
    BY <1>2 DEF Replace, StoreInv, Inside
  <2>2. /\ file' = Whole(next[p]) /\ onDisk' = onDisk \cup {file'}
        /\ acked' = acked /\ durable' = durable
    BY <1>2, <2>1 DEF Replace, hist
  <2>3. file'.ops = file.ops \cup {OpOf[p]}
    BY <2>1, <2>2, WholeFacts
  <2>4. {left.ops : left \in onDisk'} = {left.ops : left \in onDisk} \cup {file'.ops}
    BY <2>2
  <2>5. Atomic!Rivals(OpOf[p]) \cap file.ops = {}
    BY <2>1 DEF Atomic!Rivals, Against
  <2>6. Atomic!Commit(OpOf[p])
    BY <2>2, <2>3, <2>4, <2>5 DEF Atomic!Commit
  <2> QED
    BY <2>6, OpFacts DEF Atomic!Next
<1>3. ASSUME NEW p \in Procs, SyncDirectory(p) PROVE Atomic!Next
  <2>1. file' = file /\ onDisk' = {file} /\ acked' = acked /\ durable' = durable
    BY <1>3 DEF SyncDirectory, hist
  <2>2. {left.ops : left \in onDisk'} = {file.ops}
    BY <2>1
  <2> QED
    BY <2>1, <2>2 DEF Atomic!Next, Atomic!Settle
<1>4. ASSUME NEW p \in Procs, Reply(p) PROVE [Atomic!Next]_(Atomic!vars)
  <2>1. file' = file /\ onDisk' = onDisk
    BY <1>4 DEF Reply, io
  <2>2. CASE outcome[p] = "ok"
    <3>1. acked' = acked \cup {OpOf[p]} /\ durable' = durable \cup {OpOf[p]}
      BY <1>4, <2>2 DEF Reply
    <3>2. \A left \in onDisk : OpOf[p] \in left.ops
      BY <1>4, <2>2 DEF Reply, StoreInv, Answers
    <3>3. Atomic!AckDurable(OpOf[p])
      BY <2>1, <3>1, <3>2 DEF Atomic!AckDurable
    <3> QED
      BY <3>3, OpFacts DEF Atomic!Next
  <2>3. CASE outcome[p] = "recovered"
    <3>1. acked' = acked \cup {OpOf[p]} /\ durable' = durable
      BY <1>4, <2>3 DEF Reply
    <3>2. OpOf[p] \in file.ops
      BY <1>4, <2>3 DEF Reply, StoreInv, Answers
    <3>3. Atomic!Ack(OpOf[p])
      BY <2>1, <3>1, <3>2 DEF Atomic!Ack
    <3> QED
      BY <3>3, OpFacts DEF Atomic!Next
  <2>4. CASE outcome[p] \notin {"ok", "recovered"}
    BY <1>4, <2>1, <2>4 DEF Reply
  <2> QED
    BY <2>2, <2>3, <2>4
<1>5. CASE PowerLoss
  <2>1. file' \in onDisk /\ onDisk' = {file'} /\ acked' = durable /\ durable' = durable
    BY <1>5 DEF PowerLoss
  <2>2. {left.ops : left \in onDisk'} = {file'.ops}
    BY <2>1
  <2>3. Atomic!LosePower
    BY <2>1, <2>2 DEF Atomic!LosePower
  <2> QED
    BY <2>3 DEF Atomic!Next
<1>6. ASSUME NEW p \in Procs,
             Start(p) \/ Acquire(p) \/ Read(p) \/ Decide(p) \/ Write(p) \/ Fsync(p)
                \/ Verify(p) \/ Unlock(p) \/ IOError(p) \/ Kill(p)
      PROVE  Silent
  BY <1>6 DEF Silent, Start, Acquire, Read, Decide, Write, Fsync, Verify, Unlock, IOError, Kill,
              io, hist
<1>7. CASE UNCHANGED vars
  BY <1>1, <1>7 DEF Silent, vars
<1> QED
  BY <1>1, <1>2, <1>3, <1>4, <1>5, <1>6, <1>7 DEF Next, Step

\* Locks, temporary files, faults, kills and losses of power together show their
\* callers nothing but the atomic ledger.
THEOREM StoreImplementsAtomicLedger == Spec => ImplementsAtomicLedger
<1>1. Init => Atomic!Init
  BY WholeFacts DEF Init, Atomic!Init
<1>2. StoreInv /\ [Next]_vars => [Atomic!Next]_(Atomic!vars)
  BY StepRefines
<1> QED
  BY <1>1, <1>2, StoreInvariant, PTL DEF Spec, ImplementsAtomicLedger, Atomic!Spec

-----------------------------------------------------------------------------
(* Failures *)

\* Nobody else does the operation of this process, and it reads back.
Solo(p) == OpOf[p] \in Recovering /\ \A q \in Procs \ {p} : OpOf[q] # OpOf[p]

\* What an invocation that failed, or was refused, knows of its operation.
Refused(p) ==
    /\ attempt[p] = "update" /\ pc[p] \notin {"idle", "unlock", "reply"} => outcome[p] = "none"
    /\ attempt[p] = "recover" => pc[p] \in {"idle", "open", "read", "unlock", "reply"}
    /\ pc[p] \in {"idle", "reply"} /\ outcome[p] \in {"conflict", "failed"} =>
          attempt[p] = "recover"
    /\ outcome[p] = "failed" => faults >= 1
    /\ outcome[p] = "conflict" => ~Stands(OpOf[p], file.ops)
    /\ outcome[p] = "failed" /\ attempt[p] = "recover" /\ pc[p] \in {"idle", "unlock", "reply"} =>
          faults >= 2 \/ ~Stands(OpOf[p], file.ops)

FailureInv == losses = 0 => \A p \in Procs : Solo(p) => Refused(p)

\* Only its own replace makes an operation stand; the others can end that.
LEMMA StandsByItself ==
    ASSUME StoreInv, NEW q \in Procs, NEW p \in Procs, p # q, Solo(p), Replace(q),
           ~Stands(OpOf[p], file.ops)
    PROVE  ~Stands(OpOf[p], file'.ops)
<1>1. next[q] = file.ops \cup {OpOf[q]}
  BY DEF StoreInv, Inside, Replace
<1>2. file'.ops = file.ops \cup {OpOf[q]}
  BY <1>1, WholeFacts DEF Replace
<1>3. OpOf[q] # OpOf[p]
  BY DEF Solo
<1> QED
  BY <1>2, <1>3 DEF Stands

\* A step of another process leaves what this one knows.
LEMMA OthersRefused ==
    ASSUME StoreInv, NEW p \in Procs, NEW q \in Procs, p # q, Solo(p), Refused(p),
           Start(q) \/ Step(q) \/ IOError(q) \/ Kill(q)
    PROVE  Refused(p)'
<1>1. /\ pc'[p] = pc[p] /\ attempt'[p] = attempt[p] /\ outcome'[p] = outcome[p]
  BY DEF Start, Step, Acquire, Read, Decide, Write, Fsync, Replace, SyncDirectory, Verify, Unlock,
         Reply, IOError, Kill, Leave, StoreInv, TypeOK
<1>2. faults \in Nat /\ (faults' = faults \/ faults' = faults + 1)
  BY BoundAssumption
  DEF Start, Step, Acquire, Read, Decide, Write, Fsync, Replace, SyncDirectory, Verify, Unlock,
      Reply, IOError, Kill, bounds, StoreInv, TypeOK
<1>3. ~Stands(OpOf[p], file.ops) => ~Stands(OpOf[p], file'.ops)
  <2>1. CASE Replace(q)
    BY <2>1, StandsByItself
  <2>2. CASE ~Replace(q)
    <3>1. file' = file
      BY <2>2 DEF Start, Step, Acquire, Read, Decide, Write, Fsync, SyncDirectory, Verify, Unlock,
                  Reply, IOError, Kill, io
    <3> QED
      BY <3>1
  <2> QED
    BY <2>1, <2>2
<1> QED
  BY <1>1, <1>2, <1>3 DEF Refused

\* Nor does one of its own make what it knows untrue: it is refused only when the
\* ledger does not show its operation, and fails only by an error.
LEMMA OwnRefused ==
    ASSUME StoreInv, NEW p \in Procs, Solo(p), Refused(p),
           Start(p) \/ Step(p) \/ IOError(p) \/ Kill(p)
    PROVE  Refused(p)'
<1>0. /\ faults \in Nat /\ Versions /\ Inside(p) /\ pc[p] \in Steps
      /\ attempt[p] \in {"update", "recover"}
      /\ pc \in [Procs -> Steps] /\ attempt \in [Procs -> {"update", "recover"}]
      /\ outcome \in [Procs -> Outcomes]
  BY BoundAssumption DEF StoreInv, TypeOK
<1> USE DEF io, bounds
<1>1. CASE Start(p)
  <2>1. pc'[p] = "open" /\ attempt'[p] = "update" /\ outcome'[p] = "none"
    BY <1>0, <1>1 DEF Start
  <2> QED
    BY <2>1 DEF Refused
<1>2. CASE Acquire(p)
  <2>1. /\ pc'[p] = "read" /\ attempt' = attempt /\ outcome' = outcome
        /\ file' = file /\ faults' = faults /\ pc[p] = "open"
    BY <1>0, <1>2 DEF Acquire
  <2> QED
    BY <2>1 DEF Refused
<1>3. CASE Read(p)
  <2>1. file.whole = TRUE /\ pc[p] = "read"
    BY <1>0, <1>3 DEF Read, Versions
  <2>2. /\ attempt' = attempt /\ file' = file /\ faults' = faults
        /\ pc'[p] = IF attempt[p] = "update" THEN "decide" ELSE "unlock"
        /\ outcome'[p] = IF attempt[p] = "recover" /\ Stands(OpOf[p], file.ops)
                         THEN "recovered" ELSE outcome[p]
    BY <1>0, <1>3, <2>1 DEF Read
  <2> QED
    BY <1>0, <2>1, <2>2 DEF Refused
<1>4. CASE Decide(p)
  <2>1. next[p] = file.ops /\ pc[p] = "decide" /\ OpOf[p] \in Recovering
    BY <1>0, <1>4 DEF Decide, Inside, Solo
  <2>2. /\ attempt' = attempt /\ file' = file /\ faults' = faults
        /\ \/ pc'[p] = "write" /\ outcome'[p] = outcome[p]
           \/ /\ pc'[p] = "unlock" /\ outcome'[p] = "conflict"
              /\ ~Stands(OpOf[p], file.ops)
    BY <1>0, <1>4, <2>1 DEF Decide
  <2> QED
    BY <1>0, <2>1, <2>2 DEF Refused
<1>5. CASE Write(p) \/ Fsync(p)
  <2>1. /\ pc[p] \in {"write", "fsync"} /\ pc'[p] \in {"fsync", "replace"}
        /\ attempt' = attempt /\ outcome' = outcome
    BY <1>0, <1>5 DEF Write, Fsync
  <2> QED
    BY <1>0, <2>1 DEF Refused
<1>6. CASE Replace(p) \/ SyncDirectory(p)
  <2>1. /\ pc[p] \in {"replace", "syncdir"} /\ pc'[p] \in {"syncdir", "verify"}
        /\ attempt' = attempt /\ outcome' = outcome
    BY <1>0, <1>6 DEF Replace, SyncDirectory
  <2> QED
    BY <1>0, <2>1 DEF Refused
<1>7. CASE Verify(p)
  <2>1. file = Whole(next[p])
    BY <1>0, <1>7 DEF Verify, Inside
  <2>2. pc[p] = "verify" /\ pc'[p] = "unlock" /\ outcome'[p] = "ok" /\ attempt' = attempt
    BY <1>0, <1>7, <2>1 DEF Verify
  <2> QED
    BY <1>0, <2>2 DEF Refused
<1>8. CASE Unlock(p)
  <2>1. OpOf[p] \in Recovering
    BY DEF Solo
  <2>2. /\ pc[p] = "unlock" /\ outcome' = outcome /\ file' = file /\ faults' = faults
        /\ \/ /\ outcome[p] \in {"conflict", "failed"} /\ attempt[p] = "update"
              /\ pc'[p] = "open" /\ attempt'[p] = "recover"
           \/ /\ ~(outcome[p] \in {"conflict", "failed"} /\ attempt[p] = "update")
              /\ pc'[p] = "reply" /\ attempt'[p] = attempt[p]
    BY <1>0, <1>8, <2>1 DEF Unlock, Leave, ReadsBack
  <2> QED
    BY <1>0, <2>2 DEF Refused
<1>9. CASE Reply(p)
  <2>1. /\ pc[p] = "reply" /\ pc'[p] = "idle" /\ attempt' = attempt /\ outcome' = outcome
        /\ file' = file /\ faults' = faults
    BY <1>0, <1>9 DEF Reply
  <2> QED
    BY <1>0, <2>1 DEF Refused
<1>10. CASE IOError(p)
  <2>1. OpOf[p] \in Recovering
    BY DEF Solo
  <2>2. /\ pc[p] \in IOSteps /\ faults' = faults + 1 /\ file' = file
        /\ outcome'[p] = IF attempt[p] = "recover" THEN outcome[p] ELSE "failed"
    BY <1>0, <1>10 DEF IOError, Blame
  <2>3. \/ lock = p /\ pc'[p] = "unlock" /\ attempt'[p] = attempt[p]
        \/ /\ lock # p /\ outcome'[p] \in {"conflict", "failed"} /\ attempt[p] = "update"
           /\ pc'[p] = "open" /\ attempt'[p] = "recover"
        \/ /\ lock # p
           /\ ~(outcome'[p] \in {"conflict", "failed"} /\ attempt[p] = "update")
           /\ pc'[p] = "reply" /\ attempt'[p] = attempt[p]
    BY <1>0, <1>10, <2>1 DEF IOError, Leave, ReadsBack
  <2>4. CASE attempt[p] = "update"
    BY <1>0, <2>2, <2>3, <2>4 DEF Refused
  <2>5. CASE attempt[p] = "recover"
    BY <1>0, <2>2, <2>3, <2>5 DEF Refused
  <2> QED
    BY <1>0, <2>4, <2>5
<1>11. CASE Kill(p)
  <2>1. pc'[p] = "idle" /\ attempt' = attempt /\ outcome'[p] = "dead"
    BY <1>0, <1>11 DEF Kill
  <2> QED
    BY <1>0, <2>1 DEF Refused
<1> QED
  BY <1>1, <1>2, <1>3, <1>4, <1>5, <1>6, <1>7, <1>8, <1>9, <1>10, <1>11 DEF Step

LEMMA FailureStep == StoreInv /\ FailureInv /\ [Next]_vars => FailureInv'
<1> SUFFICES ASSUME StoreInv, FailureInv, [Next]_vars, losses' = 0,
                    NEW p \in Procs, Solo(p)
             PROVE  Refused(p)'
  BY DEF FailureInv, Solo
<1>1. losses \in Nat
  BY BoundAssumption DEF StoreInv, TypeOK
<1>2. ~PowerLoss
  BY <1>1 DEF PowerLoss
<1>3. CASE UNCHANGED vars
  BY <1>3 DEF vars, FailureInv, Refused
<1>4. ASSUME NEW q \in Procs, Start(q) \/ Step(q) \/ IOError(q) \/ Kill(q) PROVE Refused(p)'
  <2>1. losses = 0
    BY <1>4 DEF Start, Step, Acquire, Read, Decide, Write, Fsync, Replace, SyncDirectory, Verify,
                Unlock, Reply, IOError, Kill, bounds
  <2>2. Refused(p)
    BY <2>1 DEF FailureInv
  <2> QED
    BY <1>4, <2>2, OthersRefused, OwnRefused
<1> QED
  BY <1>2, <1>3, <1>4 DEF Next

\* One I/O error never makes a claim or a prepare report failure for something
\* that took effect and still stands, with any number of other invocations,
\* kills and operations beside it.
THEOREM FailuresAreTrue == Spec => []FailureIsTrue
<1>1. Init => FailureInv
  BY DEF Init, FailureInv, Refused
<1>2. StoreInv /\ FailureInv => FailureIsTrue
  <2> SUFFICES ASSUME StoreInv, FailureInv, losses = 0, faults <= 1, NEW p \in Procs,
                      pc[p] = "idle", outcome[p] \in {"conflict", "failed"}, Solo(p)
               PROVE  ~Stands(OpOf[p], file.ops)
    BY DEF FailureIsTrue, Solo
  <2>1. Refused(p)
    BY DEF FailureInv
  <2>2. faults \in Nat
    BY BoundAssumption DEF StoreInv, TypeOK
  <2> QED
    BY <2>1, <2>2 DEF Refused
<1> QED
  BY <1>1, <1>2, FailureStep, StoreInvariant, PTL DEF Spec
=============================================================================
