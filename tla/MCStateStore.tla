----------------------------- MODULE MCStateStore -----------------------------
(* Values for the constants of StateStore that a cfg cannot write. *)
EXTENDS StateStore

\* A native call, its duplicated Hook, and a rival call for the same capability.
MCRivalCalls == [p \in Procs |-> IF p = "call" \/ p = "again" THEN "c1" ELSE "c2"]

\* What prepares a task, the native call that claims it, and its close.
MCOwnOps == [p \in Procs |-> p]
=============================================================================
