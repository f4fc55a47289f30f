---------------------------- MODULE AtomicLedger ----------------------------
(***************************************************************************)
(* What a Session ledger promises to those who call it, whatever locks,    *)
(* temporary files and syncs it takes: a set of operations that took       *)
(* effect, one after another and each once, at most one of the rival       *)
(* claims among them; an answer only about what took effect; and an answer *)
(* that a plain success gave outlives a loss of power.                     *)
(***************************************************************************)
CONSTANTS
    Ops,       \* operations on one Session, each with its parameters
    Claims     \* those of them that contend for one prepared capability

VARIABLES
    ledger,    \* the operations that took effect
    survivors, \* the ledgers a loss of power may leave behind
    acked,     \* the operations somebody was told took effect
    durable    \* those of them reported by a plain success

vars == <<ledger, survivors, acked, durable>>

Rivals(op) == IF op \in Claims THEN Claims \ {op} ELSE {}

Init ==
    /\ ledger = {} /\ survivors = {{}}
    /\ acked = {} /\ durable = {}

Commit(op) ==
    /\ Rivals(op) \cap ledger = {}
    /\ ledger' = ledger \cup {op}
    /\ survivors' = survivors \cup {ledger'}
    /\ UNCHANGED <<acked, durable>>

Settle ==
    /\ survivors' = {ledger}
    /\ UNCHANGED <<ledger, acked, durable>>

Ack(op) ==
    /\ op \in ledger
    /\ acked' = acked \cup {op}
    /\ UNCHANGED <<ledger, survivors, durable>>

AckDurable(op) ==
    /\ \A left \in survivors : op \in left
    /\ acked' = acked \cup {op}
    /\ durable' = durable \cup {op}
    /\ UNCHANGED <<ledger, survivors>>

LosePower ==
    /\ ledger' \in survivors
    /\ survivors' = {ledger'}
    /\ acked' = durable
    /\ UNCHANGED durable

Next ==
    \/ \E op \in Ops : Commit(op) \/ Ack(op) \/ AckDurable(op)
    \/ Settle \/ LosePower

Spec == Init /\ [][Next]_vars
=============================================================================
