--------------------------- MODULE MCSessionLedger ---------------------------
(* Values for the constants of SessionLedger that a cfg cannot write. *)
EXTENDS SessionLedger, TLC

\* Two ids share their short ref, as two hashes may; long refs differ.
MCShortRef == [id \in TaskIds |-> IF id = 2 THEN "s1" ELSE <<"s1", "s2", "s3", "s4">>[id]]
MCDistinctShortRef == [id \in TaskIds |-> <<"s1", "s2", "s3", "s4">>[id]]
MCLongRef == [id \in TaskIds |-> <<"l1", "l2", "l3", "l4">>[id]]

\* Contracts of one size, and contracts of different sizes.
MCEqualContracts == [id \in TaskIds |-> 1]
MCUnequalContracts == [id \in TaskIds |-> <<1, 1, 2, 3>>[id]]
MCCapabilityBytes == [id \in TaskIds |-> 1]

\* Every key is of size one, but for a close reason that takes more words.
MCEntryBytes ==
    [key \in SizedKeys |-> [value \in SizedValues |-> IF value = "abandoned" THEN 2 ELSE 1]]

\* Agents and native calls are interchangeable.
MCSymmetry == Permutations(Targets) \cup Permutations(CallIds)
=============================================================================
