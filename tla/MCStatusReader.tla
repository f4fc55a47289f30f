---------------------------- MODULE MCStatusReader ----------------------------
(* Values for the constants of StatusReader that a cfg cannot write. *)
EXTENDS StatusReader

MCShortRef == [id \in TaskIds |-> <<"s1", "s2">>[id]]
MCLongRef == [id \in TaskIds |-> <<"l1", "l2">>[id]]
MCContractBytes == [id \in TaskIds |-> 1]
MCCapabilityBytes == [id \in TaskIds |-> 1]
MCEntryBytes == [key \in SizedKeys |-> [value \in SizedValues |-> 1]]
=============================================================================
