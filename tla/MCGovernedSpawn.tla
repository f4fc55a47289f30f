---------------------------- MODULE MCGovernedSpawn ----------------------------
(* Values for the constants of GovernedSpawn that a cfg cannot write. *)
EXTENDS GovernedSpawn, TLC

CONSTANTS c1, c2, h1, h2, h3, a1, a2

MCShortRef == [id \in TaskIds |-> <<"s1", "s2">>[id]]
MCLongRef == [id \in TaskIds |-> <<"l1", "l2">>[id]]
MCContractBytes == [id \in TaskIds |-> 1]
MCCapabilityBytes == [id \in TaskIds |-> 1]
MCEntryBytes == [key \in SizedKeys |-> [value \in SizedValues |-> 1]]

\* h1 and h2 are two Hooks of one call, h3 is the Hook of its rival.
MCCallOf == (h1 :> c1) @@ (h2 :> c1) @@ (h3 :> c2)
MCAgentOf == (c1 :> a1) @@ (c2 :> a2)

Named(ref) ==
    [object |-> TRUE, name |-> ref, marker |-> None, session |-> TRUE, id |-> "given",
     args |-> "exact"]

\* A call as prepared.
MCNamed == [c \in CallIds |-> {Named("s1")}]
\* The name of a call is lost on the way; the id of one may also be too long.
MCMarked ==
    [c \in CallIds |->
        {[Named("s1") EXCEPT !.name = None, !.marker = "s1"]}
        \cup (IF c = c1 THEN {[Named("s1") EXCEPT !.id = "long"]} ELSE {})]
=============================================================================
