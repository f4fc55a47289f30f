------------------------------- MODULE NativeCall -------------------------------
(***************************************************************************)
(* The native call from the prepared parameters to the Hook's decision:    *)
(* the selected interface renders it                                       *)
(* (scripts/governance_native_adapter.py, governance_dispatch_rendering.py),*)
(* the parent, the model or the platform may change it on its way, the     *)
(* Hook recognises it (governance_hook.py), normalises it and compares it  *)
(* with the capability (governance_dispatch.py).                           *)
(*                                                                         *)
(* GovernedSpawn says what follows from "exact", "changed" or "unreadable" *)
(* parameters; this module says which calls those are.  The capability is  *)
(* still prepared, and the names of Others belong to no prepared task.     *)
(***************************************************************************)
EXTENDS Integers

CONSTANTS
    Others,      \* governed names of other tasks
    Counts,      \* the finite fork_turns
    Models, Efforts,
    MaxEdits     \* bound: changes made to a rendered call

Omitted == "omitted"

\* A name, a count, a model and an effort are not taken for what stands for none.
ASSUME ValueAssumption ==
    /\ Others \cap {"mine", Omitted, "null", "plain", "number", "broken", "unmarked"} = {}
    /\ Counts \cap {Omitted, "none", "all", "true", "false", "bad"} = {}
    /\ Models \cap {Omitted, "null"} = {} /\ Efforts \cap {Omitted, "null"} = {}
ASSUME EditAssumption == MaxEdits \in Nat

VARIABLES
    interface,  \* the native_interface frozen at prepare
    expected,   \* expected_native_parameters of the capability
    call,       \* the tool_input of the native call
    edits       \* how often it was changed

vars == <<interface, expected, call, edits>>

\* Names of tasks: that of the prepared one, those of others.
Governed == {"mine"} \cup Others

\* tool_input, field by field.  A message stands for the marker of its first line:
\* a governed name, "broken" for one that names nothing, "unmarked" for any other
\* text.  "number" and "bad" are values of a wrong type, or no admissible text.
Fields == [task_name    |-> Governed \cup {Omitted, "null", "plain", "number"},
           message      |-> Governed \cup {"broken", "unmarked", "number"},
           fork_turns   |-> Counts \cup {Omitted, "none", "all", "bad"},
           fork_context |-> {Omitted, "true", "false", "bad"},
           model        |-> Models \cup {Omitted, "null"},
           effort       |-> Efforts \cup {Omitted, "null"},
           unknown      |-> {Omitted, "present"}]
Field == DOMAIN Fields

-----------------------------------------------------------------------------
(* prepare: validation and rendering *)

\* validate_native_spawn
Valid(i, e) ==
    /\ i = "collaboration_turns" /\ e.turns = "all" => e.model = Omitted /\ e.effort = Omitted
    /\ i = "fork_context" => e.turns \in {"none", "all"}

Expected ==
    [name : {"mine"}, turns : Counts \cup {"none", "all"},
     model : Models \cup {Omitted}, effort : Efforts \cup {Omitted}]

\* render_native_spawn: what is not overridden is omitted, the inheritance never.
Mut_InheritanceOmitted(i, e) ==
    [task_name |-> IF i = "collaboration_turns" THEN e.name ELSE Omitted, message |-> e.name,
     fork_turns |-> IF i = "collaboration_turns" /\ e.turns # "none" THEN e.turns ELSE Omitted,
     fork_context |-> IF i = "fork_context" /\ e.turns = "all" THEN "true" ELSE Omitted,
     model |-> e.model, effort |-> e.effort, unknown |-> Omitted]
Render(i, e) ==
    [task_name |-> IF i = "collaboration_turns" THEN e.name ELSE Omitted, message |-> e.name,
     fork_turns |-> IF i = "collaboration_turns" THEN e.turns ELSE Omitted,
     fork_context |-> IF i = "collaboration_turns" THEN Omitted
                      ELSE IF e.turns = "all" THEN "true" ELSE "false",
     model |-> e.model, effort |-> e.effort, unknown |-> Omitted]

-----------------------------------------------------------------------------
(* claim: normalisation and comparison *)

Foreign(i, c) ==
    \/ c.unknown # Omitted
    \/ i = "collaboration_turns" /\ c.fork_context # Omitted
    \/ i = "fork_context" /\ (c.task_name # Omitted \/ c.fork_turns # Omitted)

Mut_NothingUnavailable(i, c) == FALSE
Unavailable(i, c) ==
    \/ Foreign(i, c) \/ c.message = "number" \/ c.model = "null" \/ c.effort = "null"
    \/ i = "collaboration_turns" /\ c.task_name \in {Omitted, "null", "number"}

Mismatch(i, c) ==
    \/ /\ i = "collaboration_turns"
       /\ c.fork_turns = "bad" \/ (c.message \in Governed /\ c.message # c.task_name)
    \/ i = "fork_context" /\ c.fork_context = "bad"

\* normalize_native_spawn of a call that is neither.
Mut_OneDefaultForBoth(i, c) ==
    [name |-> IF i = "collaboration_turns" THEN c.task_name ELSE c.message,
     turns |-> IF c.fork_turns \in Counts \cup {"all"} THEN c.fork_turns
               ELSE IF c.fork_context = "true" THEN "all" ELSE "none",
     model |-> c.model, effort |-> c.effort]
Normalize(i, c) ==
    [name |-> IF i = "collaboration_turns" THEN c.task_name ELSE c.message,
     turns |-> IF i = "collaboration_turns"
               THEN IF c.fork_turns = Omitted THEN "all" ELSE c.fork_turns
               ELSE IF c.fork_context = "true" THEN "all" ELSE "none",
     model |-> c.model, effort |-> c.effort]

\* The message itself is not compared: the platform may rewrite it.
ClaimParametersMatch(i, c, e) == Normalize(i, c) = e

-----------------------------------------------------------------------------
(* the Hook *)

Name(c) == IF c.task_name = "null" THEN Omitted ELSE c.task_name
HasMarker(c) == c.message \in Governed \cup {"broken"}

Contradictory(c) ==
    \/ c.message = "broken"
    \/ c.message \in Governed /\ Name(c) # Omitted /\ Name(c) # c.message

Quoted(c) == IF Name(c) # Omitted THEN Name(c) ELSE c.message

\* A spawn that bears no mark of governance is none of the Hook's business.
Ungoverned(c) == ~HasMarker(c) /\ Name(c) \notin Governed \cup {"number"}

\* _pre and claim_spawn: "claimed", "deny", "allow" with a warning, or "silent".
Decision(i, c, e) ==
    IF Ungoverned(c) THEN "silent"
    ELSE IF Name(c) = "number" THEN "allow"
    ELSE IF Contradictory(c) \/ Quoted(c) \in Others THEN "deny"
    ELSE IF Unavailable(i, c) THEN "allow"
    ELSE IF ~Mismatch(i, c) /\ ClaimParametersMatch(i, c, e) THEN "claimed"
    ELSE "deny"

-----------------------------------------------------------------------------
(* The native tool *)

\* What the agent of a call is created with, by the tool's own defaults.
Effect(i, c) ==
    [inherits |-> IF i = "collaboration_turns"
                  THEN IF c.fork_turns = Omitted THEN "all" ELSE c.fork_turns
                  ELSE IF c.fork_context \in {Omitted, "false"} THEN "none"
                  ELSE IF c.fork_context = "true" THEN "all" ELSE c.fork_context,
     model |-> c.model, effort |-> c.effort]
EffectPrepared == [inherits |-> expected.turns, model |-> expected.model, effort |-> expected.effort]

Init ==
    /\ interface \in {"collaboration_turns", "fork_context"}
    /\ expected \in {e \in Expected : Valid(interface, e)}
    /\ call = Render(interface, expected)
    /\ edits = 0

\* Someone on the way changes a field, drops it or adds one.
Edit ==
    /\ edits < MaxEdits /\ edits' = edits + 1
    /\ \E f \in Field : \E value \in Fields[f] : call' = [call EXCEPT ![f] = value]
    /\ UNCHANGED <<interface, expected>>

Next == Edit

Spec == Init /\ [][Next]_vars

-----------------------------------------------------------------------------
(***************************************************************************)
(* Properties                                                              *)
(***************************************************************************)

Decided == Decision(interface, call, expected)

\* Whatever was changed on the way, a call that gets the claim creates an agent
\* with the inheritance, model and effort that were prepared, under the prepared
\* name: what normalisation assumes of an omitted field is what the tool does.
ClaimedRunsAsPrepared ==
    Decided = "claimed" =>
        /\ Effect(interface, call) = EffectPrepared
        /\ "mine" \in {call.task_name, call.message}
        /\ Others \cap {call.task_name, call.message} = {}

\* The call as it was rendered gets the claim, whatever was prepared: no prepared
\* task is impossible to start.
RenderedIsClaimed ==
    call = Render(interface, expected) => Decided = "claimed"

\* A denial rests on something established: the call bears a mark of governance,
\* and the mark contradicts itself, names another task, or the agent would not be
\* the prepared one.  Nobody else's spawn is blocked, however its other fields look,
\* and a field the Hook merely cannot judge is no reason to deny.
DenialIsEstablished ==
    Decided = "deny" =>
        /\ call.task_name \in Governed \/ HasMarker(call)
        /\ \/ Contradictory(call) \/ {call.task_name, call.message} \cap Others # {}
           \/ Effect(interface, call) # EffectPrepared
=============================================================================
