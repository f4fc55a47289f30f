---------------------------- MODULE NativeCallProofs ----------------------------
(***************************************************************************)
(* Proofs about NativeCall, for any models, efforts, counts and other      *)
(* tasks, and any number of changes on the way: which calls get the claim, *)
(* and that a denial is one somebody could justify.                        *)
(***************************************************************************)
EXTENDS NativeCall, TLAPS

Interfaces == {"collaboration_turns", "fork_context"}
Calls == [task_name : Fields.task_name, message : Fields.message,
          fork_turns : Fields.fork_turns, fork_context : Fields.fork_context,
          model : Fields.model, effort : Fields.effort, unknown : Fields.unknown]

TypeOK ==
    /\ interface \in Interfaces /\ expected \in Expected /\ call \in Calls
    /\ edits \in 0..MaxEdits

\* The interface and the prepared parameters are frozen: they stay valid.
Inv == TypeOK /\ Valid(interface, expected)

-----------------------------------------------------------------------------
(* A call and its fields *)

LEMMA RenderIsCall == \A i \in Interfaces, e \in Expected : Render(i, e) \in Calls
BY DEF Interfaces, Expected, Render, Calls, Fields, Governed

LEMMA EditIsCall ==
    ASSUME NEW c \in Calls, NEW f \in Field, NEW value \in Fields[f]
    PROVE  [c EXCEPT ![f] = value] \in Calls
BY DEF Calls, Field, Fields

-----------------------------------------------------------------------------
(* What the Hook decides *)

\* The mark and the name of a call that gets the claim.
Marked(i, c) ==
    IF i = "collaboration_turns" THEN c.task_name = "mine" /\ c.message \in {"mine", "unmarked"}
                                 ELSE c.message = "mine"

EffectOf(e) == [inherits |-> e.turns, model |-> e.model, effort |-> e.effort]

\* A call that says what it wants of the agent, in fields its interface has.
Legible(i, c) ==
    /\ c.unknown = Omitted /\ c.model # "null" /\ c.effort # "null"
    /\ IF i = "collaboration_turns" THEN c.fork_context = Omitted
                                    ELSE c.task_name = Omitted /\ c.fork_turns = Omitted

\* Normalisation and the tool read the inheritance alike, unless it is none.
LEMMA NormalizeIsEffect ==
    ASSUME NEW i \in Interfaces, NEW c \in Calls, NEW e \in Expected, ~Mismatch(i, c)
    PROVE  Normalize(i, c) = e <=> Normalize(i, c).name = e.name /\ Effect(i, c) = EffectOf(e)
<1>1. Normalize(i, c).turns = Effect(i, c).inherits
  BY DEF Normalize, Effect, Mismatch, Interfaces, Calls, Fields, Omitted
<1>2. /\ Normalize(i, c).model = Effect(i, c).model
      /\ Normalize(i, c).effort = Effect(i, c).effort
  BY DEF Normalize, Effect
<1>3. /\ Effect(i, c) = [inherits |-> Effect(i, c).inherits, model |-> Effect(i, c).model,
                         effort |-> Effect(i, c).effort]
      /\ Normalize(i, c) = [name |-> Normalize(i, c).name, turns |-> Normalize(i, c).turns,
                            model |-> Normalize(i, c).model, effort |-> Normalize(i, c).effort]
      /\ e = [name |-> e.name, turns |-> e.turns, model |-> e.model, effort |-> e.effort]
  BY DEF Normalize, Effect, Expected
<1>4. QED
  BY <1>1, <1>2, <1>3 DEF EffectOf

\* An inheritance the tool would not understand is not a prepared one.
LEMMA MismatchIsOtherEffect ==
    ASSUME NEW i \in Interfaces, NEW c \in Calls, NEW e \in Expected, ~Unavailable(i, c),
           ~Contradictory(c), Mismatch(i, c)
    PROVE  Effect(i, c) # EffectOf(e)
<1>1. CASE i = "collaboration_turns"
  <2>1. c.message \in Governed => c.message = c.task_name
    BY <1>1 DEF Contradictory, Unavailable, Name
  <2>2. c.fork_turns = "bad"
    BY <1>1, <2>1 DEF Mismatch
  <2>3. QED
    BY <1>1, <2>2, ValueAssumption DEF Effect, EffectOf, Expected, Omitted
<1>2. CASE i = "fork_context"
  BY <1>2, ValueAssumption DEF Mismatch, Effect, EffectOf, Expected, Omitted
<1>3. QED
  BY <1>1, <1>2 DEF Interfaces

\* The calls that get the claim, exactly.
LEMMA ClaimedExactly ==
    ASSUME NEW i \in Interfaces, NEW c \in Calls, NEW e \in Expected
    PROVE  Decision(i, c, e) = "claimed" <=>
              Marked(i, c) /\ Legible(i, c) /\ Effect(i, c) = EffectOf(e)
<1>1. ASSUME Decision(i, c, e) = "claimed"
      PROVE  Marked(i, c) /\ Legible(i, c) /\ Effect(i, c) = EffectOf(e)
  <2>1. /\ ~Ungoverned(c) /\ Name(c) # "number" /\ ~Contradictory(c) /\ Quoted(c) \notin Others
        /\ ~Unavailable(i, c) /\ ~Mismatch(i, c) /\ Normalize(i, c) = e
    BY <1>1 DEF Decision, ClaimParametersMatch
  <2>2. Legible(i, c)
    BY <2>1 DEF Unavailable, Foreign, Legible, Interfaces
  <2>3. Effect(i, c) = EffectOf(e)
    BY <2>1, NormalizeIsEffect
  <2>4. Normalize(i, c).name = "mine"
    BY <2>1 DEF Expected
  <2>5. Marked(i, c)
    <3>1. CASE i = "collaboration_turns"
      <4>1. c.task_name = "mine" /\ c.message # "number"
        BY <2>1, <2>4, <3>1 DEF Normalize, Unavailable
      <4>2. c.message \in {"mine", "unmarked"}
        BY <2>1, <4>1 DEF Contradictory, Name, Calls, Fields, Governed, Omitted
      <4>3. QED
        BY <3>1, <4>1, <4>2 DEF Marked
    <3>2. CASE i = "fork_context"
      BY <2>4, <3>2 DEF Marked, Normalize
    <3>3. QED
      BY <3>1, <3>2 DEF Interfaces
  <2>6. QED
    BY <2>2, <2>3, <2>5
<1>2. ASSUME Marked(i, c), Legible(i, c), Effect(i, c) = EffectOf(e)
      PROVE  Decision(i, c, e) = "claimed"
  <2>1. "mine" \notin Others \cup {Omitted, "null", "number"} /\ "unmarked" \notin Governed
    BY ValueAssumption DEF Omitted, Governed
  <2>2. /\ ~Ungoverned(c) /\ Name(c) # "number" /\ ~Contradictory(c) /\ Quoted(c) = "mine"
    BY <1>2, <2>1 DEF Marked, Legible, Ungoverned, HasMarker, Name, Contradictory, Quoted, Governed,
       Omitted, Interfaces
  <2>3. ~Unavailable(i, c)
    BY <1>2, <2>1 DEF Marked, Legible, Unavailable, Foreign, Interfaces
  <2>4. ~Mismatch(i, c)
    BY <1>2, <2>2, <2>3, MismatchIsOtherEffect
  <2>5. Normalize(i, c).name = e.name
    BY <1>2 DEF Marked, Normalize, Expected, Interfaces
  <2>6. Normalize(i, c) = e
    BY <1>2, <2>4, <2>5, NormalizeIsEffect
  <2>7. QED
    BY <2>1, <2>2, <2>3, <2>4, <2>6 DEF Decision, ClaimParametersMatch
<1>3. QED
  BY <1>1, <1>2

\* Normalising what was rendered gives what was prepared.
LEMMA RenderedHasEffect ==
    ASSUME NEW i \in Interfaces, NEW e \in Expected, Valid(i, e)
    PROVE  LET c == Render(i, e)
           IN  Marked(i, c) /\ Legible(i, c) /\ Effect(i, c) = EffectOf(e)
<1> DEFINE c == Render(i, e)
<1>1. e.name = "mine" /\ e.turns # Omitted /\ e.model # "null" /\ e.effort # "null"
  BY ValueAssumption DEF Expected, Omitted
<1>2. Marked(i, c)
  BY <1>1 DEF Marked, Render
<1>3. Legible(i, c)
  BY <1>1 DEF Legible, Render, Interfaces
<1>4. Effect(i, c) = EffectOf(e)
  BY <1>1 DEF Effect, EffectOf, Render, Valid, Interfaces, Expected, Omitted
<1>5. QED
  BY <1>2, <1>3, <1>4

\* What a denied call bears, and what is wrong with it.
LEMMA DenialGround ==
    ASSUME NEW i \in Interfaces, NEW c \in Calls, NEW e \in Expected, Decision(i, c, e) = "deny"
    PROVE  /\ c.task_name \in Governed \/ HasMarker(c)
           /\ \/ Contradictory(c) \/ {c.task_name, c.message} \cap Others # {}
              \/ Effect(i, c) # EffectOf(e)
<1>1. ~Ungoverned(c) /\ Name(c) # "number"
  BY DEF Decision
<1>2. c.task_name \in Governed \/ HasMarker(c)
  BY <1>1, ValueAssumption DEF Ungoverned, Name, Governed, Omitted
<1>3. CASE Quoted(c) \in Others
  BY <1>2, <1>3, ValueAssumption DEF Quoted, Name, Omitted
<1>4. CASE Quoted(c) \notin Others /\ ~Contradictory(c)
  <2>1. ~Unavailable(i, c) /\ (Mismatch(i, c) \/ Normalize(i, c) # e)
    BY <1>1, <1>4 DEF Decision, ClaimParametersMatch
  <2>2. CASE Mismatch(i, c)
    BY <1>2, <1>4, <2>1, <2>2, MismatchIsOtherEffect
  <2>3. CASE ~Mismatch(i, c)
    <3>1. Normalize(i, c).name # "mine" \/ Effect(i, c) # EffectOf(e)
      BY <2>1, <2>3, NormalizeIsEffect DEF Expected
    <3>2. Normalize(i, c).name = "mine"
      <4>1. CASE i = "collaboration_turns"
        <5>1. Name(c) = c.task_name /\ Quoted(c) = c.task_name /\ c.task_name # Omitted
          BY <2>1, <4>1 DEF Name, Quoted, Unavailable
        <5>2. Quoted(c) \in Governed
          BY <1>1, <1>4, <5>1 DEF Ungoverned, HasMarker, Contradictory
        <5>3. QED
          BY <1>4, <4>1, <5>1, <5>2 DEF Governed, Normalize
      <4>2. CASE i = "fork_context"
        <5>1. Name(c) = Omitted /\ Quoted(c) = c.message
          BY <2>1, <4>2 DEF Name, Quoted, Unavailable, Foreign
        <5>2. Quoted(c) \in Governed
          BY <1>1, <1>4, <5>1, ValueAssumption
          DEF Ungoverned, HasMarker, Contradictory, Governed, Omitted
        <5>3. QED
          BY <1>4, <4>2, <5>1, <5>2 DEF Governed, Normalize
      <4>3. QED
        BY <4>1, <4>2 DEF Interfaces
    <3>3. QED
      BY <1>2, <3>1, <3>2
  <2>4. QED
    BY <2>2, <2>3
<1>5. QED
  BY <1>2, <1>3, <1>4

-----------------------------------------------------------------------------
(* The theorems *)

\* The preparation stays what it was, and a call has the fields of a call.
THEOREM Frozen == Spec => []Inv
<1>1. Init => Inv
  BY RenderIsCall, EditAssumption DEF Init, Inv, TypeOK, Interfaces
<1>2. Inv /\ [Next]_vars => Inv'
  <2> SUFFICES ASSUME Inv, [Next]_vars PROVE Inv'
    OBVIOUS
  <2>1. CASE Edit
    <3>1. PICK f \in Field : \E value \in Fields[f] : call' = [call EXCEPT ![f] = value]
      BY <2>1 DEF Edit
    <3>2. PICK value \in Fields[f] : call' = [call EXCEPT ![f] = value]
      BY <3>1
    <3>3. call' \in Calls
      BY <3>2, EditIsCall DEF Inv, TypeOK
    <3>4. edits' \in 0..MaxEdits /\ UNCHANGED <<interface, expected>>
      BY <2>1, EditAssumption DEF Edit, Inv, TypeOK
    <3>5. QED
      BY <3>3, <3>4 DEF Inv, TypeOK
  <2>2. CASE UNCHANGED vars
    BY <2>2 DEF vars, Inv, TypeOK
  <2>3. QED
    BY <2>1, <2>2 DEF Next
<1>3. QED
  BY <1>1, <1>2, PTL DEF Spec

\* A call that gets the claim creates an agent with the inheritance, model and effort
\* that were prepared, under the prepared name.
THEOREM ClaimsRunAsPrepared == Spec => []ClaimedRunsAsPrepared
<1>1. Inv => ClaimedRunsAsPrepared
  <2> SUFFICES ASSUME Inv, Decided = "claimed"
               PROVE  /\ Effect(interface, call) = EffectPrepared
                      /\ "mine" \in {call.task_name, call.message}
                      /\ Others \cap {call.task_name, call.message} = {}
    BY DEF ClaimedRunsAsPrepared
  <2>1. /\ Marked(interface, call) /\ Legible(interface, call)
        /\ Effect(interface, call) = EffectOf(expected)
    BY ClaimedExactly DEF Inv, TypeOK, Decided
  <2>2. QED
    BY <2>1, ValueAssumption DEF Marked, Legible, EffectOf, EffectPrepared, Inv, TypeOK, Interfaces,
       Omitted
<1>2. QED
  BY Frozen, <1>1, PTL

\* The call as it was rendered gets the claim.
THEOREM RenderedGetsTheClaim == Spec => []RenderedIsClaimed
<1>1. Inv => RenderedIsClaimed
  BY RenderIsCall, RenderedHasEffect, ClaimedExactly DEF Inv, TypeOK, RenderedIsClaimed, Decided
<1>2. QED
  BY Frozen, <1>1, PTL

\* A call that gets the claim is exactly one that bears the prepared name, can be read,
\* and asks for the prepared agent: how it says so makes no difference.
THEOREM ClaimIsOfTheEffect ==
    Spec => [](Decided = "claimed" <=> /\ Marked(interface, call) /\ Legible(interface, call)
                                       /\ Effect(interface, call) = EffectPrepared)
<1>1. Inv => (Decided = "claimed" <=> /\ Marked(interface, call) /\ Legible(interface, call)
                                      /\ Effect(interface, call) = EffectPrepared)
  BY ClaimedExactly DEF Inv, TypeOK, Decided, EffectOf, EffectPrepared
<1>2. QED
  BY Frozen, <1>1, PTL

\* A denied call bears a mark of governance that contradicts itself, or another task's,
\* or would create another agent than the prepared one.
THEOREM DenialsAreEstablished == Spec => []DenialIsEstablished
<1>1. Inv => DenialIsEstablished
  BY DenialGround DEF Inv, TypeOK, DenialIsEstablished, Decided, EffectOf, EffectPrepared
<1>2. QED
  BY Frozen, <1>1, PTL
=============================================================================
