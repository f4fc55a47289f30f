------------------------- MODULE LedgerRetentionProofs -------------------------
(***************************************************************************)
(* Proofs about the limits of the ledger: which closed records a write     *)
(* evicts, how many are left, when a new task is refused, and when a write *)
(* is refused for its size.  A sum and an order are proved about by        *)
(* smallest counterexamples: a nonempty family of subsets of TaskIds has a *)
(* member none of whose proper subsets is in the family.                   *)
(***************************************************************************)
EXTENDS SessionLedgerProofs, WellFoundedInduction

-----------------------------------------------------------------------------
(* Sums over finite sets *)

\* A nonempty family of finite sets has a smallest member.
LEMMA Smallest ==
    ASSUME NEW D, IsFiniteSet(D), NEW F \in SUBSET (SUBSET D), F # {}
    PROVE  \E s \in F : \A t \in F : t \subseteq s => t = s
<1>1. IsWellFoundedOn(StrictSubsetOrdering(D), SUBSET D)
  BY FS_StrictSubsetOrderingWellFounded, FS_FiniteSubsetsOfFinite
<1>2. PICK s \in F : \A t \in F : ~ (<<t, s>> \in StrictSubsetOrdering(D))
  BY <1>1, WFMin
<1>3. QED
  BY <1>2 DEF StrictSubsetOrdering

\* A family none of whose members is smallest is empty.
LEMMA NoneSmallest ==
    ASSUME NEW D, IsFiniteSet(D), NEW F \in SUBSET (SUBSET D),
           \A s \in F : ~ \A t \in F : t \subseteq s => t = s
    PROVE  F = {}
BY Smallest

\* The recursive function a sum over a set is computed by.
Some(s) == CHOOSE x \in s : TRUE
Summing(w, D, g) ==
    g = [s \in SUBSET D |-> IF s = {} THEN 0 ELSE w[Some(s)] + g[s \ {Some(s)}]]
Sum(w, D) == CHOOSE g : Summing(w, D, g)

LEMMA SummingAt ==
    ASSUME NEW w, NEW D, NEW g, Summing(w, D, g), NEW s \in SUBSET D
    PROVE  g[s] = IF s = {} THEN 0 ELSE w[Some(s)] + g[s \ {Some(s)}]
<1>1. g[s] = [t \in SUBSET D |-> IF t = {} THEN 0 ELSE w[Some(t)] + g[t \ {Some(t)}]][s]
  BY DEF Summing
<1>2. QED
  BY <1>1

LEMMA SomeMember == ASSUME NEW s, s # {} PROVE Some(s) \in s
BY DEF Some

LEMMA SummingRestricts ==
    ASSUME NEW w, NEW D, NEW g, Summing(w, D, g), NEW E \in SUBSET D
    PROVE  Summing(w, E, [s \in SUBSET E |-> g[s]])
<1> DEFINE h == [s \in SUBSET E |-> g[s]]
<1>1. ASSUME NEW s \in SUBSET E
      PROVE  g[s] = IF s = {} THEN 0 ELSE w[Some(s)] + h[s \ {Some(s)}]
  <2>1. s \in SUBSET D /\ s \ {Some(s)} \in SUBSET E
    OBVIOUS
  <2>2. h[s \ {Some(s)}] = g[s \ {Some(s)}]
    BY <2>1
  <2>3. g[s] = IF s = {} THEN 0 ELSE w[Some(s)] + g[s \ {Some(s)}]
    BY <2>1, SummingAt
  <2>4. QED
    BY <2>2, <2>3
<1>2. h = [s \in SUBSET E |-> IF s = {} THEN 0 ELSE w[Some(s)] + h[s \ {Some(s)}]]
  BY <1>1
<1>3. QED
  BY <1>2 DEF Summing

LEMMA SummingUnique ==
    ASSUME NEW w, NEW D, IsFiniteSet(D), NEW g, NEW h, Summing(w, D, g), Summing(w, D, h)
    PROVE  g = h
<1> DEFINE F == {s \in SUBSET D : g[s] # h[s]}
<1>1. F = {}
  <2> SUFFICES ASSUME F # {} PROVE FALSE
    OBVIOUS
  <2>1. F \in SUBSET (SUBSET D)
    OBVIOUS
  <2> HIDE DEF F
  <2>2. PICK s \in F : \A t \in F : t \subseteq s => t = s
    BY <2>1, Smallest
  <2> USE DEF F
  <2>3. s # {}
    BY <2>2, SummingAt
  <2>4. Some(s) \in s
    BY <2>3, SomeMember
  <2>5. g[s \ {Some(s)}] = h[s \ {Some(s)}]
    BY <2>2, <2>4
  <2>6. QED
    BY <2>2, <2>5, SummingAt
<1>2. \A s \in SUBSET D : g[s] = h[s]
  BY <1>1
<1>3. g = [s \in SUBSET D |-> g[s]] /\ h = [s \in SUBSET D |-> h[s]]
  BY DEF Summing
<1>4. QED
  BY <1>2, <1>3

LEMMA SummingExists ==
    ASSUME NEW w, NEW D, IsFiniteSet(D)
    PROVE  Summing(w, D, Sum(w, D))
<1> DEFINE F == {E \in SUBSET D : ~Summing(w, E, Sum(w, E))}
<1>1. F = {}
  <2> SUFFICES ASSUME F # {} PROVE FALSE
    OBVIOUS
  <2>1. F \in SUBSET (SUBSET D)
    OBVIOUS
  <2> HIDE DEF F
  <2>2. PICK E \in F : \A t \in F : t \subseteq E => t = E
    BY <2>1, Smallest
  <2> USE DEF F
  <2>3. \A t \in SUBSET E : t # E => Summing(w, t, Sum(w, t))
    BY <2>2
  <2> DEFINE g == [s \in SUBSET E |->
                     IF s = {} THEN 0 ELSE w[Some(s)] + Sum(w, s \ {Some(s)})[s \ {Some(s)}]]
  <2>4. ASSUME NEW t \in SUBSET E, t # E PROVE g[t] = Sum(w, t)[t]
    <3>1. Summing(w, t, Sum(w, t))
      BY <2>3, <2>4
    <3>2. CASE t = {}
      BY <3>1, <3>2, SummingAt
    <3>3. CASE t # {}
      <4> DEFINE u == t \ {Some(t)}
      <4>1. u \in SUBSET t /\ u \in SUBSET E /\ u # E
        BY <2>4
      <4>2. Summing(w, u, Sum(w, u))
        BY <2>3, <4>1
      <4>3. Summing(w, u, [s \in SUBSET u |-> Sum(w, t)[s]])
        BY <3>1, <4>1, SummingRestricts
      <4>4. IsFiniteSet(u)
        BY <4>1, FS_Subset
      <4>5. Sum(w, u) = [s \in SUBSET u |-> Sum(w, t)[s]]
        BY <4>2, <4>3, <4>4, SummingUnique
      <4>6. Sum(w, u)[u] = Sum(w, t)[u]
        BY <4>5
      <4>7. Sum(w, t)[t] = w[Some(t)] + Sum(w, t)[u]
        BY <3>1, <3>3, SummingAt
      <4>8. g[t] = w[Some(t)] + Sum(w, u)[u]
        BY <3>3
      <4>9. QED
        BY <4>6, <4>7, <4>8
    <3>4. QED
      BY <3>2, <3>3
  <2>5. ASSUME NEW s \in SUBSET E, s # {}
        PROVE  g[s \ {Some(s)}] = Sum(w, s \ {Some(s)})[s \ {Some(s)}]
    BY <2>4, <2>5, SomeMember
  <2>6. g = [s \in SUBSET E |-> IF s = {} THEN 0 ELSE w[Some(s)] + g[s \ {Some(s)}]]
    BY <2>5
  <2>7. Summing(w, E, g)
    BY <2>6 DEF Summing
  <2>8. QED
    BY <2>2, <2>7 DEF Sum
<1>2. QED
  BY <1>1

-----------------------------------------------------------------------------
(* Sums over sets of tasks *)

Total(w, s) == Sum(w, TaskIds)[s]
Weights == [TaskIds -> Nat]

LEMMA TotalStep ==
    ASSUME NEW w, NEW s \in SUBSET TaskIds
    PROVE  Total(w, s) = IF s = {} THEN 0 ELSE w[Some(s)] + Total(w, s \ {Some(s)})
<1>1. Summing(w, TaskIds, Sum(w, TaskIds))
  BY IdAssumption, SummingExists
<1>2. QED
  BY <1>1, SummingAt DEF Total

LEMMA TotalEmpty == ASSUME NEW w PROVE Total(w, {}) = 0
BY TotalStep

LEMMA TotalNat ==
    ASSUME NEW w \in Weights, NEW s \in SUBSET TaskIds
    PROVE  Total(w, s) \in Nat
<1> DEFINE F == {t \in SUBSET TaskIds : Total(w, t) \notin Nat}
<1>1. F \in SUBSET (SUBSET TaskIds)
  OBVIOUS
<1>2. ASSUME NEW t \in F, \A u \in F : u \subseteq t => u = t
      PROVE  FALSE
  <2>1. CASE t = {}
    BY <2>1, TotalEmpty
  <2>2. CASE t # {}
    <3>1. Some(t) \in t /\ t \in SUBSET TaskIds
      BY <2>2, SomeMember
    <3>2. t \ {Some(t)} \notin F
      BY <1>2, <3>1
    <3>3. Total(w, t \ {Some(t)}) \in Nat /\ w[Some(t)] \in Nat
      BY <3>1, <3>2 DEF Weights
    <3>4. Total(w, t) = w[Some(t)] + Total(w, t \ {Some(t)})
      BY <2>2, <3>1, TotalStep
    <3>5. QED
      BY <3>3, <3>4
  <2>3. QED
    BY <2>1, <2>2
<1> HIDE DEF F
<1>3. F = {}
  <2>1. IsFiniteSet(TaskIds) /\ \A r \in F : ~ \A t \in F : t \subseteq r => t = r
    BY <1>2, IdAssumption
  <2>2. QED
    BY <1>1, <2>1, NoneSmallest
<1>4. QED
  BY <1>3 DEF F

\* A sum may be taken apart at any member of its set.
LEMMA TotalTake ==
    ASSUME NEW w \in Weights, NEW s \in SUBSET TaskIds, NEW x \in s
    PROVE  Total(w, s) = w[x] + Total(w, s \ {x})
<1> DEFINE F == {t \in SUBSET TaskIds : \E y \in t : Total(w, t) # w[y] + Total(w, t \ {y})}
<1>1. F \in SUBSET (SUBSET TaskIds)
  OBVIOUS
<1>2. ASSUME NEW t \in F, \A u \in F : u \subseteq t => u = t
      PROVE  FALSE
  <2>1. PICK y \in t : Total(w, t) # w[y] + Total(w, t \ {y})
    OBVIOUS
  <2>2. t \in SUBSET TaskIds /\ t # {}
    BY <2>1
  <2> DEFINE c == Some(t)
  <2>3. c \in t /\ Total(w, t) = w[c] + Total(w, t \ {c})
    BY <2>2, SomeMember, TotalStep
  <2> HIDE DEF c
  <2>4. c # y
    BY <2>1, <2>3
  <2>5. /\ t \ {c} \notin F /\ y \in t \ {c} /\ t \ {c} \in SUBSET TaskIds
        /\ t \ {y} \notin F /\ c \in t \ {y} /\ t \ {y} \in SUBSET TaskIds
    BY <1>2, <2>2, <2>3, <2>4
  <2>6. /\ Total(w, t \ {c}) = w[y] + Total(w, (t \ {c}) \ {y})
        /\ Total(w, t \ {y}) = w[c] + Total(w, (t \ {y}) \ {c})
    BY <2>5
  <2>7. Total(w, t \ {y}) = w[c] + Total(w, (t \ {c}) \ {y})
    <3>1. (t \ {c}) \ {y} = (t \ {y}) \ {c}
      OBVIOUS
    <3>2. QED
      BY <2>6, <3>1
  <2>8. w[y] \in Nat /\ w[c] \in Nat /\ Total(w, (t \ {c}) \ {y}) \in Nat
    BY <2>2, <2>3, TotalNat DEF Weights
  <2>9. QED
    BY <2>1, <2>3, <2>6, <2>7, <2>8
<1> HIDE DEF F
<1>3. F = {}
  <2>1. IsFiniteSet(TaskIds) /\ \A r \in F : ~ \A t \in F : t \subseteq r => t = r
    BY <1>2, IdAssumption
  <2>2. QED
    BY <1>1, <2>1, NoneSmallest
<1>4. QED
  BY <1>3 DEF F

\* A sum of less over fewer is less.
LEMMA TotalLeq ==
    ASSUME NEW w \in Weights, NEW v \in Weights, NEW s \in SUBSET TaskIds, NEW r \in SUBSET s,
           \A x \in r : w[x] <= v[x]
    PROVE  Total(w, r) <= Total(v, s)
<1> DEFINE F == {t \in SUBSET TaskIds : \E u \in SUBSET t : /\ \A x \in u : w[x] <= v[x]
                                                          /\ ~(Total(w, u) <= Total(v, t))}
<1>1. F \in SUBSET (SUBSET TaskIds)
  OBVIOUS
<1>2. ASSUME NEW t \in F, \A u \in F : u \subseteq t => u = t
      PROVE  FALSE
  <2>1. PICK u \in SUBSET t : (\A x \in u : w[x] <= v[x]) /\ ~(Total(w, u) <= Total(v, t))
    OBVIOUS
  <2>2. CASE t = {}
    BY <2>1, <2>2, TotalEmpty
  <2>3. ASSUME NEW x \in t PROVE FALSE
    <3>1. /\ x \in TaskIds /\ t \in SUBSET TaskIds /\ u \in SUBSET TaskIds
          /\ t \ {x} \in SUBSET TaskIds /\ u \ {x} \in SUBSET (t \ {x})
      OBVIOUS
    <3>2. w[x] \in Nat /\ v[x] \in Nat /\ Total(w, u \ {x}) \in Nat /\ Total(v, t \ {x}) \in Nat
      BY <3>1, TotalNat DEF Weights
    <3>3. Total(v, t) = v[x] + Total(v, t \ {x})
      BY <3>1, TotalTake
    <3>4. t \ {x} \notin F
      BY <1>2
    <3>5. Total(w, u \ {x}) <= Total(v, t \ {x})
      BY <2>1, <3>1, <3>4
    <3>6. CASE x \in u
      <4>1. Total(w, u) = w[x] + Total(w, u \ {x}) /\ w[x] <= v[x]
        BY <2>1, <3>1, <3>6, TotalTake
      <4>2. QED
        BY <2>1, <3>2, <3>3, <3>5, <4>1
    <3>7. CASE x \notin u
      <4>1. u \ {x} = u
        BY <3>7
      <4>2. QED
        BY <2>1, <3>2, <3>3, <3>5, <4>1
    <3>8. QED
      BY <3>6, <3>7
  <2>4. QED
    BY <2>2, <2>3
<1> HIDE DEF F
<1>3. F = {}
  <2>1. IsFiniteSet(TaskIds) /\ \A z \in F : ~ \A t \in F : t \subseteq z => t = z
    BY <1>2, IdAssumption
  <2>2. QED
    BY <1>1, <2>1, NoneSmallest
<1>4. QED
  BY <1>3 DEF F

\* Weights that differ by at most a gap have sums that differ by at most as many gaps.
LEMMA TotalGap ==
    ASSUME NEW w \in Weights, NEW v \in Weights, NEW gap \in Nat, NEW s \in SUBSET TaskIds,
           \A x \in s : v[x] <= w[x] + gap
    PROVE  Total(v, s) <= Total(w, s) + Cardinality(s) * gap
<1> DEFINE F == {t \in SUBSET s : ~(Total(v, t) <= Total(w, t) + Cardinality(t) * gap)}
<1>1. F \in SUBSET (SUBSET TaskIds)
  OBVIOUS
<1>2. ASSUME NEW t \in F, \A u \in F : u \subseteq t => u = t
      PROVE  FALSE
  <2>1. IsFiniteSet(t) /\ t \in SUBSET TaskIds /\ Cardinality({}) = 0
    BY IdAssumption, FS_Subset, FS_EmptySet
  <2>2. CASE t = {}
    BY <2>1, <2>2, TotalEmpty
  <2>3. ASSUME NEW x \in t PROVE FALSE
    <3> DEFINE r == t \ {x}
               n == Cardinality(r)
               a == Total(v, r)
               b == Total(w, r)
    <3>1. w[x] \in Nat /\ v[x] \in Nat /\ a \in Nat /\ b \in Nat /\ v[x] <= w[x] + gap
      BY <2>1, TotalNat DEF Weights
    <3>2. Total(v, t) = v[x] + a /\ Total(w, t) = w[x] + b
      BY <2>1, TotalTake
    <3>3. n \in Nat /\ Cardinality(t) = n + 1
      <4>1. Cardinality(r) = Cardinality(t) - 1 /\ IsFiniteSet(r)
        BY <2>1, FS_RemoveElement
      <4>2. Cardinality(t) \in Nat /\ Cardinality(r) \in Nat
        BY <2>1, <4>1, FS_CardinalityType
      <4>3. QED
        BY <4>1, <4>2
    <3>4. t \ {x} \notin F
      BY <1>2
    <3>5. a <= b + n * gap
      BY <3>4
    <3>6. ~(Total(v, t) <= Total(w, t) + Cardinality(t) * gap)
      OBVIOUS
    <3> HIDE DEF r, n, a, b
    <3>7. (n + 1) * gap = n * gap + gap /\ n * gap \in Nat
      BY <3>3
    <3>8. QED
      BY <3>1, <3>2, <3>3, <3>5, <3>6, <3>7
  <2>4. QED
    BY <2>2, <2>3
<1> HIDE DEF F
<1>3. F = {}
  <2>1. IsFiniteSet(TaskIds) /\ \A z \in F : ~ \A t \in F : t \subseteq z => t = z
    BY <1>2, IdAssumption
  <2>2. QED
    BY <1>1, <2>1, NoneSmallest
<1>4. QED
  BY <1>3 DEF F

-----------------------------------------------------------------------------
(* The size of a ledger *)

Weight(tt) == [id \in TaskIds |-> IF id \in Present(tt) THEN Size(id, tt[id]) ELSE 0]

\* What a key adds is a number, no larger than the largest.
LEMMA EntryRange ==
    ASSUME NEW key \in SizedKeys, NEW value \in SizedValues \cup {None}
    PROVE  /\ Entry(key, value) \in Nat /\ LargestEntry \in Nat
           /\ Entry(key, value) <= LargestEntry
<1>1. LargestEntry \in Nat /\ EntryBytes[key] \in [SizedValues -> 0..LargestEntry]
  BY SizeAssumption
<1>2. CASE value = None
  BY <1>1, <1>2 DEF Entry
<1>3. CASE value # None
  BY <1>1, <1>3 DEF Entry
<1>4. QED
  BY <1>2, <1>3

\* What every record has, and a bound on each key it may have.
Fixed(id, t) == ContractBytes[id] + (IF t.expires = NoTime THEN 0 ELSE CapabilityBytes[id])
Identity(t) == Entry("phase", t.phase) + Entry("call", t.call) + Entry("target", t.target)
Facts(t) ==
    Entry("platform_observation", t.observation) + Entry("terminal_source", t.terminal.source)
    + Entry("terminal_status", t.terminal.status) + Entry("interrupt_fact", t.interrupt)
End(t) == Entry("code", t.code) + Entry("reason", t.reason)
Unknown(t) ==
    Entry("unknown_facts", Receipts(t)) + Entry("delivery", Receipt(t, "delivery"))
    + Entry("observation", Receipt(t, "observation")) + Entry("interrupt", Receipt(t, "interrupt"))
Bounded(n) == n \in Nat /\ n <= LargestEntry
KeysBounded(t) ==
    /\ Bounded(Entry("phase", t.phase)) /\ Bounded(Entry("call", t.call))
    /\ Bounded(Entry("target", t.target))
    /\ Bounded(Entry("platform_observation", t.observation))
    /\ Bounded(Entry("terminal_source", t.terminal.source))
    /\ Bounded(Entry("terminal_status", t.terminal.status))
    /\ Bounded(Entry("interrupt_fact", t.interrupt))
    /\ Bounded(Entry("code", t.code)) /\ Bounded(Entry("reason", t.reason))
    /\ Bounded(Entry("unknown_facts", Receipts(t)))
    /\ Bounded(Entry("delivery", Receipt(t, "delivery")))
    /\ Bounded(Entry("observation", Receipt(t, "observation")))
    /\ Bounded(Entry("interrupt", Receipt(t, "interrupt")))

LEMMA SizeParts ==
    ASSUME NEW id \in TaskIds, NEW t \in Task, t.phase \in Phases
    PROVE  /\ LargestEntry \in Nat /\ Fixed(id, t) \in Nat /\ KeysBounded(t)
           /\ Identity(t) \in Nat /\ Facts(t) \in Nat /\ End(t) \in Nat /\ Unknown(t) \in Nat
           /\ Size(id, t) = Fixed(id, t) + Identity(t) + Facts(t) + End(t) + Unknown(t)
           /\ Size(id, t) \in Nat
<1>1. Fixed(id, t) \in Nat /\ LargestEntry \in Nat
  BY SizeAssumption DEF Fixed
<1>2. \A key \in SizedKeys : \A value \in SizedValues \cup {None} : Bounded(Entry(key, value))
  BY <1>1, EntryRange DEF Bounded
<1>3. /\ t.phase \in SizedValues \cup {None} /\ t.call \in SizedValues \cup {None}
      /\ t.target \in SizedValues \cup {None} /\ t.observation \in SizedValues \cup {None}
      /\ t.interrupt \in SizedValues \cup {None} /\ t.code \in SizedValues \cup {None}
      /\ t.reason \in SizedValues \cup {None}
  BY DEF Task, SizedValues, PlatformStatuses, InterruptResults
<1>4. t.terminal.source \in SizedValues \cup {None} /\ t.terminal.status \in SizedValues \cup {None}
  <2>1. t.terminal \in TerminalFact
    BY DEF Task
  <2>2. QED
    BY <2>1 DEF TerminalFact, SizedValues, PlatformStatuses, InterruptResults
<1>5. Receipts(t) \in SizedValues \cup {None} /\ \A c : Receipt(t, c) \in SizedValues \cup {None}
  BY DEF Receipts, Receipt, SizedValues
<1>6. /\ {"phase", "call", "target", "platform_observation", "terminal_source", "terminal_status",
           "interrupt_fact", "code", "reason", "unknown_facts"} \subseteq SizedKeys
      /\ {"delivery", "observation", "interrupt"} \subseteq SizedKeys
  BY DEF SizedKeys, UnknownCodes
<1>7. KeysBounded(t)
  BY <1>2, <1>3, <1>4, <1>5, <1>6 DEF KeysBounded
<1>8. Identity(t) \in Nat /\ Facts(t) \in Nat /\ End(t) \in Nat /\ Unknown(t) \in Nat
  BY <1>7 DEF KeysBounded, Bounded, Identity, Facts, End, Unknown
<1>9. Size(id, t) = Fixed(id, t) + Identity(t) + Facts(t) + End(t) + Unknown(t)
  <2>1. Size(id, t) =
          Fixed(id, t) + Entry("phase", t.phase) + Entry("call", t.call) + Entry("target", t.target)
          + Entry("platform_observation", t.observation) + Entry("terminal_source", t.terminal.source)
          + Entry("terminal_status", t.terminal.status) + Entry("interrupt_fact", t.interrupt)
          + Entry("code", t.code) + Entry("reason", t.reason)
          + Entry("unknown_facts", Receipts(t)) + Entry("delivery", Receipt(t, "delivery"))
          + Entry("observation", Receipt(t, "observation")) + Entry("interrupt", Receipt(t, "interrupt"))
    BY DEF Size, Fixed
  <2>2. QED
    BY <1>1, <1>7, <2>1 DEF KeysBounded, Bounded, Identity, Facts, End, Unknown
<1>10. QED
  BY <1>1, <1>7, <1>8, <1>9

LEMMA WeightType ==
    ASSUME NEW tt \in Ledger
    PROVE  Weight(tt) \in Weights /\ Present(tt) \in SUBSET TaskIds
<1>1. ASSUME NEW id \in Present(tt) PROVE Size(id, tt[id]) \in Nat
  <2>1. id \in TaskIds /\ tt[id] \in Task /\ tt[id].phase \in Phases
    BY DEF Present, Ledger, Task
  <2>2. QED
    BY <2>1, SizeParts
<1>2. QED
  BY <1>1 DEF Weight, Weights, Present

LEMMA BytesTotal ==
    ASSUME NEW tt \in Ledger
    PROVE  Bytes(tt) = Total(Weight(tt), Present(tt))
<1> DEFINE P == Present(tt)
           w == Weight(tt)
           h == [s \in SUBSET P |-> Sum(w, TaskIds)[s]]
           Body(g) == [s \in SUBSET P |->
                         IF s = {} THEN 0
                         ELSE Size(CHOOSE x \in s : TRUE, tt[CHOOSE x \in s : TRUE])
                                 + g[s \ {CHOOSE x \in s : TRUE}]]
           SumBody(g) == [s \in SUBSET P |-> IF s = {} THEN 0 ELSE w[Some(s)] + g[s \ {Some(s)}]]
<1>1. P \in SUBSET TaskIds /\ IsFiniteSet(P)
  BY IdAssumption, FS_Subset DEF Present
<1>2. ASSUME NEW g PROVE Body(g) = SumBody(g)
  <2>1. ASSUME NEW s \in SUBSET P, s # {}
        PROVE  Size(CHOOSE x \in s : TRUE, tt[CHOOSE x \in s : TRUE]) = w[Some(s)]
    <3>1. Some(s) \in P /\ Some(s) \in TaskIds
      BY <1>1, <2>1, SomeMember
    <3>2. w[Some(s)] = Size(Some(s), tt[Some(s)])
      BY <3>1 DEF Weight
    <3>3. QED
      BY <3>2 DEF Some
  <2>2. QED
    BY <2>1 DEF Some
<1>3. Bytes(tt) = (CHOOSE g : g = Body(g))[P]
  BY DEF Bytes, MapThenSumSet, MapThenFoldSet
<1> HIDE DEF Body
<1>4. \A g : g = Body(g) <=> Summing(w, P, g)
  BY <1>2 DEF Summing
<1>5. Summing(w, P, h)
  BY <1>1, IdAssumption, SummingExists, SummingRestricts
<1> HIDE DEF w, P
<1>6. h = Body(h)
  BY <1>4, <1>5
<1>7. (CHOOSE g : g = Body(g)) = Body(CHOOSE g : g = Body(g))
  BY <1>6
<1>8. (CHOOSE g : g = Body(g)) = h
  BY <1>1, <1>4, <1>5, <1>7, SummingUnique
<1>9. h[P] = Sum(w, TaskIds)[P]
  OBVIOUS
<1>10. QED
  BY <1>3, <1>8, <1>9 DEF Total, w, P

\* How many there are of some of the tasks, and of the others.
LEMMA Counted ==
    ASSUME NEW S \in SUBSET TaskIds, NEW T \in SUBSET S
    PROVE  /\ IsFiniteSet(S) /\ Cardinality(S) \in Nat /\ Cardinality(T) \in Nat
           /\ Cardinality(T) <= Cardinality(S)
           /\ Cardinality(S \ T) = Cardinality(S) - Cardinality(T)
<1>1. IsFiniteSet(S) /\ IsFiniteSet(T)
  BY IdAssumption, FS_Subset
<1>2. Cardinality(S \ T) = Cardinality(S) - Cardinality(S \cap T) /\ S \cap T = T
  BY <1>1, FS_Difference
<1>3. QED
  BY <1>1, <1>2, FS_Subset, FS_CardinalityType

-----------------------------------------------------------------------------
(* The order of eviction *)

\* The order is a strict order that tells any two records apart.
LEMMA OlderIsOrder ==
    ASSUME NEW tt \in Ledger, NEW i \in TaskIds, NEW j \in TaskIds, NEW k \in TaskIds
    PROVE  /\ ~Older(tt, i, i)
           /\ Older(tt, i, j) /\ Older(tt, j, k) => Older(tt, i, k)
           /\ i = j \/ Older(tt, i, j) \/ Older(tt, j, i)
<1>1. i \in Nat /\ j \in Nat /\ k \in Nat
  BY IdAssumption
<1>2. Stamp \subseteq Int
  BY LimitAssumption DEF Stamp, Time, NoTime
<1>3. \A x \in {i, j, k} : tt[x].closed \in Int /\ tt[x].created \in Int
  BY <1>2 DEF Ledger, Task
<1>4. QED
  BY <1>1, <1>3 DEF Older

\* Of any closed records one is the oldest and one the youngest.
LEMMA Oldest ==
    ASSUME NEW tt \in Ledger, NEW S \in SUBSET Closed(tt), S # {}
    PROVE  \E m \in S : \A i \in S : i = m \/ Older(tt, m, i)
<1> DEFINE F == {OlderThan(tt, x) : x \in S}
<1>1. Closed(tt) \subseteq TaskIds /\ F \in SUBSET (SUBSET TaskIds) /\ F # {}
  BY DEF Closed, OlderThan
<1> HIDE DEF F
<1>2. PICK f \in F : \A g \in F : g \subseteq f => g = f
  <2>1. IsFiniteSet(TaskIds)
    BY IdAssumption
  <2>2. QED
    BY <1>1, <2>1, Smallest
<1>3. PICK m \in S : f = OlderThan(tt, m)
  BY <1>2 DEF F
<1>4. ASSUME NEW i \in S, i # m, Older(tt, i, m) PROVE FALSE
  <2>1. OlderThan(tt, i) \subseteq OlderThan(tt, m)
    BY <1>1, <1>4, OlderIsOrder DEF OlderThan
  <2>2. i \in OlderThan(tt, m)
    BY <1>4 DEF OlderThan
  <2>3. i \notin OlderThan(tt, i)
    BY <1>1, OlderIsOrder DEF OlderThan
  <2>4. OlderThan(tt, i) \in F
    BY DEF F
  <2>5. QED
    BY <1>2, <1>3, <2>1, <2>2, <2>3, <2>4
<1>5. QED
  BY <1>1, <1>4, OlderIsOrder

LEMMA Youngest ==
    ASSUME NEW tt \in Ledger, NEW S \in SUBSET Closed(tt), S # {}
    PROVE  \E m \in S : \A i \in S : i = m \/ Older(tt, i, m)
<1> DEFINE After(x) == {i \in Closed(tt) : Older(tt, x, i)}
           F == {After(x) : x \in S}
<1>1. Closed(tt) \subseteq TaskIds /\ F \in SUBSET (SUBSET TaskIds) /\ F # {}
  BY DEF Closed
<1> HIDE DEF F
<1>2. PICK f \in F : \A g \in F : g \subseteq f => g = f
  <2>1. IsFiniteSet(TaskIds)
    BY IdAssumption
  <2>2. QED
    BY <1>1, <2>1, Smallest
<1>3. PICK m \in S : f = After(m)
  BY <1>2 DEF F
<1>4. ASSUME NEW i \in S, i # m, Older(tt, m, i) PROVE FALSE
  <2>1. After(i) \subseteq After(m)
    BY <1>1, <1>4, OlderIsOrder
  <2>2. i \in After(m) /\ i \notin After(i)
    BY <1>1, <1>4, OlderIsOrder
  <2>3. After(i) \in F
    BY DEF F
  <2>4. QED
    BY <1>2, <1>3, <2>1, <2>2, <2>3
<1>5. QED
  BY <1>1, <1>4, OlderIsOrder

-----------------------------------------------------------------------------
(* What pruning leaves *)

LEMMA WithoutLedger ==
    ASSUME NEW tt \in Ledger, NEW ids
    PROVE  /\ Without(tt, ids) \in Ledger
           /\ Present(Without(tt, ids)) = Present(tt) \ ids
           /\ Closed(Without(tt, ids)) = Closed(tt) \ ids
           /\ \A i \in TaskIds : Without(tt, ids)[i] = IF i \in ids THEN Absent ELSE tt[i]
BY AbsentTask DEF Without, Ledger, Present, Closed

\* Records that disappear never make a ledger larger.
LEMMA FewerNotLarger ==
    ASSUME NEW tt \in Ledger, NEW uu \in Ledger,
           \A i \in TaskIds : uu[i] = tt[i] \/ uu[i] = Absent
    PROVE  /\ Cardinality(Present(uu)) \in Nat /\ Cardinality(Present(tt)) \in Nat
           /\ Bytes(uu) \in Nat /\ Bytes(tt) \in Nat
           /\ Cardinality(Present(uu)) <= Cardinality(Present(tt))
           /\ Bytes(uu) <= Bytes(tt)
           /\ NewTaskExceedsCapacity(uu) => NewTaskExceedsCapacity(tt)
<1>1. /\ Present(uu) \in SUBSET Present(tt) /\ Present(tt) \in SUBSET TaskIds
      /\ \A i \in Present(uu) : uu[i] = tt[i]
  BY AbsentTask DEF Present
<1>2. /\ Cardinality(Present(uu)) \in Nat /\ Cardinality(Present(tt)) \in Nat
      /\ Cardinality(Present(uu)) <= Cardinality(Present(tt))
  BY <1>1, Counted
<1>3. /\ Bytes(uu) = Total(Weight(uu), Present(uu)) /\ Bytes(tt) = Total(Weight(tt), Present(tt))
      /\ Weight(uu) \in Weights /\ Weight(tt) \in Weights
  BY BytesTotal, WeightType
<1>4. Bytes(uu) \in Nat /\ Bytes(tt) \in Nat
  BY <1>1, <1>3, TotalNat
<1>5. \A i \in Present(uu) : Weight(uu)[i] <= Weight(tt)[i]
  BY <1>1, <1>3 DEF Weight, Weights
<1>6. Bytes(uu) <= Bytes(tt)
  BY <1>1, <1>3, <1>5, TotalLeq
<1>7. QED
  BY <1>2, <1>4, <1>6, LimitAssumption DEF NewTaskExceedsCapacity

\* Why a closed record goes.
Excess(tt) == {id \in Closed(tt) : Cardinality(OlderThan(tt, id)) < Cardinality(Closed(tt)) - Retention}
Pressed(tt) == {id \in Closed(tt) : NewTaskExceedsCapacity(Without(tt, OlderThan(tt, id)))}

LEMMA EvictedParts ==
    ASSUME NEW tt
    PROVE  /\ Evicted(tt, "existing") = Excess(tt)
           /\ Evicted(tt, "new_task") = Excess(tt) \cup Pressed(tt)
           /\ \A admission : Evicted(tt, admission) \subseteq Closed(tt)
           /\ Closed(tt) \in SUBSET TaskIds
BY DEF Evicted, Excess, Pressed, Closed

\* Whoever is older than a record that goes, goes for the same reason.
LEMMA OlderGoes ==
    ASSUME NEW tt \in Ledger, NEW i \in Closed(tt), NEW j \in Closed(tt), Older(tt, i, j)
    PROVE  /\ j \in Excess(tt) => i \in Excess(tt)
           /\ j \in Pressed(tt) => i \in Pressed(tt)
<1>1. i \in TaskIds /\ j \in TaskIds /\ Closed(tt) \in SUBSET TaskIds
  BY DEF Closed
<1>2. OlderThan(tt, i) \in SUBSET OlderThan(tt, j) /\ OlderThan(tt, j) \in SUBSET TaskIds
  BY <1>1, OlderIsOrder DEF OlderThan
<1>3. Cardinality(OlderThan(tt, i)) <= Cardinality(OlderThan(tt, j))
      /\ Cardinality(OlderThan(tt, i)) \in Nat /\ Cardinality(OlderThan(tt, j)) \in Nat
      /\ Cardinality(Closed(tt)) \in Nat
  BY <1>1, <1>2, Counted
<1>4. NewTaskExceedsCapacity(Without(tt, OlderThan(tt, j)))
         => NewTaskExceedsCapacity(Without(tt, OlderThan(tt, i)))
  <2>1. \A k \in TaskIds : \/ Without(tt, OlderThan(tt, j))[k] = Without(tt, OlderThan(tt, i))[k]
                           \/ Without(tt, OlderThan(tt, j))[k] = Absent
    BY <1>2, WithoutLedger
  <2>2. QED
    BY <2>1, WithoutLedger, FewerNotLarger
<1>5. QED
  BY <1>3, <1>4, LimitAssumption DEF Excess, Pressed

\* At most Retention closed records are left.
LEMMA PruneBounds ==
    ASSUME NEW tt \in Ledger, NEW admission \in {"existing", "new_task"}
    PROVE  Cardinality(Closed(Prune(tt, admission))) <= Retention
<1> DEFINE C == Closed(tt)
           E == Evicted(tt, admission)
<1>1. Excess(tt) \in SUBSET E /\ E \in SUBSET C /\ C \in SUBSET TaskIds
  BY EvictedParts
<1>2. Closed(Prune(tt, admission)) = C \ E
  BY WithoutLedger DEF Prune
<1>3. /\ Cardinality(C \ E) = Cardinality(C) - Cardinality(E)
      /\ Cardinality(C) \in Nat /\ Cardinality(E) \in Nat
  BY <1>1, Counted
<1>4. CASE C \ E = {}
  BY <1>2, <1>4, FS_EmptySet, LimitAssumption
<1>5. CASE C \ E # {}
  <2>1. PICK m \in C \ E : \A i \in C \ E : i = m \/ Older(tt, m, i)
    BY <1>5, Oldest
  <2>2. OlderThan(tt, m) \in SUBSET E
    BY <1>1, <2>1, OlderIsOrder DEF OlderThan
  <2>3. Cardinality(OlderThan(tt, m)) <= Cardinality(E) /\ Cardinality(OlderThan(tt, m)) \in Nat
    BY <1>1, <2>2, Counted
  <2>4. ~(Cardinality(OlderThan(tt, m)) < Cardinality(C) - Retention)
    BY <1>1, <2>1 DEF Excess
  <2>5. QED
    BY <1>2, <1>3, <2>3, <2>4, LimitAssumption
<1>6. QED
  BY <1>4, <1>5

\* When records go for the retention alone, exactly Retention closed ones are left.
LEMMA ExcessExact ==
    ASSUME NEW tt \in Ledger, NEW admission \in {"existing", "new_task"},
           Evicted(tt, admission) = Excess(tt), Excess(tt) # {}
    PROVE  Cardinality(Closed(Prune(tt, admission))) = Retention
<1> DEFINE C == Closed(tt)
           E == Excess(tt)
<1>1. E \in SUBSET C /\ C \in SUBSET TaskIds
  BY EvictedParts DEF Excess
<1>2. PICK m \in E : \A i \in E : i = m \/ Older(tt, i, m)
  BY <1>1, Youngest
<1>3. OlderThan(tt, m) \in SUBSET TaskIds /\ E \in SUBSET (OlderThan(tt, m) \cup {m})
  BY <1>1, <1>2 DEF OlderThan
<1>4. IsFiniteSet(OlderThan(tt, m)) /\ Cardinality(OlderThan(tt, m)) \in Nat
  BY <1>3, Counted
<1>5. Cardinality(OlderThan(tt, m) \cup {m}) = Cardinality(OlderThan(tt, m)) + 1
  <2>1. m \notin OlderThan(tt, m)
    BY <1>1, <1>2, OlderIsOrder DEF OlderThan
  <2>2. QED
    BY <1>4, <2>1, FS_AddElement
<1>6. OlderThan(tt, m) \cup {m} \in SUBSET TaskIds
  BY <1>1, <1>2, <1>3
<1>7. /\ Cardinality(E) <= Cardinality(OlderThan(tt, m) \cup {m}) /\ Cardinality(E) \in Nat
      /\ Cardinality(OlderThan(tt, m) \cup {m}) \in Nat
  BY <1>3, <1>6, Counted
<1>8. Cardinality(OlderThan(tt, m)) < Cardinality(C) - Retention
  BY <1>2 DEF Excess
<1>9. Cardinality(C \ E) = Cardinality(C) - Cardinality(E) /\ Cardinality(C) \in Nat
  BY <1>1, Counted
<1>10. Closed(Prune(tt, admission)) = C \ E
  BY WithoutLedger DEF Prune
<1>11. Cardinality(C \ E) <= Retention /\ Cardinality(C \ E) \in Nat
  BY <1>1, <1>10, PruneBounds, Counted
<1>12. QED
  BY <1>4, <1>5, <1>7, <1>8, <1>9, <1>10, <1>11, LimitAssumption

\* When records go for a new task too, the youngest of them was needed.
LEMMA PressedMinimal ==
    ASSUME NEW tt \in Ledger, Evicted(tt, "new_task") # {}
    PROVE  \/ Cardinality(Closed(Prune(tt, "new_task"))) = Retention
           \/ \E m \in Evicted(tt, "new_task") :
                NewTaskExceedsCapacity(Without(tt, Evicted(tt, "new_task") \ {m}))
<1> DEFINE E == Evicted(tt, "new_task")
<1>1. E = Excess(tt) \cup Pressed(tt) /\ E \in SUBSET Closed(tt)
  BY EvictedParts
<1>2. PICK m \in E : \A i \in E : i = m \/ Older(tt, i, m)
  BY <1>1, Youngest
<1>3. CASE m \in Excess(tt)
  <2>1. E = Excess(tt)
    BY <1>1, <1>2, <1>3, OlderGoes
  <2>2. QED
    BY <1>2, <2>1, ExcessExact
<1>4. CASE m \in Pressed(tt)
  <2>1. \A i \in OlderThan(tt, m) : i \in E /\ i # m
    <3>1. m \in TaskIds /\ ~Older(tt, m, m)
      BY <1>1, EvictedParts, OlderIsOrder
    <3>2. QED
      BY <1>1, <1>4, <3>1, OlderGoes DEF OlderThan
  <2>2. E \ {m} = OlderThan(tt, m)
    BY <1>1, <1>2, <2>1 DEF OlderThan
  <2>3. QED
    BY <1>4, <2>2 DEF Pressed
<1>5. QED
  BY <1>1, <1>2, <1>3, <1>4

\* A new task there is still no room for has taken every closed record.
LEMMA PressedAll ==
    ASSUME NEW tt \in Ledger, NewTaskExceedsCapacity(Prune(tt, "new_task"))
    PROVE  Evicted(tt, "new_task") = Closed(tt)
<1> DEFINE E == Evicted(tt, "new_task")
<1>1. E = Excess(tt) \cup Pressed(tt) /\ E \in SUBSET Closed(tt) /\ Closed(tt) \in SUBSET TaskIds
  BY EvictedParts
<1>2. SUFFICES ASSUME Closed(tt) \ E # {} PROVE FALSE
  BY <1>1
<1>3. PICK m \in Closed(tt) \ E : \A i \in Closed(tt) \ E : i = m \/ Older(tt, m, i)
  BY <1>2, Oldest
<1>4. OlderThan(tt, m) \subseteq E
  BY <1>1, <1>3, OlderIsOrder DEF OlderThan
<1>5. ASSUME NEW i \in E PROVE i \in OlderThan(tt, m)
  <2>1. i \in TaskIds /\ m \in TaskIds /\ i # m
    BY <1>1, <1>3
  <2>2. ~Older(tt, m, i)
    BY <1>1, <1>3, OlderGoes
  <2>3. QED
    BY <1>1, <2>1, <2>2, OlderIsOrder DEF OlderThan
<1>6. E = OlderThan(tt, m)
  BY <1>4, <1>5
<1>7. m \in Pressed(tt)
  BY <1>3, <1>6 DEF Pressed, Prune
<1>8. QED
  BY <1>1, <1>3, <1>7

\* Nothing goes from a ledger that keeps to the retention.
LEMMA NothingToEvict ==
    ASSUME NEW tt \in Ledger, Cardinality(Closed(tt)) <= Retention
    PROVE  Prune(tt, "existing") = tt
<1>1. Cardinality(Closed(tt)) \in Nat /\ Closed(tt) \in SUBSET TaskIds
  BY Counted, EvictedParts
<1>2. \A id \in Closed(tt) : Cardinality(OlderThan(tt, id)) \in Nat
  BY <1>1, Counted DEF OlderThan
<1>3. Excess(tt) = {}
  BY <1>1, <1>2, LimitAssumption DEF Excess
<1>4. QED
  BY <1>3, EvictedParts DEF Prune, Without, Ledger

-----------------------------------------------------------------------------
(* What a step writes *)

LEMMA FactStepType ==
    ASSUME NEW t \in Task, t.phase \in {"bound", "terminal"}, NEW now \in Time, NEW u,
           FactStep(t, u, now)
    PROVE  u \in Task /\ u.phase \in {t.phase, "terminal"}
<1>1. now \in Stamp
  BY DEF Stamp
<1>2. ASSUME NEW s \in TerminalStatuses \cup {"running", "error"},
             u = [t EXCEPT !.observation = s, !.updated = now]
      PROVE  u \in Task /\ u.phase = t.phase
  <2>1. s \in PlatformStatuses \ {"unknown"}
    BY DEF PlatformStatuses, TerminalStatuses
  <2>2. QED
    BY <1>1, <1>2, <2>1 DEF Task
<1>3. ASSUME NEW s \in TerminalStatuses,
             u = [t EXCEPT !.observation = s, !.updated = now, !.phase = "terminal",
                           !.terminal = Fact("platform", s)]
      PROVE  u \in Task /\ u.phase = "terminal"
  <2>1. s \in PlatformStatuses \ {"unknown"} /\ Fact("platform", s) \in TerminalFact
    BY FactType DEF PlatformStatuses, TerminalStatuses, TerminalSources
  <2>2. QED
    BY <1>1, <1>3, <2>1 DEF Task, Phases
<1>4. ASSUME NEW s \in TerminalStatuses,
             u = [t EXCEPT !.phase = "terminal", !.terminal = Fact("notification", s),
                           !.updated = now]
      PROVE  u \in Task /\ u.phase = "terminal"
  <2>1. Fact("notification", s) \in TerminalFact
    BY FactType DEF TerminalSources
  <2>2. QED
    BY <1>1, <1>4, <2>1 DEF Task, Phases
<1>5. ASSUME NEW r \in {"failed", "inactive"}, u = [t EXCEPT !.interrupt = r, !.updated = now]
      PROVE  u \in Task /\ u.phase = t.phase
  BY <1>1, <1>5 DEF Task
<1>6. ASSUME u = [t EXCEPT !.interrupt = "inactive", !.updated = now, !.phase = "terminal",
                           !.terminal = Fact("interrupt", "inactive")]
      PROVE  u \in Task /\ u.phase = "terminal"
  <2>1. Fact("interrupt", "inactive") \in TerminalFact
    BY FactType DEF TerminalSources
  <2>2. QED
    BY <1>1, <1>6, <2>1 DEF Task, Phases
<1>7. ASSUME NEW c \in UnknownCodes, u = [t EXCEPT !.unknown[c] = now, !.updated = now]
      PROVE  u \in Task /\ u.phase = t.phase
  BY <1>1, <1>7 DEF Task
<1>8. QED
  BY <1>2, <1>3, <1>4, <1>5, <1>6, <1>7 DEF FactStep

\* A record that replaces another is a record, and its phase follows the graph.
LEMMA RecordStepType ==
    ASSUME NEW t \in Task, NEW u, RecordStep(t, u)
    PROVE  /\ u \in Task /\ t.phase \notin {"absent", "closed"}
           /\ t.phase = u.phase \/ <<t.phase, u.phase>> \in Edges
           /\ u.phase \in Phases
<1> DEFINE Fine == /\ u \in Task /\ t.phase \notin {"absent", "closed"}
                   /\ t.phase = u.phase \/ <<t.phase, u.phase>> \in Edges
                   /\ u.phase \in Phases
<1>1. PICK now \in Time : RecordStep(t, u)!(now)
  BY DEF RecordStep
<1>2. now \in Stamp /\ NoTime \in Stamp /\ t.phase \in Phases \cup {"absent"}
  BY DEF Stamp, Task
<1>3. CommonFields(t) \in Task /\ CommonFields(t).phase = "absent"
  BY CommonFieldsType
<1>4. ASSUME NEW c \in Task, NEW code \in ReconcileCodes, c.phase # "reconcile",
             u = EnterReconcile(c, code, now)
      PROVE  u \in Task /\ u.phase = "reconcile"
  <2>1. u = [c EXCEPT !.phase = "reconcile", !.updated = now, !.code = code,
                      !.expires = NoTime, !.call = None]
    BY <1>4 DEF EnterReconcile
  <2>2. QED
    BY <1>2, <2>1 DEF Task, Phases
<1>5. ASSUME NEW c \in Task, NEW reason \in Reasons \cup {DispatchFailed},
             u = CloseRecord(c, reason, now)
      PROVE  u \in Task /\ u.phase = "closed"
  BY <1>2, <1>5 DEF CloseRecord, Task, Phases
<1>6. ASSUME t.phase = "prepared", NEW call \in CallIds,
             u = [t EXCEPT !.phase = "claimed", !.call = call, !.updated = now]
      PROVE  Fine
  <2>1. u \in Task /\ u.phase = "claimed"
    BY <1>2, <1>6 DEF Task, Phases
  <2>2. QED
    BY <1>6, <2>1 DEF Phases, Edges
<1>7. ASSUME t.phase = "claimed", NEW target \in Targets,
             u = [CommonFields(t) EXCEPT !.phase = "bound", !.updated = now, !.target = target]
      PROVE  Fine
  <2>1. u \in Task /\ u.phase = "bound"
    BY <1>2, <1>3, <1>7 DEF Task, Phases
  <2>2. QED
    BY <1>7, <2>1 DEF Phases, Edges
<1>8. ASSUME NEW code \in ReconcileCodes, Warrants(t, code), u = EnterReconcile(t, code, now)
      PROVE  Fine
  <2>1. t.phase \in {"prepared", "claimed", "bound", "terminal"}
    BY <1>2, <1>8 DEF Warrants, Phases
  <2>2. u \in Task /\ u.phase = "reconcile"
    BY <1>4, <1>8, <2>1
  <2>3. QED
    BY <2>1, <2>2 DEF Phases, Edges
<1>9. ASSUME t.phase \in {"prepared", "claimed"},
             \/ u = CloseRecord(CommonFields(t), DispatchFailed, now)
             \/ u = EnterReconcile(CommonFields(t), "dispatch_result_unknown", now)
      PROVE  Fine
  <2>1. u \in Task /\ u.phase \in {"closed", "reconcile"}
    BY <1>3, <1>4, <1>5, <1>9 DEF ReconcileCodes
  <2>2. QED
    BY <1>9, <2>1 DEF Phases, Edges
<1>10. ASSUME t.phase \in {"bound", "terminal"}, FactStep(t, u, now)
       PROVE  Fine
  BY <1>10, FactStepType DEF Phases, Edges
<1>11. ASSUME t.phase \notin {"absent", "closed"}, NEW reason \in Reasons,
              u = CloseRecord(t, reason, now)
       PROVE  Fine
  <2>1. u \in Task /\ u.phase = "closed"
    BY <1>5, <1>11
  <2>2. QED
    BY <1>2, <1>11, <2>1 DEF Phases, Edges
<1>12. QED
  BY <1>1, <1>6, <1>7, <1>8, <1>9, <1>10, <1>11

-----------------------------------------------------------------------------
(* How much larger a step makes a record *)

\* A record with neither a call nor a fact.
Bare(u) ==
    /\ u.call = None /\ u.observation = None /\ u.terminal = NoFact /\ u.interrupt = None
    /\ u.unknown = NoUnknown

\* Which keys of a record a step leaves alone: each case writes at most four.
SameIdentity(t, u) == u.call = t.call /\ u.target = t.target
FactsStay(t, u) ==
    /\ u.observation = t.observation /\ u.terminal = t.terminal /\ u.interrupt = t.interrupt
    /\ u.unknown = t.unknown
SameEnd(t, u) == u.code = t.code /\ u.reason = t.reason
Rewrites(t, u) ==
    \/ SameIdentity(t, u) /\ SameEnd(t, u) /\ u.interrupt = t.interrupt /\ u.unknown = t.unknown
    \/ SameIdentity(t, u) /\ SameEnd(t, u) /\ u.observation = t.observation /\ u.unknown = t.unknown
    \/ /\ SameIdentity(t, u) /\ SameEnd(t, u) /\ u.phase = t.phase
       /\ u.observation = t.observation /\ u.terminal = t.terminal /\ u.interrupt = t.interrupt
    \/ u.target = t.target /\ SameEnd(t, u) /\ FactsStay(t, u)
    \/ u.call = None /\ u.target = t.target /\ FactsStay(t, u) /\ u.reason = t.reason
    \/ u.call = None /\ u.target = t.target /\ FactsStay(t, u) /\ u.code = t.code
    \/ Bare(u)

\* A step that replaces a record writes at most four keys of it, so it makes the record
\* larger by no more than that.
LEMMA RewriteGrows ==
    ASSUME NEW id \in TaskIds, NEW t \in Task, t.phase \in Phases, NEW u \in Task, u.phase \in Phases,
           u.expires \in {t.expires, NoTime}, Rewrites(t, u)
    PROVE  Size(id, u) <= Size(id, t) + 4 * LargestEntry
<1>1. LargestEntry \in Nat /\ KeysBounded(t) /\ KeysBounded(u)
  BY SizeParts
<1>2. Fixed(id, u) <= Fixed(id, t)
  BY SizeAssumption DEF Fixed
<1>3. /\ Fixed(id, t) \in Nat /\ Fixed(id, u) \in Nat
      /\ Identity(t) \in Nat /\ Facts(t) \in Nat /\ End(t) \in Nat /\ Unknown(t) \in Nat
      /\ Identity(u) \in Nat /\ Facts(u) \in Nat /\ End(u) \in Nat /\ Unknown(u) \in Nat
      /\ Size(id, t) = Fixed(id, t) + Identity(t) + Facts(t) + End(t) + Unknown(t)
      /\ Size(id, u) = Fixed(id, u) + Identity(u) + Facts(u) + End(u) + Unknown(u)
  BY SizeParts
<1>4. /\ SameIdentity(t, u) => Identity(u) <= Identity(t) + LargestEntry
      /\ SameIdentity(t, u) /\ u.phase = t.phase => Identity(u) = Identity(t)
      /\ u.target = t.target => Identity(u) <= Identity(t) + 2 * LargestEntry
      /\ u.call = None /\ u.target = t.target => Identity(u) <= Identity(t) + LargestEntry
      /\ u.call = None => Identity(u) <= 2 * LargestEntry
  <2>1. Entry("call", None) = 0
    BY DEF Entry
  <2>2. QED
    BY <1>1, <2>1 DEF Identity, SameIdentity, KeysBounded, Bounded
<1>5. /\ FactsStay(t, u) => Facts(u) = Facts(t)
      /\ u.interrupt = t.interrupt => Facts(u) <= Facts(t) + 3 * LargestEntry
      /\ u.observation = t.observation => Facts(u) <= Facts(t) + 3 * LargestEntry
      /\ u.observation = t.observation /\ u.terminal = t.terminal /\ u.interrupt = t.interrupt
            => Facts(u) = Facts(t)
  BY <1>1 DEF Facts, FactsStay, KeysBounded, Bounded
<1>6. /\ SameEnd(t, u) => End(u) = End(t)
      /\ u.reason = t.reason \/ u.code = t.code => End(u) <= End(t) + LargestEntry
      /\ End(u) <= 2 * LargestEntry
  BY <1>1 DEF End, SameEnd, KeysBounded, Bounded
<1>7. /\ u.unknown = t.unknown => Unknown(u) = Unknown(t)
      /\ Unknown(u) <= Unknown(t) + 4 * LargestEntry
  <2>1. u.unknown = t.unknown => Unknown(u) = Unknown(t)
    BY DEF Unknown, Receipt, Receipts
  <2>2. Unknown(u) <= Unknown(t) + 4 * LargestEntry
    BY <1>1 DEF Unknown, KeysBounded, Bounded
  <2>3. QED
    BY <2>1, <2>2
<1>8. Bare(u) => Facts(u) = 0 /\ Unknown(u) = 0 /\ u.call = None
  <2> SUFFICES ASSUME Bare(u) PROVE Facts(u) = 0 /\ Unknown(u) = 0 /\ u.call = None
    OBVIOUS
  <2>1. /\ u.call = None /\ Entry("platform_observation", u.observation) = 0
        /\ Entry("terminal_source", u.terminal.source) = 0
        /\ Entry("terminal_status", u.terminal.status) = 0 /\ Entry("interrupt_fact", u.interrupt) = 0
    BY DEF Bare, Entry, NoFact
  <2>2. /\ Entry("unknown_facts", Receipts(u)) = 0
        /\ Entry("delivery", Receipt(u, "delivery")) = 0
        /\ Entry("observation", Receipt(u, "observation")) = 0
        /\ Entry("interrupt", Receipt(u, "interrupt")) = 0
    BY DEF Bare, Entry, Receipt, Receipts, NoUnknown, UnknownCodes
  <2>3. QED
    BY <2>1, <2>2 DEF Facts, Unknown
<1>9. CASE Bare(u)
  BY <1>1, <1>2, <1>3, <1>4, <1>6, <1>8, <1>9
<1>10. CASE ~Bare(u)
  BY <1>1, <1>2, <1>3, <1>4, <1>5, <1>6, <1>7, <1>10 DEF Rewrites, FactsStay
<1>11. QED
  BY <1>9, <1>10

LEMMA RecordGrowth ==
    ASSUME NEW id \in TaskIds, NEW t \in Task, NEW u, RecordStep(t, u)
    PROVE  /\ Size(id, u) \in Nat /\ Size(id, t) \in Nat /\ LargestEntry \in Nat
           /\ Size(id, u) <= Size(id, t) + 4 * LargestEntry
<1> DEFINE Grown == u.expires \in {t.expires, NoTime} /\ Rewrites(t, u)
<1>1. u \in Task /\ u.phase \in Phases /\ t.phase \in Phases
  <2>1. u \in Task /\ u.phase \in Phases /\ t.phase # "absent"
    BY RecordStepType
  <2>2. QED
    BY <2>1 DEF Task
<1>2. PICK now \in Time : RecordStep(t, u)!(now)
  BY DEF RecordStep
<1> DEFINE c == CommonFields(t)
<1>3. c \in Task /\ Bare(c) /\ c.expires = NoTime /\ c.phase = "absent"
  <2>1. c \in Task
    BY CommonFieldsType
  <2>2. QED
    BY <2>1 DEF CommonFields, Absent, Bare
<1> HIDE DEF c
<1>4. ASSUME NEW call \in CallIds, u = [t EXCEPT !.phase = "claimed", !.call = call, !.updated = now]
      PROVE  Grown
  BY <1>4 DEF Task, Rewrites, FactsStay, SameEnd
<1>5. ASSUME NEW target \in Targets,
             u = [c EXCEPT !.phase = "bound", !.updated = now, !.target = target]
      PROVE  Grown
  BY <1>3, <1>5 DEF Task, Rewrites, Bare
<1>6. ASSUME NEW code \in ReconcileCodes, Warrants(t, code), u = EnterReconcile(t, code, now)
      PROVE  Grown
  <2>1. u = [t EXCEPT !.phase = "reconcile", !.updated = now, !.code = code,
                      !.expires = NoTime, !.call = None]
    BY <1>6 DEF EnterReconcile, Warrants
  <2>2. QED
    BY <2>1 DEF Task, Rewrites, FactsStay
<1>7. ASSUME \/ u = CloseRecord(c, DispatchFailed, now)
             \/ u = EnterReconcile(c, "dispatch_result_unknown", now)
      PROVE  Grown
  BY <1>3, <1>7 DEF Task, CloseRecord, EnterReconcile, Rewrites, Bare
<1>8. ASSUME FactStep(t, u, now) PROVE Grown
  <2>1. ASSUME NEW s, u = [t EXCEPT !.observation = s, !.updated = now] PROVE Grown
    BY <2>1 DEF Task, Rewrites, SameIdentity, SameEnd
  <2>2. ASSUME NEW s, NEW f, u = [t EXCEPT !.observation = s, !.updated = now,
                                           !.phase = "terminal", !.terminal = f]
        PROVE  Grown
    BY <2>2 DEF Task, Rewrites, SameIdentity, SameEnd
  <2>3. ASSUME NEW f, u = [t EXCEPT !.phase = "terminal", !.terminal = f, !.updated = now]
        PROVE  Grown
    BY <2>3 DEF Task, Rewrites, SameIdentity, SameEnd
  <2>4. ASSUME NEW r, u = [t EXCEPT !.interrupt = r, !.updated = now] PROVE Grown
    BY <2>4 DEF Task, Rewrites, SameIdentity, SameEnd
  <2>5. ASSUME NEW r, NEW f, u = [t EXCEPT !.interrupt = r, !.updated = now,
                                           !.phase = "terminal", !.terminal = f]
        PROVE  Grown
    BY <2>5 DEF Task, Rewrites, SameIdentity, SameEnd
  <2>6. ASSUME NEW x \in UnknownCodes, u = [t EXCEPT !.unknown[x] = now, !.updated = now]
        PROVE  Grown
    BY <2>6 DEF Task, Rewrites, SameIdentity, SameEnd
  <2>7. QED
    BY <1>8, <2>1, <2>2, <2>3, <2>4, <2>5, <2>6 DEF FactStep
<1>9. ASSUME NEW reason \in Reasons, u = CloseRecord(t, reason, now) PROVE Grown
  BY <1>9 DEF Task, CloseRecord, Rewrites, FactsStay
<1>10. Grown
  BY <1>2, <1>4, <1>5, <1>6, <1>7, <1>8, <1>9 DEF c
<1>11. QED
  BY <1>1, <1>10, SizeParts, RewriteGrows

\* A ledger in which one record is replaced differs in size by what that record does.
LEMMA ReplacedBytes ==
    ASSUME NEW tt \in Ledger, NEW uu \in Ledger, NEW id \in Present(tt),
           Present(uu) = Present(tt), \A i \in TaskIds : i # id => uu[i] = tt[i]
    PROVE  /\ Bytes(tt) \in Nat /\ Bytes(uu) \in Nat
           /\ Size(id, tt[id]) \in Nat /\ Size(id, uu[id]) \in Nat
           /\ Bytes(uu) + Size(id, tt[id]) <= Bytes(tt) + Size(id, uu[id])
<1> DEFINE P == Present(tt)
           R == Present(tt) \ {id}
<1>1. P \in SUBSET TaskIds /\ R \in SUBSET TaskIds /\ id \in P /\ id \in TaskIds
  BY DEF Present
<1>2. /\ Weight(tt) \in Weights /\ Weight(uu) \in Weights
      /\ Bytes(tt) = Total(Weight(tt), P) /\ Bytes(uu) = Total(Weight(uu), P)
  BY WeightType, BytesTotal
<1>3. Weight(tt)[id] = Size(id, tt[id]) /\ Weight(uu)[id] = Size(id, uu[id])
  BY <1>1 DEF Weight
<1>4. \A i \in R : Weight(uu)[i] <= Weight(tt)[i]
  <2>1. \A i \in R : Weight(uu)[i] = Weight(tt)[i] /\ Weight(tt)[i] \in Nat
    BY <1>1, <1>2 DEF Weight, Weights
  <2>2. QED
    BY <2>1
<1> HIDE DEF P
<1>5. /\ Total(Weight(tt), P) = Weight(tt)[id] + Total(Weight(tt), R)
      /\ Total(Weight(uu), P) = Weight(uu)[id] + Total(Weight(uu), R)
  BY <1>1, <1>2, TotalTake DEF P
<1> HIDE DEF R
<1>6. Total(Weight(uu), R) <= Total(Weight(tt), R)
  <2>1. R \in SUBSET R
    OBVIOUS
  <2>2. QED
    BY <1>1, <1>2, <1>4, <2>1, TotalLeq
<1>7. /\ Total(Weight(uu), R) \in Nat /\ Total(Weight(tt), R) \in Nat
      /\ Weight(uu)[id] \in Nat /\ Weight(tt)[id] \in Nat
  BY <1>1, <1>2, TotalNat DEF Weights
<1>8. QED
  BY <1>2, <1>3, <1>5, <1>6, <1>7

-----------------------------------------------------------------------------
(* How a step ends *)

LEMMA SoftBelowHard ==
    /\ SoftLimit \in Nat /\ HardLimit \in Nat /\ LargestEntry \in Nat
    /\ SoftLimit + 4 * LargestEntry <= HardLimit /\ SoftLimit <= HardLimit
BY LimitAssumption, SizeAssumption, GapAssumption

\* How a write that the validator let pass ends.
LEMMA Stored ==
    ASSUME NEW tt \in Ledger, NEW admission, Store(tt, admission), reply' # "invalid"
    PROVE  \/ /\ reply' = "done" /\ tasks' = tt
              /\ Cardinality(Present(tt)) <= MaxTasks
              /\ admission = "new_task" => Bytes(tt) <= SoftLimit
              /\ Bytes(tt) <= HardLimit
           \/ reply' = "clock" /\ tasks' = tasks
           \/ /\ reply' = "full" /\ tasks' = tasks
              /\ \/ Cardinality(Present(tt)) > MaxTasks
                 \/ admission = "new_task" /\ Bytes(tt) > SoftLimit
           \/ /\ reply' = "oversize" /\ tasks' = tasks
              /\ Bytes(tt) > HardLimit /\ (admission = "new_task" => Bytes(tt) <= SoftLimit)
<1> DEFINE crowded == \/ Cardinality(Present(tt)) > MaxTasks
                      \/ admission = "new_task" /\ Bytes(tt) > SoftLimit
           why == Rejection(tt, admission)
<1>1. why = "invalid" => reply' = "invalid"
  BY DEF Store, None
<1>2. WellFormed(tt)
  BY <1>1 DEF Rejection
<1>3. \/ why = "clock"
      \/ why = IF crowded THEN "full" ELSE IF Bytes(tt) > HardLimit THEN "oversize" ELSE None
  BY <1>2 DEF Rejection
<1>4. Cardinality(Present(tt)) \in Nat /\ Bytes(tt) \in Nat
  BY FewerNotLarger
<1>5. QED
  BY <1>3, <1>4, LimitAssumption DEF Store, None

\* The ledgers an operation offers the store when the retention is kept to.
Changed(id, u) == Prune([tasks EXCEPT ![id] = u], "existing")
Added(id, ref, now) == Prune([tasks EXCEPT ![id] = InitialTaskRecord(ref, now)], "new_task")

\* How a step ends: it leaves the ledger as it is, changes one record or adds one.
Keeps ==
    /\ tasks' = tasks
    /\ \/ reply' = reply
       \/ reply' \in Answers \cup {"clock"}
       \/ /\ reply' = "full"
          /\ \E id \in TaskIds, ref \in Refs, now \in Time :
                tasks[id].phase = "absent" /\ NewTaskExceedsCapacity(Added(id, ref, now))
       \/ /\ reply' = "oversize"
          /\ \/ Bytes(tasks) > HardLimit
             \/ \E id \in TaskIds : \E u : RecordStep(tasks[id], u) /\ Bytes(Changed(id, u)) > HardLimit
Changes == \E id \in TaskIds : \E u :
    /\ RecordStep(tasks[id], u) /\ tasks' = Changed(id, u) /\ reply' = "done"
    /\ Bytes(tasks') <= HardLimit
Adds == \E id \in TaskIds, ref \in Refs, now \in Time :
    /\ tasks[id].phase = "absent" /\ tasks' = Added(id, ref, now) /\ reply' = "done"
    /\ Bytes(tasks') <= HardLimit

\* A ledger with one record replaced, and with one more.
LEMMA ChangedLedger ==
    ASSUME tasks \in Ledger, NEW id \in TaskIds, NEW u, RecordStep(tasks[id], u),
           NEW tt, tt = [tasks EXCEPT ![id] = u]
    PROVE  /\ u \in Task /\ u.phase \in Phases /\ id \in Open(tasks)
           /\ tt \in Ledger /\ tt[id] = u /\ \A i \in TaskIds : i # id => tt[i] = tasks[i]
           /\ Present(tt) = Present(tasks)
           /\ Closed(tt) = IF u.phase = "closed" THEN Closed(tasks) \cup {id} ELSE Closed(tasks)
<1>1. tasks[id] \in Task
  BY DEF Ledger
<1>2. u \in Task /\ u.phase \in Phases /\ tasks[id].phase \notin {"absent", "closed"}
  BY <1>1, RecordStepType
<1>3. tt \in Ledger /\ tt[id] = u /\ \A i \in TaskIds : i # id => tt[i] = tasks[i]
  BY <1>2 DEF Ledger
<1>4. "absent" \notin Phases
  BY DEF Phases
<1>5. QED
  BY <1>2, <1>3, <1>4 DEF Present, Closed, Open

LEMMA AddedLedger ==
    ASSUME tasks \in Ledger, NEW id \in TaskIds, tasks[id].phase = "absent", NEW ref \in Refs,
           NEW now \in Time, NEW tt, tt = [tasks EXCEPT ![id] = InitialTaskRecord(ref, now)]
    PROVE  /\ tt \in Ledger /\ tt[id].phase = "prepared"
           /\ \A i \in TaskIds : i # id => tt[i] = tasks[i]
           /\ id \notin Present(tasks) /\ Present(tt) = Present(tasks) \cup {id}
           /\ Closed(tt) = Closed(tasks)
<1> DEFINE u == InitialTaskRecord(ref, now)
<1>1. now \in Stamp /\ now + Expiry \in 0..(MaxTime + Expiry)
  BY LimitAssumption DEF Stamp, Time
<1>2. u = [Absent EXCEPT !.phase = "prepared", !.ref = ref, !.created = now,
                         !.updated = now, !.expires = now + Expiry]
  BY DEF InitialTaskRecord
<1> HIDE DEF u
<1>3. u \in Task /\ u.phase = "prepared"
  <2>1. Absent \in Task
    BY AbsentTask
  <2>2. QED
    BY <1>1, <1>2, <2>1 DEF Task, Phases
<1>4. tt \in Ledger /\ tt[id] = u /\ \A i \in TaskIds : i # id => tt[i] = tasks[i]
  BY <1>3 DEF Ledger, u
<1>5. QED
  BY <1>3, <1>4 DEF Present, Closed

LEMMA StepOutcome ==
    ASSUME Inv, RecordsValid, ClosedBounded, [Next]_vars
    PROVE  Keeps \/ Changes \/ Adds
<1>1. tasks \in Ledger /\ reply' # "invalid"
  BY StepInv, InvFacts DEF Inv, ValidatorNeverFires
<1>2. Pruned = tasks
  BY <1>1, NothingToEvict DEF Pruned, ClosedBounded
<1>3. /\ Cardinality(Present(tasks)) \in Nat /\ Cardinality(Present(tasks)) <= MaxTasks
      /\ \A tt \in Ledger : Cardinality(Present(tt)) \in Nat /\ Bytes(tt) \in Nat
  BY <1>1, FewerNotLarger DEF RecordsValid
<1>4. CASE UNCHANGED tasks /\ (UNCHANGED reply \/ reply' \in Answers)
  BY <1>4 DEF Keeps
<1>5. ASSUME Store(tasks, "existing") PROVE Keeps
  BY <1>1, <1>3, <1>5, Stored, LimitAssumption DEF Keeps, Answers
<1>6. ASSUME NEW id \in TaskIds, NEW u, RecordStep(tasks[id], u), Store(Changed(id, u), "existing")
      PROVE  Keeps \/ Changes
  <2> DEFINE tt == [tasks EXCEPT ![id] = u]
  <2>1. tt \in Ledger /\ Present(tt) = Present(tasks)
    BY <1>1, <1>6, ChangedLedger
  <2> HIDE DEF tt
  <2>2. Changed(id, u) = Prune(tt, "existing")
    BY DEF Changed, tt
  <2>3. /\ Changed(id, u) \in Ledger
        /\ \A i \in TaskIds : Changed(id, u)[i] = tt[i] \/ Changed(id, u)[i] = Absent
    BY <2>1, <2>2, PruneKeeps
  <2>4. Cardinality(Present(Changed(id, u))) <= MaxTasks
    BY <1>3, <2>1, <2>3, FewerNotLarger, LimitAssumption
  <2>5. QED
    BY <1>3, <1>6, <1>1, <2>3, <2>4, Stored, LimitAssumption DEF Keeps, Changes, Answers
<1>7. ASSUME NEW id \in TaskIds, NEW ref \in Refs, NEW now \in Time, tasks[id].phase = "absent",
             Store(Added(id, ref, now), "new_task")
      PROVE  Keeps \/ Adds
  <2>1. Added(id, ref, now) \in Ledger
    BY <1>1, <1>7, AddedLedger, PruneKeeps DEF Added
  <2>2. QED
    BY <1>1, <1>3, <1>7, <2>1, Stored, SoftBelowHard, LimitAssumption
    DEF Keeps, Adds, Answers, NewTaskExceedsCapacity
<1>8. ASSUME NEW id \in TaskIds, NEW u, RecordStep(tasks[id], u), u.phase # "closed",
             Store([tasks EXCEPT ![id] = u], "existing")
      PROVE  Keeps \/ Changes
  <2> DEFINE tt == [tasks EXCEPT ![id] = u]
  <2>1. tt \in Ledger /\ Closed(tt) = Closed(tasks)
    BY <1>1, <1>8, ChangedLedger
  <2>2. Prune(tt, "existing") = tt
    BY <2>1, NothingToEvict DEF ClosedBounded
  <2>3. QED
    BY <1>6, <1>8, <2>2 DEF Changed
<1>9. ASSUME NEW id \in TaskIds, NEW u, u = tasks[id] \/ RecordStep(tasks[id], u),
             \/ Store(Prune([tasks EXCEPT ![id] = u], "existing"), "existing")
             \/ u.phase # "closed" /\ Store([Pruned EXCEPT ![id] = u], "existing")
      PROVE  Keeps \/ Changes
  <2>1. CASE u = tasks[id]
    <3>1. [tasks EXCEPT ![id] = u] = tasks
      BY <1>1, <2>1 DEF Ledger
    <3>2. Prune([tasks EXCEPT ![id] = u], "existing") = tasks /\ [Pruned EXCEPT ![id] = u] = tasks
      BY <1>2, <3>1 DEF Pruned
    <3>3. QED
      BY <1>5, <1>9, <3>2
  <2>2. CASE RecordStep(tasks[id], u)
    BY <1>2, <1>6, <1>8, <1>9, <2>2 DEF Changed
  <2>3. QED
    BY <1>9, <2>1, <2>2
<1>10. Transaction
  BY StepEvolves DEF Evolution
<1>11. QED
  BY <1>2, <1>4, <1>5, <1>7, <1>9, <1>10 DEF Transaction, Added

-----------------------------------------------------------------------------
(* The number of closed records, and the refusal of a new task *)

\* A record just prepared has its contract, its capability and its phase.
LEMMA NewTaskSize ==
    ASSUME NEW id \in TaskIds, NEW ref \in Refs, NEW now \in Time
    PROVE  /\ NewBytes(id) \in Nat
           /\ Size(id, InitialTaskRecord(ref, now)) = NewBytes(id)
<1> DEFINE u == InitialTaskRecord(ref, now)
<1>1. /\ u.phase = "prepared" /\ u.expires = now + Expiry /\ u.call = None /\ u.target = None
      /\ u.observation = None /\ u.terminal = NoFact /\ u.interrupt = None /\ u.code = None
      /\ u.reason = None /\ u.unknown = NoUnknown
  BY DEF InitialTaskRecord, Absent
<1>2. now + Expiry # NoTime
  BY LimitAssumption DEF Time, NoTime
<1>3. Entry("phase", "prepared") \in Nat
  BY EntryRange DEF SizedKeys, SizedValues, Phases
<1> HIDE DEF u
<1>4. Size(id, u) = Fixed(id, u) + Entry("phase", "prepared")
  <2>1. /\ Entry("call", None) = 0 /\ Entry("target", None) = 0 /\ Entry("interrupt_fact", None) = 0
        /\ Entry("platform_observation", None) = 0 /\ Entry("terminal_source", NoFact.source) = 0
        /\ Entry("terminal_status", NoFact.status) = 0 /\ Entry("code", None) = 0
        /\ Entry("reason", None) = 0
    BY DEF Entry, NoFact
  <2>2. /\ Entry("unknown_facts", Receipts(u)) = 0
        /\ Entry("delivery", Receipt(u, "delivery")) = 0
        /\ Entry("observation", Receipt(u, "observation")) = 0
        /\ Entry("interrupt", Receipt(u, "interrupt")) = 0
    BY <1>1 DEF Entry, Receipt, Receipts, NoUnknown, UnknownCodes
  <2>3. ContractBytes[id] \in Nat /\ CapabilityBytes[id] \in Nat
    BY SizeAssumption
  <2>4. QED
    BY <1>1, <1>3, <2>1, <2>2, <2>3 DEF Size, Fixed
<1>5. ContractBytes[id] \in Nat /\ CapabilityBytes[id] \in Nat
  BY SizeAssumption
<1>6. QED
  BY <1>1, <1>2, <1>3, <1>4, <1>5 DEF Fixed, NewBytes, u

\* A new task that finds no room would find none among the open records alone.
LEMMA RefusedTight ==
    ASSUME tasks \in Ledger, NEW id \in TaskIds, NEW ref \in Refs, NEW now \in Time,
           tasks[id].phase = "absent", NewTaskExceedsCapacity(Added(id, ref, now))
    PROVE  \/ Cardinality(Open(tasks)) + 1 > MaxTasks
           \/ Bytes(Without(tasks, Closed(tasks))) + NewBytes(id) > SoftLimit
<1> DEFINE tt == [tasks EXCEPT ![id] = InitialTaskRecord(ref, now)]
           C == Closed(tasks)
           O == Open(tasks)
           aa == Without(tt, C)
           bb == Without(tasks, C)
<1>0. tt = [tasks EXCEPT ![id] = InitialTaskRecord(ref, now)]
  OBVIOUS
<1> HIDE DEF tt
<1>1. /\ tt \in Ledger /\ tt[id] = InitialTaskRecord(ref, now)
      /\ \A i \in TaskIds : i # id => tt[i] = tasks[i]
      /\ id \notin Present(tasks) /\ Present(tt) = Present(tasks) \cup {id}
      /\ Closed(tt) = C
  <2>0. tt[id] = InitialTaskRecord(ref, now)
    BY <1>0 DEF Ledger
  <2>1. tt \in Ledger
    BY <1>0, AddedLedger
  <2>2. tt[id].phase = "prepared"
    BY <1>0, AddedLedger
  <2>3. \A i \in TaskIds : i # id => tt[i] = tasks[i]
    BY <1>0, AddedLedger
  <2>4. id \notin Present(tasks) /\ Present(tt) = Present(tasks) \cup {id}
    BY <2>2, <2>3 DEF Present
  <2>5. Closed(tt) = Closed(tasks)
    BY <2>2, <2>3 DEF Closed
  <2>6. QED
    BY <2>0, <2>1, <2>3, <2>4, <2>5
<1>2. Added(id, ref, now) = Prune(tt, "new_task")
  BY <1>0 DEF Added
<1>3. Added(id, ref, now) = aa
  BY <1>1, <1>2, PressedAll DEF Prune
<1>4. C \in SUBSET TaskIds /\ O \in SUBSET TaskIds /\ id \notin O /\ id \notin C
  BY <1>1 DEF Closed, Open, Present
<1>5. /\ aa \in Ledger /\ bb \in Ledger
      /\ Present(aa) = O \cup {id} /\ Present(bb) = O
      /\ aa[id] = tt[id] /\ \A i \in O : aa[i] = bb[i]
  BY <1>1, <1>4, WithoutLedger DEF Open
<1> HIDE DEF C, O, aa, bb
<1>6. Cardinality(Present(aa)) = Cardinality(O) + 1
  BY <1>4, <1>5, Counted, FS_AddElement
<1>7. /\ Weight(aa) \in Weights /\ Weight(bb) \in Weights
      /\ Bytes(aa) = Total(Weight(aa), O \cup {id}) /\ Bytes(bb) = Total(Weight(bb), O)
  BY <1>5, WeightType, BytesTotal
<1>8. /\ Weight(aa)[id] = NewBytes(id)
      /\ \A i \in O : Weight(aa)[i] = Weight(bb)[i] /\ Weight(aa)[i] \in Nat
  <2>1. Weight(aa)[id] = Size(id, InitialTaskRecord(ref, now))
    BY <1>1, <1>5 DEF Weight
  <2>2. \A i \in O : Weight(aa)[i] = Weight(bb)[i] /\ Weight(aa)[i] \in Nat
    BY <1>4, <1>5, <1>7 DEF Weight, Weights
  <2>3. QED
    BY <2>1, <2>2, NewTaskSize
<1>9. Bytes(aa) = NewBytes(id) + Total(Weight(aa), O)
  <2>1. (O \cup {id}) \ {id} = O /\ O \cup {id} \in SUBSET TaskIds /\ id \in O \cup {id}
    BY <1>4
  <2>2. Total(Weight(aa), O \cup {id}) = Weight(aa)[id] + Total(Weight(aa), (O \cup {id}) \ {id})
    BY <1>7, <2>1, TotalTake
  <2>3. QED
    BY <1>7, <1>8, <2>1, <2>2
<1>10. Total(Weight(aa), O) <= Total(Weight(bb), O)
  <2>1. O \in SUBSET O /\ \A i \in O : Weight(aa)[i] <= Weight(bb)[i]
    BY <1>8
  <2>2. QED
    BY <1>4, <1>7, <2>1, TotalLeq
<1>11. /\ NewBytes(id) \in Nat
       /\ Total(Weight(aa), O) \in Nat /\ Total(Weight(bb), O) \in Nat
  BY <1>4, <1>7, TotalNat, NewTaskSize
<1>12. QED
  BY <1>3, <1>6, <1>7, <1>9, <1>10, <1>11, LimitAssumption DEF NewTaskExceedsCapacity, O, C, bb

\* A ledger one of whose records is changed grows by what that record grows by.
LEMMA ChangedSize ==
    ASSUME tasks \in Ledger, NEW id \in TaskIds, NEW u, RecordStep(tasks[id], u)
    PROVE  /\ Changed(id, u) \in Ledger
           /\ Bytes(tasks) \in Nat /\ Bytes(Changed(id, u)) \in Nat
           /\ Size(id, tasks[id]) \in Nat /\ Size(id, u) \in Nat
           /\ Bytes(Changed(id, u)) + Size(id, tasks[id]) <= Bytes(tasks) + Size(id, u)
           /\ Bytes(Changed(id, u)) <= Bytes(tasks) + 4 * LargestEntry
<1> DEFINE tt == [tasks EXCEPT ![id] = u]
           pp == Changed(id, u)
<1>1. /\ tt \in Ledger /\ tt[id] = u /\ \A i \in TaskIds : i # id => tt[i] = tasks[i]
      /\ Present(tt) = Present(tasks) /\ id \in Present(tasks)
  <2>1. u \in Task /\ id \in Open(tasks) /\ Present(tt) = Present(tasks)
    BY ChangedLedger
  <2>2. tt \in Ledger /\ tt[id] = u /\ \A i \in TaskIds : i # id => tt[i] = tasks[i]
    BY <2>1 DEF Ledger
  <2>3. QED
    BY <2>1, <2>2 DEF Open
<1>2. pp = Prune(tt, "existing")
  BY DEF Changed
<1> HIDE DEF tt
<1>3. pp \in Ledger /\ \A i \in TaskIds : pp[i] = tt[i] \/ pp[i] = Absent
  BY <1>1, <1>2, PruneKeeps
<1> HIDE DEF pp
<1>4. Bytes(pp) \in Nat /\ Bytes(tt) \in Nat /\ Bytes(pp) <= Bytes(tt)
  BY <1>1, <1>3, FewerNotLarger
<1>5. /\ Bytes(tasks) \in Nat /\ Size(id, tasks[id]) \in Nat /\ Size(id, u) \in Nat
      /\ Bytes(tt) + Size(id, tasks[id]) <= Bytes(tasks) + Size(id, u)
  BY <1>1, ReplacedBytes
<1>6. LargestEntry \in Nat /\ Size(id, u) <= Size(id, tasks[id]) + 4 * LargestEntry
  BY RecordGrowth DEF Ledger
<1>7. QED
  BY <1>3, <1>4, <1>5, <1>6 DEF pp

\* The inductive invariant.
RetentionInv ==
    /\ Inv /\ RecordsReadable /\ ClosedBounded
    /\ AdmissionTight /\ SizeRefusalAboveSoft

LEMMA RetentionOutcome ==
    ASSUME RetentionInv, [Next]_vars
    PROVE  /\ tasks \in Ledger
           /\ Keeps \/ Changes \/ Adds
BY StepOutcome, InvFacts DEF RetentionInv, RecordsReadable

LEMMA RetentionStep == RetentionInv /\ [Next]_vars => RetentionInv'
<1> SUFFICES ASSUME RetentionInv, [Next]_vars PROVE RetentionInv'
  OBVIOUS
<1>1. Inv' /\ RecordsValid'
  BY StepInv, ReadableStep DEF RetentionInv, RecordsReadable
<1>2. tasks \in Ledger /\ Bytes(tasks) \in Nat /\ Bytes(tasks) <= HardLimit
  BY RetentionOutcome, FewerNotLarger DEF RetentionInv, RecordsReadable
<1>3. CASE Keeps
  <2>1. ClosedBounded'
    BY <1>3 DEF Keeps, RetentionInv, ClosedBounded, Closed
  <2>2. ASSUME reply' = "full"
        PROVE  \/ Cardinality(Open(tasks)) + 1 > MaxTasks
               \/ \E id \in TaskIds \ Present(tasks) :
                     Bytes(Without(tasks, Closed(tasks))) + NewBytes(id) > SoftLimit
    <3>1. CASE reply' = reply
      BY <2>2, <3>1 DEF RetentionInv, AdmissionTight
    <3>2. CASE \E id \in TaskIds, ref \in Refs, now \in Time :
                  tasks[id].phase = "absent" /\ NewTaskExceedsCapacity(Added(id, ref, now))
      BY <1>2, <3>2, RefusedTight DEF Present
    <3>3. QED
      BY <1>3, <2>2, <3>1, <3>2 DEF Keeps, Answers
  <2>3. AdmissionTight'
    BY <1>3, <2>2 DEF Keeps, AdmissionTight
  <2>4. SizeRefusalAboveSoft'
    <3>1. CASE reply' = reply
      BY <1>3, <3>1 DEF Keeps, RetentionInv, SizeRefusalAboveSoft
    <3>2. ASSUME NEW id \in TaskIds, NEW u, RecordStep(tasks[id], u),
                 Bytes(Changed(id, u)) > HardLimit
          PROVE  Bytes(tasks) > SoftLimit
      BY <1>2, <3>2, ChangedSize, SoftBelowHard
    <3>3. ~(Bytes(tasks) > HardLimit)
      BY <1>2, SoftBelowHard
    <3>4. QED
      BY <1>3, <3>1, <3>2, <3>3 DEF Keeps, Answers, SizeRefusalAboveSoft
  <2>5. QED
    BY <1>1, <1>2, <1>3, <2>1, <2>3, <2>4 DEF RetentionInv, RecordsReadable, Keeps
<1>4. CASE Changes
  <2>0. PICK id \in TaskIds : \E u :
           /\ RecordStep(tasks[id], u) /\ tasks' = Changed(id, u) /\ reply' = "done"
           /\ Bytes(tasks') <= HardLimit
    BY <1>4 DEF Changes
  <2>1. PICK u : /\ RecordStep(tasks[id], u) /\ tasks' = Changed(id, u) /\ reply' = "done"
                 /\ Bytes(tasks') <= HardLimit
    BY <2>0
  <2>2. [tasks EXCEPT ![id] = u] \in Ledger
    BY <1>2, <2>1, ChangedLedger
  <2>3. Cardinality(Closed(tasks')) <= Retention
    BY <2>1, <2>2, PruneBounds DEF Changed
  <2>4. QED
    BY <1>1, <2>1, <2>3
    DEF RetentionInv, RecordsReadable, ClosedBounded, AdmissionTight, SizeRefusalAboveSoft, Closed
<1>5. CASE Adds
  <2>1. PICK id \in TaskIds, ref \in Refs, now \in Time :
            /\ tasks[id].phase = "absent" /\ tasks' = Added(id, ref, now) /\ reply' = "done"
            /\ Bytes(tasks') <= HardLimit
    BY <1>5 DEF Adds
  <2>2. [tasks EXCEPT ![id] = InitialTaskRecord(ref, now)] \in Ledger
    BY <1>2, <2>1, AddedLedger
  <2>3. Cardinality(Closed(tasks')) <= Retention
    BY <2>1, <2>2, PruneBounds DEF Added
  <2>4. QED
    BY <1>1, <2>1, <2>3
    DEF RetentionInv, RecordsReadable, ClosedBounded, AdmissionTight, SizeRefusalAboveSoft, Closed
<1>6. QED
  BY <1>3, <1>4, <1>5, RetentionOutcome

LEMMA RetentionInit == Init => RetentionInv
<1> SUFFICES ASSUME Init PROVE RetentionInv
  OBVIOUS
<1>1. Present(tasks) = {} /\ Closed(tasks) = {} /\ reply = "done"
  BY AbsentTask DEF Init, Present, Closed
<1>2. Inv
  BY InitInv
<1>3. RecordsValid /\ ClosedBounded
  BY <1>1, <1>2, FS_EmptySet, LimitAssumption DEF Inv, RecordsValid, ClosedBounded
<1>4. Bytes(tasks) <= HardLimit
  <2>1. tasks \in Ledger
    BY <1>2, InvFacts
  <2>2. Bytes(tasks) = 0
    BY <1>1, <2>1, BytesTotal, TotalEmpty
  <2>3. QED
    BY <2>2, LimitAssumption
<1>5. QED
  BY <1>1, <1>2, <1>3, <1>4 DEF RetentionInv, RecordsReadable, AdmissionTight, SizeRefusalAboveSoft

LEMMA RetentionInvariance == Spec => []RetentionInv
BY RetentionInit, RetentionStep, PTL DEF Spec

\* Every write leaves at most Retention closed records, whichever operation makes it.
THEOREM RetentionKept == Spec => []ClosedBounded
<1>1. RetentionInv => ClosedBounded
  BY DEF RetentionInv
<1>2. QED
  BY <1>1, RetentionInvariance, PTL

\* A new task is refused for capacity only when evicting every closed record would not
\* have made room for it.
THEOREM RefusalIsTight == Spec => []AdmissionTight
<1>1. RetentionInv => AdmissionTight
  BY DEF RetentionInv
<1>2. QED
  BY <1>1, RetentionInvariance, PTL

\* What was written can be read back: it has no more bytes than a reader takes, and the
\* validator accepts it.
THEOREM WrittenIsReadable == Spec => []RecordsReadable
<1>1. RetentionInv => RecordsReadable
  BY DEF RetentionInv
<1>2. QED
  BY <1>1, RetentionInvariance, PTL

\* A write is refused for its size only when the ledger is already over the limit above
\* which no task is admitted: the gap between the limits is larger than any one step.
THEOREM GrowthHasItsGap == Spec => []SizeRefusalAboveSoft
<1>1. RetentionInv => SizeRefusalAboveSoft
  BY DEF RetentionInv
<1>2. QED
  BY <1>1, RetentionInvariance, PTL

-----------------------------------------------------------------------------
(* The end of a task *)

\* What the store says to the close of an open task at a time not before its creation.
LEMMA CloseAccepted ==
    ASSUME RetentionInv,
           NEW id \in Open(tasks), NEW reason \in Reasons, NEW now \in Time,
           now >= tasks[id].created
    PROVE  LET closed == CloseRecord(tasks[id], reason, now)
               why == Rejection(Changed(id, closed), "existing")
           IN why = None \/ (why = "oversize" /\ Size(id, closed) > Size(id, tasks[id]))
<1> DEFINE t == tasks[id]
           u == CloseRecord(t, reason, now)
           tt == [tasks EXCEPT ![id] = u]
           pp == Changed(id, u)
<1>1. Inv /\ RecordsValid /\ Bytes(tasks) <= HardLimit
  BY DEF RetentionInv, RecordsReadable
<1>2. /\ tasks \in Ledger /\ WellFormed(tasks) /\ id \in TaskIds /\ id \in Present(tasks)
      /\ t \in Task /\ ShapeOK(t) /\ t.phase \notin {"absent", "closed"}
  BY <1>1, InvFacts DEF Open, Present, Closed
<1>3. Successor(t, u) /\ RecordStep(t, u)
  BY <1>2, CloseRecordSuccessor DEF RecordStep
<1>4. u.updated = now /\ u.created = t.created
  BY <1>2 DEF CloseRecord, Task
<1> HIDE DEF u
<1>5. tt \in Ledger /\ WellFormed(tt)
  <2>1. \A i \in TaskIds : tasks[i] = tasks[i] \/ tasks[i] = Absent
    OBVIOUS
  <2>2. QED
    BY <1>1, <1>2, <1>3, <2>1, SuccessorWellFormed
<1>6. tt[id] = u /\ \A i \in TaskIds : i # id => tt[i] = tasks[i]
  BY <1>2 DEF Ledger
<1>7. Present(tt) = Present(tasks)
  BY <1>2, <1>3, ChangedLedger
<1>8. pp = Prune(tt, "existing")
  BY DEF Changed
<1>9. /\ pp \in Ledger /\ Bytes(tasks) \in Nat /\ Bytes(pp) \in Nat
      /\ Size(id, t) \in Nat /\ Size(id, u) \in Nat
      /\ Bytes(pp) + Size(id, t) <= Bytes(tasks) + Size(id, u)
  BY <1>2, <1>3, ChangedSize
<1> HIDE DEF tt, pp
<1>10. \A i \in TaskIds : pp[i] = tt[i] \/ pp[i] = Absent
  BY <1>5, <1>8, PruneKeeps
<1>11. WellFormed(pp)
  BY <1>5, <1>9, <1>10, FewerWellFormed
<1>12. \A i \in Present(pp) : ClockOK(pp[i])
  <2> SUFFICES ASSUME NEW i \in Present(pp) PROVE ClockOK(pp[i])
    OBVIOUS
  <2>1. i \in TaskIds /\ pp[i] = tt[i] /\ i \in Present(tt)
    BY <1>10, AbsentTask DEF Present
  <2>2. CASE i = id
    BY <1>4, <1>6, <2>1, <2>2 DEF ClockOK
  <2>3. CASE i # id
    BY <1>1, <1>6, <1>7, <2>1, <2>3 DEF RecordsValid
  <2>4. QED
    BY <2>2, <2>3
<1>13. ~(Cardinality(Present(pp)) > MaxTasks)
  <2>1. /\ Cardinality(Present(pp)) \in Nat /\ Cardinality(Present(tt)) \in Nat
        /\ Cardinality(Present(pp)) <= Cardinality(Present(tt))
    BY <1>5, <1>9, <1>10, FewerNotLarger
  <2>2. QED
    BY <1>1, <1>7, <2>1, LimitAssumption DEF RecordsValid
<1>14. Rejection(pp, "existing") = IF Bytes(pp) > HardLimit THEN "oversize" ELSE None
  BY <1>11, <1>12, <1>13 DEF Rejection
<1>15. Bytes(pp) > HardLimit => Size(id, u) > Size(id, t)
  BY <1>1, <1>9, SoftBelowHard
<1>16. QED
  BY <1>14, <1>15 DEF pp, u

\* In every state the store accepts the close of an open task, unless the close makes the
\* task's own record larger and the ledger has no room for that.
THEOREM EveryTaskCanEnd == Spec => []CloseRefusedOnlyForGrowth
<1>1. RetentionInv => CloseRefusedOnlyForGrowth
  BY CloseAccepted DEF CloseRefusedOnlyForGrowth, Changed
<1>2. QED
  BY <1>1, RetentionInvariance, PTL

-----------------------------------------------------------------------------
(* What a step may do to the records *)

Advances == \A id \in TaskIds :
    \/ tasks'[id].phase = tasks[id].phase
    \/ <<tasks[id].phase, tasks'[id].phase>> \in Edges
    \/ tasks'[id] = Absent /\ Cardinality(Closed(tasks')) = Retention
OldestGo == \A i, j \in Closed(tasks) :
    tasks'[i] = Absent /\ tasks'[j] # Absent =>
        /\ tasks[i].closed <= tasks[j].closed
        /\ tasks[i].closed = tasks[j].closed => tasks[i].created <= tasks[j].created
Gone == {id \in Closed(tasks) : tasks'[id] = Absent}
FewestGo == Gone # {} =>
    \/ Cardinality(Closed(tasks')) = Retention
    \/ \E id \in Gone : NewTaskExceedsCapacity([tasks' EXCEPT ![id] = tasks[id]])

\* What the pruning of a ledger tt, in which the closed records of tasks are as they were,
\* does to those records.
LEMMA PruneTakesOldest ==
    ASSUME NEW tt \in Ledger, NEW admission \in {"existing", "new_task"},
           NEW i \in Closed(tt), NEW j \in Closed(tt),
           Prune(tt, admission)[i] = Absent, Prune(tt, admission)[j] # Absent
    PROVE  /\ tt[i].closed <= tt[j].closed
           /\ tt[i].closed = tt[j].closed => tt[i].created <= tt[j].created
<1>1. i \in TaskIds /\ j \in TaskIds /\ tt[i].phase = "closed"
  BY DEF Closed
<1>2. i \in Evicted(tt, admission) /\ j \notin Evicted(tt, admission)
  BY <1>1, AbsentTask DEF Prune, Without
<1>3. ~Older(tt, j, i) /\ i # j
  BY <1>2, OlderGoes, EvictedParts
<1>4. Older(tt, i, j)
  BY <1>1, <1>3, OlderIsOrder
<1>5. Stamp \subseteq Int
  BY LimitAssumption DEF Stamp, Time, NoTime
<1>6. \A x \in {i, j} : tt[x].closed \in Int /\ tt[x].created \in Int
  BY <1>1, <1>5 DEF Ledger, Task
<1>7. QED
  BY <1>4, <1>6 DEF Older

LEMMA EvictedGone ==
    ASSUME NEW tt \in Ledger, NEW admission, NEW i \in TaskIds
    PROVE  /\ i \in Evicted(tt, admission) => Prune(tt, admission)[i] = Absent
           /\ Prune(tt, admission)[i] # tt[i] => i \in Evicted(tt, admission)
           /\ Prune(tt, admission) \in Ledger
BY PruneKeeps DEF Prune, Without

LEMMA StillSafe ==
    ASSUME tasks \in Ledger, tasks' = tasks
    PROVE  Advances /\ OldestGo /\ FewestGo
<1>1. \A id \in Closed(tasks) : id \in TaskIds /\ tasks[id] # Absent
  BY AbsentTask DEF Closed
<1>2. QED
  BY <1>1 DEF Advances, OldestGo, FewestGo, Gone

LEMMA ChangeSafe ==
    ASSUME tasks \in Ledger, NEW id \in TaskIds, NEW u, RecordStep(tasks[id], u),
           tasks' = Changed(id, u)
    PROVE  Advances /\ OldestGo /\ FewestGo
<1> DEFINE tt == [tasks EXCEPT ![id] = u]
<1>1. u \in Task /\ u.phase \in Phases /\ id \in Open(tasks) /\ tt \in Ledger
  BY ChangedLedger
<1>2. tt[id] = u /\ \A i \in TaskIds : i # id => tt[i] = tasks[i]
  BY <1>1 DEF Ledger
<1>3. tasks' = Prune(tt, "existing")
  BY DEF Changed
<1> HIDE DEF tt
<1>4. \A i \in Closed(tasks) : i \in TaskIds /\ i # id /\ tt[i] = tasks[i] /\ i \in Closed(tt)
  BY <1>1, <1>2 DEF Closed, Open
<1>5. \A i \in TaskIds : tasks'[i] # tt[i] => i \in Evicted(tt, "existing")
  BY <1>1, <1>3, EvictedGone
<1>6. Evicted(tt, "existing") # {} => Cardinality(Closed(tasks')) = Retention
  BY <1>1, <1>3, ExcessExact, EvictedParts
<1>7. Advances
  <2> SUFFICES ASSUME NEW i \in TaskIds
               PROVE  \/ tasks'[i].phase = tasks[i].phase
                      \/ <<tasks[i].phase, tasks'[i].phase>> \in Edges
                      \/ tasks'[i] = Absent /\ Cardinality(Closed(tasks')) = Retention
    BY DEF Advances
  <2>1. CASE i \in Evicted(tt, "existing")
    BY <1>1, <1>3, <1>6, <2>1, EvictedGone
  <2>2. CASE i \notin Evicted(tt, "existing") /\ i # id
    BY <1>2, <1>5, <2>2
  <2>3. CASE i \notin Evicted(tt, "existing") /\ i = id
    <3>1. tasks'[id] = u /\ tasks[id] \in Task
      BY <1>2, <1>5, <2>3 DEF Ledger
    <3>2. QED
      BY <2>3, <3>1, RecordStepType
  <2>4. QED
    BY <2>1, <2>2, <2>3
<1>8. OldestGo
  <2> SUFFICES ASSUME NEW i \in Closed(tasks), NEW j \in Closed(tasks),
                      tasks'[i] = Absent, tasks'[j] # Absent
               PROVE  /\ tasks[i].closed <= tasks[j].closed
                      /\ tasks[i].closed = tasks[j].closed => tasks[i].created <= tasks[j].created
    BY DEF OldestGo
  <2>1. /\ tt[i].closed <= tt[j].closed
        /\ tt[i].closed = tt[j].closed => tt[i].created <= tt[j].created
    BY <1>1, <1>3, <1>4, PruneTakesOldest
  <2>2. QED
    BY <1>4, <2>1
<1>9. FewestGo
  <2>1. \A i \in Gone : i \in Evicted(tt, "existing")
    BY <1>4, <1>5, AbsentTask DEF Gone, Closed
  <2>2. QED
    BY <1>6, <2>1 DEF FewestGo
<1>10. QED
  BY <1>7, <1>8, <1>9

LEMMA AddSafe ==
    ASSUME tasks \in Ledger, NEW id \in TaskIds, tasks[id].phase = "absent", NEW ref \in Refs,
           NEW now \in Time, tasks' = Added(id, ref, now)
    PROVE  Advances /\ OldestGo /\ FewestGo
<1> DEFINE tt == [tasks EXCEPT ![id] = InitialTaskRecord(ref, now)]
           E == Evicted(tt, "new_task")
<1>1. tasks' = Prune(tt, "new_task")
  BY DEF Added
<1>2. tt = [tasks EXCEPT ![id] = InitialTaskRecord(ref, now)]
  OBVIOUS
<1> HIDE DEF tt
<1>3. tt \in Ledger
  BY <1>2, AddedLedger
<1>4. tt[id].phase = "prepared"
  BY <1>2, AddedLedger
<1>5. \A i \in TaskIds : i # id => tt[i] = tasks[i]
  BY <1>2, AddedLedger
<1>6. /\ \A i \in Closed(tasks) : i \in TaskIds /\ i # id /\ tt[i] = tasks[i] /\ i \in Closed(tt)
      /\ \A i \in Closed(tt) : i \in Closed(tasks)
  BY <1>4, <1>5 DEF Closed
<1>7. \A i \in TaskIds : /\ tasks'[i] # tt[i] => i \in E
                         /\ i \in E => tasks'[i] = Absent
  BY <1>1, <1>3, EvictedGone
<1>8. E \in SUBSET Closed(tt)
  BY EvictedParts
<1>9. Advances
  <2> SUFFICES ASSUME NEW i \in TaskIds
               PROVE  \/ tasks'[i].phase = tasks[i].phase
                      \/ <<tasks[i].phase, tasks'[i].phase>> \in Edges
                      \/ tasks'[i] = Absent /\ Cardinality(Closed(tasks')) = Retention
    BY DEF Advances
  <2>1. CASE i \in E
    <3>1. tasks[i].phase = "closed" /\ tasks'[i].phase = "absent"
      BY <1>6, <1>7, <1>8, <2>1, AbsentTask DEF Closed
    <3>2. QED
      BY <3>1 DEF Edges
  <2>2. CASE i \notin E /\ i # id
    BY <1>5, <1>7, <2>2
  <2>3. CASE i \notin E /\ i = id
    BY <1>4, <1>7, <2>3 DEF Edges
  <2>4. QED
    BY <2>1, <2>2, <2>3
<1>10. OldestGo
  <2> SUFFICES ASSUME NEW i \in Closed(tasks), NEW j \in Closed(tasks),
                      tasks'[i] = Absent, tasks'[j] # Absent
               PROVE  /\ tasks[i].closed <= tasks[j].closed
                      /\ tasks[i].closed = tasks[j].closed => tasks[i].created <= tasks[j].created
    BY DEF OldestGo
  <2>1. /\ tt[i].closed <= tt[j].closed
        /\ tt[i].closed = tt[j].closed => tt[i].created <= tt[j].created
    BY <1>1, <1>3, <1>6, PruneTakesOldest
  <2>2. QED
    BY <1>6, <2>1
<1>11. FewestGo
  <2> SUFFICES ASSUME Gone # {}, Cardinality(Closed(tasks')) # Retention
               PROVE  \E m \in Gone : NewTaskExceedsCapacity([tasks' EXCEPT ![m] = tasks[m]])
    BY DEF FewestGo
  <2>1. Gone = E
    BY <1>6, <1>7, <1>8, AbsentTask DEF Gone, Closed
  <2>2. PICK m \in E : NewTaskExceedsCapacity(Without(tt, E \ {m}))
    BY <1>1, <1>3, <2>1, PressedMinimal
  <2>3. [tasks' EXCEPT ![m] = tasks[m]] = Without(tt, E \ {m})
    <3>1. m \in TaskIds /\ tt[m] = tasks[m]
      BY <1>6, <1>8
    <3>2. tasks' = Without(tt, E)
      BY <1>1 DEF Prune
    <3> HIDE DEF E
    <3>3. QED
      BY <3>1, <3>2 DEF Without
  <2>4. QED
    BY <2>1, <2>2, <2>3
<1>12. QED
  BY <1>9, <1>10, <1>11

LEMMA StepSafe == RetentionInv /\ [Next]_vars => [Advances /\ OldestGo /\ FewestGo]_vars
BY RetentionOutcome, StillSafe, ChangeSafe, AddSafe DEF Keeps, Changes, Adds

\* A task only advances along the phase graph, and one that is still open leaves the
\* ledger only when the write that closes it fills the retention without it.
THEOREM PhasesOnlyAdvance == Spec => PhaseAdvances
<1>1. [Advances /\ OldestGo /\ FewestGo]_vars =>
          [\A id \in TaskIds :
             \/ tasks'[id].phase = tasks[id].phase
             \/ <<tasks[id].phase, tasks'[id].phase>> \in Edges
             \/ tasks'[id] = Absent /\ Cardinality(Closed(tasks')) = Retention]_vars
  BY DEF Advances
<1>2. QED
  BY <1>1, RetentionInvariance, StepSafe, PTL DEF Spec, PhaseAdvances

\* Eviction takes the oldest closed records, whatever the clock read when they closed.
THEOREM OldestAreEvicted == Spec => EvictionTakesOldest
<1>1. [Advances /\ OldestGo /\ FewestGo]_vars =>
          [\A i, j \in Closed(tasks) :
             tasks'[i] = Absent /\ tasks'[j] # Absent =>
                /\ tasks[i].closed <= tasks[j].closed
                /\ tasks[i].closed = tasks[j].closed => tasks[i].created <= tasks[j].created]_vars
  BY DEF OldestGo
<1>2. QED
  BY <1>1, RetentionInvariance, StepSafe, PTL DEF Spec, EvictionTakesOldest

\* Eviction takes no more than it must: the retention is used up, or one record fewer
\* would have left no room for the task that was admitted.
THEOREM FewestAreEvicted == Spec => EvictionIsMinimal
<1>1. [Advances /\ OldestGo /\ FewestGo]_vars =>
          [LET gone == {id \in Closed(tasks) : tasks'[id] = Absent} IN
           gone # {} =>
             \/ Cardinality(Closed(tasks')) = Retention
             \/ \E id \in gone : NewTaskExceedsCapacity([tasks' EXCEPT ![id] = tasks[id]])]_vars
  BY DEF FewestGo, Gone
<1>2. QED
  BY <1>1, RetentionInvariance, StepSafe, PTL DEF Spec, EvictionIsMinimal
=============================================================================
