---------------------------- MODULE DevDeployProofs ----------------------------
(***************************************************************************)
(* Proofs about DevDeploy: for any number of versions, runs, kills and     *)
(* failing calls, at any step, nothing an operator would need is lost,     *)
(* every report is true, a transaction ends with the live trees whole, and *)
(* only one that was interrupted in one of the Windows is ever refused its *)
(* recovery.                                                               *)
(***************************************************************************)
EXTENDS DevDeploy, TLAPS

Kinds == {"exact", "dirty", "torn", "absent", "dir"}
Trees == [of : Versions \cup {None}, kind : Kinds]
Facts == [target : Versions \cup {None}, previous : Versions \cup {None},
          stable : Trees, cache : [Versions -> Trees]]

TypeOK ==
    /\ tree \in [Places -> Trees] /\ manifest \in States \cup {"none", "bare"}
    /\ facts \in Facts
    /\ pc \in DeploySteps \cup RecoverySteps \cup {"idle"}
    /\ mode \in {"deploy", "resume", "rollback"}
    /\ report \in {"none", "killed", "deploy_succeeded", "deploy_failed",
                   "deploy_failed_rolled_back", "rollback_failed"}
    /\ runs \in Nat /\ kills \in Nat /\ raises \in Nat /\ damaged \in SUBSET Windows

\* Without a transaction the live trees are whole and nothing else is there.
Settled ==
    /\ tree[Stable] \in WholeTrees /\ NoSwitches
    /\ \A p \in InTransaction : ~Exists(p)
    /\ \A v \in Versions : tree[Cache(v)] \in WholeTrees \cup {NoTree}

\* What a transaction records of the deployment it replaces.
Recorded ==
    /\ facts.target \in Versions /\ facts.stable \in WholeTrees
    /\ \A v \in Versions : facts.cache[v] \in WholeTrees \cup {NoTree}
    /\ facts.cache[facts.target] = NoTree
    /\ facts.previous # None => facts.cache[facts.previous] = Bundle(facts.previous)
    /\ Names \subseteq OldNames \cup {facts.target}

KeptWhole == \A v \in Versions : tree[Kept(v)] = facts.cache[v]
KeptUsable == Exists(KeptDir) /\ KeptWhole
SnapshotWhole == tree[Snapshot] = facts.stable /\ KeptUsable
Under == Readable /\ ~Begun

\* The old deployment is live, or can be put together from the kept caches and the
\* snapshot or the stable tree.
Preserved == OldLive \/ (KeptWhole /\ (tree[Snapshot] = facts.stable \/ Standing))

\* The new deployment is live, but that the old stable tree may have been put back,
\* or be about to be.
Halfway ==
    /\ NewCaches /\ ~Exists(Backup)
    /\ tree[Stable] = Source \/ tree[Snapshot] = facts.stable \/ Standing

\* What an interruption leaves.
Restorable == Preserved \/ (Spent /\ Halfway)

\* What a run needs to recover without a refusal.
Recoverable ==
    /\ Readable
    /\ Begun => OldLive
    /\ ~Begun => KeptUsable /\ (Standing \/ FromBackup \/ FromSnapshot)

SnapshotSteps == {"record", "snapshot", "keep dir", "keep caches", "snapshot complete"}
InstalledSteps == {"installed", "check previous", "restore previous", "verify", "retain"}
LastSteps == {"release", "finish", "finishing"}
SwitchSteps == {"stage", "stage complete", "back up", "activate", "activated", "install"}
                  \cup InstalledSteps \cup LastSteps
SwungSteps == {"copy recovery", "drop stable", "swing"}

AtSnapshot ==
    /\ pc \in SnapshotSteps => OldLive /\ NoSwitches
    /\ pc \in SnapshotSteps => \A v \in Versions \ OldNames : ~Exists(Kept(v))
    /\ pc \in SnapshotSteps \ {"record"} => Begun
    /\ pc \in {"keep dir", "keep caches", "snapshot complete"} => tree[Snapshot] = facts.stable
    /\ pc \in {"keep caches", "snapshot complete"} => Exists(KeptDir)
    /\ pc = "snapshot complete" => KeptWhole

AtSwitch ==
    /\ pc \in SwitchSteps \ {"finishing"} => Under /\ SnapshotWhole
    /\ pc \in SwitchSteps => ~Exists(Recovery)
    /\ pc \in {"stage", "stage complete", "back up"} => Standing /\ ~Exists(Backup)
    /\ pc \in {"stage complete", "back up", "activate"} => tree[Staging] = Source
    /\ pc = "activate" => ~Exists(Stable)
    /\ pc \in {"activate", "activated", "install"} \cup InstalledSteps =>
          tree[Backup] = facts.stable
    /\ pc \in {"activated", "install"} \cup InstalledSteps \cup LastSteps =>
          tree[Stable] = Source /\ ~Exists(Staging)
    /\ pc = "restore previous" => facts.previous # None
    /\ pc \in {"verify", "retain"} /\ facts.previous # None => tree[PreviousPlace] = PreviousFact
    /\ pc = "retain" => tree[Cache(facts.target)] = Source
    /\ pc \in LastSteps => NewLive
    /\ pc \in {"finish", "finishing"} => ~Exists(Backup)

\* What the steps that put the stable tree back rest on.
Swung ==
    /\ tree[Snapshot] = facts.stable /\ Under
    /\ KeptWhole \/ (Spent /\ NewCaches /\ ~Exists(Backup))
    /\ damaged = {} => KeptUsable

AtRecovery ==
    /\ pc \in SwungSteps => Swung
    /\ pc = "copy recovery" => ~Exists(Backup)
    /\ pc \in {"drop stable", "swing"} =>
          tree[IF Exists(Backup) THEN Backup ELSE Recovery] = facts.stable
    /\ pc \in {"drop old backup", "check caches"} => Standing /\ Under
    /\ pc = "drop old backup" => Exists(Backup)
    /\ pc \in {"drop caches", "copy caches"} => Standing /\ KeptUsable /\ Under
    /\ pc = "copy caches" => Names \subseteq OldNames
    /\ pc \in {"clean", "discard"} => OldLive
    /\ pc = "discard" => NoSwitches

AtRest ==
    pc \in RecoverySteps \cup {"idle"} /\ manifest # "none" =>
       /\ Restorable
       /\ damaged = {} /\ pc \notin Windows => Recoverable

Phase ==
    /\ pc \in (DeploySteps \ {"admit"}) \cup RecoverySteps => manifest # "none"
    /\ pc = "admit" => manifest = "none"
    /\ pc \in DeploySteps <=> mode = "deploy" /\ pc # "idle"
    /\ pc # "idle" => report = "none"

Inv ==
    /\ TypeOK /\ Phase
    /\ manifest = "none" => Settled /\ damaged = {}
    /\ manifest # "none" => Recorded
    /\ AtSnapshot /\ AtSwitch /\ AtRecovery /\ AtRest
    /\ ReportIsTrue

-----------------------------------------------------------------------------
(* Places and trees *)

Named == {Stable, Staging, Backup, Recovery, Snapshot, KeptDir}

\* The places are places, and no two of them are the same.
LEMMA PlacesApart ==
    /\ Named \subseteq Places
    /\ Stable \notin {Staging, Backup, Recovery, Snapshot, KeptDir}
    /\ Staging \notin {Backup, Recovery, Snapshot, KeptDir}
    /\ Backup \notin {Recovery, Snapshot, KeptDir}
    /\ Recovery \notin {Snapshot, KeptDir} /\ Snapshot # KeptDir
    /\ \A v \in Versions : /\ Kept(v) \in Places \ Named /\ Cache(v) \in Places \ Named
                           /\ \A u \in Versions : /\ Kept(u) # Cache(v)
                                                  /\ Kept(u) = Kept(v) => u = v
                                                  /\ Cache(u) = Cache(v) => u = v
<1> USE VersionAssumption DEF Places, Named, Switches, InTransaction, Stable, Staging, Backup,
       Recovery, Snapshot, KeptDir, Kept, Cache, Place
<1>1. Named \subseteq Places
  OBVIOUS
<1>2. \A v \in Versions : Kept(v) \in Places /\ Cache(v) \in Places
  OBVIOUS
<1>3. \A v \in Versions : Kept(v) \notin Named /\ Cache(v) \notin Named
  OBVIOUS
<1>4. QED
  BY <1>1, <1>2, <1>3

LEMMA TreeFacts ==
    /\ NoTree \in Trees /\ EmptyDir \in Trees /\ EmptyDir # NoTree /\ NoTree \notin WholeTrees
    /\ WholeTrees \subseteq Trees
    /\ \A v \in Versions : Bundle(v) \in WholeTrees
    /\ \A v \in Versions \cup {None} : Bundle(v) \in Trees /\ Bundle(v) # NoTree
    /\ \A t \in Trees : Torn(t) \in Trees /\ Torn(t) # NoTree
BY VersionAssumption DEF NoTree, EmptyDir, Trees, Kinds, WholeTrees, Bundle, Tree, Torn

\* What a step on one tree leaves alone.
Only(p) == \A q \in Places \ {p} : tree'[q] = tree[q]

LEMMA CopyMoves ==
    ASSUME TypeOK, NEW p \in Places, NEW t \in Trees, NEW next, Copy(t, p, next)
    PROVE  /\ tree' \in [Places -> Trees] /\ Only(p)
           /\ \/ pc' = next /\ tree'[p] = t
              \/ pc' = pc /\ tree'[p] = Torn(t)
           /\ UNCHANGED <<manifest, facts, mode, report, runs, kills, raises, damaged>>
<1>1. Torn(t) \in Trees
  BY TreeFacts
<1>2. QED
  BY <1>1 DEF TypeOK, Copy, Goto, Only, bounds

LEMMA RemoveMoves ==
    ASSUME TypeOK, NEW p \in Places, NEW next, Remove(p, next)
    PROVE  /\ tree' \in [Places -> Trees] /\ Only(p)
           /\ \/ pc' = next /\ tree'[p] = NoTree
              \/ pc' = pc /\ tree'[p] = Torn(tree[p])
           /\ UNCHANGED <<manifest, facts, mode, report, runs, kills, raises, damaged>>
<1>1. Torn(tree[p]) \in Trees /\ NoTree \in Trees
  BY TreeFacts DEF TypeOK
<1>2. QED
  BY <1>1 DEF TypeOK, Remove, Goto, Only, bounds

LEMMA RenameMoves ==
    ASSUME TypeOK, NEW from \in Places, NEW to \in Places, from # to, NEW next,
           Rename(from, to, next)
    PROVE  /\ tree' \in [Places -> Trees]
           /\ tree'[to] = tree[from] /\ tree'[from] = NoTree /\ pc' = next
           /\ \A q \in Places \ {from, to} : tree'[q] = tree[q]
           /\ UNCHANGED <<manifest, facts, mode, report, runs, kills, raises, damaged>>
BY TreeFacts DEF TypeOK, Rename, Goto, bounds

-----------------------------------------------------------------------------
(* Sections of the invariant *)

\* Steps come in disjoint groups.
LEMMA Groups ==
    /\ DeploySteps = {"admit"} \cup SnapshotSteps \cup SwitchSteps
    /\ DeploySteps \cap RecoverySteps = {} /\ SnapshotSteps \cap SwitchSteps = {}
    /\ "idle" \notin DeploySteps \cup RecoverySteps /\ "admit" \notin SnapshotSteps \cup SwitchSteps
    /\ SwungSteps \subseteq RecoverySteps
BY DEF DeploySteps, SnapshotSteps, SwitchSteps, InstalledSteps, LastSteps, RecoverySteps, SwungSteps

\* What a group says of the others' steps is nothing.
LEMMA Elsewhere ==
    /\ pc' \notin SnapshotSteps => AtSnapshot'
    /\ pc' \notin SwitchSteps => AtSwitch'
    /\ pc' \notin RecoverySteps => AtRecovery'
    /\ pc' \notin RecoverySteps \cup {"idle"} => AtRest'
<1>1. pc' \notin SnapshotSteps => AtSnapshot'
  BY DEF AtSnapshot, SnapshotSteps
<1>2. pc' \notin SwitchSteps => AtSwitch'
  BY DEF AtSwitch, SwitchSteps, InstalledSteps, LastSteps
<1>3. pc' \notin RecoverySteps => AtRecovery'
  BY DEF AtRecovery, SwungSteps, RecoverySteps
<1>4. pc' \notin RecoverySteps \cup {"idle"} => AtRest'
  BY DEF AtRest
<1>5. QED
  BY <1>1, <1>2, <1>3, <1>4

\* No cache of an unrecorded version appears.
LEMMA RecordedKept ==
    ASSUME Recorded, UNCHANGED facts,
           \A v \in Versions : \/ tree'[Cache(v)] \in {tree[Cache(v)], NoTree}
                               \/ Exists(Cache(v)) \/ v \in OldNames \/ v = facts.target
    PROVE  Recorded'
BY DEF Recorded, Names, OldNames, Exists

LEMMA RecordedElsewhere ==
    ASSUME Recorded, UNCHANGED facts, NEW p \in Named, Only(p)
    PROVE  Recorded' /\ LiveCache' = LiveCache
<1>1. \A v \in Versions : tree'[Cache(v)] = tree[Cache(v)]
  BY PlacesApart DEF Only, Named
<1>2. QED
  BY <1>1, RecordedKept DEF LiveCache

\* A step of the deployment to a step of the deployment.
LEMMA DeployOn ==
    ASSUME Inv, pc \in DeploySteps \ {"admit"}, TypeOK', Recorded', manifest' # "none",
           UNCHANGED <<mode, report>>,
           \/ pc' \in SnapshotSteps /\ AtSnapshot'
           \/ pc' \in SwitchSteps /\ AtSwitch'
    PROVE  Inv'
<1>1. Phase'
  BY Groups DEF Inv, Phase
<1>2. AtSnapshot' /\ AtSwitch' /\ AtRecovery' /\ AtRest'
  BY Groups, Elsewhere
<1>3. ReportIsTrue'
  BY <1>1, Groups DEF ReportIsTrue, Phase
<1>4. QED
  BY <1>1, <1>2, <1>3 DEF Inv

\* A step of the recovery to a step of the recovery.
LEMMA RecoverOn ==
    ASSUME Inv, pc \in RecoverySteps, TypeOK', Recorded', manifest' # "none",
           UNCHANGED <<mode, report>>, pc' \in RecoverySteps, AtRecovery', AtRest'
    PROVE  Inv'
<1>1. Phase'
  BY Groups DEF Inv, Phase
<1>2. AtSnapshot' /\ AtSwitch'
  BY Groups, Elsewhere
<1>3. ReportIsTrue'
  BY <1>1, Groups DEF ReportIsTrue, Phase
<1>4. QED
  BY <1>1, <1>2, <1>3 DEF Inv

\* What the invariant says of a run that is under way.
LEMMA Underway ==
    ASSUME Inv, pc \in (DeploySteps \ {"admit"}) \cup RecoverySteps
    PROVE  /\ TypeOK /\ Recorded /\ manifest # "none" /\ report = "none"
           /\ AtSnapshot /\ AtSwitch /\ AtRecovery /\ AtRest
           /\ pc \in DeploySteps <=> mode = "deploy"
BY Groups DEF Inv, Phase

-----------------------------------------------------------------------------
(* The snapshot *)

LEMMA RecordStartSafe == Inv /\ RecordStart => Inv'
<1> SUFFICES ASSUME Inv, RecordStart PROVE Inv'
  OBVIOUS
<1>1. /\ pc = "record" /\ pc' = "snapshot" /\ manifest' = "snapshot_started"
      /\ UNCHANGED <<tree, facts, mode, report, runs, kills, raises, damaged>>
  BY DEF RecordStart, Record, Goto, bounds
<1>2. pc \in DeploySteps \ {"admit"} /\ pc' \in SnapshotSteps
  BY <1>1 DEF DeploySteps, SnapshotSteps
<1>3. TypeOK' /\ Recorded'
  BY <1>1, <1>2, Underway, RecordedKept DEF TypeOK, States, DeploySteps
<1>4. AtSnapshot'
  BY <1>1, <1>2, Underway DEF AtSnapshot, SnapshotSteps, Begun, OldLive, LiveCache,
     NoSwitches, Exists, OldNames
<1>5. QED
  BY <1>1, <1>2, <1>3, <1>4, DeployOn

LEMMA TakeSnapshotSafe == Inv /\ TakeSnapshot => Inv'
<1> SUFFICES ASSUME Inv, TakeSnapshot PROVE Inv'
  OBVIOUS
<1>1. Copy(tree[Stable], Snapshot, "keep dir") /\ pc = "snapshot"
  BY DEF TakeSnapshot
<1>2. pc \in DeploySteps \ {"admit"}
  BY <1>1 DEF DeploySteps
<1>3. /\ tree' \in [Places -> Trees] /\ Only(Snapshot) /\ Snapshot \in Named
      /\ \/ pc' = "keep dir" /\ tree'[Snapshot] = tree[Stable]
         \/ pc' = "snapshot"
      /\ UNCHANGED <<manifest, facts, mode, report, runs, kills, raises, damaged>>
  <2>1. Snapshot \in Places /\ tree[Stable] \in Trees /\ Snapshot \in Named
    BY <1>2, Underway, PlacesApart DEF TypeOK, Named
  <2>2. QED
    BY <1>1, <1>2, <2>1, CopyMoves, Underway
<1>4. TypeOK' /\ Recorded' /\ LiveCache' = LiveCache
  BY <1>2, <1>3, Underway, RecordedElsewhere DEF TypeOK, DeploySteps
<1>5. AtSnapshot'
  <2>1. \A p \in Named \ {Snapshot} : tree'[p] = tree[p]
    BY <1>3, PlacesApart DEF Only
  <2>2. \A v \in Versions : tree'[Kept(v)] = tree[Kept(v)]
    BY <1>3, PlacesApart DEF Only
  <2>3. QED
    BY <1>1, <1>2, <1>3, <1>4, <2>1, <2>2, Underway, PlacesApart DEF AtSnapshot, SnapshotSteps, Begun,
       OldLive, NoSwitches, Switches, Exists, OldNames, Named
<1>6. QED
  BY <1>2, <1>3, <1>4, <1>5, DeployOn, Underway DEF SnapshotSteps

LEMMA KeepDirectorySafe == Inv /\ KeepDirectory => Inv'
<1> SUFFICES ASSUME Inv, KeepDirectory PROVE Inv'
  OBVIOUS
<1>1. /\ pc = "keep dir" /\ pc' = "keep caches" /\ tree' = [tree EXCEPT ![KeptDir] = EmptyDir]
      /\ UNCHANGED <<manifest, facts, mode, report, runs, kills, raises, damaged>>
  BY DEF KeepDirectory, Goto, bounds
<1>2. pc \in DeploySteps \ {"admit"} /\ pc' \in SnapshotSteps
  BY <1>1 DEF DeploySteps, SnapshotSteps
<1>3. /\ tree' \in [Places -> Trees] /\ Only(KeptDir) /\ KeptDir \in Named
      /\ tree'[KeptDir] = EmptyDir
  BY <1>1, <1>2, Underway, PlacesApart, TreeFacts DEF TypeOK, Named, Only
<1>4. TypeOK' /\ Recorded' /\ LiveCache' = LiveCache
  BY <1>1, <1>2, <1>3, Underway, RecordedElsewhere DEF TypeOK, DeploySteps
<1>5. AtSnapshot'
  <2>1. \A p \in Named \ {KeptDir} : tree'[p] = tree[p]
    BY <1>3, PlacesApart DEF Only
  <2>2. \A v \in Versions : tree'[Kept(v)] = tree[Kept(v)]
    BY <1>3, PlacesApart DEF Only
  <2>3. QED
    BY <1>1, <1>2, <1>3, <1>4, <2>1, <2>2, Underway, PlacesApart, TreeFacts DEF AtSnapshot, SnapshotSteps,
       Begun, OldLive, NoSwitches, Switches, Exists, OldNames, Named
<1>6. QED
  BY <1>1, <1>2, <1>4, <1>5, DeployOn, Underway

LEMMA KeepCachesSafe == Inv /\ KeepCaches => Inv'
<1> SUFFICES ASSUME Inv, KeepCaches PROVE Inv'
  OBVIOUS
<1>1. pc = "keep caches" /\ pc \in DeploySteps \ {"admit"}
  BY DEF KeepCaches, DeploySteps
<1>2. CASE \E v \in Unkept : Copy(tree[Cache(v)], Kept(v), "keep caches")
  <2>1. PICK v \in Unkept : Copy(tree[Cache(v)], Kept(v), "keep caches")
    BY <1>2
  <2>2. v \in OldNames /\ v \in Versions /\ Kept(v) \in Places /\ tree[Cache(v)] \in Trees
    BY <1>1, Underway, PlacesApart DEF Unkept, OldNames, TypeOK
  <2>3. /\ tree' \in [Places -> Trees] /\ Only(Kept(v)) /\ pc' = "keep caches"
        /\ UNCHANGED <<manifest, facts, mode, report, runs, kills, raises, damaged>>
    BY <1>1, <2>1, <2>2, CopyMoves, Underway
  <2>4. /\ \A p \in Named : tree'[p] = tree[p]
        /\ \A u \in Versions : tree'[Cache(u)] = tree[Cache(u)]
        /\ \A u \in Versions \ OldNames : tree'[Kept(u)] = tree[Kept(u)]
    BY <2>2, <2>3, PlacesApart DEF Only
  <2>5. TypeOK' /\ Recorded' /\ LiveCache' = LiveCache
    BY <1>1, <2>3, <2>4, Underway, RecordedKept DEF TypeOK, DeploySteps, LiveCache
  <2>6. AtSnapshot'
    BY <1>1, <2>3, <2>4, <2>5, Underway DEF AtSnapshot, SnapshotSteps, Begun, OldLive, NoSwitches,
       Switches, Exists, OldNames, Named
  <2>7. QED
    BY <1>1, <2>3, <2>5, <2>6, DeployOn, Underway DEF SnapshotSteps
<1>3. CASE Unkept = {} /\ Check("snapshot complete")
  <2>1. /\ pc' = "snapshot complete"
        /\ UNCHANGED <<tree, manifest, facts, mode, report, runs, kills, raises, damaged>>
    BY <1>3 DEF Check, Goto, bounds
  <2>2. TypeOK' /\ Recorded'
    BY <1>1, <2>1, Underway, RecordedKept DEF TypeOK, DeploySteps
  <2>3. KeptWhole
    BY <1>1, <1>3, Underway DEF KeptWhole, Unkept, OldNames, AtSnapshot, SnapshotSteps, Exists
  <2>4. AtSnapshot'
    BY <1>1, <2>1, <2>3, Underway DEF AtSnapshot, SnapshotSteps, Begun, OldLive, LiveCache, NoSwitches,
       Exists, OldNames, KeptWhole
  <2>5. QED
    BY <1>1, <2>1, <2>2, <2>4, DeployOn, Underway DEF SnapshotSteps
<1>4. QED
  BY <1>2, <1>3 DEF KeepCaches

\* From here on the snapshot is whole and a step leaves it alone until the end.
LEMMA SnapshotStays ==
    ASSUME UNCHANGED <<manifest, facts>>,
           \A p \in Named \ {Stable, Staging, Backup, Recovery} : tree'[p] = tree[p],
           \A v \in Versions : tree'[Kept(v)] = tree[Kept(v)]
    PROVE  (Under => Under') /\ (SnapshotWhole => SnapshotWhole')
<1>1. {Snapshot, KeptDir} \subseteq Named \ {Stable, Staging, Backup, Recovery}
  BY PlacesApart DEF Named
<1>2. QED
  BY <1>1 DEF Under, Readable, Begun, SnapshotWhole, KeptUsable, KeptWhole, Exists

LEMMA RecordSnapshotSafe == Inv /\ RecordSnapshot => Inv'
<1> SUFFICES ASSUME Inv, RecordSnapshot PROVE Inv'
  OBVIOUS
<1>1. /\ pc = "snapshot complete" /\ pc' = "stage" /\ manifest' = "snapshot_complete"
      /\ UNCHANGED <<tree, facts, mode, report, runs, kills, raises, damaged>>
  BY DEF RecordSnapshot, Record, Goto, bounds
<1>2. pc \in DeploySteps \ {"admit"} /\ pc' \in SwitchSteps
  BY <1>1 DEF DeploySteps, SwitchSteps
<1>3. TypeOK' /\ Recorded'
  BY <1>1, <1>2, Underway, RecordedKept DEF TypeOK, States, DeploySteps
<1>4. AtSwitch'
  <2>1. OldLive /\ NoSwitches /\ SnapshotWhole
    BY <1>1, <1>2, Underway DEF AtSnapshot, SnapshotSteps, SnapshotWhole, KeptUsable
  <2>2. Under' /\ SnapshotWhole'
    BY <1>1, <2>1 DEF Under, Readable, Begun, States, SnapshotWhole, KeptUsable, KeptWhole, Exists
  <2>3. (Standing /\ ~Exists(Backup) /\ ~Exists(Recovery))'
    BY <1>1, <2>1 DEF OldLive, Standing, NoSwitches, Switches, Exists
  <2>4. QED
    BY <1>1, <2>2, <2>3 DEF AtSwitch, InstalledSteps, LastSteps
<1>5. QED
  BY <1>1, <1>2, <1>3, <1>4, DeployOn

-----------------------------------------------------------------------------
(* The switch *)

LEMMA StageSafe == Inv /\ Stage => Inv'
<1> SUFFICES ASSUME Inv, Stage PROVE Inv'
  OBVIOUS
<1>1. Copy(Source, Staging, "stage complete") /\ pc = "stage"
  BY DEF Stage
<1>2. pc \in DeploySteps \ {"admit"}
  BY <1>1 DEF DeploySteps
<1>3. /\ tree' \in [Places -> Trees] /\ Only(Staging) /\ Staging \in Named
      /\ \/ pc' = "stage complete" /\ tree'[Staging] = Source
         \/ pc' = "stage"
      /\ UNCHANGED <<manifest, facts, mode, report, runs, kills, raises, damaged>>
  <2>1. Staging \in Places /\ Source \in Trees /\ Staging \in Named
    BY <1>2, Underway, PlacesApart, TreeFacts DEF Recorded, Source, Named
  <2>2. QED
    BY <1>1, <1>2, <2>1, CopyMoves, Underway
<1>4. TypeOK' /\ Recorded'
  BY <1>2, <1>3, Underway, RecordedElsewhere DEF TypeOK, DeploySteps
<1>5. AtSwitch'
  <2>1. \A p \in Named \ {Staging} : tree'[p] = tree[p]
    BY <1>3, PlacesApart DEF Only
  <2>2. Under' /\ SnapshotWhole'
    <3>1. \A v \in Versions : tree'[Kept(v)] = tree[Kept(v)]
      BY <1>3, PlacesApart DEF Only
    <3>2. Under /\ SnapshotWhole
      BY <1>1, <1>2, Underway DEF AtSwitch, SwitchSteps
    <3>3. QED
      BY <1>3, <2>1, <3>1, <3>2, SnapshotStays
  <2>3. (Standing /\ ~Exists(Backup) /\ ~Exists(Recovery))'
    BY <1>1, <1>2, <1>3, <2>1, Underway, PlacesApart DEF AtSwitch, SwitchSteps, Standing, Exists, Named
  <2>4. QED
    BY <1>3, <2>2, <2>3 DEF AtSwitch, InstalledSteps, LastSteps, Source
<1>6. QED
  BY <1>2, <1>3, <1>4, <1>5, DeployOn, Underway DEF SwitchSteps

LEMMA RecordStageSafe == Inv /\ RecordStage => Inv'
<1> SUFFICES ASSUME Inv, RecordStage PROVE Inv'
  OBVIOUS
<1>1. /\ pc = "stage complete" /\ pc' = "back up" /\ manifest' = "stage_complete"
      /\ UNCHANGED <<tree, facts, mode, report, runs, kills, raises, damaged>>
  BY DEF RecordStage, Record, Goto, bounds
<1>2. pc \in DeploySteps \ {"admit"} /\ pc' \in SwitchSteps
  BY <1>1 DEF DeploySteps, SwitchSteps
<1>3. TypeOK' /\ Recorded'
  BY <1>1, <1>2, Underway, RecordedKept DEF TypeOK, States, DeploySteps
<1>4. AtSwitch'
  <2>1. Under' /\ SnapshotWhole'
    BY <1>1, <1>2, Underway DEF AtSwitch, SwitchSteps, Under, Readable, Begun, States, SnapshotWhole,
       KeptUsable, KeptWhole, Exists
  <2>2. (Standing /\ ~Exists(Backup) /\ ~Exists(Recovery) /\ tree[Staging] = Source)'
    BY <1>1, <1>2, Underway DEF AtSwitch, SwitchSteps, Standing, Exists, Source
  <2>3. QED
    BY <1>1, <2>1, <2>2 DEF AtSwitch, InstalledSteps, LastSteps
<1>5. QED
  BY <1>1, <1>2, <1>3, <1>4, DeployOn, Underway

LEMMA BackUpStableSafe == Inv /\ BackUpStable => Inv'
<1> SUFFICES ASSUME Inv, BackUpStable PROVE Inv'
  OBVIOUS
<1>1. Rename(Stable, Backup, "activate") /\ pc = "back up" /\ pc \in DeploySteps \ {"admit"}
  BY DEF BackUpStable, DeploySteps
<1>2. /\ tree' \in [Places -> Trees] /\ pc' = "activate"
      /\ tree'[Backup] = tree[Stable] /\ tree'[Stable] = NoTree
      /\ \A q \in Places \ {Stable, Backup} : tree'[q] = tree[q]
      /\ UNCHANGED <<manifest, facts, mode, report, runs, kills, raises, damaged>>
  BY <1>1, RenameMoves, Underway, PlacesApart DEF Named
<1>3. /\ \A p \in Named \ {Stable, Backup} : tree'[p] = tree[p]
      /\ \A v \in Versions : tree'[Kept(v)] = tree[Kept(v)] /\ tree'[Cache(v)] = tree[Cache(v)]
  BY <1>2, PlacesApart DEF Named
<1>4. TypeOK' /\ Recorded'
  BY <1>1, <1>2, <1>3, Underway, RecordedKept DEF TypeOK, DeploySteps
<1>5. AtSwitch'
  <2>1. Under' /\ SnapshotWhole'
    BY <1>1, <1>2, <1>3, Underway, SnapshotStays DEF AtSwitch, SwitchSteps
  <2>2. (tree[Backup] = facts.stable /\ ~Exists(Stable) /\ ~Exists(Recovery) /\ tree[Staging] = Source)'
    BY <1>1, <1>2, <1>3, Underway, PlacesApart DEF AtSwitch, SwitchSteps, Standing, Exists, Source, Named
  <2>3. QED
    BY <1>2, <2>1, <2>2 DEF AtSwitch, InstalledSteps, LastSteps
<1>6. QED
  BY <1>1, <1>2, <1>4, <1>5, DeployOn, Underway DEF SwitchSteps

LEMMA ActivateStableSafe == Inv /\ ActivateStable => Inv'
<1> SUFFICES ASSUME Inv, ActivateStable PROVE Inv'
  OBVIOUS
<1>1. Rename(Staging, Stable, "activated") /\ pc = "activate" /\ pc \in DeploySteps \ {"admit"}
  BY DEF ActivateStable, DeploySteps
<1>2. /\ tree' \in [Places -> Trees] /\ pc' = "activated"
      /\ tree'[Stable] = tree[Staging] /\ tree'[Staging] = NoTree
      /\ \A q \in Places \ {Stable, Staging} : tree'[q] = tree[q]
      /\ UNCHANGED <<manifest, facts, mode, report, runs, kills, raises, damaged>>
  BY <1>1, RenameMoves, Underway, PlacesApart DEF Named
<1>3. /\ \A p \in Named \ {Stable, Staging} : tree'[p] = tree[p]
      /\ \A v \in Versions : tree'[Kept(v)] = tree[Kept(v)] /\ tree'[Cache(v)] = tree[Cache(v)]
  BY <1>2, PlacesApart DEF Named
<1>4. TypeOK' /\ Recorded'
  BY <1>1, <1>2, <1>3, Underway, RecordedKept DEF TypeOK, DeploySteps
<1>5. AtSwitch'
  <2>1. Under' /\ SnapshotWhole'
    BY <1>1, <1>2, <1>3, Underway, SnapshotStays DEF AtSwitch, SwitchSteps
  <2>2. (/\ tree[Backup] = facts.stable /\ tree[Stable] = Source
         /\ ~Exists(Staging) /\ ~Exists(Recovery))'
    BY <1>1, <1>2, <1>3, Underway, PlacesApart DEF AtSwitch, SwitchSteps, Exists, Source, Named
  <2>3. QED
    BY <1>2, <2>1, <2>2 DEF AtSwitch, InstalledSteps, LastSteps
<1>6. QED
  BY <1>1, <1>2, <1>4, <1>5, DeployOn, Underway DEF SwitchSteps

LEMMA RecordActivationSafe == Inv /\ RecordActivation => Inv'
<1> SUFFICES ASSUME Inv, RecordActivation PROVE Inv'
  OBVIOUS
<1>1. /\ pc = "activated" /\ pc' = "install" /\ manifest' = "stable_activated"
      /\ UNCHANGED <<tree, facts, mode, report, runs, kills, raises, damaged>>
  BY DEF RecordActivation, Record, Goto, bounds
<1>2. pc \in DeploySteps \ {"admit"} /\ pc' \in SwitchSteps
  BY <1>1 DEF DeploySteps, SwitchSteps
<1>3. TypeOK' /\ Recorded'
  BY <1>1, <1>2, Underway, RecordedKept DEF TypeOK, States, DeploySteps
<1>4. AtSwitch'
  <2>1. Under' /\ SnapshotWhole'
    BY <1>1, <1>2, Underway DEF AtSwitch, SwitchSteps, Under, Readable, Begun, States, SnapshotWhole,
       KeptUsable, KeptWhole, Exists
  <2>2. (/\ tree[Backup] = facts.stable /\ tree[Stable] = Source
         /\ ~Exists(Staging) /\ ~Exists(Recovery))'
    BY <1>1, <1>2, Underway DEF AtSwitch, SwitchSteps, Exists, Source
  <2>3. QED
    BY <1>1, <2>1, <2>2 DEF AtSwitch, InstalledSteps, LastSteps
<1>5. QED
  BY <1>1, <1>2, <1>3, <1>4, DeployOn, Underway

\* `codex plugin add` touches the caches of the target and of recorded versions.
LEMMA InstallMoves ==
    ASSUME TypeOK, facts.target \in Versions, InstallPlugin
    PROVE  /\ tree' \in [Places -> Trees]
           /\ \A p \in Named : tree'[p] = tree[p]
           /\ \A v \in Versions : tree'[Kept(v)] = tree[Kept(v)]
           /\ \A v \in Versions : \/ tree'[Cache(v)] = tree[Cache(v)]
                                  \/ v \in OldNames \/ v = facts.target
<1>1. PICK t \in {NoTree, Bundle(facts.target), Torn(Bundle(facts.target))},
           gone \in SUBSET OldNames, spoilt \in SUBSET OldNames :
        tree' = [p \in Places |->
                   CASE p = Cache(facts.target) -> t
                     [] p.root = "cache" /\ p.name \in gone -> NoTree
                     [] p.root = "cache" /\ p.name \in spoilt \ gone -> Torn(tree[p])
                     [] OTHER -> tree[p]]
  BY DEF InstallPlugin
<1>2. t \in Trees /\ NoTree \in Trees /\ \A p \in Places : Torn(tree[p]) \in Trees /\ tree[p] \in Trees
  <2>1. t \in Trees
    BY <1>1, TreeFacts
  <2>2. QED
    BY <2>1, TreeFacts DEF TypeOK
<1>3. tree' \in [Places -> Trees]
  BY <1>1, <1>2
<1>4. \A p \in Named : p \in Places /\ p.root # "cache" /\ p # Cache(facts.target)
  BY PlacesApart DEF Named, Place, Stable, Staging, Backup, Recovery, Snapshot, KeptDir
<1>5. \A v \in Versions : /\ Kept(v) \in Places /\ Kept(v).root # "cache"
                          /\ Kept(v) # Cache(facts.target)
                          /\ Cache(v) \in Places /\ Cache(v).root = "cache" /\ Cache(v).name = v
  BY PlacesApart DEF Kept, Cache, Place
<1>6. \A v \in Versions : \/ tree'[Cache(v)] = tree[Cache(v)]
                          \/ v \in OldNames \/ v = facts.target
  BY <1>1, <1>5 DEF Cache, Place
<1>7. \A p \in Named : tree'[p] = tree[p]
  BY <1>1, <1>4
<1>8. \A v \in Versions : tree'[Kept(v)] = tree[Kept(v)]
  BY <1>1, <1>5
<1>9. QED
  BY <1>3, <1>6, <1>7, <1>8

LEMMA InstallPluginSafe == Inv /\ InstallPlugin => Inv'
<1> SUFFICES ASSUME Inv, InstallPlugin PROVE Inv'
  OBVIOUS
<1>1. /\ pc = "install" /\ pc' = "installed" /\ pc \in DeploySteps \ {"admit"}
      /\ UNCHANGED <<manifest, facts, mode, report, runs, kills, raises, damaged>>
  BY DEF InstallPlugin, Goto, bounds, DeploySteps
<1>2. /\ tree' \in [Places -> Trees]
      /\ \A p \in Named : tree'[p] = tree[p]
      /\ \A v \in Versions : tree'[Kept(v)] = tree[Kept(v)]
      /\ \A v \in Versions : \/ tree'[Cache(v)] = tree[Cache(v)]
                             \/ v \in OldNames \/ v = facts.target
  BY <1>1, Underway, InstallMoves DEF Recorded
<1>3. TypeOK' /\ Recorded'
  BY <1>1, <1>2, Underway, RecordedKept DEF TypeOK, DeploySteps
<1>4. AtSwitch'
  <2>1. Under' /\ SnapshotWhole'
    BY <1>1, <1>2, Underway, SnapshotStays DEF AtSwitch, SwitchSteps
  <2>2. (/\ tree[Backup] = facts.stable /\ tree[Stable] = Source
         /\ ~Exists(Staging) /\ ~Exists(Recovery))'
    BY <1>1, <1>2, Underway DEF AtSwitch, SwitchSteps, Exists, Source, Named
  <2>3. QED
    BY <1>1, <2>1, <2>2 DEF AtSwitch, InstalledSteps, LastSteps
<1>5. QED
  BY <1>1, <1>3, <1>4, DeployOn, Underway DEF SwitchSteps, InstalledSteps

-----------------------------------------------------------------------------
(* Turning back *)

\* The new caches, as far as a step that leaves the caches alone can tell.
LEMMA NewCachesStay ==
    ASSUME Recorded, NewCaches, UNCHANGED facts,
           \A v \in Versions : tree'[Cache(v)] = tree[Cache(v)]
    PROVE  NewCaches'
<1>1. Names' = Names
  BY DEF Names, Exists
<1>2. facts.target \in Versions
  BY DEF Recorded
<1>3. facts.previous # None => facts.previous \in Versions
  BY DEF NewCaches, Keep, Names
<1>4. QED
  BY <1>1, <1>2, <1>3 DEF NewCaches, Source, Keep, PreviousPlace, PreviousFact

\* Wherever a run is interrupted before it deletes its transaction, the old
\* deployment can be restored, and outside the windows the recovery will find how.
LEMMA Interrupted ==
    ASSUME Inv, pc \in (DeploySteps \ {"admit", "finishing"}) \cup RecoverySteps
    PROVE  Restorable /\ (damaged = {} /\ pc \notin Windows => Recoverable)
<1>1. CASE pc \in SnapshotSteps
  <2>1. OldLive /\ (pc # "record" => Begun)
    BY <1>1, Groups, Underway DEF AtSnapshot
  <2>2. QED
    BY <2>1 DEF Restorable, Preserved, Recoverable, Begun, Readable, States, Windows
<1>2. CASE pc \in SwitchSteps \ {"finishing"}
  <2>1. Under /\ SnapshotWhole /\ ~Exists(Recovery)
    BY <1>2, Groups, Underway DEF AtSwitch
  <2>2. pc # "release" => Standing \/ FromBackup \/ FromSnapshot
    <3>1. CASE pc \in {"stage", "stage complete", "back up"}
      BY <1>2, <3>1, Groups, Underway DEF AtSwitch
    <3>2. CASE pc = "activate"
      BY <1>2, <3>2, Groups, Underway, TreeFacts
      DEF AtSwitch, FromBackup, ToPutBack, Exists, Recorded
    <3>3. CASE pc \in {"activated", "install"} \cup InstalledSteps
      BY <1>2, <3>3, Groups, Underway, TreeFacts
      DEF AtSwitch, FromBackup, ToPutBack, Standing, Exists, Recorded
    <3>4. CASE pc \in {"finish"}
      BY <1>2, <2>1, <3>4, Groups, Underway, TreeFacts
      DEF AtSwitch, FromSnapshot, ToPutBack, Standing, Exists, Recorded, LastSteps, SnapshotWhole
    <3>5. QED
      BY <1>2, <3>1, <3>2, <3>3, <3>4 DEF SwitchSteps, LastSteps
  <2>3. QED
    BY <2>1, <2>2 DEF Restorable, Preserved, Recoverable, Under, SnapshotWhole, KeptUsable, Windows
<1>3. CASE pc \in RecoverySteps
  BY <1>3, Underway DEF AtRest
<1>4. QED
  BY <1>1, <1>2, <1>3, Groups

\* What an operator needs is there.
Held ==
    (OldStable /\ OldCaches) \/ (Spent /\ (NewLive \/ (OldStable /\ NewCaches)))

LEMMA RestorableIsHeld == (Restorable => Held) /\ (Restorable' => Held')
<1>1. (Preserved => OldStable /\ OldCaches) /\ (Halfway => NewLive \/ (OldStable /\ NewCaches))
  BY DEF Preserved, Halfway, NewLive, OldLive, LiveCache, KeptWhole, Standing, OldStable, OldCaches,
     OldNames
<1>2. /\ Preserved' => OldStable' /\ OldCaches'
      /\ Halfway' => NewLive' \/ (OldStable' /\ NewCaches')
  BY DEF Preserved, Halfway, NewLive, OldLive, LiveCache, KeptWhole, Standing, OldStable, OldCaches,
     OldNames
<1>3. QED
  BY <1>1, <1>2 DEF Restorable, Held

\* Restorable and Recoverable look at the transaction and at these places only.
LEMMA RestsOn ==
    ASSUME Recorded, UNCHANGED <<facts, manifest>>, damaged \subseteq damaged',
           \A p \in Named \ {Staging} : tree'[p] = tree[p],
           \A v \in Versions : tree'[Kept(v)] = tree[Kept(v)] /\ tree'[Cache(v)] = tree[Cache(v)]
    PROVE  (Restorable => Restorable') /\ (Recoverable => Recoverable')
<1>1. \A p \in {Stable, Backup, Recovery, Snapshot, KeptDir} : tree'[p] = tree[p]
  BY PlacesApart DEF Named
<1>2. OldLive' = OldLive /\ KeptWhole' = KeptWhole /\ Standing' = Standing
  BY <1>1 DEF OldLive, LiveCache, KeptWhole, Standing
<1>3. (Restorable => Restorable')
  <2>1. Preserved => Preserved'
    BY <1>1, <1>2 DEF Preserved
  <2>2. Halfway => Halfway'
    BY <1>1, <1>2, NewCachesStay DEF Halfway, Exists, Source
  <2>3. QED
    BY <2>1, <2>2 DEF Restorable, Spent
<1>4. FromBackup' = FromBackup /\ FromSnapshot' = FromSnapshot
  BY <1>1 DEF FromBackup, FromSnapshot, ToPutBack, Exists, Source
<1>5. QED
  BY <1>1, <1>2, <1>3, <1>4 DEF Recoverable, Readable, Begun, KeptUsable, Exists

\* A run that turns back.
LEMMA TurnsBack ==
    ASSUME TypeOK', Recorded', manifest' # "none", pc' = "recover", mode' # "deploy",
           report' = "none", Restorable', damaged' = {} => Recoverable'
    PROVE  Inv'
<1>1. pc' \notin DeploySteps \cup Windows /\ pc' # "idle" /\ pc' \in RecoverySteps
  BY DEF DeploySteps, Windows, RecoverySteps
<1>2. Phase'
  BY <1>1 DEF Phase
<1>3. AtSnapshot' /\ AtSwitch'
  BY <1>1, Elsewhere, Groups
<1>4. AtRecovery'
  BY DEF AtRecovery, SwungSteps
<1>5. AtRest' /\ ReportIsTrue'
  BY DEF AtRest, ReportIsTrue
<1>6. QED
  BY <1>2, <1>3, <1>4, <1>5 DEF Inv

\* A run that is over.
LEMMA Over ==
    ASSUME TypeOK', pc' = "idle", AtRest', ReportIsTrue',
           manifest' = "none" => Settled' /\ damaged' = {}, manifest' # "none" => Recorded'
    PROVE  Inv'
<1>1. pc' \notin DeploySteps \cup RecoverySteps
  BY DEF DeploySteps, RecoverySteps
<1>2. Phase'
  BY <1>1 DEF Phase, DeploySteps, RecoverySteps
<1>3. AtSnapshot' /\ AtSwitch' /\ AtRecovery'
  BY <1>1, Elsewhere, Groups
<1>4. QED
  BY <1>2, <1>3 DEF Inv

\* An exception of the deployment.
LEMMA FailSafe ==
    ASSUME Inv, pc \in DeploySteps \ {"admit", "finishing"}, pc \notin Windows, Fail
    PROVE  Inv'
<1>1. /\ pc' = "recover" /\ mode' = "rollback"
      /\ UNCHANGED <<tree, manifest, facts, report, runs, kills, raises, damaged>>
  BY Underway DEF Fail, bounds
<1>2. TypeOK' /\ Recorded'
  BY <1>1, Underway, RecordedKept DEF TypeOK, RecoverySteps
<1>3. Restorable' /\ (damaged' = {} => Recoverable')
  BY <1>1, Interrupted, RestsOn, Underway
<1>4. QED
  BY <1>1, <1>2, <1>3, Underway, TurnsBack

-----------------------------------------------------------------------------
(* The installed plugin *)

\* What holds between the install and the end.
Switched ==
    /\ Under /\ SnapshotWhole /\ tree[Stable] = Source
    /\ \A p \in {Staging, Recovery} : ~Exists(p)

LEMMA SwitchedSteps ==
    ASSUME Inv, pc \in InstalledSteps \cup {"release", "finish"}
    PROVE  Switched /\ pc \in DeploySteps \ {"admit"}
<1>1. pc \in SwitchSteps \ {"finishing"} /\ pc \in DeploySteps \ {"admit"}
  BY DEF SwitchSteps, LastSteps, InstalledSteps, DeploySteps
<1>2. AtSwitch
  BY <1>1, Underway
<1>3. tree[Stable] = Source /\ ~Exists(Staging)
  BY <1>2 DEF AtSwitch, LastSteps
<1>4. QED
  BY <1>1, <1>2, <1>3 DEF AtSwitch, Switched

LEMMA SwitchedStays ==
    ASSUME Switched, UNCHANGED <<manifest, facts>>,
           \A p \in Named \ {Backup} : tree'[p] = tree[p],
           \A v \in Versions : tree'[Kept(v)] = tree[Kept(v)]
    PROVE  Switched'
<1>1. Under' /\ SnapshotWhole'
  BY SnapshotStays DEF Switched
<1>2. {Stable, Staging, Recovery} \subseteq Named \ {Backup}
  BY PlacesApart DEF Named
<1>3. QED
  BY <1>1, <1>2 DEF Switched, Exists, Source

LEMMA AtInstalled ==
    ASSUME Switched', pc' \in InstalledSteps, tree'[Backup] = facts'.stable,
           pc' = "restore previous" => facts'.previous # None,
           pc' \in {"verify", "retain"} /\ facts'.previous # None =>
              (tree[PreviousPlace] = PreviousFact)',
           pc' = "retain" => (tree[Cache(facts.target)] = Source)'
    PROVE  AtSwitch' /\ pc' \in SwitchSteps
BY DEF AtSwitch, Switched, SwitchSteps, InstalledSteps, LastSteps

LEMMA RecordInstallSafe == Inv /\ RecordInstall => Inv'
<1> SUFFICES ASSUME Inv, RecordInstall PROVE Inv'
  OBVIOUS
<1>1. /\ pc = "installed" /\ pc \in InstalledSteps /\ manifest' = "native_install_returned"
      /\ UNCHANGED <<tree, facts, report, runs, kills, raises, damaged>>
      /\ \/ pc' = "check previous" /\ mode' = mode
         \/ pc' = "recover" /\ mode' = "rollback"
  BY DEF RecordInstall, bounds, InstalledSteps
<1>2. Switched /\ pc \in DeploySteps \ {"admit", "finishing"} /\ tree[Backup] = facts.stable
  BY <1>1, SwitchedSteps, Underway DEF AtSwitch
<1>3. TypeOK' /\ Recorded'
  BY <1>1, <1>2, Underway, RecordedKept DEF TypeOK, States, DeploySteps, RecoverySteps
<1>4. Switched' /\ ~Begun' /\ manifest' # "none"
  BY <1>1, <1>2 DEF Switched, Under, Readable, Begun, States, SnapshotWhole, KeptUsable, KeptWhole,
     Exists, Source
<1>5. CASE pc' = "check previous" /\ mode' = mode
  BY <1>1, <1>2, <1>3, <1>4, <1>5, AtInstalled, DeployOn DEF InstalledSteps
<1>6. CASE pc' = "recover" /\ mode' = "rollback"
  <2>1. Restorable'
    BY <1>4 DEF Switched, Restorable, Preserved, SnapshotWhole, KeptUsable
  <2>2. FromBackup' \/ Standing'
    BY <1>1, <1>2, Underway, TreeFacts
    DEF FromBackup, ToPutBack, Standing, Switched, Exists, Recorded, Source
  <2>3. Recoverable'
    BY <1>4, <2>2 DEF Recoverable, Switched, Under, SnapshotWhole
  <2>4. QED
    BY <1>1, <1>2, <1>3, <1>4, <1>6, <2>1, <2>3, TurnsBack, Underway
<1>7. QED
  BY <1>1, <1>5, <1>6

LEMMA CheckPreviousSafe == Inv /\ CheckPrevious => Inv'
<1> SUFFICES ASSUME Inv, CheckPrevious PROVE Inv'
  OBVIOUS
<1>1. pc = "check previous" /\ pc \in InstalledSteps /\ pc \notin Windows
  BY DEF CheckPrevious, InstalledSteps, Windows
<1>2. Switched /\ pc \in DeploySteps \ {"admit", "finishing"} /\ tree[Backup] = facts.stable
  BY <1>1, SwitchedSteps, Underway DEF AtSwitch
<1>3. CASE Fail
  BY <1>1, <1>2, <1>3, FailSafe
<1>4. CASE \/ facts.previous = None /\ Check("verify")
           \/ facts.previous # None /\ ~Exists(PreviousPlace) /\ Check("restore previous")
           \/ facts.previous # None /\ tree[PreviousPlace] = PreviousFact /\ Check("verify")
  <2>1. /\ pc' \in {"restore previous", "verify"}
        /\ UNCHANGED <<tree, manifest, facts, mode, report, runs, kills, raises, damaged>>
    BY <1>4 DEF Check, Goto, bounds
  <2>2. TypeOK' /\ Recorded'
    BY <1>2, <2>1, Underway, RecordedKept DEF TypeOK, DeploySteps
  <2>3. Switched' /\ (pc' = "restore previous" => facts'.previous # None)
    BY <1>2, <1>4, <2>1, SwitchedStays DEF Check, Goto
  <2>4. pc' = "verify" /\ facts.previous # None => tree[PreviousPlace] = PreviousFact
    BY <1>4 DEF Check, Goto
  <2>5. AtSwitch' /\ pc' \in SwitchSteps
    BY <1>2, <2>1, <2>3, <2>4, AtInstalled DEF InstalledSteps, PreviousPlace, PreviousFact
  <2>6. QED
    BY <1>2, <2>1, <2>2, <2>5, DeployOn, Underway
<1>5. QED
  BY <1>3, <1>4 DEF CheckPrevious

LEMMA RestorePreviousSafe == Inv /\ RestorePrevious => Inv'
<1> SUFFICES ASSUME Inv, RestorePrevious PROVE Inv'
  OBVIOUS
<1>1. /\ pc = "restore previous" /\ pc \in InstalledSteps
      /\ Copy(tree[Kept(facts.previous)], PreviousPlace, "verify")
  BY DEF RestorePrevious, InstalledSteps
<1>2. /\ Switched /\ pc \in DeploySteps \ {"admit", "finishing"} /\ tree[Backup] = facts.stable
      /\ facts.previous \in Versions
  BY <1>1, SwitchedSteps, Underway DEF AtSwitch, TypeOK, Facts
<1>3. tree[Kept(facts.previous)] \in Trees /\ PreviousPlace \in Places \ Named
  BY <1>2, PlacesApart, Underway DEF TypeOK, PreviousPlace
<1>4. /\ tree' \in [Places -> Trees] /\ Only(PreviousPlace)
      /\ \/ pc' = "verify" /\ tree'[PreviousPlace] = tree[Kept(facts.previous)]
         \/ pc' = "restore previous"
      /\ UNCHANGED <<manifest, facts, mode, report, runs, kills, raises, damaged>>
  BY <1>1, <1>2, <1>3, CopyMoves, Underway
<1>5. /\ \A p \in Named : tree'[p] = tree[p]
      /\ \A v \in Versions : tree'[Kept(v)] = tree[Kept(v)]
      /\ \A v \in Versions \ {facts.previous} : tree'[Cache(v)] = tree[Cache(v)]
  BY <1>2, <1>3, <1>4, PlacesApart DEF Only, PreviousPlace
<1>6. TypeOK' /\ Recorded'
  <2>1. facts.previous \in OldNames
    BY <1>2, Underway, TreeFacts, VersionAssumption DEF Recorded, OldNames
  <2>2. QED
    BY <1>2, <1>4, <1>5, <2>1, Underway, RecordedKept DEF TypeOK, DeploySteps
<1>7. Switched' /\ facts'.previous # None
  BY <1>2, <1>4, <1>5, SwitchedStays, VersionAssumption
<1>8. pc' = "verify" => (tree[PreviousPlace] = PreviousFact)'
  BY <1>2, <1>4 DEF Switched, SnapshotWhole, KeptUsable, KeptWhole, PreviousPlace, PreviousFact
<1>9. tree'[Backup] = facts'.stable
  BY <1>2, <1>4, <1>5 DEF Named
<1>10. AtSwitch' /\ pc' \in SwitchSteps
  BY <1>4, <1>7, <1>8, <1>9, AtInstalled DEF InstalledSteps
<1>11. QED
  BY <1>2, <1>4, <1>6, <1>10, DeployOn, Underway

LEMMA VerifySafe == Inv /\ Verify => Inv'
<1> SUFFICES ASSUME Inv, Verify PROVE Inv'
  OBVIOUS
<1>1. pc = "verify" /\ pc \in InstalledSteps /\ pc \notin Windows
  BY DEF Verify, InstalledSteps, Windows
<1>2. /\ Switched /\ pc \in DeploySteps \ {"admit", "finishing"} /\ tree[Backup] = facts.stable
      /\ facts.previous # None => tree[PreviousPlace] = PreviousFact
  BY <1>1, SwitchedSteps, Underway DEF AtSwitch
<1>3. CASE Fail
  BY <1>1, <1>2, <1>3, FailSafe
<1>4. CASE tree[Cache(facts.target)] = Source /\ Check("retain")
  <2>1. /\ pc' = "retain"
        /\ UNCHANGED <<tree, manifest, facts, mode, report, runs, kills, raises, damaged>>
    BY <1>4 DEF Check, Goto, bounds
  <2>2. TypeOK' /\ Recorded'
    BY <1>2, <2>1, Underway, RecordedKept DEF TypeOK, DeploySteps
  <2>3. Switched'
    BY <1>2, <2>1, SwitchedStays
  <2>4. AtSwitch' /\ pc' \in SwitchSteps
    BY <1>2, <1>4, <2>1, <2>3, AtInstalled DEF InstalledSteps, PreviousPlace, PreviousFact, Source
  <2>5. QED
    BY <1>2, <2>1, <2>2, <2>4, DeployOn, Underway
<1>5. QED
  BY <1>3, <1>4 DEF Verify

\* The new deployment, as far as a step that leaves its stable tree alone can tell.
LEMMA NewLiveStays ==
    ASSUME Recorded, NewLive, UNCHANGED facts, tree'[Stable] = tree[Stable],
           \A v \in Versions : tree'[Cache(v)] = tree[Cache(v)]
    PROVE  NewLive'
BY NewCachesStay DEF NewLive, Source

LEMMA RetainCachesSafe == Inv /\ RetainCaches => Inv'
<1> SUFFICES ASSUME Inv, RetainCaches PROVE Inv'
  OBVIOUS
<1>1. pc = "retain" /\ pc \in InstalledSteps
  BY DEF RetainCaches, InstalledSteps
<1>2. /\ Switched /\ pc \in DeploySteps \ {"admit", "finishing"} /\ tree[Backup] = facts.stable
      /\ facts.previous # None => tree[PreviousPlace] = PreviousFact
      /\ tree[Cache(facts.target)] = Source /\ facts.target \in Versions
  BY <1>1, SwitchedSteps, Underway DEF AtSwitch, Recorded
<1>3. CASE \E v \in Names \ Keep : Remove(Cache(v), "retain")
  <2>1. PICK v \in Names \ Keep : Remove(Cache(v), "retain")
    BY <1>3
  <2>2. v \in Versions /\ v # facts.target /\ v # facts.previous /\ Cache(v) \in Places \ Named
    BY <2>1, PlacesApart, VersionAssumption DEF Names, Keep
  <2>3. /\ tree' \in [Places -> Trees] /\ Only(Cache(v)) /\ pc' = "retain"
        /\ UNCHANGED <<manifest, facts, mode, report, runs, kills, raises, damaged>>
    BY <1>1, <1>2, <2>1, <2>2, RemoveMoves, Underway
  <2>4. /\ \A p \in Named : tree'[p] = tree[p]
        /\ \A u \in Versions : tree'[Kept(u)] = tree[Kept(u)]
        /\ \A u \in Versions \ {v} : tree'[Cache(u)] = tree[Cache(u)]
    BY <2>2, <2>3, PlacesApart DEF Only
  <2>5. TypeOK' /\ Recorded'
    BY <1>2, <2>1, <2>3, <2>4, Underway, RecordedKept DEF TypeOK, DeploySteps, Names
  <2>6. Switched' /\ tree'[Backup] = facts'.stable
    BY <1>2, <2>3, <2>4, SwitchedStays DEF Named
  <2>7. (tree[Cache(facts.target)] = Source)'
    BY <1>2, <2>2, <2>3, <2>4 DEF Source
  <2>8. facts'.previous # None => (tree[PreviousPlace] = PreviousFact)'
    BY <1>2, <2>2, <2>3, <2>4, Underway DEF PreviousPlace, PreviousFact, TypeOK, Facts
  <2>9. AtSwitch' /\ pc' \in SwitchSteps
    BY <2>3, <2>6, <2>7, <2>8, AtInstalled DEF InstalledSteps
  <2>10. QED
    BY <1>2, <2>3, <2>5, <2>9, DeployOn, Underway
<1>4. CASE Names = Keep /\ Check("release")
  <2>1. /\ pc' = "release"
        /\ UNCHANGED <<tree, manifest, facts, mode, report, runs, kills, raises, damaged>>
    BY <1>4 DEF Check, Goto, bounds
  <2>2. TypeOK' /\ Recorded'
    BY <1>2, <2>1, Underway, RecordedKept DEF TypeOK, DeploySteps
  <2>3. NewLive /\ NewLive'
    BY <1>2, <1>4, <2>1, NewLiveStays, Underway DEF NewLive, NewCaches, Switched
  <2>4. Switched'
    BY <1>2, <2>1, SwitchedStays
  <2>5. AtSwitch' /\ pc' \in SwitchSteps
    BY <2>1, <2>3, <2>4 DEF AtSwitch, SwitchSteps, Switched, LastSteps, InstalledSteps
  <2>6. QED
    BY <1>2, <2>1, <2>2, <2>5, DeployOn, Underway
<1>5. QED
  BY <1>3, <1>4 DEF RetainCaches

LEMMA ReleaseBackupSafe == Inv /\ ReleaseBackup => Inv'
<1> SUFFICES ASSUME Inv, ReleaseBackup PROVE Inv'
  OBVIOUS
<1>1. pc = "release" /\ Remove(Backup, "finish")
  BY DEF ReleaseBackup
<1>2. Switched /\ NewLive /\ pc \in DeploySteps \ {"admit", "finishing"}
  BY <1>1, SwitchedSteps, Underway DEF AtSwitch, LastSteps
<1>3. /\ tree' \in [Places -> Trees] /\ Only(Backup) /\ Backup \in Named
      /\ \/ pc' = "finish" /\ tree'[Backup] = NoTree
         \/ pc' = "release"
      /\ UNCHANGED <<manifest, facts, mode, report, runs, kills, raises, damaged>>
  BY <1>1, <1>2, PlacesApart, RemoveMoves, Underway DEF Named
<1>4. /\ \A p \in Named \ {Backup} : tree'[p] = tree[p]
      /\ \A v \in Versions : tree'[Kept(v)] = tree[Kept(v)] /\ tree'[Cache(v)] = tree[Cache(v)]
  BY <1>3, PlacesApart DEF Only
<1>5. TypeOK' /\ Recorded'
  BY <1>2, <1>3, Underway, RecordedElsewhere DEF TypeOK, DeploySteps
<1>6. NewLive' /\ Switched'
  BY <1>2, <1>3, <1>4, NewLiveStays, SwitchedStays, PlacesApart, Underway DEF Named
<1>7. AtSwitch' /\ pc' \in SwitchSteps
  BY <1>3, <1>6 DEF AtSwitch, SwitchSteps, Switched, LastSteps, InstalledSteps, Exists
<1>8. QED
  BY <1>2, <1>3, <1>5, <1>7, DeployOn, Underway

\* A step of the deletion of the transaction.
LEMMA RemoveEntryMoves ==
    ASSUME TypeOK, NEW next, RemoveEntry(next)
    PROVE  /\ tree' \in [Places -> Trees] /\ pc' = next /\ manifest' \in {manifest, "bare"}
           /\ manifest # "none" => manifest' # "none"
           /\ \A p \in {Stable, Staging, Backup, Recovery} : tree'[p] = tree[p]
           /\ \A v \in Versions : tree'[Cache(v)] = tree[Cache(v)]
           /\ UNCHANGED <<facts, mode, report, runs, kills, raises, damaged>>
<1>1. \A p \in InTransaction : /\ p \in Places /\ p \notin {Stable, Staging, Backup, Recovery}
                               /\ \A v \in Versions : p # Cache(v)
  BY PlacesApart DEF InTransaction, Named
<1>2. CASE \E p \in InTransaction : tree' = [tree EXCEPT ![p] = NoTree] /\ UNCHANGED manifest
  <2>1. PICK p \in InTransaction : tree' = [tree EXCEPT ![p] = NoTree] /\ UNCHANGED manifest
    BY <1>2
  <2>2. tree' \in [Places -> Trees] /\ Only(p)
    BY <1>1, <2>1, TreeFacts DEF TypeOK, Only
  <2>3. \A q \in {Stable, Staging, Backup, Recovery} : tree'[q] = tree[q]
    BY <1>1, <2>2, PlacesApart DEF Only, Named
  <2>4. \A v \in Versions : tree'[Cache(v)] = tree[Cache(v)]
    BY <1>1, <2>2, PlacesApart DEF Only
  <2>5. QED
    BY <2>1, <2>2, <2>3, <2>4 DEF RemoveEntry, Goto, bounds
<1>3. CASE manifest \in States /\ manifest' = "bare" /\ UNCHANGED tree
  BY <1>3 DEF RemoveEntry, Goto, bounds, TypeOK
<1>4. QED
  BY <1>2, <1>3 DEF RemoveEntry

\* What a live new deployment is once the transaction is gone.
LEMMA NewIsSettled ==
    ASSUME TypeOK, Recorded, NewLive, NoSwitches, \A p \in InTransaction : ~Exists(p)
    PROVE  Settled
<1>1. Source \in WholeTrees
  BY TreeFacts DEF Recorded, Source
<1>2. ASSUME NEW v \in Versions PROVE tree[Cache(v)] \in WholeTrees \cup {NoTree}
  <2>1. CASE v = facts.target
    BY <1>1, <2>1 DEF NewLive, NewCaches
  <2>2. CASE v = facts.previous
    <3>1. tree[Cache(v)] = facts.cache[v]
      BY <2>2, VersionAssumption DEF NewLive, NewCaches, PreviousPlace, PreviousFact
    <3>2. QED
      BY <3>1 DEF Recorded
  <2>3. CASE v \notin {facts.target, facts.previous}
    BY <2>3 DEF NewLive, NewCaches, Names, Keep, Exists
  <2>4. QED
    BY <2>1, <2>2, <2>3
<1>3. QED
  BY <1>1, <1>2 DEF Settled, NewLive

LEMMA LastStep ==
    ASSUME Inv, pc \in {"finish", "finishing"}
    PROVE  /\ NewLive /\ NoSwitches /\ pc \in DeploySteps \ {"admit"}
           /\ pc = "finish" => ~Emptied
<1>1. pc \in SwitchSteps /\ pc \in DeploySteps \ {"admit"}
  BY DEF SwitchSteps, LastSteps, DeploySteps
<1>2. AtSwitch /\ Recorded
  BY <1>1, Underway
<1>3. pc = "finish" => SnapshotWhole
  BY <1>2 DEF AtSwitch, SwitchSteps, LastSteps
<1>4. pc = "finish" => ~Emptied
  BY <1>2, <1>3, TreeFacts DEF SnapshotWhole, Emptied, InTransaction, Recorded, Exists
<1>5. NewLive /\ NoSwitches
  BY <1>1, <1>2 DEF AtSwitch, LastSteps, NoSwitches, Switches
<1>6. QED
  BY <1>1, <1>4, <1>5

LEMMA FinishSafe == Inv /\ Finish => Inv'
<1> SUFFICES ASSUME Inv, Finish PROVE Inv'
  OBVIOUS
<1>1. pc \in {"finish", "finishing"} /\ pc \in DeploySteps \ {"admit"} /\ NewLive /\ NoSwitches
  BY LastStep DEF Finish
<1>2. TypeOK /\ Recorded /\ manifest # "none"
  BY <1>1, Underway
<1>3. CASE RemoveEntry("finishing")
  <2>1. /\ tree' \in [Places -> Trees] /\ pc' = "finishing" /\ manifest' \in {manifest, "bare"}
        /\ manifest' # "none"
        /\ \A p \in {Stable, Staging, Backup, Recovery} : tree'[p] = tree[p]
        /\ \A v \in Versions : tree'[Cache(v)] = tree[Cache(v)]
        /\ UNCHANGED <<facts, mode, report, runs, kills, raises, damaged>>
    BY <1>2, <1>3, RemoveEntryMoves
  <2>2. TypeOK' /\ Recorded'
    BY <1>2, <2>1, RecordedKept DEF TypeOK, DeploySteps
  <2>3. NewLive' /\ NoSwitches'
    BY <1>1, <1>2, <2>1, NewLiveStays DEF NoSwitches, Switches, Exists
  <2>4. AtSwitch' /\ pc' \in SwitchSteps
    BY <2>1, <2>3 DEF AtSwitch, SwitchSteps, LastSteps, InstalledSteps, NoSwitches, Switches, NewLive
  <2>5. QED
    BY <1>1, <2>1, <2>2, <2>4, DeployOn
<1>4. CASE /\ Emptied /\ manifest' = "none"
           /\ pc' = "idle" /\ report' = "deploy_succeeded" /\ damaged' = {}
           /\ UNCHANGED <<tree, facts, mode, runs, kills, raises>>
  <2>1. TypeOK'
    BY <1>2, <1>4 DEF TypeOK
  <2>2. NewLive' /\ Settled'
    <3>1. Settled
      BY <1>1, <1>2, <1>4, NewIsSettled DEF Emptied
    <3>2. NewLive'
      BY <1>1, <1>2, <1>4, NewLiveStays
    <3>3. QED
      BY <1>4, <3>1, <3>2 DEF Settled, NoSwitches, Exists
  <2>3. AtRest' /\ ReportIsTrue'
    BY <1>4, <2>2 DEF AtRest, ReportIsTrue
  <2>4. QED
    BY <1>4, <2>1, <2>2, <2>3, Over
<1>5. QED
  BY <1>3, <1>4 DEF Finish

-----------------------------------------------------------------------------
(* The beginning *)

LEMMA InitSafe == Init => Inv
<1> SUFFICES ASSUME Init PROVE Inv
  OBVIOUS
<1>1. PICK stable \in WholeTrees, cache \in [Versions -> WholeTrees \cup {NoTree}] :
        tree = [p \in Places |-> CASE p = Stable -> stable
                                   [] p.root = "cache" -> cache[p.name]
                                   [] OTHER -> NoTree]
  BY DEF Init
<1>2. /\ tree[Stable] = stable
      /\ \A v \in Versions : Cache(v) \in Places /\ tree[Cache(v)] = cache[v]
      /\ \A p \in Switches \cup InTransaction : p \in Places /\ tree[p] = NoTree
  <2>1. tree[Stable] = stable
    <3>1. Stable \in Places /\ Stable.root # "cache"
      BY PlacesApart DEF Named, Stable, Place
    <3>2. QED
      BY <1>1, <3>1
  <2>2. ASSUME NEW v \in Versions PROVE Cache(v) \in Places /\ tree[Cache(v)] = cache[v]
    <3>1. Cache(v) \in Places /\ Cache(v) # Stable
      BY PlacesApart DEF Named
    <3>2. Cache(v).root = "cache" /\ Cache(v).name = v
      BY DEF Cache, Place
    <3>3. QED
      BY <1>1, <3>1, <3>2
  <2>3. ASSUME NEW p \in Switches \cup InTransaction PROVE p \in Places /\ tree[p] = NoTree
    <3>1. p \in Places /\ p # Stable
      BY PlacesApart DEF Named, Switches, InTransaction
    <3>2. p.root # "cache"
      BY DEF Switches, InTransaction, Staging, Backup, Recovery, Snapshot, KeptDir, Kept, Place
    <3>3. QED
      BY <1>1, <3>1, <3>2
  <2>4. QED
    BY <2>1, <2>2, <2>3
<1>3. \A p \in Places : \/ p = Stable \/ p \in Switches \cup InTransaction
                        \/ \E v \in Versions : p = Cache(v)
  BY DEF Places
<1>4. tree \in [Places -> Trees]
  <2>1. \A p \in Places : tree[p] \in Trees
    BY <1>2, <1>3, TreeFacts
  <2>2. QED
    BY <1>1, <2>1
<1>5. Settled
  BY <1>2 DEF Settled, NoSwitches, Exists
<1>6. TypeOK
  BY <1>4, TreeFacts DEF Init, TypeOK, Facts, NoFacts
<1>7. Phase /\ AtRest /\ ReportIsTrue /\ manifest = "none" /\ damaged = {} /\ pc = "idle"
  BY DEF Init, Phase, AtRest, ReportIsTrue, DeploySteps, RecoverySteps
<1>8. AtSnapshot /\ AtSwitch /\ AtRecovery
  BY <1>7 DEF AtSnapshot, AtSwitch, AtRecovery, SnapshotSteps, SwitchSteps, InstalledSteps,
     LastSteps, SwungSteps
<1>9. QED
  BY <1>5, <1>6, <1>7, <1>8 DEF Inv

LEMMA StartSafe == Inv /\ Start => Inv'
<1> SUFFICES ASSUME Inv, Start PROVE Inv'
  OBVIOUS
<1>1. /\ pc = "idle" /\ report' = "none" /\ runs' = runs + 1
      /\ UNCHANGED <<tree, manifest, facts, kills, raises, damaged>>
      /\ pc' = IF manifest = "none" THEN "admit" ELSE "recover"
      /\ mode' = IF manifest = "none" THEN "deploy" ELSE "resume"
  BY DEF Start
<1>2. TypeOK'
  BY <1>1 DEF Inv, TypeOK, DeploySteps, RecoverySteps
<1>3. CASE manifest = "none"
  <2>1. pc' = "admit" /\ mode' = "deploy" /\ Settled /\ damaged = {}
    BY <1>1, <1>3 DEF Inv
  <2>2. pc' \notin SnapshotSteps \cup SwitchSteps \cup RecoverySteps \cup {"idle"}
    BY <2>1 DEF SnapshotSteps, SwitchSteps, InstalledSteps, LastSteps, RecoverySteps
  <2>3. AtSnapshot' /\ AtSwitch' /\ AtRecovery' /\ AtRest'
    BY <2>2, Elsewhere
  <2>4. Settled'
    BY <1>1, <2>1 DEF Settled, NoSwitches, Exists
  <2>5. Phase' /\ ReportIsTrue'
    BY <1>1, <1>3, <2>1 DEF Phase, ReportIsTrue, DeploySteps, RecoverySteps
  <2>6. QED
    BY <1>1, <1>2, <1>3, <2>1, <2>3, <2>4, <2>5 DEF Inv
<1>4. CASE manifest # "none"
  <2>1. Recorded /\ Restorable /\ (damaged = {} => Recoverable)
    BY <1>1, <1>4 DEF Inv, AtRest, Windows
  <2>2. Recorded' /\ Restorable' /\ (damaged' = {} => Recoverable')
    BY <1>1, <2>1, RecordedKept, RestsOn
  <2>3. QED
    BY <1>1, <1>2, <1>4, <2>2, TurnsBack
<1>5. QED
  BY <1>3, <1>4

LEMMA AdmitSafe == Inv /\ Admit => Inv'
<1> SUFFICES ASSUME Inv, Admit PROVE Inv'
  OBVIOUS
<1>1. /\ pc = "admit" /\ manifest = "none" /\ TypeOK /\ Settled /\ damaged = {}
      /\ mode = "deploy" /\ report = "none"
  BY DEF Admit, Inv, Phase, DeploySteps
<1>2. PICK target \in Versions, previous \in Versions \cup {None} :
         \/ /\ Admissible(target, previous)
            /\ facts' = [target |-> target, previous |-> previous,
                         stable |-> tree[Stable], cache |-> LiveCache]
            /\ manifest' = "bare" /\ pc' = "record"
            /\ UNCHANGED <<tree, mode, report, bounds>>
         \/ Fail
  BY DEF Admit
<1>3. CASE Fail
  <2>1. /\ pc' = "idle" /\ report' = "deploy_failed"
        /\ UNCHANGED <<tree, manifest, facts, mode, runs, kills, raises, damaged>>
    BY <1>1, <1>3 DEF Fail, End, bounds
  <2>2. TypeOK' /\ Settled'
    BY <1>1, <2>1 DEF TypeOK, Settled, NoSwitches, Exists
  <2>3. AtRest' /\ ReportIsTrue'
    BY <1>1, <2>1 DEF AtRest, ReportIsTrue
  <2>4. QED
    BY <1>1, <2>1, <2>2, <2>3, Over
<1>4. CASE /\ Admissible(target, previous)
           /\ facts' = [target |-> target, previous |-> previous,
                        stable |-> tree[Stable], cache |-> LiveCache]
           /\ manifest' = "bare" /\ pc' = "record"
           /\ UNCHANGED <<tree, mode, report, bounds>>
  <2>1. /\ \A v \in Versions : tree[Cache(v)] \in Trees /\ tree[Cache(v)] \in WholeTrees \cup {NoTree}
        /\ tree[Stable] \in Trees /\ tree[Stable] \in WholeTrees
    BY <1>1, PlacesApart, TreeFacts DEF Settled
  <2>2. TypeOK'
    BY <1>1, <1>4, <2>1 DEF TypeOK, Facts, LiveCache, DeploySteps, bounds
  <2>3. /\ facts'.target = target /\ facts'.previous = previous /\ facts'.stable = tree[Stable]
        /\ \A v \in Versions : facts'.cache[v] = tree[Cache(v)]
    BY <1>4 DEF LiveCache
  <2>4. previous # None => previous \in Names /\ tree[Cache(previous)] = Bundle(previous)
    BY <1>4 DEF Admissible
  <2>5. Recorded'
    BY <1>4, <2>1, <2>3, <2>4 DEF Recorded, Admissible, Names, OldNames, Exists
  <2>6. OldLive' /\ NoSwitches' /\ \A v \in Versions : ~Exists(Kept(v))'
    BY <1>1, <1>4 DEF Settled, OldLive, LiveCache, NoSwitches, InTransaction, Exists
  <2>7. AtSnapshot'
    BY <1>4, <2>6 DEF AtSnapshot, SnapshotSteps
  <2>8. pc' \in SnapshotSteps /\ pc' \in DeploySteps \ {"admit"} /\ pc' # "idle"
    BY <1>4 DEF SnapshotSteps, DeploySteps
  <2>9. Phase' /\ ReportIsTrue' /\ AtSwitch' /\ AtRecovery' /\ AtRest'
    BY <1>1, <1>4, <2>8, Groups, Elsewhere DEF Phase, ReportIsTrue
  <2>10. QED
    BY <1>4, <2>2, <2>5, <2>7, <2>9 DEF Inv
<1>5. QED
  BY <1>2, <1>3, <1>4

-----------------------------------------------------------------------------
(* The recovery *)

\* A run that gives up leaves what there was.
LEMMA RefuseSafe ==
    ASSUME Inv, pc \in RecoverySteps \ Windows, Refuse
    PROVE  Inv'
<1>1. /\ pc' = "idle" /\ UNCHANGED <<tree, manifest, facts, mode, runs, kills, raises, damaged>>
      /\ report' \in {"rollback_failed", "deploy_failed"}
  BY DEF Refuse, End, bounds
<1>2. TypeOK' /\ Recorded' /\ manifest' # "none"
  BY <1>1, Underway, RecordedKept DEF TypeOK
<1>3. Restorable /\ (damaged = {} => Recoverable)
  BY Interrupted
<1>4. Restorable' /\ (damaged' = {} => Recoverable')
  BY <1>1, <1>3, RestsOn, Underway
<1>5. Held'
  BY <1>4, RestorableIsHeld
<1>6. AtRest' /\ ReportIsTrue'
  BY <1>1, <1>2, <1>4, <1>5 DEF AtRest, ReportIsTrue, Held
<1>7. QED
  BY <1>1, <1>2, <1>6, Over

\* A check of the recovery changes nothing on the disk.
LEMMA CheckOn ==
    ASSUME Inv, pc \in RecoverySteps \ Windows, NEW next \in RecoverySteps, Check(next),
           AtRecovery'
    PROVE  Inv'
<1>1. /\ pc' = next
      /\ UNCHANGED <<tree, manifest, facts, mode, report, runs, kills, raises, damaged>>
  BY DEF Check, Goto, bounds
<1>2. TypeOK' /\ Recorded' /\ manifest' # "none"
  BY <1>1, Underway, RecordedKept DEF TypeOK
<1>3. Restorable' /\ (damaged' = {} => Recoverable')
  BY <1>1, Interrupted, RestsOn, Underway
<1>4. QED
  BY <1>1, <1>2, <1>3, RecoverOn DEF AtRest

LEMMA RecoverSafe == Inv /\ Recover => Inv'
<1> SUFFICES ASSUME Inv, Recover PROVE Inv'
  OBVIOUS
<1>1. pc = "recover" /\ pc \in RecoverySteps \ Windows
  BY DEF Recover, RecoverySteps, Windows
<1>2. /\ Recorded /\ facts.stable # NoTree /\ Restorable /\ (damaged = {} => Recoverable)
  BY <1>1, Underway, Interrupted, TreeFacts DEF Recorded
<1>3. CASE Readable /\ Begun /\ Untouched /\ Check("clean")
  <2>1. AtRecovery' /\ "clean" \in RecoverySteps
    BY <1>3 DEF Check, Goto, AtRecovery, SwungSteps, RecoverySteps, Untouched, OldLive, LiveCache
  <2>2. QED
    BY <1>1, <1>3, <2>1, CheckOn
<1>4. CASE Readable /\ ~Begun /\ Standing
           /\ Check(IF Exists(Backup) THEN "drop old backup" ELSE "check caches")
  <2> DEFINE next == IF Exists(Backup) THEN "drop old backup" ELSE "check caches"
  <2>1. next \in RecoverySteps /\ next \in {"drop old backup", "check caches"}
    BY DEF RecoverySteps
  <2>2. pc' = next /\ Standing' /\ Under' /\ (pc' = "drop old backup" => Exists(Backup)')
    BY <1>4 DEF Check, Goto, Standing, Under, Readable, Begun, Exists
  <2>3. AtRecovery'
    BY <2>1, <2>2 DEF AtRecovery, SwungSteps
  <2>4. QED
    BY <1>1, <1>4, <2>1, <2>3, CheckOn
<1>5. ASSUME FromBackup \/ FromSnapshot, Readable, ~Begun
      PROVE  Swung /\ (UNCHANGED <<tree, facts, manifest, damaged>> => Swung')
  <2>1. ~Standing
    BY <1>2, <1>5 DEF FromBackup, FromSnapshot, ToPutBack, Standing, Exists
  <2>2. Under /\ (damaged = {} => KeptUsable)
    BY <1>2, <1>5 DEF Under, Recoverable
  <2>3. ASSUME Preserved PROVE Swung
    <3>1. KeptWhole /\ tree[Snapshot] = facts.stable
      BY <2>1, <2>3 DEF Preserved, OldLive, Standing
    <3>2. QED
      BY <2>2, <3>1 DEF Swung
  <2>4. ASSUME Spent, Halfway PROVE Swung
    <3>1. NewCaches /\ ~Exists(Backup)
      BY <2>4 DEF Halfway
    <3>2. tree[Snapshot] = facts.stable
      BY <1>5, <3>1 DEF FromBackup, FromSnapshot
    <3>3. QED
      BY <2>2, <2>4, <3>1, <3>2 DEF Swung
  <2>5. Swung
    BY <1>2, <2>3, <2>4 DEF Restorable
  <2>6. ASSUME UNCHANGED <<tree, facts, manifest, damaged>> PROVE Swung'
    <3>1. NewCaches => NewCaches'
      BY <1>2, <2>6, NewCachesStay
    <3>2. QED
      BY <2>5, <2>6, <3>1 DEF Swung, KeptWhole, KeptUsable, Exists, Under, Readable, Begun, Spent
  <2>7. QED
    BY <2>5, <2>6
<1>6. CASE Readable /\ ~Begun /\ FromBackup /\ Check(IF Exists(Stable) THEN "drop stable" ELSE "swing")
  <2> DEFINE next == IF Exists(Stable) THEN "drop stable" ELSE "swing"
  <2>1. next \in RecoverySteps /\ next \in {"drop stable", "swing"}
    BY DEF RecoverySteps
  <2>2. /\ pc' = next /\ tree' = tree /\ facts' = facts /\ manifest' = manifest /\ damaged' = damaged
    BY <1>6 DEF Check, Goto, bounds
  <2>3. Swung'
    BY <1>5, <1>6, <2>2
  <2>4. Exists(Backup)' /\ (tree[Backup] = facts.stable)'
    BY <1>6, <2>2 DEF FromBackup, Exists
  <2>5. AtRecovery'
    BY <2>1, <2>2, <2>3, <2>4 DEF AtRecovery
  <2>6. QED
    BY <1>1, <1>6, <2>1, <2>5, CheckOn
<1>7. CASE Readable /\ ~Begun /\ FromSnapshot /\ Check("copy recovery")
  <2>1. "copy recovery" \in RecoverySteps
    BY DEF RecoverySteps
  <2>2. /\ pc' = "copy recovery" /\ tree' = tree /\ facts' = facts /\ manifest' = manifest
        /\ damaged' = damaged
    BY <1>7 DEF Check, Goto, bounds
  <2>3. Swung'
    BY <1>5, <1>7, <2>2
  <2>4. AtRecovery'
    BY <1>7, <2>2, <2>3 DEF AtRecovery, FromSnapshot, Exists
  <2>5. QED
    BY <1>1, <1>7, <2>1, <2>4, CheckOn
<1>8. CASE Refuse
  BY <1>1, <1>8, RefuseSafe
<1>9. QED
  BY <1>3, <1>4, <1>6, <1>7, <1>8 DEF Recover

\* While the stable tree stands the switch paths are of no importance.
LEMMA SwitchPaths ==
    ASSUME Standing, Preserved, NEW p \in Switches, Only(p), UNCHANGED <<facts, manifest>>
    PROVE  /\ Standing' /\ Preserved' /\ (Recoverable => Recoverable')
           /\ (OldLive => OldLive') /\ (KeptWhole => KeptWhole') /\ (KeptUsable => KeptUsable')
           /\ (Under => Under')
<1>1. /\ tree'[Stable] = tree[Stable] /\ tree'[Snapshot] = tree[Snapshot]
      /\ tree'[KeptDir] = tree[KeptDir]
      /\ \A v \in Versions : tree'[Kept(v)] = tree[Kept(v)] /\ tree'[Cache(v)] = tree[Cache(v)]
  BY PlacesApart DEF Only, Switches, Named
<1>2. /\ Standing' /\ OldLive' = OldLive /\ KeptWhole' = KeptWhole /\ KeptUsable' = KeptUsable
      /\ Under' = Under
  BY <1>1 DEF Standing, OldLive, LiveCache, KeptWhole, KeptUsable, Exists, Under, Readable, Begun
<1>3. Preserved'
  BY <1>1, <1>2 DEF Preserved
<1>4. Recoverable => Recoverable'
  BY <1>2 DEF Recoverable, Readable, Begun
<1>5. QED
  BY <1>2, <1>3, <1>4

LEMMA DropOldBackupSafe == Inv /\ DropOldBackup => Inv'
<1> SUFFICES ASSUME Inv, DropOldBackup PROVE Inv'
  OBVIOUS
<1>1. pc = "drop old backup" /\ pc \in RecoverySteps \ Windows /\ Remove(Backup, "check caches")
  BY DEF DropOldBackup, RecoverySteps, Windows
<1>2. /\ tree' \in [Places -> Trees] /\ Only(Backup) /\ Backup \in Named \cap Switches
      /\ pc' = "check caches" \/ (pc' = "drop old backup" /\ tree'[Backup] = Torn(tree[Backup]))
      /\ UNCHANGED <<manifest, facts, mode, report, runs, kills, raises, damaged>>
  BY <1>1, PlacesApart, RemoveMoves, Underway DEF Named, Switches
<1>3. Standing /\ Under /\ Preserved /\ (damaged = {} => Recoverable)
  BY <1>1, Underway, Interrupted DEF AtRecovery, Restorable, Halfway
<1>4. /\ Standing' /\ Under' /\ Restorable' /\ (damaged' = {} => Recoverable')
      /\ pc' = "drop old backup" => Exists(Backup)'
  <2>1. Standing' /\ Under' /\ Preserved' /\ (damaged' = {} => Recoverable')
    BY <1>2, <1>3, SwitchPaths
  <2>2. QED
    BY <1>1, <1>2, <2>1, TreeFacts, PlacesApart, Underway DEF Restorable, Exists, TypeOK, Named
<1>5. TypeOK' /\ Recorded' /\ manifest' # "none"
  BY <1>1, <1>2, Underway, RecordedElsewhere DEF TypeOK, RecoverySteps
<1>6. AtRecovery' /\ AtRest' /\ pc' \in RecoverySteps
  BY <1>2, <1>4 DEF AtRecovery, AtRest, SwungSteps, RecoverySteps
<1>7. QED
  BY <1>1, <1>2, <1>5, <1>6, RecoverOn

LEMMA SwungStays ==
    ASSUME Inv, pc \in SwungSteps, UNCHANGED <<manifest, facts, damaged>>,
           tree'[Snapshot] = tree[Snapshot], tree'[KeptDir] = tree[KeptDir],
           ~Exists(Backup) => ~Exists(Backup)',
           \A v \in Versions : tree'[Kept(v)] = tree[Kept(v)] /\ tree'[Cache(v)] = tree[Cache(v)]
    PROVE  Swung' /\ Restorable'
<1>1. Swung /\ Recorded
  BY Underway, Groups DEF AtRecovery
<1>2. NewCaches => NewCaches'
  BY <1>1, NewCachesStay
<1>3. Swung'
  BY <1>1, <1>2 DEF Swung, KeptWhole, KeptUsable, Exists, Under, Readable, Begun, Spent
<1>4. QED
  BY <1>3 DEF Restorable, Preserved, Halfway, Swung

LEMMA CopyRecoverySafe == Inv /\ CopyRecovery => Inv'
<1> SUFFICES ASSUME Inv, CopyRecovery PROVE Inv'
  OBVIOUS
<1> DEFINE next == IF Exists(Stable) THEN "drop stable" ELSE "swing"
<1>1. pc = "copy recovery" /\ pc \in SwungSteps /\ pc \in RecoverySteps
      /\ Copy(tree[Snapshot], Recovery, next)
  BY DEF CopyRecovery, SwungSteps, RecoverySteps
<1>2. Recovery \in Places /\ Recovery \in Named /\ tree[Snapshot] \in Trees
  BY <1>1, PlacesApart, Underway DEF Named, TypeOK
<1>3. /\ tree' \in [Places -> Trees] /\ Only(Recovery)
      /\ \/ pc' = next /\ tree'[Recovery] = tree[Snapshot]
         \/ pc' = "copy recovery"
      /\ UNCHANGED <<manifest, facts, mode, report, runs, kills, raises, damaged>>
  BY <1>1, <1>2, CopyMoves, Underway
<1>4. /\ \A p \in Named \ {Recovery} : tree'[p] = tree[p]
      /\ \A v \in Versions : tree'[Kept(v)] = tree[Kept(v)] /\ tree'[Cache(v)] = tree[Cache(v)]
  BY <1>2, <1>3, PlacesApart DEF Only
<1>5. Swung' /\ Restorable' /\ tree[Snapshot] = facts.stable /\ ~Exists(Backup)
  <2>1. tree[Snapshot] = facts.stable /\ ~Exists(Backup)
    BY <1>1, Underway DEF AtRecovery, Swung
  <2>2. ~Exists(Backup) => ~Exists(Backup)'
    BY <1>4, PlacesApart DEF Exists, Named
  <2>3. QED
    BY <1>1, <1>3, <1>4, <2>1, <2>2, SwungStays, PlacesApart DEF Named
<1>6. TypeOK' /\ Recorded' /\ manifest' # "none" /\ pc' \in RecoverySteps /\ pc' \in SwungSteps
  BY <1>1, <1>2, <1>3, Underway, RecordedElsewhere DEF TypeOK, RecoverySteps, SwungSteps
<1>7. ~Exists(Backup)'
  BY <1>4, <1>5, PlacesApart DEF Exists, Named
<1>8. AtRecovery' /\ AtRest'
  BY <1>3, <1>5, <1>6, <1>7 DEF AtRecovery, Swung, SwungSteps, AtRest, Windows
<1>9. QED
  BY <1>1, <1>3, <1>6, <1>8, RecoverOn

LEMMA DropStableSafe == Inv /\ DropStable => Inv'
<1> SUFFICES ASSUME Inv, DropStable PROVE Inv'
  OBVIOUS
<1>1. pc = "drop stable" /\ pc \in SwungSteps /\ pc \in RecoverySteps /\ Remove(Stable, "swing")
  BY DEF DropStable, SwungSteps, RecoverySteps
<1>2. Stable \in Places /\ Stable \in Named
  BY PlacesApart DEF Named
<1>3. /\ tree' \in [Places -> Trees] /\ Only(Stable) /\ pc' \in {"drop stable", "swing"}
      /\ UNCHANGED <<manifest, facts, mode, report, runs, kills, raises, damaged>>
  BY <1>1, <1>2, RemoveMoves, Underway
<1>4. /\ \A p \in Named \ {Stable} : tree'[p] = tree[p]
      /\ \A v \in Versions : tree'[Kept(v)] = tree[Kept(v)] /\ tree'[Cache(v)] = tree[Cache(v)]
  BY <1>2, <1>3, PlacesApart DEF Only
<1>5. Swung' /\ Restorable'
  BY <1>1, <1>3, <1>4, SwungStays, PlacesApart DEF Named, Exists
<1>6. TypeOK' /\ Recorded' /\ manifest' # "none" /\ pc' \in RecoverySteps /\ pc' \in SwungSteps
  BY <1>1, <1>2, <1>3, Underway, RecordedElsewhere DEF TypeOK, RecoverySteps, SwungSteps
<1>7. (tree[IF Exists(Backup) THEN Backup ELSE Recovery] = facts.stable)'
  BY <1>1, <1>3, <1>4, PlacesApart, Underway DEF AtRecovery, Exists, Named
<1>8. AtRecovery' /\ AtRest'
  BY <1>3, <1>5, <1>6, <1>7 DEF AtRecovery, Swung, SwungSteps, AtRest, Windows
<1>9. QED
  BY <1>1, <1>3, <1>6, <1>8, RecoverOn

LEMMA SwingSafe == Inv /\ Swing => Inv'
<1> SUFFICES ASSUME Inv, Swing PROVE Inv'
  OBVIOUS
<1> DEFINE from == IF Exists(Backup) THEN Backup ELSE Recovery
<1>1. pc = "swing" /\ pc \in SwungSteps /\ pc \in RecoverySteps /\ Rename(from, Stable, "check caches")
  BY DEF Swing, SwungSteps, RecoverySteps
<1>2. /\ from \in {Backup, Recovery} /\ from \in Places /\ Stable \in Places /\ from # Stable
      /\ tree[from] = facts.stable
  BY <1>1, PlacesApart, Underway DEF Named, AtRecovery
<1>3. /\ tree' \in [Places -> Trees] /\ pc' = "check caches"
      /\ tree'[Stable] = tree[from]
      /\ \A q \in Places \ {from, Stable} : tree'[q] = tree[q]
      /\ UNCHANGED <<manifest, facts, mode, report, runs, kills, raises, damaged>>
  BY <1>1, <1>2, RenameMoves, Underway
<1>4. /\ tree'[Snapshot] = tree[Snapshot] /\ tree'[KeptDir] = tree[KeptDir]
      /\ \A v \in Versions : tree'[Kept(v)] = tree[Kept(v)] /\ tree'[Cache(v)] = tree[Cache(v)]
  BY <1>2, <1>3, PlacesApart DEF Named
<1>5. Swung' /\ Restorable' /\ Standing'
  <2>1. ~Exists(Backup) => ~Exists(Backup)'
    BY <1>2, <1>3, PlacesApart DEF Exists, Named
  <2>2. QED
    BY <1>1, <1>2, <1>3, <1>4, <2>1, SwungStays DEF Standing
<1>6. TypeOK' /\ Recorded' /\ manifest' # "none" /\ pc' \in RecoverySteps
  BY <1>1, <1>3, <1>4, Underway, RecordedKept DEF TypeOK, RecoverySteps
<1>7. damaged' = {} => Recoverable'
  BY <1>5 DEF Recoverable, Swung, Under
<1>8. AtRecovery' /\ AtRest'
  BY <1>3, <1>5, <1>7 DEF AtRecovery, Swung, SwungSteps, AtRest
<1>9. QED
  BY <1>1, <1>3, <1>6, <1>8, RecoverOn

LEMMA CheckCachesSafe == Inv /\ CheckCaches => Inv'
<1> SUFFICES ASSUME Inv, CheckCaches PROVE Inv'
  OBVIOUS
<1>1. pc = "check caches" /\ pc \in RecoverySteps \ Windows
  BY DEF CheckCaches, RecoverySteps, Windows
<1>2. CASE SnapshotUsable /\ Check("drop caches")
  <2>1. KeptUsable /\ Standing /\ Under
    BY <1>1, <1>2, Underway DEF SnapshotUsable, KeptUsable, KeptWhole, AtRecovery
  <2>2. /\ pc' = "drop caches" /\ UNCHANGED <<tree, manifest, facts>>
    BY <1>2 DEF Check, Goto
  <2>3. KeptUsable' /\ Standing' /\ Under'
    BY <2>1, <2>2 DEF KeptUsable, KeptWhole, Exists, Standing, Under, Readable, Begun
  <2>4. AtRecovery' /\ "drop caches" \in RecoverySteps
    BY <2>2, <2>3 DEF AtRecovery, SwungSteps, RecoverySteps
  <2>5. QED
    BY <1>1, <1>2, <2>4, CheckOn
<1>3. CASE Refuse
  BY <1>1, <1>3, RefuseSafe
<1>4. QED
  BY <1>2, <1>3 DEF CheckCaches

\* The live caches are of no importance while the kept ones are whole and the stable
\* tree stands.
LEMMA CacheMoves ==
    ASSUME Inv, pc \in {"drop caches", "copy caches"}, pc' \in {"drop caches", "copy caches"},
           NEW v \in Versions, Exists(Cache(v)) \/ v \in OldNames,
           tree' \in [Places -> Trees], Only(Cache(v)),
           UNCHANGED <<manifest, facts, mode, report, runs, kills, raises, damaged>>,
           pc' = "copy caches" => pc = "copy caches" /\ v \in OldNames
    PROVE  Inv'
<1>1. pc \in RecoverySteps /\ pc' \in RecoverySteps
  BY DEF RecoverySteps
<1>2. Standing /\ KeptUsable /\ Under /\ (pc = "copy caches" => Names \subseteq OldNames)
  BY <1>1, Underway DEF AtRecovery
<1>3. /\ \A p \in Named : tree'[p] = tree[p]
      /\ \A u \in Versions : tree'[Kept(u)] = tree[Kept(u)]
      /\ \A u \in Versions \ {v} : tree'[Cache(u)] = tree[Cache(u)]
  BY PlacesApart DEF Only
<1>4. {Stable, KeptDir} \subseteq Named
  BY DEF Named
<1>5. Standing' /\ KeptUsable' /\ Under'
  BY <1>2, <1>3, <1>4 DEF Standing, KeptUsable, KeptWhole, Exists, Under, Readable, Begun
<1>6. Restorable' /\ Recoverable'
  BY <1>5 DEF Restorable, Preserved, Recoverable, KeptUsable, Under
<1>7. pc' = "copy caches" => (Names \subseteq OldNames)'
  BY <1>2, <1>3 DEF Names, OldNames, Exists
<1>8. TypeOK' /\ Recorded' /\ manifest' # "none"
  BY <1>1, <1>3, Underway, RecordedKept DEF TypeOK
<1>9. AtRecovery' /\ AtRest'
  BY <1>5, <1>6, <1>7 DEF AtRecovery, AtRest, SwungSteps
<1>10. QED
  BY <1>1, <1>8, <1>9, RecoverOn

LEMMA DropCachesSafe == Inv /\ DropCaches => Inv'
<1> SUFFICES ASSUME Inv, DropCaches PROVE Inv'
  OBVIOUS
<1>1. pc = "drop caches" /\ pc \in RecoverySteps \ Windows
  BY DEF DropCaches, RecoverySteps, Windows
<1>2. CASE \E v \in Names : Remove(Cache(v), "drop caches")
  <2>1. PICK v \in Versions : Exists(Cache(v)) /\ Remove(Cache(v), "drop caches")
    BY <1>2 DEF Names
  <2>2. /\ tree' \in [Places -> Trees] /\ Only(Cache(v)) /\ pc' = "drop caches"
        /\ UNCHANGED <<manifest, facts, mode, report, runs, kills, raises, damaged>>
    BY <1>1, <2>1, PlacesApart, RemoveMoves, Underway
  <2>3. QED
    BY <1>1, <2>1, <2>2, CacheMoves
<1>3. CASE Names = {} /\ Check("copy caches")
  <2>1. Standing /\ KeptUsable /\ Under
    BY <1>1, Underway DEF AtRecovery
  <2>2. /\ pc' = "copy caches" /\ UNCHANGED <<tree, manifest, facts>>
    BY <1>3 DEF Check, Goto
  <2>3. KeptUsable' /\ Standing' /\ Under' /\ Names' = {}
    BY <1>3, <2>1, <2>2
    DEF KeptUsable, KeptWhole, Exists, Standing, Under, Readable, Begun, Names
  <2>4. AtRecovery' /\ "copy caches" \in RecoverySteps
    BY <2>2, <2>3 DEF AtRecovery, SwungSteps, RecoverySteps
  <2>5. QED
    BY <1>1, <1>3, <2>4, CheckOn
<1>4. QED
  BY <1>2, <1>3 DEF DropCaches

LEMMA CopyCachesSafe == Inv /\ CopyCaches => Inv'
<1> SUFFICES ASSUME Inv, CopyCaches PROVE Inv'
  OBVIOUS
<1>1. pc = "copy caches" /\ pc \in RecoverySteps \ Windows
  BY DEF CopyCaches, RecoverySteps, Windows
<1>2. CASE \E v \in Uncopied : Copy(tree[Kept(v)], Cache(v), "copy caches")
  <2>1. PICK v \in Uncopied : Copy(tree[Kept(v)], Cache(v), "copy caches")
    BY <1>2
  <2>2. v \in OldNames /\ v \in Versions /\ Cache(v) \in Places /\ tree[Kept(v)] \in Trees
    BY <1>1, Underway, PlacesApart DEF Uncopied, OldNames, TypeOK
  <2>3. /\ tree' \in [Places -> Trees] /\ Only(Cache(v)) /\ pc' = "copy caches"
        /\ UNCHANGED <<manifest, facts, mode, report, runs, kills, raises, damaged>>
    BY <1>1, <2>1, <2>2, CopyMoves, Underway
  <2>4. QED
    BY <1>1, <2>2, <2>3, CacheMoves
<1>3. CASE Uncopied = {} /\ Check("clean")
  <2>1. Standing /\ Names \subseteq OldNames /\ TypeOK
    BY <1>1, Underway DEF AtRecovery
  <2>2. \A v \in Versions : tree[Cache(v)] = facts.cache[v]
    BY <1>3, <2>1 DEF Uncopied, OldNames, Names, Exists
  <2>3. facts.cache \in [Versions -> Trees]
    BY <2>1 DEF TypeOK, Facts
  <2>4. OldLive
    BY <2>1, <2>2, <2>3 DEF OldLive, LiveCache, Standing
  <2>5. /\ pc' = "clean" /\ UNCHANGED <<tree, manifest, facts>>
    BY <1>3 DEF Check, Goto
  <2>6. AtRecovery' /\ "clean" \in RecoverySteps
    BY <2>4, <2>5 DEF AtRecovery, SwungSteps, RecoverySteps, OldLive, LiveCache
  <2>7. QED
    BY <1>1, <1>3, <2>6, CheckOn
<1>4. QED
  BY <1>2, <1>3 DEF CopyCaches

LEMMA CleanSafe == Inv /\ Clean => Inv'
<1> SUFFICES ASSUME Inv, Clean PROVE Inv'
  OBVIOUS
<1>1. pc = "clean" /\ pc \in RecoverySteps \ Windows
  BY DEF Clean, RecoverySteps, Windows
<1>2. OldLive /\ Standing /\ Preserved /\ (damaged = {} => Recoverable)
  BY <1>1, Underway, Interrupted DEF AtRecovery, OldLive, Standing, Preserved
<1>3. CASE Exists(Leftover) /\ Remove(Leftover, "clean")
  <2>1. Leftover \in Named \cap Switches /\ Leftover \in Places
    BY PlacesApart DEF Leftover, Named, Switches
  <2>2. /\ tree' \in [Places -> Trees] /\ Only(Leftover) /\ pc' = "clean"
        /\ UNCHANGED <<manifest, facts, mode, report, runs, kills, raises, damaged>>
    BY <1>1, <1>3, <2>1, RemoveMoves, Underway
  <2>3. OldLive' /\ Restorable' /\ (damaged' = {} => Recoverable')
    BY <1>2, <2>1, <2>2, SwitchPaths DEF Restorable
  <2>4. TypeOK' /\ Recorded' /\ manifest' # "none"
    BY <1>1, <2>1, <2>2, Underway, RecordedElsewhere DEF TypeOK
  <2>5. AtRecovery' /\ AtRest' /\ pc' \in RecoverySteps
    BY <1>1, <2>2, <2>3 DEF AtRecovery, AtRest, SwungSteps
  <2>6. QED
    BY <1>1, <2>2, <2>4, <2>5, RecoverOn
<1>4. CASE ~Exists(Leftover) /\ Check("discard")
  <2>1. NoSwitches
    BY <1>4 DEF NoSwitches, Switches, Leftover
  <2>2. pc' = "discard" /\ UNCHANGED <<tree, facts>>
    BY <1>4 DEF Check, Goto
  <2>3. OldLive' /\ NoSwitches'
    BY <1>2, <2>1, <2>2 DEF OldLive, LiveCache, NoSwitches, Exists
  <2>4. AtRecovery' /\ "discard" \in RecoverySteps
    BY <2>2, <2>3 DEF AtRecovery, SwungSteps, RecoverySteps
  <2>5. QED
    BY <1>1, <1>4, <2>4, CheckOn
<1>5. QED
  BY <1>3, <1>4 DEF Clean

\* What a restored old deployment is once the transaction is gone.
LEMMA OldIsSettled ==
    ASSUME Recorded, OldLive, NoSwitches, \A p \in InTransaction : ~Exists(p)
    PROVE  Settled
<1>1. \A v \in Versions : tree[Cache(v)] = facts.cache[v]
  BY DEF OldLive, LiveCache
<1>2. QED
  BY <1>1 DEF Settled, Recorded, OldLive

LEMMA DiscardSafe == Inv /\ Discard => Inv'
<1> SUFFICES ASSUME Inv, Discard PROVE Inv'
  OBVIOUS
<1>1. pc = "discard" /\ pc \in RecoverySteps /\ pc \in Windows
  BY DEF Discard, RecoverySteps, Windows
<1>2. OldLive /\ NoSwitches /\ TypeOK /\ Recorded /\ manifest # "none"
  BY <1>1, Underway DEF AtRecovery
<1>3. CASE RemoveEntry("discard")
  <2>1. /\ tree' \in [Places -> Trees] /\ pc' = "discard" /\ manifest' \in {manifest, "bare"}
        /\ manifest' # "none"
        /\ \A p \in {Stable, Staging, Backup, Recovery} : tree'[p] = tree[p]
        /\ \A v \in Versions : tree'[Cache(v)] = tree[Cache(v)]
        /\ UNCHANGED <<facts, mode, report, runs, kills, raises, damaged>>
    BY <1>2, <1>3, RemoveEntryMoves
  <2>2. TypeOK' /\ Recorded'
    BY <1>1, <1>2, <2>1, RecordedKept DEF TypeOK
  <2>3. OldLive' /\ NoSwitches'
    BY <1>2, <2>1 DEF OldLive, LiveCache, NoSwitches, Switches, Exists
  <2>4. AtRecovery' /\ AtRest'
    BY <1>1, <2>1, <2>3 DEF AtRecovery, AtRest, SwungSteps, Restorable, Preserved
  <2>5. QED
    BY <1>1, <2>1, <2>2, <2>4, RecoverOn
<1>4. CASE /\ Emptied /\ manifest' = "none"
           /\ pc' = IF mode = "resume" THEN "admit" ELSE "idle"
           /\ mode' = "deploy"
           /\ report' = IF mode = "resume" THEN report ELSE "deploy_failed_rolled_back"
           /\ damaged' = {} /\ UNCHANGED <<tree, facts, runs, kills, raises>>
  <2>1. TypeOK'
    BY <1>2, <1>4 DEF TypeOK, DeploySteps
  <2>2. OldLive' /\ Settled'
    <3>1. Settled
      BY <1>2, <1>4, OldIsSettled DEF Emptied
    <3>2. QED
      BY <1>2, <1>4, <3>1 DEF Settled, OldLive, LiveCache, NoSwitches, Exists
  <2>3. CASE mode # "resume"
    <3>1. AtRest' /\ ReportIsTrue' /\ pc' = "idle"
      BY <1>4, <2>2, <2>3 DEF AtRest, ReportIsTrue
    <3>2. QED
      BY <1>4, <2>1, <2>2, <3>1, Over
  <2>4. CASE mode = "resume"
    <3>1. pc' = "admit" /\ report' = "none"
      BY <1>1, <1>4, <2>4, Underway
    <3>2. pc' \notin SnapshotSteps \cup SwitchSteps \cup RecoverySteps \cup {"idle"}
      BY <3>1 DEF SnapshotSteps, SwitchSteps, InstalledSteps, LastSteps, RecoverySteps
    <3>3. AtSnapshot' /\ AtSwitch' /\ AtRecovery' /\ AtRest'
      BY <3>2, Elsewhere
    <3>4. Phase' /\ ReportIsTrue'
      BY <1>4, <3>1 DEF Phase, ReportIsTrue, DeploySteps, RecoverySteps
    <3>5. QED
      BY <1>4, <2>1, <2>2, <3>3, <3>4 DEF Inv
  <2>5. QED
    BY <2>3, <2>4
<1>5. QED
  BY <1>3, <1>4 DEF Discard

-----------------------------------------------------------------------------
(* Interruptions *)

\* What is left of a run that stops where it is, or turns back.
LEMMA Stopped ==
    ASSUME Inv, pc \in Interruptible,
           UNCHANGED <<manifest, facts>>, damaged' = damaged \cup ({pc} \cap Windows),
           tree' \in [Places -> Trees], (Only(Staging) /\ pc = "stage") \/ UNCHANGED tree
    PROVE  /\ manifest = "none" => Settled' /\ damaged' = {}
           /\ manifest # "none" => Recorded' /\ Restorable' /\ (damaged' = {} => Recoverable')
<1>1. pc \in DeploySteps \cup RecoverySteps
  BY StepAssumption
<1>2. CASE manifest = "none"
  <2>1. pc = "admit" /\ Settled /\ damaged = {}
    BY <1>1, <1>2 DEF Inv, Phase
  <2>2. QED
    BY <2>1, <1>2 DEF Settled, NoSwitches, Exists, Windows
<1>3. CASE manifest # "none"
  <2>1. pc # "admit" /\ Recorded
    BY <1>3 DEF Inv, Phase
  <2>2. /\ \A p \in Named \ {Staging} : tree'[p] = tree[p]
        /\ \A v \in Versions : tree'[Kept(v)] = tree[Kept(v)] /\ tree'[Cache(v)] = tree[Cache(v)]
    BY PlacesApart DEF Only, Named
  <2>3. Recorded'
    BY <2>1, <2>2, RecordedKept
  <2>4. CASE pc # "finishing"
    <3>1. Restorable /\ (damaged' = {} => Recoverable)
      BY <1>1, <2>1, <2>4, Interrupted
    <3>2. Restorable' /\ (damaged' = {} => Recoverable')
      BY <2>1, <2>2, <3>1, RestsOn
    <3>3. QED
      BY <1>3, <2>3, <3>2
  <2>5. CASE pc = "finishing"
    <3>1. NewLive /\ NoSwitches
      BY <2>5, LastStep
    <3>2. Spent' /\ damaged' # {}
      BY <2>5 DEF Spent, Windows
    <3>3. NewLive' /\ ~Exists(Backup)'
      BY <2>1, <2>2, <2>5, <3>1, NewLiveStays DEF NoSwitches, Switches, Exists
    <3>4. Restorable'
      BY <3>2, <3>3 DEF Restorable, Halfway, NewLive
    <3>5. QED
      BY <1>3, <2>3, <3>2, <3>4
  <2>6. QED
    BY <2>4, <2>5
<1>4. QED
  BY <1>2, <1>3

LEMMA KillSafe == Inv /\ Kill => Inv'
<1> SUFFICES ASSUME Inv, Kill PROVE Inv'
  OBVIOUS
<1>1. /\ pc \in Interruptible /\ pc' = "idle" /\ report' = "killed" /\ kills' = kills + 1
      /\ damaged' = damaged \cup ({pc} \cap Windows)
      /\ UNCHANGED <<tree, manifest, facts, mode, runs, raises>>
  BY DEF Kill
<1>2. TypeOK'
  BY <1>1 DEF Inv, TypeOK
<1>3. /\ manifest = "none" => Settled' /\ damaged' = {}
      /\ manifest # "none" => Recorded' /\ Restorable' /\ (damaged' = {} => Recoverable')
  BY <1>1, <1>2, Stopped DEF TypeOK
<1>4. AtRest' /\ ReportIsTrue'
  BY <1>1, <1>3 DEF AtRest, ReportIsTrue
<1>5. QED
  BY <1>1, <1>2, <1>3, <1>4, Over

LEMMA RaiseSafe == Inv /\ Raise => Inv'
<1> SUFFICES ASSUME Inv, Raise PROVE Inv'
  OBVIOUS
<1> DEFINE rollback == mode = "deploy" /\ manifest # "none"
<1>1. /\ pc \in Interruptible /\ raises' = raises + 1
      /\ damaged' = damaged \cup ({pc} \cap Windows)
      /\ tree' = IF pc = "stage" THEN [tree EXCEPT ![Staging] = NoTree] ELSE tree
      /\ pc' = IF rollback THEN "recover" ELSE "idle"
      /\ mode' = IF rollback THEN "rollback" ELSE mode
      /\ rollback => report' = report
      /\ ~rollback => /\ report' \in {"rollback_failed", "deploy_failed"}
                      /\ report' = "rollback_failed" => mode = "rollback"
      /\ UNCHANGED <<manifest, facts, runs, kills>>
  BY DEF Raise
<1>2. pc \in DeploySteps \cup RecoverySteps /\ pc # "idle" /\ TypeOK /\ Phase
  BY <1>1, StepAssumption, Groups DEF Inv
<1>3. tree' \in [Places -> Trees] /\ ((Only(Staging) /\ pc = "stage") \/ UNCHANGED tree)
  BY <1>1, <1>2, PlacesApart, TreeFacts DEF TypeOK, Only, Named
<1>4. /\ manifest = "none" => Settled' /\ damaged' = {}
      /\ manifest # "none" => Recorded' /\ Restorable' /\ (damaged' = {} => Recoverable')
  BY <1>1, <1>3, Stopped
<1>5. CASE rollback
  <2>1. report' = "none" /\ pc' = "recover" /\ mode' = "rollback"
    BY <1>1, <1>2, <1>5 DEF Phase
  <2>2. TypeOK'
    <3>1. damaged' \in SUBSET Windows /\ raises' \in Nat
      BY <1>1, <1>2 DEF TypeOK
    <3>2. UNCHANGED <<manifest, facts, runs, kills>> /\ tree' \in [Places -> Trees]
      BY <1>1, <1>3
    <3>3. QED
      BY <1>2, <2>1, <3>1, <3>2 DEF TypeOK, RecoverySteps
  <2>3. QED
    BY <1>1, <1>4, <1>5, <2>1, <2>2, TurnsBack
<1>6. CASE ~rollback
  <2>1. TypeOK' /\ pc' = "idle" /\ report' \in {"rollback_failed", "deploy_failed"}
    BY <1>1, <1>2, <1>3, <1>6 DEF TypeOK
  <2>2. report' = "rollback_failed" => manifest # "none"
    BY <1>1, <1>2, <1>6, Groups DEF Phase
  <2>3. ReportIsTrue'
    BY <1>1, <1>4, <2>1, <2>2, RestorableIsHeld DEF ReportIsTrue, Held
  <2>4. AtRest'
    BY <1>1, <1>4, <2>1 DEF AtRest
  <2>5. QED
    BY <1>1, <1>4, <2>1, <2>3, <2>4, Over
<1>7. QED
  BY <1>5, <1>6

-----------------------------------------------------------------------------
(* The theorems *)

LEMMA StutterSafe == Inv /\ UNCHANGED vars => Inv'
<1> SUFFICES ASSUME Inv, UNCHANGED vars PROVE Inv'
  OBVIOUS
<1> USE DEF vars
<1>1. TypeOK' /\ Phase' /\ ReportIsTrue'
  BY DEF Inv, TypeOK, Phase, ReportIsTrue, NewLive, NewCaches, Spent, OldLive, OldStable,
     OldCaches, LiveCache, Source, Names, Keep, Exists, PreviousPlace, PreviousFact, OldNames
<1>2. (manifest = "none" => Settled)' /\ (manifest # "none" => Recorded)'
  BY RecordedKept DEF Inv, Settled, NoSwitches, Exists
<1>3. AtSnapshot' /\ AtRecovery'
  BY DEF Inv, AtSnapshot, AtRecovery, Swung, Spent, NewCaches, OldLive, LiveCache, NoSwitches,
     Exists, OldNames, Begun, KeptWhole, KeptUsable, Under, Readable, Standing, Names, Keep, Source,
     PreviousPlace, PreviousFact
<1>4. AtSwitch'
  BY DEF Inv, AtSwitch, Under, Readable, Begun, SnapshotWhole, KeptUsable, KeptWhole, Exists, Standing,
     Source, PreviousPlace, PreviousFact, NewLive, NewCaches, Names, Keep
<1>5. AtRest'
  BY RestsOn DEF Inv, AtRest
<1>6. QED
  BY <1>1, <1>2, <1>3, <1>4, <1>5 DEF Inv

\* Every step of a run keeps the invariant.
LEMMA StepInv == Inv /\ [Next]_vars => Inv'
<1> SUFFICES ASSUME Inv, [Next]_vars PROVE Inv'
  OBVIOUS
<1>1. CASE Start
  BY <1>1, StartSafe
<1>2. CASE Deploy
  BY <1>2, AdmitSafe, RecordStartSafe, TakeSnapshotSafe, KeepDirectorySafe, KeepCachesSafe,
     RecordSnapshotSafe, StageSafe, RecordStageSafe, BackUpStableSafe, ActivateStableSafe,
     RecordActivationSafe, InstallPluginSafe, RecordInstallSafe, CheckPreviousSafe,
     RestorePreviousSafe, VerifySafe, RetainCachesSafe, ReleaseBackupSafe, FinishSafe DEF Deploy
<1>3. CASE RollBack
  BY <1>3, RecoverSafe, DropOldBackupSafe, CopyRecoverySafe, DropStableSafe, SwingSafe,
     CheckCachesSafe, DropCachesSafe, CopyCachesSafe, CleanSafe, DiscardSafe DEF RollBack
<1>4. CASE Raise \/ Kill
  BY <1>4, RaiseSafe, KillSafe
<1>5. CASE UNCHANGED vars
  BY <1>5, StutterSafe
<1>6. QED
  BY <1>1, <1>2, <1>3, <1>4, <1>5 DEF Next

\* The invariant holds at every step of every sequence of runs.
THEOREM Invariance == Spec => []Inv
<1>1. Inv /\ [Next]_vars => Inv'
  BY StepInv
<1>2. QED
  BY InitSafe, <1>1, PTL DEF Spec

\* Every variable keeps its type: a step never copies, renames or deletes at a place
\* that is none, and the manifest only records known states.
THEOREM TypeCorrect == Spec => []TypeOK
<1>1. Inv => TypeOK
  BY DEF Inv
<1>2. QED
  BY Invariance, <1>1, PTL

\* While there is a transaction the disk holds the whole old deployment, or the whole
\* new one is live, whatever was interrupted and however often; of a transaction whose
\* deletion was interrupted, at worst the old stable tree and the whole new caches.
THEOREM NothingIsLost == Spec => []NothingLost
<1>1. Inv => NothingLost
  <2> SUFFICES ASSUME Inv, manifest # "none" PROVE Held \/ NewLive
    BY DEF NothingLost, Held
  <2>1. CASE pc = "idle"
    BY <2>1, RestorableIsHeld DEF Inv, AtRest
  <2>2. CASE pc \in (DeploySteps \ {"admit", "finishing"}) \cup RecoverySteps
    BY <2>2, Interrupted, RestorableIsHeld
  <2>3. CASE pc = "finishing"
    BY <2>3, LastStep
  <2>4. CASE pc = "admit"
    BY <2>4 DEF Inv, Phase
  <2>5. QED
    BY <2>1, <2>2, <2>3, <2>4 DEF Inv, TypeOK
<1>2. QED
  BY Invariance, <1>1, PTL

\* A run that reports success, a rollback or a failed rollback has left the disk as it says.
THEOREM ReportsAreTrue == Spec => []ReportIsTrue
<1>1. Inv => ReportIsTrue
  BY DEF Inv
<1>2. QED
  BY Invariance, <1>1, PTL

\* Only the last deletion of a run that finishes or has rolled back ends a transaction.
LEMMA OnlyTheLastDeletionEnds ==
    ASSUME TypeOK, Next, manifest # "none", manifest' = "none"
    PROVE  \/ Finish /\ Emptied
           \/ Discard /\ Emptied
<1>1. ~Start /\ ~Raise /\ ~Kill
  BY DEF Start, Raise, Kill
<1>2. ~Admit
  BY DEF Admit, Fail, End
<1>3. ~(RecordStart \/ RecordSnapshot \/ RecordStage \/ RecordActivation \/ RecordInstall)
  BY DEF RecordStart, RecordSnapshot, RecordStage, RecordActivation, RecordInstall, Record
<1>4. ~(TakeSnapshot \/ KeepDirectory \/ KeepCaches \/ Stage \/ BackUpStable \/ ActivateStable
        \/ InstallPlugin)
  BY DEF TakeSnapshot, KeepDirectory, KeepCaches, Stage, BackUpStable, ActivateStable, InstallPlugin,
     Copy, Rename, Check
<1>5. ~(CheckPrevious \/ RestorePrevious \/ Verify \/ RetainCaches \/ ReleaseBackup)
  BY DEF CheckPrevious, RestorePrevious, Verify, RetainCaches, ReleaseBackup, Copy, Remove, Check, Fail,
     End
<1>6. ~(Recover \/ DropOldBackup \/ CopyRecovery \/ DropStable \/ Swing)
  BY DEF Recover, DropOldBackup, CopyRecovery, DropStable, Swing, Copy, Remove, Rename, Check, Refuse,
     End
<1>7. ~(CheckCaches \/ DropCaches \/ CopyCaches \/ Clean)
  BY DEF CheckCaches, DropCaches, CopyCaches, Clean, Copy, Remove, Check, Refuse, End
<1>8. \A next : ~RemoveEntry(next)
  BY RemoveEntryMoves
<1>9. Finish => Emptied
  BY <1>8 DEF Finish
<1>10. Discard => Emptied
  BY <1>8 DEF Discard
<1>11. QED
  BY <1>1, <1>2, <1>3, <1>4, <1>5, <1>6, <1>7, <1>9, <1>10 DEF Next, Deploy, RollBack

\* A transaction directory disappears only with the live trees whole and no switch path left.
THEOREM TransactionsEndWhole == Spec => EndsWhole
<1>1. Inv /\ [Next]_vars =>
        [manifest # "none" /\ manifest' = "none" =>
            NoSwitches' /\ IF pc = "finishing" THEN NewLive ELSE OldLive]_vars
  <2> SUFFICES ASSUME Inv, Next, manifest # "none", manifest' = "none"
               PROVE  NoSwitches' /\ IF pc = "finishing" THEN NewLive ELSE OldLive
    OBVIOUS
  <2>1. (Finish /\ Emptied) \/ (Discard /\ Emptied)
    BY OnlyTheLastDeletionEnds DEF Inv
  <2>2. CASE Finish /\ Emptied
    <3>1. pc = "finishing" /\ NewLive /\ NoSwitches
      BY <2>2, LastStep DEF Finish
    <3>2. ~RemoveEntry("finishing")
      BY RemoveEntryMoves DEF Inv
    <3>3. UNCHANGED tree
      BY <2>2, <3>2 DEF Finish
    <3>4. QED
      BY <3>1, <3>3 DEF NoSwitches, Exists
  <2>3. CASE Discard /\ Emptied
    <3>1. pc = "discard" /\ pc \in RecoverySteps
      BY <2>3 DEF Discard, RecoverySteps
    <3>2. OldLive /\ NoSwitches
      BY <3>1, Underway DEF AtRecovery
    <3>3. ~RemoveEntry("discard")
      BY RemoveEntryMoves DEF Inv
    <3>4. UNCHANGED tree
      BY <2>3, <3>3 DEF Discard
    <3>5. QED
      BY <3>1, <3>2, <3>4 DEF NoSwitches, Exists
  <2>4. QED
    BY <2>1, <2>2, <2>3
<1>2. QED
  BY Invariance, <1>1, PTL DEF Spec, EndsWhole

\* A run refuses to recover a transaction only if that one was interrupted in a window.
THEOREM OnlyDamageIsRefused == Spec => RefusesOnlyDamage
<1>1. Inv /\ [Next]_vars => [Refuses => damaged # {}]_vars
  <2> SUFFICES ASSUME Inv, Next, Refuses, damaged = {} PROVE FALSE
    OBVIOUS
  <2>1. /\ pc \in {"recover", "check caches"} /\ pc \in RecoverySteps \ Windows /\ pc' = "idle"
        /\ kills' = kills /\ raises' = raises
    BY DEF Refuses, RecoverySteps, Windows
  <2>2. Recoverable /\ Recorded /\ TypeOK
    BY <2>1, Interrupted, Underway
  <2>3. ~Start /\ ~Deploy
    <3>1. ~(Start \/ Admit \/ RecordStart \/ TakeSnapshot \/ KeepDirectory \/ KeepCaches
            \/ RecordSnapshot \/ Stage \/ RecordStage \/ BackUpStable \/ ActivateStable)
      BY <2>1 DEF Start, Admit, RecordStart, TakeSnapshot, KeepDirectory, KeepCaches, RecordSnapshot,
         Stage, RecordStage, BackUpStable, ActivateStable
    <3>2. ~(RecordActivation \/ InstallPlugin \/ RecordInstall \/ CheckPrevious \/ RestorePrevious
            \/ Verify \/ RetainCaches \/ ReleaseBackup \/ Finish)
      BY <2>1 DEF RecordActivation, InstallPlugin, RecordInstall, CheckPrevious, RestorePrevious,
         Verify, RetainCaches, ReleaseBackup, Finish
    <3>3. QED
      BY <3>1, <3>2 DEF Deploy
  <2>4. ~Raise /\ ~Kill
    <3>1. (Raise => raises' = raises + 1) /\ (Kill => kills' = kills + 1)
      BY DEF Raise, Kill
    <3>2. raises + 1 # raises /\ kills + 1 # kills
      BY <2>2 DEF TypeOK
    <3>3. QED
      BY <2>1, <3>1, <3>2
  <2>5. CASE Recover
    <3>1. Readable /\ IF Begun THEN Untouched ELSE Standing \/ FromBackup \/ FromSnapshot
      BY <2>2 DEF Recoverable, OldLive, Untouched
    <3>2. pc' # "idle"
      BY <2>5, <3>1 DEF Recover, Check, Goto
    <3>3. QED
      BY <2>1, <3>2
  <2>6. CASE CheckCaches
    <3>1. pc = "check caches" /\ ~Begun
      BY <2>1, <2>6, Underway DEF CheckCaches, AtRecovery, Under
    <3>2. SnapshotUsable
      BY <2>2, <3>1 DEF Recoverable, KeptUsable, KeptWhole, Recorded, SnapshotUsable
    <3>3. pc' # "idle"
      BY <2>6, <3>2 DEF CheckCaches, Check, Goto
    <3>4. QED
      BY <2>1, <3>3
  <2>7. ~(DropOldBackup \/ CopyRecovery \/ DropStable \/ Swing \/ DropCaches \/ CopyCaches \/ Clean
          \/ Discard)
    BY <2>1 DEF DropOldBackup, CopyRecovery, DropStable, Swing, DropCaches, CopyCaches, Clean, Discard
  <2>8. QED
    BY <2>3, <2>4, <2>5, <2>6, <2>7 DEF Next, RollBack
<1>2. QED
  BY Invariance, <1>1, PTL DEF Spec, RefusesOnlyDamage
=============================================================================
