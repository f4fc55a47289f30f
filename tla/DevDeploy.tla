------------------------------- MODULE DevDeploy -------------------------------
(***************************************************************************)
(* The development deployment, deploy(execute=True) of scripts/dev_deploy.py *)
(* with stage_runtime_bundle of scripts/runtime_bundle.py: snapshot the    *)
(* stable tree and the plugin cache, stage the new bundle, switch it in by *)
(* two renames, let `codex plugin add` fill the cache, keep the new and    *)
(* the previous version, delete the transaction; roll back on any failure, *)
(* and resume the rollback of an interrupted run at the start of the next. *)
(*                                                                         *)
(* A step is one change of the disk; what the code reads and compares      *)
(* before a change is part of the step.  shutil.rmtree and shutil.copytree *)
(* are two steps, the first leaves a torn tree.  A run may be killed, or a  *)
(* call of it may raise, at any step in Interruptible.  The operation lock *)
(* is held from the recovery to the return and a run that does not get it  *)
(* changes nothing, so runs follow one another and the lock is left out.   *)
(***************************************************************************)
EXTENDS Naturals, FiniteSets

CONSTANTS
    Versions,       \* versions of the plugin
    None,           \* no version
    Interruptible,  \* the steps at which a run may be killed or a call may raise
    MaxRuns,        \* bound: runs started
    MaxKills,       \* bound: runs killed
    MaxRaises       \* bound: calls that raise

ASSUME VersionAssumption == None \notin Versions
ASSUME BoundAssumption == MaxRuns \in Nat /\ MaxKills \in Nat /\ MaxRaises \in Nat

VARIABLES
    tree,      \* what is at each place of the disk
    manifest,  \* the transaction directory: none, bare, or the state its manifest records
    facts,     \* what the manifest records besides its state
    pc,        \* the next step of the run
    mode,      \* is it resuming an interrupted run, deploying, or rolling back
    report,    \* how the last run ended
    runs, kills, raises,
    damaged    \* history: the Windows in which this transaction was interrupted

bounds == <<runs, kills, raises, damaged>>
vars == <<tree, manifest, facts, pc, mode, report, runs, kills, raises, damaged>>

(***************************************************************************)
(* Places and trees.  Two trees are equal when their digests are.  Dirty   *)
(* is a complete cache of a version that is not exactly its bundle (extra  *)
(* bytecode); a torn tree is equal to no recorded one.                     *)
(***************************************************************************)
Place(root, name) == [root |-> root, name |-> name]
Stable == Place("stable", None)
Staging == Place("staging", None)
Backup == Place("backup", None)
Recovery == Place("recovery", None)
Snapshot == Place("snapshot", None)      \* transaction/stable
KeptDir == Place("kept", None)           \* transaction/cache
Kept(v) == Place("kept", v)
Cache(v) == Place("cache", v)
Switches == {Staging, Backup, Recovery}
InTransaction == {Snapshot, KeptDir} \cup {Kept(v) : v \in Versions}
Places == {Stable} \cup Switches \cup InTransaction \cup {Cache(v) : v \in Versions}

Tree(v, kind) == [of |-> v, kind |-> kind]
NoTree == Tree(None, "absent")
EmptyDir == Tree(None, "dir")
Bundle(v) == Tree(v, "exact")
Torn(t) == [t EXCEPT !.kind = "torn"]
IsTorn(t) == t.kind = "torn"
WholeTrees == [of : Versions, kind : {"exact", "dirty"}]

Exists(p) == tree[p] # NoTree
Names == {v \in Versions : Exists(Cache(v))}
LiveCache == [v \in Versions |-> tree[Cache(v)]]
Source == Bundle(facts.target)

States == {"snapshot_started", "snapshot_complete", "stage_complete",
           "stable_activated", "native_install_returned"}
NoFacts == [target |-> None, previous |-> None, stable |-> NoTree,
            cache |-> [v \in Versions |-> NoTree]]
OldNames == {v \in Versions : facts.cache[v] # NoTree}

DeploySteps == {"admit", "record", "snapshot", "keep dir", "keep caches", "snapshot complete",
                "stage", "stage complete", "back up", "activate", "activated", "install",
                "installed", "check previous", "restore previous", "verify", "retain",
                "release", "finish", "finishing"}
RecoverySteps == {"recover", "copy recovery", "drop stable", "swing", "drop old backup",
                  "check caches", "drop caches", "copy caches", "clean", "discard"}

(* The steps that make or delete something the recovery needs whole: the     *)
(* transaction, the backup, the recovery tree and a stable tree it replaces.  *)
Windows == {"record", "release", "finishing", "discard",
            "copy recovery", "drop stable", "swing"}

ASSUME StepAssumption == Interruptible \subseteq DeploySteps \cup RecoverySteps

-----------------------------------------------------------------------------
(* Steps on trees.  next is where the run goes when the call has returned. *)
Goto(next) == pc' = next /\ UNCHANGED <<facts, mode, report, bounds>>

Rename(from, to, next) ==
    /\ tree' = [tree EXCEPT ![to] = tree[from], ![from] = NoTree]
    /\ Goto(next) /\ UNCHANGED manifest

(* shutil.rmtree *)
Remove(p, next) ==
    /\ tree' = [tree EXCEPT ![p] = IF IsTorn(@) THEN NoTree ELSE Torn(@)]
    /\ Goto(IF IsTorn(tree[p]) THEN next ELSE pc) /\ UNCHANGED manifest

(* shutil.copytree of a tree to a place where there is none *)
Copy(t, p, next) ==
    /\ tree' = [tree EXCEPT ![p] = IF Exists(p) THEN t ELSE Torn(t)]
    /\ Goto(IF Exists(p) THEN next ELSE pc) /\ UNCHANGED manifest

(* _write_json_atomic of the manifest with a new state *)
Record(state, next) == manifest' = state /\ Goto(next) /\ UNCHANGED tree

Check(next) == Goto(next) /\ UNCHANGED <<tree, manifest>>

End(how) ==
    /\ report' = how /\ pc' = "idle"
    /\ UNCHANGED <<tree, manifest, facts, mode, bounds>>

(* An exception while deploying: roll back if there is a transaction. *)
Fail ==
    \/ /\ manifest # "none"
       /\ pc' = "recover" /\ mode' = "rollback"
       /\ UNCHANGED <<tree, manifest, facts, report, bounds>>
    \/ manifest = "none" /\ End("deploy_failed")

(* An exception while recovering. *)
Refuse == End(IF mode = "rollback" THEN "rollback_failed" ELSE "deploy_failed")

Init ==
    /\ \E stable \in WholeTrees, cache \in [Versions -> WholeTrees \cup {NoTree}] :
          /\ \A v \in Versions : cache[v] # NoTree => cache[v].of = v
          /\ tree = [p \in Places |-> CASE p = Stable -> stable
                                        [] p.root = "cache" -> cache[p.name]
                                        [] OTHER -> NoTree]
    /\ manifest = "none" /\ facts = NoFacts
    /\ pc = "idle" /\ mode = "resume" /\ report = "none"
    /\ runs = 0 /\ kills = 0 /\ raises = 0 /\ damaged = {}

-----------------------------------------------------------------------------
(* A run: recover what an earlier one left, then deploy. *)
Start ==
    /\ pc = "idle" /\ runs < MaxRuns
    /\ pc' = IF manifest = "none" THEN "admit" ELSE "recover"
    /\ mode' = IF manifest = "none" THEN "deploy" ELSE "resume"
    /\ report' = "none" /\ runs' = runs + 1
    /\ UNCHANGED <<tree, manifest, facts, kills, raises, damaged>>

(* _select_previous and _verify_previous_bundle *)
Admissible(target, previous) ==
    /\ target \notin Names
    /\ IF Names = {} THEN previous = None
       ELSE /\ previous \in Names /\ Cardinality(Names) <= 2
            /\ tree[Cache(previous)] = Bundle(previous)

Admit ==
    /\ pc = "admit"
    /\ \E target \in Versions, previous \in Versions \cup {None} :
          \/ /\ Admissible(target, previous)
             /\ facts' = [target |-> target, previous |-> previous,
                          stable |-> tree[Stable], cache |-> LiveCache]
             /\ manifest' = "bare" /\ pc' = "record"
             /\ UNCHANGED <<tree, mode, report, bounds>>
          \/ ~Admissible(target, previous) /\ Fail

(* _create_snapshot *)
RecordStart == pc = "record" /\ Record("snapshot_started", "snapshot")
TakeSnapshot == pc = "snapshot" /\ Copy(tree[Stable], Snapshot, "keep dir")
KeepDirectory ==
    /\ pc = "keep dir"
    /\ tree' = [tree EXCEPT ![KeptDir] = EmptyDir]
    /\ Goto("keep caches") /\ UNCHANGED manifest
Unkept == {v \in OldNames : tree[Kept(v)] # facts.cache[v]}
KeepCaches ==
    /\ pc = "keep caches"
    /\ \/ \E v \in Unkept :
             /\ \A u \in Unkept \ {v} : ~Exists(Kept(u))
             /\ Copy(tree[Cache(v)], Kept(v), "keep caches")
       \/ Unkept = {} /\ Check("snapshot complete")
RecordSnapshot == pc = "snapshot complete" /\ Record("snapshot_complete", "stage")

(* stage_runtime_bundle, verified, then the switch *)
Stage == pc = "stage" /\ Copy(Source, Staging, "stage complete")
RecordStage == pc = "stage complete" /\ Record("stage_complete", "back up")
BackUpStable == pc = "back up" /\ Rename(Stable, Backup, "activate")
ActivateStable == pc = "activate" /\ Rename(Staging, Stable, "activated")
RecordActivation == pc = "activated" /\ Record("stable_activated", "install")

(* `codex plugin add`, an external program: it installs the target from    *)
(* stable, wholly, in part or not at all, and may take other versions away *)
(* or spoil them.                                                          *)
InstallPlugin ==
    /\ pc = "install"
    /\ \E t \in {NoTree, Bundle(facts.target), Torn(Bundle(facts.target))},
          gone \in SUBSET OldNames, spoilt \in SUBSET OldNames :
          tree' = [p \in Places |->
                     CASE p = Cache(facts.target) -> t
                       [] p.root = "cache" /\ p.name \in gone -> NoTree
                       [] p.root = "cache" /\ p.name \in spoilt \ gone -> Torn(tree[p])
                       [] OTHER -> tree[p]]
    /\ Goto("installed") /\ UNCHANGED manifest

(* The return code is recorded before it is looked at. *)
RecordInstall ==
    /\ pc = "installed" /\ manifest' = "native_install_returned"
    /\ \E installed \in BOOLEAN :
          /\ pc' = IF installed THEN "check previous" ELSE "recover"
          /\ mode' = IF installed THEN mode ELSE "rollback"
    /\ UNCHANGED <<tree, facts, report, bounds>>

(* _restore_previous *)
PreviousPlace == Cache(facts.previous)
PreviousFact == facts.cache[facts.previous]
CheckPrevious ==
    /\ pc = "check previous"
    /\ \/ facts.previous = None /\ Check("verify")
       \/ /\ facts.previous # None
          /\ \/ ~Exists(PreviousPlace) /\ Check("restore previous")
             \/ tree[PreviousPlace] = PreviousFact /\ Check("verify")
             \/ Exists(PreviousPlace) /\ tree[PreviousPlace] # PreviousFact /\ Fail
RestorePrevious ==
    pc = "restore previous" /\ Copy(tree[Kept(facts.previous)], PreviousPlace, "verify")

(* Mutant: the return code of the install is trusted. *)
Mut_TrustReturnCode == pc = "verify" /\ Check("retain")

(* The bundles of target and stable; a source that changed is a Raise. *)
Verify ==
    /\ pc = "verify"
    /\ \/ tree[Cache(facts.target)] = Source /\ tree[Stable] = Source /\ Check("retain")
       \/ tree[Cache(facts.target)] # Source /\ Fail

(* Older caches go, then the backup, then the transaction. *)
\* (What is checked again after the removal cannot fail: nobody else writes.)
Keep == {facts.target, facts.previous} \ {None}
RetainCaches ==
    /\ pc = "retain"
    /\ \/ \E v \in Names \ Keep : Remove(Cache(v), "retain")
       \/ Names = Keep /\ Check("release")
ReleaseBackup == pc = "release" /\ Remove(Backup, "finish")

(* shutil.rmtree(transaction): its entries in no particular order, then itself *)
RemoveEntry(next) ==
    /\ \/ \E p \in InTransaction :
             /\ Exists(p) /\ (p = KeptDir => \A v \in Versions : ~Exists(Kept(v)))
             /\ tree' = [tree EXCEPT ![p] = NoTree]
             /\ UNCHANGED manifest
       \/ manifest \in States /\ manifest' = "bare" /\ UNCHANGED tree
    /\ Goto(next)
Emptied == manifest = "bare" /\ \A p \in InTransaction : ~Exists(p)

Finish ==
    /\ pc \in {"finish", "finishing"}
    /\ \/ RemoveEntry("finishing")
       \/ /\ Emptied /\ manifest' = "none"
          /\ pc' = "idle" /\ report' = "deploy_succeeded" /\ damaged' = {}
          /\ UNCHANGED <<tree, facts, mode, runs, kills, raises>>

-----------------------------------------------------------------------------
(* _recover_transaction: how the stable tree can be restored from what is found *)
Untouched == tree[Stable] = facts.stable /\ LiveCache = facts.cache
(* Mutant: a stable tree that is missing altogether is not restored. *)
Mut_StableMustExist == tree[Stable] = Source /\ Source # facts.stable

ToPutBack == ~Exists(Stable) \/ (tree[Stable] = Source /\ Source # facts.stable)
FromBackup == ToPutBack /\ Exists(Backup) /\ tree[Backup] = facts.stable
FromSnapshot ==
    ToPutBack /\ ~Exists(Backup) /\ tree[Snapshot] = facts.stable /\ ~Exists(Recovery)
Standing == tree[Stable] = facts.stable
Readable == manifest \in States
Begun == manifest = "snapshot_started"

(* _restore_stable_snapshot, or the refusal to guess *)
Recover ==
    /\ pc = "recover"
    /\ \/ Readable /\ Begun /\ Untouched /\ Check("clean")
       \/ Readable /\ ~Begun /\ Standing
          /\ Check(IF Exists(Backup) THEN "drop old backup" ELSE "check caches")
       \/ Readable /\ ~Begun /\ FromBackup
          /\ Check(IF Exists(Stable) THEN "drop stable" ELSE "swing")
       \/ Readable /\ ~Begun /\ FromSnapshot /\ Check("copy recovery")
       \/ ~(Readable /\ IF Begun THEN Untouched ELSE Standing \/ FromBackup \/ FromSnapshot)
          /\ Refuse
DropOldBackup == pc = "drop old backup" /\ Remove(Backup, "check caches")
CopyRecovery ==
    /\ pc = "copy recovery"
    /\ Copy(tree[Snapshot], Recovery, IF Exists(Stable) THEN "drop stable" ELSE "swing")
DropStable == pc = "drop stable" /\ Remove(Stable, "swing")
Swing ==
    pc = "swing" /\ Rename(IF Exists(Backup) THEN Backup ELSE Recovery, Stable, "check caches")

(* _restore_cache_snapshot *)
(* Mutant: the live caches are cleared before the snapshot is looked at. *)
Mut_SnapshotUnchecked == Names \subseteq OldNames \cup {facts.target}

SnapshotUsable ==
    /\ Exists(KeptDir)
    /\ \A v \in Versions : tree[Kept(v)] = facts.cache[v]
    /\ Names \subseteq OldNames \cup {facts.target}
CheckCaches ==
    /\ pc = "check caches"
    /\ \/ SnapshotUsable /\ Check("drop caches")
       \/ ~SnapshotUsable /\ Refuse
\* (in no particular order)
DropCaches ==
    /\ pc = "drop caches"
    /\ \/ \E v \in Names : Remove(Cache(v), "drop caches")
       \/ Names = {} /\ Check("copy caches")

(* Mutant: only the previous version is restored. *)
Mut_OnlyPrevious ==
    {v \in OldNames \cap {facts.previous} : tree[Cache(v)] # facts.cache[v]}

Uncopied == {v \in OldNames : tree[Cache(v)] # facts.cache[v]}
CopyCaches ==
    /\ pc = "copy caches"
    /\ \/ \E v \in Uncopied :
             /\ \A u \in Uncopied \ {v} : ~Exists(Cache(u))
             /\ Copy(tree[Kept(v)], Cache(v), "copy caches")
       \/ Uncopied = {} /\ Check("clean")

(* The switch paths in the code's order, then the transaction *)
Leftover == IF Exists(Staging) THEN Staging ELSE IF Exists(Backup) THEN Backup ELSE Recovery
Clean ==
    /\ pc = "clean"
    /\ \/ Exists(Leftover) /\ Remove(Leftover, "clean")
       \/ ~Exists(Leftover) /\ Check("discard")
Discard ==
    /\ pc = "discard"
    /\ \/ RemoveEntry("discard")
       \/ /\ Emptied /\ manifest' = "none"
          /\ pc' = IF mode = "resume" THEN "admit" ELSE "idle"
          /\ mode' = "deploy"
          /\ report' = IF mode = "resume" THEN report ELSE "deploy_failed_rolled_back"
          /\ damaged' = {} /\ UNCHANGED <<tree, facts, runs, kills, raises>>

-----------------------------------------------------------------------------
(* A call raises: an I/O error, a source that changed.  stage_runtime_bundle *)
(* takes away what it has staged.                                          *)
Raise ==
    /\ pc \in Interruptible /\ raises < MaxRaises
    /\ raises' = raises + 1 /\ damaged' = damaged \cup ({pc} \cap Windows)
    /\ tree' = IF pc = "stage" THEN [tree EXCEPT ![Staging] = NoTree] ELSE tree
    /\ LET rollback == mode = "deploy" /\ manifest # "none"
       IN /\ pc' = IF rollback THEN "recover" ELSE "idle"
          /\ mode' = IF rollback THEN "rollback" ELSE mode
          /\ report' = CASE rollback -> report
                         [] mode = "rollback" -> "rollback_failed"
                         [] OTHER -> "deploy_failed"
    /\ UNCHANGED <<manifest, facts, runs, kills>>

Kill ==
    /\ pc \in Interruptible /\ kills < MaxKills
    /\ kills' = kills + 1 /\ damaged' = damaged \cup ({pc} \cap Windows)
    /\ pc' = "idle" /\ report' = "killed"
    /\ UNCHANGED <<tree, manifest, facts, mode, runs, raises>>

Deploy ==
    \/ Admit \/ RecordStart \/ TakeSnapshot \/ KeepDirectory \/ KeepCaches \/ RecordSnapshot
    \/ Stage \/ RecordStage \/ BackUpStable \/ ActivateStable \/ RecordActivation
    \/ InstallPlugin \/ RecordInstall \/ CheckPrevious \/ RestorePrevious \/ Verify
    \/ RetainCaches \/ ReleaseBackup \/ Finish
RollBack ==
    \/ Recover \/ DropOldBackup \/ CopyRecovery \/ DropStable \/ Swing
    \/ CheckCaches \/ DropCaches \/ CopyCaches \/ Clean \/ Discard
Next == Start \/ Deploy \/ RollBack \/ Raise \/ Kill

Spec == Init /\ [][Next]_vars

-----------------------------------------------------------------------------
(* What the deployment promises.                                           *)
OldStable == \E p \in {Stable, Backup, Recovery, Snapshot} : tree[p] = facts.stable
OldCaches == \A v \in OldNames :
                facts.cache[v] \in {tree[Cache(v)], tree[Kept(v)]}
OldLive == tree[Stable] = facts.stable /\ LiveCache = facts.cache
NewCaches ==
    /\ Names = Keep /\ tree[Cache(facts.target)] = Source
    /\ facts.previous # None => tree[PreviousPlace] = PreviousFact
NewLive == tree[Stable] = Source /\ NewCaches
NoSwitches == \A p \in Switches : ~Exists(p)

(* The deletion of this transaction, of a verified deployment, was interrupted: *)
(* what it recorded of the old caches may be gone.                         *)
Spent == "finishing" \in damaged

(* While there is a transaction the disk holds the whole old deployment    *)
(* (stable, every cache), or the whole new one is live: whatever was       *)
(* interrupted, however often, nothing an operator would need is gone.     *)
(* At worst, and only once the transaction is spent, a run has put the old *)
(* stable back, or has begun to, beside the whole new caches.              *)
NothingLost ==
    manifest # "none" =>
       (OldStable /\ OldCaches) \/ NewLive \/ (Spent /\ OldStable /\ NewCaches)

(* What a run reports is so: success means that exactly the target and the *)
(* untouched previous version are installed, a rollback that exactly the   *)
(* old deployment is, and a rollback that failed has kept the old one, or, *)
(* of a spent transaction, the new one but for its stable tree.            *)
ReportIsTrue ==
    /\ report = "deploy_succeeded" => NewLive /\ manifest = "none"
    /\ report = "deploy_failed_rolled_back" => OldLive /\ manifest = "none"
    /\ report = "rollback_failed" =>
          /\ manifest # "none"
          /\ (OldStable /\ OldCaches) \/ (Spent /\ (NewLive \/ (OldStable /\ NewCaches)))

(* A transaction directory disappears only with the live trees whole, all  *)
(* old after a rollback, in this run or a later one, all new after success, *)
(* and with no switch path left: an orphan would make every later run       *)
(* refuse.                                                                  *)
EndsWhole ==
    [][manifest # "none" /\ manifest' = "none" =>
          NoSwitches' /\ IF pc = "finishing" THEN NewLive ELSE OldLive]_vars

(* The run refuses to recover the transaction it finds, or its own.          *)
Refuses ==
    /\ pc' = "idle" /\ pc \in {"recover", "check caches"}
    /\ kills' = kills /\ raises' = raises

(* Whatever else was interrupted, and however often, a run refuses a transaction *)
(* only if that one was interrupted in a window: everywhere else the recovery    *)
(* finds its way.                                                                *)
RefusesOnlyDamage == [][Refuses => damaged # {}]_vars

(* "An interrupted transaction restores the stable tree and the complete set   *)
(* of caches" (docs/architecture.md): a run never refuses.                     *)
NeverRefuses == [][~Refuses]_vars
=============================================================================
