----------------------- MODULE ContextVerificationProofs -----------------------
(***************************************************************************)
(* Theorems about ContextVerification, for any number of paths, changes    *)
(* and failing calls.                                                      *)
(*                                                                         *)
(* The history variables follow the workspace (Witness).  While a file is  *)
(* read, a path that still has the stamp of its open has the content that  *)
(* was read (OpenFile): that is what the second fstat and the stat of the  *)
(* path are for.  A digest is therefore of a content the path had, and     *)
(* one that is not as expected has been seen to stray (Digests).           *)
(***************************************************************************)
EXTENDS ContextVerification, TLAPS

\* The history variables have seen what the workspace is like now, and a change
\* gives a path a stamp it did not have.
Witness ==
    /\ pc # "idle" =>
          /\ \A p \in Path : disk[p].kind = "file" => disk[p].content \in seen[p]
          /\ Strays => strayed = TRUE
    /\ \A p \in Path : disk[p].stamp <= changes
    /\ before <= changes

ReadSteps == {"read", "after", "current"}
FileSteps == {"locate", "open", "recheck"} \cup ReadSteps
GitSteps == {"head", "tree", "status", "headAgain"}

\* The path still has the stamp of the open: then it is the file that is open, and
\* its content is what was read of it.
OpenFile ==
    pc \in ReadSteps /\ disk[at].kind = "file" /\ disk[at].stamp = before =>
        /\ fd.path = at /\ fd.content = disk[at].content
        /\ acc = disk[at].content \/ (acc = Unread /\ pc = "read")

\* What the digests tell, and where there is one.
Digests ==
    /\ \A p \in Path : digest[p] # Unread =>
          /\ digest[p] \in seen[p]
          /\ baseline = "git_commit" => digest[p] = "old"
          /\ ~Expects(p, digest[p]) => strayed = TRUE
    /\ pc \in {"head", "tree"} => at = 1
    /\ pc \in FileSteps => \A p \in 1..(at - 1) : digest[p] # Unread
    /\ pc \in {"status", "headAgain", "compare"} => \A p \in Path : digest[p] # Unread
    /\ use = "claim" => \A p \in Path :
          recorded[p] # Unread /\ (baseline = "git_commit" => recorded[p] = "old")

\* What a verdict rests on.
Verdicts ==
    /\ pc \in GitSteps => baseline = "git_commit"
    /\ pc # "ended" => verdict = "none"
    /\ verdict = "conflict" => strayed = TRUE
    /\ verdict = "verified" =>
          /\ \A p \in Path : digest[p] # Unread
          /\ use = "claim" => digest = recorded

CInv == TypeOK /\ Witness /\ OpenFile /\ Digests /\ Verdicts

LEMMA PathFacts == Paths \in Nat /\ Paths >= 1 /\ 1 \in Path /\ Path \subseteq Nat
BY ManifestAssumption DEF Path

\* Initially nothing is verified.
LEMMA ContextInit == Init => CInv
<1> SUFFICES ASSUME Init PROVE CInv
  OBVIOUS
<1>1. TypeOK
  <2>1. /\ disk \in [Path -> [kind : Kinds, content : Contents, stamp : Stamps]]
        /\ fd \in [content : Contents, stamp : Stamps, path : Path \cup {0}]
    BY ManifestAssumption DEF Init, Kinds, Contents, Stamps, Closed
  <2>2. tree \in [Path -> Entries]
    BY DEF Init, Entries
  <2>3. /\ seen \in [Path -> SUBSET Contents]
        /\ digest \in [Path -> Contents \cup {Unread}]
        /\ recorded \in [Path -> Contents \cup {Unread}]
    BY DEF Init, NoDigest
  <2>4. before \in Stamps /\ changes \in 0..MaxChanges /\ faults \in 0..MaxFaults
    BY ManifestAssumption DEF Init, Stamps
  <2>5. after \in Stamps
    BY ManifestAssumption DEF Init, Stamps
  <2> QED
    BY <2>1, <2>2, <2>3, <2>4, <2>5, PathFacts DEF Init, TypeOK
<1>2. Witness
  BY DEF Init, Witness
<1>3. OpenFile /\ Digests /\ Verdicts
  BY DEF Init, OpenFile, ReadSteps, FileSteps, Digests, NoDigest, Verdicts, GitSteps
<1> QED
  BY <1>1, <1>2, <1>3 DEF CInv

-----------------------------------------------------------------------------
(* The steps of the others *)

\* What a change leaves alone, and how the history follows it.
LEMMA EditFacts ==
    ASSUME CInv, Edits
    PROVE  /\ changes' = changes + 1 /\ changes \in Nat /\ changes' \in 0..MaxChanges
           /\ UNCHANGED <<baseline, tree, use, pc, at, before, after, acc, chunk,
                          digest, recorded, verdict, late, faults>>
           /\ \A p \in Path : seen[p] \subseteq seen'[p]
           /\ \A p \in Path : disk'[p].kind = "file" => disk'[p].content \in seen'[p]
           /\ strayed = TRUE => strayed' = TRUE
           /\ Strays' => strayed' = TRUE
           /\ strayed' \in BOOLEAN
<1> USE ManifestAssumption DEF Edits
<1>1. changes \in 0..MaxChanges /\ strayed \in BOOLEAN /\ seen \in [Path -> SUBSET Contents]
  BY DEF CInv, TypeOK
<1>2. /\ changes' = changes + 1 /\ changes \in Nat /\ changes' \in 0..MaxChanges
  BY <1>1
<1>3. UNCHANGED <<baseline, tree, use, pc, at, before, after, acc, chunk, digest, recorded,
                  verdict, late, faults>>
  OBVIOUS
<1>4. \A p \in Path : seen'[p] = IF disk'[p].kind = "file" THEN seen[p] \cup {disk'[p].content}
                                 ELSE seen[p]
  BY DEF Witnessed
<1>5. strayed' = (strayed \/ Strays')
  BY DEF Witnessed
<1>6. /\ strayed = TRUE => strayed' = TRUE
      /\ Strays' => strayed' = TRUE
      /\ strayed' \in BOOLEAN
  BY <1>1, <1>5, Zenon
<1> QED
  BY <1>2, <1>3, <1>4, <1>6

\* Nothing the verification knows is undone by a change that leaves its path
\* alone or gives it a new stamp.
LEMMA ChangeKeeps ==
    ASSUME CInv, Edits, NEW p \in Path, disk' \in [Path -> [kind : Kinds, content : Contents, stamp : Stamps]],
           fd' \in [content : Contents, stamp : Stamps, path : Path \cup {0}],
           head' \in BOOLEAN, index' \in BOOLEAN,
           disk'[p].stamp <= changes',
           \A q \in Path : disk'[q] = disk[q] \/ (q = p /\ disk'[q].stamp = changes'),
           fd.path # 0 /\ disk'[fd.path] = disk[fd.path] => fd' = fd
    PROVE  CInv'
<1> HIDE DEF Edits
<1>0. TypeOK /\ Witness /\ OpenFile /\ Digests /\ Verdicts
  BY DEF CInv
<1>1. TypeOK'
  <2>1. seen' \in [Path -> SUBSET Contents]
    BY <1>0 DEF Edits, Witnessed, TypeOK
  <2> QED
    BY <1>0, <2>1, EditFacts DEF TypeOK
<1>2. Witness'
  <2>1. \A q \in Path : disk'[q].stamp <= changes'
    BY <1>0, <1>1, EditFacts DEF Witness, TypeOK, Stamps
  <2>2. before' <= changes'
    BY <1>0, EditFacts DEF Witness, TypeOK, Stamps
  <2> QED
    BY <2>1, <2>2, EditFacts DEF Witness
<1>3. OpenFile'
  <2> SUFFICES ASSUME pc' \in ReadSteps, disk'[at'].kind = "file", disk'[at'].stamp = before'
               PROVE  /\ fd'.path = at' /\ fd'.content = disk'[at'].content
                      /\ acc' = disk'[at'].content \/ (acc' = Unread /\ pc' = "read")
    BY DEF OpenFile
  <2>1. pc' = pc /\ at' = at /\ before' = before /\ acc' = acc /\ at \in Path /\ before \in Stamps
    BY <1>0, EditFacts DEF TypeOK
  <2>2. before <= changes /\ changes' = changes + 1 /\ changes \in Nat
    BY <1>0, EditFacts DEF Witness
  <2>3. before # changes'
    BY <2>1, <2>2 DEF Stamps
  <2>4. disk'[at] = disk[at]
    BY <2>1, <2>3
  <2>5. fd.path = at /\ fd.content = disk[at].content
        /\ (acc = disk[at].content \/ (acc = Unread /\ pc = "read"))
    BY <1>0, <2>1, <2>4 DEF OpenFile
  <2>6. fd' = fd
    BY <2>1, <2>4, <2>5, PathFacts DEF Path
  <2> QED
    BY <2>1, <2>4, <2>5, <2>6
<1>4. Digests'
  <2>1. \A q \in Path : Expects(q, digest[q])' <=> Expects(q, digest[q])
    BY EditFacts DEF Expects
  <2> QED
    BY <1>0, <2>1, EditFacts DEF Digests
<1>5. Verdicts'
  BY <1>0, EditFacts DEF Verdicts
<1> QED
  BY <1>1, <1>2, <1>3, <1>4, <1>5 DEF CInv

\* Every change is one of these.
LEMMA ChangeStep == ASSUME CInv, Change PROVE CInv'
<1>0. TypeOK /\ changes \in Nat /\ changes + 1 \in Stamps
  <2>1. TypeOK
    BY DEF CInv
  <2>2. Edits
    BY DEF Change, WriteFile, ReplacePath, MoveGit
  <2>3. changes' = changes + 1 /\ changes \in Nat /\ changes' \in 0..MaxChanges
    BY <2>2, EditFacts
  <2> QED
    BY <2>1, <2>3, ManifestAssumption DEF Stamps
<1>1. ASSUME NEW p \in Path, NEW content \in Contents, WriteFile(p, content) PROVE CInv'
  <2>1. Edits /\ changes' = changes + 1 /\ head' = head /\ index' = index
    BY <1>1, EditFacts DEF WriteFile
  <2>2. disk' \in [Path -> [kind : Kinds, content : Contents, stamp : Stamps]]
    BY <1>0, <1>1 DEF WriteFile, TypeOK, Kinds
  <2>3. disk'[p].stamp = changes' /\ \A q \in Path : disk'[q] = disk[q] \/ q = p
    BY <1>0, <1>1, <2>1 DEF WriteFile, TypeOK
  <2>4. fd' \in [content : Contents, stamp : Stamps, path : Path \cup {0}]
    BY <1>0, <1>1 DEF WriteFile, TypeOK
  <2>5. fd.path # 0 /\ disk'[fd.path] = disk[fd.path] => fd' = fd
    <3>1. CASE fd.path = p
      <4>1. disk[p].stamp <= changes
        BY DEF CInv, Witness
      <4>2. disk[p].stamp \in Nat
        BY <1>0 DEF TypeOK, Stamps
      <4>3. disk'[p] # disk[p]
        BY <1>0, <2>1, <2>3, <4>1, <4>2
      <4> QED
        BY <3>1, <4>3
    <3>2. CASE fd.path # p
      BY <1>1, <3>2 DEF WriteFile
    <3> QED
      BY <3>1, <3>2
  <2>6. changes' <= changes' /\ head \in BOOLEAN /\ index \in BOOLEAN
    BY <1>0, <2>1 DEF TypeOK
  <2> QED
    BY <2>1, <2>2, <2>3, <2>4, <2>5, <2>6, ChangeKeeps
<1>2. ASSUME NEW p \in Path, NEW kind \in Kinds, NEW content \in Contents,
             ReplacePath(p, kind, content)
      PROVE  CInv'
  <2>1. Edits /\ changes' = changes + 1 /\ head' = head /\ index' = index
    BY <1>2, EditFacts DEF ReplacePath
  <2>2. disk' \in [Path -> [kind : Kinds, content : Contents, stamp : Stamps]]
    BY <1>0, <1>2 DEF ReplacePath, TypeOK
  <2>3. disk'[p].stamp = changes' /\ \A q \in Path : disk'[q] = disk[q] \/ q = p
    BY <1>0, <1>2, <2>1 DEF ReplacePath, TypeOK
  <2>4. fd' \in [content : Contents, stamp : Stamps, path : Path \cup {0}]
    BY <1>0, <1>2 DEF ReplacePath, TypeOK
  <2>5. fd.path # 0 /\ disk'[fd.path] = disk[fd.path] => fd' = fd
    <3>1. CASE fd.path = p
      <4>1. disk[p].stamp <= changes
        BY DEF CInv, Witness
      <4>2. disk[p].stamp \in Nat
        BY <1>0 DEF TypeOK, Stamps
      <4>3. disk'[p] # disk[p]
        BY <1>0, <2>1, <2>3, <4>1, <4>2
      <4> QED
        BY <3>1, <4>3
    <3>2. CASE fd.path # p
      BY <1>2, <3>2 DEF ReplacePath
    <3> QED
      BY <3>1, <3>2
  <2>6. changes' <= changes' /\ head \in BOOLEAN /\ index \in BOOLEAN
    BY <1>0, <2>1 DEF TypeOK
  <2> QED
    BY <2>1, <2>2, <2>3, <2>4, <2>5, <2>6, ChangeKeeps
<1>3. CASE MoveGit
  <2>1. Edits /\ changes' = changes + 1 /\ disk' = disk /\ fd' = fd
    BY <1>3, EditFacts DEF MoveGit
  <2>2. head' \in BOOLEAN /\ index' \in BOOLEAN
    BY <1>0, <1>3 DEF MoveGit, TypeOK
  <2>3. disk'[1].stamp <= changes'
    BY <1>0, <2>1, PathFacts DEF CInv, Witness, TypeOK, Stamps
  <2> QED
    BY <1>0, <2>1, <2>2, <2>3, PathFacts, ChangeKeeps DEF TypeOK
<1> QED
  BY <1>1, <1>2, <1>3 DEF Change

-----------------------------------------------------------------------------
(* The steps of the verifier *)

PCs == {"idle", "head", "tree", "locate", "open", "read", "after", "current", "recheck",
        "status", "headAgain", "compare", "ended"}

\* The workspace stays as it is, and the history with it.
LEMMA VerifierKeeps ==
    ASSUME CInv, UNCHANGED <<env, use, recorded>>, pc # "idle", before' <= changes
    PROVE  Witness'
<1>1. Strays' <=> Strays
  BY DEF env, Strays, Expects
<1> QED
  BY <1>1 DEF CInv, Witness, env

\* What is not as the verification expects it has been seen to stray.
LEMMA StrayedNow ==
    ASSUME CInv, pc # "idle"
    PROVE  /\ \A p \in Path : disk[p].kind # "file" => strayed = TRUE
           /\ \A p \in Path : ~Expects(p, disk[p].content) => strayed = TRUE
           /\ baseline = "git_commit" /\ (~head \/ ~index \/ \E p \in Path : tree[p] # "blob") =>
                 strayed = TRUE
BY DEF CInv, Witness, Strays

\* The verification ends: with a conflict only if the material strayed.
LEMMA EndKeeps ==
    ASSUME CInv, Running, UNCHANGED <<env, use, recorded, at, before, after, acc, chunk, digest>>,
           fd' \in {fd, Closed}, late' \in BOOLEAN, faults' \in 0..MaxFaults,
           NEW how \in {"verified", "conflict", "unavailable"}, Ends(how),
           how = "conflict" => strayed = TRUE,
           how = "verified" => /\ \A p \in Path : digest[p] # Unread
                               /\ use = "claim" => digest = recorded
    PROVE  CInv'
<1>1. TypeOK'
  <2>1. Closed \in [content : Contents, stamp : Stamps, path : Path \cup {0}]
    BY ManifestAssumption DEF Closed, Contents, Stamps
  <2> QED
    BY <2>1 DEF CInv, TypeOK, Ends, env
<1>2. Witness'
  BY VerifierKeeps DEF CInv, Witness, Running
<1>3. OpenFile'
  BY DEF Ends, OpenFile, ReadSteps
<1>4. Digests'
  BY DEF CInv, Digests, Ends, FileSteps, ReadSteps, Expects, env
<1>5. Verdicts'
  BY DEF Verdicts, Ends, GitSteps, env
<1> QED
  BY <1>1, <1>2, <1>3, <1>4, <1>5 DEF CInv

\* The verification goes on to a step that does not read the open file.
LEMMA GoesKeeps ==
    ASSUME CInv, Running, UNCHANGED <<env, use, recorded, at, before, after, acc, chunk, digest>>,
           fd' \in {fd, Closed}, late' \in BOOLEAN, faults' \in 0..MaxFaults,
           NEW step \in PCs \ (ReadSteps \cup {"idle", "ended"}), Goes(step),
           step \in GitSteps => baseline = "git_commit",
           step \in {"head", "tree"} => at = 1,
           step \in FileSteps => \A p \in 1..(at - 1) : digest[p] # Unread,
           step \in {"status", "headAgain", "compare"} => \A p \in Path : digest[p] # Unread
    PROVE  CInv'
<1>1. TypeOK'
  <2>1. Closed \in [content : Contents, stamp : Stamps, path : Path \cup {0}]
    BY ManifestAssumption DEF Closed, Contents, Stamps
  <2> QED
    BY <2>1 DEF CInv, TypeOK, Goes, env, PCs
<1>2. Witness'
  BY VerifierKeeps DEF CInv, Witness, Running
<1>3. OpenFile'
  BY DEF Goes, OpenFile
<1>4. Digests'
  BY DEF CInv, Digests, Goes, Expects, env
<1>5. Verdicts'
  BY DEF CInv, Verdicts, Goes, env, Running
<1> QED
  BY <1>1, <1>2, <1>3, <1>4, <1>5 DEF CInv

\* Running out of time is no conflict.
LEMMA LateKeeps == ASSUME CInv, Running, Same, OutOfTime PROVE CInv'
<1>1. /\ UNCHANGED <<env, use, recorded, at, before, after, acc, chunk, digest>> /\ fd' = Closed
      /\ late' \in BOOLEAN /\ faults' \in 0..MaxFaults /\ Ends("unavailable")
  BY DEF Same, OutOfTime, Fails, CInv, TypeOK
<1> QED
  BY <1>1, EndKeeps

\* A call begins: what was verified for prepare becomes the record of the claim.
LEMMA StartStep == ASSUME CInv, Start PROVE CInv'
<1>0. TypeOK /\ Witness /\ Digests /\ Verdicts
  BY DEF CInv
<1>1. /\ UNCHANGED <<baseline, disk, head, tree, index, changes, faults>>
      /\ pc' = (IF baseline = "git_commit" THEN "head" ELSE "locate")
      /\ at' = 1 /\ fd' = Closed /\ before' = 0 /\ after' = 0 /\ acc' = Unread /\ chunk' = 0
      /\ digest' = NoDigest /\ verdict' = "none" /\ late' = FALSE
  BY DEF Start
<1>2. /\ seen' = [p \in Path |-> IF disk[p].kind = "file" THEN {disk[p].content} ELSE {}]
      /\ strayed' = Strays'
  BY DEF Start
<1>3. \/ use' = use /\ recorded' = recorded
      \/ use' = "claim" /\ recorded' = digest /\ verdict = "verified" /\ use = "prepare"
  BY DEF Start
<1>4. TypeOK'
  <2>1. Closed \in [content : Contents, stamp : Stamps, path : Path \cup {0}] /\ 0 \in Stamps
    BY ManifestAssumption DEF Closed, Contents, Stamps
  <2>2. seen' \in [Path -> SUBSET Contents]
    BY <1>0, <1>2 DEF TypeOK
  <2>3. digest' \in [Path -> Contents \cup {Unread}]
    BY <1>1 DEF NoDigest
  <2>4. strayed' \in BOOLEAN
    BY <1>2 DEF Strays
  <2>5. use' \in {"prepare", "claim"} /\ recorded' \in [Path -> Contents \cup {Unread}]
    BY <1>0, <1>3 DEF TypeOK
  <2> QED
    BY <1>0, <1>1, <2>1, <2>2, <2>3, <2>4, <2>5, PathFacts DEF TypeOK
<1>5. Witness'
  <2>1. \A p \in Path : disk'[p].kind = "file" => disk'[p].content \in seen'[p]
    BY <1>1, <1>2
  <2>2. Strays' => strayed' = TRUE
    BY <1>2 DEF Strays
  <2>3. before' <= changes' /\ \A p \in Path : disk'[p].stamp <= changes'
    BY <1>0, <1>1 DEF Witness, TypeOK
  <2> QED
    BY <2>1, <2>2, <2>3 DEF Witness
<1>6. OpenFile'
  BY <1>1 DEF OpenFile, ReadSteps
<1>7. Digests'
  <2>1. \A p \in Path : digest'[p] = Unread
    BY <1>1 DEF NoDigest
  <2>2. pc' \notin {"status", "headAgain", "compare"} /\ 1..(at' - 1) = {} /\ at' = 1
    BY <1>1
  <2>3. use' = "claim" => \A p \in Path :
           recorded'[p] # Unread /\ (baseline' = "git_commit" => recorded'[p] = "old")
    BY <1>0, <1>1, <1>3 DEF Digests, Verdicts
  <2> QED
    BY <2>1, <2>2, <2>3 DEF Digests
<1>8. Verdicts'
  BY <1>1 DEF Verdicts, GitSteps
<1> QED
  BY <1>4, <1>5, <1>6, <1>7, <1>8 DEF CInv

\* The commands of the git baseline.
LEMMA GitStep ==
    ASSUME CInv, CheckHead \/ ListTree \/ Status \/ CheckHeadAgain
    PROVE  CInv'
<1>0. /\ Same /\ Running /\ late' \in BOOLEAN /\ faults' \in 0..MaxFaults
      /\ pc \in GitSteps /\ baseline = "git_commit" /\ PathFacts
  BY PathFacts DEF CheckHead, ListTree, Status, CheckHeadAgain, Timed, Same, Running, CInv, TypeOK,
                   Verdicts, GitSteps
<1>1. CASE late /\ OutOfTime
  BY <1>0, <1>1, LateKeeps
<1>2. CASE ~(late /\ OutOfTime)
  <2>1. UNCHANGED <<env, use, recorded, at, before, after, acc, chunk, digest>> /\ fd' = fd
    BY <1>0, <1>2 DEF Same, CheckHead, ListTree, Status, CheckHeadAgain, Timed, reading
  <2>2. \/ Ends("unavailable") \/ (Ends("conflict") /\ strayed = TRUE)
        \/ (Goes("tree") /\ pc = "head") \/ (Goes("locate") /\ pc = "tree")
        \/ (Goes("headAgain") /\ pc = "status") \/ (Goes("compare") /\ pc = "headAgain")
    <3>1. CASE CheckHead
      BY <1>0, <1>2, <3>1, StrayedNow DEF CheckHead, Timed
    <3>2. CASE ListTree
      BY <1>0, <1>2, <3>2, StrayedNow DEF ListTree, Timed
    <3>3. CASE Status
      <4>1. \A p \in Path : disk[p].content # "old" => ~Expects(p, disk[p].content)
        BY <1>0 DEF Expects
      <4> QED
        BY <1>0, <1>2, <3>3, <4>1, StrayedNow DEF Status, Timed
    <3>4. CASE CheckHeadAgain
      BY <1>0, <1>2, <3>4, StrayedNow DEF CheckHeadAgain, Timed
    <3> QED
      BY <3>1, <3>2, <3>3, <3>4
  <2>3. CASE Ends("unavailable") \/ (Ends("conflict") /\ strayed = TRUE)
    BY <1>0, <2>1, <2>3, EndKeeps
  <2>4. CASE Goes("tree") /\ pc = "head"
    BY <1>0, <2>1, <2>4, GoesKeeps DEF PCs, ReadSteps, FileSteps, CInv, Digests
  <2>5. CASE Goes("locate") /\ pc = "tree"
    <3>1. at = 1 /\ 1..(at - 1) = {}
      BY <2>5 DEF CInv, Digests
    <3> QED
      BY <1>0, <2>1, <2>5, <3>1, GoesKeeps DEF PCs, ReadSteps, FileSteps, GitSteps
  <2>6. CASE Goes("headAgain") /\ pc = "status"
    BY <1>0, <2>1, <2>6, GoesKeeps DEF PCs, ReadSteps, FileSteps, CInv, Digests
  <2>7. CASE Goes("compare") /\ pc = "headAgain"
    BY <1>0, <2>1, <2>7, GoesKeeps DEF PCs, ReadSteps, FileSteps, GitSteps, CInv, Digests
  <2> QED
    BY <2>2, <2>3, <2>4, <2>5, <2>6, <2>7
<1> QED
  BY <1>1, <1>2

\* The steps that find the file, or tell what a failed open means.
LEMMA LocateStep ==
    ASSUME CInv, Locate \/ Recheck \/ (Open /\ disk[at].kind # "file")
    PROVE  CInv'
<1>0. /\ Same /\ Running /\ late' \in BOOLEAN /\ faults' \in 0..MaxFaults
      /\ pc \in {"locate", "recheck", "open"} /\ at \in Path
      /\ \A p \in 1..(at - 1) : digest[p] # Unread
  BY DEF Locate, Recheck, Open, Timed, Same, Running, CInv, TypeOK, Digests, FileSteps
<1>1. CASE late /\ OutOfTime
  BY <1>0, <1>1, LateKeeps
<1>2. CASE ~(late /\ OutOfTime)
  <2>1. /\ UNCHANGED <<env, use, recorded, at, before, after, acc, chunk, digest>>
        /\ fd' \in {fd, Closed}
    BY <1>0, <1>2 DEF Same, Locate, Recheck, Open, Timed, reading, Fails, Here
  <2>2. disk[at].kind # "file" => strayed = TRUE
    BY <1>0, StrayedNow DEF Running
  <2>3. \/ Ends("unavailable") \/ (Ends("conflict") /\ strayed = TRUE)
        \/ Goes("open") \/ Goes("recheck")
    BY <1>0, <1>2, <2>2 DEF Locate, Recheck, Open, Timed, Fails, Here
  <2>4. CASE Ends("unavailable") \/ (Ends("conflict") /\ strayed = TRUE)
    BY <1>0, <2>1, <2>4, EndKeeps
  <2>5. CASE Goes("open") \/ Goes("recheck")
    BY <1>0, <2>1, <2>5, GoesKeeps DEF PCs, ReadSteps, FileSteps, GitSteps
  <2> QED
    BY <2>3, <2>4, <2>5
<1> QED
  BY <1>1, <1>2

\* The file is open: nothing is read of it yet.
LEMMA OpenStep == ASSUME CInv, Open, disk[at].kind = "file" PROVE CInv'
<1>0. /\ Same /\ Running /\ late' \in BOOLEAN /\ faults' \in 0..MaxFaults
      /\ pc = "open" /\ at \in Path /\ disk[at] \in [kind : Kinds, content : Contents, stamp : Stamps]
      /\ disk[at].stamp <= changes
  BY DEF Open, Timed, Same, Running, CInv, TypeOK, Witness
<1>1. CASE late /\ OutOfTime
  BY <1>0, <1>1, LateKeeps
<1>2. CASE ~(late /\ OutOfTime)
  <2>1. /\ fd' = [content |-> disk[at].content, stamp |-> disk[at].stamp, path |-> at]
        /\ before' = disk[at].stamp /\ after' = 0 /\ acc' = Unread /\ chunk' = 0
        /\ pc' = "read" /\ verdict' = verdict /\ at' = at /\ digest' = digest
        /\ UNCHANGED <<env, use, recorded>>
    BY <1>0, <1>2 DEF Open, Timed, Here, Goes, Same
  <2>2. TypeOK'
    <3>1. 0 \in Stamps
      BY ManifestAssumption DEF Stamps
    <3> QED
      BY <1>0, <2>1, <3>1 DEF CInv, TypeOK, env
  <2>3. Witness'
    BY <1>0, <2>1, VerifierKeeps DEF Running
  <2>4. OpenFile'
    BY <2>1 DEF OpenFile, env
  <2>5. Digests'
    BY <1>0, <2>1 DEF CInv, Digests, FileSteps, ReadSteps, Expects, env
  <2>6. Verdicts'
    BY <1>0, <2>1 DEF CInv, Verdicts, GitSteps, env
  <2> QED
    BY <2>2, <2>3, <2>4, <2>5, <2>6 DEF CInv
<1> QED
  BY <1>1, <1>2

\* A chunk is of the content the open file has then.
LEMMA ReadStep == ASSUME CInv, Read PROVE CInv'
<1>0. /\ Same /\ Running /\ late' \in BOOLEAN /\ faults' \in 0..MaxFaults
      /\ pc = "read" /\ at \in Path /\ acc \in Contents \cup {Unread, Mixed}
      /\ fd.content \in Contents /\ before <= changes
  BY DEF Read, Timed, Same, Running, CInv, TypeOK, Witness
<1>1. CASE late /\ OutOfTime
  BY <1>0, <1>1, LateKeeps
<1>2. CASE ~(late /\ OutOfTime)
  <2>1. /\ acc' = IF acc \in {Unread, fd.content} THEN fd.content ELSE Mixed
        /\ chunk' = 1 - chunk /\ pc' \in {"read", "after"} /\ verdict' = verdict
        /\ UNCHANGED <<env, use, recorded, at, digest, fd, before, after>>
    BY <1>0, <1>2 DEF Read, Timed, Goes, Same
  <2>2. TypeOK'
    BY <1>0, <2>1 DEF CInv, TypeOK, env
  <2>3. Witness'
    BY <1>0, <2>1, VerifierKeeps DEF Running
  <2>4. OpenFile'
    BY <1>0, <2>1 DEF CInv, OpenFile, ReadSteps, env
  <2>5. Digests'
    BY <1>0, <2>1 DEF CInv, Digests, FileSteps, ReadSteps, Expects, env
  <2>6. Verdicts'
    BY <1>0, <2>1 DEF CInv, Verdicts, GitSteps, env
  <2> QED
    BY <2>2, <2>3, <2>4, <2>5, <2>6 DEF CInv
<1> QED
  BY <1>1, <1>2

\* The second fstat.
LEMMA AfterStep == ASSUME CInv, After PROVE CInv'
<1>0. /\ Same /\ Running /\ pc = "after" /\ before <= changes /\ fd.stamp \in Stamps
  BY DEF After, Same, Running, CInv, TypeOK, Witness
<1>1. /\ pc' = "current" /\ verdict' = verdict /\ after' = fd.stamp
      /\ UNCHANGED <<env, use, recorded, late, faults, at, fd, before, acc, chunk, digest>>
  BY DEF After, Goes, Same
<1>2. TypeOK'
  BY <1>0, <1>1 DEF CInv, TypeOK, env
<1>3. Witness'
  BY <1>0, <1>1, VerifierKeeps DEF Running
<1>4. OpenFile'
  BY <1>0, <1>1 DEF CInv, OpenFile, ReadSteps, env
<1>5. Digests'
  BY <1>0, <1>1 DEF CInv, Digests, FileSteps, ReadSteps, Expects, env
<1>6. Verdicts'
  BY <1>0, <1>1 DEF CInv, Verdicts, GitSteps, env
<1> QED
  BY <1>2, <1>3, <1>4, <1>5, <1>6 DEF CInv

\* The path still names the file: what was read is what it had, and is recorded.
LEMMA CurrentStep == ASSUME CInv, Current PROVE CInv'
<1>0. /\ Same /\ Running /\ late' \in BOOLEAN /\ faults' \in 0..MaxFaults
      /\ pc = "current" /\ at \in Path /\ TypeOK /\ Paths \in Nat
  BY PathFacts DEF Current, Same, Running, CInv, TypeOK
<1>1. disk[at].kind # "file" => strayed = TRUE
  BY <1>0, StrayedNow DEF Running
<1>2. SameFile => /\ acc = disk[at].content /\ acc \in Contents /\ acc \in seen[at]
                  /\ ~Expects(at, acc) => strayed = TRUE
  <2>1. SameFile => acc = disk[at].content
    BY <1>0 DEF SameFile, Here, CInv, OpenFile, ReadSteps
  <2>2. SameFile => acc \in Contents /\ acc \in seen[at]
    BY <1>0, <2>1 DEF CInv, TypeOK, Witness, SameFile, Here
  <2>3. SameFile /\ ~Expects(at, acc) => strayed = TRUE
    BY <1>0, <2>1, StrayedNow DEF Running
  <2> QED
    BY <2>1, <2>2, <2>3
<1>3. \/ Fails("unavailable")
      \/ Fails("conflict") /\ strayed = TRUE
      \/ SameFile /\ Digested /\ (baseline = "git_commit" => acc = "old")
  BY <1>0, <1>1, <1>2 DEF Current, OutOfTime, SameFile, Here, Expects
<1>4. CASE Fails("unavailable") \/ (Fails("conflict") /\ strayed = TRUE)
  BY <1>0, <1>4, EndKeeps DEF Fails, Same
<1>5. CASE SameFile /\ Digested /\ (baseline = "git_commit" => acc = "old")
  <2>1. /\ digest' = [digest EXCEPT ![at] = acc]
        /\ fd' = Closed /\ before' = 0 /\ after' = 0 /\ acc' = Unread /\ chunk' = 0 /\ verdict' = verdict
        /\ UNCHANGED <<env, use, recorded>>
    BY <1>0, <1>5 DEF Digested, Goes, Same
  <2>2. \/ at < Paths /\ at' = at + 1 /\ pc' = "locate"
        \/ /\ ~(at < Paths) /\ at' = at
           /\ pc' = (IF baseline = "git_commit" THEN "status" ELSE "compare")
    BY <1>0, <1>5 DEF Digested, Goes
  <2>3. at' \in Path
    BY <1>0, <2>2 DEF Path
  <2>4. TypeOK'
    <3>1. Closed \in [content : Contents, stamp : Stamps, path : Path \cup {0}] /\ 0 \in Stamps
      BY ManifestAssumption DEF Closed, Contents, Stamps
    <3>2. digest' \in [Path -> Contents \cup {Unread}]
      BY <1>0, <1>2, <1>5, <2>1 DEF TypeOK
    <3> QED
      BY <1>0, <2>1, <2>2, <2>3, <3>1, <3>2 DEF TypeOK, env
  <2>5. Witness'
    BY <1>0, <2>1, <2>2, VerifierKeeps, ManifestAssumption DEF Running, TypeOK
  <2>6. OpenFile'
    BY <2>2 DEF OpenFile, ReadSteps
  <2>7. Digests'
    <3>1. \A p \in Path : digest'[p] = IF p = at THEN acc ELSE digest[p]
      BY <1>0, <2>1 DEF TypeOK
    <3>2. acc # Unread
      BY <1>2, <1>5 DEF Contents, Unread
    <3>3. \A p \in 1..(at - 1) : digest[p] # Unread
      BY <1>0 DEF CInv, Digests, FileSteps, ReadSteps
    <3>4. \A p \in 1..at : p \in Path /\ digest'[p] # Unread
      BY <1>0, <3>1, <3>2, <3>3 DEF Path
    <3>5. pc' \in FileSteps => \A p \in 1..(at' - 1) : digest'[p] # Unread
      BY <1>0, <2>2, <3>4 DEF FileSteps, ReadSteps, Path
    <3>6. pc' \in {"status", "headAgain", "compare"} => \A p \in Path : digest'[p] # Unread
      BY <1>0, <2>2, <3>4 DEF Path
    <3>7. \A p \in Path : digest'[p] # Unread =>
             /\ digest'[p] \in seen'[p]
             /\ baseline' = "git_commit" => digest'[p] = "old"
             /\ ~Expects(p, digest'[p]) => strayed' = TRUE
      BY <1>2, <1>5, <2>1, <3>1 DEF CInv, Digests, env
    <3> QED
      BY <2>1, <2>2, <3>5, <3>6, <3>7 DEF CInv, Digests, Expects, env
  <2>8. Verdicts'
    BY <1>0, <2>1, <2>2 DEF CInv, Verdicts, GitSteps, env
  <2> QED
    BY <2>4, <2>5, <2>6, <2>7, <2>8 DEF CInv
<1> QED
  BY <1>3, <1>4, <1>5

\* The comparison with the record of the capability: a digest that differs from
\* it was not as the claim expects.
LEMMA CompareStep == ASSUME CInv, Compare PROVE CInv'
<1>0. /\ Same /\ Running /\ late' \in BOOLEAN /\ faults' \in 0..MaxFaults
      /\ \A p \in Path : digest[p] # Unread
  BY DEF Compare, Timed, Same, Running, CInv, TypeOK, Digests
<1>1. CASE late /\ OutOfTime
  BY <1>0, <1>1, LateKeeps
<1>2. CASE ~(late /\ OutOfTime)
  <2>1. /\ UNCHANGED <<env, use, recorded, at, before, after, acc, chunk, digest>> /\ fd' = fd
        /\ Ends(IF use = "claim" /\ digest # recorded THEN "conflict" ELSE "verified")
    BY <1>0, <1>2 DEF Same, Compare, Timed, reading
  <2>2. ASSUME use = "claim", digest # recorded PROVE strayed = TRUE
    <3>1. PICK p \in Path : digest[p] # recorded[p]
      BY <2>2 DEF CInv, TypeOK
    <3>2. ~(baseline = "git_commit")
      BY <1>0, <2>2, <3>1 DEF CInv, Digests
    <3>3. baseline = "working_tree"
      BY <3>2 DEF CInv, TypeOK
    <3>4. ~Expects(p, digest[p])
      BY <2>2, <3>1, <3>3 DEF Expects
    <3> QED
      BY <1>0, <3>4 DEF CInv, Digests
  <2>3. CASE use = "claim" /\ digest # recorded
    BY <1>0, <2>1, <2>2, <2>3, EndKeeps
  <2>4. CASE ~(use = "claim" /\ digest # recorded)
    BY <1>0, <2>1, <2>4, EndKeeps
  <2> QED
    BY <2>3, <2>4
<1> QED
  BY <1>1, <1>2

\* A failing call or command proves nothing.
LEMMA IOErrorStep == ASSUME CInv, IOError PROVE CInv'
<1>0. /\ UNCHANGED <<env, use, recorded, late>> /\ Running /\ late \in BOOLEAN
      /\ faults' \in 0..MaxFaults
  BY ManifestAssumption DEF IOError, Running, CInv, TypeOK
<1>1. CASE pc \in {"open", "read", "after", "current"}
  <2>1. \A p \in 1..(at - 1) : digest[p] # Unread
    BY <1>1 DEF CInv, Digests, FileSteps, ReadSteps
  <2>2. UNCHANGED <<at, before, after, acc, chunk, digest>> /\ fd' = Closed /\ Goes("recheck")
    BY <1>1 DEF IOError
  <2> QED
    BY <1>0, <2>1, <2>2, GoesKeeps DEF PCs, ReadSteps, GitSteps
<1>2. CASE pc \notin {"open", "read", "after", "current"}
  BY <1>0, <1>2, EndKeeps DEF IOError, Fails
<1> QED
  BY <1>1, <1>2

\* Every step keeps the invariant.
LEMMA ContextStep == CInv /\ [Next]_vars => CInv'
<1> SUFFICES ASSUME CInv, [Next]_vars PROVE CInv'
  OBVIOUS
<1>1. CASE BudgetEnds
  <2>1. UNCHANGED <<env, use, pc, at, reading, digest, recorded, verdict, faults>> /\ late' = TRUE
    BY <1>1 DEF BudgetEnds
  <2>2. TypeOK'
    BY <2>1 DEF CInv, TypeOK, env, reading
  <2>3. Witness'
    <3>1. pc # "idle" /\ before' <= changes
      BY <1>1, <2>1 DEF BudgetEnds, Running, reading, CInv, Witness
    <3> QED
      BY <2>1, <3>1, VerifierKeeps
  <2>4. OpenFile' /\ Digests' /\ Verdicts'
    BY <2>1 DEF CInv, OpenFile, Digests, Verdicts, Expects, env, reading
  <2> QED
    BY <2>2, <2>3, <2>4 DEF CInv
<1>2. CASE UNCHANGED vars
  <2>1. TypeOK'
    BY <1>2 DEF CInv, TypeOK, vars
  <2>2. Strays' <=> Strays
    BY <1>2 DEF Strays, Expects, vars
  <2>3. Witness' /\ OpenFile'
    BY <1>2, <2>2 DEF CInv, Witness, OpenFile, vars
  <2>4. Digests' /\ Verdicts'
    BY <1>2 DEF CInv, Digests, Verdicts, Expects, vars
  <2> QED
    BY <2>1, <2>3, <2>4 DEF CInv
<1> QED
  BY <1>1, <1>2, ChangeStep, StartStep, GitStep, LocateStep, OpenStep, ReadStep, AfterStep,
     CurrentStep, CompareStep, IOErrorStep DEF Next, Step

LEMMA ContextInvariant == Spec => []CInv
BY ContextInit, ContextStep, PTL DEF Spec

-----------------------------------------------------------------------------
(* The properties *)

\* Every variable has its type.
THEOREM ContextTypeCorrect == Spec => []TypeOK
<1>1. CInv => TypeOK
  BY DEF CInv
<1> QED
  BY <1>1, ContextInvariant, PTL

\* A native call is denied for its material only if that differed at some moment of
\* the verification, for any number of files, changes and failing calls.
THEOREM ConflictsAreReal == Spec => []ConflictIsReal
<1>1. CInv => ConflictIsReal
  BY DEF CInv, Verdicts, ConflictIsReal
<1> QED
  BY <1>1, ContextInvariant, PTL

\* A digest is of one content that the path had while it was verified.
THEOREM DigestsAreOfOneMoment == Spec => []DigestIsOfOneMoment
<1>1. CInv => DigestIsOfOneMoment
  BY DEF CInv, Digests, DigestIsOfOneMoment
<1> QED
  BY <1>1, ContextInvariant, PTL

\* What was verified was there: each file had, at some moment of the verification,
\* what the capability or the commit records.
THEOREM VerifiedMaterialWasThere == Spec => []VerifiedWasThere
<1>1. ASSUME CInv, verdict = "verified", NEW p \in Path
      PROVE  \E content \in seen[p] : Expects(p, content)
  <2>1. digest[p] # Unread /\ digest[p] \in seen[p]
    BY <1>1 DEF CInv, Verdicts, Digests
  <2>2. Expects(p, digest[p])
    BY <1>1, <2>1 DEF CInv, Verdicts, Digests, TypeOK, Expects
  <2> QED
    BY <2>1, <2>2
<1>2. CInv => VerifiedWasThere
  BY <1>1 DEF VerifiedWasThere
<1> QED
  BY <1>2, ContextInvariant, PTL
=============================================================================
