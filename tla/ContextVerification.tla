-------------------------- MODULE ContextVerification --------------------------
(***************************************************************************)
(* The verification of declared material (scripts/governance_context.py):  *)
(* once when a task is prepared, once more, under the Session lock, when a *)
(* native call claims it, while others go on editing the workspace.        *)
(*                                                                         *)
(* A step is one system call or one git command.  The verifier locks       *)
(* nothing; it compares what fstat and stat report before and after it     *)
(* read a file.  Its verdict decides the claim: "verified" grants it, an   *)
(* established conflict denies the native call, and whatever could not be  *)
(* completed lets the call pass unclaimed.  What the claim then does is    *)
(* SessionLedger's ClaimSpawn, whose material is this verdict.             *)
(***************************************************************************)
EXTENDS Integers, FiniteSets

CONSTANTS
    Paths,       \* number of required paths, read in the order 1..Paths
    Hidden,      \* paths whose changes git status does not report (skip-worktree)
    MaxChanges,  \* bound: changes others make
    MaxFaults    \* bound: system calls or git commands that fail

Path == 1..Paths
Kinds == {"file", "missing", "special", "link"}
Contents == {"old", "new"}
Entries == {"blob", "absent", "link"}
Unread == "unread"
Mixed == "mixed"

ASSUME ManifestAssumption ==
    /\ Paths \in Nat \ {0}
    /\ Hidden \subseteq Path
    /\ MaxChanges \in Nat /\ MaxFaults \in Nat

VARIABLES
    baseline,   \* of the manifest: "working_tree" or "git_commit"; it never changes
    disk,       \* what is at each path; a change gives it a new stamp
    head,       \* does HEAD name the declared commit
    tree,       \* what the tree of the commit has at each path; it never changes
    index,      \* is nothing staged or added beside the declared paths
    use,        \* the verification that runs or ran last: "prepare" or "claim"
    pc,         \* its next step
    at,         \* the path it is at
    fd,         \* the open file: it follows writes, not replacements of the path
    before,     \* the stamp fstat reported before the first read
    after,      \* and after the last
    acc,        \* the content read so far
    chunk,      \* parity of the chunks read
    digest,     \* the digest of each path of this verification
    recorded,   \* those of the prepared capability
    verdict,    \* how it ended
    late,       \* has its time budget run out
    seen,       \* history: the contents each path has had since it began
    strayed,    \* history: did the material differ from what it expects since then
    changes, faults

env == <<baseline, disk, head, tree, index, seen, strayed, changes>>
reading == <<fd, before, after, acc, chunk>>
vars == <<baseline, disk, head, tree, index, use, pc, at, fd, before, after, acc, chunk, digest,
          recorded, verdict, late, seen, strayed, changes, faults>>

Stamps == 0..(MaxChanges + 1)
Closed == [content |-> "old", stamp |-> 0, path |-> 0]
NoDigest == [p \in Path |-> Unread]
Running == pc \notin {"idle", "ended"}

\* What the verification expects at a path: the blob of the commit, the digest of
\* the capability, or, at prepare, whatever the file holds.
Expects(p, content) ==
    CASE baseline = "git_commit" -> content = "old"
      [] baseline = "working_tree" /\ use = "claim" -> content = recorded[p]
      [] OTHER -> TRUE

\* The material differs from it now.
Strays ==
    \/ \E p \in Path : disk[p].kind # "file" \/ ~Expects(p, disk[p].content)
    \/ baseline = "git_commit" /\ (~head \/ ~index \/ \E p \in Path : tree[p] # "blob")

Init ==
    /\ baseline \in {"working_tree", "git_commit"}
    /\ disk \in [Path -> {[kind |-> "file", content |-> "old", stamp |-> 0]}]
    /\ head = TRUE /\ index = TRUE
    /\ tree \in [Path -> IF baseline = "git_commit" THEN Entries ELSE {"blob"}]
    /\ use = "prepare" /\ pc = "idle" /\ at = 1
    /\ fd = Closed /\ before = 0 /\ after = 0 /\ acc = Unread /\ chunk = 0
    /\ digest = NoDigest /\ recorded = NoDigest
    /\ verdict = "none" /\ late = FALSE
    /\ seen = [p \in Path |-> {}] /\ strayed = FALSE
    /\ changes = 0 /\ faults = 0

-----------------------------------------------------------------------------
(* Others edit the workspace *)

Witnessed ==
    /\ seen' = [p \in Path |-> IF disk'[p].kind = "file" THEN seen[p] \cup {disk'[p].content}
                               ELSE seen[p]]
    /\ strayed' = (strayed \/ Strays')

Edits ==
    /\ changes < MaxChanges /\ changes' = changes + 1
    /\ UNCHANGED <<baseline, tree, use, pc, at, before, after, acc, chunk, digest, recorded, verdict,
                   late, faults>>
    /\ Witnessed

\* A write in place: an open descriptor reads it.
WriteFile(p, content) ==
    /\ disk[p].kind = "file"
    /\ disk' = [disk EXCEPT ![p] = [kind |-> "file", content |-> content, stamp |-> changes + 1]]
    /\ fd' = IF fd.path = p THEN [fd EXCEPT !.content = content, !.stamp = changes + 1] ELSE fd
    /\ UNCHANGED <<head, index>> /\ Edits

\* The path is replaced: an open descriptor keeps the file it had.
ReplacePath(p, kind, content) ==
    /\ disk' = [disk EXCEPT ![p] = [kind |-> kind, content |-> content, stamp |-> changes + 1]]
    /\ fd' = IF fd.path = p THEN [fd EXCEPT !.path = 0] ELSE fd
    /\ UNCHANGED <<head, index>> /\ Edits

\* A checkout, a commit, something staged or added, or all of it undone.
MoveGit ==
    /\ baseline = "git_commit"
    /\ \/ head' = ~head /\ UNCHANGED index
       \/ index' = ~index /\ UNCHANGED head
    /\ UNCHANGED <<disk, fd>> /\ Edits

Change ==
    \/ \E p \in Path, content \in Contents : WriteFile(p, content)
    \/ \E p \in Path, kind \in Kinds, content \in Contents :
          (kind # "file" => content = "old") /\ ReplacePath(p, kind, content)
    \/ MoveGit

\* Five seconds pass.
BudgetEnds ==
    /\ Running /\ ~late
    /\ late' = TRUE
    /\ UNCHANGED <<env, use, pc, at, reading, digest, recorded, verdict, faults>>

-----------------------------------------------------------------------------
(* The verifier *)

Same == UNCHANGED <<env, use, recorded, late, faults>>

Goes(step) == pc' = step /\ UNCHANGED verdict
Ends(how) == pc' = "ended" /\ verdict' = how
\* An error leaves everything behind; the with statement closes the file.
Fails(how) == Ends(how) /\ fd' = Closed /\ UNCHANGED <<at, before, after, acc, chunk, digest>>

\* remaining_time
OutOfTime == Fails("unavailable")

\* verify_context_manifest: a first verification for prepare, and one with a
\* budget of its own for each claim of the capability.
Start ==
    /\ pc \in {"idle", "ended"}
    /\ \/ verdict \in {"none", "conflict", "unavailable"} /\ use = "prepare" /\ UNCHANGED <<use, recorded>>
       \/ use = "prepare" /\ verdict = "verified" /\ use' = "claim" /\ recorded' = digest
       \/ use = "claim" /\ UNCHANGED <<use, recorded>>
    /\ pc' = (IF baseline = "git_commit" THEN "head" ELSE "locate")
    /\ at' = 1 /\ fd' = Closed /\ before' = 0 /\ after' = 0 /\ acc' = Unread /\ chunk' = 0
    /\ digest' = NoDigest /\ verdict' = "none" /\ late' = FALSE
    /\ seen' = [p \in Path |-> IF disk[p].kind = "file" THEN {disk[p].content} ELSE {}]
    /\ UNCHANGED <<baseline, disk, head, tree, index, changes, faults>>
    /\ strayed' = Strays'

\* The step of a loop or a command: it first asks for the time left.
Timed(step, action) ==
    /\ pc = step /\ Same
    /\ (late /\ OutOfTime) \/ (~late /\ action)

Here == disk[at]

\* HEAD is the declared commit.
CheckHead ==
    Timed("head",
        /\ UNCHANGED <<at, reading, digest>>
        /\ IF head THEN Goes("tree") ELSE Ends("conflict"))

\* The tree of the commit has a file at each path: the first that has none decides.
ListTree ==
    Timed("tree",
        /\ UNCHANGED <<at, reading, digest>>
        /\ \/ (\A p \in Path : tree[p] = "blob") /\ Goes("locate")
           \/ \E p \in Path :
                 /\ tree[p] # "blob" /\ \A q \in 1..(p - 1) : tree[q] = "blob"
                 /\ Ends(IF tree[p] = "absent" THEN "conflict" ELSE "unavailable"))

\* stat of the resolved path, or lstat of each part of it for git: a link that
\* leaves the workspace, and for git a special file, cannot be verified.  In the
\* working tree a link that stays in the workspace is resolved here, once; a path
\* of the model is the resolved one, and that the link may be pointed elsewhere
\* afterwards, which the code does not look for, is not modelled.
Locate ==
    Timed("locate",
        /\ UNCHANGED <<at, reading, digest>>
        /\ \/ Here.kind = "file" /\ Goes("open")
           \/ Here.kind = "missing" /\ Ends("conflict")
           \/ /\ Here.kind = "special"
              /\ Ends(IF baseline = "git_commit" THEN "unavailable" ELSE "conflict")
           \/ Here.kind = "link" /\ Ends("unavailable"))

\* open without following a link, and fstat.
Open ==
    Timed("open",
        \/ /\ Here.kind = "file"
           /\ fd' = [content |-> Here.content, stamp |-> Here.stamp, path |-> at]
           /\ before' = Here.stamp /\ after' = 0 /\ acc' = Unread /\ chunk' = 0
           /\ Goes("read") /\ UNCHANGED <<at, digest>>
        \/ Here.kind \in {"missing", "special"} /\ Fails("conflict")
        \/ Here.kind = "link" /\ Goes("recheck") /\ UNCHANGED <<at, reading, digest>>)

\* A chunk, and the end of the file if there is no other: a file may be of any
\* length, and grow while it is read.
Mut_ReadWithoutClock ==
    /\ pc = "read" /\ Same /\ UNCHANGED <<at, digest, fd, before, after>>
    /\ acc' = fd.content /\ chunk' = 1 - chunk
    /\ Goes("read") \/ Goes("after")
Read ==
    Timed("read",
        /\ acc' = IF acc \in {Unread, fd.content} THEN fd.content ELSE Mixed
        /\ chunk' = 1 - chunk
        /\ Goes("read") \/ Goes("after")
        /\ UNCHANGED <<at, digest, fd, before, after>>)

\* fstat again.  What it reports is looked at only when the path has been, too.
After ==
    /\ pc = "after" /\ Same /\ Goes("current")
    /\ after' = fd.stamp /\ UNCHANGED <<at, fd, before, acc, chunk, digest>>

\* The file that was read did not change meanwhile, and the path still names it.
Mut_NoRecheckOfStamp == Here.kind = "file" /\ Here.stamp = after
SameFile == Here.kind = "file" /\ before = after /\ Here.stamp = after

Digested ==
    /\ digest' = [digest EXCEPT ![at] = acc]
    /\ fd' = Closed /\ before' = 0 /\ after' = 0 /\ acc' = Unread /\ chunk' = 0
    /\ IF at < Paths THEN at' = at + 1 /\ Goes("locate")
       ELSE at' = at /\ Goes(IF baseline = "git_commit" THEN "status" ELSE "compare")

\* stat of the path: a conflict if no regular file is there any more, whatever was
\* read; then the comparison with both fstats; only then the clock.  A link is
\* followed, out of the workspace: what it leads to is another file, or none.
\* The digest is the one of the commit, or kept to be compared at the end.
Mut_TrustStatus ==
    /\ pc = "current" /\ Same
    /\ IF SameFile THEN Digested ELSE Fails("unavailable")
Current ==
    /\ pc = "current" /\ Same
    /\ \/ Here.kind # "file" /\ Fails("conflict")
       \/ Here.kind \in {"file", "link"} /\ ~SameFile /\ Fails("unavailable")
       \/ SameFile /\ late /\ OutOfTime
       \/ /\ SameFile /\ ~late
          /\ IF baseline = "git_commit" /\ acc # "old" THEN Fails("conflict") ELSE Digested

\* git status shows staged, added and changed files, but not those it is told to skip.
Status ==
    Timed("status",
        /\ UNCHANGED <<at, reading, digest>>
        /\ IF index /\ \A p \in Path \ Hidden : disk[p].kind = "file" /\ disk[p].content = "old"
           THEN Goes("headAgain") ELSE Ends("conflict"))

CheckHeadAgain ==
    Timed("headAgain",
        /\ UNCHANGED <<at, reading, digest>>
        /\ IF head THEN Goes("compare") ELSE Ends("conflict"))

\* The claim compares with the record of the capability.
Compare ==
    Timed("compare",
        /\ UNCHANGED <<at, reading, digest>>
        /\ Ends(IF use = "claim" /\ digest # recorded THEN "conflict" ELSE "verified"))

\* A failed open proves nothing by itself: lstat tells what is there.
Mut_ErrnoProves ==
    Timed("recheck", Fails("conflict"))
Recheck ==
    Timed("recheck",
        \/ Here.kind \in {"missing", "special"} /\ Fails("conflict")
        \/ Here.kind \in {"file", "link"} /\ Fails("unavailable"))

\* A system call or a git command fails, or git does not end in time.
IOError ==
    /\ pc \in {"head", "tree", "locate", "open", "read", "after", "current", "status",
               "headAgain", "recheck"}
    /\ faults < MaxFaults /\ faults' = faults + 1
    /\ IF pc \in {"open", "read", "after", "current"}
       THEN Goes("recheck") /\ fd' = Closed /\ UNCHANGED <<at, before, after, acc, chunk, digest>>
       ELSE Fails("unavailable")
    /\ UNCHANGED <<env, use, recorded, late>>

Step ==
    \/ CheckHead \/ ListTree \/ Locate \/ Open \/ Read \/ After \/ Current \/ Status
    \/ CheckHeadAgain \/ Compare \/ Recheck

Next == Start \/ Step \/ IOError \/ BudgetEnds \/ Change

Spec == Init /\ [][Next]_vars

\* The verifier goes on and time passes.
FairSpec == Spec /\ WF_vars(Step) /\ WF_vars(BudgetEnds)

-----------------------------------------------------------------------------
(***************************************************************************)
(* Properties                                                              *)
(***************************************************************************)

\* Every variable has its type.
TypeOK ==
    /\ baseline \in {"working_tree", "git_commit"}
    /\ disk \in [Path -> [kind : Kinds, content : Contents, stamp : Stamps]]
    /\ head \in BOOLEAN /\ tree \in [Path -> Entries] /\ index \in BOOLEAN
    /\ use \in {"prepare", "claim"} /\ at \in Path
    /\ pc \in {"idle", "head", "tree", "locate", "open", "read", "after", "current", "recheck",
               "status", "headAgain", "compare", "ended"}
    /\ fd \in [content : Contents, stamp : Stamps, path : Path \cup {0}]
    /\ before \in Stamps /\ after \in Stamps /\ acc \in Contents \cup {Unread, Mixed} /\ chunk \in {0, 1}
    /\ digest \in [Path -> Contents \cup {Unread}]
    /\ recorded \in [Path -> Contents \cup {Unread}]
    /\ verdict \in {"none", "verified", "conflict", "unavailable"} /\ late \in BOOLEAN
    /\ seen \in [Path -> SUBSET Contents] /\ strayed \in BOOLEAN
    /\ changes \in 0..MaxChanges /\ faults \in 0..MaxFaults

\* A native call is denied for its material only if the material really differed
\* at some moment of the verification: neither an exhausted budget, nor a failing
\* system call, nor a file that changed while it was read is taken for a conflict.
ConflictIsReal == verdict = "conflict" => strayed

\* A digest is that of one moment: the path had exactly this content at some time
\* of the verification, however it was written to or replaced while it was read,
\* and even where git status would not show the change.
DigestIsOfOneMoment ==
    \A p \in Path : digest[p] # Unread => digest[p] \in seen[p]

\* A verified claim found every file as it was recorded: a change that lasts through
\* the verification cannot slip through, whichever file is read first.
VerifiedWasThere ==
    verdict = "verified" => \A p \in Path : \E content \in seen[p] : Expects(p, content)

\* The Session lock is not held for ever: a verification ends, although files may
\* grow as fast as they are read.
VerificationEnds == Running ~> ~Running
=============================================================================
