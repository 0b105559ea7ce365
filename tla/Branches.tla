------------------------------ MODULE Branches ------------------------------
(***************************************************************************)
(* The branch environments of one base app: cmd/viberun-server/            *)
(* branch_create.go, branch_apply.go, branch_meta.go and the deletion of a *)
(* branch (branch_command.go, main.go deleteApp).                          *)
(*                                                                         *)
(* A branch is a copy of the base app's home volume.  Applying it commits  *)
(* three trees (the snapshot the branch was made from, the base's app      *)
(* directory, the branch's) into a git repository of their own, merges the *)
(* base's into the branch's directory, and then replaces the base's        *)
(* directory by the branch's.  The agents of both apps go on editing their *)
(* directories meanwhile, and any step may fail or be the last one before  *)
(* a crash: nothing is undone, and no later command completes it.          *)
(*                                                                         *)
(* A "file" stands for what git merges as one piece.  Ignored files are    *)
(* those a .gitignore of the app names.  Commands run one at a time.       *)
(***************************************************************************)
EXTENDS Naturals, FiniteSets

CONSTANTS
  Files,      \* the pieces of an app directory
  Ignored,    \* those .gitignore keeps out of every commit
  Names,      \* branch names
  Main,       \* the git branch the base is committed on; a branch may have its name
  Versions,   \* what users write into a file
  Gone,       \* there is no such file
  Marked,     \* a file with conflict markers
  MaxEdits,   \* bound: edits by users
  MaxApplies  \* bound: apply commands

ASSUME BranchAssumption ==
  /\ IsFiniteSet(Files) /\ Ignored \subseteq Files
  /\ Gone \notin Versions /\ Marked \notin Versions /\ Gone # Marked
  /\ MaxEdits \in Nat /\ MaxApplies \in Nat

VARIABLES
  base,     \* the base app's /home/viberun/app
  home,     \* home[b]: the branch's
  volume,   \* volume[b]: home.btrfs of the derived app exists
  meta,     \* meta[b]: branch.json is "none", "torn" or "whole"
  origin,   \* origin[b]: the app directory in the snapshot BaseSnapshotRef
  backups,  \* the app directories in the base's other snapshots
  job,      \* the command under way
  edits, applies,  \* counters of the bounds
  good,     \* history: what base held when no apply had begun to replace it
  since     \* since[b]: history of the branch since it was made, see Fresh

disk == <<base, home, volume, meta, origin, backups>>
vars == <<disk, job, edits, applies, good, since>>

Contents == Versions \cup {Gone, Marked}
Trees == [Files -> Contents]
Tracked == Files \ Ignored
Empty == [f \in Files |-> Gone]
Present(t) == {f \in Files : t[f] # Gone}
Idle == [kind |-> "none", at |-> "idle"]
\* base, home: the files edited on that side; tried: an apply has begun;
\* asked, open: an apply ended in conflict, the base has not changed since,
\* and the branch has yet to edit the files in open.
Fresh == [base |-> {}, home |-> {}, tried |-> FALSE, asked |-> FALSE, open |-> {}]

Init ==
  /\ base \in [Files -> Versions]
  /\ good = base
  /\ home = [b \in Names |-> Empty]
  /\ volume = [b \in Names |-> FALSE]
  /\ meta = [b \in Names |-> "none"]
  /\ origin = [b \in Names |-> Empty]
  /\ backups = {}
  /\ job = Idle
  /\ edits = 0 /\ applies = 0
  /\ since = [b \in Names |-> Fresh]

At(k, a) == job.kind = k /\ job.at = a
Goto(a) == job' = [job EXCEPT !.at = a]
End == job' = Idle

\* The base's files C change, by an edit or by a sync.
BaseChanges(C) ==
  since' = [b \in Names |->
              [since[b] EXCEPT !.base = @ \cup C, !.asked = @ /\ C = {}]]

Disturb == job' = IF job.kind = "apply" THEN [job EXCEPT !.quiet = FALSE] ELSE job

-----------------------------------------------------------------------------
(* What the users and agents in the containers do.                          *)

EditBase(f, v) ==
  /\ edits < MaxEdits /\ v # base[f]
  /\ edits' = edits + 1
  /\ base' = [base EXCEPT ![f] = v]
  /\ good' = IF job.kind = "apply" /\ job.at # "backup" THEN good ELSE base'
  /\ BaseChanges({f})
  /\ Disturb
  /\ UNCHANGED <<home, volume, meta, origin, backups, applies>>

\* A branch's container is started after its creation.
EditHome(b, f, v) ==
  /\ edits < MaxEdits /\ v # home[b][f]
  /\ volume[b] /\ meta[b] = "whole"
  /\ edits' = edits + 1
  /\ home' = [home EXCEPT ![b][f] = v]
  /\ since' = [since EXCEPT ![b] = [since[b] EXCEPT !.home = @ \cup {f}, !.open = @ \ {f}]]
  /\ Disturb
  /\ UNCHANGED <<base, volume, meta, origin, backups, applies, good>>

-----------------------------------------------------------------------------
(* createBranchEnv.  Its errors before the snapshot change nothing.         *)

BeginCreate(b) ==
  /\ job = Idle
  /\ meta[b] = "none" /\ ~ volume[b]
  /\ origin' = [origin EXCEPT ![b] = base]
  /\ job' = [kind |-> "create", at |-> "make", name |-> b, left |-> Present(base)]
  /\ since' = [since EXCEPT ![b] = Fresh]
  /\ UNCHANGED <<base, home, volume, meta, backups, edits, applies, good>>

\* ensureHomeVolume(derived, create)
MakeVolume ==
  /\ At("create", "make")
  /\ volume' = [volume EXCEPT ![job.name] = TRUE]
  /\ Goto("seed")
  /\ UNCHANGED <<base, home, meta, origin, backups, edits, applies, good, since>>

\* copySnapshotToHome, one file.
Seed(f) ==
  /\ At("create", "seed") /\ f \in job.left
  /\ home' = [home EXCEPT ![job.name][f] = origin[job.name][f]]
  /\ job' = [job EXCEPT !.left = @ \ {f}]
  /\ UNCHANGED <<base, volume, meta, origin, backups, edits, applies, good, since>>

\* Mutant: the metadata is written without waiting for the copy.
TruncateMetaEarly ==
  /\ At("create", "seed")
  /\ meta' = [meta EXCEPT ![job.name] = "torn"]
  /\ Goto("write")
  /\ UNCHANGED <<base, home, volume, origin, backups, edits, applies, good, since>>

\* writeBranchMetaAt: os.WriteFile truncates the file ...
TruncateMeta ==
  /\ At("create", "seed") /\ job.left = {}
  /\ meta' = [meta EXCEPT ![job.name] = "torn"]
  /\ Goto("write")
  /\ UNCHANGED <<base, home, volume, origin, backups, edits, applies, good, since>>

\* ... and writes it.
WriteMeta ==
  /\ At("create", "write")
  /\ meta' = [meta EXCEPT ![job.name] = "whole"]
  /\ End
  /\ UNCHANGED <<base, home, volume, origin, backups, edits, applies, good, since>>

-----------------------------------------------------------------------------
(* deleteBranchEnv.                                                         *)

\* deleteApp lists the branches of every app first, and a branch.json that
\* does not parse, whosever it is, ends it.
BeginDelete(b) ==
  /\ job = Idle
  /\ \A c \in Names : meta[c] # "torn"
  /\ volume[b] \/ meta[b] # "none"
  /\ job' = [kind |-> "delete", at |-> "remove", name |-> b]
  /\ UNCHANGED <<disk, edits, applies, good, since>>

\* os.RemoveAll(BaseDir), in the order the directory lists its entries.
RemoveVolume ==
  LET b == job.name IN
  /\ At("delete", "remove") /\ volume[b]
  /\ volume' = [volume EXCEPT ![b] = FALSE]
  /\ home' = [home EXCEPT ![b] = Empty]
  /\ IF meta[b] = "none" THEN End ELSE UNCHANGED job
  /\ UNCHANGED <<base, meta, origin, backups, edits, applies, good, since>>

RemoveMeta ==
  LET b == job.name IN
  /\ At("delete", "remove") /\ meta[b] # "none"
  /\ meta' = [meta EXCEPT ![b] = "none"]
  /\ origin' = [origin EXCEPT ![b] = Empty]
  /\ IF volume[b] THEN UNCHANGED job ELSE End
  /\ UNCHANGED <<base, home, volume, backups, edits, applies, good, since>>

-----------------------------------------------------------------------------
(* applyBranch.                                                             *)

BeginApply(b) ==
  /\ job = Idle /\ applies < MaxApplies
  /\ meta[b] = "whole" /\ volume[b]
  /\ applies' = applies + 1
  /\ job' = [kind |-> "apply", at |-> "backup", name |-> b, left |-> {},
             main |-> Empty, branch |-> Empty, quiet |-> TRUE,
             base0 |-> base, home0 |-> home[b], since0 |-> since[b]]
  /\ since' = [since EXCEPT ![b].tried = TRUE]
  /\ good' = base
  /\ UNCHANGED <<disk, edits>>

\* Mutant: the base is not snapshotted.
BackupSkipped ==
  /\ At("apply", "backup")
  /\ Goto("main")
  /\ UNCHANGED <<disk, edits, applies, good, since>>

\* createSnapshot(base)
Backup ==
  /\ At("apply", "backup")
  /\ backups' = backups \cup {base}
  /\ Goto("main")
  /\ UNCHANGED <<base, home, volume, meta, origin, edits, applies, good, since>>

\* What git add -A puts into a commit of the app directory t.
Commit(t) == [f \in Files |-> IF f \in Ignored THEN Gone ELSE t[f]]

\* buildShadowCommits reads the base's directory, and then the branch's.
CommitMain ==
  /\ At("apply", "main")
  /\ job' = [job EXCEPT !.main = Commit(base), !.at = "branch"]
  /\ UNCHANGED <<disk, edits, applies, good, since>>

\* The branch's git branch has its name, and the repository one ref of a name:
\* a branch named Main leaves nothing of the base's commit.
CommitBranch ==
  LET tree == Commit(home[job.name]) IN
  /\ At("apply", "branch")
  /\ job' = [job EXCEPT !.branch = tree, !.at = "checkout",
                        !.main = IF job.name = Main THEN tree ELSE @]
  /\ UNCHANGED <<disk, edits, applies, good, since>>

\* git checkout -f puts every file of the commit back as it was committed; a
\* file made since is removed if the index of the last apply still names it.
Checkout ==
  LET b == job.name
      made == {f \in Tracked : job.branch[f] = Gone /\ home[b][f] # Gone} IN
  /\ At("apply", "checkout")
  /\ \E kept \in SUBSET made :
       home' = [home EXCEPT ![b] =
                  [f \in Files |-> IF f \in Ignored \cup kept THEN @[f] ELSE job.branch[f]]]
  /\ Goto("merge")
  /\ UNCHANGED <<base, volume, meta, origin, backups, edits, applies, good, since>>

\* The base the three-way merge starts from: the snapshot the branch was made
\* from, in every apply.
\* Mutant: the base as it is now.
AncestorNow == [f \in Files |-> job.main[f]]
Ancestor == [f \in Files |-> Commit(origin[job.name])[f]]

BothChanged ==
  {f \in Tracked : /\ job.main[f] # Ancestor[f] /\ job.branch[f] # Ancestor[f]
                   /\ job.main[f] # job.branch[f]}

\* What the merge leaves in the branch's directory.
Merged(f) ==
  IF f \in BothChanged
  THEN IF job.branch[f] = Gone THEN job.main[f]
       ELSE IF job.main[f] = Gone THEN job.branch[f] ELSE Marked
  ELSE IF job.branch[f] # Ancestor[f] THEN job.branch[f] ELSE job.main[f]

Touched == BothChanged \cup {f \in Tracked : Merged(f) # job.branch[f]}

\* git refuses to merge over files that are not as they were checked out.
MergeAllowed == \A f \in Touched : home[job.name][f] = job.branch[f]

WriteMerge ==
  home' = [home EXCEPT ![job.name] =
             [f \in Files |-> IF f \in Touched THEN Merged(f) ELSE @[f]]]

\* gitMergeIntoBranch and gitFastForward.
\* Mutant: the merge's own result is not looked at.
CleanMergeUnchecked ==
  /\ At("apply", "merge") /\ MergeAllowed
  /\ WriteMerge
  /\ job' = [job EXCEPT !.at = "clear", !.left = Present(base)]
  /\ UNCHANGED <<base, volume, meta, origin, backups, edits, applies, good, since>>

CleanMerge ==
  /\ At("apply", "merge") /\ MergeAllowed
  /\ BothChanged = {}
  /\ WriteMerge
  /\ job' = [job EXCEPT !.at = "clear", !.left = Present(base)]
  /\ UNCHANGED <<base, volume, meta, origin, backups, edits, applies, good, since>>

\* The conflict is left in the branch's directory and the command ends.
ConflictingMerge ==
  /\ At("apply", "merge") /\ MergeAllowed
  /\ BothChanged # {}
  /\ WriteMerge
  /\ since' = [since EXCEPT ![job.name] =
                            [since[job.name] EXCEPT !.asked = job.quiet, !.open = BothChanged]]
  /\ End
  /\ UNCHANGED <<base, volume, meta, origin, backups, edits, applies, good>>

\* syncAppDir removes the base's entries one by one ...
Clear(f) ==
  /\ At("apply", "clear") /\ f \in job.left
  /\ base' = [base EXCEPT ![f] = Gone]
  /\ job' = [job EXCEPT !.left = @ \ {f}]
  /\ BaseChanges({f})
  /\ UNCHANGED <<home, volume, meta, origin, backups, edits, applies, good>>

\* ... then copies the branch's, ignored files as well.
StartCopy ==
  /\ At("apply", "clear") /\ job.left = {}
  /\ job' = [job EXCEPT !.at = "copy", !.left = Present(home[job.name])]
  /\ UNCHANGED <<disk, edits, applies, good, since>>

CopyFile(f) ==
  /\ At("apply", "copy") /\ f \in job.left
  /\ base' = [base EXCEPT ![f] = IF home[job.name][f] = Gone THEN @ ELSE home[job.name][f]]
  /\ job' = [job EXCEPT !.left = @ \ {f}]
  /\ BaseChanges(IF base' = base THEN {} ELSE {f})
  /\ UNCHANGED <<home, volume, meta, origin, backups, edits, applies, good>>

EndApply ==
  /\ At("apply", "copy") /\ job.left = {}
  /\ good' = base
  /\ End
  /\ UNCHANGED <<disk, edits, applies, since>>

\* An error return, or a crash, at any step: what is on disk stays.
Abort ==
  /\ job # Idle
  /\ End
  /\ UNCHANGED <<disk, edits, applies, good, since>>

Users ==
  \/ \E f \in Files, v \in Versions \cup {Gone} : EditBase(f, v)
  \/ \E b \in Names, f \in Files, v \in Versions \cup {Gone} : EditHome(b, f, v)

Create ==
  \/ \E b \in Names : BeginCreate(b)
  \/ MakeVolume
  \/ \E f \in Files : Seed(f)
  \/ TruncateMeta
  \/ WriteMeta

Delete ==
  \/ \E b \in Names : BeginDelete(b)
  \/ RemoveVolume
  \/ RemoveMeta

Apply ==
  \/ \E b \in Names : BeginApply(b)
  \/ Backup \/ CommitMain \/ CommitBranch \/ Checkout
  \/ CleanMerge \/ ConflictingMerge
  \/ \E f \in Files : Clear(f) \/ CopyFile(f)
  \/ StartCopy
  \/ EndApply

Next == Users \/ Create \/ Delete \/ Apply \/ Abort

Spec == Init /\ [][Next]_vars

-----------------------------------------------------------------------------
Sinces == [base : SUBSET Files, home : SUBSET Files, tried : BOOLEAN,
           asked : BOOLEAN, open : SUBSET Files]
CreateJobs == [kind : {"create"}, at : {"make", "seed", "write"}, name : Names,
               left : SUBSET Files]
DeleteJobs == [kind : {"delete"}, at : {"remove"}, name : Names]
ApplyJobs ==
  [kind : {"apply"}, name : Names, left : SUBSET Files, quiet : BOOLEAN,
   at : {"backup", "main", "branch", "checkout", "merge", "clear", "copy"},
   main : Trees, branch : Trees, base0 : Trees, home0 : Trees, since0 : Sinces]

\* The types, and that an apply has a branch with a volume to work on (after
\* an interrupted deletion branch.json may name one that is gone).
TypeOK ==
  /\ base \in Trees /\ good \in Trees
  /\ home \in [Names -> Trees] /\ origin \in [Names -> Trees]
  /\ volume \in [Names -> BOOLEAN]
  /\ meta \in [Names -> {"none", "torn", "whole"}]
  /\ backups \subseteq Trees
  /\ edits \in 0..MaxEdits /\ applies \in 0..MaxApplies
  /\ job \in {Idle} \cup CreateJobs \cup DeleteJobs \cup ApplyJobs
  /\ since \in [Names -> Sinces]
  /\ job.kind = "apply" => volume[job.name] /\ meta[job.name] = "whole"

\* "Snapshot base: always snapshot base app before applying": whatever an
\* apply, a failed one, a crash in the middle of its sync or a rerun after
\* that does to the base, the app as it was before is there or in a snapshot.
BaseRecoverable == base = good \/ good \in backups

\* branch.json appears only over a complete copy of the snapshot it names, so
\* that no failed or interrupted creation leaves a branch that apply accepts.
BranchIsCopy ==
  [][\A b \in Names :
       meta[b] # "whole" /\ meta'[b] = "whole" => volume[b] /\ home[b] = origin[b]]_vars

\* What an apply that ends in success owes both sides: the branch's edits are
\* in the base, the base's own are kept, and no file was edited differently.
KeepsEdits ==
  \A f \in Tracked :
    /\ f \notin job.since0.base => base[f] = job.home0[f]
    /\ f \notin job.since0.home => base[f] = job.base0[f]
    /\ Cardinality({origin[job.name][f], job.base0[f], job.home0[f]}) < 3

\* The first apply of a branch, if no one edits while it runs, keeps the edits
\* of both sides; the exception is a branch that is named Main.
FirstApplyKeepsEdits ==
  [][EndApply /\ job.quiet /\ ~ job.since0.tried /\ job.name # Main => KeepsEdits]_vars

\* Known not to hold (see README): "use a shadow git repo to merge base+branch"
\* (docs/plans/2026-01-25-branch-envs-plan.md), whatever the branch's name:
\* the edits of the base are lost when it is that of the base's git branch.
EveryNameKeepsEdits ==
  [][EndApply /\ job.quiet /\ ~ job.since0.tried => KeepsEdits]_vars

\* Known not to hold (see README): "Conflicts: ... resolve markers in /home/viberun/app, then rerun apply"
\* (config/AGENTS.app.md): when every conflicting file has been edited since
\* and the base has not changed, the rerun meets no conflict.
ResolvedApplies ==
  [][ConflictingMerge /\ job.quiet => ~ (job.since0.asked /\ job.since0.open = {})]_vars
=============================================================================
