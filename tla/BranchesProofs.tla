--------------------------- MODULE BranchesProofs ---------------------------
(***************************************************************************)
(* What Branches promises, for any files, any branches and any number of   *)
(* edits and applies: the base is never without a copy of what an apply    *)
(* replaces, branch.json is only ever written over a complete copy, and a  *)
(* first apply of a branch not named Main loses no edit of either side.    *)
(***************************************************************************)
EXTENDS Branches, FiniteSetTheorems, TLAPS

\* A command that has a name, and a step it has come to.
Shape == "kind" \in DOMAIN job /\ "at" \in DOMAIN job

\* Until its backup an apply has changed nothing; from then on what it found
\* is in a snapshot.
BackedUp ==
  job.kind = "apply" => IF job.at = "backup" THEN base = good ELSE good \in backups

RInv == Shape /\ BackedUp /\ BaseRecoverable

\* Init establishes it.
LEMMA InitRInv == Init => RInv
BY DEF Init, RInv, Shape, BackedUp, BaseRecoverable, Idle

\* An edit in the base: outside an apply, or before its backup, the edited
\* base is the new one to keep.
LEMMA EditBaseRInv ==
  ASSUME RInv, NEW f \in Files, NEW v, EditBase(f, v)
  PROVE RInv'
<1>1. CASE job.kind = "apply"
  <2>1. job' = [job EXCEPT !.quiet = FALSE] /\ backups' = backups
    BY <1>1 DEF EditBase, Disturb
  <2>2. job'.kind = job.kind /\ job'.at = job.at /\ Shape'
    BY <2>1 DEF RInv, Shape
  <2>3. CASE job.at = "backup"
    <3>1. good' = base'
      BY <1>1, <2>3 DEF EditBase
    <3> QED BY <1>1, <2>2, <2>3, <3>1 DEF RInv, BackedUp, BaseRecoverable
  <2>4. CASE job.at # "backup"
    <3>1. good' = good
      BY <1>1, <2>4 DEF EditBase
    <3> QED BY <1>1, <2>1, <2>2, <2>4, <3>1 DEF RInv, BackedUp, BaseRecoverable
  <2> QED BY <2>3, <2>4
<1>2. CASE job.kind # "apply"
  <2>1. job' = job /\ good' = base'
    BY <1>2 DEF EditBase, Disturb
  <2> QED BY <1>2, <2>1 DEF RInv, Shape, BackedUp, BaseRecoverable
<1> QED BY <1>1, <1>2

\* The steps of an apply.
LEMMA ApplyRInv ==
  ASSUME RInv, Apply
  PROVE RInv'
<1> USE DEF RInv, Shape, BackedUp, BaseRecoverable
<1>1. ASSUME NEW b \in Names, BeginApply(b) PROVE RInv'
  BY <1>1 DEF BeginApply, disk
<1>2. CASE Backup
  BY <1>2 DEF Backup, At, Goto
<1>3. CASE CommitMain
  BY <1>3 DEF CommitMain, At, disk
<1>4. CASE CommitBranch
  BY <1>4 DEF CommitBranch, At, disk
<1>5. CASE Checkout
  BY <1>5 DEF Checkout, At, Goto
<1>6. CASE CleanMerge
  BY <1>6 DEF CleanMerge, At
<1>7. CASE ConflictingMerge
  BY <1>7 DEF ConflictingMerge, At, End, Idle
<1>8. ASSUME NEW f \in Files, Clear(f) PROVE RInv'
  BY <1>8 DEF Clear, At
<1>9. ASSUME NEW f \in Files, CopyFile(f) PROVE RInv'
  BY <1>9 DEF CopyFile, At
<1>10. CASE StartCopy
  BY <1>10 DEF StartCopy, At, disk
<1>11. CASE EndApply
  BY <1>11 DEF EndApply, At, End, Idle, disk
<1> QED BY <1>1, <1>2, <1>3, <1>4, <1>5, <1>6, <1>7, <1>8, <1>9, <1>10, <1>11 DEF Apply

\* Every other step leaves the base, good and the snapshots alone.
LEMMA OtherRInv ==
  ASSUME RInv, Create \/ Delete \/ Abort \/ UNCHANGED vars
  PROVE RInv'
<1> USE DEF RInv, Shape, BackedUp, BaseRecoverable
<1>1. ASSUME NEW b \in Names, BeginCreate(b) PROVE RInv'
  BY <1>1 DEF BeginCreate
<1>2. CASE MakeVolume
  BY <1>2 DEF MakeVolume, At, Goto
<1>3. ASSUME NEW f \in Files, Seed(f) PROVE RInv'
  BY <1>3 DEF Seed, At
<1>4. CASE TruncateMeta
  BY <1>4 DEF TruncateMeta, At, Goto
<1>5. CASE WriteMeta
  BY <1>5 DEF WriteMeta, At, End, Idle
<1>6. ASSUME NEW b \in Names, BeginDelete(b) PROVE RInv'
  BY <1>6 DEF BeginDelete, disk
<1>7. CASE RemoveVolume
  BY <1>7 DEF RemoveVolume, At, End, Idle
<1>8. CASE RemoveMeta
  BY <1>8 DEF RemoveMeta, At, End, Idle
<1>9. CASE Abort
  BY <1>9 DEF Abort, End, Idle, disk
<1>10. CASE UNCHANGED vars
  BY <1>10 DEF vars, disk
<1> QED BY <1>1, <1>2, <1>3, <1>4, <1>5, <1>6, <1>7, <1>8, <1>9, <1>10 DEF Create, Delete

\* An edit in a branch.
LEMMA EditHomeRInv ==
  ASSUME RInv, NEW b \in Names, NEW f \in Files, NEW v, EditHome(b, f, v)
  PROVE RInv'
<1>1. job'.kind = job.kind /\ job'.at = job.at /\ Shape'
  BY DEF EditHome, Disturb, RInv, Shape
<1>2. UNCHANGED <<base, good, backups>>
  BY DEF EditHome
<1> QED BY <1>1, <1>2 DEF RInv, BackedUp, BaseRecoverable

\* Whatever an apply, its failure, a crash or a rerun does, the base as it was
\* before is there or in a snapshot.
THEOREM Recoverable == Spec => []BaseRecoverable
<1>1. RInv /\ [Next]_vars => RInv'
  BY EditBaseRInv, EditHomeRInv, ApplyRInv, OtherRInv DEF Next, Users
<1>2. RInv => BaseRecoverable
  BY DEF RInv
<1> QED BY InitRInv, <1>1, <1>2, PTL DEF Spec
-----------------------------------------------------------------------------
(* Types.                                                                   *)

\* Empty is a directory, and a commit of a directory is one.
LEMMA TreeFacts ==
  /\ Empty \in Trees
  /\ \A t \in Trees : Commit(t) \in Trees /\ Present(t) \subseteq Files
  /\ \A t \in Trees, f \in Files, c \in Contents : [t EXCEPT ![f] = c] \in Trees
BY DEF Empty, Trees, Contents, Commit, Present

\* What a merge leaves of a file is a content.
LEMMA MergedType ==
  ASSUME TypeOK, job \in ApplyJobs, NEW f \in Files
  PROVE Merged(f) \in Contents
<1>1. job.main[f] \in Contents /\ job.branch[f] \in Contents
  BY DEF ApplyJobs, Trees
<1>2. Marked \in Contents
  BY DEF Contents
<1> HIDE DEF Contents
<1> QED BY <1>1, <1>2 DEF Merged

\* The history a change of the base's files leaves.
LEMMA BaseChangesType ==
  ASSUME since \in [Names -> Sinces], NEW C \in SUBSET Files, BaseChanges(C)
  PROVE since' \in [Names -> Sinces]
BY DEF BaseChanges, Sinces

\* An edit during an apply leaves the command what it is.
LEMMA DisturbType ==
  ASSUME TypeOK, Disturb
  PROVE /\ job' \in {Idle} \cup CreateJobs \cup DeleteJobs \cup ApplyJobs
        /\ job'.kind = job.kind
        /\ job.kind # "none" => job'.name = job.name
        /\ job.kind # "apply" => job' = job
<1>1. CASE job \in ApplyJobs
  BY <1>1 DEF Disturb, ApplyJobs
<1>2. CASE job \notin ApplyJobs
  BY <1>2 DEF TypeOK, Disturb, CreateJobs, DeleteJobs, Idle
<1> QED BY <1>1, <1>2

\* A command is of the kind its record says.
LEMMA JobKinds ==
  ASSUME TypeOK
  PROVE /\ job.kind = "apply" => job \in ApplyJobs
        /\ job.kind = "create" => job \in CreateJobs
        /\ job.kind = "delete" => job \in DeleteJobs
BY DEF TypeOK, ApplyJobs, CreateJobs, DeleteJobs, Idle

\* Init has the types.
LEMMA InitTyped == Init => TypeOK
<1> SUFFICES ASSUME Init PROVE TypeOK
  OBVIOUS
<1>1. base \in Trees
  BY DEF Init, Trees, Contents
<1>2. [b \in Names |-> Empty] \in [Names -> Trees]
  BY TreeFacts
<1>3. Fresh \in Sinces
  BY DEF Fresh, Sinces
<1> QED BY <1>1, <1>2, <1>3, BranchAssumption DEF Init, TypeOK, Idle

\* Users' edits keep them.
LEMMA UsersTyped ==
  ASSUME TypeOK, Users
  PROVE TypeOK'
<1>1. ASSUME NEW f \in Files, NEW v \in Versions \cup {Gone}, EditBase(f, v)
      PROVE TypeOK'
  <2>1. v \in Contents
    BY DEF Contents
  <2>2. base' \in Trees /\ good' \in Trees
    BY <1>1, <2>1, TreeFacts DEF EditBase, TypeOK
  <2>3. since' \in [Names -> Sinces]
    BY <1>1, BaseChangesType DEF EditBase, TypeOK
  <2>4. edits' \in 0..MaxEdits
    BY <1>1, BranchAssumption DEF EditBase, TypeOK
  <2>5. /\ job' \in {Idle} \cup CreateJobs \cup DeleteJobs \cup ApplyJobs
        /\ job'.kind = "apply" => volume[job'.name] /\ meta[job'.name] = "whole"
    BY <1>1, DisturbType DEF EditBase, TypeOK
  <2> QED BY <1>1, <2>2, <2>3, <2>4, <2>5 DEF EditBase, TypeOK
<1>2. ASSUME NEW b \in Names, NEW f \in Files, NEW v \in Versions \cup {Gone},
             EditHome(b, f, v)
      PROVE TypeOK'
  <2>1. v \in Contents
    BY DEF Contents
  <2>2. [home[b] EXCEPT ![f] = v] \in Trees
    BY <2>1, TreeFacts DEF TypeOK
  <2>3. home' \in [Names -> Trees]
    BY <1>2, <2>2 DEF EditHome, TypeOK
  <2>4. since' \in [Names -> Sinces]
    <3>1. since[b] \in Sinces
      BY DEF TypeOK
    <3>2. [since[b] EXCEPT !.home = @ \cup {f}, !.open = @ \ {f}] \in Sinces
      BY <3>1 DEF Sinces
    <3> QED BY <1>2, <3>2 DEF EditHome, TypeOK
  <2>5. edits' \in 0..MaxEdits
    BY <1>2, BranchAssumption DEF EditHome, TypeOK
  <2>6. /\ job' \in {Idle} \cup CreateJobs \cup DeleteJobs \cup ApplyJobs
        /\ job'.kind = "apply" => volume[job'.name] /\ meta[job'.name] = "whole"
    BY <1>2, DisturbType DEF EditHome, TypeOK
  <2> QED BY <1>2, <2>3, <2>4, <2>5, <2>6 DEF EditHome, TypeOK
<1> QED BY <1>1, <1>2 DEF Users

\* So do creations and deletions.
LEMMA CreateTyped ==
  ASSUME TypeOK, Create \/ Delete \/ Abort \/ UNCHANGED vars
  PROVE TypeOK'
<1>0. Idle.kind = "none" /\ Empty \in Trees
  BY TreeFacts DEF Idle
<1>1. ASSUME NEW b \in Names, BeginCreate(b) PROVE TypeOK'
  <2>1. Present(base) \subseteq Files /\ Fresh \in Sinces
    BY TreeFacts DEF TypeOK, Fresh, Sinces
  <2>2. job' \in CreateJobs /\ job'.kind = "create"
    BY <1>1, <2>1 DEF BeginCreate, CreateJobs
  <2>3. origin' \in [Names -> Trees] /\ since' \in [Names -> Sinces]
    BY <1>1, <2>1 DEF BeginCreate, TypeOK
  <2> QED BY <1>1, <2>2, <2>3 DEF BeginCreate, TypeOK
<1>2. CASE MakeVolume
  <2>1. job \in CreateJobs
    BY <1>2, JobKinds DEF MakeVolume, At
  <2>2. job' \in CreateJobs /\ job'.kind = "create"
    BY <1>2, <2>1 DEF MakeVolume, Goto, CreateJobs
  <2> QED BY <1>2, <2>1, <2>2 DEF MakeVolume, TypeOK
<1>3. ASSUME NEW f \in Files, Seed(f) PROVE TypeOK'
  <2>1. job \in CreateJobs /\ job.name \in Names
    BY <1>3, JobKinds DEF Seed, At, CreateJobs
  <2>2. job' \in CreateJobs /\ job'.kind = "create"
    BY <1>3, <2>1 DEF Seed, CreateJobs
  <2>3. origin[job.name][f] \in Contents /\ home[job.name] \in Trees
    BY <2>1 DEF TypeOK, Trees
  <2>4. [home[job.name] EXCEPT ![f] = origin[job.name][f]] \in Trees
    BY <2>3, TreeFacts
  <2>5. home' \in [Names -> Trees]
    BY <1>3, <2>1, <2>4 DEF Seed, TypeOK
  <2> QED BY <1>3, <2>2, <2>5 DEF Seed, TypeOK
<1>4. CASE TruncateMeta
  <2>1. job \in CreateJobs
    BY <1>4, JobKinds DEF TruncateMeta, At
  <2>2. job' \in CreateJobs /\ job'.kind = "create"
    BY <1>4, <2>1 DEF TruncateMeta, Goto, CreateJobs
  <2> QED BY <1>4, <2>1, <2>2 DEF TruncateMeta, TypeOK
<1>5. CASE WriteMeta
  BY <1>0, <1>5 DEF WriteMeta, End, TypeOK
<1>6. ASSUME NEW b \in Names, BeginDelete(b) PROVE TypeOK'
  <2>1. job' \in DeleteJobs /\ job'.kind = "delete"
    BY <1>6 DEF BeginDelete, DeleteJobs
  <2> QED BY <1>6, <2>1 DEF BeginDelete, disk, TypeOK
<1>7. CASE RemoveVolume
  <2>1. job.kind = "delete" /\ (job' = job \/ job' = Idle)
    BY <1>7 DEF RemoveVolume, At, End
  <2> QED BY <1>0, <1>7, <2>1 DEF RemoveVolume, TypeOK
<1>8. CASE RemoveMeta
  <2>1. job.kind = "delete" /\ (job' = job \/ job' = Idle)
    BY <1>8 DEF RemoveMeta, At, End
  <2> QED BY <1>0, <1>8, <2>1 DEF RemoveMeta, TypeOK
<1>9. CASE Abort
  BY <1>0, <1>9 DEF Abort, End, disk, TypeOK
<1>10. CASE UNCHANGED vars
  BY <1>10 DEF vars, disk, TypeOK
<1> QED BY <1>1, <1>2, <1>3, <1>4, <1>5, <1>6, <1>7, <1>8, <1>9, <1>10 DEF Create, Delete

\* And the steps of an apply.
LEMMA ApplyTyped ==
  ASSUME TypeOK, Apply
  PROVE TypeOK'
<1>1. ASSUME NEW b \in Names, BeginApply(b) PROVE TypeOK'
  <2>1. /\ Empty \in Trees /\ base \in Trees
        /\ home[b] \in Trees /\ since[b] \in Sinces
    BY TreeFacts DEF TypeOK
  <2>2. job' \in ApplyJobs /\ job'.kind = "apply" /\ job'.name = b
    BY <1>1, <2>1 DEF BeginApply, ApplyJobs
  <2>3. [since[b] EXCEPT !.tried = TRUE] \in Sinces
    BY <2>1 DEF Sinces
  <2>4. since' \in [Names -> Sinces]
    BY <1>1, <2>3 DEF BeginApply, TypeOK
  <2>5. applies' \in 0..MaxApplies
    BY <1>1, BranchAssumption DEF BeginApply, TypeOK
  <2> QED BY <1>1, <2>1, <2>2, <2>4, <2>5 DEF BeginApply, disk, TypeOK
<1>2. ASSUME Backup \/ CommitMain \/ CommitBranch \/ Checkout \/ CleanMerge
             \/ ConflictingMerge \/ StartCopy \/ EndApply
             \/ \E f \in Files : Clear(f) \/ CopyFile(f)
      PROVE /\ job \in ApplyJobs /\ job.name \in Names
            /\ volume[job.name] /\ meta[job.name] = "whole"
            /\ home[job.name] \in Trees
  <2>1. job.kind = "apply"
    BY <1>2 DEF Backup, CommitMain, CommitBranch, Checkout, CleanMerge,
                ConflictingMerge, StartCopy, EndApply, Clear, CopyFile, At
  <2>2. job \in ApplyJobs
    BY <2>1, JobKinds
  <2>3. job.name \in Names
    BY <2>2 DEF ApplyJobs
  <2> QED BY <2>1, <2>2, <2>3 DEF TypeOK
<1>3. CASE Backup
  <2>1. job' \in ApplyJobs /\ job'.name = job.name
    BY <1>2, <1>3 DEF Backup, Goto, ApplyJobs
  <2> QED BY <1>2, <1>3, <2>1 DEF Backup, TypeOK
<1>4. CASE CommitMain
  <2>1. Commit(base) \in Trees
    BY TreeFacts DEF TypeOK
  <2>2. job' \in ApplyJobs /\ job'.name = job.name
    BY <1>2, <1>4, <2>1 DEF CommitMain, ApplyJobs
  <2> QED BY <1>2, <1>4, <2>2 DEF CommitMain, disk, TypeOK
<1>5. CASE CommitBranch
  <2>1. Commit(home[job.name]) \in Trees /\ job.main \in Trees
    BY <1>2, <1>5, TreeFacts DEF ApplyJobs
  <2>2. job' \in ApplyJobs /\ job'.name = job.name
    BY <1>2, <1>5, <2>1 DEF CommitBranch, ApplyJobs
  <2> QED BY <1>2, <1>5, <2>2 DEF CommitBranch, disk, TypeOK
<1>6. CASE Checkout
  <2>1. job' \in ApplyJobs /\ job'.name = job.name
    BY <1>2, <1>6 DEF Checkout, Goto, ApplyJobs
  <2>2. job.branch \in Trees
    BY <1>2, <1>6 DEF ApplyJobs
  <2>3. PICK kept : home' = [home EXCEPT ![job.name] =
                     [f \in Files |-> IF f \in Ignored \cup kept THEN home[job.name][f]
                                      ELSE job.branch[f]]]
    BY <1>6 DEF Checkout
  <2>4. [f \in Files |-> IF f \in Ignored \cup kept THEN home[job.name][f]
                         ELSE job.branch[f]] \in Trees
    BY <1>2, <1>6, <2>2 DEF Trees
  <2>5. home' \in [Names -> Trees]
    BY <1>2, <2>3, <2>4 DEF TypeOK
  <2> QED BY <1>2, <1>6, <2>1, <2>5 DEF Checkout, TypeOK
<1>7. ASSUME WriteMerge, CleanMerge \/ ConflictingMerge PROVE home' \in [Names -> Trees]
  <2> DEFINE T == [f \in Files |-> IF f \in Touched THEN Merged(f) ELSE home[job.name][f]]
  <2>1. \A f \in Files : T[f] \in Contents
    BY <1>2, <1>7, MergedType DEF Trees
  <2>2. T \in Trees
    BY <2>1 DEF Trees
  <2>3. home' = [home EXCEPT ![job.name] = T]
    BY <1>7 DEF WriteMerge
  <2> HIDE DEF T
  <2> QED BY <1>2, <1>7, <2>2, <2>3 DEF TypeOK
<1>8. CASE CleanMerge
  <2>1. Present(base) \subseteq Files
    BY TreeFacts DEF TypeOK
  <2>2. job' \in ApplyJobs /\ job'.name = job.name
    BY <1>2, <1>8, <2>1 DEF CleanMerge, ApplyJobs
  <2>3. home' \in [Names -> Trees]
    BY <1>7, <1>8 DEF CleanMerge
  <2> QED BY <1>2, <1>8, <2>2, <2>3 DEF CleanMerge, TypeOK
<1>9. CASE ConflictingMerge
  <2>1. BothChanged \subseteq Files /\ job.quiet \in BOOLEAN /\ since[job.name] \in Sinces
    BY <1>2, <1>9 DEF BothChanged, Tracked, ApplyJobs, TypeOK
  <2>2. [since[job.name] EXCEPT !.asked = job.quiet, !.open = BothChanged] \in Sinces
    BY <2>1 DEF Sinces
  <2>3. since' \in [Names -> Sinces]
    BY <1>2, <1>9, <2>2 DEF ConflictingMerge, TypeOK
  <2>4. home' \in [Names -> Trees]
    BY <1>7, <1>9 DEF ConflictingMerge
  <2>5. job' = Idle /\ Idle.kind # "apply"
    BY <1>9 DEF ConflictingMerge, End, Idle
  <2> QED BY <1>2, <1>9, <2>3, <2>4, <2>5 DEF ConflictingMerge, TypeOK
<1>10. ASSUME NEW f \in Files, Clear(f) PROVE TypeOK'
  <2>1. job' \in ApplyJobs /\ job'.name = job.name
    BY <1>2, <1>10 DEF Clear, ApplyJobs
  <2>2. Gone \in Contents
    BY DEF Contents
  <2>3. base' \in Trees
    BY <1>10, <2>2, TreeFacts DEF Clear, TypeOK
  <2>4. since' \in [Names -> Sinces]
    BY <1>10, BaseChangesType DEF Clear, TypeOK
  <2> QED BY <1>2, <1>10, <2>1, <2>3, <2>4 DEF Clear, TypeOK
<1>11. ASSUME NEW f \in Files, CopyFile(f) PROVE TypeOK'
  <2>1. job' \in ApplyJobs /\ job'.name = job.name
    BY <1>2, <1>11 DEF CopyFile, ApplyJobs
  <2>2. base[f] \in Contents /\ home[job.name][f] \in Contents
    BY <1>2, <1>11 DEF TypeOK, Trees
  <2>3. base' \in Trees
    BY <1>11, <2>2, TreeFacts DEF CopyFile, TypeOK
  <2>4. since' \in [Names -> Sinces]
    BY <1>11, BaseChangesType DEF CopyFile, TypeOK
  <2> QED BY <1>2, <1>11, <2>1, <2>3, <2>4 DEF CopyFile, TypeOK
<1>12. CASE StartCopy
  <2>1. Present(home[job.name]) \subseteq Files
    BY <1>2, <1>12, TreeFacts
  <2>2. job' \in ApplyJobs /\ job'.name = job.name
    BY <1>2, <1>12, <2>1 DEF StartCopy, ApplyJobs
  <2> QED BY <1>2, <1>12, <2>2 DEF StartCopy, disk, TypeOK
<1>13. CASE EndApply
  <2>1. job' = Idle /\ Idle.kind # "apply"
    BY <1>13 DEF EndApply, End, Idle
  <2> QED BY <1>13, <2>1 DEF EndApply, disk, TypeOK
<1> QED BY <1>1, <1>3, <1>4, <1>5, <1>6, <1>8, <1>9, <1>10, <1>11, <1>12, <1>13 DEF Apply

\* Every reachable state has the types, and an apply always has a branch with
\* a volume to work on, also after a deletion that was cut short.
THEOREM Typing == Spec => []TypeOK
<1>1. TypeOK /\ [Next]_vars => TypeOK'
  BY UsersTyped, CreateTyped, ApplyTyped DEF Next
<1> QED BY InitTyped, <1>1, PTL DEF Spec

-----------------------------------------------------------------------------
(* branch.json and the copy it vouches for.                                 *)

\* A volume that does not exist is empty.
Bare == \A b \in Names : volume[b] \/ home[b] = Empty

\* A creation fills an empty volume, and has copied every file but those left
\* when it comes to branch.json.
Filling ==
  job.kind = "create" =>
    LET b == job.name IN
    /\ job.at = "write" => job.left = {}
    /\ job.at # "write" => meta[b] = "none"
    /\ meta[b] # "whole"
    /\ job.at = "make" => home[b] = Empty
    /\ job.at # "make" => volume[b]
    /\ \A f \in Files \ job.left : home[b][f] = origin[b][f]

CInv == TypeOK /\ Bare /\ Filling

\* Init establishes it.
LEMMA InitCInv == Init => CInv
BY InitTyped DEF Init, CInv, Bare, Filling, Idle

\* No one edits a branch that is being made.
LEMMA UsersCInv ==
  ASSUME CInv, Users
  PROVE CInv'
<1>0. TypeOK'
  BY UsersTyped DEF CInv
<1>1. ASSUME NEW f \in Files, NEW v \in Versions \cup {Gone}, EditBase(f, v)
      PROVE CInv'
  <2>1. UNCHANGED <<home, volume, meta, origin>>
    BY <1>1 DEF EditBase
  <2>2. job'.kind = job.kind /\ (job.kind # "apply" => job' = job)
    BY <1>1, DisturbType DEF EditBase, CInv
  <2> QED BY <1>0, <2>1, <2>2 DEF CInv, Bare, Filling
<1>2. ASSUME NEW b \in Names, NEW f \in Files, NEW v \in Versions \cup {Gone},
             EditHome(b, f, v)
      PROVE CInv'
  <2>1. /\ UNCHANGED <<volume, meta, origin>>
        /\ volume[b] /\ meta[b] = "whole"
        /\ \A c \in Names : c # b => home'[c] = home[c]
    BY <1>2 DEF EditHome, CInv, TypeOK
  <2>2. job'.kind = job.kind /\ (job.kind # "apply" => job' = job)
    BY <1>2, DisturbType DEF EditHome, CInv
  <2>3. job.kind = "create" => job.name \in Names /\ job.name # b
    BY <2>1, JobKinds DEF CInv, Filling, CreateJobs
  <2> QED BY <1>0, <2>1, <2>2, <2>3 DEF CInv, Bare, Filling
<1> QED BY <1>1, <1>2 DEF Users

\* The steps of a creation.
LEMMA CreateCInv ==
  ASSUME CInv, Create
  PROVE CInv'
<1>0. TypeOK /\ TypeOK'
  BY CreateTyped DEF CInv
<1>1. ASSUME NEW b \in Names, BeginCreate(b) PROVE CInv'
  <2>1. /\ job'.kind = "create" /\ job'.name = b /\ job'.at = "make"
        /\ job'.left = Present(base)
    BY <1>1 DEF BeginCreate
  <2>2. home[b] = Empty /\ origin'[b] = base /\ meta[b] = "none"
    BY <1>0, <1>1 DEF BeginCreate, CInv, Bare, TypeOK
  <2>3. \A f \in Files \ Present(base) : home[b][f] = base[f]
    BY <2>2 DEF Present, Empty
  <2>4. UNCHANGED <<home, volume, meta>>
    BY <1>1 DEF BeginCreate
  <2> QED BY <1>0, <2>1, <2>2, <2>3, <2>4 DEF CInv, Bare, Filling
<1>2. ASSUME job.kind = "create"
      PROVE job \in CreateJobs /\ job.name \in Names /\ job.left \subseteq Files
  BY <1>0, <1>2, JobKinds DEF CreateJobs
<1>3. CASE MakeVolume
  <2>1. job.kind = "create" /\ job.at = "make"
    BY <1>3 DEF MakeVolume, At
  <2>2. /\ job'.kind = "create" /\ job'.name = job.name /\ job'.at = "seed"
        /\ job'.left = job.left
    BY <1>2, <1>3, <2>1 DEF MakeVolume, Goto, CreateJobs
  <2>3. /\ UNCHANGED <<home, meta, origin>>
        /\ volume' = [volume EXCEPT ![job.name] = TRUE]
    BY <1>3 DEF MakeVolume
  <2>4. volume'[job.name] /\ \A b \in Names : volume[b] => volume'[b]
    BY <1>0, <1>2, <2>1, <2>3 DEF TypeOK
  <2> QED BY <1>0, <1>2, <2>1, <2>2, <2>3, <2>4 DEF CInv, Bare, Filling
<1>4. ASSUME NEW f \in Files, Seed(f) PROVE CInv'
  <2>1. job.kind = "create" /\ job.at = "seed" /\ f \in job.left
    BY <1>4 DEF Seed, At
  <2>2. /\ job'.kind = "create" /\ job'.name = job.name /\ job'.at = "seed"
        /\ job'.left = job.left \ {f}
    BY <1>2, <1>4, <2>1 DEF Seed, CreateJobs
  <2>3. UNCHANGED <<volume, meta, origin>>
    BY <1>4 DEF Seed
  <2>4. /\ home[job.name] \in Trees
        /\ home'[job.name] = [home[job.name] EXCEPT ![f] = origin[job.name][f]]
        /\ \A c \in Names : c # job.name => home'[c] = home[c]
    BY <1>0, <1>2, <1>4, <2>1 DEF Seed, TypeOK
  <2>5. \A g \in Files \ job'.left : home'[job.name][g] = origin[job.name][g]
    <3>1. home'[job.name][f] = origin[job.name][f]
      BY <2>4 DEF Trees
    <3>2. \A g \in Files : g # f => home'[job.name][g] = home[job.name][g]
      BY <2>4 DEF Trees
    <3>3. \A g \in Files \ job.left : home[job.name][g] = origin[job.name][g]
      BY <2>1 DEF CInv, Filling
    <3> QED BY <2>2, <3>1, <3>2, <3>3
  <2>6. volume[job.name] /\ meta[job.name] = "none"
    BY <2>1 DEF CInv, Filling
  <2>7. Bare'
    BY <2>3, <2>4, <2>6 DEF CInv, Bare
  <2> QED BY <1>0, <2>2, <2>3, <2>5, <2>6, <2>7 DEF CInv, Filling
<1>5. CASE TruncateMeta
  <2>1. job.kind = "create" /\ job.at = "seed" /\ job.left = {}
    BY <1>5 DEF TruncateMeta, At
  <2>2. /\ job'.kind = "create" /\ job'.name = job.name /\ job'.at = "write"
        /\ job'.left = {}
    BY <1>2, <1>5, <2>1 DEF TruncateMeta, Goto, CreateJobs
  <2>3. UNCHANGED <<home, volume, origin>> /\ meta'[job.name] = "torn"
    BY <1>0, <1>2, <1>5, <2>1 DEF TruncateMeta, TypeOK
  <2> QED BY <1>0, <2>1, <2>2, <2>3 DEF CInv, Bare, Filling
<1>6. CASE WriteMeta
  <2>1. job'.kind = "none"
    BY <1>6 DEF WriteMeta, End, Idle
  <2> QED BY <1>0, <1>6, <2>1 DEF WriteMeta, CInv, Bare, Filling
<1> QED BY <1>1, <1>3, <1>4, <1>5, <1>6 DEF Create

\* A deletion empties the volume it removes.
LEMMA DeleteCInv ==
  ASSUME CInv, Delete \/ Abort \/ UNCHANGED vars
  PROVE CInv'
<1>0. TypeOK /\ TypeOK'
  BY CreateTyped DEF CInv
<1>1. ASSUME NEW b \in Names, BeginDelete(b) PROVE CInv'
  BY <1>0, <1>1 DEF BeginDelete, disk, CInv, Bare, Filling
<1>2. CASE RemoveVolume
  <2>1. job.kind = "delete" /\ (job' = job \/ job' = Idle) /\ Idle.kind = "none"
    BY <1>2 DEF RemoveVolume, At, End, Idle
  <2>2. /\ home' = [home EXCEPT ![job.name] = Empty]
        /\ volume' = [volume EXCEPT ![job.name] = FALSE]
    BY <1>2 DEF RemoveVolume
  <2>3. Bare'
    BY <1>0, <2>2 DEF TypeOK, CInv, Bare
  <2> QED BY <1>0, <2>1, <2>3 DEF CInv, Filling
<1>3. CASE RemoveMeta
  <2>1. job.kind = "delete" /\ (job' = job \/ job' = Idle) /\ Idle.kind = "none"
    BY <1>3 DEF RemoveMeta, At, End, Idle
  <2>2. UNCHANGED <<home, volume>>
    BY <1>3 DEF RemoveMeta
  <2> QED BY <1>0, <2>1, <2>2 DEF CInv, Bare, Filling
<1>4. CASE Abort
  BY <1>0, <1>4 DEF Abort, End, Idle, disk, CInv, Bare, Filling
<1>5. CASE UNCHANGED vars
  BY <1>0, <1>5 DEF vars, disk, CInv, Bare, Filling
<1> QED BY <1>1, <1>2, <1>3, <1>4, <1>5 DEF Delete

\* An apply works on a volume that exists.
LEMMA ApplyCInv ==
  ASSUME CInv, Apply
  PROVE CInv'
<1>0. TypeOK /\ TypeOK'
  BY ApplyTyped DEF CInv
<1>1. volume' = volume
  BY DEF Apply, BeginApply, Backup, CommitMain, CommitBranch, Checkout, CleanMerge,
         ConflictingMerge, Clear, CopyFile, StartCopy, EndApply, disk
<1>2. job'.kind # "create"
  <2>1. ASSUME NEW b \in Names, BeginApply(b) PROVE job'.kind = "apply"
    BY <2>1 DEF BeginApply
  <2>2. CASE ConflictingMerge \/ EndApply
    BY <2>2 DEF ConflictingMerge, EndApply, End, Idle
  <2>3. CASE Backup \/ CommitMain \/ CommitBranch \/ Checkout \/ CleanMerge \/ StartCopy
             \/ \E f \in Files : Clear(f) \/ CopyFile(f)
    <3>1. job.kind = "apply"
      BY <2>3 DEF Backup, CommitMain, CommitBranch, Checkout, CleanMerge, StartCopy,
                  Clear, CopyFile, At
    <3>2. job \in ApplyJobs
      BY <1>0, <3>1, JobKinds
    <3> QED BY <2>3, <3>1, <3>2 DEF Backup, CommitMain, CommitBranch, Checkout,
               CleanMerge, StartCopy, Clear, CopyFile, Goto, ApplyJobs
  <2> QED BY <2>1, <2>2, <2>3 DEF Apply
<1>3. ASSUME NEW c \in Names, home'[c] # home[c] PROVE volume[c]
  <2>1. home' # home
    BY <1>3
  <2>2. CASE Checkout \/ CleanMerge \/ ConflictingMerge
    <3>1. job.kind = "apply"
      BY <2>2 DEF Checkout, CleanMerge, ConflictingMerge, At
    <3>2. volume[job.name]
      BY <1>0, <3>1 DEF TypeOK
    <3>3. \A d \in Names : d # job.name => home'[d] = home[d]
      BY <1>0, <2>2 DEF Checkout, CleanMerge, ConflictingMerge, WriteMerge, TypeOK
    <3> QED BY <1>3, <3>2, <3>3
  <2> QED BY <2>1, <2>2 DEF Apply, BeginApply, Backup, CommitMain, CommitBranch, Clear,
             CopyFile, StartCopy, EndApply, disk
<1> QED BY <1>0, <1>1, <1>2, <1>3 DEF CInv, Bare, Filling

\* branch.json appears only over a complete copy of the snapshot it names.
THEOREM CompleteCopies == Spec => BranchIsCopy
<1>1. CInv /\ [Next]_vars => CInv'
  BY UsersCInv, CreateCInv, DeleteCInv, ApplyCInv DEF Next
<1>2. ASSUME CInv, Next, NEW b \in Names, meta[b] # "whole", meta'[b] = "whole"
      PROVE volume[b] /\ home[b] = origin[b]
  <2>1. WriteMeta
    BY <1>2 DEF Next, Users, EditBase, EditHome, Create, BeginCreate, MakeVolume, Seed,
       TruncateMeta, Delete, BeginDelete, RemoveVolume, RemoveMeta, Apply, BeginApply,
       Backup, CommitMain, CommitBranch, Checkout, CleanMerge, ConflictingMerge, Clear,
       CopyFile, StartCopy, EndApply, Abort, disk, CInv, TypeOK
  <2>2. job.kind = "create" /\ job.at = "write" /\ b = job.name
    BY <1>2, <2>1 DEF WriteMeta, At, CInv, TypeOK
  <2>3. job.left = {} /\ volume[b] /\ \A f \in Files : home[b][f] = origin[b][f]
    BY <1>2, <2>2 DEF CInv, Filling
  <2>4. home[b] \in Trees /\ origin[b] \in Trees
    BY <1>2 DEF CInv, TypeOK
  <2> QED BY <2>3, <2>4 DEF Trees
<1>3. CInv /\ [Next]_vars =>
        [\A b \in Names : meta[b] # "whole" /\ meta'[b] = "whole"
                            => volume[b] /\ home[b] = origin[b]]_vars
  BY <1>2
<1> QED BY InitCInv, <1>1, <1>3, PTL DEF Spec, BranchIsCopy

-----------------------------------------------------------------------------
(* What a first apply keeps.                                                *)

\* Outside the files C, t is what o is.
SameBut(t, o, C) == \A f \in Files \ C : t[f] = o[f]

\* The history is complete: a file it does not name is as in the snapshot the
\* branch was made from; in the base for as long as the branch is there, in the
\* branch until its first apply, which may write to it.
Recorded ==
  \A b \in Names :
    /\ meta[b] # "none" \/ (job.kind = "create" /\ job.name = b) =>
         SameBut(base, origin[b], since[b].base)
    /\ meta[b] = "whole" /\ volume[b] /\ ~since[b].tried =>
         SameBut(home[b], origin[b], since[b].home)

\* A first apply has found both sides so.
Found ==
  job.kind = "apply" =>
    /\ since[job.name].tried
    /\ ~job.since0.tried =>
         /\ SameBut(job.base0, origin[job.name], job.since0.base)
         /\ SameBut(job.home0, origin[job.name], job.since0.home)

\* An apply no one disturbs commits what it found, writes the merge of that
\* into the branch, and then brings it file by file to the base; a branch that
\* is named Main has taken the base's commit's place.
Committing == {"backup", "main", "branch", "checkout", "merge"}
Syncing == {"clear", "copy"}
Undisturbed ==
  job.kind = "apply" /\ job.quiet /\ job.name # Main =>
    LET b == job.name IN
    /\ job.at \in Committing => base = job.base0 /\ home[b] = job.home0
    /\ job.at \in {"branch", "checkout", "merge"} \cup Syncing => job.main = Commit(job.base0)
    /\ job.at \in {"checkout", "merge"} \cup Syncing => job.branch = Commit(job.home0)
    /\ job.at \in Syncing => BothChanged = {} /\ \A f \in Tracked : home[b][f] = Merged(f)
    /\ job.at = "clear" => \A f \in Files \ job.left : base[f] = Gone
    /\ job.at = "copy" =>
         \A f \in Files : IF f \in job.left THEN home[b][f] # Gone ELSE base[f] = home[b][f]

FInv == Recorded /\ Found /\ Undisturbed

\* Two contents are no more than two.
LEMMA TwoContents ==
  ASSUME NEW x, NEW y
  PROVE Cardinality({x, y}) < 3
<1>1. IsFiniteSet({x}) /\ Cardinality({x}) = 1
  BY FS_Singleton
<1>2. {x, y} = {x} \cup {y}
  OBVIOUS
<1>3. Cardinality({x} \cup {y}) = IF y \in {x} THEN 1 ELSE 2
  BY <1>1, FS_AddElement
<1> QED BY <1>2, <1>3

\* The result of a merge is that of the three commits.
LEMMA SameMerge ==
  ASSUME job'.main = job.main, job'.branch = job.branch, job'.name = job.name,
         origin' = origin
  PROVE BothChanged' = BothChanged /\ \A f \in Files : Merged(f)' = Merged(f)
<1>1. Ancestor' = Ancestor
  BY DEF Ancestor
<1>2. BothChanged' = BothChanged
  BY <1>1 DEF BothChanged
<1> QED BY <1>1, <1>2 DEF Merged

\* The history of the base's files: what C names is added.
LEMMA BaseHistory ==
  ASSUME TypeOK, NEW C \in SUBSET Files, BaseChanges(C), NEW b \in Names
  PROVE /\ since'[b].base = since[b].base \cup C
        /\ since'[b].home = since[b].home /\ since'[b].tried = since[b].tried
<1>1. since[b] \in Sinces
  BY DEF TypeOK
<1> QED BY <1>1 DEF BaseChanges, Sinces

\* Init establishes it.
LEMMA InitFInv == Init => FInv
BY DEF Init, FInv, Recorded, Found, Undisturbed, Idle

\* An edit goes into the history, and an apply under way is no longer quiet.
LEMMA UsersFInv ==
  ASSUME CInv, FInv, Users
  PROVE FInv'
<1>0. TypeOK
  BY DEF CInv
<1>1. ASSUME Disturb
      PROVE /\ job'.kind = job.kind /\ (job.kind # "apply" => job' = job)
            /\ job.kind = "apply" =>
                 /\ job.name \in Names /\ job'.name = job.name /\ ~job'.quiet
                 /\ job'.since0 = job.since0
                 /\ job'.base0 = job.base0 /\ job'.home0 = job.home0
  <2>1. CASE job.kind = "apply"
    BY <1>0, <1>1, <2>1, JobKinds DEF Disturb, ApplyJobs
  <2>2. CASE job.kind # "apply"
    BY <1>1, <2>2 DEF Disturb
  <2> QED BY <2>1, <2>2
<1>2. ASSUME NEW f \in Files, NEW v \in Versions \cup {Gone}, EditBase(f, v)
      PROVE FInv'
  <2>1. UNCHANGED <<home, volume, meta, origin>> /\ base' = [base EXCEPT ![f] = v]
    BY <1>2 DEF EditBase
  <2>2. \A b \in Names : /\ since'[b].base = since[b].base \cup {f}
                         /\ since'[b].home = since[b].home
                         /\ since'[b].tried = since[b].tried
    BY <1>0, <1>2, BaseHistory DEF EditBase
  <2>3. \A g \in Files : g # f => base'[g] = base[g]
    BY <1>0, <2>1 DEF TypeOK, Trees
  <2>4. Disturb
    BY <1>2 DEF EditBase
  <2>5. \A b \in Names : (job'.kind = "create" /\ job'.name = b) <=>
                         (job.kind = "create" /\ job.name = b)
    BY <1>1, <2>4
  <2>6. Recorded'
    BY <2>1, <2>2, <2>3, <2>5 DEF FInv, Recorded, SameBut
  <2>7. Found'
    BY <1>1, <2>1, <2>2, <2>4 DEF FInv, Found, SameBut
  <2>8. Undisturbed'
    BY <1>1, <2>4 DEF Undisturbed
  <2> QED BY <2>6, <2>7, <2>8 DEF FInv
<1>3. ASSUME NEW b \in Names, NEW f \in Files, NEW v \in Versions \cup {Gone},
             EditHome(b, f, v)
      PROVE FInv'
  <2>1. /\ UNCHANGED <<base, volume, meta, origin>>
        /\ \A c \in Names : c # b => home'[c] = home[c]
        /\ \A g \in Files : g # f => home'[b][g] = home[b][g]
    BY <1>0, <1>3 DEF EditHome, TypeOK, Trees
  <2>2. /\ since'[b].home = since[b].home \cup {f} /\ since'[b].base = since[b].base
        /\ since'[b].tried = since[b].tried
        /\ \A c \in Names : c # b => since'[c] = since[c]
    <3>1. since[b] \in Sinces
      BY <1>0 DEF TypeOK
    <3> QED BY <1>0, <1>3, <3>1 DEF EditHome, TypeOK, Sinces
  <2>3. Disturb
    BY <1>3 DEF EditHome
  <2>4. \A c \in Names : (job'.kind = "create" /\ job'.name = c) <=>
                         (job.kind = "create" /\ job.name = c)
    BY <1>1, <2>3
  <2>5. Recorded'
    BY <2>1, <2>2, <2>4 DEF FInv, Recorded, SameBut
  <2>6. Found'
    BY <1>1, <2>1, <2>2, <2>3 DEF FInv, Found, SameBut
  <2>7. Undisturbed'
    BY <1>1, <2>3 DEF Undisturbed
  <2> QED BY <2>5, <2>6, <2>7 DEF FInv
<1> QED BY <1>2, <1>3 DEF Users

\* A new branch is the snapshot, and so is the base at that moment.
LEMMA CreateFInv ==
  ASSUME CInv, FInv, Create
  PROVE FInv'
<1>0. TypeOK
  BY DEF CInv
<1>1. ASSUME NEW b \in Names, BeginCreate(b) PROVE FInv'
  <2>1. /\ job'.kind = "create" /\ job'.name = b /\ job.kind = "none" /\ meta[b] = "none"
        /\ UNCHANGED <<base, home, volume, meta>>
    BY <1>1 DEF BeginCreate, Idle
  <2>2. /\ origin'[b] = base
        /\ \A c \in Names : c # b => origin'[c] = origin[c] /\ since'[c] = since[c]
    BY <1>0, <1>1 DEF BeginCreate, TypeOK
  <2> QED BY <2>1, <2>2 DEF FInv, Recorded, Found, Undisturbed, SameBut
<1>2. ASSUME job.kind = "create"
      PROVE job \in CreateJobs /\ job.name \in Names
  BY <1>0, <1>2, JobKinds DEF CreateJobs
<1>3. CASE MakeVolume
  <2>1. job.kind = "create" /\ job.at = "make"
    BY <1>3 DEF MakeVolume, At
  <2>2. /\ job'.kind = "create" /\ job'.name = job.name /\ meta[job.name] = "none"
        /\ UNCHANGED <<base, home, meta, origin, since>>
    BY <1>2, <1>3, <2>1 DEF MakeVolume, Goto, CreateJobs, CInv, Filling
  <2>3. \A c \in Names : c # job.name => volume'[c] = volume[c]
    BY <1>0, <1>3 DEF MakeVolume, TypeOK
  <2> QED BY <2>1, <2>2, <2>3 DEF FInv, Recorded, Found, Undisturbed, SameBut
<1>4. ASSUME NEW f \in Files, Seed(f) PROVE FInv'
  <2>1. job.kind = "create" /\ job.at = "seed"
    BY <1>4 DEF Seed, At
  <2>2. /\ job'.kind = "create" /\ job'.name = job.name /\ meta[job.name] = "none"
        /\ UNCHANGED <<base, volume, meta, origin, since>>
    BY <1>2, <1>4, <2>1 DEF Seed, CreateJobs, CInv, Filling
  <2>3. \A c \in Names : c # job.name => home'[c] = home[c]
    BY <1>0, <1>4 DEF Seed, TypeOK
  <2> QED BY <2>1, <2>2, <2>3 DEF FInv, Recorded, Found, Undisturbed, SameBut
<1>5. CASE TruncateMeta
  <2>1. job.kind = "create"
    BY <1>5 DEF TruncateMeta, At
  <2>2. /\ job'.kind = "create" /\ job'.name = job.name
        /\ UNCHANGED <<base, home, volume, origin, since>>
    BY <1>2, <1>5, <2>1 DEF TruncateMeta, Goto, CreateJobs
  <2>3. meta'[job.name] = "torn" /\ \A c \in Names : c # job.name => meta'[c] = meta[c]
    BY <1>0, <1>2, <1>5, <2>1 DEF TruncateMeta, TypeOK
  <2> QED BY <2>1, <2>2, <2>3 DEF FInv, Recorded, Found, Undisturbed, SameBut
<1>6. CASE WriteMeta
  <2>1. job.kind = "create" /\ job.at = "write"
    BY <1>6 DEF WriteMeta, At
  <2>2. job'.kind = "none" /\ UNCHANGED <<base, home, volume, origin, since>>
    BY <1>6 DEF WriteMeta, End, Idle
  <2>3. \A c \in Names : c # job.name => meta'[c] = meta[c]
    BY <1>0, <1>6 DEF WriteMeta, TypeOK
  <2>4. \A f \in Files : home[job.name][f] = origin[job.name][f]
    BY <2>1 DEF CInv, Filling
  <2> QED BY <2>1, <2>2, <2>3, <2>4 DEF FInv, Recorded, Found, Undisturbed, SameBut
<1> QED BY <1>1, <1>3, <1>4, <1>5, <1>6 DEF Create

\* A deletion leaves nothing of the branch to say anything of; no step here is
\* an apply's.
LEMMA DeleteFInv ==
  ASSUME CInv, FInv, Delete \/ Abort \/ UNCHANGED vars
  PROVE FInv'
<1>0. TypeOK
  BY DEF CInv
<1>1. ASSUME NEW b \in Names, BeginDelete(b) PROVE FInv'
  BY <1>1 DEF BeginDelete, disk, Idle, FInv, Recorded, Found, Undisturbed, SameBut
<1>2. CASE RemoveVolume
  <2>1. job.kind = "delete" /\ job'.kind \in {"delete", "none"}
    BY <1>2 DEF RemoveVolume, At, End, Idle
  <2>2. /\ UNCHANGED <<base, meta, origin, since>>
        /\ \A c \in Names : /\ volume'[c] => volume[c]
                            /\ volume'[c] => home'[c] = home[c]
    BY <1>0, <1>2 DEF RemoveVolume, TypeOK
  <2> QED BY <2>1, <2>2 DEF FInv, Recorded, Found, Undisturbed, SameBut
<1>3. CASE RemoveMeta
  <2>1. job.kind = "delete" /\ job'.kind \in {"delete", "none"}
    BY <1>3 DEF RemoveMeta, At, End, Idle
  <2>2. /\ UNCHANGED <<base, home, volume, since>>
        /\ \A c \in Names : meta'[c] = "none" \/ (meta'[c] = meta[c] /\ origin'[c] = origin[c])
    BY <1>0, <1>3 DEF RemoveMeta, TypeOK
  <2> QED BY <2>1, <2>2 DEF FInv, Recorded, Found, Undisturbed, SameBut
<1>4. CASE Abort
  <2>1. job'.kind = "none"
    BY <1>4 DEF Abort, End, Idle
  <2> QED BY <1>4, <2>1 DEF Abort, disk, FInv, Recorded, Found, Undisturbed, SameBut
<1>5. CASE UNCHANGED vars
  BY <1>5 DEF vars, disk, FInv, Recorded, Found, Undisturbed, SameBut, Merged, BothChanged, Ancestor
<1> QED BY <1>1, <1>2, <1>3, <1>4, <1>5 DEF Delete

\* The record an apply has.
LEMMA Working ==
  ASSUME TypeOK, job.kind = "apply"
  PROVE /\ job \in ApplyJobs /\ job.name \in Names
        /\ base \in Trees /\ home[job.name] \in Trees
        /\ job.base0 \in Trees /\ job.home0 \in Trees
        /\ job.left \subseteq Files
  BY JobKinds DEF TypeOK, ApplyJobs

\* An apply works on the commits of what it found, and writes only to the
\* branch it has tried and to the base, whose history it keeps.
LEMMA ApplyFInv ==
  ASSUME CInv, FInv, Apply
  PROVE FInv'
<1>0. TypeOK
  BY DEF CInv
<1>1. ASSUME NEW b \in Names, BeginApply(b) PROVE FInv'
  <2>1. UNCHANGED <<base, home, volume, meta, origin>> /\ meta[b] = "whole" /\ volume[b]
    BY <1>1 DEF BeginApply, disk
  <2>2. /\ job.kind # "create" /\ job'.kind = "apply" /\ job'.name = b /\ job'.at = "backup"
        /\ job'.base0 = base /\ job'.home0 = home[b] /\ job'.since0 = since[b]
    BY <1>1 DEF BeginApply, Idle
  <2>3. /\ since'[b].tried /\ since'[b].base = since[b].base
        /\ \A c \in Names : c # b => since'[c] = since[c]
    <3>1. since[b] \in Sinces
      BY <1>0 DEF TypeOK
    <3> QED BY <1>0, <1>1, <3>1 DEF BeginApply, TypeOK, Sinces
  <2>4. Recorded'
    BY <2>1, <2>2, <2>3 DEF FInv, Recorded, SameBut
  <2>5. Found'
    BY <2>1, <2>2, <2>3 DEF FInv, Recorded, Found, SameBut
  <2>6. Undisturbed'
    BY <2>1, <2>2 DEF Undisturbed, Committing, Syncing
  <2> QED BY <2>4, <2>5, <2>6 DEF FInv
<1>2. ASSUME job.kind = "apply",
             job' \in ApplyJobs, job'.name = job.name, job'.since0 = job.since0,
             job'.base0 = job.base0, job'.home0 = job.home0,
             UNCHANGED <<volume, meta, origin>>,
             \/ base' = base /\ since' = since
             \/ \E C \in SUBSET Files :
                  BaseChanges(C) /\ (\A f \in Files \ C : base'[f] = base[f]),
             \A c \in Names : c # job.name => home'[c] = home[c]
      PROVE Recorded' /\ Found'
  <2>1. job.name \in Names /\ job'.kind = "apply"
    BY <1>0, <1>2, Working DEF ApplyJobs
  <2>2. PICK C \in SUBSET Files :
          /\ \A f \in Files \ C : base'[f] = base[f]
          /\ \A b \in Names : /\ since'[b].base = since[b].base \cup C
                              /\ since'[b].home = since[b].home
                              /\ since'[b].tried = since[b].tried
    <3>1. CASE base' = base /\ since' = since
      <4>1. \A b \in Names : since'[b].base = since[b].base \cup {}
        BY <3>1
      <4> QED BY <3>1, <4>1
    <3>2. ASSUME NEW C \in SUBSET Files, BaseChanges(C),
                 \A f \in Files \ C : base'[f] = base[f]
          PROVE  \A b \in Names : /\ since'[b].base = since[b].base \cup C
                                  /\ since'[b].home = since[b].home
                                  /\ since'[b].tried = since[b].tried
      BY <1>0, <3>2, BaseHistory
    <3> QED BY <1>2, <3>1, <3>2
  <2>3. since[job.name].tried
    BY <1>2 DEF FInv, Found
  <2>4. Recorded'
    BY <1>2, <2>1, <2>2, <2>3 DEF FInv, Recorded, SameBut
  <2>5. Found'
    BY <1>2, <2>1, <2>2, <2>3 DEF FInv, Found, SameBut
  <2> QED BY <2>4, <2>5
<1>3. CASE Backup
  <2>1. job.kind = "apply" /\ job.at = "backup"
    BY <1>3 DEF Backup, At
  <2>2. /\ job' = [job EXCEPT !.at = "main"]
        /\ UNCHANGED <<base, home, volume, meta, origin, since>>
    BY <1>3 DEF Backup, Goto
  <2>3. /\ job' \in ApplyJobs /\ job'.name = job.name /\ job'.since0 = job.since0
        /\ job'.base0 = job.base0 /\ job'.home0 = job.home0 /\ job'.quiet = job.quiet
        /\ job'.at = "main"
    BY <1>0, <2>1, <2>2, Working DEF ApplyJobs
  <2>4. Undisturbed'
    BY <2>1, <2>2, <2>3 DEF FInv, Undisturbed, Committing, Syncing
  <2> QED BY <1>2, <2>1, <2>2, <2>3, <2>4 DEF FInv
<1>4. CASE CommitMain
  <2>1. job.kind = "apply" /\ job.at = "main"
    BY <1>4 DEF CommitMain, At
  <2>2. /\ job' = [job EXCEPT !.main = Commit(base), !.at = "branch"]
        /\ UNCHANGED <<base, home, volume, meta, origin, since>>
    BY <1>4 DEF CommitMain, disk
  <2>3. /\ job' \in ApplyJobs /\ job'.name = job.name /\ job'.since0 = job.since0
        /\ job'.base0 = job.base0 /\ job'.home0 = job.home0 /\ job'.quiet = job.quiet
        /\ job'.at = "branch" /\ job'.main = Commit(base)
    <3>1. Commit(base) \in Trees
      BY <1>0, TreeFacts DEF TypeOK
    <3> QED BY <1>0, <2>1, <2>2, <3>1, Working DEF ApplyJobs
  <2>4. Undisturbed'
    BY <2>1, <2>2, <2>3 DEF FInv, Undisturbed, Committing, Syncing, Commit
  <2> QED BY <1>2, <2>1, <2>2, <2>3, <2>4 DEF FInv
<1>5. CASE CommitBranch
  <2>1. job.kind = "apply" /\ job.at = "branch"
    BY <1>5 DEF CommitBranch, At
  <2>2. /\ job' = [job EXCEPT !.branch = Commit(home[job.name]), !.at = "checkout",
                              !.main = IF job.name = Main THEN Commit(home[job.name]) ELSE @]
        /\ UNCHANGED <<base, home, volume, meta, origin, since>>
    BY <1>5 DEF CommitBranch, disk
  <2>3. /\ job' \in ApplyJobs /\ job'.name = job.name /\ job'.since0 = job.since0
        /\ job'.base0 = job.base0 /\ job'.home0 = job.home0 /\ job'.quiet = job.quiet
        /\ job'.at = "checkout" /\ (job.name # Main => job'.main = job.main)
        /\ job'.branch = Commit(home[job.name])
    <3>1. Commit(home[job.name]) \in Trees /\ job.main \in Trees
      BY <1>0, <2>1, TreeFacts, Working DEF ApplyJobs
    <3> QED BY <1>0, <2>1, <2>2, <3>1, Working DEF ApplyJobs
  <2>4. Undisturbed'
    BY <2>1, <2>2, <2>3 DEF FInv, Undisturbed, Committing, Syncing, Commit
  <2> QED BY <1>2, <2>1, <2>2, <2>3, <2>4 DEF FInv
<1>6. CASE Checkout
  <2>1. job.kind = "apply" /\ job.at = "checkout"
    BY <1>6 DEF Checkout, At
  <2>2. PICK kept \in SUBSET {f \in Tracked : job.branch[f] = Gone /\ home[job.name][f] # Gone} :
          home' = [home EXCEPT ![job.name] =
                    [f \in Files |-> IF f \in Ignored \cup kept THEN home[job.name][f]
                                     ELSE job.branch[f]]]
    BY <1>6 DEF Checkout
  <2>3. /\ job' = [job EXCEPT !.at = "merge"]
        /\ UNCHANGED <<base, volume, meta, origin, since>>
    BY <1>6 DEF Checkout, Goto
  <2>4. /\ job' \in ApplyJobs /\ job'.name = job.name /\ job'.since0 = job.since0
        /\ job'.base0 = job.base0 /\ job'.home0 = job.home0 /\ job'.quiet = job.quiet
        /\ job'.at = "merge" /\ job'.main = job.main /\ job'.branch = job.branch
    BY <1>0, <2>1, <2>3, Working DEF ApplyJobs
  <2>5. \A c \in Names : c # job.name => home'[c] = home[c]
    BY <1>0, <2>2 DEF TypeOK
  <2>6. ASSUME job.quiet, job.name # Main PROVE home'[job.name] = job.home0
    <3>1. home[job.name] = job.home0 /\ job.branch = Commit(job.home0)
      BY <2>1, <2>6 DEF FInv, Undisturbed, Committing, Syncing
    <3>2. \A f \in Files \ Ignored : job.branch[f] = job.home0[f]
      BY <3>1 DEF Commit
    <3>3. home'[job.name] = [f \in Files |-> IF f \in Ignored \cup kept THEN home[job.name][f]
                                             ELSE job.branch[f]]
      BY <1>0, <2>1, <2>2, Working DEF TypeOK
    <3>4. job.home0 \in Trees
      BY <1>0, <2>1, Working
    <3> QED BY <3>1, <3>2, <3>3, <3>4 DEF Trees
  <2>7. Undisturbed'
    BY <2>1, <2>3, <2>4, <2>6 DEF FInv, Undisturbed, Committing, Syncing, Commit
  <2> QED BY <1>2, <2>1, <2>3, <2>4, <2>5, <2>7 DEF FInv
<1>7. ASSUME WriteMerge, job.kind = "apply"
      PROVE /\ \A c \in Names : c # job.name => home'[c] = home[c]
            /\ \A f \in Files : home'[job.name][f] =
                 IF f \in Touched THEN Merged(f) ELSE home[job.name][f]
  BY <1>0, <1>7, Working DEF WriteMerge, TypeOK
<1>8. CASE CleanMerge
  <2>1. job.kind = "apply" /\ job.at = "merge" /\ WriteMerge /\ BothChanged = {}
    BY <1>8 DEF CleanMerge, At
  <2>2. /\ job' = [job EXCEPT !.at = "clear", !.left = Present(base)]
        /\ UNCHANGED <<base, volume, meta, origin, since>>
    BY <1>8 DEF CleanMerge
  <2>3. /\ job' \in ApplyJobs /\ job'.name = job.name /\ job'.since0 = job.since0
        /\ job'.base0 = job.base0 /\ job'.home0 = job.home0 /\ job'.quiet = job.quiet
        /\ job'.at = "clear" /\ job'.main = job.main /\ job'.branch = job.branch
        /\ job'.left = Present(base)
    <3>1. Present(base) \subseteq Files
      BY <1>0, TreeFacts DEF TypeOK
    <3> QED BY <1>0, <2>1, <2>2, <3>1, Working DEF ApplyJobs
  <2>4. BothChanged' = BothChanged /\ \A f \in Files : Merged(f)' = Merged(f)
    BY <2>2, <2>3, SameMerge
  <2>5. ASSUME job.quiet, job.name # Main, NEW f \in Tracked PROVE home'[job.name][f] = Merged(f)
    <3>1. CASE f \in Touched
      BY <1>7, <2>1, <3>1 DEF Tracked
    <3>2. CASE f \notin Touched
      <4>1. home[job.name] = job.home0 /\ job.branch = Commit(job.home0)
        BY <2>1, <2>5 DEF FInv, Undisturbed, Committing, Syncing
      <4>2. Merged(f) = job.branch[f]
        BY <3>2 DEF Touched
      <4>3. job.branch[f] = home[job.name][f]
        BY <4>1 DEF Commit, Tracked
      <4> QED BY <1>7, <2>1, <3>2, <4>2, <4>3 DEF Tracked
    <3> QED BY <3>1, <3>2
  <2>6. ASSUME job.quiet, job.name # Main PROVE job.main = Commit(job.base0) /\ job.branch = Commit(job.home0)
    BY <2>1, <2>6 DEF FInv, Undisturbed, Committing, Syncing
  <2>7. \A f \in Files \ job'.left : base'[f] = Gone
    BY <2>2, <2>3 DEF Present
  <2>8. Undisturbed'
    BY <2>1, <2>2, <2>3, <2>4, <2>5, <2>6, <2>7 DEF Undisturbed, Committing, Syncing, Commit, Tracked
  <2> QED BY <1>2, <1>7, <2>1, <2>2, <2>3, <2>8 DEF FInv
<1>9. CASE ConflictingMerge
  <2>1. /\ job.kind = "apply" /\ WriteMerge /\ job'.kind = "none"
        /\ UNCHANGED <<base, volume, meta, origin>>
    BY <1>9 DEF ConflictingMerge, At, End, Idle
  <2>2. /\ \A c \in Names : c # job.name => since'[c] = since[c] /\ home'[c] = home[c]
        /\ since'[job.name].tried = since[job.name].tried
        /\ since'[job.name].base = since[job.name].base
    <3>1. since[job.name] \in Sinces
      BY <1>0, <2>1, Working DEF TypeOK
    <3> QED BY <1>0, <1>7, <1>9, <2>1, <3>1, Working DEF ConflictingMerge, TypeOK, Sinces
  <2>3. since[job.name].tried
    BY <2>1 DEF FInv, Found
  <2>4. ASSUME NEW b \in Names PROVE (since'[b].tried <=> since[b].tried) /\ since'[b].base = since[b].base
    BY <2>2
  <2>5. Recorded'
    <3>1. ASSUME NEW b \in Names, meta[b] # "none"
          PROVE SameBut(base, origin[b], since[b].base)'
      BY <2>1, <2>4, <3>1 DEF FInv, Recorded, SameBut
    <3>2. ASSUME NEW b \in Names, meta[b] = "whole", volume[b], ~since[b].tried
          PROVE SameBut(home[b], origin[b], since[b].home)'
      BY <2>1, <2>2, <2>3, <3>2 DEF FInv, Recorded, SameBut
    <3> QED BY <2>1, <2>4, <3>1, <3>2 DEF Recorded
  <2> QED BY <2>1, <2>5 DEF FInv, Found, Undisturbed
<1>10. ASSUME NEW f \in Files, Clear(f) PROVE FInv'
  <2>1. job.kind = "apply" /\ job.at = "clear" /\ f \in job.left
    BY <1>10 DEF Clear, At
  <2>2. /\ job' = [job EXCEPT !.left = @ \ {f}] /\ base' = [base EXCEPT ![f] = Gone]
        /\ BaseChanges({f}) /\ UNCHANGED <<home, volume, meta, origin>>
    BY <1>10 DEF Clear
  <2>3. /\ job' \in ApplyJobs /\ job'.name = job.name /\ job'.since0 = job.since0
        /\ job'.base0 = job.base0 /\ job'.home0 = job.home0 /\ job'.quiet = job.quiet
        /\ job'.at = "clear" /\ job'.main = job.main /\ job'.branch = job.branch
        /\ job'.left = job.left \ {f}
    BY <1>0, <2>1, <2>2, Working DEF ApplyJobs
  <2>4. BothChanged' = BothChanged /\ \A g \in Files : Merged(g)' = Merged(g)
    BY <2>2, <2>3, SameMerge
  <2>5. base'[f] = Gone /\ \A g \in Files \ {f} : base'[g] = base[g]
    BY <1>0, <2>2 DEF TypeOK, Trees
  <2>6. Undisturbed'
    BY <2>1, <2>2, <2>3, <2>4, <2>5 DEF FInv, Undisturbed, Committing, Syncing, Commit, Tracked
  <2>7. Recorded' /\ Found'
    BY <1>2, <2>1, <2>2, <2>3, <2>5
  <2> QED BY <2>6, <2>7 DEF FInv
<1>11. ASSUME NEW f \in Files, CopyFile(f) PROVE FInv'
  <2>1. job.kind = "apply" /\ job.at = "copy" /\ f \in job.left
    BY <1>11 DEF CopyFile, At
  <2>2. /\ job' = [job EXCEPT !.left = @ \ {f}]
        /\ base' = [base EXCEPT ![f] = IF home[job.name][f] = Gone THEN @ ELSE home[job.name][f]]
        /\ BaseChanges(IF base' = base THEN {} ELSE {f})
        /\ UNCHANGED <<home, volume, meta, origin>>
    BY <1>11 DEF CopyFile
  <2>3. /\ job' \in ApplyJobs /\ job'.name = job.name /\ job'.since0 = job.since0
        /\ job'.base0 = job.base0 /\ job'.home0 = job.home0 /\ job'.quiet = job.quiet
        /\ job'.at = "copy" /\ job'.main = job.main /\ job'.branch = job.branch
        /\ job'.left = job.left \ {f}
    BY <1>0, <2>1, <2>2, Working DEF ApplyJobs
  <2>4. BothChanged' = BothChanged /\ \A g \in Files : Merged(g)' = Merged(g)
    BY <2>2, <2>3, SameMerge
  <2>5. /\ base'[f] = IF home[job.name][f] = Gone THEN base[f] ELSE home[job.name][f]
        /\ \A g \in Files \ {f} : base'[g] = base[g]
    BY <1>0, <2>2 DEF TypeOK, Trees
  <2>6. Undisturbed'
    BY <2>1, <2>2, <2>3, <2>4, <2>5 DEF FInv, Undisturbed, Committing, Syncing, Commit, Tracked
  <2>7. \E C \in SUBSET Files : BaseChanges(C) /\ \A g \in Files \ C : base'[g] = base[g]
    BY <2>2, <2>5
  <2>8. Recorded' /\ Found'
    BY <1>2, <2>1, <2>2, <2>3, <2>7
  <2> QED BY <2>6, <2>8 DEF FInv
<1>12. CASE StartCopy
  <2>1. job.kind = "apply" /\ job.at = "clear" /\ job.left = {}
    BY <1>12 DEF StartCopy, At
  <2>2. /\ job' = [job EXCEPT !.at = "copy", !.left = Present(home[job.name])]
        /\ UNCHANGED <<base, home, volume, meta, origin, since>>
    BY <1>12 DEF StartCopy, disk
  <2>3. /\ job' \in ApplyJobs /\ job'.name = job.name /\ job'.since0 = job.since0
        /\ job'.base0 = job.base0 /\ job'.home0 = job.home0 /\ job'.quiet = job.quiet
        /\ job'.at = "copy" /\ job'.main = job.main /\ job'.branch = job.branch
        /\ job'.left = Present(home[job.name])
    <3>1. Present(home[job.name]) \subseteq Files
      BY <1>0, <2>1, TreeFacts, Working
    <3> QED BY <1>0, <2>1, <2>2, <3>1, Working DEF ApplyJobs
  <2>4. BothChanged' = BothChanged /\ \A g \in Files : Merged(g)' = Merged(g)
    BY <2>2, <2>3, SameMerge
  <2>5. Undisturbed'
    BY <2>1, <2>2, <2>3, <2>4
       DEF FInv, Undisturbed, Committing, Syncing, Commit, Present, Tracked
  <2> QED BY <1>2, <2>1, <2>2, <2>3, <2>5 DEF FInv
<1>13. CASE EndApply
  <2>1. job.kind = "apply" /\ job'.kind = "none" /\ UNCHANGED <<disk, since>>
    BY <1>13 DEF EndApply, At, End, Idle
  <2> QED BY <2>1 DEF disk, FInv, Recorded, Found, Undisturbed, SameBut
<1> QED BY <1>1, <1>3, <1>4, <1>5, <1>6, <1>8, <1>9, <1>10, <1>11, <1>12, <1>13 DEF Apply

\* At its end the base is the merge, and no file was in conflict.
LEMMA FirstApplyEnds ==
  ASSUME CInv, FInv, EndApply, job.quiet, ~job.since0.tried, job.name # Main,
         NEW f \in Tracked
  PROVE /\ f \notin job.since0.base => base[f] = job.home0[f]
        /\ f \notin job.since0.home => base[f] = job.base0[f]
        /\ Cardinality({origin[job.name][f], job.base0[f], job.home0[f]}) < 3
<1> DEFINE o == origin[job.name][f]
           x == job.base0[f]
           y == job.home0[f]
<1>1. job.kind = "apply" /\ job.at = "copy" /\ job.left = {}
  BY DEF EndApply, At
<1>2. f \in Files /\ Ancestor[f] = o /\ job.main[f] = x /\ job.branch[f] = y
  BY <1>1 DEF FInv, Undisturbed, Syncing, Ancestor, Commit, Tracked
<1>3. base[f] = Merged(f) /\ f \notin BothChanged
  BY <1>1, <1>2 DEF FInv, Undisturbed, Syncing
<1>4. base[f] = IF y # o THEN y ELSE x
  BY <1>2, <1>3 DEF Merged
<1>5. x = o \/ y = o \/ x = y
  BY <1>2, <1>3 DEF BothChanged
<1>6. /\ f \notin job.since0.base => x = o
      /\ f \notin job.since0.home => y = o
  BY <1>1, <1>2 DEF FInv, Found, SameBut
<1>7. {o, x, y} = {x, y} \/ {o, x, y} = {o, x}
  BY <1>5
<1> QED BY <1>4, <1>5, <1>6, <1>7, TwoContents

\* A first apply, if no one edits while it runs, brings the branch's edits to
\* the base, keeps the base's own, and settles no conflict by itself, unless
\* the branch has the name of the base's git branch.
THEOREM FirstEdits == Spec => FirstApplyKeepsEdits
<1>1. CInv /\ FInv /\ [Next]_vars => CInv' /\ FInv'
  BY UsersCInv, CreateCInv, DeleteCInv, ApplyCInv,
     UsersFInv, CreateFInv, DeleteFInv, ApplyFInv DEF Next
<1>2. CInv /\ FInv =>
        [EndApply /\ job.quiet /\ ~ job.since0.tried /\ job.name # Main => KeepsEdits]_vars
  BY FirstApplyEnds DEF KeepsEdits
<1> QED BY InitCInv, InitFInv, <1>1, <1>2, PTL DEF Spec, FirstApplyKeepsEdits
=============================================================================
