------------------------------ MODULE Shelves ------------------------------
(***************************************************************************)
(* Shelves of uncommitted changes and the switch between task branches     *)
(* (eska-vcs/src/vcs/shelves and project/switch.rs): capture with a        *)
(* rollback, guarded restoration with its journal, consumption, and the    *)
(* checkout in between, against a user who edits at any moment, failing    *)
(* steps and crashes.                                                      *)
(*                                                                         *)
(* A file is a number, its bytes; Absent is no file.  A commit is the tree *)
(* it holds.  The Git index is its entries: the stat data beside them is   *)
(* left out.  The temporary copies of a restoration are files too, under   *)
(* names of their own.  One branch has at most one directory that `list`   *)
(* can see, the directories it ignores (no metadata.json) are forgotten.   *)
(* One session runs at a time: every other one is refused by               *)
(* eska-shelves.lock and changes nothing.                                  *)
(***************************************************************************)
EXTENDS Naturals, FiniteSets

CONSTANTS
    Branches, Paths,
    NoBranch,       \* no shelf or target yet
    Temps,          \* the paths that are names `.eska-restore-<pid>-<nanos>`
    Scrap,          \* content of a temporary copy, whole or cut short
    FirstHead,      \* branch checked out at the start
    FirstTip,       \* commit of every branch at the start
    Fresh,          \* least number no commit uses at the start
    MaxValue        \* bound: the user writes, deletes or discards while next <= MaxValue

Absent == 0
Value  == 0..MaxValue
Tree   == [Paths -> Value]

ASSUME BranchAssumption == FirstHead \in Branches /\ NoBranch \notin Branches
ASSUME BoundAssumption == {Fresh, MaxValue} \subseteq Nat /\ 0 < Fresh
ASSUME TipAssumption ==
    FirstTip \in [Branches -> [Paths -> {v \in Value : v < Fresh}]]
ASSUME NameAssumption == "index" \notin Paths
ASSUME TempAssumption == /\ Temps \subseteq Paths /\ Scrap \in Value \ {Absent} /\ Scrap < Fresh
                         /\ \A b \in Branches, t \in Temps : FirstTip[b][t] = Absent

VARIABLES
    \* repository
    tip, head,      \* commit of every branch, the branch checked out
    tree, index,    \* working tree, entries of the Git index
    ilock,          \* index.lock exists
    shelf,          \* shelf directory of every branch
    \* session that holds eska-shelves.lock
    pc,
    to, follow,     \* target of a switch; its shelf is to be restored
    own,            \* branch of the shelf being captured or restored
    undo,           \* restore_saved runs as the rollback of a failed cleanup
    left,           \* paths the current loop has still to visit
    copy,           \* the path being put back and its temporary copy
    \* history and bounds
    owed,           \* contents the user wrote and has not replaced himself
    home,           \* branch a content was written on
    touched,        \* the user changed something since the last restore began
    next

repository == <<tip, head, tree, index, ilock, shelf>>
session    == <<pc, to, follow, own, undo, left, copy>>
history    == <<owed, home, touched, next>>
vars       == <<repository, session, history>>

File    == {"none", "torn", "whole"}
Payload == Paths \cup {"index"}

\* metadata.json, its contents, the payload files, the blobs kept by
\* refs/eska/shelves/<id>, `ready`, restore.json and restore-index.
Shelf == [meta : File, base : Tree, kind : [Paths -> {"clean", "tracked", "untracked"}],
          image : Tree, index : Tree, have : SUBSET Payload, kept : SUBSET Value,
          ready : BOOLEAN, journal : File, rindex : File]
NoTree  == [p \in Paths |-> Absent]
NoShelf == [meta |-> "none", base |-> NoTree, kind |-> [p \in Paths |-> "clean"],
            image |-> NoTree, index |-> NoTree, have |-> {}, kept |-> {},
            ready |-> FALSE, journal |-> "none", rindex |-> "none"]

Init ==
    /\ tip = FirstTip /\ head = FirstHead
    /\ tree = FirstTip[FirstHead] /\ index = FirstTip[FirstHead]
    /\ ilock = FALSE /\ shelf = [b \in Branches |-> NoShelf]
    /\ pc = "idle" /\ to = NoBranch /\ follow = FALSE
    /\ own = NoBranch /\ undo = FALSE /\ left = {} /\ copy = {}
    /\ owed = {} /\ home = [v \in Value |-> NoBranch] /\ touched = FALSE
    /\ next = Fresh

-----------------------------------------------------------------------------
(* What the code asks of the repository.                                   *)

\* Repository::status: what differs from HEAD in the index or the working tree.
Dirty == {p \in Paths : tree[p] # tip[head][p] \/ index[p] # tip[head][p]}

\* shelf_path: "untracked" is what `git restore` would not touch.
Kind(p) == IF p \notin Dirty THEN "clean"
           ELSE IF tip[head][p] = Absent /\ index[p] = Absent THEN "untracked" ELSE "tracked"

Captured(b, k) == {p \in Paths : shelf[b].kind[p] \in k}
Planned(b) == Captured(b, {"tracked", "untracked"})

\* preflight, as far as the repository of the model can fail it.
Preflight == ~ilock

\* list: one directory whose metadata.json does not parse fails it for all.
Listed == \A b \in Branches : shelf[b].meta # "torn"
Has(b) == shelf[b].meta = "whole"

\* plan
CanPlan == Preflight /\ Listed /\ ~Has(head) /\ Dirty # {}

\* validate_payloads
PayloadsValid(b) ==
    {"index"} \cup {p \in Planned(b) : shelf[b].image[p] # Absent} \subseteq shelf[b].have

\* matches_snapshot
Matches(b) == index = shelf[b].index /\ \A p \in Planned(b) : tree[p] = shelf[b].image[p]

\* Mutant: a repeated restoration demands a clean status as the first one does.
RestoreAcceptsClean(b) ==
    /\ shelf[b].journal \in {"none", "whole"} /\ Dirty = {}
    /\ shelf[b].rindex \in {"none", "whole"}

\* restore_preflight.  The images and the index it would journal are those of
\* the base commit, because it demands a clean status before it takes them.
RestoreAccepts(b) ==
    \/ /\ shelf[b].journal = "whole" /\ shelf[b].rindex = "whole"
       /\ \A p \in Planned(b) : tree[p] \in {shelf[b].image[p], shelf[b].base[p]}
       /\ Dirty \subseteq Planned(b)
       /\ index \in {shelf[b].base, shelf[b].index}
    \/ /\ shelf[b].journal = "none" /\ Dirty = {}
       /\ shelf[b].rindex \in {"none", "whole"}

\* Mutant: an explicit ID is restored on whatever branch is checked out.
CanSelectAnywhere(b) ==
    /\ Preflight /\ Listed /\ b \in Branches
    /\ Has(b) /\ PayloadsValid(b)
    /\ Matches(b) \/ (shelf[b].ready /\ RestoreAccepts(b))

\* select_restore, validate_payloads and the choice of restore
CanSelect(b) ==
    /\ Preflight /\ Listed /\ b \in Branches
    /\ Has(b) /\ b = head /\ shelf[b].base = tip[head] /\ PayloadsValid(b)
    /\ Matches(b) \/ (shelf[b].ready /\ RestoreAccepts(b))

\* prepare
CanSwitch(b) ==
    /\ Preflight /\ Listed
    /\ Has(b) => shelf[b].base = tip[b] /\ shelf[b].ready /\ PayloadsValid(b)
    /\ b = head /\ Has(b) => CanSelect(b)
    /\ b # head /\ Dirty # {} => CanPlan

At(step) == pc = step
Goto(step) == pc' = step
Set(b, r) == shelf' = [shelf EXCEPT ![b] = r]
Idle == pc' = "idle" /\ to' = NoBranch /\ follow' = FALSE
        /\ own' = NoBranch /\ undo' = FALSE /\ left' = {} /\ copy' = {}

-----------------------------------------------------------------------------
(* Commands.  Each takes the lock first and then reads the repository.     *)

BeginShelve ==
    /\ At("idle") /\ CanPlan
    /\ Goto("plan")
    /\ UNCHANGED <<repository, to, follow, own, undo, copy, left, history>>

\* restore(id); without an ID the shelf of the current branch is meant.
BeginUnshelve(b) ==
    /\ At("idle") /\ CanSelect(b)
    /\ Goto("select") /\ own' = b
    /\ UNCHANGED <<repository, to, follow, undo, copy, left, history>>

\* prepare, and the choice of apply whether to capture.
BeginSwitch(b) ==
    /\ At("idle") /\ CanSwitch(b)
    /\ Goto(IF b # head /\ Dirty # {} THEN "plan" ELSE "checkout")
    /\ to' = b /\ follow' = Has(b)
    /\ UNCHANGED <<repository, own, undo, copy, left, history>>

-----------------------------------------------------------------------------
(* Session::capture                                                        *)

Plan ==
    /\ At("plan") /\ CanPlan
    /\ own' = head
    /\ Set(head, [NoShelf EXCEPT !.base = tip[head], !.kind = [p \in Paths |-> Kind(p)]])
    /\ Goto("index")
    /\ UNCHANGED <<tip, head, tree, index, ilock, to, follow, undo, copy, left, history>>

CopyIndex ==
    /\ At("index")
    /\ Set(own, [shelf[own] EXCEPT !.index = index, !.have = {"index"}])
    /\ left' = Planned(own) /\ Goto("copy")
    /\ UNCHANGED <<tip, head, tree, index, ilock, to, follow, own, undo, copy, history>>

\* files::capture: the bytes are what both inspections saw, or it fails.
CopyPath(p) ==
    /\ At("copy") /\ p \in left
    /\ Set(own, [shelf[own] EXCEPT
                   !.image[p] = tree[p],
                   !.have = @ \cup (IF tree[p] = Absent THEN {} ELSE {p})])
    /\ left' = left \ {p}
    /\ UNCHANGED <<tip, head, tree, index, ilock, pc, to, follow, own, undo, copy, history>>

\* Mutant: no reference protects the blobs of the captured index.
ProtectIndexSkipped ==
    /\ At("copy") /\ left = {}
    /\ Goto("metadata")
    /\ UNCHANGED <<repository, to, follow, own, undo, copy, left, history>>

\* protect_index: `git write-tree` of the index as it is now, and a reference.
ProtectIndex ==
    /\ At("copy") /\ left = {}
    /\ Set(own, [shelf[own] EXCEPT !.kept = {index[p] : p \in Paths}])
    /\ Goto("metadata")
    /\ UNCHANGED <<tip, head, tree, index, ilock, to, follow, own, undo, copy, left, history>>

\* write_new creates the file and then fills it.
CreateMetadata ==
    /\ At("metadata") /\ shelf[own].meta = "none"
    /\ Set(own, [shelf[own] EXCEPT !.meta = "torn"])
    /\ UNCHANGED <<tip, head, tree, index, ilock, session, history>>

FillMetadata ==
    /\ At("metadata") /\ shelf[own].meta = "torn"
    /\ Set(own, [shelf[own] EXCEPT !.meta = "whole"])
    /\ Goto("clean")
    /\ UNCHANGED <<tip, head, tree, index, ilock, to, follow, own, undo, copy, left, history>>

\* clean: `git restore` takes index.lock, rewrites the files and then the index.
StartClean ==
    /\ At("clean") /\ ~ilock
    /\ ilock' = TRUE /\ left' = Captured(own, {"tracked"}) /\ Goto("discard")
    /\ UNCHANGED <<tip, head, tree, index, shelf, to, follow, own, undo, copy, history>>

DiscardPath(p) ==
    /\ At("discard") /\ p \in left
    /\ tree' = [tree EXCEPT ![p] = shelf[own].base[p]] /\ left' = left \ {p}
    /\ UNCHANGED <<tip, head, index, ilock, shelf, pc, to, follow, own, undo, copy, history>>

DiscardIndex ==
    /\ At("discard") /\ left = {}
    /\ index' = [p \in Paths |-> IF p \in Captured(own, {"tracked"})
                                 THEN shelf[own].base[p] ELSE index[p]]
    /\ ilock' = FALSE
    /\ left' = Captured(own, {"untracked"}) /\ Goto("remove")
    /\ UNCHANGED <<tip, head, tree, shelf, to, follow, own, undo, copy, history>>

RemovePath(p) ==
    /\ At("remove") /\ p \in left /\ tree[p] = shelf[own].image[p]
    /\ tree' = [tree EXCEPT ![p] = Absent] /\ left' = left \ {p}
    /\ UNCHANGED <<tip, head, index, ilock, shelf, pc, to, follow, own, undo, copy, history>>

VerifyClean ==
    /\ At("remove") /\ left = {} /\ Dirty = {}
    /\ Goto("ready")
    /\ UNCHANGED <<repository, to, follow, own, undo, copy, left, history>>

\* Git fails, Collision, Dirty or an I/O error: restore_saved rolls back.
CleanFails ==
    /\ pc \in {"clean", "discard", "remove"}
    /\ ilock' = (ilock /\ ~At("discard"))
    /\ undo' = TRUE /\ left' = Planned(own) /\ Goto("put")
    /\ UNCHANGED <<tip, head, tree, index, shelf, to, follow, own, copy, history>>

MarkReady ==
    /\ At("ready")
    /\ Set(own, [shelf[own] EXCEPT !.ready = TRUE])
    /\ IF to # NoBranch
         THEN Goto("checkout") /\ UNCHANGED <<to, follow, own, undo, copy, left>>
         ELSE Idle
    /\ UNCHANGED <<tip, head, tree, index, ilock, history>>

-----------------------------------------------------------------------------
(* apply: the checkout, by Git.                                            *)

\* `git switch` carries a change of a file both commits agree on and refuses
\* to touch any other changed file.
CarriesTo(b) == \A p \in Dirty : tip[head][p] = tip[b][p]

Checkout ==
    /\ CarriesTo(to)
    /\ head' = to
    /\ tree' = [p \in Paths |-> IF p \in Dirty THEN tree[p] ELSE tip[to][p]]
    /\ index' = [p \in Paths |-> IF p \in Dirty THEN index[p] ELSE tip[to][p]]

Arrive == IF follow
            THEN Goto("select") /\ own' = to /\ UNCHANGED <<to, follow, undo, copy, left>>
            ELSE Idle

StayOnBranch ==
    /\ At("checkout") /\ Preflight /\ head = to
    /\ Arrive
    /\ UNCHANGED <<repository, history>>

SwitchBranch ==
    /\ At("checkout") /\ Preflight /\ head # to
    /\ Checkout /\ Arrive
    /\ UNCHANGED <<tip, ilock, shelf, history>>

\* Mutant: a shelf is restored although the switch had captured none.
SwitchFailsRestoring ==
    /\ At("checkout") /\ Preflight /\ head # to
    /\ Checkout \/ UNCHANGED <<head, tree, index>>
    /\ Goto("select") /\ follow' = FALSE
    /\ UNCHANGED <<tip, ilock, shelf, to, own, undo, copy, left, history>>

\* `git switch` fails with the branch unchanged, or a hook fails it after the
\* checkout; the shelf just captured is restored if it can be.
SwitchFails ==
    /\ At("checkout") /\ Preflight /\ head # to
    /\ Checkout \/ UNCHANGED <<head, tree, index>>
    /\ IF own = NoBranch THEN Idle
         ELSE Goto("select") /\ follow' = FALSE /\ UNCHANGED <<to, own, undo, copy, left>>
    /\ UNCHANGED <<tip, ilock, shelf, history>>

-----------------------------------------------------------------------------
(* Session::restore                                                        *)

Select ==
    /\ At("select") /\ CanSelect(own)
    /\ touched' = FALSE
    /\ IF Matches(own) THEN Goto("consume") /\ UNCHANGED left
         ELSE IF shelf[own].journal = "whole" THEN Goto("put") /\ left' = Planned(own)
         ELSE Goto("journal") /\ UNCHANGED left
    /\ UNCHANGED <<repository, to, follow, own, undo, copy, owed, home, next>>

\* restore_preflight: restore-index and then restore.json, both written in place.
CreateIndexImage ==
    /\ At("journal") /\ shelf[own].rindex = "none"
    /\ Set(own, [shelf[own] EXCEPT !.rindex = "torn"])
    /\ Goto("fill")
    /\ UNCHANGED <<tip, head, tree, index, ilock, to, follow, own, undo, copy, left, history>>

FillIndexImage ==
    /\ At("fill") /\ shelf[own].rindex = "torn"
    /\ Set(own, [shelf[own] EXCEPT !.rindex = "whole"])
    /\ Goto("journal")
    /\ UNCHANGED <<tip, head, tree, index, ilock, to, follow, own, undo, copy, left, history>>

CreateJournal ==
    /\ At("journal") /\ shelf[own].rindex = "whole"
    /\ Set(own, [shelf[own] EXCEPT !.journal = "torn"])
    /\ Goto("fill")
    /\ UNCHANGED <<tip, head, tree, index, ilock, to, follow, own, undo, copy, left, history>>

FillJournal ==
    /\ At("fill") /\ shelf[own].journal = "torn"
    /\ Set(own, [shelf[own] EXCEPT !.journal = "whole"])
    /\ left' = Planned(own) /\ Goto("put")
    /\ UNCHANGED <<tip, head, tree, index, ilock, to, follow, own, undo, copy, history>>

\* files::restore: a file that is not what the shelf holds is written beside its
\* place first, under a name nothing has yet.
StageCopy(p, t) ==
    /\ At("put") /\ p \in left /\ copy = {}
    /\ shelf[own].image[p] \notin {Absent, tree[p]}
    /\ tree[t] = Absent /\ index[t] = Absent
    /\ \A b \in Branches : tip[b][t] = Absent /\ t \notin Planned(b)
    /\ tree' = [tree EXCEPT ![t] = Scrap] /\ copy' = {<<p, t>>}
    /\ UNCHANGED <<tip, head, index, ilock, shelf, pc, to, follow, own, undo, left, history>>

\* Then the copy is renamed over it; a file the shelf knows as absent is removed.
PutPath(p) ==
    /\ At("put") /\ p \in left
    /\ \/ /\ copy = {} /\ shelf[own].image[p] \in {Absent, tree[p]}
          /\ tree' = [tree EXCEPT ![p] = shelf[own].image[p]]
       \/ \E t \in Temps :
             /\ copy = {<<p, t>>} /\ p \in shelf[own].have
             /\ tree' = [tree EXCEPT ![t] = Absent, ![p] = shelf[own].image[p]]
    /\ left' = left \ {p} /\ copy' = {}
    /\ UNCHANGED <<tip, head, index, ilock, shelf, pc, to, follow, own, undo, history>>

\* restore_index
LockIndex ==
    /\ At("put") /\ left = {} /\ ~ilock
    /\ ilock' = TRUE /\ Goto("swap")
    /\ UNCHANGED <<tip, head, tree, index, shelf, to, follow, own, undo, copy, left, history>>

SwapIndex ==
    /\ At("swap") /\ "index" \in shelf[own].have
    /\ index' = shelf[own].index /\ ilock' = FALSE /\ Goto("compare")
    /\ UNCHANGED <<tip, head, tree, shelf, to, follow, own, undo, copy, left, history>>

\* A verified rollback ends the command, a verified restoration consumes.
Compare ==
    /\ At("compare") /\ Matches(own)
    /\ IF undo THEN Idle ELSE Goto("consume") /\ UNCHANGED <<to, follow, own, undo, copy, left>>
    /\ UNCHANGED <<repository, history>>

\* consume: remove_dir_all takes the files in any order; the payloads, of which
\* every operation needs all, go together, and so do the two files of the journal.
\* Without metadata.json no operation sees the directory: the rest is forgotten.
ConsumeFiles ==
    /\ At("consume")
    /\ \/ shelf[own].have # {} /\ Set(own, [shelf[own] EXCEPT !.have = {}])
       \/ shelf[own].ready /\ Set(own, [shelf[own] EXCEPT !.ready = FALSE])
       \/ /\ shelf[own].rindex # "none"
          /\ Set(own, [shelf[own] EXCEPT !.journal = "none", !.rindex = "none"])
    /\ UNCHANGED <<tip, head, tree, index, ilock, session, history>>

ConsumeMetadata ==
    /\ At("consume")
    /\ Set(own, NoShelf) /\ Idle
    /\ UNCHANGED <<tip, head, tree, index, ilock, history>>

-----------------------------------------------------------------------------
(* Errors and crashes.                                                     *)

\* A check refuses or a system call fails: the command ends with an error,
\* restore_index removes its lock and files::restore, if it can, its copy.
GiveUp ==
    /\ pc \notin {"idle", "clean", "discard", "remove"}
    /\ ilock' = (ilock /\ ~At("swap"))
    /\ \/ tree' = [p \in Paths |-> IF \E q \in left : copy = {<<q, p>>} THEN Absent ELSE tree[p]]
       \/ copy # {} /\ UNCHANGED tree
    /\ shelf' = [b \in Branches |-> IF shelf[b].meta = "none" THEN NoShelf ELSE shelf[b]]
    /\ Idle
    /\ UNCHANGED <<tip, head, index, history>>

Crash ==
    /\ ~At("idle")
    /\ shelf' = [b \in Branches |-> IF shelf[b].meta = "none" THEN NoShelf ELSE shelf[b]]
    /\ Idle
    /\ UNCHANGED <<tip, head, tree, index, ilock, history>>

-----------------------------------------------------------------------------
(* The user and Git beside eska.                                           *)

\* The session has read p and will write it without looking at it again: what
\* the user writes now is replaced.  No lock keeps an editor out.
Exposed(p) ==
    /\ own # NoBranch /\ p \in Planned(own)
    /\ \/ pc \in {"metadata", "clean", "discard", "remove", "journal", "fill"}
       \/ At("copy") /\ p \notin left
       \/ At("put") /\ p \in left

\* The user replaces the contents of `old` and writes those of `new`.
Write(old, new) ==
    /\ owed' = (owed \ old) \cup new
    /\ home' = [v \in Value |-> IF v \in new /\ At("idle") THEN head
                                ELSE IF v \in owed' THEN home[v] ELSE NoBranch]
    /\ touched' = TRUE

\* What the working tree holds at p and the index does not.
Unstaged(p) == {tree[p]} \ {index[p]}

Edit(p) ==
    /\ next <= MaxValue
    /\ tree' = [tree EXCEPT ![p] = next] /\ next' = next + 1
    /\ Write(Unstaged(p), IF Exposed(p) THEN {} ELSE {next})
    /\ UNCHANGED <<tip, head, index, ilock, shelf, session>>

Delete(p) ==
    /\ At("idle") /\ tree[p] # Absent /\ next <= MaxValue
    /\ tree' = [tree EXCEPT ![p] = Absent] /\ next' = next + 1
    /\ Write(Unstaged(p), {})
    /\ UNCHANGED <<tip, head, index, ilock, shelf, session>>

\* git add p
Stage(p) ==
    /\ At("idle") /\ ~ilock /\ index[p] # tree[p]
    /\ index' = [index EXCEPT ![p] = tree[p]]
    /\ Write({index[p]}, {})
    /\ UNCHANGED <<tip, head, tree, ilock, shelf, session, next>>

\* git commit: from now on the history keeps the content.
Commit ==
    /\ At("idle") /\ ~ilock /\ index # tip[head]
    /\ tip' = [tip EXCEPT ![head] = index]
    /\ Write({index[p] : p \in Paths}, {})
    /\ UNCHANGED <<head, tree, index, ilock, shelf, session, next>>

\* git restore --staged --worktree p
Discard(p) ==
    /\ At("idle") /\ ~ilock /\ p \in Dirty /\ next <= MaxValue
    /\ tree' = [tree EXCEPT ![p] = tip[head][p]] /\ next' = next + 1
    /\ index' = [index EXCEPT ![p] = tip[head][p]]
    /\ Write({tree[p], index[p]}, {})
    /\ UNCHANGED <<tip, head, ilock, shelf, session>>

\* After a crash the user removes index.lock, as Git advises, or the directory
\* whose metadata.json does not parse.
RemoveLock ==
    /\ At("idle") /\ ilock /\ ilock' = FALSE
    /\ UNCHANGED <<tip, head, tree, index, shelf, session, history>>

RemoveTorn(b) ==
    /\ At("idle") /\ shelf[b].meta = "torn" /\ Set(b, NoShelf)
    /\ UNCHANGED <<tip, head, tree, index, ilock, session, history>>

\* So he does with the temporary copy that a restoration left behind.
RemoveStray(t) ==
    /\ At("idle") /\ tree[t] = Scrap /\ Kind(t) = "untracked"
    /\ \A b \in Branches : t \notin Planned(b)
    /\ tree' = [tree EXCEPT ![t] = Absent]
    /\ UNCHANGED <<tip, head, index, ilock, shelf, session, history>>

Next ==
    \/ BeginShelve \/ \E b \in Branches : BeginUnshelve(b) \/ BeginSwitch(b)
    \/ Plan \/ CopyIndex \/ ProtectIndex \/ CreateMetadata \/ FillMetadata
    \/ StartClean \/ DiscardIndex \/ VerifyClean \/ CleanFails \/ MarkReady
    \/ StayOnBranch \/ SwitchBranch \/ SwitchFails
    \/ Select \/ CreateIndexImage \/ FillIndexImage \/ CreateJournal \/ FillJournal
    \/ LockIndex \/ SwapIndex \/ Compare \/ ConsumeFiles \/ ConsumeMetadata \/ GiveUp \/ Crash
    \/ \E p \in Paths : CopyPath(p) \/ DiscardPath(p) \/ RemovePath(p) \/ PutPath(p)
                        \/ Delete(p) \/ Stage(p) \/ Discard(p)
    \/ \E p \in Paths \ Temps : Edit(p)
    \/ \E t \in Temps : RemoveStray(t) \/ \E p \in Paths : StageCopy(p, t)
    \/ Commit \/ RemoveLock \/ \E b \in Branches : RemoveTorn(b)

Spec == Init /\ [][Next]_vars

-----------------------------------------------------------------------------
(* Properties.                                                             *)

\* Every variable has its type; a session beyond its plan works on a branch.
TypeOK ==
    /\ tip \in [Branches -> Tree] /\ head \in Branches /\ tree \in Tree /\ index \in Tree
    /\ ilock \in BOOLEAN /\ shelf \in [Branches -> Shelf]
    /\ pc \in {"idle", "plan", "index", "copy", "metadata", "clean", "discard", "remove",
               "ready", "checkout", "select", "journal", "fill", "put", "swap", "compare",
               "consume"}
    /\ to \in Branches \cup {NoBranch} /\ follow \in BOOLEAN
    /\ own \in Branches \cup {NoBranch}
    /\ own = NoBranch => pc \in {"idle", "plan", "checkout"}
    /\ undo \in BOOLEAN /\ left \subseteq Paths /\ copy \subseteq Paths \X Temps
    /\ owed \subseteq Value /\ home \in [Value -> Branches \cup {NoBranch}]
    /\ touched \in BOOLEAN /\ next \in Nat

\* A copy the user can get at: in the working tree, staged, committed, or in the
\* payload of a shelf that can be read.  A shelf's copy of the index names blobs;
\* it counts only while a reference keeps `git gc` from pruning them.
InTree(v)      == \E p \in Paths : tree[p] = v
Staged(v)      == \E p \in Paths : index[p] = v
Committed(v)   == \E b \in Branches, p \in Paths : tip[b][p] = v
ShelvedFile(v) == \E b \in Branches, p \in Paths :
                      Has(b) /\ p \in shelf[b].have /\ shelf[b].image[p] = v
ShelvedBlob(v) == \E b \in Branches, p \in Paths :
                      /\ Has(b) /\ "index" \in shelf[b].have /\ shelf[b].index[p] = v
                      /\ v \in shelf[b].kept
Held(v) == InTree(v) \/ Staged(v) \/ Committed(v) \/ ShelvedFile(v) \/ ShelvedBlob(v)

\* Whatever fails or crashes, and however often the commands are repeated, every
\* content the user wrote and has not replaced himself still has a copy.  Only
\* what he writes into a file a running session has read already is not covered.
\* (docs/roadmap/05-safe-vcs.md: no error removes the only copy of a state.)
NothingLost == \A v \in owed : Held(v)

\* A change written on one branch never reaches the files or the index of
\* another: not by a switch, not by the restoration after a failed one.
AtHome == \A p \in Paths : \A v \in {tree[p], index[p]} \cap owed : home[v] \in {head, NoBranch}

\* An interrupted restoration can be repeated: once its journal has begun and
\* unless a crash tore a file of it, the files half put back do not look like
\* foreign changes to the next attempt.  A temporary copy that a restoration
\* left behind does, until it is removed.
Repeatable ==
    (/\ At("idle") /\ ~touched /\ Preflight
     /\ Has(head) /\ shelf[head].ready /\ PayloadsValid(head)
     /\ shelf[head].rindex = "whole" /\ shelf[head].journal # "torn"
     /\ Dirty \cap Temps \subseteq Planned(head))
      => Matches(head) \/ RestoreAccepts(head)
=============================================================================
