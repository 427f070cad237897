---------------------------- MODULE TaskWorkflow ----------------------------
(***************************************************************************)
(* Starting, saving and finishing a task (eska-vcs project/start.rs,       *)
(* save.rs, finish.rs over vcs/repository.rs, network.rs and command.rs):  *)
(* one repository with a base branch and a task branch, its main worktree  *)
(* in which the commands run, a linked worktree, and a remote.  Each       *)
(* command reads a part of this, waits for the network, an editor or a     *)
(* Git process, and then acts; the user, the other worktree and colleagues *)
(* go on meanwhile.                                                        *)
(*                                                                         *)
(* A commit is identified with the set of commits reachable from it, so    *)
(* that "is an ancestor of" is inclusion, and the files of the worktree    *)
(* and of the index with the commit that has them, or with an edit that is *)
(* in no commit.                                                           *)
(***************************************************************************)
EXTENDS Naturals, FiniteSets

CONSTANTS
    Base, Task,         \* the two branches of the policy
    Side,               \* a branch that no command is about
    None,               \* no branch, no index read
    Edited,             \* files that are in no commit
    Root,               \* number of the first commit
    MaxCommits          \* bound: commits made while their number is less

Branches == {Base, Task, Side}
Commit   == SUBSET Nat
Absent   == {}          \* a reference that does not exist
Files    == Commit \cup {Edited}

ASSUME BranchAssumption == Base # Task /\ Side \notin {Base, Task} /\ None \notin Branches
ASSUME NumberAssumption == Root \in Nat /\ MaxCommits \in Nat
ASSUME EditedAssumption == Edited \notin Commit

\* PolicyOverrides::validate: only an integrated task may be deleted.  Whether a remote
\* is configured is a fact of the repository that the commands read with it.
Policy   == [remote : BOOLEAN, finish : {"published", "integrated"}, delete : BOOLEAN]
Policies == {p \in Policy : p.delete => p.finish = "integrated"}

VARIABLES
    policy,
    heads,      \* local branches
    tracking,   \* remote-tracking references
    remote,     \* branches of the remote
    at,         \* branch of the main worktree
    linked,     \* branch of the linked worktree
    index, tree,\* files staged in and present in the main worktree
    \* the command that runs
    command, phase,
    began, known, tip,      \* what start and finish have read: the active branch, the
                            \* base and the task
    target,                 \* commit to which the base moves
    snapshot,               \* index that save has read
    watched,                \* whether the worktrees still are where the command saw them
    \* bound and history
    born,       \* commits made so far
    mine        \* commits made in this repository

references == <<heads, tracking, remote>>
worktree   == <<at, index, tree>>
kept       == <<command, began, tip, snapshot>>
job        == <<kept, phase, known, target, watched>>
vars       == <<policy, references, worktree, linked, job, born, mine>>

Commands == {"start", "save", "finish"}
Phases == {"idle", "fetch", "compare", "forward", "look", "move", "create", "verify",
           "switch", "ask", "delete", "commit", "restore", "done"}
Ancestor(c, d) == c \subseteq d

TypeOK ==
    /\ policy \in Policies
    /\ heads \in [Branches -> Commit]
    /\ tracking \in [Branches -> Commit]
    /\ remote \in [Branches -> Commit]
    /\ at \in Branches /\ linked \in Branches \cup {None}
    /\ index \in Files /\ tree \in Files
    /\ command \in Commands /\ phase \in Phases
    /\ began \in Branches \cup {None}
    /\ known \in Commit /\ tip \in Commit /\ target \in Commit
    /\ snapshot \in Files \cup {None} /\ watched \in {"seen", "changed"}
    /\ born \in Nat /\ mine \in Commit

\* A repository as the commands find it: the task may have a commit, and the remote's base
\* may be ahead by one that was not fetched
Found(base, task, side) ==
    [b \in Branches |-> IF b = Base THEN base ELSE IF b = Task THEN task ELSE side]

Init ==
    /\ policy \in Policies
    /\ \E task \in {Absent, {Root, Root + 1}}, ahead \in {{}, {Root + 2}} :
          /\ heads = Found({Root}, task, {Root})
          /\ remote = Found(IF policy.remote THEN {Root} \cup ahead ELSE Absent, Absent, Absent)
          /\ mine = {Root} \cup task
    /\ tracking = Found(IF policy.remote THEN {Root} ELSE Absent, Absent, Absent)
    /\ at = Base /\ linked = None
    /\ index = {Root} /\ tree = {Root}
    /\ command = "start" /\ phase = "idle" /\ began = None
    /\ known = Absent /\ tip = Absent /\ target = Absent
    /\ snapshot = None /\ watched = "seen"
    /\ born = Root + 2

-----------------------------------------------------------------------------
(* Git, as the commands and the user's own commands use it.                *)

\* Repository::status finds nothing
Saved == heads[at] # Absent /\ tree = heads[at]
Clean == Saved /\ index = tree

\* Mutant: only the main worktree is asked
CheckedOutHere(b) == b = at

\* Repository::reference_is_checked_out
CheckedOut(b) == b \in {at, linked}

\* Git moves the main worktree to a commit: clean files follow, others are carried over
Follow(c) ==
    IF Clean THEN index' = c /\ tree' = c ELSE UNCHANGED <<index, tree>>

\* A commit of everything in the main worktree
Record ==
    /\ born < MaxCommits
    /\ born' = born + 1
    /\ heads' = [heads EXCEPT ![at] = heads[at] \cup {born'}]
    /\ index' = heads'[at] /\ tree' = heads'[at]
    /\ mine' = mine \cup {born'}

Fetched == [b \in Branches |-> IF remote[b] = Absent THEN tracking[b] ELSE remote[b]]

-----------------------------------------------------------------------------
(* The commands.  A command that refuses goes back to "idle", a save does  *)
(* when it is done, too.                                                   *)

Resting == phase \in {"idle", "done"}
OnBase == began = Base
Go(next) == phase' = next /\ UNCHANGED <<kept, known, target, watched>>

\* What a command reads before it does anything
Reads(b, k, t, i) ==
    /\ began' = b /\ known' = k /\ tip' = t /\ snapshot' = i
    /\ target' = Absent /\ watched' = "seen"

Leave == command' = "start" /\ phase' = "idle" /\ Reads(None, Absent, Absent, None)

\* start::execute up to the fetch
BeginStart ==
    /\ Resting /\ Clean
    /\ heads[Base] # Absent /\ heads[Task] = Absent
    /\ command' = "start" /\ phase' = (IF policy.remote THEN "fetch" ELSE "create")
    /\ Reads(at, Absent, Absent, None)
    /\ UNCHANGED <<policy, references, worktree, linked, born, mine>>

\* finish::execute up to the fetch: the tips are read before it
BeginFinish ==
    /\ Resting /\ Clean
    /\ at = Task /\ heads[Base] # Absent
    /\ command' = "finish" /\ phase' = (IF policy.remote THEN "fetch" ELSE "verify")
    /\ Reads(None, heads[Base], heads[Task], None)
    /\ UNCHANGED <<policy, references, worktree, linked, born, mine>>

\* network::fetch: gix does not prune, and the repository is opened again afterwards
Fetch ==
    /\ phase = "fetch"
    /\ \/ tracking' = Fetched /\ Go("compare")
       \/ Leave /\ UNCHANGED tracking
    /\ UNCHANGED <<policy, heads, remote, worktree, linked, born, mine>>

\* The same comparison in both commands; start reads its base here, finish has read it
KnownBase  == IF command = "start" THEN heads[Base] ELSE known
Afterwards == IF command = "start" THEN "create" ELSE "verify"

\* Mutant: a base that has commits of its own is taken to be ahead
CompareLenient ==
    /\ phase = "compare"
    /\ IF Ancestor(KnownBase, tracking[Base]) /\ KnownBase # tracking[Base]
       THEN phase' = (IF OnBase THEN "forward" ELSE "look") /\ known' = KnownBase
       ELSE phase' = Afterwards /\ known' = Absent
    /\ target' = tracking[Base]
    /\ UNCHANGED <<kept, watched, policy, references, worktree, linked, born, mine>>

Compare ==
    /\ phase = "compare"
    /\ LET base == KnownBase
           goal == tracking[Base]
       IN  \/ /\ Absent \notin {goal, base} /\ Ancestor(goal, base)
              /\ phase' = Afterwards /\ known' = Absent /\ target' = goal
              /\ UNCHANGED <<kept, watched>>
           \/ /\ Absent \notin {goal, base} /\ Ancestor(base, goal) /\ base # goal
              /\ IF OnBase THEN phase' = "forward" /\ known' = Absent
                 ELSE phase' = "look" /\ known' = base
              /\ target' = goal
              /\ UNCHANGED <<kept, watched>>
           \/ /\ \/ Absent \in {goal, base}
                 \/ ~Ancestor(goal, base) /\ ~Ancestor(base, goal)
              /\ Leave
    /\ UNCHANGED <<policy, references, worktree, linked, born, mine>>

\* fast_forward_current: git merge --ff-only moves the branch that is checked out now
Forward ==
    /\ phase = "forward"
    /\ \/ /\ heads[at] # Absent /\ Ancestor(heads[at], tracking[Base])
          /\ heads' = [heads EXCEPT ![at] = tracking[Base]]
          /\ Follow(tracking[Base])
          /\ Go("create")
       \/ /\ heads[at] # Absent /\ Ancestor(tracking[Base], heads[at])
          /\ Go("create") /\ UNCHANGED <<heads, index, tree>>
       \/ Leave /\ UNCHANGED <<heads, index, tree>>
    /\ UNCHANGED <<policy, tracking, remote, at, linked, born, mine>>

\* update_inactive_reference: looks at every worktree, ...
Look ==
    /\ phase = "look"
    /\ IF CheckedOut(Base) THEN Leave
       ELSE phase' = "move" /\ watched' = "seen" /\ UNCHANGED <<kept, known, target>>
    /\ UNCHANGED <<policy, references, worktree, linked, born, mine>>

\* Mutant: the reference is set whatever it points to
MoveAnyway ==
    /\ phase = "move"
    /\ heads' = [heads EXCEPT ![Base] = target]
    /\ phase' = Afterwards /\ known' = Absent /\ UNCHANGED <<kept, target, watched>>
    /\ UNCHANGED <<policy, tracking, remote, worktree, linked, born, mine>>

\* ... then compares and swaps
Move ==
    /\ phase = "move"
    /\ IF heads[Base] = known
       THEN /\ heads' = [heads EXCEPT ![Base] = target]
            /\ phase' = Afterwards /\ known' = Absent /\ UNCHANGED <<kept, target, watched>>
       ELSE Leave /\ UNCHANGED heads
    /\ UNCHANGED <<policy, tracking, remote, worktree, linked, born, mine>>

\* switch_new_branch: the branch begins where the base is now.  A checkout hook may still
\* fail, and then the command does although Git has done its part.
Create ==
    /\ phase = "create"
    /\ \/ /\ heads[Task] = Absent /\ heads[Base] # Absent
          /\ heads' = [heads EXCEPT ![Task] = heads[Base]]
          /\ at' = Task
          /\ Follow(heads[Base])
          /\ Go("done") \/ Leave
       \/ Leave /\ UNCHANGED <<heads, worktree>>
    /\ UNCHANGED <<policy, tracking, remote, linked, born, mine>>

\* verify_finish_requirement; the integration target is the base, as in every preset
Requirement ==
    IF policy.finish = "published" THEN IF policy.remote THEN tracking[Task] ELSE Absent
    ELSE IF policy.remote THEN tracking[Base] ELSE heads[Base]

Verify ==
    /\ phase = "verify"
    /\ IF Requirement # Absent /\ Ancestor(tip, Requirement) THEN Go("switch") ELSE Leave
    /\ UNCHANGED <<policy, references, worktree, linked, born, mine>>

\* switch_existing_branch, with the same hooks
Switch ==
    /\ phase = "switch"
    /\ \/ /\ heads[Base] # Absent /\ linked # Base
          /\ at' = Base
          /\ Follow(heads[Base])
          /\ Go(IF policy.delete THEN "ask" ELSE "done") \/ Leave
       \/ Leave /\ UNCHANGED worktree
    /\ UNCHANGED <<policy, references, linked, born, mine>>

\* delete_inactive_reference, in the same two steps as an update
Ask ==
    /\ phase = "ask"
    /\ IF CheckedOut(Task) THEN Leave
       ELSE phase' = "delete" /\ watched' = "seen" /\ UNCHANGED <<kept, known, target>>
    /\ UNCHANGED <<policy, references, worktree, linked, born, mine>>

Delete ==
    /\ phase = "delete"
    /\ IF heads[Task] = tip
       THEN heads' = [heads EXCEPT ![Task] = Absent] /\ Go("done")
       ELSE Leave /\ UNCHANGED heads
    /\ UNCHANGED <<policy, tracking, remote, worktree, linked, born, mine>>

\* Executor::stage_all, which may stop after some paths
StageAll(read) ==
    /\ command' = "save" /\ Reads(None, Absent, Absent, read)
    /\ \/ index' = tree /\ phase' = "commit"
       \/ index' \in {index, tree} /\ phase' = "restore"
    /\ UNCHANGED <<policy, references, at, tree, linked, born, mine>>

\* save::execute_scope: prepare_scope, IndexSnapshot::capture and the staging
BeginSave == Resting /\ ~Clean /\ StageAll(index)

\* Executor::commit_only or commit_only_with_draft: Git stages the files again after the
\* editor; it fails without changes, without a message, when a hook objects
CommitOnly ==
    /\ phase = "commit"
    /\ \/ /\ ~Saved
          /\ Record
          /\ Leave
       \/ Go("restore") /\ UNCHANGED <<heads, index, tree, born, mine>>
    /\ UNCHANGED <<policy, tracking, remote, at, linked>>

\* IndexSnapshot::restore_after
Restore ==
    /\ phase = "restore"
    /\ index' = snapshot
    /\ Leave
    /\ UNCHANGED <<policy, references, at, tree, linked, born, mine>>

\* The process is killed: every Git command has run or not, nothing is undone
Crash ==
    /\ ~Resting
    /\ Leave
    /\ UNCHANGED <<policy, references, worktree, linked, born, mine>>

Command ==
    \/ BeginStart \/ BeginFinish \/ BeginSave
    \/ Fetch \/ Compare \/ Forward \/ Look \/ Move \/ Create
    \/ Verify \/ Switch \/ Ask \/ Delete
    \/ CommitOnly \/ Restore
    \/ Crash

-----------------------------------------------------------------------------
(* The user, the linked worktree and the remote, at any time.              *)

\* The command relies on what it has seen of the worktrees
Relies == phase \in {"move", "delete"}
          \/ (OnBase /\ phase \in {"fetch", "compare", "forward"})
Witnessed ==
    /\ watched' = IF Relies THEN "changed" ELSE watched
    /\ UNCHANGED <<kept, phase, known, target>>

Edit ==
    /\ tree # Edited
    /\ tree' = Edited
    /\ UNCHANGED <<policy, references, at, index, linked, job, born, mine>>

StageEdit ==
    /\ index # tree
    /\ index' = tree
    /\ UNCHANGED <<policy, references, at, tree, linked, job, born, mine>>

UserCommit ==
    /\ ~Clean
    /\ Record
    /\ UNCHANGED <<policy, tracking, remote, at, linked, job>>

Discard ==
    /\ ~Clean /\ heads[at] # Absent
    /\ index' = heads[at] /\ tree' = heads[at]
    /\ UNCHANGED <<policy, references, at, linked, job, born, mine>>

Checkout(b) ==
    /\ b # at /\ b # linked /\ heads[b] # Absent
    /\ at' = b
    /\ Follow(heads[b])
    /\ Witnessed
    /\ UNCHANGED <<policy, references, linked, born, mine>>

\* git merge of the task into the base, in the main worktree
Merge ==
    /\ at = Base /\ Clean
    /\ ~Ancestor(heads[Task], heads[Base])
    /\ \/ /\ Ancestor(heads[Base], heads[Task])
          /\ heads' = [heads EXCEPT ![Base] = heads[Task]]
          /\ index' = heads[Task] /\ tree' = heads[Task]
          /\ UNCHANGED <<born, mine>>
       \/ /\ born < MaxCommits
          /\ born' = born + 1
          /\ heads' = [heads EXCEPT ![Base] = heads[Base] \cup heads[Task] \cup {born'}]
          /\ index' = heads'[at] /\ tree' = heads'[at]
          /\ mine' = mine \cup {born'}
    /\ UNCHANGED <<policy, tracking, remote, at, linked, job>>

\* git merge --ff-only with the remote-tracking base
Pull ==
    /\ at = Base /\ Clean
    /\ Ancestor(heads[Base], tracking[Base]) /\ heads[Base] # tracking[Base]
    /\ heads' = [heads EXCEPT ![Base] = tracking[Base]]
    /\ index' = tracking[Base] /\ tree' = tracking[Base]
    /\ UNCHANGED <<policy, tracking, remote, at, linked, job, born, mine>>

LinkedCheckout(b) ==
    /\ b # linked /\ b # at /\ (b # None => heads[b] # Absent)
    /\ linked' = b
    /\ Witnessed
    /\ UNCHANGED <<policy, references, worktree, born, mine>>

LinkedCommit ==
    /\ linked # None /\ born < MaxCommits
    /\ born' = born + 1
    /\ heads' = [heads EXCEPT ![linked] = heads[linked] \cup {born'}]
    /\ mine' = mine \cup {born'}
    /\ UNCHANGED <<policy, tracking, remote, worktree, linked, job>>

Push(b) ==
    /\ policy.remote /\ heads[b] # Absent /\ remote[b] # heads[b]
    /\ remote[b] = Absent \/ Ancestor(remote[b], heads[b])
    /\ remote' = [remote EXCEPT ![b] = heads[b]]
    /\ tracking' = [tracking EXCEPT ![b] = heads[b]]
    /\ UNCHANGED <<policy, heads, worktree, linked, job, born, mine>>

Update ==
    /\ policy.remote /\ tracking # Fetched
    /\ tracking' = Fetched
    /\ UNCHANGED <<policy, heads, remote, worktree, linked, job, born, mine>>

\* A colleague's commit, or the task squashed into one
RemoteCommit ==
    /\ policy.remote /\ born < MaxCommits
    /\ born' = born + 1
    /\ remote' = [remote EXCEPT ![Base] = remote[Base] \cup {born'}]
    /\ UNCHANGED <<policy, heads, tracking, worktree, linked, job, mine>>

RemoteMerge ==
    /\ remote[Task] # Absent /\ remote[Base] # Absent
    /\ ~Ancestor(remote[Task], remote[Base])
    /\ \/ /\ Ancestor(remote[Base], remote[Task])
          /\ remote' = [remote EXCEPT ![Base] = remote[Task]]
          /\ UNCHANGED born
       \/ /\ born < MaxCommits
          /\ born' = born + 1
          /\ remote' = [remote EXCEPT ![Base] = remote[Base] \cup remote[Task] \cup {born'}]
    /\ UNCHANGED <<policy, heads, tracking, worktree, linked, job, mine>>

\* The service removes a branch that is merged
RemoteDelete ==
    /\ remote[Task] # Absent /\ Ancestor(remote[Task], remote[Base])
    /\ remote' = [remote EXCEPT ![Task] = Absent]
    /\ UNCHANGED <<policy, heads, tracking, worktree, linked, job, born, mine>>

Others ==
    \/ Edit \/ StageEdit \/ UserCommit \/ Discard \/ Merge \/ Pull
    \/ LinkedCommit \/ Update \/ RemoteCommit \/ RemoteMerge \/ RemoteDelete
    \/ \E b \in Branches : Checkout(b)
    \/ \E b \in {Base, Task} : Push(b)
    \/ \E b \in {Base, Task, None} : LinkedCheckout(b)

Next == Command \/ Others

Spec == Init /\ [][Next]_vars

-----------------------------------------------------------------------------
(* Properties.                                                             *)

\* Every commit made in this repository is reachable from a branch or a remote-tracking
\* reference, whatever ran beside finish's deletion and the two moves of the base: the
\* compare-and-swap of vcs/repository.rs and the ancestry checks leave no gap.
NothingLost ==
    mine \subseteq UNION {heads[b] \cup tracking[b] : b \in Branches}

\* A start that succeeds begins where the remote's base was when it was compared, unless the
\* user left the base while start was fetching.  A finish that succeeds leaves the task
\* contained in the reference its policy names, and a base that has what was fetched.
ReportTruthful ==
    phase = "done" =>
        /\ command = "start" =>
             /\ heads[Task] # Absent
             /\ Ancestor(target, heads[Task]) \/ (OnBase /\ watched = "changed")
        /\ command = "finish"
              => Ancestor(tip, Requirement) /\ Ancestor(target, heads[Base])

\* A step of a command keeps an edit that is in no commit, and moves or deletes a branch that
\* a worktree has checked out only together with the files of that worktree, unless the
\* worktree switched to it after update_inactive_reference and its kin had looked.
WorktreeSafe ==
    [][job' # job =>
        /\ tree = Edited => tree' = Edited \/ born' # born
        /\ \A b \in Branches :
             heads[b] \notin {Absent, heads'[b]} /\ at # linked /\ watched = "seen" =>
              /\ b # linked
              /\ b = at /\ Clean => Clean']_vars
=============================================================================
