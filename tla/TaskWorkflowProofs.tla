------------------------- MODULE TaskWorkflowProofs -------------------------
(***************************************************************************)
(* The four properties of TaskWorkflow for every choice of its constants.  *)
(*                                                                         *)
(* Nothing but finish's deletion lets go of a commit (Grow), so what a     *)
(* command has established about ancestry stays true under whatever the    *)
(* user, the other worktree and colleagues do.  IInv says, phase by phase, *)
(* what that is; its parts are proved one lemma each, one case per action. *)
(* A command that gives up resets its own variables, which makes its part  *)
(* of IInv hold again whatever happened (LeaveSettles): the lemmas about   *)
(* those parts look only at the steps that go on (~Leave).                 *)
(***************************************************************************)
EXTENDS TaskWorkflow, TLAPS

\* What a step does to the commits that the local branches and the remote base hold
Grow ==
    /\ heads[Base] \subseteq heads'[Base]
    /\ heads[Side] \subseteq heads'[Side]
    /\ tracking[Base] \subseteq tracking'[Base]
    /\ heads[Task] \subseteq heads'[Task] \/ (phase = "delete" /\ heads[Task] = tip)

\* A fetch brings nothing older
IRemote ==
    /\ \A b \in Branches : remote[b] = Absent \/ tracking[b] \subseteq remote[b]
    /\ policy.remote => remote[Base] # Absent

\* Which command is in which phase, with which of its variables
IPhase ==
    /\ command # "start" => began = None
    /\ phase \in {"verify", "switch", "ask", "delete"} => command = "finish"
    /\ phase \in {"fetch", "compare", "look", "move"} => command # "save"
    /\ phase \in {"forward", "create"} => command = "start"
    /\ phase = "forward" => OnBase
    /\ phase \in {"ask", "delete"} => policy.delete
    /\ phase \in {"commit", "restore"} => snapshot \in Files
    /\ phase \in {"look", "move"} => known \subseteq target

\* NothingLost, without the tracking references that a deletion could leave behind
IMine == mine \subseteq heads[Base] \cup heads[Task] \cup heads[Side] \cup tracking[Base]

\* What finish knows.  Before the fetch it has read a base that may be behind by now; a task
\* that is only published is never deleted.
IFinish ==
    command = "finish" =>
        /\ phase \in {"fetch", "compare"} => known \subseteq heads[Base]
        /\ phase \in {"verify", "switch", "ask", "delete", "done"}
              => target \subseteq heads[Base]
        /\ phase \in {"switch", "ask", "delete", "done"} => tip \subseteq Requirement
        /\ policy.finish = "published" /\ phase # "idle" => tip \subseteq heads[Task]

\* What start knows, as long as the user has not left the base
IStart ==
    command = "start" =>
        /\ OnBase /\ watched = "seen" /\ phase \in {"fetch", "compare", "forward"} => at = Base
        /\ phase = "forward" => target \subseteq tracking[Base]
        /\ phase = "create" => target \subseteq heads[Base] \/ (OnBase /\ watched = "changed")
        /\ phase = "done" =>
             /\ heads[Task] # Absent
             /\ target \subseteq heads[Task] \/ (OnBase /\ watched = "changed")

\* What the command has seen of the worktrees
IWatch ==
    watched = "seen" =>
        /\ phase = "move" => Base \notin {at, linked}
        /\ phase = "delete" => Task \notin {at, linked}

\* The inductive invariant
IInv ==
    /\ TypeOK /\ IRemote /\ IPhase /\ IMine
    /\ IFinish /\ IStart /\ IWatch

-----------------------------------------------------------------------------
(* Types.                                                                  *)

JobType ==
    /\ command \in Commands /\ phase \in Phases
    /\ began \in Branches \cup {None}
    /\ known \in Commit /\ tip \in Commit /\ target \in Commit
    /\ snapshot \in Files \cup {None} /\ watched \in {"seen", "changed"}

RepositoryType ==
    /\ policy \in Policies
    /\ heads \in [Branches -> Commit]
    /\ tracking \in [Branches -> Commit]
    /\ remote \in [Branches -> Commit]
    /\ at \in Branches /\ linked \in Branches \cup {None}
    /\ index \in Files /\ tree \in Files
    /\ born \in Nat /\ mine \in Commit

\* PolicyOverrides::validate, as the deletion needs it
PolicySound == policy.delete => policy.finish = "integrated"

\* The type invariant is that of the command and that of the repository.
LEMMA TypeParts == TypeOK <=> JobType /\ RepositoryType
  BY DEF TypeOK, JobType, RepositoryType

\* A policy that deletes asks for integration.
LEMMA PolicyIsSound == TypeOK => PolicySound
  BY DEF TypeOK, Policies, Policy, PolicySound

\* An absent reference reaches nothing, which is a set of commits, too.
LEMMA NoCommit == Absent \in Commit
  BY DEF Absent, Commit

\* Commits stay sets of numbers when they are joined or get a child.
LEMMA Joined ==
    ASSUME NEW c \in Commit
    PROVE  /\ \A d \in Commit : c \cup d \in Commit
           /\ \A n \in Nat : c \cup {n} \in Commit /\ c \cup {n + 1} \in Commit
  BY DEF Commit

\* A new commit in the main worktree keeps the types.
LEMMA Recorded ==
    ASSUME RepositoryType, Record, UNCHANGED <<policy, tracking, remote, at, linked>>
    PROVE  RepositoryType'
<1>1. born' \in Nat /\ heads[at] \in Commit
  BY DEF RepositoryType, Record
<1>2. heads[at] \cup {born'} \in Commit /\ mine \cup {born'} \in Commit
  BY <1>1 DEF RepositoryType, Commit
<1>3. heads' \in [Branches -> Commit] /\ heads'[at] \in Commit
  BY <1>2 DEF RepositoryType, Record
<1>q. QED
  BY <1>1, <1>2, <1>3 DEF RepositoryType, Record, Files

\* A command that gives up leaves its part of the invariant true.
LEMMA LeaveSettles == Leave => JobType' /\ IPhase' /\ IFinish' /\ IStart' /\ IWatch'
<1>1. Leave => JobType'
  BY DEF Leave, Reads, JobType, Commands, Phases, Commit, Absent
<1>2. Leave => IPhase' /\ IFinish' /\ IStart' /\ IWatch'
  BY DEF Leave, Reads, IPhase, IFinish, IStart, IWatch
<1>q. QED BY <1>1, <1>2

-----------------------------------------------------------------------------
(* One lemma per part of the invariant.                                    *)

\* The variables of the command keep their types.
LEMMA StepJob ==
    ASSUME JobType, RepositoryType, Next, ~Leave
    PROVE  JobType'
<1>1. CASE BeginStart
  BY <1>1, NoCommit, Joined, SMTT(15) DEF BeginStart, Resting, Reads, JobType,
     RepositoryType, Branches, Phases, Commands, Files, references, worktree, job, kept
<1>2. CASE BeginFinish
  BY <1>2, NoCommit, Joined, SMTT(15) DEF BeginFinish, Resting, Reads, JobType,
     RepositoryType, Branches, Phases, Commands, Files, references, worktree, job, kept
<1>3. CASE BeginSave
  BY <1>3, NoCommit, Joined, SMTT(15) DEF BeginSave, Resting, StageAll, Reads, JobType,
     RepositoryType, Branches, Phases, Commands, Files, references, worktree, job, kept
<1>4. CASE Fetch
  BY <1>4, NoCommit, Joined, SMTT(15) DEF Fetch, Fetched, Go, JobType, RepositoryType,
     Branches, Phases, Commands, Files, references, worktree, job, kept
<1>5. CASE Compare
  BY <1>5, NoCommit, Joined, SMTT(15) DEF Compare, OnBase, KnownBase, Afterwards,
     Ancestor, JobType, RepositoryType, Branches, Phases, Commands, Files, references,
     worktree, job, kept
<1>6. CASE Forward
  BY <1>6, NoCommit, Joined, SMTT(15) DEF Forward, Ancestor, Follow, Go, JobType,
     RepositoryType, Branches, Phases, Commands, Files, references, worktree, job, kept
<1>7. CASE Look
  BY <1>7, NoCommit, Joined, SMTT(15) DEF Look, CheckedOut, JobType, RepositoryType,
     Branches, Phases, Commands, Files, references, worktree, job, kept
<1>8. CASE Move
  BY <1>8, NoCommit, Joined, SMTT(15) DEF Move, Afterwards, JobType, RepositoryType,
     Branches, Phases, Commands, Files, references, worktree, job, kept
<1>9. CASE Create
  BY <1>9, NoCommit, Joined, SMTT(15) DEF Create, Follow, Go, JobType, RepositoryType,
     Branches, Phases, Commands, Files, references, worktree, job, kept
<1>10. CASE Verify
  BY <1>10, NoCommit, Joined, SMTT(15) DEF Verify, Requirement, Ancestor, Go, JobType,
     RepositoryType, Branches, Phases, Commands, Files, references, worktree, job, kept
<1>11. CASE Switch
  BY <1>11, NoCommit, Joined, SMTT(15) DEF Switch, Follow, Go, JobType, RepositoryType,
     Branches, Phases, Commands, Files, references, worktree, job, kept
<1>12. CASE Ask
  BY <1>12, NoCommit, Joined, SMTT(15) DEF Ask, CheckedOut, JobType, RepositoryType,
     Branches, Phases, Commands, Files, references, worktree, job, kept
<1>13. CASE Delete
  BY <1>13, NoCommit, Joined, SMTT(15) DEF Delete, Go, JobType, RepositoryType,
     Branches, Phases, Commands, Files, references, worktree, job, kept
<1>14. CASE CommitOnly
  BY <1>14, NoCommit, Joined, SMTT(15) DEF CommitOnly, Record, Go, JobType,
     RepositoryType, Branches, Phases, Commands, Files, references, worktree, job, kept
<1>15. CASE Restore
  BY <1>15, NoCommit, Joined, SMTT(15) DEF Restore, JobType, RepositoryType, Branches,
     Phases, Commands, Files, references, worktree, job, kept
<1>16. CASE Crash
  BY <1>16, NoCommit, Joined, SMTT(15) DEF Crash, Resting, JobType, RepositoryType,
     Branches, Phases, Commands, Files, references, worktree, job, kept
<1>17. ASSUME NEW b \in Branches, Checkout(b) PROVE JobType'
  BY <1>17, NoCommit, Joined, SMTT(15) DEF Checkout, Follow, Witnessed, Relies, OnBase,
     JobType, RepositoryType, Branches, Phases, Commands, Files, references, worktree,
     job, kept
<1>18. ASSUME NEW b \in {Base, Task, None}, LinkedCheckout(b) PROVE JobType'
  BY <1>18, NoCommit, Joined, SMTT(15) DEF LinkedCheckout, Witnessed, Relies, OnBase,
     JobType, RepositoryType, Branches, Phases, Commands, Files, references, worktree,
     job, kept
<1>19. CASE UNCHANGED job
  BY <1>19 DEF JobType, job, kept
<1>q. QED
  <2>1. ASSUME
          Edit \/ StageEdit \/ UserCommit \/ Discard \/ Merge \/ Pull \/
          LinkedCommit \/ Update \/ RemoteCommit \/ RemoteMerge \/ RemoteDelete
          \/ (\E b \in {Base, Task} : Push(b))
        PROVE UNCHANGED job
    BY <2>1, Zenon DEF Edit, StageEdit, UserCommit, Discard, Merge, Pull, LinkedCommit,
       Update, RemoteCommit, RemoteMerge, RemoteDelete, Push, references, worktree, job,
       kept
  <2>q. QED
    BY <1>1, <1>2, <1>3, <1>4, <1>5, <1>6, <1>7, <1>8, <1>9, <1>10, <1>11, <1>12, <1>13,
       <1>14, <1>15, <1>16, <1>17, <1>18, <1>19, <2>1 DEF Next, Command, Others

\* The repository keeps its types; restoring the index needs one to have been read.
LEMMA StepRepository ==
    ASSUME JobType, RepositoryType, IPhase, Next
    PROVE  RepositoryType'
<1>1. CASE BeginSave
  BY <1>1, BranchAssumption, NumberAssumption, NoCommit, Joined, SMTT(15) DEF BeginSave,
     Resting, StageAll, Reads, JobType, RepositoryType, Branches, Files, references,
     worktree, job, kept
<1>2. CASE Fetch
  BY <1>2, BranchAssumption, NumberAssumption, NoCommit, Joined, SMTT(15) DEF Fetch,
     Fetched, Go, Leave, Reads, JobType, RepositoryType, Branches, Files, references,
     worktree, job, kept
<1>3. CASE Forward
  BY <1>3, BranchAssumption, NumberAssumption, NoCommit, Joined, SMTT(15) DEF Forward,
     Ancestor, Follow, Go, Leave, Reads, JobType, RepositoryType, Branches, Files,
     references, worktree, job, kept
<1>4. CASE Move
  BY <1>4, BranchAssumption, NumberAssumption, NoCommit, Joined, SMTT(15) DEF Move,
     Afterwards, Leave, Reads, JobType, RepositoryType, Branches, Files, references,
     worktree, job, kept
<1>5. CASE Create
  BY <1>5, BranchAssumption, NumberAssumption, NoCommit, Joined, SMTT(15) DEF Create,
     Follow, Go, Leave, Reads, JobType, RepositoryType, Branches, Files, references,
     worktree, job, kept
<1>6. CASE Switch
  BY <1>6, BranchAssumption, NumberAssumption, NoCommit, Joined, SMTT(15) DEF Switch,
     Follow, Go, Leave, Reads, JobType, RepositoryType, Branches, Files, references,
     worktree, job, kept
<1>7. CASE Delete
  BY <1>7, BranchAssumption, NumberAssumption, NoCommit, Joined, SMTT(15) DEF Delete,
     Go, Leave, Reads, JobType, RepositoryType, Branches, Files, references, worktree,
     job, kept
<1>8. CASE CommitOnly
  <2>1. CASE Record
    BY <1>8, <2>1, Recorded DEF CommitOnly
  <2>2. CASE ~Record
    BY <1>8, <2>2 DEF CommitOnly, RepositoryType
  <2>q. QED BY <2>1, <2>2
<1>9. CASE Restore
  BY <1>9 DEF Restore, RepositoryType, IPhase, references
<1>10. CASE Edit
  BY <1>10, BranchAssumption, NumberAssumption, NoCommit, Joined, SMTT(15) DEF Edit,
     JobType, RepositoryType, Branches, Files, references, worktree, job, kept
<1>11. CASE StageEdit
  BY <1>11, BranchAssumption, NumberAssumption, NoCommit, Joined, SMTT(15) DEF
     StageEdit, JobType, RepositoryType, Branches, Files, references, worktree, job,
     kept
<1>12. CASE UserCommit
  BY <1>12, Recorded DEF UserCommit
<1>13. CASE Discard
  BY <1>13, BranchAssumption, NumberAssumption, NoCommit, Joined, SMTT(15) DEF Discard,
     JobType, RepositoryType, Branches, Files, references, worktree, job, kept
<1>14. CASE Merge
  <2>1. heads[Base] \in Commit /\ heads[Task] \in Commit /\ at = Base
    BY <1>14 DEF Merge, RepositoryType, Branches
  <2>2. CASE UNCHANGED <<born, mine>>
    BY <1>14, <2>1, <2>2, SMTT(15) DEF Merge, RepositoryType, Branches, Files
  <2>3. CASE ~(UNCHANGED <<born, mine>>)
    <3>1. heads[Base] \cup heads[Task] \cup {born + 1} \in Commit /\ mine \cup {born + 1} \in Commit
      BY <2>1 DEF Commit, RepositoryType
    <3>q. QED
      BY <1>14, <2>1, <2>3, <3>1, SMTT(15) DEF Merge, RepositoryType, Branches, Files
  <2>q. QED BY <2>2, <2>3
<1>15. CASE Pull
  BY <1>15, BranchAssumption, NumberAssumption, NoCommit, Joined, SMTT(15) DEF Pull,
     Ancestor, JobType, RepositoryType, Branches, Files, references, worktree, job, kept
<1>16. CASE LinkedCommit
  <2>1. linked \in Branches /\ heads[linked] \in Commit
    BY <1>16, BranchAssumption DEF LinkedCommit, RepositoryType
  <2>2. heads[linked] \cup {born + 1} \in Commit /\ mine \cup {born + 1} \in Commit
    BY <2>1 DEF Commit, RepositoryType
  <2>q. QED
    BY <1>16, <2>1, <2>2 DEF LinkedCommit, RepositoryType, worktree
<1>17. CASE Update
  BY <1>17, BranchAssumption, NumberAssumption, NoCommit, Joined, SMTT(15) DEF Update,
     Fetched, JobType, RepositoryType, Branches, Files, references, worktree, job, kept
<1>18. CASE RemoteCommit
  <2>1. remote[Base] \cup {born + 1} \in Commit
    BY DEF Commit, RepositoryType, Branches
  <2>q. QED
    BY <1>18, <2>1, SMTT(15) DEF RemoteCommit, RepositoryType, worktree, Branches
<1>19. CASE RemoteMerge
  <2>1. remote[Task] \in Commit /\ remote[Base] \cup remote[Task] \cup {born'} \in Commit
    <3>1. remote[Task] \in Commit /\ remote[Base] \in Commit /\ born' \in Nat
      BY <1>19 DEF RemoteMerge, RepositoryType, Branches
    <3>q. QED BY <3>1 DEF Commit
  <2>2. remote' \in [Branches -> Commit]
    <3>1. PICK c \in Commit : remote' = [remote EXCEPT ![Base] = c]
      BY <1>19, <2>1, Zenon DEF RemoteMerge
    <3>q. QED BY <3>1 DEF RepositoryType
  <2>3. born' \in Nat
    BY <1>19 DEF RemoteMerge, RepositoryType
  <2>q. QED
    BY <1>19, <2>2, <2>3 DEF RemoteMerge, RepositoryType, worktree
<1>20. CASE RemoteDelete
  BY <1>20, BranchAssumption, NumberAssumption, NoCommit, Joined, SMTT(15) DEF
     RemoteDelete, JobType, RepositoryType, Branches, Files, references, worktree, job,
     kept
<1>21. ASSUME NEW b \in Branches, Checkout(b) PROVE RepositoryType'
  BY <1>21, BranchAssumption, NumberAssumption, NoCommit, Joined, SMTT(15) DEF Checkout,
     Follow, Witnessed, Relies, OnBase, JobType, RepositoryType, Branches, Files,
     references, worktree, job, kept
<1>22. ASSUME NEW b \in {Base, Task}, Push(b) PROVE RepositoryType'
  BY <1>22, BranchAssumption, NumberAssumption, NoCommit, Joined, SMTT(15) DEF Push,
     Ancestor, JobType, RepositoryType, Branches, Files, references, worktree, job, kept
<1>23. ASSUME NEW b \in {Base, Task, None}, LinkedCheckout(b) PROVE RepositoryType'
  BY <1>23, BranchAssumption, NumberAssumption, NoCommit, Joined, SMTT(15) DEF
     LinkedCheckout, Witnessed, Relies, OnBase, JobType, RepositoryType, Branches,
     Files, references, worktree, job, kept
<1>24. CASE UNCHANGED <<policy, references, worktree, linked, born, mine>>
  BY <1>24 DEF RepositoryType, references, worktree
<1>q. QED
  <2>1. ASSUME
          BeginStart \/ BeginFinish \/ Compare \/ Look \/ Verify \/ Ask \/ Crash
        PROVE UNCHANGED <<policy, references, worktree, linked, born, mine>>
    BY <2>1, Zenon DEF BeginStart, BeginFinish, Compare, Look, Verify, Ask, Crash,
       references, worktree, job, kept
  <2>q. QED
    BY <1>1, <1>2, <1>3, <1>4, <1>5, <1>6, <1>7, <1>8, <1>9, <1>10, <1>11, <1>12, <1>13,
       <1>14, <1>15, <1>16, <1>17, <1>18, <1>19, <1>20, <1>21, <1>22, <1>23, <1>24, <2>1
       DEF Next, Command, Others

\* No step loses commits of a branch, but for the deletion of the task.
LEMMA StepGrow ==
    ASSUME TypeOK, IRemote, IPhase, Next
    PROVE  Grow
<1>1. CASE Fetch
  BY <1>1, BranchAssumption, SMTT(15) DEF Fetch, Fetched, Go, Leave, Reads, TypeOK,
     Branches, Absent, references, worktree, job, kept, OnBase, IRemote, IPhase, Grow
<1>2. CASE Forward
  BY <1>2, BranchAssumption, SMTT(15) DEF Forward, Ancestor, Follow, Go, Leave, Reads,
     TypeOK, Branches, Absent, references, worktree, job, kept, OnBase, IRemote, IPhase,
     Grow
<1>3. CASE Move
  BY <1>3, BranchAssumption, SMTT(15) DEF Move, Afterwards, Leave, Reads, TypeOK,
     Branches, Absent, references, worktree, job, kept, OnBase, IRemote, IPhase, Grow
<1>4. CASE Create
  BY <1>4, BranchAssumption, SMTT(15) DEF Create, Follow, Go, Leave, Reads, TypeOK,
     Branches, Absent, references, worktree, job, kept, OnBase, IRemote, IPhase, Grow
<1>5. CASE Delete
  BY <1>5, BranchAssumption, SMTT(15) DEF Delete, Go, Leave, Reads, TypeOK, Branches,
     Absent, references, worktree, job, kept, OnBase, IRemote, IPhase, Grow
<1>6. CASE CommitOnly
  BY <1>6, BranchAssumption, SMTT(15) DEF CommitOnly, Record, Go, Leave, Reads, TypeOK,
     Branches, Absent, references, worktree, job, kept, OnBase, IRemote, IPhase, Grow
<1>7. CASE UserCommit
  BY <1>7, BranchAssumption, SMTT(15) DEF UserCommit, Record, TypeOK, Branches, Absent,
     references, worktree, job, kept, OnBase, IRemote, IPhase, Grow
<1>8. CASE Merge
  BY <1>8, BranchAssumption, SMTT(15) DEF Merge, Ancestor, TypeOK, Branches, Absent,
     references, worktree, job, kept, OnBase, IRemote, IPhase, Grow
<1>9. CASE Pull
  BY <1>9, BranchAssumption, SMTT(15) DEF Pull, Ancestor, TypeOK, Branches, Absent,
     references, worktree, job, kept, OnBase, IRemote, IPhase, Grow
<1>10. CASE LinkedCommit
  BY <1>10, BranchAssumption, SMTT(15) DEF LinkedCommit, TypeOK, Branches, Absent,
     references, worktree, job, kept, OnBase, IRemote, IPhase, Grow
<1>11. CASE Update
  BY <1>11, BranchAssumption, SMTT(15) DEF Update, Fetched, TypeOK, Branches, Absent,
     references, worktree, job, kept, OnBase, IRemote, IPhase, Grow
<1>12. ASSUME NEW b \in {Base, Task}, Push(b) PROVE Grow
  BY <1>12, BranchAssumption, SMTT(15) DEF Push, Ancestor, TypeOK, Branches, Absent,
     references, worktree, job, kept, OnBase, IRemote, IPhase, Grow
<1>13. CASE UNCHANGED <<heads, tracking>>
  BY <1>13 DEF Grow
<1>q. QED
  <2>1. ASSUME
          BeginStart \/ BeginFinish \/ BeginSave \/ Compare \/ Look \/ Verify \/
          Switch \/ Ask \/ Restore \/ Crash \/ Edit \/ StageEdit \/ Discard \/
          RemoteCommit \/ RemoteMerge \/ RemoteDelete \/ (\E b \in Branches :
          Checkout(b)) \/ (\E b \in {Base, Task, None} : LinkedCheckout(b))
        PROVE UNCHANGED <<heads, tracking>>
    BY <2>1, Zenon DEF BeginStart, BeginFinish, BeginSave, StageAll, Compare, Look,
       Verify, Switch, Ask, Restore, Crash, Edit, StageEdit, Discard, RemoteCommit,
       RemoteMerge, RemoteDelete, Checkout, Witnessed, LinkedCheckout, references,
       worktree, job, kept
  <2>q. QED
    BY <1>1, <1>2, <1>3, <1>4, <1>5, <1>6, <1>7, <1>8, <1>9, <1>10, <1>11, <1>12, <1>13,
       <2>1 DEF Next, Command, Others

\* The remote stays ahead of what was fetched from it.
LEMMA StepRemote ==
    ASSUME TypeOK, IRemote, Next
    PROVE  IRemote'
<1>1. CASE Fetch
  BY <1>1, BranchAssumption, SMTT(15) DEF Fetch, Fetched, Go, Leave, Reads, TypeOK,
     Branches, Absent, references, worktree, job, kept, IRemote
<1>2. CASE Update
  BY <1>2, BranchAssumption, SMTT(15) DEF Update, Fetched, TypeOK, Branches, Absent,
     references, worktree, job, kept, IRemote
<1>3. CASE RemoteCommit
  BY <1>3, BranchAssumption, SMTT(15) DEF RemoteCommit, TypeOK, Branches, Absent,
     references, worktree, job, kept, IRemote
<1>4. CASE RemoteMerge
  BY <1>4, BranchAssumption, SMTT(15) DEF RemoteMerge, Ancestor, TypeOK, Branches,
     Absent, references, worktree, job, kept, IRemote
<1>5. CASE RemoteDelete
  BY <1>5, BranchAssumption, SMTT(15) DEF RemoteDelete, TypeOK, Branches, Absent,
     references, worktree, job, kept, IRemote
<1>6. ASSUME NEW b \in {Base, Task}, Push(b) PROVE IRemote'
  BY <1>6, BranchAssumption, SMTT(15) DEF Push, Ancestor, TypeOK, Branches, Absent,
     references, worktree, job, kept, IRemote
<1>7. CASE UNCHANGED <<policy, tracking, remote>>
  BY <1>7 DEF IRemote
<1>q. QED
  <2>1. ASSUME
          BeginStart \/ BeginFinish \/ BeginSave \/ Compare \/ Forward \/ Look
          \/ Move \/ Create \/ Verify \/ Switch \/ Ask \/ Delete \/ CommitOnly
          \/ Restore \/ Crash \/ Edit \/ StageEdit \/ UserCommit \/ Discard \/
          Merge \/ Pull \/ LinkedCommit \/ (\E b \in Branches : Checkout(b)) \/
          (\E b \in {Base, Task, None} : LinkedCheckout(b))
        PROVE UNCHANGED <<policy, tracking, remote>>
    BY <2>1, Zenon DEF BeginStart, BeginFinish, BeginSave, StageAll, Compare, Forward,
       Look, Move, Create, Verify, Switch, Ask, Delete, CommitOnly, Restore, Crash,
       Edit, StageEdit, UserCommit, Discard, Merge, Pull, LinkedCommit, Checkout,
       Witnessed, LinkedCheckout, references, worktree, job, kept
  <2>q. QED
    BY <1>1, <1>2, <1>3, <1>4, <1>5, <1>6, <1>7, <2>1 DEF Next, Command, Others

\* A command keeps to its own phases.
LEMMA StepPhase ==
    ASSUME TypeOK, IPhase, Next, ~Leave
    PROVE  IPhase'
<1>1. CASE BeginStart
  BY <1>1, SMTT(15) DEF BeginStart, Resting, Reads, IPhase, OnBase, Branches, TypeOK,
     Commands, references, worktree, job, kept
<1>2. CASE BeginFinish
  BY <1>2, SMTT(15) DEF BeginFinish, Resting, Reads, IPhase, OnBase, Branches, TypeOK,
     Commands, references, worktree, job, kept
<1>3. CASE BeginSave
  BY <1>3, SMTT(15) DEF BeginSave, Resting, StageAll, Reads, IPhase, OnBase, Branches,
     TypeOK, Commands, references, worktree, job, kept
<1>4. CASE Fetch
  BY <1>4, SMTT(15) DEF Fetch, Fetched, Go, IPhase, OnBase, Branches, TypeOK, Commands,
     references, worktree, job, kept
<1>5. CASE Compare
  <2>1. CASE phase' = Afterwards
    BY <1>5, <2>1, SMTT(15) DEF Compare, Afterwards, IPhase, OnBase, kept, TypeOK,
       Commands
  <2>2. CASE phase' = "forward"
    BY <1>5, <2>2, BranchAssumption, SMTT(15) DEF Compare, OnBase, Afterwards, IPhase,
       kept, TypeOK, Commands, Branches
  <2>3. CASE phase' = "look" /\ phase' # Afterwards
    <3>1. known' \subseteq target'
      BY <1>5, <2>3, SMTT(15) DEF Compare, Ancestor
    <3>2. UNCHANGED kept
      BY <1>5, <2>3, SMTT(15) DEF Compare
    <3>q. QED BY <1>5, <2>3, <3>1, <3>2 DEF Compare, IPhase, kept, OnBase
  <2>q. QED BY <1>5, <2>1, <2>2, <2>3, Zenon DEF Compare
<1>6. CASE Forward
  BY <1>6, SMTT(15) DEF Forward, Ancestor, Follow, Go, IPhase, OnBase, Branches, TypeOK,
     Commands, references, worktree, job, kept
<1>7. CASE Look
  BY <1>7, SMTT(15) DEF Look, CheckedOut, IPhase, OnBase, Branches, TypeOK, Commands,
     references, worktree, job, kept
<1>8. CASE Move
  <2>1. phase' = Afterwards /\ UNCHANGED kept
    BY <1>8, Zenon DEF Move
  <2>q. QED BY <1>8, <2>1, SMTT(15) DEF Move, Afterwards, IPhase, OnBase, kept, TypeOK,
     Commands
<1>9. CASE Create
  BY <1>9, SMTT(15) DEF Create, Follow, Go, IPhase, OnBase, Branches, TypeOK, Commands,
     references, worktree, job, kept
<1>10. CASE Verify
  BY <1>10, SMTT(15) DEF Verify, Requirement, Ancestor, Go, IPhase, OnBase, Branches,
     TypeOK, Commands, references, worktree, job, kept
<1>11. CASE Switch
  BY <1>11, SMTT(15) DEF Switch, Follow, Go, IPhase, OnBase, Branches, TypeOK, Commands,
     references, worktree, job, kept
<1>12. CASE Ask
  BY <1>12, SMTT(15) DEF Ask, CheckedOut, IPhase, OnBase, Branches, TypeOK, Commands,
     references, worktree, job, kept
<1>13. CASE Delete
  BY <1>13, SMTT(15) DEF Delete, Go, IPhase, OnBase, Branches, TypeOK, Commands,
     references, worktree, job, kept
<1>14. CASE CommitOnly
  BY <1>14, SMTT(15) DEF CommitOnly, Record, Go, IPhase, OnBase, Branches, TypeOK,
     Commands, references, worktree, job, kept
<1>15. CASE Restore
  BY <1>15, SMTT(15) DEF Restore, IPhase, OnBase, Branches, TypeOK, Commands,
     references, worktree, job, kept
<1>16. CASE Crash
  BY <1>16, SMTT(15) DEF Crash, Resting, IPhase, OnBase, Branches, TypeOK, Commands,
     references, worktree, job, kept
<1>17. ASSUME NEW b \in Branches, Checkout(b) PROVE IPhase'
  BY <1>17, SMTT(15) DEF Checkout, Follow, Witnessed, Relies, OnBase, IPhase, Branches,
     TypeOK, Commands, references, worktree, job, kept
<1>18. ASSUME NEW b \in {Base, Task, None}, LinkedCheckout(b) PROVE IPhase'
  BY <1>18, SMTT(15) DEF LinkedCheckout, Witnessed, Relies, OnBase, IPhase, Branches,
     TypeOK, Commands, references, worktree, job, kept
<1>19. CASE UNCHANGED <<policy, job>>
  BY <1>19 DEF IPhase, OnBase, job, kept
<1>q. QED
  <2>1. ASSUME
          Edit \/ StageEdit \/ UserCommit \/ Discard \/ Merge \/ Pull \/
          LinkedCommit \/ Update \/ RemoteCommit \/ RemoteMerge \/ RemoteDelete
          \/ (\E b \in {Base, Task} : Push(b))
        PROVE UNCHANGED <<policy, job>>
    BY <2>1, Zenon DEF Edit, StageEdit, UserCommit, Discard, Merge, Pull, LinkedCommit,
       Update, RemoteCommit, RemoteMerge, RemoteDelete, Push, references, worktree, job,
       kept
  <2>q. QED
    BY <1>1, <1>2, <1>3, <1>4, <1>5, <1>6, <1>7, <1>8, <1>9, <1>10, <1>11, <1>12, <1>13,
       <1>14, <1>15, <1>16, <1>17, <1>18, <1>19, <2>1 DEF Next, Command, Others

\* What the command has seen of the worktrees holds until it is marked as changed.
LEMMA StepWatch ==
    ASSUME TypeOK, IPhase, IWatch, Next, ~Leave
    PROVE  IWatch'
<1>1. CASE BeginStart
  BY <1>1, BranchAssumption, SMTT(15) DEF BeginStart, Resting, Reads, TypeOK, Branches,
     Absent, references, worktree, job, kept, IPhase, IWatch
<1>2. CASE BeginFinish
  BY <1>2, BranchAssumption, SMTT(15) DEF BeginFinish, Resting, Reads, TypeOK, Branches,
     Absent, references, worktree, job, kept, IPhase, IWatch
<1>3. CASE BeginSave
  BY <1>3, BranchAssumption, SMTT(15) DEF BeginSave, Resting, StageAll, Reads, TypeOK,
     Branches, Absent, references, worktree, job, kept, IPhase, IWatch
<1>4. CASE Fetch
  BY <1>4, BranchAssumption, SMTT(15) DEF Fetch, Fetched, Go, TypeOK, Branches, Absent,
     references, worktree, job, kept, IPhase, IWatch
<1>5. CASE Compare
  BY <1>5, BranchAssumption, SMTT(15) DEF Compare, OnBase, KnownBase, Afterwards,
     Ancestor, TypeOK, Branches, Absent, references, worktree, job, kept, IPhase, IWatch
<1>6. CASE Forward
  BY <1>6, BranchAssumption, SMTT(15) DEF Forward, Ancestor, Follow, Go, TypeOK,
     Branches, Absent, references, worktree, job, kept, IPhase, IWatch
<1>7. CASE Look
  BY <1>7, BranchAssumption, SMTT(15) DEF Look, CheckedOut, TypeOK, Branches, Absent,
     references, worktree, job, kept, IPhase, IWatch
<1>8. CASE Move
  BY <1>8, BranchAssumption, SMTT(15) DEF Move, Afterwards, TypeOK, Branches, Absent,
     references, worktree, job, kept, IPhase, IWatch
<1>9. CASE Create
  BY <1>9, BranchAssumption, SMTT(15) DEF Create, Follow, Go, TypeOK, Branches, Absent,
     references, worktree, job, kept, IPhase, IWatch
<1>10. CASE Verify
  BY <1>10, BranchAssumption, SMTT(15) DEF Verify, Requirement, Ancestor, Go, TypeOK,
     Branches, Absent, references, worktree, job, kept, IPhase, IWatch
<1>11. CASE Switch
  BY <1>11, BranchAssumption, SMTT(15) DEF Switch, Follow, Go, TypeOK, Branches, Absent,
     references, worktree, job, kept, IPhase, IWatch
<1>12. CASE Ask
  BY <1>12, BranchAssumption, SMTT(15) DEF Ask, CheckedOut, TypeOK, Branches, Absent,
     references, worktree, job, kept, IPhase, IWatch
<1>13. CASE Delete
  BY <1>13, BranchAssumption, SMTT(15) DEF Delete, Go, TypeOK, Branches, Absent,
     references, worktree, job, kept, IPhase, IWatch
<1>14. CASE CommitOnly
  BY <1>14, BranchAssumption, SMTT(15) DEF CommitOnly, Record, Go, TypeOK, Branches,
     Absent, references, worktree, job, kept, IPhase, IWatch
<1>15. CASE Restore
  BY <1>15, BranchAssumption, SMTT(15) DEF Restore, TypeOK, Branches, Absent,
     references, worktree, job, kept, IPhase, IWatch
<1>16. CASE Crash
  BY <1>16, BranchAssumption, SMTT(15) DEF Crash, Resting, TypeOK, Branches, Absent,
     references, worktree, job, kept, IPhase, IWatch
<1>17. ASSUME NEW b \in Branches, Checkout(b) PROVE IWatch'
  BY <1>17, BranchAssumption, SMTT(15) DEF Checkout, Follow, Witnessed, Relies, OnBase,
     TypeOK, Branches, Absent, references, worktree, job, kept, IPhase, IWatch
<1>18. ASSUME NEW b \in {Base, Task, None}, LinkedCheckout(b) PROVE IWatch'
  BY <1>18, BranchAssumption, SMTT(15) DEF LinkedCheckout, Witnessed, Relies, OnBase,
     TypeOK, Branches, Absent, references, worktree, job, kept, IPhase, IWatch
<1>19. CASE UNCHANGED <<at, linked, job>>
  BY <1>19 DEF IWatch, job
<1>q. QED
  <2>1. ASSUME
          Edit \/ StageEdit \/ UserCommit \/ Discard \/ Merge \/ Pull \/
          LinkedCommit \/ Update \/ RemoteCommit \/ RemoteMerge \/ RemoteDelete
          \/ (\E b \in {Base, Task} : Push(b))
        PROVE UNCHANGED <<at, linked, job>>
    BY <2>1, Zenon DEF Edit, StageEdit, UserCommit, Discard, Merge, Pull, LinkedCommit,
       Update, RemoteCommit, RemoteMerge, RemoteDelete, Push, references, worktree, job,
       kept
  <2>q. QED
    BY <1>1, <1>2, <1>3, <1>4, <1>5, <1>6, <1>7, <1>8, <1>9, <1>10, <1>11, <1>12, <1>13,
       <1>14, <1>15, <1>16, <1>17, <1>18, <1>19, <2>1 DEF Next, Command, Others

\* The commits made here stay where IMine says; a deleted task is part of the base or of what
\* was fetched as the base.
LEMMA StepMine ==
    ASSUME TypeOK, PolicySound, IRemote, IPhase, IFinish, IMine, Grow, Next
    PROVE  IMine'
<1>1. CASE Fetch
  BY <1>1, BranchAssumption, SMTT(15) DEF Fetch, Fetched, Go, Leave, Reads, TypeOK,
     Branches, Absent, references, worktree, job, kept, IMine, Grow, IPhase, IFinish,
     Requirement, Ancestor
<1>2. CASE Forward
  BY <1>2, BranchAssumption, SMTT(15) DEF Forward, Ancestor, Follow, Go, Leave, Reads,
     TypeOK, Branches, Absent, references, worktree, job, kept, IMine, Grow, IPhase,
     IFinish, Requirement
<1>3. CASE Move
  BY <1>3, BranchAssumption, SMTT(15) DEF Move, Afterwards, Leave, Reads, TypeOK,
     Branches, Absent, references, worktree, job, kept, IMine, Grow, IPhase, IFinish,
     Requirement, Ancestor
<1>4. CASE Create
  BY <1>4, BranchAssumption, SMTT(15) DEF Create, Follow, Go, Leave, Reads, TypeOK,
     Branches, Absent, references, worktree, job, kept, IMine, Grow, IPhase, IFinish,
     Requirement, Ancestor
<1>5. CASE Delete
  <2>1. policy.finish = "integrated" /\ command = "finish"
    BY <1>5 DEF Delete, IPhase, PolicySound
  <2>2. tip \subseteq heads[Base] \/ tip \subseteq tracking[Base]
    BY <1>5, <2>1 DEF Delete, IFinish, Requirement
  <2>3. CASE heads[Task] = tip
    BY <1>5, <2>2, <2>3, BranchAssumption, SMTT(15) DEF Delete, IMine, TypeOK, Branches,
       worktree
  <2>4. CASE heads[Task] # tip
    BY <1>5, <2>4, BranchAssumption, SMTT(15) DEF Delete, IMine, TypeOK, Branches,
       worktree
  <2>q. QED BY <2>3, <2>4
<1>6. CASE CommitOnly
  BY <1>6, BranchAssumption, SMTT(15) DEF CommitOnly, Record, Go, Leave, Reads, TypeOK,
     Branches, Absent, references, worktree, job, kept, IMine, Grow, IPhase, IFinish,
     Requirement, Ancestor
<1>7. CASE UserCommit
  BY <1>7, BranchAssumption, SMTT(15) DEF UserCommit, Record, TypeOK, Branches, Absent,
     references, worktree, job, kept, IMine, Grow, IPhase, IFinish, Requirement,
     Ancestor
<1>8. CASE Merge
  BY <1>8, BranchAssumption, SMTT(15) DEF Merge, Ancestor, TypeOK, Branches, Absent,
     references, worktree, job, kept, IMine, Grow, IPhase, IFinish, Requirement
<1>9. CASE Pull
  BY <1>9, BranchAssumption, SMTT(15) DEF Pull, Ancestor, TypeOK, Branches, Absent,
     references, worktree, job, kept, IMine, Grow, IPhase, IFinish, Requirement
<1>10. CASE LinkedCommit
  BY <1>10, BranchAssumption, SMTT(15) DEF LinkedCommit, TypeOK, Branches, Absent,
     references, worktree, job, kept, IMine, Grow, IPhase, IFinish, Requirement,
     Ancestor
<1>11. CASE Update
  BY <1>11, BranchAssumption, SMTT(15) DEF Update, Fetched, TypeOK, Branches, Absent,
     references, worktree, job, kept, IMine, Grow, IPhase, IFinish, Requirement,
     Ancestor
<1>12. ASSUME NEW b \in {Base, Task}, Push(b) PROVE IMine'
  BY <1>12, BranchAssumption, SMTT(15) DEF Push, Ancestor, TypeOK, Branches, Absent,
     references, worktree, job, kept, IMine, Grow, IPhase, IFinish, Requirement
<1>13. CASE UNCHANGED <<heads, tracking, mine>>
  BY <1>13 DEF IMine
<1>q. QED
  <2>1. ASSUME
          BeginStart \/ BeginFinish \/ BeginSave \/ Compare \/ Look \/ Verify \/
          Switch \/ Ask \/ Restore \/ Crash \/ Edit \/ StageEdit \/ Discard \/
          RemoteCommit \/ RemoteMerge \/ RemoteDelete \/ (\E b \in Branches :
          Checkout(b)) \/ (\E b \in {Base, Task, None} : LinkedCheckout(b))
        PROVE UNCHANGED <<heads, tracking, mine>>
    BY <2>1, Zenon DEF BeginStart, BeginFinish, BeginSave, StageAll, Compare, Look,
       Verify, Switch, Ask, Restore, Crash, Edit, StageEdit, Discard, RemoteCommit,
       RemoteMerge, RemoteDelete, Checkout, Witnessed, LinkedCheckout, references,
       worktree, job, kept
  <2>q. QED
    BY <1>1, <1>2, <1>3, <1>4, <1>5, <1>6, <1>7, <1>8, <1>9, <1>10, <1>11, <1>12, <1>13,
       <2>1 DEF Next, Command, Others

\* What finish has established stays true while it goes on.
LEMMA StepFinish ==
    ASSUME TypeOK, PolicySound, IRemote, IPhase, IFinish, Grow, Next, ~Leave
    PROVE  IFinish'
<1>1. CASE BeginStart
  BY <1>1, BranchAssumption, SMTT(15) DEF BeginStart, Resting, Reads, PolicySound,
     TypeOK, Branches, Absent, references, worktree, job, kept, Grow, IPhase, IFinish,
     Requirement, Ancestor
<1>2. CASE BeginFinish
  BY <1>2, BranchAssumption, SMTT(15) DEF BeginFinish, Resting, Reads, PolicySound,
     TypeOK, Branches, Absent, references, worktree, job, kept, Grow, IPhase, IFinish,
     Requirement, Ancestor
<1>3. CASE BeginSave
  BY <1>3, BranchAssumption, SMTT(15) DEF BeginSave, Resting, StageAll, Reads,
     PolicySound, TypeOK, Branches, Absent, references, worktree, job, kept, Grow,
     IPhase, IFinish, Requirement, Ancestor
<1>4. CASE Fetch
  BY <1>4, BranchAssumption, SMTT(15) DEF Fetch, Fetched, Go, PolicySound, TypeOK,
     Branches, Absent, references, worktree, job, kept, Grow, IPhase, IFinish,
     Requirement, Ancestor
<1>5. CASE Compare
  BY <1>5, BranchAssumption, SMTT(15) DEF Compare, OnBase, KnownBase, Afterwards,
     Ancestor, PolicySound, TypeOK, Branches, Absent, references, worktree, job, kept,
     Grow, IPhase, IFinish, Requirement
<1>6. CASE Forward
  BY <1>6, BranchAssumption, SMTT(15) DEF Forward, Ancestor, Follow, Go, PolicySound,
     TypeOK, Branches, Absent, references, worktree, job, kept, Grow, IPhase, IFinish,
     Requirement
<1>7. CASE Look
  BY <1>7, BranchAssumption, SMTT(15) DEF Look, CheckedOut, PolicySound, TypeOK,
     Branches, Absent, references, worktree, job, kept, Grow, IPhase, IFinish,
     Requirement, Ancestor
<1>8. CASE Move
  BY <1>8, BranchAssumption, SMTT(15) DEF Move, Afterwards, PolicySound, TypeOK,
     Branches, Absent, references, worktree, job, kept, Grow, IPhase, IFinish,
     Requirement, Ancestor
<1>9. CASE Create
  BY <1>9, BranchAssumption, SMTT(15) DEF Create, Follow, Go, PolicySound, TypeOK,
     Branches, Absent, references, worktree, job, kept, Grow, IPhase, IFinish,
     Requirement, Ancestor
<1>10. CASE Verify
  BY <1>10, BranchAssumption, SMTT(15) DEF Verify, Requirement, Ancestor, Go,
     PolicySound, TypeOK, Branches, Absent, references, worktree, job, kept, Grow,
     IPhase, IFinish
<1>11. CASE Switch
  BY <1>11, BranchAssumption, SMTT(15) DEF Switch, Follow, Go, PolicySound, TypeOK,
     Branches, Absent, references, worktree, job, kept, Grow, IPhase, IFinish,
     Requirement, Ancestor
<1>12. CASE Ask
  BY <1>12, BranchAssumption, SMTT(15) DEF Ask, CheckedOut, PolicySound, TypeOK,
     Branches, Absent, references, worktree, job, kept, Grow, IPhase, IFinish,
     Requirement, Ancestor
<1>13. CASE Delete
  BY <1>13, BranchAssumption, SMTT(15) DEF Delete, Go, PolicySound, TypeOK, Branches,
     Absent, references, worktree, job, kept, Grow, IPhase, IFinish, Requirement,
     Ancestor
<1>14. CASE CommitOnly
  BY <1>14, BranchAssumption, SMTT(15) DEF CommitOnly, Record, Go, PolicySound, TypeOK,
     Branches, Absent, references, worktree, job, kept, Grow, IPhase, IFinish,
     Requirement, Ancestor
<1>15. CASE Restore
  BY <1>15, BranchAssumption, SMTT(15) DEF Restore, PolicySound, TypeOK, Branches,
     Absent, references, worktree, job, kept, Grow, IPhase, IFinish, Requirement,
     Ancestor
<1>16. CASE Crash
  BY <1>16, BranchAssumption, SMTT(15) DEF Crash, Resting, PolicySound, TypeOK,
     Branches, Absent, references, worktree, job, kept, Grow, IPhase, IFinish,
     Requirement, Ancestor
<1>17. CASE UserCommit
  BY <1>17, BranchAssumption, SMTT(15) DEF UserCommit, Record, PolicySound, TypeOK,
     Branches, Absent, references, worktree, job, kept, Grow, IPhase, IFinish,
     Requirement, Ancestor
<1>18. CASE Merge
  BY <1>18, BranchAssumption, SMTT(15) DEF Merge, Ancestor, PolicySound, TypeOK,
     Branches, Absent, references, worktree, job, kept, Grow, IPhase, IFinish,
     Requirement
<1>19. CASE Pull
  BY <1>19, BranchAssumption, SMTT(15) DEF Pull, Ancestor, PolicySound, TypeOK,
     Branches, Absent, references, worktree, job, kept, Grow, IPhase, IFinish,
     Requirement
<1>20. CASE LinkedCommit
  BY <1>20, BranchAssumption, SMTT(15) DEF LinkedCommit, PolicySound, TypeOK, Branches,
     Absent, references, worktree, job, kept, Grow, IPhase, IFinish, Requirement,
     Ancestor
<1>21. CASE Update
  <2>1. Requirement \subseteq Requirement'
    BY <1>21, SMTT(15) DEF Update, Fetched, Requirement, IRemote, Branches, TypeOK, Absent
  <2>q. QED
    BY <1>21, <2>1, SMTT(15) DEF Update, IFinish, job, kept
<1>22. ASSUME NEW b \in Branches, Checkout(b) PROVE IFinish'
  BY <1>22, BranchAssumption, SMTT(15) DEF Checkout, Follow, Witnessed, Relies, OnBase,
     PolicySound, TypeOK, Branches, Absent, references, worktree, job, kept, Grow,
     IPhase, IFinish, Requirement, Ancestor
<1>23. ASSUME NEW b \in {Base, Task}, Push(b) PROVE IFinish'
  BY <1>23, BranchAssumption, SMTT(15) DEF Push, Ancestor, PolicySound, TypeOK,
     Branches, Absent, references, worktree, job, kept, Grow, IPhase, IFinish,
     Requirement
<1>24. ASSUME NEW b \in {Base, Task, None}, LinkedCheckout(b) PROVE IFinish'
  BY <1>24, BranchAssumption, SMTT(15) DEF LinkedCheckout, Witnessed, Relies, OnBase,
     PolicySound, TypeOK, Branches, Absent, references, worktree, job, kept, Grow,
     IPhase, IFinish, Requirement, Ancestor
<1>25. CASE UNCHANGED <<policy, heads, tracking, job>>
  BY <1>25 DEF IFinish, Requirement, job, kept
<1>q. QED
  <2>1. ASSUME
          Edit \/ StageEdit \/ Discard \/ RemoteCommit \/ RemoteMerge \/
          RemoteDelete
        PROVE UNCHANGED <<policy, heads, tracking, job>>
    BY <2>1, Zenon DEF Edit, StageEdit, Discard, RemoteCommit, RemoteMerge,
       RemoteDelete, references, worktree, job, kept
  <2>q. QED
    BY <1>1, <1>2, <1>3, <1>4, <1>5, <1>6, <1>7, <1>8, <1>9, <1>10, <1>11, <1>12, <1>13,
       <1>14, <1>15, <1>16, <1>17, <1>18, <1>19, <1>20, <1>21, <1>22, <1>23, <1>24,
       <1>25, <2>1 DEF Next, Command, Others

\* What start has established stays true while it goes on.
LEMMA StepStart ==
    ASSUME TypeOK, IRemote, IPhase, IStart, IWatch, Grow, Next, ~Leave
    PROVE  IStart'
<1>1. CASE BeginStart
  BY <1>1, BranchAssumption, SMTT(15) DEF BeginStart, Resting, Reads, TypeOK, Branches,
     Absent, references, worktree, job, kept, IRemote, Grow, IPhase, IStart, OnBase,
     Ancestor
<1>2. CASE BeginFinish
  BY <1>2, BranchAssumption, SMTT(15) DEF BeginFinish, Resting, Reads, TypeOK, Branches,
     Absent, references, worktree, job, kept, IRemote, Grow, IPhase, IStart, OnBase,
     Ancestor
<1>3. CASE BeginSave
  BY <1>3, BranchAssumption, SMTT(15) DEF BeginSave, Resting, StageAll, Reads, TypeOK,
     Branches, Absent, references, worktree, job, kept, IRemote, Grow, IPhase, IStart,
     OnBase, Ancestor
<1>4. CASE Fetch
  BY <1>4, BranchAssumption, SMTT(15) DEF Fetch, Fetched, Go, TypeOK, Branches, Absent,
     references, worktree, job, kept, IRemote, Grow, IPhase, IStart, OnBase, Ancestor
<1>5. CASE Compare
  BY <1>5, BranchAssumption, SMTT(15) DEF Compare, OnBase, KnownBase, Afterwards,
     Ancestor, TypeOK, Branches, Absent, references, worktree, job, kept, IRemote, Grow,
     IPhase, IStart
<1>6. CASE Forward
  <2>1. CASE heads[at] \subseteq tracking[Base] /\ heads' = [heads EXCEPT ![at] = tracking[Base]]
    BY <1>6, <2>1, BranchAssumption, SMTT(15) DEF Forward, Go, TypeOK, IStart, IPhase,
       OnBase, Branches, kept
  <2>2. CASE tracking[Base] \subseteq heads[at] /\ UNCHANGED heads
    BY <1>6, <2>2, BranchAssumption, SMTT(15) DEF Forward, Go, TypeOK, IStart, IPhase,
       OnBase, Branches, kept
  <2>q. QED BY <1>6, <2>1, <2>2 DEF Forward, Ancestor
<1>7. CASE Look
  BY <1>7, BranchAssumption, SMTT(15) DEF Look, CheckedOut, TypeOK, Branches, Absent,
     references, worktree, job, kept, IRemote, Grow, IPhase, IStart, OnBase, Ancestor
<1>8. CASE Move
  BY <1>8, BranchAssumption, SMTT(15) DEF Move, Afterwards, TypeOK, Branches, Absent,
     references, worktree, job, kept, IRemote, Grow, IPhase, IStart, OnBase, Ancestor
<1>9. CASE Create
  BY <1>9, BranchAssumption, SMTT(15) DEF Create, Follow, Go, TypeOK, Branches, Absent,
     references, worktree, job, kept, IRemote, Grow, IPhase, IStart, OnBase, Ancestor
<1>10. CASE Verify
  BY <1>10, BranchAssumption, SMTT(15) DEF Verify, Requirement, Ancestor, Go, TypeOK,
     Branches, Absent, references, worktree, job, kept, IRemote, Grow, IPhase, IStart,
     OnBase
<1>11. CASE Switch
  BY <1>11, BranchAssumption, SMTT(15) DEF Switch, Follow, Go, TypeOK, Branches, Absent,
     references, worktree, job, kept, IRemote, Grow, IPhase, IStart, OnBase, Ancestor
<1>12. CASE Ask
  BY <1>12, BranchAssumption, SMTT(15) DEF Ask, CheckedOut, TypeOK, Branches, Absent,
     references, worktree, job, kept, IRemote, Grow, IPhase, IStart, OnBase, Ancestor
<1>13. CASE Delete
  BY <1>13, BranchAssumption, SMTT(15) DEF Delete, Go, TypeOK, Branches, Absent,
     references, worktree, job, kept, IRemote, Grow, IPhase, IStart, OnBase, Ancestor
<1>14. CASE CommitOnly
  BY <1>14, BranchAssumption, SMTT(15) DEF CommitOnly, Record, Go, TypeOK, Branches,
     Absent, references, worktree, job, kept, IRemote, Grow, IPhase, IStart, OnBase,
     Ancestor
<1>15. CASE Restore
  BY <1>15, BranchAssumption, SMTT(15) DEF Restore, TypeOK, Branches, Absent,
     references, worktree, job, kept, IRemote, Grow, IPhase, IStart, OnBase, Ancestor
<1>16. CASE Crash
  BY <1>16, BranchAssumption, SMTT(15) DEF Crash, Resting, TypeOK, Branches, Absent,
     references, worktree, job, kept, IRemote, Grow, IPhase, IStart, OnBase, Ancestor
<1>17. CASE UserCommit
  BY <1>17, BranchAssumption, SMTT(15) DEF UserCommit, Record, TypeOK, Branches, Absent,
     references, worktree, job, kept, IRemote, Grow, IPhase, IStart, OnBase, Ancestor
<1>18. CASE Merge
  BY <1>18, BranchAssumption, SMTT(15) DEF Merge, Ancestor, TypeOK, Branches, Absent,
     references, worktree, job, kept, IRemote, Grow, IPhase, IStart, OnBase
<1>19. CASE Pull
  BY <1>19, BranchAssumption, SMTT(15) DEF Pull, Ancestor, TypeOK, Branches, Absent,
     references, worktree, job, kept, IRemote, Grow, IPhase, IStart, OnBase
<1>20. CASE LinkedCommit
  BY <1>20, BranchAssumption, SMTT(15) DEF LinkedCommit, TypeOK, Branches, Absent,
     references, worktree, job, kept, IRemote, Grow, IPhase, IStart, OnBase, Ancestor
<1>21. CASE Update
  BY <1>21, BranchAssumption, SMTT(15) DEF Update, Fetched, TypeOK, Branches, Absent,
     references, worktree, job, kept, IRemote, Grow, IPhase, IStart, OnBase, Ancestor
<1>22. ASSUME NEW b \in Branches, Checkout(b) PROVE IStart'
  BY <1>22, BranchAssumption, SMTT(15) DEF Checkout, Follow, Witnessed, Relies, OnBase,
     TypeOK, Branches, Absent, references, worktree, job, kept, IRemote, Grow, IPhase,
     IStart, Ancestor
<1>23. ASSUME NEW b \in {Base, Task}, Push(b) PROVE IStart'
  BY <1>23, BranchAssumption, SMTT(15) DEF Push, Ancestor, TypeOK, Branches, Absent,
     references, worktree, job, kept, IRemote, Grow, IPhase, IStart, OnBase
<1>24. ASSUME NEW b \in {Base, Task, None}, LinkedCheckout(b) PROVE IStart'
  BY <1>24, BranchAssumption, SMTT(15) DEF LinkedCheckout, Witnessed, Relies, OnBase,
     TypeOK, Branches, Absent, references, worktree, job, kept, IRemote, Grow, IPhase,
     IStart, Ancestor
<1>25. CASE UNCHANGED <<heads, tracking, at, job>>
  BY <1>25 DEF IStart, OnBase, job, kept
<1>q. QED
  <2>1. ASSUME
          Edit \/ StageEdit \/ Discard \/ RemoteCommit \/ RemoteMerge \/
          RemoteDelete
        PROVE UNCHANGED <<heads, tracking, at, job>>
    BY <2>1, Zenon DEF Edit, StageEdit, Discard, RemoteCommit, RemoteMerge,
       RemoteDelete, references, worktree, job, kept
  <2>q. QED
    BY <1>1, <1>2, <1>3, <1>4, <1>5, <1>6, <1>7, <1>8, <1>9, <1>10, <1>11, <1>12, <1>13,
       <1>14, <1>15, <1>16, <1>17, <1>18, <1>19, <1>20, <1>21, <1>22, <1>23, <1>24,
       <1>25, <2>1 DEF Next, Command, Others
-----------------------------------------------------------------------------
(* The theorems.                                                           *)

\* A repository as the commands find it satisfies the invariant.
LEMMA InitInv == Init => IInv
<1> SUFFICES ASSUME Init PROVE IInv
  OBVIOUS
<1> USE NumberAssumption, BranchAssumption
<1>1. {Root} \in Commit /\ {Root, Root + 1} \in Commit /\ {Root + 2} \in Commit
      /\ {Root} \cup {Root + 2} \in Commit /\ {Root} \cup {Root, Root + 1} \in Commit
      /\ Absent \in Commit
  BY DEF Commit, Absent
<1>2. /\ \A a, b, c \in Commit : Found(a, b, c) \in [Branches -> Commit]
      /\ \A a, b, c : Found(a, b, c)[Base] = a
      /\ \A a, b, c : Found(a, b, c)[Task] = b /\ Found(a, b, c)[Side] = c
  BY DEF Found, Branches
<1>3. PICK task \in {Absent, {Root, Root + 1}}, ahead \in {{}, {Root + 2}} :
          /\ heads = Found({Root}, task, {Root})
          /\ remote = Found(IF policy.remote THEN {Root} \cup ahead ELSE Absent, Absent, Absent)
          /\ mine = {Root} \cup task
  BY DEF Init
<1>4. task \in Commit /\ {Root} \cup ahead \in Commit /\ {Root} \cup task \in Commit
  BY <1>1 DEF Absent
<1>5. /\ heads \in [Branches -> Commit] /\ remote \in [Branches -> Commit]
      /\ tracking \in [Branches -> Commit]
  BY <1>1, <1>2, <1>3, <1>4 DEF Init
<1>6. TypeOK
  <2>1. JobType
    BY <1>1 DEF Init, JobType, Commands, Phases
  <2>2. /\ policy \in Policies /\ at \in Branches /\ linked \in Branches \cup {None}
        /\ index \in Files /\ tree \in Files /\ born \in Nat
    BY <1>1 DEF Init, Files, Branches
  <2>q. QED BY <1>3, <1>4, <1>5, <2>1, <2>2, TypeParts DEF RepositoryType
<1>7. IRemote
  <2>1. /\ remote[Base] = (IF policy.remote THEN {Root} \cup ahead ELSE Absent)
        /\ remote[Task] = Absent /\ remote[Side] = Absent
    BY <1>2, <1>3
  <2>2. tracking[Base] = (IF policy.remote THEN {Root} ELSE Absent)
    BY <1>2 DEF Init
  <2>q. QED
    BY <2>1, <2>2 DEF IRemote, Branches, Absent
<1>8. IMine
  BY <1>2, <1>3 DEF IMine
<1>9. IPhase /\ IFinish /\ IStart /\ IWatch
  BY DEF Init, IPhase, IFinish, IStart, IWatch
<1>q. QED BY <1>6, <1>7, <1>8, <1>9 DEF IInv

\* Every step keeps the invariant.
LEMMA NextInv == IInv /\ [Next]_vars => IInv'
<1> SUFFICES ASSUME IInv, [Next]_vars PROVE IInv'
  OBVIOUS
<1>1. CASE UNCHANGED vars
  <2>1. TypeOK' /\ IRemote' /\ IPhase' /\ IMine'
    BY <1>1 DEF IInv, vars, references, worktree, job, kept, TypeOK, IRemote, IPhase,
       OnBase, IMine
  <2>2. IFinish' /\ IStart' /\ IWatch'
    BY <1>1, SMTT(20) DEF IInv, vars, references, worktree, job, kept, IFinish, IStart,
       IWatch, OnBase, Requirement
  <2>q. QED BY <2>1, <2>2 DEF IInv
<1>2. CASE Next
  <2>1. JobType /\ RepositoryType /\ PolicySound
    BY TypeParts, PolicyIsSound DEF IInv
  <2>2. Grow /\ IRemote' /\ IMine'
    <3>1. Grow BY <1>2, StepGrow DEF IInv
    <3>2. IRemote' BY <1>2, StepRemote DEF IInv
    <3>q. QED BY <1>2, <2>1, <3>1, <3>2, StepMine DEF IInv
  <2>3. RepositoryType'
    BY <1>2, <2>1, StepRepository DEF IInv
  <2>4. JobType' /\ IPhase' /\ IFinish' /\ IStart' /\ IWatch'
    <3>1. CASE Leave BY <3>1, LeaveSettles
    <3>2. CASE ~Leave
      <4>1. JobType' BY <1>2, <2>1, <3>2, StepJob
      <4>2. IPhase' BY <1>2, <3>2, StepPhase DEF IInv
      <4>3. IFinish' BY <1>2, <2>1, <2>2, <3>2, StepFinish DEF IInv
      <4>4. IStart' BY <1>2, <2>2, <3>2, StepStart DEF IInv
      <4>5. IWatch' BY <1>2, <3>2, StepWatch DEF IInv
      <4>q. QED BY <4>1, <4>2, <4>3, <4>4, <4>5
    <3>q. QED BY <3>1, <3>2
  <2>5. TypeOK'
    <3>1. TypeOK' <=> JobType' /\ RepositoryType'
      BY DEF TypeOK, JobType, RepositoryType
    <3>q. QED BY <2>3, <2>4, <3>1
  <2>q. QED BY <2>2, <2>4, <2>5 DEF IInv
<1>q. QED BY <1>1, <1>2

\* The invariant holds in every reachable state.
THEOREM Inductive == Spec => []IInv
<1>q. QED
  BY InitInv, NextInv, PTL DEF Spec

\* Every variable keeps its type: a save restores an index that was read.
THEOREM TypeCorrect == Spec => []TypeOK
<1>1. IInv => TypeOK BY DEF IInv
<1>q. QED BY <1>1, Inductive, PTL

\* No commit made in this repository becomes unreachable, whatever runs beside finish.
THEOREM NothingIsLost == Spec => []NothingLost
<1>1. ASSUME IInv PROVE NothingLost
  <2>1. SUFFICES ASSUME NEW c \in mine
                 PROVE  \E b \in Branches : c \in heads[b] \cup tracking[b]
    BY DEF NothingLost
  <2>2. \E b \in {Base, Task, Side} : c \in heads[b] \cup tracking[b]
    BY <1>1 DEF IInv, IMine
  <2>q. QED BY <2>2 DEF Branches
<1>q. QED BY <1>1, Inductive, PTL

\* A start or finish that reports success tells the truth.
THEOREM ReportsAreTruthful == Spec => []ReportTruthful
<1>1. IInv => ReportTruthful
  BY DEF IInv, IFinish, IStart, ReportTruthful, Ancestor
<1>q. QED BY <1>1, Inductive, PTL

\* The step that WorktreeSafe speaks of
SafeStep ==
    job' # job =>
        /\ tree = Edited => tree' = Edited \/ born' # born
        /\ \A b \in Branches :
             heads[b] \notin {Absent, heads'[b]} /\ at # linked /\ watched = "seen" =>
              /\ b # linked
              /\ b = at /\ Clean => Clean'

\* Every step from a state of the invariant is safe for the worktrees.
LEMMA StepSafe ==
    ASSUME IInv, Next
    PROVE  SafeStep
<1> USE DEF SafeStep
<1>1. CASE Others
  <2>1. \/ UNCHANGED job
        \/ \E b \in Branches : Checkout(b)
        \/ \E b \in {Base, Task, None} : LinkedCheckout(b)
    BY <1>1, Zenon DEF Others, Edit, StageEdit, UserCommit, Discard, Merge, Pull,
       LinkedCommit,
       Update, RemoteCommit, RemoteMerge, RemoteDelete, Push
  <2>2. ASSUME NEW b \in Branches, Checkout(b) PROVE SafeStep
    BY <2>2, EditedAssumption DEF Checkout, Follow, Clean, Saved, IInv, TypeOK, references
  <2>3. ASSUME NEW b \in {Base, Task, None}, LinkedCheckout(b) PROVE SafeStep
    BY <2>3 DEF LinkedCheckout, references, worktree
  <2>q. QED BY <2>1, <2>2, <2>3
<1>2. CASE UNCHANGED <<heads, tree>>
  BY <1>2
<1>3. CASE Forward
  <2>1. heads[at] \in Commit /\ tracking[Base] \in Commit
    BY DEF IInv, TypeOK, Branches
  <2>2. tree = Edited => tree' = Edited
    BY <1>3, <2>1, EditedAssumption DEF Forward, Follow, Clean, Saved
  <2>3. ASSUME NEW b \in Branches, heads[b] \notin {Absent, heads'[b]}, at # linked
        PROVE  b # linked /\ (b = at /\ Clean => Clean')
    <3>1. heads' = [heads EXCEPT ![at] = tracking[Base]] /\ Follow(tracking[Base]) /\ at' = at
          /\ heads[at] # Absent /\ heads[at] \subseteq tracking[Base]
      BY <1>3, <2>3 DEF Forward, Ancestor
    <3>2. b = at /\ heads'[at] = tracking[Base] /\ tracking[Base] # Absent
      BY <2>3, <3>1 DEF IInv, TypeOK, Absent
    <3>q. QED BY <2>3, <3>1, <3>2 DEF Follow, Clean, Saved
  <2>q. QED BY <2>2, <2>3
<1>4. CASE Move
  BY <1>4 DEF Move, IInv, IWatch, TypeOK, Branches, worktree
<1>5. CASE Create
  <2>1. heads[Base] \in Commit /\ heads[at] \in Commit
    BY DEF IInv, TypeOK, Branches
  <2>2. tree = Edited => tree' = Edited
    BY <1>5, <2>1, EditedAssumption DEF Create, Follow, Clean, Saved, worktree
  <2>3. \A b \in Branches : heads[b] \in {Absent, heads'[b]}
    BY <1>5 DEF Create, IInv, TypeOK
  <2>q. QED BY <2>2, <2>3
<1>6. CASE Switch
  <2>1. heads[Base] \in Commit /\ heads[at] \in Commit
    BY DEF IInv, TypeOK, Branches
  <2>2. tree = Edited => tree' = Edited
    BY <1>6, <2>1, EditedAssumption DEF Switch, Follow, Clean, Saved, worktree
  <2>q. QED BY <1>6, <2>2 DEF Switch, references
<1>7. CASE Delete
  BY <1>7 DEF Delete, IInv, IWatch, TypeOK, Branches, worktree
<1>8. CASE CommitOnly
  <2>1. CASE Record /\ ~Saved
    BY <1>8, <2>1 DEF Record, CommitOnly, Clean, IInv, TypeOK
  <2>2. CASE UNCHANGED <<heads, tree>>
    BY <2>2
  <2>q. QED BY <1>8, <2>1, <2>2 DEF CommitOnly
<1>q. QED
  <2>1. ASSUME BeginStart \/ BeginFinish \/ BeginSave \/ Fetch \/ Compare \/ Look \/ Verify
               \/ Ask \/ Restore \/ Crash
        PROVE  UNCHANGED <<heads, tree>>
    BY <2>1 DEF BeginStart, BeginFinish, BeginSave, StageAll, Fetch, Compare, Look,
       Verify, Ask, Restore, Crash, references, worktree
  <2>q. QED BY <1>1, <1>2, <1>3, <1>4, <1>5, <1>6, <1>7, <1>8, <2>1 DEF Next, Command

\* No command loses an edit or moves a branch under a worktree.
THEOREM WorktreesAreSafe == Spec => WorktreeSafe
<1>1. IInv /\ [Next]_vars => [SafeStep]_vars
  BY StepSafe
<1>q. QED BY <1>1, Inductive, PTL DEF Spec, WorktreeSafe, SafeStep
=============================================================================
