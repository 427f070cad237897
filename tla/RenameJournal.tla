---------------------------- MODULE RenameJournal ----------------------------
(***************************************************************************)
(* The recoverable journal behind every multi-file metadata write of ESKA: *)
(* a rename (files rewritten, then descriptor and payload moved) or a      *)
(* linked property edit (files rewritten only).                            *)
(*                                                                         *)
(* Source: eska-project-core, project/metadata_rename/transaction.rs with  *)
(* its submodules recovery.rs, properties.rs and io.rs, and the file       *)
(* replacement of project/metadata_edit/write.rs.                          *)
(*                                                                         *)
(* One step of the specification is one file-system operation, so a crash  *)
(* or an outside editor can come between any two of them.  The bytes of a  *)
(* member are "old", "new" or "foreign"; an operation takes the source     *)
(* from Base to goal, and a later operation (undo) takes it back.          *)
(***************************************************************************)
EXTENDS Naturals, FiniteSets

CONSTANTS
    Writers,    \* processes that write metadata of one project
    NFiles,     \* members whose bytes the journal replaces
    NMoves,     \* paths the journal moves; 0 for a property journal
    Carrier,    \* Carrier[f] is the move that carries file f, 0 for none
    Kind,       \* "rename" or "property"
    MaxFaults,  \* bound on crashes and I/O errors
    MaxEdits,   \* bound on source edits made outside the journal
    NoOne       \* no writer holds the lock

Files == 1..NFiles
Moves == 1..NMoves

ASSUME JournalAssumption ==
    /\ NFiles \in Nat \ {0}
    /\ NMoves \in Nat
    /\ MaxFaults \in Nat
    /\ MaxEdits \in Nat
    /\ Carrier \in [Files -> Moves \cup {0}]
    /\ Kind \in {"rename", "property"}
    /\ Kind = "property" => NMoves = 0
    /\ NoOne \notin Writers

VARIABLES
    \* the project source
    file,       \* bytes of each member, wherever its move has taken it
    loc,        \* name under which each moved path is found
    payload,    \* the members of a moved directory the plan does not touch
    clash,      \* an outsider occupies the other name of a move
    \* .eska/metadata/rename
    dir,        \* the directory exists
    staged,     \* members with both <i>.before and <i>.after on disk
    entries,    \* the other entries of the directory
    goal,       \* the version the journal publishes (journal.json)
    decided,    \* text of the finished marker
    \* the writer that holds write.lock
    holder, op, pc, mode, idx, verdict, result,
    \* clients of the recovery command
    token,      \* what each writer's client last inspected
    \* history
    touched,    \* an outsider changed the source since the plan was made
    racedFiles, \* files edited between the last check and the rename
    racedMoves, \* move targets created in the same window
    faults, edits

source  == <<file, loc, payload, clash>>
store   == <<dir, staged, entries, goal, decided>>
process == <<holder, op, pc, mode, idx, verdict, result>>
history == <<touched, racedFiles, racedMoves, faults, edits>>
vars    == <<source, store, process, token, history>>

Versions == {"old", "new"}
Base     == IF goal = "new" THEN "old" ELSE "new"

EntryNames   == {"ready", "journal.json", "finish.tmp", "publish.tmp", "finished"}
CleanupOrder == <<"ready", "journal.json", "finish.tmp", "publish.tmp", "finished">>
DiscardOrder == <<"ready", "finish.tmp", "finished", "journal.json", "publish.tmp">>

(***************************************************************************)
(* What recovery reads from the disk.                                      *)
(***************************************************************************)

\* The digest of a moved payload equals the one the journal recorded.
PayloadMatches(m) ==
    /\ payload[m] = "own"
    /\ \A f \in Files : Carrier[f] = m => file[f] = goal

\* Mutant: compares the digest of a payload that was never moved.
MoveConflictEager(m) == clash[m] \/ ~PayloadMatches(m)

MoveConflict(m) == clash[m] \/ (loc[m] = goal /\ ~PayloadMatches(m))

\* current_path fails when both names exist; otherwise the bytes decide.
FileConflict(f) ==
    \/ file[f] = "foreign"
    \/ Carrier[f] # 0 /\ clash[Carrier[f]]

Conflicts == {f \in Files : FileConflict(f)} # {} \/ {m \in Moves : MoveConflict(m)} # {}

Pending   == dir
\* Mutant: the marker is never recognised as a committed one.
CommittedUnread == FALSE

Committed == "finished" \in entries /\ decided = "committed"
Restored  == "finished" \in entries /\ decided = "rolled_back"
Loadable  == "ready" \in entries

\* tree_hash of the journal directory: equal exactly when its contents are.
Snapshot ==
    [staged  |-> staged, entries |-> entries,
     goal    |-> IF staged # {} \/ "journal.json" \in entries THEN goal ELSE "none",
     decided |-> IF "finished" \in entries THEN decided ELSE "none"]
NoToken  == [staged |-> {}, entries |-> {}, goal |-> "none", decided |-> "absent"]

SourceIs(v) ==
    /\ \A f \in Files : file[f] = v
    /\ \A m \in Moves : loc[m] = v /\ payload[m] = "own" /\ ~clash[m]

-----------------------------------------------------------------------------
Init ==
    /\ file = [f \in Files |-> "old"]
    /\ loc = [m \in Moves |-> "old"]
    /\ payload = [m \in Moves |-> "own"]
    /\ clash = [m \in Moves |-> FALSE]
    /\ dir = FALSE /\ staged = {} /\ entries = {} /\ goal = "old" /\ decided = "none"
    /\ holder = NoOne /\ op = "none" /\ pc = "idle" /\ mode = "forward"
    /\ idx = 0 /\ verdict = "none" /\ result = "none"
    /\ token = [w \in Writers |-> NoToken]
    /\ touched = FALSE /\ racedFiles = {} /\ racedMoves = {} /\ faults = 0 /\ edits = 0

Goto(step) == pc' = step

\* Dropping the Guard unlocks write.lock; the caller sees the outcome.
Release(outcome) ==
    /\ holder' = NoOne /\ pc' = "idle" /\ result' = outcome
    /\ UNCHANGED <<op, mode, idx, verdict>>

\* A failure while restoring keeps the journal for the next recovery.
KeepJournal == Release(IF op = "publish" THEN "required" ELSE "error")

Fault == faults < MaxFaults /\ faults' = faults + 1 /\ UNCHANGED <<touched, racedFiles, racedMoves, edits>>

-----------------------------------------------------------------------------
(* Guard::acquire: try_lock never waits, a busy lock is an error.          *)

Acquire(w, what) ==
    /\ holder = NoOne
    /\ holder' = w /\ op' = what /\ result' = "none" /\ verdict' = "none"
    /\ Goto(IF what = "recover" THEN "recheck" ELSE "clear")
    /\ UNCHANGED <<source, store, mode, idx, token>>

BeginPublish(w) == Acquire(w, "publish") /\ UNCHANGED history
BeginRecover(w) == token[w] # NoToken /\ Acquire(w, "recover") /\ UNCHANGED history

\* A property edit of one file, published without a journal.
BeginScalar(w) ==
    /\ edits < MaxEdits /\ edits' = edits + 1
    /\ Acquire(w, "scalar")
    /\ UNCHANGED <<touched, racedFiles, racedMoves, faults>>

\* The inspect action: recovery_status under the lock, without any write.
Inspect(w) ==
    /\ holder = NoOne
    /\ token' = [token EXCEPT ![w] = IF Pending THEN Snapshot ELSE NoToken]
    /\ token' # token
    /\ UNCHANGED <<source, store, process, history>>

-----------------------------------------------------------------------------
(* Guard::check_clear: a decided journal is removed, an undecided one      *)
(* refuses the write.                                                      *)

CheckClear ==
    /\ pc = "clear"
    /\ \/ ~Pending /\ Goto("plan") /\ UNCHANGED <<holder, op, mode, idx, verdict, result>>
       \/ /\ Pending /\ (Committed \/ Restored)
          /\ verdict' = "clear"
          /\ Goto(IF Loadable THEN "cleanup" ELSE "discard")
          /\ UNCHANGED <<holder, op, mode, idx, result>>
       \/ Pending /\ ~Committed /\ ~Restored /\ Release("required")
    /\ UNCHANGED <<source, store, token, history>>

\* The plan is rebuilt from the bytes on disk, then the directory created.
CreateJournal ==
    /\ pc = "plan" /\ op = "publish"
    /\ \E v \in Versions :
         /\ SourceIs(v)
         /\ goal' = IF v = "old" THEN "new" ELSE "old"
    /\ dir' = TRUE /\ decided' = "none"
    /\ touched' = FALSE /\ racedFiles' = {} /\ racedMoves' = {}
    /\ Goto("stage") /\ idx' = 1 /\ verdict' = "none"
    /\ UNCHANGED <<source, staged, entries, holder, op, mode, result, token, faults, edits>>

\* The source holds outside bytes no plan of this model describes.
RefusePlan ==
    /\ pc = "plan"
    /\ IF op = "publish"
         THEN \A v \in Versions : ~SourceIs(v)
         ELSE \A f \in Files : file[f] = "foreign"
    /\ Release("error")
    /\ UNCHANGED <<source, store, token, history>>

\* The scalar writer compares, stages its own temporary file, compares again
\* and renames; to a journal its bytes are as unknown as an outsider's.
PlanScalar ==
    /\ pc = "plan" /\ op = "scalar"
    /\ \E f \in Files : file[f] # "foreign" /\ idx' = f
    /\ Goto("scalar")
    /\ UNCHANGED <<source, store, holder, op, mode, verdict, result, token, history>>

SwapScalar ==
    /\ pc = "scalar"
    /\ IF file[idx] = "foreign"
         THEN Release("error") /\ UNCHANGED file
         ELSE Release("ok") /\ file' = [file EXCEPT ![idx] = "foreign"]
    /\ UNCHANGED <<loc, payload, clash, store, token, history>>

-----------------------------------------------------------------------------
(* Guard::prepare / prepare_properties and Journal::make_ready.            *)

StageFile ==
    /\ pc = "stage" /\ idx \in Files
    /\ IF file[idx] = Base
         THEN staged' = staged \cup {idx} /\ idx' = idx + 1 /\ UNCHANGED pc
         ELSE Goto("discard") /\ UNCHANGED <<staged, idx>>
    /\ UNCHANGED <<source, dir, entries, goal, decided, holder, op, mode, verdict, result,
                   token, history>>

\* Every destination must be free before the manifest is written.
StageMoves ==
    /\ pc = "stage" /\ idx = NFiles + 1
    /\ IF \E m \in Moves : clash[m]
         THEN Goto("discard") /\ UNCHANGED entries
         ELSE entries' = entries \cup {"journal.json"} /\ Goto("ready")
    /\ UNCHANGED <<source, dir, staged, goal, decided, holder, op, mode, idx, verdict, result,
                   token, history>>

MakeReady ==
    /\ pc = "ready"
    /\ entries' = entries \cup {"ready"}
    /\ Goto("review")
    /\ UNCHANGED <<source, dir, staged, goal, decided, holder, op, mode, idx, verdict, result,
                   token, history>>

\* Guard::inverse compares the inventory of the whole source with the plan;
\* a property journal runs the caller's `before` check instead.
ReviewPasses ==
    /\ pc = "review"
    /\ Kind = "rename" => SourceIs(Base)
    /\ Goto("file") /\ mode' = "forward" /\ idx' = 1
    /\ UNCHANGED <<source, store, holder, op, verdict, result, token, history>>

ReviewFails ==
    /\ pc = "review"
    /\ IF Kind = "rename"
         THEN ~SourceIs(Base) /\ Goto("finish") /\ verdict' = "rolled_back"
         ELSE Goto("discard") /\ UNCHANGED verdict
    /\ UNCHANGED <<source, store, holder, op, mode, idx, result, token, history>>

-----------------------------------------------------------------------------
(* publish_bytes: compare, write publish.tmp, compare again, rename.  The  *)
(* journal publishes forward and restores backward with the same writer.   *)

Expected == IF mode = "forward" THEN Base ELSE goal
Wanted   == IF mode = "forward" THEN goal ELSE Base
\* Mutant: a restoration also counts upwards.
StepUpwards(i) == i + 1
Step(i)  == IF mode = "forward" THEN i + 1 ELSE i - 1

\* A refused write: publication rolls back, a restoration gives up and keeps
\* the journal.  `Temporary` removes the publish.tmp of this write.
GiveUp ==
    IF mode = "forward"
      THEN Goto("rollback") /\ UNCHANGED <<holder, op, mode, idx, verdict, result>>
      ELSE KeepJournal
Refuse == GiveUp /\ entries' = entries \ {"publish.tmp"}

\* rollback skips a member that already holds its original bytes.
SkipRestored ==
    /\ pc = "file" /\ mode = "backward" /\ idx \in Files
    /\ file[idx] = Base
    /\ idx' = Step(idx)
    /\ UNCHANGED <<source, store, holder, op, pc, mode, verdict, result, token, history>>

StageReplacement ==
    /\ pc = "file" /\ idx \in Files
    /\ mode = "backward" => file[idx] # Base
    /\ LET writable == file[idx] = Expected /\ "publish.tmp" \notin entries IN
       \/ /\ writable /\ entries' = entries \cup {"publish.tmp"}
          /\ Goto("compare") /\ UNCHANGED <<holder, op, mode, idx, verdict, result>>
       \/ ~writable /\ GiveUp /\ UNCHANGED entries
    /\ UNCHANGED <<source, dir, staged, goal, decided, token, history>>

\* Mutant: the bytes are compared only before the temporary file is written.
CompareOnce ==
    /\ pc = "compare" /\ Goto("swap")
    /\ UNCHANGED <<source, store, holder, op, mode, idx, verdict, result, token, history>>

CompareAgain ==
    /\ pc = "compare"
    /\ \/ /\ file[idx] = Expected
          /\ Goto("swap") /\ UNCHANGED <<entries, holder, op, mode, idx, verdict, result>>
       \/ file[idx] # Expected /\ Refuse
    /\ UNCHANGED <<source, dir, staged, goal, decided, token, history>>

SwapFile ==
    /\ pc = "swap"
    /\ file' = [file EXCEPT ![idx] = Wanted]
    /\ entries' = entries \ {"publish.tmp"}
    /\ Goto("file") /\ idx' = Step(idx)
    /\ UNCHANGED <<loc, payload, clash, dir, staged, goal, decided, holder, op, mode, verdict,
                   result, token, history>>

\* After the last file: forward continues with the moves, backward has
\* restored everything and records it.
FilesDone ==
    /\ pc = "file" /\ idx \notin Files
    /\ IF mode = "forward"
         THEN Goto("move") /\ idx' = 1 /\ UNCHANGED verdict
         ELSE Goto("finish") /\ verdict' = "rolled_back" /\ UNCHANGED idx
    /\ UNCHANGED <<source, store, holder, op, mode, result, token, history>>

-----------------------------------------------------------------------------
(* move_path: the target must be free and the payload must be the recorded *)
(* one; the rename follows.                                                *)

\* rollback undoes only the moves whose destination exists.
SkipUnmoved ==
    /\ pc = "move" /\ mode = "backward" /\ idx \in Moves
    /\ loc[idx] # goal /\ ~clash[idx]
    /\ idx' = Step(idx)
    /\ UNCHANGED <<source, store, holder, op, pc, mode, verdict, result, token, history>>

CheckMove ==
    /\ pc = "move" /\ idx \in Moves
    /\ mode = "backward" => (loc[idx] = goal \/ clash[idx])
    /\ LET movable == ~clash[idx] /\ PayloadMatches(idx) IN
       \/ movable /\ Goto("moveswap") /\ UNCHANGED <<holder, op, mode, idx, verdict, result>>
       \/ ~movable /\ GiveUp
    /\ UNCHANGED <<source, store, token, history>>

\* A target created after the check is replaced when the platform allows it
\* (a file over a file) and refused otherwise (a directory that is not empty).
SwapMove ==
    /\ pc = "moveswap"
    /\ \/ /\ loc' = [loc EXCEPT ![idx] = Wanted]
          /\ clash' = [clash EXCEPT ![idx] = FALSE]
          /\ Goto("move") /\ idx' = Step(idx)
          /\ UNCHANGED <<holder, op, mode, verdict, result>>
       \/ clash[idx] /\ GiveUp /\ UNCHANGED <<loc, clash>>
    /\ UNCHANGED <<file, payload, store, token, history>>

MovesDone ==
    /\ pc = "move" /\ idx \notin Moves
    /\ IF mode = "forward"
         THEN Goto("verify") /\ UNCHANGED idx
         ELSE Goto("file") /\ idx' = NFiles
    /\ UNCHANGED <<source, store, holder, op, mode, verdict, result, token, history>>

-----------------------------------------------------------------------------
(* commit_checked: the caller's check after publication, then finish.      *)

VerifyPasses ==
    /\ pc = "verify"
    /\ Goto("finish") /\ verdict' = "committed"
    /\ UNCHANGED <<source, store, holder, op, mode, idx, result, token, history>>

\* Mutant: a failed check drops the journal without restoring the source.
VerifyFailsDiscards ==
    /\ pc = "verify" /\ Kind = "property"
    /\ Goto("discard")
    /\ UNCHANGED <<source, store, holder, op, mode, idx, verdict, result, token, history>>

\* Only a linked property edit has a check that can fail here.
VerifyFails ==
    /\ pc = "verify" /\ Kind = "property"
    /\ Goto("rollback")
    /\ UNCHANGED <<source, store, holder, op, mode, idx, verdict, result, token, history>>

WriteMarker ==
    /\ pc = "finish"
    /\ entries' = entries \cup {"finish.tmp"}
    /\ Goto("decide")
    /\ UNCHANGED <<source, dir, staged, goal, decided, holder, op, mode, idx, verdict, result,
                   token, history>>

\* The rename of finish.tmp is the decision; an existing marker is an error.
Decide ==
    /\ pc = "decide"
    /\ IF "finished" \in entries
         THEN Release("required") /\ UNCHANGED <<entries, decided>>
         ELSE /\ entries' = (entries \ {"finish.tmp"}) \cup {"finished"}
              /\ decided' = verdict
              /\ Goto("cleanup")
              /\ UNCHANGED <<holder, op, mode, idx, verdict, result>>
    /\ UNCHANGED <<source, dir, staged, goal, token, history>>

-----------------------------------------------------------------------------
(* Guard::recover and Guard::rollback.                                     *)

\* The inspected token must still describe the journal, and no source may
\* conflict, before anything is restored.
Recheck ==
    /\ pc = "recheck"
    /\ LET conflicting == ~Committed /\ ~Restored /\ Loadable /\ Conflicts IN
       \/ /\ Pending /\ Snapshot = token[holder] /\ ~conflicting
          /\ Goto(IF ~Loadable THEN "discard"
                  ELSE IF Committed \/ Restored THEN "cleanup" ELSE "rollback")
          /\ UNCHANGED <<holder, op, mode, idx, verdict, result>>
       \/ (~Pending \/ Snapshot # token[holder] \/ conflicting) /\ Release("error")
    /\ UNCHANGED <<source, store, token, history>>

\* Mutant: the temporary file of a killed publication is left behind.
RollbackKeepsTemporary ==
    /\ pc = "rollback" /\ ~Conflicts
    /\ Goto("move") /\ mode' = "backward" /\ idx' = NMoves
    /\ UNCHANGED <<source, store, holder, op, verdict, result, token, history>>

Rollback ==
    /\ pc = "rollback"
    /\ IF Conflicts
         THEN KeepJournal /\ UNCHANGED entries
         ELSE /\ entries' = entries \ {"publish.tmp"}
              /\ Goto("move") /\ mode' = "backward" /\ idx' = NMoves
              /\ UNCHANGED <<holder, op, verdict, result>>
    /\ UNCHANGED <<source, dir, staged, goal, decided, token, history>>

-----------------------------------------------------------------------------
(* Guard::cleanup removes the declared entries in its order, the marker    *)
(* last; cleanup_preparation removes `ready` first.                        *)

RemoveFirst(order) ==
    \E k \in DOMAIN order :
        /\ order[k] \in entries
        /\ \A j \in 1..(k - 1) : order[j] \notin entries
        /\ entries' = entries \ {order[k]}

\* Members go in index order.
RemoveMember ==
    \E f \in staged :
        /\ \A g \in staged : f <= g
        /\ staged' = staged \ {f}

CleanupStep ==
    /\ pc = "cleanup"
    /\ \/ staged # {} /\ RemoveMember /\ UNCHANGED entries
       \/ staged = {} /\ RemoveFirst(CleanupOrder) /\ UNCHANGED staged
    /\ UNCHANGED <<source, dir, goal, decided, process, token, history>>

DiscardStep ==
    /\ pc = "discard"
    /\ IF "ready" \in entries \/ staged = {}
         THEN RemoveFirst(DiscardOrder) /\ UNCHANGED staged
         ELSE RemoveMember /\ UNCHANGED entries
    /\ UNCHANGED <<source, dir, goal, decided, process, token, history>>

\* What the caller learns once the directory is gone, or cannot be removed.
Outcome == IF op = "recover" \/ verdict = "committed" THEN "ok" ELSE "error"

RemoveDirectory ==
    /\ pc \in {"cleanup", "discard"} /\ staged = {} /\ entries = {}
    /\ dir' = FALSE /\ decided' = "none"
    /\ IF verdict = "clear"
         THEN Goto("plan") /\ UNCHANGED <<holder, op, mode, idx, verdict, result>>
         ELSE Release(Outcome)
    /\ UNCHANGED <<source, staged, entries, goal, token, history>>

-----------------------------------------------------------------------------
(* Failures: any file-system call may fail, and any process may die.       *)

\* Where the error of a failed operation leads, per step that makes one.
IoFails ==
    /\ Fault
    /\ \/ /\ pc \in {"clear", "plan", "recheck", "scalar"}
          /\ Release("error") /\ UNCHANGED entries
       \/ /\ pc \in {"stage", "ready"} \/ (pc = "review" /\ Kind = "property")
          /\ Goto("discard")
          /\ UNCHANGED <<entries, holder, op, mode, idx, verdict, result>>
       \/ /\ pc = "review" /\ Kind = "rename"
          /\ Goto("finish") /\ verdict' = "rolled_back"
          /\ UNCHANGED <<entries, holder, op, mode, idx, result>>
       \/ pc \in {"file", "compare", "swap", "move", "moveswap"} /\ Refuse
       \/ /\ pc = "verify" \/ (pc \in {"finish", "decide"} /\ verdict = "committed")
          /\ Goto("rollback")
          /\ UNCHANGED <<entries, holder, op, mode, idx, verdict, result>>
       \/ /\ pc = "rollback" \/ (pc \in {"finish", "decide"} /\ verdict = "rolled_back")
          /\ KeepJournal /\ UNCHANGED entries
       \/ /\ pc \in {"cleanup", "discard"}
          /\ Release(IF verdict = "committed" THEN "ok" ELSE "error") /\ UNCHANGED entries
    /\ UNCHANGED <<source, dir, staged, goal, decided, token>>

\* The process dies: the lock is free, everything on disk stays as it is.
Crash ==
    /\ Fault /\ holder # NoOne
    /\ Release("crashed")
    /\ UNCHANGED <<source, store, token>>

-----------------------------------------------------------------------------
(* Editors and version control write the same source without the lock.     *)

Outside ==
    /\ edits < MaxEdits /\ edits' = edits + 1
    /\ touched' = TRUE
    /\ UNCHANGED <<store, process, token, faults>>

ForeignEdit(f) ==
    /\ file[f] # "foreign"
    /\ file' = [file EXCEPT ![f] = "foreign"]
    /\ racedFiles' = IF pc = "swap" /\ idx = f THEN racedFiles \cup {f} ELSE racedFiles
    /\ Outside
    /\ UNCHANGED <<loc, payload, clash, racedMoves>>

ForeignClash(m) ==
    /\ ~clash[m]
    /\ clash' = [clash EXCEPT ![m] = TRUE]
    /\ racedMoves' = IF pc = "moveswap" /\ idx = m THEN racedMoves \cup {m} ELSE racedMoves
    /\ Outside
    /\ UNCHANGED <<file, loc, payload, racedFiles>>

ForeignPayload(m) ==
    /\ payload[m] = "own"
    /\ payload' = [payload EXCEPT ![m] = "foreign"]
    /\ Outside
    /\ UNCHANGED <<file, loc, clash, racedFiles, racedMoves>>

\* The user resolves a reported conflict by hand before retrying recovery.
Resolve ==
    /\ Pending /\ holder = NoOne /\ Outside /\ UNCHANGED <<racedFiles, racedMoves>>
    /\ \/ /\ \E f \in Files, v \in Versions :
               file[f] = "foreign" /\ file' = [file EXCEPT ![f] = v]
          /\ UNCHANGED <<loc, payload, clash>>
       \/ /\ \E m \in Moves : clash[m] /\ clash' = [clash EXCEPT ![m] = FALSE]
          /\ UNCHANGED <<file, loc, payload>>
       \/ /\ \E m \in Moves :
               payload[m] = "foreign" /\ payload' = [payload EXCEPT ![m] = "own"]
          /\ UNCHANGED <<file, loc, clash>>

-----------------------------------------------------------------------------
\* One step of the process that holds the lock.
Prepare  == CheckClear \/ CreateJournal \/ RefusePlan \/ PlanScalar \/ SwapScalar
            \/ StageFile \/ StageMoves \/ MakeReady \/ ReviewPasses \/ ReviewFails
Publish  == SkipRestored \/ StageReplacement \/ CompareAgain \/ SwapFile \/ FilesDone
            \/ SkipUnmoved \/ CheckMove \/ SwapMove \/ MovesDone
Conclude == VerifyPasses \/ VerifyFails \/ WriteMarker \/ Decide \/ Recheck \/ Rollback
            \/ CleanupStep \/ DiscardStep \/ RemoveDirectory
Work     == Prepare \/ Publish \/ Conclude

Begin(w) == BeginPublish(w) \/ BeginScalar(w) \/ BeginRecover(w) \/ Inspect(w)

Others ==
    \/ IoFails \/ Crash \/ Resolve
    \/ \E f \in Files : ForeignEdit(f)
    \/ \E m \in Moves : ForeignClash(m) \/ ForeignPayload(m)

Next == (\E w \in Writers : Begin(w)) \/ Work \/ Others

Spec == Init /\ [][Next]_vars

\* A live process keeps running, and a user who retries meets a free lock in
\* the end: inspection and recovery are tried again until they are admitted.
Fairness ==
    /\ WF_vars(Work)
    /\ \A w \in Writers : SF_vars(Inspect(w)) /\ SF_vars(BeginRecover(w))
FairSpec == Spec /\ Fairness

-----------------------------------------------------------------------------
(***************************************************************************)
(* Properties.                                                             *)
(***************************************************************************)

PcValues == {"idle", "clear", "recheck", "plan", "scalar", "stage", "ready", "review", "file",
             "compare", "swap", "move", "moveswap", "verify", "finish", "decide", "rollback",
             "cleanup", "discard"}

TypeFlags == dir \in BOOLEAN /\ touched \in BOOLEAN /\ clash \in [Moves -> BOOLEAN]

TypeData ==
    /\ file \in [Files -> Versions \cup {"foreign"}]
    /\ loc \in [Moves -> Versions]
    /\ payload \in [Moves -> {"own", "foreign"}]
    /\ goal \in Versions /\ decided \in {"none", "committed", "rolled_back"}
    /\ holder \in Writers \cup {NoOne} /\ pc \in PcValues
    /\ (holder = NoOne) <=> (pc = "idle")
    /\ op \in {"none", "publish", "scalar", "recover"} /\ mode \in {"forward", "backward"}
    /\ idx \in Nat
    /\ pc \in {"scalar", "compare", "swap"} => idx \in Files
    /\ pc = "moveswap" => idx \in Moves
    /\ pc \in {"finish", "decide"} => verdict \in {"committed", "rolled_back"}
    /\ verdict \in {"none", "clear", "committed", "rolled_back"}
    /\ result \in {"none", "ok", "error", "required", "crashed"}
    /\ faults \in Nat /\ edits \in Nat

TypeSets ==
    /\ staged \subseteq Files /\ entries \subseteq EntryNames
    /\ racedFiles \subseteq Files /\ racedMoves \subseteq Moves

\* Every variable keeps its type, and the lock is free exactly while nothing
\* runs: the journal's callers all return through Release.
TypeOK == TypeFlags /\ TypeSets /\ TypeData

Undecided == Pending /\ "finished" \notin entries

\* The bytes and names of the source are not those of a single version.
Mixed == ~SourceIs("old") /\ ~SourceIs("new")

\* Write-ahead: the source is only ever between two versions while a journal
\* that can restore all of it is complete on disk and undecided.  A crash at
\* any step then leaves either an untouched source or a usable journal.
WriteAhead ==
    Mixed /\ edits = 0 =>
        /\ Undecided /\ Loadable
        /\ "journal.json" \in entries /\ staged = Files

\* Whatever step a crash or failure interrupts, also in the middle of another
\* recovery, the conflict check of the next recovery finds nothing to object
\* to as long as no one else changed the source.
Recoverable == Undecided /\ Loadable /\ ~touched => ~Conflicts

\* Only members replaced in the documented window between the last comparison
\* and the rename can lose bytes the journal did not write; every other
\* outside edit survives publication, rollback and recovery.
PreservesOutside ==
    [][edits' = edits =>
         /\ \A f \in Files : file[f] = "foreign" /\ file'[f] # "foreign" => f \in racedFiles
         /\ \A m \in Moves : clash[m] /\ ~clash'[m] => m \in racedMoves]_vars

\* Once the marker is on disk the decision stands: later steps of any writer,
\* recovery included, remove the journal and leave the source alone.
DecisionStands ==
    [][Pending /\ "finished" \in entries /\ edits' = edits => UNCHANGED source]_vars

\* Every interrupted operation is settled once a user keeps asking for
\* recovery: no leftover of the journal blocks its own restoration.
Settles == Pending ~> ~Pending

\* The version every interruption ends in: the one recovery will restore, or
\* the one the source is.
Value == IF Undecided /\ Loadable THEN Base
         ELSE IF SourceIs("old") THEN "old"
         ELSE IF SourceIs("new") THEN "new" ELSE "mixed"

\* What the writer that holds the lock may still tell its caller.
Phase == IF holder = NoOne THEN "idle"
         ELSE IF op # "publish" THEN "recovering"
         ELSE IF pc = "cleanup" /\ verdict = "committed" THEN "committed" ELSE "open"

\* The journal implements an atomic edit: the version recovery will end in
\* changes only when the marker decides, and every answer is honest about it.
Atomic == INSTANCE AtomicEdit WITH
    Unknown <- {"crashed"}, value <- Value, phase <- Phase, answer <- result

AtomicSpec == Atomic!Spec

-----------------------------------------------------------------------------
(***************************************************************************)
(* The inductive invariant behind the safety properties: what the disk     *)
(* holds, where each step of the program may find it, and how far the      *)
(* source is between the two versions.                                     *)
(***************************************************************************)

\* Steps of a writer that works on a complete, undecided journal.
Active == {"review", "file", "compare", "swap", "move", "moveswap", "verify", "finish", "decide",
           "rollback"}

IDisk ==
    /\ ~dir => staged = {} /\ entries = {}
    /\ Loadable => "journal.json" \in entries
    /\ Loadable /\ "finished" \notin entries => staged = Files
    /\ "finished" \in entries => decided # "none"

IControl ==
    /\ pc \in {"plan", "scalar"} => ~dir
    /\ pc \in Active \cup {"stage", "ready", "cleanup", "discard"} => dir
    /\ pc \in {"stage", "ready"} => entries \cap {"ready", "finished"} = {}
    /\ pc = "ready" => "journal.json" \in entries /\ staged = Files
    /\ pc \in Active => Loadable /\ "finished" \notin entries
    /\ pc = "cleanup" /\ Loadable => "finished" \in entries

IIndex ==
    /\ pc = "stage" => idx \in 1..(NFiles + 1) /\ staged = 1..(idx - 1)
    /\ pc = "file" => idx \in 0..(NFiles + 1) /\ (mode = "forward" => idx # 0)
                      /\ (mode = "backward" => idx # NFiles + 1)
    /\ pc = "move" => idx \in 0..(NMoves + 1) /\ (mode = "forward" => idx # 0)
                      /\ (mode = "backward" => idx # NMoves + 1)

\* What the last check before a rename found, unless someone raced it.
IChecked ==
    /\ pc = "swap" /\ file[idx] = "foreign" => idx \in racedFiles
    /\ pc = "moveswap" /\ clash[idx] => idx \in racedMoves

FilesAre(S, v) == \A f \in S : file[f] = v
MovesAre(S, v) == \A m \in S : loc[m] = v

\* How far an untouched source is, at each step of publication and rollback.
IForward ==
    /\ pc \in {"stage", "ready", "review"} => SourceIs(Base)
    /\ pc \in {"file", "compare", "swap"} /\ mode = "forward" =>
          /\ FilesAre({f \in Files : f < idx}, goal) /\ FilesAre({f \in Files : f >= idx}, Base)
          /\ MovesAre(Moves, Base)
    /\ pc \in {"move", "moveswap"} /\ mode = "forward" =>
          /\ FilesAre(Files, goal)
          /\ MovesAre({m \in Moves : m < idx}, goal) /\ MovesAre({m \in Moves : m >= idx}, Base)
    /\ pc = "verify" => SourceIs(goal)

IBackward ==
    /\ pc \in {"move", "moveswap"} /\ mode = "backward" => MovesAre({m \in Moves : m > idx}, Base)
    /\ pc \in {"file", "compare", "swap"} /\ mode = "backward" =>
          MovesAre(Moves, Base) /\ FilesAre({f \in Files : f > idx}, Base)
    /\ pc \in {"finish", "decide"} =>
          SourceIs(IF verdict = "committed" THEN goal ELSE Base)

ISource ==
    /\ \A f \in Files : file[f] \in Versions
    /\ \A m \in Moves : payload[m] = "own" /\ ~clash[m]
    /\ (\E m \in Moves : loc[m] = goal) => FilesAre(Files, goal)
    /\ ~Loadable \/ "finished" \in entries \/ pc \in {"cleanup", "discard"} => ~Mixed
    /\ IForward /\ IBackward

IHistory ==
    /\ touched \/ op = "scalar" \/ pc = "scalar" => edits > 0
    /\ ~dir /\ edits = 0 => ~Mixed

IInv ==
    /\ TypeOK /\ IDisk /\ IControl /\ IIndex /\ IChecked /\ IHistory
    /\ dir /\ ~touched => ISource

\* Who may be where: only a publication gets to publish, to commit and to wait
\* for a decided journal; a preparation that is discarded was never committed,
\* and as long as its journal could be loaded its source is untouched.
Publishing == op \in {"publish", "scalar"}

ICaller ==
    /\ pc \in {"clear", "plan", "stage", "ready", "review", "verify"} => Publishing
    /\ pc \in {"file", "compare", "swap", "move", "moveswap"} /\ mode = "forward" => Publishing
    /\ verdict \in {"clear", "committed"} => Publishing
    /\ pc = "recheck" => op = "recover"
    /\ pc \in {"clear", "plan", "stage", "ready", "review", "discard"} => verdict # "committed"
    /\ pc = "discard" /\ Loadable /\ ~touched => "finished" \notin entries /\ SourceIs(Base)

=============================================================================
