------------------------ MODULE RenameJournalProofs ------------------------
(***************************************************************************)
(* Theorems about RenameJournal for any number of writers, members, moves, *)
(* failures and outside edits.                                             *)
(***************************************************************************)
EXTENDS RenameJournal, TLAPS

USE DEF Versions, vars, source, store, process, history, Goto, Release, Fault

\* Members and moves are numbered from one.
LEMMA Indices ==
  /\ Files \subseteq Nat /\ Moves \subseteq Nat
  /\ \A i \in Files \cup Moves : i + 1 \in Nat /\ i - 1 \in Nat
  BY JournalAssumption DEF Files, Moves

-----------------------------------------------------------------------------
(* Type correctness.                                                       *)

LEMMA InitType == Init => TypeOK
  <1> SUFFICES ASSUME Init PROVE TypeOK
    OBVIOUS
  <1>1. TypeFlags BY Zenon DEF Init, TypeFlags
  <1>2. TypeSets  BY DEF Init, TypeSets
  <1>3. TypeData  BY JournalAssumption DEF Init, TypeData, PcValues
  <1> QED BY <1>1, <1>2, <1>3 DEF TypeOK

\* Starting an operation or an inspection keeps the data well typed.
LEMMA BeginType ==
  ASSUME TypeData, NEW w \in Writers, Begin(w)
  PROVE  TypeData'
  <1> USE JournalAssumption DEF TypeData, PcValues
  <1>1. CASE BeginPublish(w) BY <1>1 DEF BeginPublish, Acquire
  <1>2. CASE BeginScalar(w)  BY <1>2 DEF BeginScalar, Acquire
  <1>3. CASE BeginRecover(w) BY <1>3 DEF BeginRecover, Acquire
  <1>4. CASE Inspect(w)      BY <1>4 DEF Inspect
  <1> QED BY <1>1, <1>2, <1>3, <1>4 DEF Begin

\* So does every step up to the review of the staged journal.
LEMMA PrepareType ==
  ASSUME TypeData, Prepare
  PROVE  TypeData'
  <1> USE JournalAssumption DEF TypeData, PcValues
  <1>1. CASE CheckClear    BY <1>1 DEF CheckClear
  <1>2. CASE CreateJournal BY <1>2 DEF CreateJournal
  <1>3. CASE RefusePlan    BY <1>3 DEF RefusePlan
  <1>4. CASE PlanScalar    BY <1>4, Indices DEF PlanScalar
  <1>5. CASE SwapScalar    BY <1>5 DEF SwapScalar
  <1>6. CASE StageFile
    <2>1. CASE file[idx] = Base BY <1>6, <2>1, Indices DEF StageFile
    <2>2. CASE file[idx] # Base BY <1>6, <2>2 DEF StageFile
    <2> QED BY <2>1, <2>2
  <1>7. CASE StageMoves
    <2>1. CASE \E m \in Moves : clash[m]  BY <1>7, <2>1 DEF StageMoves
    <2>2. CASE ~\E m \in Moves : clash[m] BY <1>7, <2>2 DEF StageMoves
    <2> QED BY <2>1, <2>2
  <1>8. CASE MakeReady     BY <1>8 DEF MakeReady
  <1>9. CASE ReviewPasses  BY <1>9 DEF ReviewPasses
  <1>10. CASE ReviewFails  BY <1>10 DEF ReviewFails
  <1> QED BY <1>1, <1>2, <1>3, <1>4, <1>5, <1>6, <1>7, <1>8, <1>9, <1>10 DEF Prepare

\* A refused write ends in a rollback or releases the lock.
LEMMA GiveUpType ==
  ASSUME TypeData, GiveUp, UNCHANGED <<file, payload, loc, goal, decided, edits>>,
         faults' \in Nat, pc # "idle"
  PROVE  TypeData'
  <1>1. CASE mode = "forward" BY <1>1 DEF TypeData, PcValues, GiveUp
  <1>2. CASE mode # "forward" BY <1>2, JournalAssumption DEF TypeData, PcValues, GiveUp, KeepJournal
  <1> QED BY <1>1, <1>2

\* So does every step of publication and restoration: the member index stays
\* natural because a restoration stops at zero.
LEMMA PublishType ==
  ASSUME TypeData, Publish
  PROVE  TypeData'
  <1> USE JournalAssumption DEF TypeData, PcValues
  <1>s. ASSUME idx \in Files \cup Moves PROVE Step(idx) \in Nat
    BY <1>s, Indices DEF Step
  <1>w. Wanted \in Versions
    BY DEF Wanted, Base
  <1>1. CASE SkipRestored     BY <1>1, <1>s DEF SkipRestored
  <1>2. CASE StageReplacement
    <2>1. CASE file[idx] = Expected /\ "publish.tmp" \notin entries
      BY <1>2, <2>1 DEF StageReplacement
    <2>2. CASE ~(file[idx] = Expected /\ "publish.tmp" \notin entries)
      BY <1>2, <2>2, GiveUpType DEF StageReplacement
    <2> QED BY <2>1, <2>2
  <1>3. CASE CompareAgain
    <2>1. CASE file[idx] = Expected BY <1>3, <2>1, GiveUpType DEF CompareAgain, Refuse
    <2>2. CASE file[idx] # Expected BY <1>3, <2>2, GiveUpType DEF CompareAgain, Refuse
    <2> QED BY <2>1, <2>2
  <1>4. CASE SwapFile         BY <1>4, <1>s, <1>w DEF SwapFile
  <1>5. CASE FilesDone        BY <1>5 DEF FilesDone
  <1>6. CASE SkipUnmoved      BY <1>6, <1>s DEF SkipUnmoved
  <1>7. CASE CheckMove
    <2>1. CASE ~clash[idx] /\ PayloadMatches(idx)    BY <1>7, <2>1 DEF CheckMove
    <2>2. CASE ~(~clash[idx] /\ PayloadMatches(idx)) BY <1>7, <2>2, GiveUpType DEF CheckMove
    <2> QED BY <2>1, <2>2
  <1>8. CASE SwapMove
    <2>1. CASE GiveUp /\ UNCHANGED <<loc, clash>> BY <1>8, <2>1, GiveUpType DEF SwapMove
    <2>2. CASE ~(GiveUp /\ UNCHANGED <<loc, clash>>) BY <1>8, <2>2, <1>s, <1>w DEF SwapMove
    <2> QED BY <2>1, <2>2
  <1>9. CASE MovesDone        BY <1>9 DEF MovesDone
  <1> QED BY <1>1, <1>2, <1>3, <1>4, <1>5, <1>6, <1>7, <1>8, <1>9 DEF Publish

\* So does every step that decides, restores or removes a journal.
LEMMA ConcludeType ==
  ASSUME TypeData, Conclude
  PROVE  TypeData'
  <1> USE JournalAssumption DEF TypeData, PcValues, KeepJournal
  <1>1. CASE VerifyPasses    BY <1>1 DEF VerifyPasses
  <1>2. CASE VerifyFails     BY <1>2 DEF VerifyFails
  <1>3. CASE WriteMarker     BY <1>3 DEF WriteMarker
  <1>4. CASE Decide          BY <1>4 DEF Decide
  <1>5. CASE Recheck         BY <1>5 DEF Recheck
  <1>6. CASE Rollback
    <2>1. CASE Conflicts  BY <1>6, <2>1 DEF Rollback
    <2>2. CASE ~Conflicts BY <1>6, <2>2 DEF Rollback
    <2> QED BY <2>1, <2>2
  <1>7. CASE CleanupStep     BY <1>7 DEF CleanupStep
  <1>8. CASE DiscardStep     BY <1>8 DEF DiscardStep
  <1>9. CASE RemoveDirectory BY <1>9 DEF RemoveDirectory, Outcome
  <1> QED BY <1>1, <1>2, <1>3, <1>4, <1>5, <1>6, <1>7, <1>8, <1>9 DEF Conclude

\* So do failures, crashes and the edits of outsiders.
LEMMA OthersType ==
  ASSUME TypeData, Others
  PROVE  TypeData'
  <1> USE JournalAssumption DEF TypeData, PcValues, Outside
  <1>1. CASE IoFails
    <2>1. CASE Refuse  BY <1>1, <2>1, GiveUpType DEF IoFails, Refuse
    <2>2. CASE ~Refuse BY <1>1, <2>2 DEF IoFails, KeepJournal
    <2> QED BY <2>1, <2>2
  <1>2. CASE Crash   BY <1>2 DEF Crash
  <1>3. CASE Resolve BY <1>3 DEF Resolve
  <1>4. ASSUME NEW f \in Files, ForeignEdit(f) PROVE TypeData'
    BY <1>4 DEF ForeignEdit
  <1>5. ASSUME NEW m \in Moves, ForeignClash(m) PROVE TypeData'
    BY <1>5 DEF ForeignClash
  <1>6. ASSUME NEW m \in Moves, ForeignPayload(m) PROVE TypeData'
    BY <1>6 DEF ForeignPayload
  <1> QED BY <1>1, <1>2, <1>3, <1>4, <1>5, <1>6 DEF Others

\* A declared removal takes one entry away and adds none.
LEMMA RemovalShrinks ==
  ASSUME NEW order, RemoveFirst(order)
  PROVE  entries' \subseteq entries
  BY DEF RemoveFirst

\* Nothing but members and declared entries is ever put into the journal.
LEMMA StepSets ==
  ASSUME TypeSets, [Next]_vars
  PROVE  TypeSets'
  <1> USE DEF TypeSets
  <1>1. CASE UNCHANGED vars BY <1>1
  <1>2. ASSUME NEW w \in Writers, Begin(w) PROVE TypeSets'
    BY <1>2 DEF Begin, BeginPublish, BeginScalar, BeginRecover, Acquire, Inspect
  <1>3. CASE Prepare
    <2>1. CASE CheckClear \/ RefusePlan \/ PlanScalar \/ SwapScalar \/ ReviewPasses \/ ReviewFails
      BY <2>1 DEF CheckClear, RefusePlan, PlanScalar, SwapScalar, ReviewPasses, ReviewFails
    <2>2. CASE CreateJournal BY <2>2 DEF CreateJournal
    <2>3. CASE StageFile     BY <2>3 DEF StageFile
    <2>4. CASE StageMoves    BY <2>4 DEF StageMoves, EntryNames
    <2>5. CASE MakeReady     BY <2>5 DEF MakeReady, EntryNames
    <2> QED BY <1>3, <2>1, <2>2, <2>3, <2>4, <2>5 DEF Prepare
  <1>4. CASE Publish
    <2>1. CASE SkipRestored \/ FilesDone \/ SkipUnmoved \/ CheckMove \/ SwapMove \/ MovesDone
      BY <2>1 DEF SkipRestored, FilesDone, SkipUnmoved, CheckMove, SwapMove, MovesDone
    <2>2. CASE StageReplacement BY <2>2 DEF StageReplacement, EntryNames
    <2>3. CASE CompareAgain     BY <2>3 DEF CompareAgain, Refuse
    <2>4. CASE SwapFile         BY <2>4 DEF SwapFile
    <2> QED BY <1>4, <2>1, <2>2, <2>3, <2>4 DEF Publish
  <1>5. CASE Conclude
    <2>1. CASE VerifyPasses \/ VerifyFails \/ Recheck \/ RemoveDirectory
      BY <2>1 DEF VerifyPasses, VerifyFails, Recheck, RemoveDirectory
    <2>2. CASE WriteMarker BY <2>2 DEF WriteMarker, EntryNames
    <2>3. CASE Decide      BY <2>3 DEF Decide, EntryNames
    <2>4. CASE Rollback    BY <2>4 DEF Rollback
    <2>5. CASE CleanupStep BY <2>5, RemovalShrinks DEF CleanupStep, RemoveMember
    <2>6. CASE DiscardStep BY <2>6, RemovalShrinks DEF DiscardStep, RemoveMember
    <2> QED BY <1>5, <2>1, <2>2, <2>3, <2>4, <2>5, <2>6 DEF Conclude
  <1>6. CASE Others
    <2>1. CASE IoFails          BY <2>1 DEF IoFails, Refuse
    <2>2. CASE Crash \/ Resolve BY <2>2 DEF Crash, Resolve, Outside
    <2>3. ASSUME NEW f \in Files, ForeignEdit(f) PROVE TypeSets'
      BY <2>3 DEF ForeignEdit, Outside
    <2>4. ASSUME NEW m \in Moves, ForeignClash(m) PROVE TypeSets'
      BY <2>4 DEF ForeignClash, Outside
    <2>5. ASSUME NEW m \in Moves, ForeignPayload(m) PROVE TypeSets'
      BY <2>5 DEF ForeignPayload, Outside
    <2> QED BY <1>6, <2>1, <2>2, <2>3, <2>4, <2>5 DEF Others
  <1> QED BY <1>1, <1>2, <1>3, <1>4, <1>5, <1>6 DEF Next, Work

\* The Boolean variables change in few steps.
LEMMA StepFlags ==
  ASSUME TypeFlags, [Next]_vars
  PROVE  TypeFlags'
  <1> USE DEF TypeFlags
  <1>1. CASE UNCHANGED vars BY <1>1, Zenon
  <1>2. ASSUME NEW w \in Writers, Begin(w) PROVE TypeFlags'
    BY <1>2, Zenon DEF Begin, BeginPublish, BeginScalar, BeginRecover, Acquire, Inspect
  <1>3. CASE Prepare
    <2>1. CASE CreateJournal BY <2>1, Zenon DEF CreateJournal
    <2>2. CASE Prepare /\ ~CreateJournal
      BY <2>2, Zenon DEF Prepare, CheckClear, RefusePlan, PlanScalar, SwapScalar, StageFile,
         StageMoves, MakeReady, ReviewPasses, ReviewFails
    <2> QED BY <1>3, <2>1, <2>2
  <1>4. CASE Publish
    <2>1. CASE SwapMove BY <2>1, Zenon DEF SwapMove
    <2>2. CASE Publish /\ ~SwapMove
      BY <2>2, Zenon DEF Publish, SkipRestored, StageReplacement, CompareAgain, SwapFile, FilesDone,
         SkipUnmoved, CheckMove, MovesDone
    <2> QED BY <1>4, <2>1, <2>2
  <1>5. CASE Conclude
    <2>1. CASE RemoveDirectory BY <2>1, Zenon DEF RemoveDirectory
    <2>2. CASE Conclude /\ ~RemoveDirectory
      BY <2>2, Zenon DEF Conclude, VerifyPasses, VerifyFails, WriteMarker, Decide, Recheck, Rollback,
         CleanupStep, DiscardStep
    <2> QED BY <1>5, <2>1, <2>2
  <1>6. CASE Others
    <2>1. CASE IoFails \/ Crash BY <2>1, Zenon DEF IoFails, Crash
    <2>2. CASE Resolve          BY <2>2, Zenon DEF Resolve, Outside
    <2>3. ASSUME NEW f \in Files, ForeignEdit(f) PROVE TypeFlags'
      BY <2>3, Zenon DEF ForeignEdit, Outside
    <2>4. ASSUME NEW m \in Moves, ForeignClash(m) PROVE TypeFlags'
      BY <2>4, Zenon DEF ForeignClash, Outside
    <2>5. ASSUME NEW m \in Moves, ForeignPayload(m) PROVE TypeFlags'
      BY <2>5, Zenon DEF ForeignPayload, Outside
    <2> QED BY <1>6, <2>1, <2>2, <2>3, <2>4, <2>5 DEF Others
  <1> QED BY <1>1, <1>2, <1>3, <1>4, <1>5, <1>6 DEF Next, Work

LEMMA StepType == TypeOK /\ [Next]_vars => TypeOK'
  <1> SUFFICES ASSUME TypeOK, [Next]_vars PROVE TypeOK'
    OBVIOUS
  <1>1. CASE UNCHANGED vars BY <1>1, StepFlags, StepSets DEF TypeOK, TypeData
  <1>2. CASE Next
    <2>1. TypeData'
      BY <1>2, BeginType, PrepareType, PublishType, ConcludeType, OthersType DEF Next, Work, TypeOK
    <2> QED BY <2>1, StepFlags, StepSets DEF TypeOK
  <1> QED BY <1>1, <1>2

\* Every variable keeps its type in every behavior.
THEOREM TypeCorrect == Spec => []TypeOK
  BY InitType, StepType, PTL DEF Spec

-----------------------------------------------------------------------------
(* The journal on disk, and which step may meet it in which state.         *)

\* In the removal order of a decided journal `ready` goes before the manifest
\* and the marker goes last.
LEMMA CleanupRemoval ==
  ASSUME RemoveFirst(CleanupOrder)
  PROVE  /\ entries' \subseteq entries
         /\ "ready" \in entries => entries' = entries \ {"ready"}
         /\ "finished" \in entries /\ "finished" \notin entries' => "ready" \notin entries
  BY DEF RemoveFirst, CleanupOrder

\* A staging directory loses `ready` before anything else.
LEMMA DiscardRemoval ==
  ASSUME RemoveFirst(DiscardOrder)
  PROVE  /\ entries' \subseteq entries
         /\ "ready" \in entries => entries' = entries \ {"ready"}
  BY DEF RemoveFirst, DiscardOrder

LEMMA StepIndex ==
  ASSUME TypeOK, IDisk, IControl, IIndex, [Next]_vars
  PROVE  IIndex'
  <1> USE DEF IIndex
  <1>1. CASE UNCHANGED vars BY <1>1
  <1>2. ASSUME NEW w \in Writers, Begin(w) PROVE IIndex'
    BY <1>2 DEF Begin, BeginPublish, BeginScalar, BeginRecover, Acquire, Inspect
  <1>3. CASE Prepare
    <2>1. CASE StageFile
      <3>1. idx \in 1..(NFiles + 1) /\ idx \in 1..NFiles /\ staged = 1..(idx - 1) /\ NFiles \in Nat
        BY <2>1, JournalAssumption DEF StageFile, Files
      <3>2. CASE file[idx] = Base
        <4>1. idx' = idx + 1 /\ idx' \in 1..(NFiles + 1) BY <2>1, <3>1, <3>2 DEF StageFile
        <4>2. staged' = 1..idx
          <5>1. staged' = (1..(idx - 1)) \cup {idx} BY <2>1, <3>1, <3>2 DEF StageFile
          <5>2. (1..(idx - 1)) \cup {idx} = 1..idx BY <3>1
          <5> QED BY <5>1, <5>2
        <4> QED BY <2>1, <3>1, <3>2, <4>1, <4>2 DEF StageFile
      <3>3. CASE file[idx] # Base BY <2>1, <3>3 DEF StageFile
      <3> QED BY <3>2, <3>3
    <2>2. CASE CreateJournal BY <2>2, JournalAssumption DEF CreateJournal, IDisk, IControl
    <2>3. CASE ReviewPasses BY <2>3, JournalAssumption DEF ReviewPasses
    <2>4. CASE CheckClear \/ RefusePlan \/ PlanScalar \/ SwapScalar \/ StageMoves \/ MakeReady \/ ReviewFails
      BY <2>4 DEF CheckClear, RefusePlan, PlanScalar, SwapScalar, StageMoves, MakeReady, ReviewFails
    <2> QED BY <1>3, <2>1, <2>2, <2>3, <2>4 DEF Prepare
  <1>4. CASE Publish
    <2> USE JournalAssumption DEF Files, Moves, TypeOK, TypeData
    <2>1. CASE SkipRestored     BY <2>1 DEF SkipRestored, Step
    <2>2. CASE StageReplacement BY <2>2 DEF StageReplacement, GiveUp, KeepJournal
    <2>3. CASE CompareAgain     BY <2>3 DEF CompareAgain, Refuse, GiveUp, KeepJournal
    <2>4. CASE SwapFile         BY <2>4 DEF SwapFile, Step
    <2>5. CASE FilesDone        BY <2>5 DEF FilesDone
    <2>6. CASE SkipUnmoved      BY <2>6 DEF SkipUnmoved, Step
    <2>7. CASE CheckMove        BY <2>7 DEF CheckMove, GiveUp, KeepJournal
    <2>8. CASE SwapMove         BY <2>8 DEF SwapMove, Step, GiveUp, KeepJournal
    <2>9. CASE MovesDone        BY <2>9 DEF MovesDone
    <2> QED BY <1>4, <2>1, <2>2, <2>3, <2>4, <2>5, <2>6, <2>7, <2>8, <2>9 DEF Publish
  <1>5. CASE Conclude
    <2>1. CASE Rollback BY <2>1, JournalAssumption DEF Rollback, KeepJournal
    <2>2. CASE Conclude /\ ~Rollback
      BY <2>2 DEF Conclude, VerifyPasses, VerifyFails, WriteMarker, Decide, Recheck, CleanupStep,
         DiscardStep, RemoveDirectory
    <2> QED BY <1>5, <2>1, <2>2
  <1>6. CASE Others
    <2>1. CASE IoFails BY <2>1 DEF IoFails, Refuse, GiveUp, KeepJournal
    <2>2. CASE Others /\ ~IoFails
      BY <2>2 DEF Others, Crash, Resolve, ForeignEdit, ForeignClash, ForeignPayload, Outside
    <2> QED BY <1>6, <2>1, <2>2
  <1> QED BY <1>1, <1>2, <1>3, <1>4, <1>5, <1>6 DEF Next, Work

LEMMA StepDisk ==
  ASSUME TypeOK, IDisk, IControl, IIndex, [Next]_vars
  PROVE  IDisk' /\ IControl'
  <1> USE DEF IDisk, IControl, Loadable, Active
  <1>1. CASE UNCHANGED vars BY <1>1
  <1>2. ASSUME NEW w \in Writers, Begin(w) PROVE IDisk' /\ IControl'
    BY <1>2 DEF Begin, BeginPublish, BeginScalar, BeginRecover, Acquire, Inspect
  <1>3. CASE Prepare
    <2>1. CASE CheckClear    BY <2>1 DEF CheckClear, Pending, Committed, Restored
    <2>2. CASE CreateJournal BY <2>2 DEF CreateJournal
    <2>3. CASE StageFile     BY <2>3 DEF StageFile
    <2>4. CASE StageMoves    BY <2>4, JournalAssumption DEF StageMoves, IIndex, Files
    <2>5. CASE MakeReady     BY <2>5 DEF MakeReady
    <2>6. CASE RefusePlan \/ PlanScalar \/ SwapScalar BY <2>6 DEF RefusePlan, PlanScalar, SwapScalar
    <2>7. CASE ReviewPasses \/ ReviewFails BY <2>7 DEF ReviewPasses, ReviewFails
    <2> QED BY <1>3, <2>1, <2>2, <2>3, <2>4, <2>5, <2>6, <2>7 DEF Prepare
  <1>4. CASE Publish
    <2> USE DEF GiveUp, KeepJournal, Refuse
    <2>1. CASE SkipRestored \/ FilesDone \/ SkipUnmoved \/ MovesDone
      BY <2>1 DEF SkipRestored, FilesDone, SkipUnmoved, MovesDone
    <2>2. CASE StageReplacement BY <2>2 DEF StageReplacement
    <2>3. CASE CompareAgain     BY <2>3 DEF CompareAgain
    <2>4. CASE SwapFile         BY <2>4 DEF SwapFile
    <2>5. CASE CheckMove        BY <2>5 DEF CheckMove
    <2>6. CASE SwapMove         BY <2>6 DEF SwapMove
    <2> QED BY <1>4, <2>1, <2>2, <2>3, <2>4, <2>5, <2>6 DEF Publish
  <1>5. CASE Conclude
    <2>1. CASE VerifyPasses \/ VerifyFails BY <2>1 DEF VerifyPasses, VerifyFails
    <2>2. CASE WriteMarker     BY <2>2 DEF WriteMarker
    <2>3. CASE Decide          BY <2>3 DEF Decide, TypeOK, TypeData
    <2>4. CASE Recheck         BY <2>4 DEF Recheck, Pending, Committed, Restored, TypeOK, TypeData
    <2>5. CASE Rollback        BY <2>5 DEF Rollback, KeepJournal
    <2>6. CASE CleanupStep     BY <2>6, CleanupRemoval DEF CleanupStep, RemoveMember
    <2>7. CASE DiscardStep     BY <2>7, DiscardRemoval DEF DiscardStep, RemoveMember
    <2>8. CASE RemoveDirectory BY <2>8 DEF RemoveDirectory
    <2> QED BY <1>5, <2>1, <2>2, <2>3, <2>4, <2>5, <2>6, <2>7, <2>8 DEF Conclude
  <1>6. CASE Others
    <2>1. CASE IoFails BY <2>1 DEF IoFails, Refuse, GiveUp, KeepJournal
    <2>2. CASE Others /\ ~IoFails
      BY <2>2 DEF Others, Crash, Resolve, ForeignEdit, ForeignClash, ForeignPayload, Outside
    <2> QED BY <1>6, <2>1, <2>2
  <1> QED BY <1>1, <1>2, <1>3, <1>4, <1>5, <1>6 DEF Next, Work

-----------------------------------------------------------------------------
(* How far the source is between the two versions.                         *)

LEMMA TwoVersions ==
  ASSUME TypeOK
  PROVE  Base \in Versions /\ Base # goal /\ \A v \in Versions : v = goal \/ v = Base
  BY DEF TypeOK, TypeData, Base

LEMMA WholeIsNotMixed ==
  ASSUME NEW v \in Versions, SourceIs(v)
  PROVE  ~Mixed
  BY DEF Mixed

\* A step that keeps the source and the plan keeps what is known about them,
\* as far as it does not move on in the publication.
LEMMA StepSource ==
  ASSUME TypeOK, IDisk, IControl, IIndex, dir /\ ~touched => ISource, [Next]_vars, dir', ~touched'
  PROVE  ISource'
  <1> USE TwoVersions, Indices DEF ISource, Active, Loadable, FilesAre, MovesAre
  <1>1. CASE UNCHANGED vars BY <1>1 DEF IForward, IBackward, Mixed, SourceIs, Base
  <1>2. ASSUME NEW w \in Writers, Begin(w) PROVE ISource'
    <2>1. UNCHANGED <<source, store, touched>> /\ (UNCHANGED pc \/ pc' \in {"clear", "recheck"})
          /\ UNCHANGED <<mode, idx>> /\ (UNCHANGED verdict \/ ~UNCHANGED pc)
      BY <1>2 DEF Begin, BeginPublish, BeginScalar, BeginRecover, Acquire, Inspect, TypeOK, TypeData
    <2>2. CASE UNCHANGED <<pc, verdict>> BY <2>1, <2>2 DEF IForward, IBackward, Mixed, SourceIs, Base
    <2>3. CASE pc' \in {"clear", "recheck"}
      BY <2>1, <2>3 DEF IForward, IBackward, Mixed, SourceIs, Base
    <2> QED BY <2>1, <2>2, <2>3
  <1>3. CASE Prepare
    <2>1. CASE CheckClear
      BY <2>1 DEF CheckClear, IForward, IBackward, Mixed, SourceIs, Base, Committed, Restored
    <2>2. CASE CreateJournal
      BY <2>2 DEF CreateJournal, IForward, IBackward, Mixed, SourceIs, Base, IDisk, IControl
    <2>3. CASE StageFile
      BY <2>3 DEF StageFile, IForward, IBackward, Mixed, SourceIs, Base, IControl
    <2>4. CASE StageMoves
      BY <2>4 DEF StageMoves, IForward, IBackward, Mixed, SourceIs, Base, IControl
    <2>5. CASE MakeReady
      BY <2>5 DEF MakeReady, IForward, IBackward, Mixed, SourceIs, Base, IControl
    <2>6. CASE RefusePlan \/ PlanScalar \/ SwapScalar
      BY <2>6 DEF RefusePlan, PlanScalar, SwapScalar, IControl, IForward, IBackward, Mixed, SourceIs, Base
    <2>7. CASE ReviewPasses
      BY <2>7 DEF ReviewPasses, IForward, IBackward, Mixed, SourceIs, Base, IControl
    <2>8. CASE ReviewFails
      BY <2>8 DEF ReviewFails, IForward, IBackward, Mixed, SourceIs, Base, IControl
    <2> QED BY <1>3, <2>1, <2>2, <2>3, <2>4, <2>5, <2>6, <2>7, <2>8 DEF Prepare
  <1>4. CASE Publish
    <2> USE DEF GiveUp, KeepJournal, Refuse
    <2>1. CASE SkipRestored
      BY <2>1 DEF SkipRestored, Step, IForward, IBackward, Mixed, SourceIs, Base, IControl, IIndex, Files
    <2>2. CASE StageReplacement
      BY <2>2 DEF StageReplacement, IForward, IBackward, Mixed, SourceIs, Base, IControl
    <2>3. CASE CompareAgain
      BY <2>3 DEF CompareAgain, IForward, IBackward, Mixed, SourceIs, Base, IControl
    <2>4. CASE SwapFile
      BY <2>4 DEF SwapFile, Step, Wanted, IForward, IBackward, Mixed, SourceIs, Base, IControl, IIndex, TypeOK, TypeData, Files
    <2>5. CASE FilesDone
      <3>1. CASE mode = "forward"
        <4>1. \A f \in Files : f < idx
          BY <2>5, <3>1, JournalAssumption DEF FilesDone, IIndex, Files
        <4>2. \A m \in Moves : ~(m < 1) /\ m >= 1 BY DEF Moves
        <4> QED
          BY <2>5, <3>1, <4>1, <4>2 DEF FilesDone, IForward, IBackward, Mixed, SourceIs, Base, IControl
      <3>2. CASE mode # "forward"
        <4>1. \A f \in Files : f > idx
          BY <2>5, <3>2, JournalAssumption DEF FilesDone, IIndex, Files, TypeOK, TypeData
        <4>2. SourceIs(Base)
          BY <2>5, <3>2, <4>1 DEF FilesDone, IBackward, SourceIs, IControl, TypeOK, TypeData
        <4> QED
          BY <2>5, <3>2, <4>2 DEF FilesDone, IForward, IBackward, Mixed, SourceIs, Base, IControl
      <3> QED BY <3>1, <3>2
    <2>6. CASE SkipUnmoved
      BY <2>6 DEF SkipUnmoved, Step, IForward, IBackward, Mixed, SourceIs, Base, IControl, IIndex, TypeOK, TypeData, Moves
    <2>7. CASE CheckMove
      BY <2>7 DEF CheckMove, IForward, IBackward, Mixed, SourceIs, Base, IControl
    <2>8. CASE SwapMove
      <3>1. idx \in Moves /\ idx \in Nat /\ pc = "moveswap" /\ ~clash[idx]
        BY <2>8 DEF SwapMove, IControl, TypeOK, TypeData
      <3>2. loc' = [loc EXCEPT ![idx] = Wanted] /\ clash' = [clash EXCEPT ![idx] = FALSE]
            /\ pc' = "move" /\ idx' = Step(idx) /\ UNCHANGED <<file, payload, store, mode>>
        BY <2>8, <3>1 DEF SwapMove
      <3>3. \A m \in Moves : payload'[m] = "own" /\ ~clash'[m]
        BY <3>1, <3>2, <2>8 DEF TypeOK, TypeFlags, IControl, SwapMove
      <3>4. CASE mode = "forward"
        BY <2>8, <3>1, <3>2, <3>3, <3>4
        DEF Step, Wanted, IForward, IBackward, SourceIs, Base, IControl, TypeOK, TypeData, Moves, SwapMove
      <3>5. CASE mode = "backward"
        BY <2>8, <3>1, <3>2, <3>3, <3>5
        DEF Step, Wanted, IForward, IBackward, SourceIs, Base, IControl, TypeOK, TypeData, Moves, SwapMove
      <3> QED BY <3>4, <3>5 DEF TypeOK, TypeData
    <2>9. CASE MovesDone
      <3>1. CASE mode = "forward"
        <4>1. \A m \in Moves : m < idx
          BY <2>9, <3>1, JournalAssumption DEF MovesDone, IIndex, Moves
        <4>2. SourceIs(goal)
          BY <2>9, <3>1, <4>1 DEF MovesDone, IForward, SourceIs, IControl
        <4> QED
          BY <2>9, <3>1, <4>2 DEF MovesDone, IForward, IBackward, Mixed, SourceIs, Base, IControl
      <3>2. CASE mode # "forward"
        <4>1. \A m \in Moves : m > idx
          BY <2>9, <3>2, JournalAssumption DEF MovesDone, IIndex, Moves, TypeOK, TypeData
        <4>2. \A f \in Files : ~(f > NFiles) BY JournalAssumption DEF Files
        <4> QED
          BY <2>9, <3>2, <4>1, <4>2 DEF MovesDone, IForward, IBackward, Mixed, SourceIs, Base, IControl,
             TypeOK, TypeData
      <3> QED BY <3>1, <3>2
    <2> QED BY <1>4, <2>1, <2>2, <2>3, <2>4, <2>5, <2>6, <2>7, <2>8, <2>9 DEF Publish
  <1>5. CASE Conclude
    <2>1. CASE VerifyPasses
      BY <2>1 DEF VerifyPasses, IForward, IBackward, Mixed, SourceIs, Base, IControl
    <2>9. CASE VerifyFails
      BY <2>9 DEF VerifyFails, IForward, IBackward, Mixed, SourceIs, Base, IControl
    <2>2. CASE WriteMarker
      BY <2>2 DEF WriteMarker, IForward, IBackward, Mixed, SourceIs, Base, IControl
    <2>3. CASE Decide
      BY <2>3 DEF Decide, IForward, IBackward, Mixed, SourceIs, Base, IControl
    <2>4. CASE Recheck
      BY <2>4 DEF Recheck, IForward, IBackward, Mixed, SourceIs, Base, Committed, Restored
    <2>5. CASE Rollback
      <3>1. CASE Conflicts
        BY <2>5, <3>1 DEF Rollback, KeepJournal, IForward, IBackward, Mixed, SourceIs, Base, IControl
      <3>2. CASE ~Conflicts
        <4>1. \A m \in Moves : ~(m > NMoves) BY JournalAssumption DEF Moves
        <4> QED
          BY <2>5, <3>2, <4>1 DEF Rollback, IForward, IBackward, Mixed, SourceIs, Base, IControl
      <3> QED BY <3>1, <3>2
    <2>6. CASE CleanupStep
      BY <2>6, CleanupRemoval DEF CleanupStep, IForward, IBackward, Mixed, SourceIs, Base
    <2>7. CASE DiscardStep
      BY <2>7, DiscardRemoval DEF DiscardStep, IForward, IBackward, Mixed, SourceIs, Base
    <2>8. CASE RemoveDirectory BY <2>8 DEF RemoveDirectory
    <2> QED BY <1>5, <2>1, <2>2, <2>3, <2>4, <2>5, <2>6, <2>7, <2>8, <2>9 DEF Conclude
  <1>6. CASE Others
    <2>1. CASE IoFails
      BY <2>1 DEF IoFails, Refuse, GiveUp, KeepJournal, IForward, IBackward, Mixed, SourceIs, Base, IControl
    <2>2. CASE Crash
      BY <2>2 DEF Crash, IForward, IBackward, Mixed, SourceIs, Base
    <2>3. CASE Others /\ ~IoFails /\ ~Crash
      BY <2>3 DEF Others, Resolve, ForeignEdit, ForeignClash, ForeignPayload, Outside
    <2> QED BY <1>6, <2>1, <2>2, <2>3
  <1> QED BY <1>1, <1>2, <1>3, <1>4, <1>5, <1>6 DEF Next, Work

\* The last check before a rename still holds, or someone raced it.
LEMMA StepChecked ==
  ASSUME TypeOK, IChecked, [Next]_vars
  PROVE  IChecked'
  <1> USE DEF IChecked
  <1>1. CASE UNCHANGED vars BY <1>1
  <1>2. ASSUME NEW w \in Writers, Begin(w) PROVE IChecked'
    BY <1>2 DEF Begin, BeginPublish, BeginScalar, BeginRecover, Acquire, Inspect
  <1>3. CASE Prepare
    BY <1>3 DEF Prepare, CheckClear, CreateJournal, RefusePlan, PlanScalar, SwapScalar, StageFile,
       StageMoves, MakeReady, ReviewPasses, ReviewFails
  <1>4. CASE Publish
    <2>1. CASE CompareAgain
      BY <2>1 DEF CompareAgain, Refuse, GiveUp, KeepJournal, Expected, Base, TypeOK, TypeData
    <2>2. CASE CheckMove BY <2>2 DEF CheckMove, GiveUp, KeepJournal
    <2>3. CASE SwapFile \/ SwapMove BY <2>3 DEF SwapFile, SwapMove, GiveUp, KeepJournal
    <2>4. CASE SkipRestored \/ StageReplacement \/ FilesDone \/ SkipUnmoved \/ MovesDone
      BY <2>4 DEF SkipRestored, StageReplacement, GiveUp, KeepJournal, FilesDone, SkipUnmoved, MovesDone
    <2> QED BY <1>4, <2>1, <2>2, <2>3, <2>4 DEF Publish
  <1>5. CASE Conclude
    BY <1>5 DEF Conclude, VerifyPasses, VerifyFails, WriteMarker, Decide, Recheck, Rollback, KeepJournal,
       CleanupStep, DiscardStep, RemoveDirectory
  <1>6. CASE Others
    <2>1. CASE IoFails \/ Crash BY <2>1 DEF IoFails, Crash, Refuse, GiveUp, KeepJournal
    <2>2. CASE Resolve BY <2>2 DEF Resolve, Outside, TypeOK, TypeData
    <2>3. ASSUME NEW f \in Files, ForeignEdit(f) PROVE IChecked'
      BY <2>3 DEF ForeignEdit, Outside, TypeOK, TypeData
    <2>4. ASSUME NEW m \in Moves, ForeignClash(m) PROVE IChecked'
      BY <2>4 DEF ForeignClash, Outside, TypeOK, TypeData, TypeFlags
    <2>5. ASSUME NEW m \in Moves, ForeignPayload(m) PROVE IChecked'
      BY <2>5 DEF ForeignPayload, Outside
    <2> QED BY <1>6, <2>1, <2>2, <2>3, <2>4, <2>5 DEF Others
  <1> QED BY <1>1, <1>2, <1>3, <1>4, <1>5, <1>6 DEF Next, Work

\* Without an edit from outside the journal, a source without a journal is
\* always whole: the directory is only removed when the source is.
LEMMA StepHistory ==
  ASSUME TypeOK, IControl, IHistory, dir /\ ~touched => ISource, [Next]_vars
  PROVE  IHistory'
  <1> USE DEF IHistory, TypeOK, TypeData, Active
  <1>1. CASE UNCHANGED vars BY <1>1 DEF Mixed, SourceIs
  <1>2. ASSUME NEW w \in Writers, Begin(w) PROVE IHistory'
    BY <1>2 DEF Begin, BeginPublish, BeginScalar, BeginRecover, Acquire, Inspect, Mixed, SourceIs
  <1>3. CASE Prepare
    BY <1>3 DEF Prepare, CheckClear, CreateJournal, RefusePlan, PlanScalar, SwapScalar, StageFile,
       StageMoves, MakeReady, ReviewPasses, ReviewFails, Mixed, SourceIs
  <1>4. CASE Publish
    BY <1>4 DEF Publish, SkipRestored, StageReplacement, CompareAgain, SwapFile, FilesDone, SkipUnmoved,
       CheckMove, SwapMove, MovesDone, Refuse, GiveUp, KeepJournal, IControl
  <1>5. CASE Conclude
    <2>1. CASE RemoveDirectory
      BY <2>1 DEF RemoveDirectory, IControl, ISource, Mixed, SourceIs
    <2>2. CASE Conclude /\ ~RemoveDirectory
      BY <2>2 DEF Conclude, VerifyPasses, VerifyFails, WriteMarker, Decide, Recheck, Rollback, KeepJournal,
         CleanupStep, DiscardStep, Mixed, SourceIs
    <2> QED BY <1>5, <2>1, <2>2
  <1>6. CASE Others
    <2>1. CASE IoFails \/ Crash
      BY <2>1 DEF IoFails, Crash, Refuse, GiveUp, KeepJournal, Mixed, SourceIs
    <2>2. CASE Others /\ ~IoFails /\ ~Crash
      BY <2>2 DEF Others, Resolve, ForeignEdit, ForeignClash, ForeignPayload, Outside
    <2> QED BY <1>6, <2>1, <2>2
  <1> QED BY <1>1, <1>2, <1>3, <1>4, <1>5, <1>6 DEF Next, Work

-----------------------------------------------------------------------------
(* The inductive invariant and what follows from it.                       *)

LEMMA InitInvariant == Init => IInv
  <1> SUFFICES ASSUME Init PROVE IInv
    OBVIOUS
  <1>1. TypeOK BY InitType
  <1>2. IDisk /\ IControl /\ IIndex /\ IChecked
    BY DEF Init, IDisk, IControl, IIndex, IChecked, Loadable, Active
  <1>3. IHistory
    <2>1. SourceIs("old") BY DEF Init, SourceIs
    <2> QED BY <2>1 DEF Init, IHistory, Mixed
  <1>4. ~dir BY DEF Init
  <1> QED BY <1>1, <1>2, <1>3, <1>4 DEF IInv

LEMMA StepInvariant == IInv /\ [Next]_vars => IInv'
  <1> SUFFICES ASSUME IInv, [Next]_vars PROVE IInv'
    OBVIOUS
  <1> USE DEF IInv
  <1>1. TypeOK' BY StepType
  <1>2. IDisk' /\ IControl' BY StepDisk
  <1>3. IIndex'   BY StepIndex
  <1>4. IChecked' BY StepChecked
  <1>5. IHistory' BY StepHistory
  <1>6. dir' /\ ~touched' => ISource' BY StepSource
  <1> QED BY <1>1, <1>2, <1>3, <1>4, <1>5, <1>6

THEOREM Invariant == Spec => []IInv
  BY InitInvariant, StepInvariant, PTL DEF Spec

\* A source between two versions always has a complete, undecided journal
\* beside it: no crash, at any step, can lose the way back.
THEOREM WriteAheadHolds == Spec => []WriteAhead
  <1>1. IInv => WriteAhead
    <2> SUFFICES ASSUME IInv, Mixed, edits = 0
                 PROVE  /\ Undecided /\ Loadable
                        /\ "journal.json" \in entries /\ staged = Files
      BY DEF WriteAhead
    <2>1. dir /\ ~touched BY DEF IInv, IHistory, TypeOK, TypeFlags
    <2>2. Loadable /\ "finished" \notin entries BY <2>1 DEF IInv, ISource
    <2> QED BY <2>1, <2>2 DEF IInv, IDisk, Undecided, Pending
  <1> QED BY <1>1, Invariant, PTL

\* However an operation or an earlier recovery was interrupted, the next
\* recovery finds no conflict unless someone else changed the source.
THEOREM RecoverableHolds == Spec => []Recoverable
  <1>1. IInv => Recoverable
    <2> SUFFICES ASSUME IInv, Undecided, Loadable, ~touched PROVE ~Conflicts
      BY DEF Recoverable
    <2>1. ISource BY DEF IInv, Undecided, Pending
    <2>2. ASSUME NEW f \in Files PROVE ~FileConflict(f)
      BY <2>1, JournalAssumption DEF ISource, FileConflict
    <2>3. ASSUME NEW m \in Moves PROVE ~MoveConflict(m)
      BY <2>1 DEF ISource, FilesAre, MoveConflict, PayloadMatches
    <2> QED BY <2>2, <2>3 DEF Conflicts
  <1> QED BY <1>1, Invariant, PTL

\* The steps that write the source without spending an outside edit.
LEMMA SourceWriters ==
  ASSUME TypeOK, [Next]_vars, edits' = edits
  PROVE  SwapScalar \/ SwapFile \/ SwapMove \/ UNCHANGED source
  <1>1. CASE UNCHANGED vars BY <1>1
  <1>2. ASSUME NEW w \in Writers, Begin(w) PROVE UNCHANGED source
    BY <1>2 DEF Begin, BeginPublish, BeginScalar, BeginRecover, Acquire, Inspect
  <1>3. CASE Prepare
    BY <1>3 DEF Prepare, CheckClear, CreateJournal, RefusePlan, PlanScalar, StageFile, StageMoves,
       MakeReady, ReviewPasses, ReviewFails
  <1>4. CASE Publish
    BY <1>4 DEF Publish, SkipRestored, StageReplacement, CompareAgain, FilesDone, SkipUnmoved, CheckMove,
       MovesDone
  <1>5. CASE Conclude
    BY <1>5 DEF Conclude, VerifyPasses, VerifyFails, WriteMarker, Decide, Recheck, Rollback, CleanupStep,
       DiscardStep, RemoveDirectory
  <1>6. CASE Others
    <2>1. edits \in Nat BY DEF TypeOK, TypeData
    <2> QED
      BY <1>6, <2>1 DEF Others, IoFails, Crash, Resolve, ForeignEdit, ForeignClash, ForeignPayload, Outside
  <1> QED BY <1>1, <1>2, <1>3, <1>4, <1>5, <1>6 DEF Next, Work

\* A decision on disk is final: recovery and later writers only remove the
\* journal, they never write the source again on its account.
THEOREM DecisionStandsHolds == Spec => DecisionStands
  <1>1. IInv /\ [Next]_vars => [Pending /\ "finished" \in entries /\ edits' = edits => UNCHANGED source]_vars
    <2> SUFFICES ASSUME IInv, [Next]_vars, Pending, "finished" \in entries, edits' = edits
                 PROVE  UNCHANGED source
      OBVIOUS
    <2>1. ~SwapFile /\ ~SwapMove
      BY DEF IInv, IControl, Active, SwapFile, SwapMove
    <2>2. ~SwapScalar BY DEF IInv, IControl, Pending, SwapScalar
    <2> QED BY <2>1, <2>2, SourceWriters DEF IInv
  <1> QED BY <1>1, Invariant, PTL DEF Spec, DecisionStands

\* Bytes an outsider wrote are only ever lost in the window between the last
\* comparison and the rename; nothing else in the code overwrites them.
THEOREM PreservesOutsideHolds == Spec => PreservesOutside
  <1> DEFINE Kept ==
        edits' = edits =>
          /\ \A f \in Files : file[f] = "foreign" /\ file'[f] # "foreign" => f \in racedFiles
          /\ \A m \in Moves : clash[m] /\ ~clash'[m] => m \in racedMoves
  <1>1. IInv /\ [Next]_vars => Kept
    <2> SUFFICES ASSUME IInv, [Next]_vars, edits' = edits PROVE Kept
      OBVIOUS
    <2>1. CASE UNCHANGED source BY <2>1
    <2>2. CASE SwapScalar BY <2>2 DEF SwapScalar, IInv, TypeOK, TypeData
    <2>3. CASE SwapFile BY <2>3 DEF SwapFile, IInv, IChecked, TypeOK, TypeData
    <2>4. CASE SwapMove BY <2>4 DEF SwapMove, IInv, IChecked, TypeOK, TypeFlags
    <2> QED BY <2>1, <2>2, <2>3, <2>4, SourceWriters DEF IInv
  <1>2. IInv /\ [Next]_vars => [Kept]_vars BY <1>1
  <1> QED BY <1>2, Invariant, PTL DEF Spec, PreservesOutside

-----------------------------------------------------------------------------
(* The refinement of AtomicEdit: through any crashes and I/O errors, as    *)
(* long as nobody edits the source beside the journal.                     *)

\* A complete journal that recovery would restore.
WayBack == Undecided /\ Loadable

-----------------------------------------------------------------------------
(* Which caller may be at which step.                                      *)

LEMMA InitCaller == Init => ICaller
  BY DEF Init, ICaller, Publishing, Loadable

LEMMA SameSource ==
  ASSUME UNCHANGED <<source, goal>>
  PROVE  /\ Base' = Base
         /\ \A v \in Versions : SourceIs(v)' <=> SourceIs(v)
         /\ SourceIs(Base)' <=> SourceIs(Base)
  BY DEF SourceIs, Base

LEMMA StepCaller ==
  ASSUME IInv, ICaller, [Next]_vars
  PROVE  ICaller'
  <1> USE SameSource DEF ICaller, Publishing, Loadable
  <1>1. CASE UNCHANGED vars BY <1>1
  <1>2. ASSUME NEW w \in Writers, Begin(w) PROVE ICaller'
    <2>1. CASE BeginPublish(w) BY <2>1 DEF BeginPublish, Acquire
    <2>2. CASE BeginScalar(w)  BY <2>2 DEF BeginScalar, Acquire
    <2>3. CASE BeginRecover(w) BY <2>3 DEF BeginRecover, Acquire
    <2>4. CASE Inspect(w)      BY <2>4 DEF Inspect
    <2> QED BY <1>2, <2>1, <2>2, <2>3, <2>4 DEF Begin
  <1>3. CASE Prepare
    <2>1. CASE ReviewFails
      <3>1. dir /\ "finished" \notin entries BY <2>1 DEF ReviewFails, IInv, IControl, Active
      <3>2. ~touched => SourceIs(Base) BY <2>1, <3>1 DEF ReviewFails, IInv, ISource, IForward
      <3> QED BY <2>1, <3>1, <3>2 DEF ReviewFails
    <2>2. CASE StageFile \/ StageMoves
      BY <2>2 DEF StageFile, StageMoves, IInv, IControl
    <2>3. CASE CheckClear
      BY <2>3 DEF CheckClear
    <2>4. CASE CreateJournal \/ RefusePlan \/ PlanScalar \/ SwapScalar \/ MakeReady \/ ReviewPasses
      BY <2>4 DEF CreateJournal, RefusePlan, PlanScalar, SwapScalar, MakeReady, ReviewPasses
    <2> QED BY <1>3, <2>1, <2>2, <2>3, <2>4 DEF Prepare
  <1>4. CASE Publish
    BY <1>4 DEF Publish, SkipRestored, StageReplacement, CompareAgain, SwapFile, FilesDone, SkipUnmoved,
       CheckMove, SwapMove, MovesDone, Refuse, GiveUp, KeepJournal
  <1>5. CASE Conclude
    <2>1. CASE Recheck BY <2>1 DEF Recheck
    <2>2. CASE DiscardStep
      <3>1. "ready" \notin entries'
        <4>1. CASE "ready" \in entries \/ staged = {} BY <2>2, <4>1, DiscardRemoval DEF DiscardStep
        <4>2. CASE ~("ready" \in entries \/ staged = {}) BY <2>2, <4>2 DEF DiscardStep
        <4> QED BY <4>1, <4>2
      <3> QED BY <2>2, <3>1 DEF DiscardStep
    <2>3. CASE VerifyPasses \/ VerifyFails \/ WriteMarker \/ Decide \/ Rollback \/ CleanupStep \/ RemoveDirectory
      BY <2>3 DEF VerifyPasses, VerifyFails, WriteMarker, Decide, Rollback, KeepJournal, CleanupStep,
         RemoveDirectory
    <2> QED BY <1>5, <2>1, <2>2, <2>3 DEF Conclude
  <1>6. CASE Others
    <2>1. CASE IoFails
      <3>1. CASE pc = "review" /\ Kind = "property"
        <4>1. dir /\ "finished" \notin entries BY <3>1 DEF IInv, IControl, Active
        <4>2. ~touched => SourceIs(Base) BY <3>1, <4>1 DEF IInv, ISource, IForward
        <4>3. pc' = "discard" /\ UNCHANGED <<source, store, op, verdict, touched>>
          BY <2>1, <3>1 DEF IoFails
        <4> QED BY <3>1, <4>1, <4>2, <4>3
      <3>2. CASE ~(pc = "review" /\ Kind = "property")
        BY <2>1, <3>2 DEF IoFails, Refuse, GiveUp, KeepJournal, IInv, IControl
      <3> QED BY <3>1, <3>2
    <2>2. CASE Crash BY <2>2 DEF Crash
    <2>3. CASE Others /\ ~IoFails /\ ~Crash
      BY <2>3 DEF Others, Resolve, ForeignEdit, ForeignClash, ForeignPayload, Outside
    <2> QED BY <1>6, <2>1, <2>2, <2>3
  <1> QED BY <1>1, <1>2, <1>3, <1>4, <1>5, <1>6 DEF Next, Work


\* The journal is only ever left in four ways: made ready, decided, discarded,
\* or not at all; and only a complete undecided one has its source written.
LEMMA StepWay ==
  ASSUME IInv, [Next]_vars, edits = 0, edits' = 0
  PROVE  \/ WayBack /\ WayBack' /\ goal' = goal
         \/ ~WayBack /\ ~WayBack' /\ (UNCHANGED <<source>>)
         \/ MakeReady \/ Decide \/ DiscardStep
  <1> USE DEF WayBack, Undecided, Pending, Loadable
  <1>1. CASE UNCHANGED vars BY <1>1
  <1>2. ASSUME NEW w \in Writers, Begin(w) PROVE UNCHANGED <<source, store>>
    BY <1>2 DEF Begin, BeginPublish, BeginScalar, BeginRecover, Acquire, Inspect
  <1>3. ASSUME Prepare, ~MakeReady
        PROVE  (WayBack' <=> WayBack) /\ (WayBack => goal' = goal) /\ (~WayBack => UNCHANGED source)
    <2>1. CASE CreateJournal BY <2>1 DEF CreateJournal, IInv, IDisk, IControl
    <2>2. CASE SwapScalar BY <2>2 DEF SwapScalar, IInv, IHistory
    <2>3. CASE StageMoves BY <2>3 DEF StageMoves
    <2>4. CASE CheckClear \/ RefusePlan \/ PlanScalar \/ StageFile \/ ReviewPasses \/ ReviewFails
      BY <2>4 DEF CheckClear, RefusePlan, PlanScalar, StageFile, ReviewPasses, ReviewFails
    <2> QED BY <1>3, <2>1, <2>2, <2>3, <2>4 DEF Prepare
  <1>4. ASSUME Publish
        PROVE  WayBack /\ WayBack' /\ goal' = goal
    <2>1. WayBack BY <1>4 DEF Publish, SkipRestored, StageReplacement, CompareAgain, SwapFile, FilesDone,
            SkipUnmoved, CheckMove, SwapMove, MovesDone, IInv, IControl, Active
    <2>2. CASE StageReplacement BY <2>1, <2>2 DEF StageReplacement
    <2>3. CASE CompareAgain BY <2>1, <2>3 DEF CompareAgain, Refuse
    <2>4. CASE SwapFile BY <2>1, <2>4 DEF SwapFile
    <2>5. CASE Publish /\ ~StageReplacement /\ ~CompareAgain /\ ~SwapFile
      BY <2>1, <2>5 DEF Publish, SkipRestored, FilesDone, SkipUnmoved, CheckMove, SwapMove, MovesDone
    <2> QED BY <1>4, <2>2, <2>3, <2>4, <2>5
  <1>5. ASSUME Conclude, ~Decide, ~DiscardStep
        PROVE  (WayBack' <=> WayBack) /\ goal' = goal /\ UNCHANGED source
    <2>1. CASE CleanupStep
      <3>1. CASE staged # {} BY <2>1, <3>1 DEF CleanupStep
      <3>2. CASE staged = {}
        BY <2>1, <3>2, CleanupRemoval DEF CleanupStep, IInv, IControl
      <3> QED BY <3>1, <3>2
    <2>2. CASE RemoveDirectory BY <2>2 DEF RemoveDirectory
    <2>3. CASE VerifyPasses \/ VerifyFails \/ WriteMarker \/ Recheck \/ Rollback
      BY <2>3 DEF VerifyPasses, VerifyFails, WriteMarker, Recheck, Rollback
    <2> QED BY <1>5, <2>1, <2>2, <2>3 DEF Conclude
  <1>6. ASSUME Others
        PROVE  (WayBack' <=> WayBack) /\ goal' = goal /\ UNCHANGED source
    <2>1. CASE IoFails BY <2>1 DEF IoFails, Refuse
    <2>2. CASE Crash BY <2>2 DEF Crash
    <2>3. CASE Others /\ ~IoFails /\ ~Crash
      BY <2>3 DEF Others, Resolve, ForeignEdit, ForeignClash, ForeignPayload, Outside
    <2> QED BY <1>6, <2>1, <2>2, <2>3
  <1>7. CASE \E w \in Writers : Begin(w)
    <2>1. UNCHANGED <<source, store>> BY <1>2, <1>7
    <2> QED BY <2>1
  <1> QED BY <1>1, <1>3, <1>4, <1>5, <1>6, <1>7 DEF Next, Work

-----------------------------------------------------------------------------
(* The version every interruption ends in.                                 *)

\* No source is two versions at once: there is a member to tell them apart.
LEMMA OneVersion == ~(SourceIs("old") /\ SourceIs("new"))
  <1>1. 1 \in Files BY JournalAssumption DEF Files
  <1> QED BY <1>1 DEF SourceIs

\* Without a journal to restore it the source is whole already.
LEMMA WholeWithoutWay ==
  ASSUME IInv, edits = 0, ~WayBack
  PROVE  ~Mixed
  <1>1. CASE ~dir BY <1>1 DEF IInv, IHistory
  <1>2. CASE dir
    <2>1. ~touched BY DEF IInv, IHistory
    <2> QED BY <1>2, <2>1 DEF IInv, ISource, WayBack, Undecided, Pending
  <1> QED BY <1>1, <1>2 DEF IInv, TypeOK, TypeFlags

\* What the mapping says of a source, with and without a way back.
LEMMA ValueIs ==
  /\ WayBack => Value = Base
  /\ \A v \in Versions : ~WayBack /\ SourceIs(v) => Value = v
  BY OneVersion DEF WayBack, Value

LEMMA ValueVersion ==
  ASSUME IInv, edits = 0
  PROVE  Value \in Versions
  <1>1. CASE WayBack BY <1>1, ValueIs DEF Base
  <1>2. CASE ~WayBack BY <1>2, WholeWithoutWay, ValueIs DEF Mixed
  <1> QED BY <1>1, <1>2

\* The primed form: OneVersion holds in every state.
LEMMA ValueIsNext ==
  /\ WayBack' => Value' = Base'
  /\ \A v \in Versions : ~WayBack' /\ SourceIs(v)' => Value' = v
  <1>1. ~(SourceIs("old") /\ SourceIs("new"))'
    <2>1. 1 \in Files BY JournalAssumption DEF Files
    <2> QED BY <2>1 DEF SourceIs
  <1> QED BY <1>1 DEF WayBack, Value

\* The version changes with the marker of a committed journal, and with no
\* other step of any process.
LEMMA StepValue ==
  ASSUME IInv, ICaller, [Next]_vars, edits = 0, edits' = 0
  PROVE  Value' = Value \/ (Decide /\ verdict = "committed")
  <1>b. Base \in Versions /\ goal \in Versions BY DEF Base, IInv, TypeOK, TypeData
  <1>t. dir => ISource /\ ~touched BY DEF IInv, IHistory
  <1>1. CASE WayBack /\ WayBack' /\ goal' = goal
    <2>1. Base' = Base BY <1>1 DEF Base
    <2> QED BY <1>1, <2>1, ValueIs, ValueIsNext
  <1>2. CASE ~WayBack /\ ~WayBack' /\ UNCHANGED source
    <2>1. PICK v \in Versions : SourceIs(v) BY <1>2, WholeWithoutWay DEF Mixed
    <2>2. SourceIs(v)' BY <1>2, <2>1 DEF SourceIs
    <2> QED BY <1>2, <2>1, <2>2, ValueIs, ValueIsNext
  <1>3. CASE MakeReady
    <2>1. ~WayBack /\ dir /\ "finished" \notin entries /\ pc = "ready"
      BY <1>3 DEF MakeReady, IInv, IControl, WayBack, Loadable, Active
    <2>2. SourceIs(Base) BY <1>t, <2>1 DEF ISource, IForward
    <2>3. WayBack' BY <1>3, <2>1 DEF MakeReady, WayBack, Undecided, Pending, Loadable
    <2>4. Base' = Base BY <1>3 DEF MakeReady, Base
    <2> QED BY <1>b, <2>1, <2>2, <2>3, <2>4, ValueIs, ValueIsNext
  <1>4. CASE Decide /\ verdict # "committed"
    <2>1. WayBack /\ dir /\ "finished" \notin entries /\ pc = "decide" /\ verdict = "rolled_back"
      BY <1>4 DEF Decide, IInv, IControl, TypeOK, TypeData, Active, WayBack, Undecided, Pending, Loadable
    <2>2. SourceIs(Base) BY <1>t, <2>1 DEF ISource, IBackward
    <2>3. ~WayBack' /\ UNCHANGED <<source, goal>>
      BY <1>4, <2>1 DEF Decide, WayBack, Undecided
    <2>4. SourceIs(Base)' /\ Base' = Base BY <2>2, <2>3, SameSource
    <2>5. SourceIs(Base') BY <2>2, <2>3 DEF Base
    <2> QED BY <1>b, <2>1, <2>2, <2>3, <2>4, SameSource, ValueIs, ValueIsNext
  <1>5. CASE DiscardStep
    <2>1. UNCHANGED <<source, goal, dir>> /\ Base' = Base BY <1>5 DEF DiscardStep, Base
    <2>2. CASE Loadable
      <3>1. entries' = entries \ {"ready"} BY <1>5, <2>2, DiscardRemoval DEF DiscardStep, Loadable
      <3>2. dir /\ pc = "discard" BY <1>5 DEF DiscardStep, IInv, IControl
      <3>3. SourceIs(Base) /\ WayBack
        BY <1>t, <2>2, <3>2 DEF ICaller, WayBack, Undecided, Pending
      <3>4. ~WayBack' BY <3>1 DEF WayBack, Loadable
      <3> QED BY <1>b, <2>1, <3>3, <3>4, SameSource, ValueIs, ValueIsNext
    <2>3. CASE ~Loadable
      <3>1. ~Loadable'
        <4>1. CASE staged = {} BY <1>5, <2>3, <4>1, DiscardRemoval DEF DiscardStep, Loadable
        <4>2. CASE staged # {} BY <1>5, <2>3, <4>2 DEF DiscardStep, Loadable
        <4> QED BY <4>1, <4>2
      <3>2. ~WayBack /\ ~WayBack' BY <2>3, <3>1 DEF WayBack
      <3> QED BY <1>2, <2>1, <3>2
    <2> QED BY <2>2, <2>3
  <1> QED BY <1>1, <1>2, <1>3, <1>4, <1>5, StepWay

-----------------------------------------------------------------------------
(* What each step tells the caller.                                        *)

Answers == {"crashed"} \cup
    CASE Phase = "open"       -> {"error", "required"}
      [] Phase = "committed"  -> {"ok"}
      [] Phase = "recovering" -> {"ok", "error"}

\* The lock is released with an answer the caller's phase allows.
Released == holder' = NoOne /\ result' \in Answers

\* The lock is kept and the phase with it.
Kept == UNCHANGED <<holder, op, result>> /\ Phase' = Phase

\* A restoration that gives up never claims to have published.
LEMMA KeepJournalAnswers ==
  ASSUME holder # NoOne, pc # "cleanup", KeepJournal
  PROVE  Released
  <1>1. CASE op = "publish" BY <1>1 DEF KeepJournal, Released, Answers, Phase
  <1>2. CASE op # "publish" BY <1>2 DEF KeepJournal, Released, Answers, Phase
  <1> QED BY <1>1, <1>2

LEMMA GiveUpAnswers ==
  ASSUME holder # NoOne, pc # "cleanup", GiveUp
  PROVE  Kept \/ Released
  <1>1. CASE mode = "forward" BY <1>1 DEF GiveUp, Kept, Phase
  <1>2. CASE mode # "forward" BY <1>2, KeepJournalAnswers DEF GiveUp
  <1> QED BY <1>1, <1>2

\* Any step of the holder other than the one that commits.
LEMMA WorkAnswers ==
  ASSUME IInv, ICaller, edits = 0, Work, ~(Decide /\ verdict = "committed")
  PROVE  holder # NoOne /\ (Kept \/ Released)
  <1>h. pc # "idle" => holder # NoOne BY DEF IInv, TypeOK, TypeData
  <1>o. op # "scalar" /\ pc # "scalar" BY DEF IInv, IHistory
  <1>p. Publishing => op = "publish" BY <1>o DEF Publishing
  <1>1. CASE Prepare
    <2> USE DEF Kept, Released, Answers, Phase
    <2>1. CASE CheckClear
      <3>1. holder # NoOne /\ op = "publish" /\ pc = "clear" BY <1>h, <1>p, <2>1 DEF CheckClear, ICaller
      <3> QED BY <2>1, <3>1 DEF CheckClear
    <2>2. CASE RefusePlan
      <3>1. holder # NoOne /\ op = "publish" /\ pc = "plan" BY <1>h, <1>p, <2>2 DEF RefusePlan, ICaller
      <3> QED BY <2>2, <3>1 DEF RefusePlan
    <2>3. CASE CreateJournal BY <1>h, <2>3 DEF CreateJournal
    <2>4. CASE PlanScalar \/ SwapScalar BY <1>o, <2>4 DEF PlanScalar, SwapScalar
    <2>5. CASE StageFile \/ StageMoves \/ MakeReady \/ ReviewPasses \/ ReviewFails
      BY <1>h, <2>5 DEF StageFile, StageMoves, MakeReady, ReviewPasses, ReviewFails
    <2> QED BY <1>1, <2>1, <2>2, <2>3, <2>4, <2>5 DEF Prepare
  <1>2. CASE Publish
    <2>1. holder # NoOne /\ pc # "cleanup"
      BY <1>h, <1>2 DEF Publish, SkipRestored, StageReplacement, CompareAgain, SwapFile, FilesDone,
         SkipUnmoved, CheckMove, SwapMove, MovesDone
    <2>2. CASE GiveUp BY <2>1, <2>2, GiveUpAnswers
    <2>3. CASE ~GiveUp
      BY <1>2, <2>1, <2>3 DEF Publish, SkipRestored, StageReplacement, CompareAgain, SwapFile, FilesDone,
         SkipUnmoved, CheckMove, SwapMove, MovesDone, Refuse, Kept, Phase
    <2> QED BY <2>1, <2>2, <2>3
  <1>3. CASE Conclude
    <2>1. CASE VerifyPasses \/ VerifyFails \/ WriteMarker \/ CleanupStep \/ DiscardStep
      BY <1>h, <2>1 DEF VerifyPasses, VerifyFails, WriteMarker, CleanupStep, DiscardStep, Kept, Phase
    <2>2. CASE Decide
      <3>1. pc = "decide" /\ "finished" \notin entries BY <2>2 DEF Decide, IInv, IControl, Active
      <3> QED BY <1>3, <1>h, <2>2, <3>1 DEF Decide, Kept, Phase
    <2>3. CASE Recheck
      <3>1. holder # NoOne /\ op = "recover" BY <1>h, <2>3 DEF Recheck, ICaller
      <3> QED BY <2>3, <3>1 DEF Recheck, Kept, Released, Answers, Phase
    <2>4. CASE Rollback
      <3>1. holder # NoOne /\ pc # "cleanup" BY <1>h, <2>4 DEF Rollback
      <3>2. CASE Conflicts BY <2>4, <3>1, <3>2, KeepJournalAnswers DEF Rollback
      <3>3. CASE ~Conflicts BY <2>4, <3>1, <3>3 DEF Rollback, Kept, Phase
      <3> QED BY <3>1, <3>2, <3>3
    <2>5. CASE RemoveDirectory
      <3>1. holder # NoOne BY <1>h, <2>5 DEF RemoveDirectory
      <3>2. CASE verdict = "clear" BY <2>5, <3>1, <3>2 DEF RemoveDirectory, Kept, Phase
      <3>3. CASE verdict # "clear"
        <4>1. holder' = NoOne /\ result' = Outcome BY <2>5, <3>3 DEF RemoveDirectory
        <4>2. CASE op = "recover" BY <3>1, <4>1, <4>2 DEF Outcome, Released, Answers, Phase
        <4>3. CASE verdict = "committed"
          <5>1. pc = "cleanup" /\ op = "publish" BY <1>p, <2>5, <4>3 DEF RemoveDirectory, ICaller
          <5> QED BY <3>1, <4>1, <4>3, <5>1 DEF Outcome, Released, Answers, Phase
        <4>4. CASE op # "recover" /\ verdict # "committed"
          BY <3>1, <4>1, <4>4 DEF Outcome, Released, Answers, Phase
        <4> QED BY <3>1, <4>2, <4>3, <4>4
      <3> QED BY <3>2, <3>3
    <2> QED BY <1>3, <2>1, <2>2, <2>3, <2>4, <2>5 DEF Conclude
  <1> QED BY <1>1, <1>2, <1>3 DEF Work

\* Failures and crashes.
LEMMA FailureAnswers ==
  ASSUME IInv, ICaller, edits = 0, IoFails \/ Crash
  PROVE  holder # NoOne /\ (Kept \/ Released)
  <1>h. pc # "idle" => holder # NoOne BY DEF IInv, TypeOK, TypeData
  <1>o. op # "scalar" /\ pc # "scalar" BY DEF IInv, IHistory
  <1>p. Publishing => op = "publish" BY <1>o DEF Publishing
  <1>1. CASE Crash BY <1>1 DEF Crash, Released, Answers
  <1>2. CASE IoFails
    <2>1. holder # NoOne BY <1>h, <1>2 DEF IoFails
    <2>2. CASE pc \in {"file", "compare", "swap", "move", "moveswap"}
      <3>1. GiveUp BY <1>2, <2>2 DEF IoFails, Refuse
      <3> QED BY <2>1, <2>2, <3>1, GiveUpAnswers
    <2>3. CASE pc \in {"clear", "plan", "recheck", "scalar"}
      BY <1>2, <2>1, <2>3 DEF IoFails, Released, Answers, Phase
    <2>4. CASE pc \in {"stage", "ready", "review"}
      BY <1>2, <2>1, <2>4 DEF IoFails, Kept, Phase
    <2>5. CASE pc = "verify" \/ (pc \in {"finish", "decide"} /\ verdict = "committed")
      BY <1>2, <2>1, <2>5 DEF IoFails, Kept, Phase
    <2>6. CASE pc = "rollback" \/ (pc \in {"finish", "decide"} /\ verdict = "rolled_back")
      <3>1. KeepJournal BY <1>2, <2>6 DEF IoFails
      <3> QED BY <2>1, <2>6, <3>1, KeepJournalAnswers
    <2>7. CASE pc \in {"cleanup", "discard"}
      <3>1. CASE verdict = "committed"
        <4>1. pc = "cleanup" /\ op = "publish" BY <1>p, <2>7, <3>1 DEF ICaller
        <4> QED BY <1>2, <2>1, <3>1, <4>1 DEF IoFails, Released, Answers, Phase
      <3>2. CASE verdict # "committed" BY <1>2, <2>1, <2>7, <3>2 DEF IoFails, Released, Answers, Phase
      <3> QED BY <3>1, <3>2
    <2> QED
      BY <1>2, <2>2, <2>3, <2>4, <2>5, <2>6, <2>7 DEF IoFails
  <1> QED BY <1>1, <1>2

-----------------------------------------------------------------------------
(* The refinement.                                                         *)

\* Without the outside there are no edits.
LEMMA StepEdits ==
  ASSUME MaxEdits = 0, edits = 0, [Next]_vars
  PROVE  edits' = 0 /\ ~(\E w \in Writers : BeginScalar(w))
  <1>1. ~(\E w \in Writers : BeginScalar(w)) BY DEF BeginScalar
  <1>2. ~Outside BY DEF Outside
  <1>3. CASE UNCHANGED vars BY <1>1, <1>3
  <1>4. ASSUME NEW w \in Writers, Begin(w) PROVE edits' = 0
    BY <1>1, <1>4 DEF Begin, BeginPublish, BeginRecover, Inspect
  <1>5. CASE Prepare
    BY <1>1, <1>5 DEF Prepare, CheckClear, CreateJournal, RefusePlan, PlanScalar, SwapScalar, StageFile,
       StageMoves, MakeReady, ReviewPasses, ReviewFails
  <1>6. CASE Publish
    BY <1>1, <1>6 DEF Publish, SkipRestored, StageReplacement, CompareAgain, SwapFile, FilesDone,
       SkipUnmoved, CheckMove, SwapMove, MovesDone
  <1>7. CASE Conclude
    BY <1>1, <1>7 DEF Conclude, VerifyPasses, VerifyFails, WriteMarker, Decide, Recheck, Rollback,
       CleanupStep, DiscardStep, RemoveDirectory
  <1>8. CASE Others
    BY <1>1, <1>2, <1>8 DEF Others, IoFails, Crash, Resolve, ForeignEdit, ForeignClash, ForeignPayload
  <1> QED BY <1>1, <1>3, <1>4, <1>5, <1>6, <1>7, <1>8 DEF Next, Work

LEMMA InitAtomic ==
  ASSUME Init
  PROVE  Atomic!Init
  <1>1. SourceIs("old") /\ ~Loadable BY DEF Init, SourceIs, Loadable
  <1> QED BY <1>1 DEF Atomic!Init, Init, Value, Phase

\* Every step of the journal is a step of the atomic edit, or none.
LEMMA StepAtomic ==
  ASSUME MaxEdits = 0, IInv, ICaller, edits = 0, [Next]_vars
  PROVE  [Atomic!Next]_Atomic!vars
  <1> USE DEF Atomic!vars
  <1>e. edits' = 0 BY StepEdits
  <1>v. Value \in Versions BY ValueVersion
  <1>1. CASE Decide /\ verdict = "committed"
    <2>1. pc = "decide" /\ dir /\ "finished" \notin entries /\ WayBack /\ holder # NoOne
      BY <1>1 DEF Decide, IInv, IControl, Active, TypeOK, TypeData, WayBack, Undecided, Pending
    <2>2. op = "publish" BY <1>1 DEF ICaller, Publishing, IInv, IHistory
    <2>3. SourceIs(goal) /\ goal \in Versions /\ goal # Base
      BY <1>1, <2>1 DEF IInv, IHistory, ISource, IBackward, TypeOK, TypeData, Base
    <2>4. pc' = "cleanup" /\ "finished" \in entries' /\ UNCHANGED <<source, goal, holder, op, verdict, result>>
      BY <1>1, <2>1 DEF Decide
    <2>6. Value = Base BY <2>1, ValueIs
    <2>7. Value' = goal
      <3>1. ~WayBack' BY <2>4 DEF WayBack, Undecided
      <3>2. PICK v \in Versions : v = goal BY <2>3
      <3>3. SourceIs(v)' BY <2>3, <2>4, <3>2 DEF SourceIs
      <3> QED BY <3>1, <3>2, <3>3, ValueIsNext
    <2>8. Phase = "open" /\ Phase' = "committed" BY <1>1, <2>1, <2>2, <2>4 DEF Phase
    <2>9. Atomic!Commit BY <2>3, <2>4, <2>6, <2>7, <2>8 DEF Atomic!Commit
    <2> QED BY <2>9 DEF Atomic!Next
  <1>2. CASE ~(Decide /\ verdict = "committed")
    <2>1. Value' = Value BY <1>2, <1>e, StepValue
    <2>2. ASSUME holder # NoOne, Kept PROVE UNCHANGED <<Value, Phase, result>>
      BY <2>1, <2>2 DEF Kept
    <2>3. ASSUME holder # NoOne, Released PROVE Atomic!Answer
      BY <2>1, <2>3 DEF Released, Answers, Phase, Atomic!Answer
    <2>4. CASE UNCHANGED vars BY <2>1, <2>4 DEF Phase
    <2>5. CASE Work \/ IoFails \/ Crash
      BY <1>2, <2>2, <2>3, <2>5, WorkAnswers, FailureAnswers DEF Atomic!Next
    <2>6. CASE Resolve \/ (\E f \in Files : ForeignEdit(f))
               \/ (\E m \in Moves : ForeignClash(m) \/ ForeignPayload(m))
      BY <1>e, <2>6 DEF Resolve, ForeignEdit, ForeignClash, ForeignPayload, Outside
    <2>7. ASSUME NEW w \in Writers, BeginPublish(w) \/ BeginRecover(w) PROVE Atomic!Begin
      <3>1. holder = NoOne /\ holder' = w /\ w # NoOne /\ result' = "none"
        BY <2>7, JournalAssumption DEF BeginPublish, BeginRecover, Acquire
      <3>2. pc' # "cleanup" BY <2>7 DEF BeginPublish, BeginRecover, Acquire
      <3>3. Phase = "idle" /\ Phase' \in {"open", "recovering"} BY <3>1, <3>2 DEF Phase
      <3> QED BY <2>1, <3>1, <3>3 DEF Atomic!Begin
    <2>8. ASSUME NEW w \in Writers, Inspect(w) PROVE UNCHANGED <<Value, Phase, result>>
      BY <2>1, <2>8 DEF Inspect, Phase
    <2> QED
      BY <2>4, <2>5, <2>6, <2>7, <2>8, StepEdits DEF Next, Begin, Others, Atomic!Next
  <1> QED BY <1>1, <1>2

\* As long as nobody else writes the source, the journal is an atomic edit:
\* whatever fails, the source ends in one version, that version changes with
\* the commit marker alone, and no answer claims otherwise.
THEOREM AtomicHolds ==
  ASSUME MaxEdits = 0
  PROVE  Spec => AtomicSpec
  <1> DEFINE Inside == ICaller /\ edits = 0
  <1>1. Init => Inside /\ Atomic!Init
    BY InitCaller, InitAtomic DEF Init
  <1>2. IInv /\ Inside /\ [Next]_vars => Inside' /\ [Atomic!Next]_Atomic!vars
    BY StepCaller, StepEdits, StepAtomic
  <1> HIDE DEF Inside
  <1> QED BY <1>1, <1>2, Invariant, PTL DEF Spec, AtomicSpec, Atomic!Spec

=============================================================================
