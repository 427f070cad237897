---------------------------- MODULE ShelvesProofs ----------------------------
(***************************************************************************)
(* That no failure, crash or repetition of a shelf operation or a switch   *)
(* loses a change, that none reaches another branch, and that an           *)
(* interrupted restoration can be repeated: for any number of branches and *)
(* files.                                                                  *)
(***************************************************************************)
EXTENDS Shelves, TLAPS

(* Phases of a session.                                                    *)
Copying   == {"index", "copy"}
Cleaning  == {"clean", "discard", "remove"}
Reviewing == {"journal", "fill"}
Restoring == Reviewing \cup {"put", "swap"}
Captures  == {"plan", "metadata", "ready"} \cup Copying \cup Cleaning
Owning    == Copying \cup Cleaning \cup Restoring
                \cup {"metadata", "ready", "compare", "consume"}

\* What a session works on: nothing before its plan, afterwards the shelf of
\* the branch checked out, whose metadata.json is there once the cleanup may
\* begin.  Its base is the commit of the branch.
Works ==
    /\ pc \in {"idle", "plan"} => own = NoBranch
    /\ pc = "idle" => to = NoBranch
    /\ pc = "checkout" => to \in Branches
    /\ pc \in Captures => to # head
    /\ pc \in Owning => own = head
    /\ pc \in Copying => shelf[own].meta = "none"
    /\ pc = "metadata" => shelf[own].meta \in {"none", "torn"}
    /\ pc \in Cleaning \cup Restoring => Has(own)
    /\ pc \in Copying \cup Cleaning \cup {"metadata"} => shelf[own].base = tip[own]

\* Every content there is was made before `next`, and no owed one is Absent or
\* that of a temporary copy.
Bounded ==
    /\ 0 < next /\ Scrap < next
    /\ \A v \in owed : 0 < v /\ v < next /\ v # Scrap
    /\ \A p \in Paths : tree[p] < next /\ index[p] < next
    /\ \A b \in Branches, p \in Paths :
           /\ tip[b][p] < next /\ shelf[b].base[p] < next
           /\ shelf[b].image[p] < next /\ shelf[b].index[p] < next

\* What was ever committed is no longer owed.
CommittedFree ==
    \A b \in Branches, p \in Paths : tip[b][p] \notin owed /\ shelf[b].base[p] \notin owed

\* From its capture to its restoration the index holds nothing owed that the
\* payload does not; before the cleanup the payload is complete.
IndexSaved ==
    /\ pc \in {"copy", "metadata"} \cup Cleaning \cup Restoring =>
           \A p \in Paths : index[p] \in owed => index[p] = shelf[own].index[p]
    /\ pc \in {"copy", "metadata"} \cup Cleaning => "index" \in shelf[own].have
    /\ pc \in {"metadata"} \cup Cleaning =>
           \A p \in Paths : index[p] \in owed => index[p] \in shelf[own].kept

\* The same of the file p.
FileSaved(p) == tree[p] \in owed => tree[p] = shelf[own].image[p]
FileKept(p)  == tree[p] \in owed => p \in shelf[own].have

\* The files the session has read and will write are in the shelf.
FilesSaved ==
    /\ pc = "copy" => \A p \in Planned(own) \ left : FileSaved(p) /\ FileKept(p)
    /\ pc \in {"metadata"} \cup Cleaning =>
           \A p \in Planned(own) : FileSaved(p) /\ FileKept(p)
    /\ pc \in Reviewing => \A p \in Planned(own) : FileSaved(p)
    /\ pc = "put" => \A p \in left : FileSaved(p)

\* A loop visits paths of the plan, and only those have an image.
LeftPlanned == pc \in {"copy", "discard", "remove", "put"} => left \subseteq Planned(own)
ImagesPlanned ==
    \A b \in Branches, p \in Paths : p \notin Planned(b) => shelf[b].image[p] = Absent

\* What is about to be consumed is back in the working tree or the index.
Back ==
    pc = "consume" => \A p \in Paths :
        /\ shelf[own].image[p] \in owed => shelf[own].image[p] \in {tree[p], index[p]}
        /\ shelf[own].index[p] \in owed => shelf[own].index[p] = index[p]

SafeInv ==
    /\ TypeOK /\ Works /\ Bounded /\ CommittedFree /\ IndexSaved /\ FilesSaved
    /\ LeftPlanned /\ ImagesPlanned /\ Back /\ NothingLost

\* A temporary copy is beside the plan, and it is of a path still to be put.
CopyInv ==
    /\ pc # "put" => copy = {}
    /\ \A p \in Paths, t \in Temps :
           <<p, t>> \in copy => p \in left /\ tree[t] = Scrap /\ t \notin Planned(own)

\* A shelf holds what was written on its branch, ...
ShelvesAtHome ==
    \A b \in Branches, p \in Paths :
        \A v \in {shelf[b].image[p], shelf[b].index[p]} \cap owed : home[v] \in {b, NoBranch}

\* ... and what a checkout could carry away was written while eska ran.
Leaving == pc = "ready" \/ (pc = "checkout" /\ to # head)
NothingCarried ==
    Leaving => \A p \in Paths : \A v \in {tree[p], index[p]} \cap owed : home[v] = NoBranch

\* Only what is owed has a home.
Unowned == \A v \in Value \ owed : home[v] = NoBranch

HomeInv == ShelvesAtHome /\ NothingCarried /\ Unowned /\ AtHome

\* A shelf that was captured has the index of the base beside its plan.
IndexPlanned ==
    /\ pc = "index" => \A p \in Paths \ Planned(own) : index[p] = shelf[own].base[p]
    /\ pc \in {"copy", "metadata"} =>
           \A p \in Paths \ Planned(own) : shelf[own].index[p] = shelf[own].base[p]
    /\ \A b \in Branches : Has(b) =>
           \A p \in Paths \ Planned(b) : shelf[b].index[p] = shelf[b].base[p]

\* A restoration that began and that nobody disturbed: the commit is the base,
\* and every file is either the one of the commit or the one put back, unless it
\* is a temporary copy.
HalfPut(b) ==
    /\ shelf[b].journal = "whole" /\ shelf[b].rindex = "whole"
    /\ \A p \in Planned(b) : tree[p] \in {shelf[b].image[p], shelf[b].base[p]}
    /\ Dirty \subseteq Planned(b) \cup Temps
    /\ index \in {shelf[b].base, shelf[b].index}

\* The shelf of the branch, and of the target of a switch, is of its commit.
BaseCurrent == ~touched /\ Has(head) => shelf[head].base = tip[head]
TargetCurrent ==
    pc \in Captures \cup {"checkout"} /\ to # NoBranch /\ Has(to) => shelf[to].base = tip[to]

\* Unless the user interferes the repository is clean until the first file is
\* put, half put while files are, and as the shelf has it when that goes.
Undisturbed ==
    /\ ~touched /\ Leaving => Dirty = {}
    /\ ~touched /\ pc \in Reviewing => Dirty = {}
    /\ ~touched /\ pc \in {"put", "swap"} /\ shelf[own].ready => HalfPut(own)
    /\ ~touched /\ pc = "consume" => Matches(own)

\* The journal is written after the image of the index, and a capture has none.
Reviewed ==
    /\ pc = "journal" => shelf[own].journal = "none" /\ shelf[own].rindex # "torn"
    /\ pc = "fill" => \/ shelf[own].journal = "none" /\ shelf[own].rindex = "torn"
                      \/ shelf[own].journal = "torn" /\ shelf[own].rindex = "whole"
    /\ pc \in Captures \ {"plan"} => shelf[own].rindex = "none"
    /\ pc \in (Captures \ {"plan", "ready"}) => ~shelf[own].ready

\* So the next attempt accepts what the last one left, its temporary copies apart.
Acceptable ==
    ~touched /\ Has(head) /\ shelf[head].ready /\ shelf[head].rindex = "whole"
        /\ shelf[head].journal # "torn"
      => Matches(head) \/ RestoreAccepts(head) \/ HalfPut(head)

RepeatInv == IndexPlanned /\ BaseCurrent /\ TargetCurrent /\ Undisturbed /\ Reviewed /\ Acceptable

-----------------------------------------------------------------------------
(* How a step rewrites a shelf.                                            *)

\* What a shelf keeps of its branch.
SameContent(r, s) == r.base = s.base /\ r.kind = s.kind /\ r.image = s.image /\ r.index = s.index
SameContents == \A b \in Branches : SameContent(shelf'[b], shelf[b])

\* Set replaces one shelf.
LEMMA SetShelf ==
  ASSUME shelf \in [Branches -> Shelf], NEW c \in Branches, NEW r \in Shelf, Set(c, r)
  PROVE  /\ shelf' \in [Branches -> Shelf] /\ shelf'[c] = r
         /\ \A b \in Branches \ {c} : shelf'[b] = shelf[b]
  BY Zenon DEF Set

\* metadata.json of a shelf is replaced, its other files stay.
LEMMA WithMeta ==
  ASSUME NEW s \in Shelf, NEW m \in File
  PROVE  LET r == [s EXCEPT !.meta = m]
         IN  /\ r \in Shelf /\ SameContent(r, s) /\ r.meta = m /\ r.have = s.have
             /\ r.kept = s.kept /\ r.ready = s.ready /\ r.journal = s.journal /\ r.rindex = s.rindex
  BY DEF Shelf, SameContent

\* Its reference is replaced.
LEMMA WithKept ==
  ASSUME NEW s \in Shelf, NEW k \in SUBSET Value
  PROVE  LET r == [s EXCEPT !.kept = k]
         IN  /\ r \in Shelf /\ SameContent(r, s) /\ r.meta = s.meta /\ r.have = s.have
             /\ r.kept = k /\ r.ready = s.ready /\ r.journal = s.journal /\ r.rindex = s.rindex
  BY DEF Shelf, SameContent

\* Its payload goes.
LEMMA WithHave ==
  ASSUME NEW s \in Shelf
  PROVE  LET r == [s EXCEPT !.have = {}]
         IN  /\ r \in Shelf /\ SameContent(r, s) /\ r.meta = s.meta /\ r.have = {}
             /\ r.kept = s.kept /\ r.ready = s.ready /\ r.journal = s.journal /\ r.rindex = s.rindex
  BY DEF Shelf, SameContent

\* Its mark `ready` is replaced.
LEMMA WithReady ==
  ASSUME NEW s \in Shelf, NEW y \in BOOLEAN
  PROVE  LET r == [s EXCEPT !.ready = y]
         IN  /\ r \in Shelf /\ SameContent(r, s) /\ r.meta = s.meta /\ r.have = s.have
             /\ r.kept = s.kept /\ r.ready = y /\ r.journal = s.journal /\ r.rindex = s.rindex
  BY DEF Shelf, SameContent

\* Its restore.json is replaced.
LEMMA WithJournal ==
  ASSUME NEW s \in Shelf, NEW j \in File
  PROVE  LET r == [s EXCEPT !.journal = j]
         IN  /\ r \in Shelf /\ SameContent(r, s) /\ r.meta = s.meta /\ r.have = s.have
             /\ r.kept = s.kept /\ r.ready = s.ready /\ r.journal = j /\ r.rindex = s.rindex
  BY DEF Shelf, SameContent

\* Its restore-index is replaced.
LEMMA WithRindex ==
  ASSUME NEW s \in Shelf, NEW j \in File
  PROVE  LET r == [s EXCEPT !.rindex = j]
         IN  /\ r \in Shelf /\ SameContent(r, s) /\ r.meta = s.meta /\ r.have = s.have
             /\ r.kept = s.kept /\ r.ready = s.ready /\ r.journal = s.journal /\ r.rindex = j
  BY DEF Shelf, SameContent

\* Both files of its journal go.
LEMMA WithoutJournal ==
  ASSUME NEW s \in Shelf
  PROVE  LET r == [s EXCEPT !.journal = "none", !.rindex = "none"]
         IN  /\ r \in Shelf /\ SameContent(r, s) /\ r.meta = s.meta /\ r.have = s.have
             /\ r.kept = s.kept /\ r.ready = s.ready /\ r.journal = "none" /\ r.rindex = "none"
  BY DEF Shelf, SameContent, File

\* A shelf that is gone has its type and holds nothing.
LEMMA NoShelfType ==
  /\ NoShelf \in Shelf /\ NoShelf.meta = "none" /\ ~NoShelf.ready /\ NoShelf.rindex = "none"
  /\ NoShelf.have = {} /\ NoShelf.base = NoTree /\ NoShelf.image = NoTree /\ NoShelf.index = NoTree
  /\ \A p \in Paths : NoShelf.kind[p] = "clean"
  BY BoundAssumption DEF Shelf, NoShelf, NoTree, File, Tree, Value, Absent

-----------------------------------------------------------------------------
(* What a step leaves as it was.                                           *)

\* The contents of the repository and of the shelves stay.
LEMMA ContentsFrame ==
  ASSUME SafeInv, SameContents, UNCHANGED <<tip, tree, index, owed, next>>
  PROVE  Bounded' /\ CommittedFree' /\ ImagesPlanned'
<1>1. Bounded'
  BY DEF SafeInv, Bounded, SameContents, SameContent
<1>2. CommittedFree'
  BY DEF SafeInv, CommittedFree, SameContents, SameContent
<1>3. ImagesPlanned'
  BY DEF SafeInv, ImagesPlanned, Planned, Captured, SameContents, SameContent
<1> QED BY <1>1, <1>2, <1>3

\* So does every copy the user can get at.
LEMMA CopiesFrame ==
  ASSUME NothingLost, owed' \subseteq owed, SameContents, UNCHANGED <<tip, tree, index>>,
         \A b \in Branches : Has(b) => /\ Has(b)' /\ shelf'[b].have = shelf[b].have
                                       /\ shelf[b].kept \subseteq shelf'[b].kept
  PROVE  NothingLost'
<1> SUFFICES ASSUME NEW v \in owed', ~Held(v)' PROVE FALSE
  BY DEF NothingLost
<1>1. Held(v)
  BY DEF NothingLost
<1>2. ~InTree(v) /\ ~Staged(v) /\ ~Committed(v)
  BY DEF Held, InTree, Staged, Committed
<1>3. ~ShelvedFile(v)
  BY DEF Held, ShelvedFile, SameContents, SameContent
<1>4. ~ShelvedBlob(v)
  BY DEF Held, ShelvedBlob, SameContents, SameContent
<1> QED BY <1>1, <1>2, <1>3, <1>4 DEF Held

\* A step of the session that leaves the repository alone.
SessionStep == UNCHANGED <<tip, head, tree, index, shelf, owed, home, next>>

\* After it nothing is lost, and no contents differ.
LEMMA SessionFrame ==
  ASSUME SafeInv, SessionStep
  PROVE  SameContents /\ Bounded' /\ CommittedFree' /\ ImagesPlanned' /\ NothingLost'
<1>1. SameContents
  BY DEF SameContents, SameContent, SessionStep
<1>2. Bounded' /\ CommittedFree' /\ ImagesPlanned'
  BY <1>1, ContentsFrame DEF SessionStep
<1>3. \A b \in Branches : Has(b) => /\ Has(b)' /\ shelf'[b].have = shelf[b].have
                                    /\ shelf[b].kept \subseteq shelf'[b].kept
  BY DEF SessionStep, Has
<1>4. NothingLost'
  BY <1>1, <1>3, CopiesFrame DEF SessionStep, SafeInv
<1> QED BY <1>1, <1>2, <1>4

-----------------------------------------------------------------------------
(* SafeInv, one action after the other.  Commands, and the steps of a      *)
(* session that only look.                                                 *)

\* Outside the phases in which the session answers for contents nothing is
\* asked of it.
LEMMA OutsidePhases ==
  ASSUME pc' \in {"idle", "plan", "index", "ready", "checkout", "select", "compare"}
  PROVE  IndexSaved' /\ FilesSaved' /\ LeftPlanned' /\ Back'
  BY DEF IndexSaved, FilesSaved, LeftPlanned, Back, Cleaning, Restoring, Reviewing

\* SafeInv survives the beginning of a command, and RemoveLock.
LEMMA BeginSafe ==
  ASSUME SafeInv,
         BeginShelve \/ RemoveLock \/ \E b \in Branches : BeginUnshelve(b) \/ BeginSwitch(b)
  PROVE  SafeInv'
<1>1. /\ SessionStep /\ pc = "idle" /\ pc' \in {"idle", "plan", "checkout", "select"}
      /\ UNCHANGED <<undo, copy, left, touched>> /\ ilock' \in BOOLEAN /\ follow' \in BOOLEAN
  BY DEF SafeInv, TypeOK, BeginShelve, RemoveLock, BeginUnshelve, BeginSwitch, Has, At, Goto,
         SessionStep, repository, session, history
<1>2. /\ own = NoBranch /\ to = NoBranch /\ head # NoBranch
  BY <1>1, BranchAssumption DEF SafeInv, TypeOK, Works
<1>3. CASE BeginShelve \/ RemoveLock
  <2>1. pc' \in {"idle", "plan"} /\ UNCHANGED <<own, to>>
    BY <1>3 DEF BeginShelve, RemoveLock, At, Goto, session
  <2>2. TypeOK' /\ Works'
    BY <1>1, <1>2, <2>1
       DEF SafeInv, TypeOK, SessionStep, Works, Copying, Cleaning, Restoring, Reviewing,
           Captures, Owning
  <2> QED BY <1>1, <2>2, OutsidePhases, SessionFrame DEF SafeInv
<1>4. ASSUME NEW b \in Branches, BeginUnshelve(b) PROVE SafeInv'
  <2>1. pc' = "select" /\ own' = b /\ to' = to
    BY <1>4 DEF BeginUnshelve, Goto
  <2>2. TypeOK' /\ Works'
    BY <1>1, <2>1, BranchAssumption
       DEF SafeInv, TypeOK, SessionStep, Works, Copying, Cleaning, Restoring, Reviewing,
           Captures, Owning
  <2> QED BY <1>1, <2>2, OutsidePhases, SessionFrame DEF SafeInv
<1>5. ASSUME NEW b \in Branches, BeginSwitch(b) PROVE SafeInv'
  <2>1. pc' \in {"plan", "checkout"} /\ (pc' = "plan" => b # head) /\ to' = b /\ own' = own
    BY <1>5 DEF BeginSwitch, Goto
  <2>2. TypeOK' /\ Works'
    BY <1>1, <1>2, <2>1
       DEF SafeInv, TypeOK, SessionStep, Works, Copying, Cleaning, Restoring, Reviewing,
           Captures, Owning
  <2> QED BY <1>1, <2>2, OutsidePhases, SessionFrame DEF SafeInv
<1> QED BY <1>3, <1>4, <1>5

\* SafeInv survives VerifyClean and StayOnBranch.
LEMMA PassSafe ==
  ASSUME SafeInv, VerifyClean \/ StayOnBranch
  PROVE  SafeInv'
<1>1. /\ SessionStep /\ ilock' = ilock /\ touched' = touched
      /\ pc' \in {"ready", "select", "idle"}
  BY DEF VerifyClean, StayOnBranch, Arrive, Idle, Goto, SessionStep, repository, history
<1>2. TypeOK'
  BY <1>1, BranchAssumption
     DEF SafeInv, TypeOK, Works, VerifyClean, StayOnBranch, Arrive, Idle, Goto, At, SessionStep
<1>3. Works'
  BY <1>1
     DEF SafeInv, TypeOK, Works, VerifyClean, StayOnBranch, Arrive, Idle, Goto, At, SessionStep,
         Copying, Cleaning, Restoring, Reviewing, Captures, Owning
<1> QED BY <1>1, <1>2, <1>3, OutsidePhases, SessionFrame DEF SafeInv

\* SafeInv survives the step from one phase to the next that answers for the
\* same: StartClean, CleanFails, LockIndex.
LEMMA PhaseSafe ==
  ASSUME SafeInv, StartClean \/ CleanFails \/ LockIndex
  PROVE  SafeInv'
<1>1. /\ SessionStep /\ UNCHANGED <<to, follow, own, copy, touched>> /\ ilock' \in BOOLEAN
      /\ undo' \in BOOLEAN
      /\ \/ pc = "clean" /\ pc' = "discard" /\ left' = Captured(own, {"tracked"})
         \/ pc \in Cleaning /\ pc' = "put" /\ left' = Planned(own)
         \/ pc = "put" /\ pc' = "swap" /\ left' = left
  BY DEF SafeInv, TypeOK, StartClean, CleanFails, LockIndex, At, Goto, SessionStep, history,
         Cleaning
<1>2. TypeOK'
  BY <1>1 DEF SafeInv, TypeOK, SessionStep, Planned, Captured, Cleaning
<1>3. Works'
  BY <1>1
     DEF SafeInv, Works, SessionStep, Has, Copying, Cleaning, Restoring, Reviewing, Captures, Owning
<1>4. IndexSaved'
  BY <1>1 DEF SafeInv, IndexSaved, SessionStep, Cleaning, Restoring
<1>5. FilesSaved'
  BY <1>1
     DEF SafeInv, FilesSaved, FileSaved, FileKept, Planned, Captured, SessionStep, Cleaning,
         Reviewing
<1>6. LeftPlanned' /\ Back'
  BY <1>1 DEF LeftPlanned, Back, Planned, Captured, SessionStep
<1> QED BY <1>1, <1>2, <1>3, <1>4, <1>5, <1>6, SessionFrame DEF SafeInv

\* SafeInv survives Select.
LEMMA SelectSafe ==
  ASSUME SafeInv, Select
  PROVE  SafeInv'
<1>1. SessionStep
  BY DEF Select, At, Goto, CanSelect, Has, SessionStep, repository, session, history
<1>2. TypeOK'
  BY <1>1
     DEF SafeInv, TypeOK, Works, Planned, Captured, Owning, Select, At, Goto, CanSelect, Has,
         SessionStep, repository, session, history
<1>3. Works'
  BY <1>1
     DEF SafeInv, TypeOK, Works, Copying, Cleaning, Reviewing, Restoring, Captures, Owning,
         Has, Select, At, Goto, CanSelect, SessionStep, repository, session, history
<1>. USE DEF SafeInv, Select, At, Goto, CanSelect
<1>a. own = head /\ Has(own) /\ shelf[own].base = tip[head] /\ head \in Branches
  BY DEF TypeOK
<1>b. UNCHANGED <<head, tree, index, shelf, own, owed>>
  BY <1>1 DEF SessionStep
<1>c. CASE Matches(own)
  <2>1. pc' = "consume"
    BY <1>c
  <2>2. IndexSaved' /\ FilesSaved' /\ LeftPlanned'
    BY <2>1 DEF IndexSaved, FilesSaved, LeftPlanned, Cleaning, Restoring, Reviewing
  <2>3. \A p \in Paths : shelf[own].image[p] \in owed => shelf[own].image[p] = tree[p]
    BY <1>a, <1>c DEF Matches, ImagesPlanned, Bounded, Absent
  <2>4. Back'
    BY <1>b, <1>c, <2>3 DEF Back, Matches
  <2> QED BY <1>1, <1>2, <1>3, <2>2, <2>4, SessionFrame
<1>d. CASE ~Matches(own)
  <2>1. pc' \in {"put", "journal"} /\ RestoreAccepts(own)
    BY <1>d
  <2>2. \A p \in Paths : index[p] \in owed => index[p] = shelf[own].index[p]
    BY <1>a, <2>1 DEF RestoreAccepts, Dirty, CommittedFree
  <2>3. IndexSaved'
    BY <1>b, <2>1, <2>2 DEF IndexSaved, Cleaning
  <2>4. \A p \in Planned(own) : FileSaved(p)
    BY <1>a, <2>1 DEF RestoreAccepts, Dirty, CommittedFree, FileSaved, Planned, Captured
  <2>5. Planned(own)' = Planned(own) /\ \A p \in Paths : FileSaved(p)' = FileSaved(p)
    BY <1>b DEF FileSaved, Planned, Captured
  <2>6. pc' = "put" => left' = Planned(own)
    BY <1>d
  <2>7. FilesSaved' /\ LeftPlanned'
    BY <2>1, <2>4, <2>5, <2>6 DEF FilesSaved, LeftPlanned, Cleaning, Planned, Captured
  <2>8. Back'
    BY <2>1 DEF Back
  <2> QED BY <1>1, <1>2, <1>3, <2>3, <2>7, <2>8, SessionFrame
<1> QED BY <1>c, <1>d

\* SafeInv survives Compare: what matches the shelf is back.
LEMMA CompareSafe ==
  ASSUME SafeInv, Compare
  PROVE  SafeInv'
<1>1. /\ SessionStep /\ ilock' = ilock /\ touched' = touched /\ pc = "compare" /\ Matches(own)
      /\ own = head /\ own \in Branches
  BY DEF SafeInv, TypeOK, Works, Owning, Compare, SessionStep, repository, history, At
<1>2. CASE pc' = "idle"
  <2>1. TypeOK' /\ Works'
    BY <1>1, <1>2
       DEF SafeInv, TypeOK, Compare, Idle, Goto, SessionStep, Works, Copying, Cleaning,
           Restoring, Reviewing, Captures, Owning
  <2> QED BY <1>1, <1>2, <2>1, OutsidePhases, SessionFrame DEF SafeInv
<1>3. CASE pc' = "consume" /\ UNCHANGED <<to, follow, own, undo, copy, left>>
  <2>1. TypeOK' /\ Works'
    BY <1>1, <1>3
       DEF SafeInv, TypeOK, SessionStep, Works, Copying, Cleaning, Restoring, Reviewing,
           Captures, Owning
  <2>2. IndexSaved' /\ FilesSaved' /\ LeftPlanned'
    BY <1>3 DEF IndexSaved, FilesSaved, LeftPlanned, Cleaning, Restoring, Reviewing
  <2>3. Back'
    BY <1>1, <1>3 DEF SafeInv, ImagesPlanned, Bounded, Absent, Back, Matches, SessionStep
  <2> QED BY <1>1, <2>1, <2>2, <2>3, SessionFrame DEF SafeInv
<1> QED BY <1>2, <1>3 DEF Compare, Idle, Goto

-----------------------------------------------------------------------------
(* Steps that write a file of the shelf and none of the user's.            *)

\* Everything but the session and the shelf it works on stays.
ShelfStep ==
    /\ own \in Branches /\ shelf' \in [Branches -> Shelf]
    /\ \A b \in Branches \ {own} : shelf'[b] = shelf[b]
    /\ UNCHANGED <<tip, head, tree, index, owed, home, touched, next>>

\* Such a step, of a shelf that keeps its contents.
LEMMA ShelfStepMoves ==
  ASSUME SafeInv, own \in Branches, NEW r \in Shelf, Set(own, r), SameContent(r, shelf[own]),
         UNCHANGED <<tip, head, tree, index, owed, home, touched, next>>
  PROVE  ShelfStep /\ SameContents /\ shelf'[own] = r
<1>1. shelf \in [Branches -> Shelf]
  BY DEF SafeInv, TypeOK
<1>2. /\ shelf' \in [Branches -> Shelf] /\ shelf'[own] = r
      /\ \A b \in Branches \ {own} : shelf'[b] = shelf[b]
  BY <1>1, SetShelf
<1>3. SameContents
  BY <1>2 DEF SameContents, SameContent
<1> QED BY <1>2, <1>3 DEF ShelfStep

\* ProtectIndex keeps the blobs of the index as it is now.
LEMMA ProtectIndexMoves ==
  ASSUME SafeInv, ProtectIndex
  PROVE  /\ ShelfStep /\ SameContents /\ shelf'[own].kept = {index[p] : p \in Paths}
         /\ shelf'[own].meta = shelf[own].meta /\ shelf'[own].have = shelf[own].have
         /\ shelf'[own].ready = shelf[own].ready /\ shelf'[own].rindex = shelf[own].rindex
<1>1. /\ own \in Branches /\ shelf[own] \in Shelf /\ {index[p] : p \in Paths} \in SUBSET Value
      /\ UNCHANGED <<tip, head, tree, index, owed, home, touched, next>>
  BY DEF SafeInv, TypeOK, Tree, ProtectIndex, At, history
<1>2. PICK r \in Shelf : /\ Set(own, r) /\ SameContent(r, shelf[own])
                        /\ r.meta = shelf[own].meta /\ r.have = shelf[own].have
                        /\ r.kept = {index[p] : p \in Paths}
                        /\ r.ready = shelf[own].ready /\ r.journal = shelf[own].journal
                        /\ r.rindex = shelf[own].rindex
  BY <1>1, WithKept DEF ProtectIndex
<1>3. ShelfStep /\ SameContents /\ shelf'[own] = r
  BY <1>1, <1>2, ShelfStepMoves
<1> QED BY <1>1, <1>2, <1>3

\* CreateMetadata and FillMetadata leave metadata.json torn and then whole.
LEMMA MetadataMoves ==
  ASSUME SafeInv, CreateMetadata \/ FillMetadata
  PROVE  /\ ShelfStep /\ SameContents
         /\ shelf'[own].meta = IF pc' = "clean" THEN "whole" ELSE "torn"
         /\ shelf'[own].have = shelf[own].have /\ shelf'[own].kept = shelf[own].kept
         /\ shelf'[own].ready = shelf[own].ready /\ shelf'[own].rindex = shelf[own].rindex
         /\ pc = "metadata" /\ pc' \in {"metadata", "clean"}
<1>1. /\ own \in Branches /\ shelf[own] \in Shelf /\ "torn" \in File /\ "whole" \in File
      /\ UNCHANGED <<tip, head, tree, index, owed, home, touched, next>> /\ pc = "metadata"
      /\ CreateMetadata => pc' = "metadata"
      /\ FillMetadata => pc' = "clean"
  BY DEF SafeInv, TypeOK, File, CreateMetadata, FillMetadata, At, Goto, session, history
<1>2. CASE CreateMetadata
  <2>1. PICK r \in Shelf : /\ Set(own, r) /\ SameContent(r, shelf[own])
                          /\ r.meta = "torn" /\ r.have = shelf[own].have
                          /\ r.kept = shelf[own].kept
                          /\ r.ready = shelf[own].ready /\ r.journal = shelf[own].journal
                          /\ r.rindex = shelf[own].rindex
    <3>1. Set(own, [shelf[own] EXCEPT !.meta = "torn"])
      BY <1>2 DEF CreateMetadata
    <3> QED BY <1>1, <3>1, WithMeta
  <2>2. ShelfStep /\ SameContents /\ shelf'[own] = r
    BY <1>1, <2>1, ShelfStepMoves
  <2> QED BY <1>1, <1>2, <2>1, <2>2
<1>3. CASE FillMetadata
  <2>1. PICK r \in Shelf : /\ Set(own, r) /\ SameContent(r, shelf[own])
                          /\ r.meta = "whole" /\ r.have = shelf[own].have
                          /\ r.kept = shelf[own].kept
                          /\ r.ready = shelf[own].ready /\ r.journal = shelf[own].journal
                          /\ r.rindex = shelf[own].rindex
    <3>1. Set(own, [shelf[own] EXCEPT !.meta = "whole"])
      BY <1>3 DEF FillMetadata
    <3> QED BY <1>1, <3>1, WithMeta
  <2>2. ShelfStep /\ SameContents /\ shelf'[own] = r
    BY <1>1, <2>1, ShelfStepMoves
  <2> QED BY <1>1, <1>3, <2>1, <2>2
<1> QED BY <1>2, <1>3

\* MarkReady writes `ready` and nothing else.
LEMMA MarkReadyMoves ==
  ASSUME SafeInv, MarkReady
  PROVE  /\ ShelfStep /\ SameContents /\ shelf'[own].meta = shelf[own].meta
         /\ shelf'[own].have = shelf[own].have /\ shelf'[own].kept = shelf[own].kept
         /\ shelf'[own].rindex = shelf[own].rindex
<1>1. /\ own \in Branches /\ shelf[own] \in Shelf
      /\ UNCHANGED <<tip, head, tree, index, owed, home, touched, next>>
  BY DEF SafeInv, TypeOK, MarkReady, At, history
<1>2. PICK r \in Shelf : /\ Set(own, r) /\ SameContent(r, shelf[own])
                        /\ r.meta = shelf[own].meta /\ r.have = shelf[own].have
                        /\ r.kept = shelf[own].kept
                        /\ r.ready = TRUE /\ r.journal = shelf[own].journal
                        /\ r.rindex = shelf[own].rindex
  BY <1>1, WithReady DEF MarkReady
<1>3. ShelfStep /\ SameContents /\ shelf'[own] = r
  BY <1>1, <1>2, ShelfStepMoves
<1> QED BY <1>1, <1>2, <1>3

\* What the restoration writes before it touches a file: the image of the index
\* and then the journal.
LEMMA JournalMoves ==
  ASSUME SafeInv, CreateIndexImage \/ FillIndexImage \/ CreateJournal \/ FillJournal
  PROVE  /\ ShelfStep /\ SameContents /\ shelf'[own].meta = shelf[own].meta
         /\ shelf'[own].have = shelf[own].have /\ shelf'[own].kept = shelf[own].kept
         /\ shelf'[own].ready = shelf[own].ready /\ UNCHANGED <<to, follow, own, undo, copy>>
         /\ \/ /\ pc = "journal" /\ pc' = "fill" /\ shelf[own].rindex = "none"
               /\ shelf'[own].rindex = "torn" /\ shelf'[own].journal = shelf[own].journal
            \/ /\ pc = "fill" /\ pc' = "journal" /\ shelf[own].rindex = "torn"
               /\ shelf'[own].rindex = "whole" /\ shelf'[own].journal = shelf[own].journal
            \/ /\ pc = "journal" /\ pc' = "fill" /\ shelf[own].rindex = "whole"
               /\ shelf'[own].rindex = shelf[own].rindex /\ shelf'[own].journal = "torn"
            \/ /\ pc = "fill" /\ pc' = "put" /\ shelf[own].journal = "torn"
               /\ shelf'[own].rindex = shelf[own].rindex /\ shelf'[own].journal = "whole"
               /\ left' = Planned(own)
         /\ pc' # "put" => left' = left
<1>1. /\ own \in Branches /\ shelf[own] \in Shelf /\ "torn" \in File /\ "whole" \in File
      /\ UNCHANGED <<tip, head, tree, index, owed, home, touched, next, to, follow, own, undo,
                     copy>>
  BY DEF SafeInv, TypeOK, File, CreateIndexImage, FillIndexImage, CreateJournal, FillJournal,
         At,
         history
<1>2. CASE CreateIndexImage
  <2>1. PICK r \in Shelf : /\ Set(own, r) /\ SameContent(r, shelf[own])
                          /\ r.meta = shelf[own].meta /\ r.have = shelf[own].have
                          /\ r.kept = shelf[own].kept
                          /\ r.ready = shelf[own].ready /\ r.journal = shelf[own].journal
                          /\ r.rindex = "torn"
    <3>1. Set(own, [shelf[own] EXCEPT !.rindex = "torn"])
      BY <1>2 DEF CreateIndexImage
    <3> QED BY <1>1, <3>1, WithRindex
  <2>2. ShelfStep /\ SameContents /\ shelf'[own] = r
    BY <1>1, <2>1, ShelfStepMoves
  <2> QED BY <1>1, <1>2, <2>1, <2>2 DEF CreateIndexImage, At, Goto
<1>3. CASE FillIndexImage
  <2>1. PICK r \in Shelf : /\ Set(own, r) /\ SameContent(r, shelf[own])
                          /\ r.meta = shelf[own].meta /\ r.have = shelf[own].have
                          /\ r.kept = shelf[own].kept
                          /\ r.ready = shelf[own].ready /\ r.journal = shelf[own].journal
                          /\ r.rindex = "whole"
    <3>1. Set(own, [shelf[own] EXCEPT !.rindex = "whole"])
      BY <1>3 DEF FillIndexImage
    <3> QED BY <1>1, <3>1, WithRindex
  <2>2. ShelfStep /\ SameContents /\ shelf'[own] = r
    BY <1>1, <2>1, ShelfStepMoves
  <2> QED BY <1>1, <1>3, <2>1, <2>2 DEF FillIndexImage, At, Goto
<1>4. CASE CreateJournal
  <2>1. PICK r \in Shelf : /\ Set(own, r) /\ SameContent(r, shelf[own])
                          /\ r.meta = shelf[own].meta /\ r.have = shelf[own].have
                          /\ r.kept = shelf[own].kept
                          /\ r.ready = shelf[own].ready /\ r.journal = "torn"
                          /\ r.rindex = shelf[own].rindex
    <3>1. Set(own, [shelf[own] EXCEPT !.journal = "torn"])
      BY <1>4 DEF CreateJournal
    <3> QED BY <1>1, <3>1, WithJournal
  <2>2. ShelfStep /\ SameContents /\ shelf'[own] = r
    BY <1>1, <2>1, ShelfStepMoves
  <2> QED BY <1>1, <1>4, <2>1, <2>2 DEF CreateJournal, At, Goto
<1>5. CASE FillJournal
  <2>1. PICK r \in Shelf : /\ Set(own, r) /\ SameContent(r, shelf[own])
                          /\ r.meta = shelf[own].meta /\ r.have = shelf[own].have
                          /\ r.kept = shelf[own].kept
                          /\ r.ready = shelf[own].ready /\ r.journal = "whole"
                          /\ r.rindex = shelf[own].rindex
    <3>1. Set(own, [shelf[own] EXCEPT !.journal = "whole"])
      BY <1>5 DEF FillJournal
    <3> QED BY <1>1, <3>1, WithJournal
  <2>2. ShelfStep /\ SameContents /\ shelf'[own] = r
    BY <1>1, <2>1, ShelfStepMoves
  <2> QED BY <1>1, <1>5, <2>1, <2>2 DEF FillJournal, At, Goto
<1> QED BY <1>2, <1>3, <1>4, <1>5

\* SafeInv survives ProtectIndex, CreateMetadata and FillMetadata: by the time
\* the shelf can be read its copies are complete.
LEMMA CaptureFlagsSafe ==
  ASSUME SafeInv, ProtectIndex \/ CreateMetadata \/ FillMetadata
  PROVE  SafeInv'
<1>1. /\ ShelfStep /\ SameContents /\ shelf'[own].have = shelf[own].have
      /\ UNCHANGED <<ilock, to, follow, own, undo, copy, left>>
      /\ \/ /\ pc = "copy" /\ pc' = "metadata" /\ left = {} /\ shelf'[own].meta = shelf[own].meta
            /\ shelf'[own].kept = {index[p] : p \in Paths}
         \/ /\ pc = "metadata" /\ pc' = "metadata" /\ shelf'[own].meta = "torn"
            /\ shelf'[own].kept = shelf[own].kept
         \/ /\ pc = "metadata" /\ pc' = "clean" /\ shelf'[own].meta = "whole"
            /\ shelf'[own].kept = shelf[own].kept
  <2>1. CASE ProtectIndex
    BY <2>1, ProtectIndexMoves DEF ProtectIndex, At, Goto
  <2>2. CASE CreateMetadata \/ FillMetadata
    BY <2>2, MetadataMoves DEF CreateMetadata, FillMetadata, At, Goto, session
  <2> QED BY <2>1, <2>2
<1>2. /\ SameContent(shelf'[own], shelf[own]) /\ ~Has(own) /\ own \in Branches
      /\ shelf[own].meta \in {"none", "torn"}
  BY <1>1 DEF ShelfStep, SameContents, SafeInv, Works, Copying, Has
<1>3. Bounded' /\ CommittedFree' /\ ImagesPlanned'
  BY <1>1, ContentsFrame DEF ShelfStep
<1>4. NothingLost'
  BY <1>1, <1>2, CopiesFrame DEF SafeInv, ShelfStep, Has
<1>5. TypeOK'
  BY <1>1 DEF SafeInv, ShelfStep, TypeOK
<1>6. Works'
  BY <1>1, <1>2
     DEF SafeInv, ShelfStep, Works, Has, SameContent, Copying, Cleaning, Restoring, Reviewing,
         Captures, Owning
<1>7. IndexSaved'
  BY <1>1, <1>2 DEF SafeInv, ShelfStep, IndexSaved, SameContent, Cleaning, Restoring, Reviewing
<1>8. FilesSaved'
  BY <1>1, <1>2
     DEF SafeInv, ShelfStep, FilesSaved, FileSaved, FileKept, Planned, Captured, SameContent,
         Cleaning, Reviewing
<1>9. LeftPlanned' /\ Back'
  BY <1>1 DEF LeftPlanned, Back
<1> QED BY <1>3, <1>4, <1>5, <1>6, <1>7, <1>8, <1>9 DEF SafeInv

\* SafeInv survives MarkReady.
LEMMA MarkReadySafe ==
  ASSUME SafeInv, MarkReady
  PROVE  SafeInv'
<1>1. /\ ShelfStep /\ SameContents /\ shelf'[own].meta = shelf[own].meta
      /\ shelf'[own].have = shelf[own].have /\ shelf'[own].kept = shelf[own].kept
  BY MarkReadyMoves
<1>2. /\ pc = "ready" /\ ilock' = ilock
      /\ \/ pc' = "checkout" /\ to # NoBranch /\ UNCHANGED <<to, follow, own, undo, copy, left>>
         \/ /\ pc' = "idle" /\ to' = NoBranch /\ own' = NoBranch /\ follow' = FALSE
            /\ undo' = FALSE /\ left' = {} /\ copy' = {}
  BY DEF MarkReady, At, Goto, Idle
<1>3. Bounded' /\ CommittedFree' /\ ImagesPlanned'
  BY <1>1, ContentsFrame DEF ShelfStep
<1>4. NothingLost'
  BY <1>1, CopiesFrame DEF SafeInv, ShelfStep, Has
<1>5. TypeOK'
  BY <1>1, <1>2 DEF SafeInv, ShelfStep, TypeOK
<1>6. Works'
  BY <1>1, <1>2
     DEF SafeInv, TypeOK, ShelfStep, Works, Copying, Cleaning, Restoring, Reviewing, Captures,
         Owning
<1> QED BY <1>2, <1>3, <1>4, <1>5, <1>6, OutsidePhases DEF SafeInv

\* SafeInv survives the writing of the journal.
LEMMA JournalSafe ==
  ASSUME SafeInv, CreateIndexImage \/ FillIndexImage \/ CreateJournal \/ FillJournal
  PROVE  SafeInv'
<1>1. /\ ShelfStep /\ SameContents /\ shelf'[own].meta = shelf[own].meta
      /\ shelf'[own].have = shelf[own].have /\ shelf'[own].kept = shelf[own].kept
      /\ UNCHANGED <<to, follow, own, undo, copy>>
      /\ pc \in Reviewing /\ pc' \in {"fill", "journal", "put"}
      /\ left' = IF pc' = "put" THEN Planned(own) ELSE left
  BY JournalMoves DEF Reviewing
<1>2. SameContent(shelf'[own], shelf[own]) /\ own \in Branches /\ Has(own)
  BY <1>1 DEF ShelfStep, SameContents, SafeInv, Works, Restoring
<1>3. Bounded' /\ CommittedFree' /\ ImagesPlanned'
  BY <1>1, ContentsFrame DEF ShelfStep
<1>4. NothingLost'
  BY <1>1, CopiesFrame DEF SafeInv, ShelfStep, Has
<1>5. ilock' = ilock
  BY DEF CreateIndexImage, FillIndexImage, CreateJournal, FillJournal
<1>6. TypeOK'
  BY <1>1, <1>5 DEF SafeInv, ShelfStep, TypeOK, Planned, Captured, Reviewing
<1>7. Works'
  BY <1>1, <1>2
     DEF SafeInv, ShelfStep, Works, Has, Copying, Cleaning, Restoring, Reviewing, Captures, Owning
<1>8. IndexSaved' /\ Back'
  BY <1>1, <1>2
     DEF SafeInv, ShelfStep, IndexSaved, Back, SameContent, Cleaning, Restoring, Reviewing
<1>9. Planned(own)' = Planned(own) /\ Planned(own) \subseteq Paths
  BY <1>1, <1>2 DEF Planned, Captured, SameContent
<1>10. \A p \in Planned(own) : FileSaved(p)'
  BY <1>1, <1>2, <1>9 DEF SafeInv, ShelfStep, FilesSaved, FileSaved, SameContent
<1>11. FilesSaved' /\ LeftPlanned'
  BY <1>1, <1>9, <1>10 DEF FilesSaved, LeftPlanned, Cleaning, Reviewing
<1> QED BY <1>3, <1>4, <1>6, <1>7, <1>8, <1>11 DEF SafeInv

-----------------------------------------------------------------------------
(* Steps that take files of a shelf away, or the shelf itself.             *)

\* The working tree differs in nothing but temporary copies.
OnlyCopies ==
    \A p \in Paths : \/ tree'[p] = tree[p]
                     \/ p \in Temps /\ {tree[p], tree'[p]} \subseteq {Absent, Scrap}

\* Nobody owes them.
LEMMA CopiesUnowed ==
  ASSUME SafeInv, OnlyCopies
  PROVE  \A p \in Paths : tree[p] \in owed \/ tree'[p] \in owed => tree'[p] = tree[p]
  BY DEF SafeInv, Bounded, OnlyCopies, Absent

\* Only what can be read of a shelf counts, and what is consumed is back.
LEMMA DroppedFrame ==
  ASSUME SafeInv, owed' \subseteq owed, UNCHANGED <<tip, index>>,
         \A p \in Paths : tree[p] \in owed => tree'[p] = tree[p],
         \A b \in Branches : shelf'[b] = shelf[b] \/ ~Has(b) \/ (pc = "consume" /\ b = own)
  PROVE  NothingLost'
<1> SUFFICES ASSUME NEW v \in owed', ~Held(v)' PROVE FALSE
  BY DEF NothingLost
<1>1. Held(v) /\ v \in owed
  BY DEF SafeInv, NothingLost
<1>2. ~InTree(v) /\ ~Staged(v) /\ ~Committed(v)
  <2>1. ~Staged(v) /\ ~Committed(v)
    BY DEF Held, Staged, Committed
  <2>2. ~InTree(v)
    <3> SUFFICES ASSUME NEW p \in Paths, tree[p] = v PROVE FALSE
      BY DEF InTree
    <3>1. tree'[p] = v
      BY <1>1
    <3> QED BY <3>1 DEF Held, InTree
  <2> QED BY <2>1, <2>2
<1>3. ~ShelvedFile(v)
  <2> SUFFICES ASSUME NEW b \in Branches, NEW p \in Paths, Has(b), p \in shelf[b].have,
                      shelf[b].image[p] = v
               PROVE FALSE
    BY DEF ShelvedFile
  <2>1. CASE shelf'[b] = shelf[b]
    <3>1. ShelvedFile(v)'
      BY <2>1 DEF ShelvedFile, Has
    <3> QED BY <3>1 DEF Held
  <2>2. CASE pc = "consume" /\ b = own
    BY <1>1, <1>2, <2>2 DEF SafeInv, Back, InTree, Staged
  <2> QED BY <2>1, <2>2
<1>4. ~ShelvedBlob(v)
  <2> SUFFICES ASSUME NEW b \in Branches, NEW p \in Paths, Has(b), "index" \in shelf[b].have,
                      shelf[b].index[p] = v, v \in shelf[b].kept
               PROVE FALSE
    BY DEF ShelvedBlob
  <2>1. CASE shelf'[b] = shelf[b]
    <3>1. ShelvedBlob(v)'
      BY <2>1 DEF ShelvedBlob, Has
    <3> QED BY <3>1 DEF Held
  <2>2. CASE pc = "consume" /\ b = own
    BY <1>1, <1>2, <2>2 DEF SafeInv, Back, Staged
  <2> QED BY <2>1, <2>2
<1> QED BY <1>1, <1>2, <1>3, <1>4 DEF Held

\* ConsumeFiles takes no contents and no metadata.json.
LEMMA ConsumeFilesMoves ==
  ASSUME SafeInv, ConsumeFiles
  PROVE  /\ ShelfStep /\ SameContents /\ pc = "consume" /\ own = head
         /\ shelf'[own].meta = shelf[own].meta /\ UNCHANGED <<ilock, session>>
<1>1. /\ own \in Branches /\ shelf \in [Branches -> Shelf] /\ shelf[own] \in Shelf
      /\ pc = "consume" /\ own = head
  BY DEF SafeInv, TypeOK, Works, Owning, ConsumeFiles, At
<1>2. PICK r \in Shelf : Set(own, r) /\ SameContent(r, shelf[own]) /\ r.meta = shelf[own].meta
  <2>1. CASE Set(own, [shelf[own] EXCEPT !.have = {}])
    BY <1>1, <2>1, WithHave
  <2>2. CASE Set(own, [shelf[own] EXCEPT !.ready = FALSE])
    BY <1>1, <2>2, WithReady
  <2>3. CASE Set(own, [shelf[own] EXCEPT !.journal = "none", !.rindex = "none"])
    BY <1>1, <2>3, WithoutJournal
  <2> QED BY <2>1, <2>2, <2>3 DEF ConsumeFiles
<1>3. /\ shelf' \in [Branches -> Shelf] /\ shelf'[own] = r
      /\ \A b \in Branches \ {own} : shelf'[b] = shelf[b]
  BY <1>1, <1>2, SetShelf
<1>4. SameContents
  BY <1>2, <1>3 DEF SameContents, SameContent
<1>5. UNCHANGED <<tip, head, tree, index, ilock, session, owed, home, touched, next>>
  BY DEF ConsumeFiles, history
<1> QED BY <1>1, <1>2, <1>3, <1>4, <1>5 DEF ShelfStep

\* SafeInv survives ConsumeFiles.
LEMMA ConsumeFilesSafe ==
  ASSUME SafeInv, ConsumeFiles
  PROVE  SafeInv'
<1>1. /\ ShelfStep /\ SameContents /\ pc = "consume" /\ own = head
      /\ UNCHANGED <<ilock, session>>
  BY ConsumeFilesMoves
<1>2. Bounded' /\ CommittedFree' /\ ImagesPlanned'
  BY <1>1, ContentsFrame DEF ShelfStep
<1>3. NothingLost'
  BY <1>1, DroppedFrame DEF ShelfStep
<1>4. TypeOK'
  BY <1>1 DEF SafeInv, TypeOK, ShelfStep, session
<1>5. Works'
  BY <1>1 DEF SafeInv, Works, ShelfStep, session, Copying, Cleaning, Reviewing, Restoring,
              Captures, Owning
<1>6. IndexSaved' /\ FilesSaved' /\ LeftPlanned'
  BY <1>1 DEF IndexSaved, FilesSaved, LeftPlanned, session, Cleaning, Reviewing, Restoring
<1>7. Back'
  <2>1. SameContent(shelf'[own], shelf[own])
    BY <1>1 DEF ShelfStep, SameContents
  <2> QED BY <1>1, <2>1 DEF SafeInv, Back, ShelfStep, SameContent, session
<1> QED BY <1>2, <1>3, <1>4, <1>5, <1>6, <1>7 DEF SafeInv

\* A shelf that is gone holds nothing, so nothing it held can be wrong.
LEMMA GoneFrame ==
  ASSUME SafeInv, UNCHANGED <<tip, head, index, owed, next>>, OnlyCopies,
         shelf' \in [Branches -> Shelf],
         \A b \in Branches : shelf'[b] \in {shelf[b], NoShelf},
         \A b \in Branches : shelf'[b] = shelf[b] \/ ~Has(b) \/ (pc = "consume" /\ b = own),
         pc' = "idle", own' = NoBranch, to' = NoBranch
  PROVE  /\ Works' /\ Bounded' /\ CommittedFree' /\ IndexSaved' /\ FilesSaved'
         /\ LeftPlanned' /\ ImagesPlanned' /\ Back' /\ NothingLost'
<1>1. Works' /\ IndexSaved' /\ FilesSaved' /\ LeftPlanned' /\ Back'
  BY DEF Works, IndexSaved, FilesSaved, LeftPlanned, Back, Copying, Cleaning, Reviewing,
         Restoring, Captures, Owning
<1>2. /\ \A p \in Paths : NoTree[p] = Absent
      /\ 0 < next
  BY DEF SafeInv, Bounded, NoTree
<1>3. Bounded'
  <2>1. \A p \in Paths : tree'[p] < next
    BY <1>2 DEF SafeInv, Bounded, OnlyCopies, Absent
  <2> QED BY <1>2, <2>1, NoShelfType DEF SafeInv, Bounded, Absent
<1>4. CommittedFree'
  BY <1>2, NoShelfType DEF SafeInv, CommittedFree, Bounded, Absent
<1>5. ImagesPlanned'
  BY <1>2, NoShelfType DEF SafeInv, ImagesPlanned, Planned, Captured
<1>6. NothingLost'
  BY CopiesUnowed, DroppedFrame
<1> QED BY <1>1, <1>3, <1>4, <1>5, <1>6

\* How a shelf goes: it is consumed, it was never complete, or it is torn.  A
\* restoration that gives up takes its temporary copy with it.
LEMMA GoneMoves ==
  ASSUME SafeInv, CopyInv,
         ConsumeMetadata \/ GiveUp \/ Crash \/ \E b \in Branches : RemoveTorn(b)
  PROVE  /\ UNCHANGED <<tip, head, index, owed, home, touched, next>>
         /\ OnlyCopies /\ tree' \in Tree
         /\ \/ tree' = tree
            \/ pc = "put" /\ \A p \in Planned(own) : tree'[p] = tree[p]
         /\ pc' = "idle" /\ own' = NoBranch /\ to' = NoBranch
         /\ shelf' \in [Branches -> Shelf]
         /\ \A b \in Branches : shelf'[b] \in {shelf[b], NoShelf}
         /\ \A b \in Branches : shelf'[b] = shelf[b] \/ ~Has(b) \/ (pc = "consume" /\ b = own)
<1>1. UNCHANGED <<tip, head, index, owed, home, touched, next>>
  BY DEF ConsumeMetadata, GiveUp, Crash, RemoveTorn, history
<1>2. pc' = "idle" /\ own' = NoBranch /\ to' = NoBranch
  BY DEF SafeInv, Works, ConsumeMetadata, GiveUp, Crash, RemoveTorn, Idle, At, session
<1>3. shelf \in [Branches -> Shelf] /\ tree \in Tree
  BY DEF SafeInv, TypeOK
<1>4. /\ OnlyCopies /\ tree' \in Tree
      /\ \/ tree' = tree
         \/ pc = "put" /\ \A p \in Planned(own) : tree'[p] = tree[p]
  <2>1. CASE tree' = tree
    BY <1>3, <2>1 DEF OnlyCopies
  <2>2. CASE tree' = [p \in Paths |-> IF \E q \in left : copy = {<<q, p>>} THEN Absent ELSE tree[p]]
    <3>1. ASSUME NEW p \in Paths, tree'[p] # tree[p]
          PROVE  /\ p \in Temps /\ tree[p] = Scrap /\ tree'[p] = Absent
                 /\ pc = "put" /\ p \notin Planned(own)
      <4>1. tree'[p] = Absent /\ \E q \in left : copy = {<<q, p>>}
        BY <2>2, <3>1
      <4>2. PICK q \in left : copy = {<<q, p>>}
        BY <4>1
      <4>3. <<q, p>> \in copy /\ copy # {}
        BY <4>2
      <4>4. q \in Paths /\ p \in Temps
        BY <4>3 DEF SafeInv, TypeOK
      <4> QED BY <4>1, <4>3, <4>4 DEF CopyInv
    <3>2. tree' \in Tree
      BY <1>3, <2>2, BoundAssumption DEF Tree, Value, Absent
    <3>3. \A p \in Planned(own) : tree'[p] = tree[p]
      BY <3>1 DEF Planned, Captured
    <3>4. (\A p \in Paths : tree'[p] = tree[p]) => tree' = tree
      BY <1>3, <3>2 DEF Tree
    <3>5. tree' = tree \/ pc = "put"
      BY <3>1, <3>4
    <3>6. OnlyCopies
      BY <3>1 DEF OnlyCopies
    <3> QED BY <3>2, <3>3, <3>5, <3>6
  <2> QED BY <2>1, <2>2 DEF ConsumeMetadata, GiveUp, Crash, RemoveTorn
<1>5. CASE GiveUp \/ Crash
  <2>1. shelf' = [b \in Branches |-> IF shelf[b].meta = "none" THEN NoShelf ELSE shelf[b]]
    BY <1>5 DEF GiveUp, Crash
  <2> QED BY <1>1, <1>2, <1>3, <1>4, <2>1, NoShelfType DEF Has
<1>6. CASE ConsumeMetadata
  <2>1. own \in Branches /\ pc = "consume" /\ Set(own, NoShelf)
    BY <1>6 DEF SafeInv, TypeOK, ConsumeMetadata, At
  <2> QED BY <1>1, <1>2, <1>3, <1>4, <2>1, NoShelfType, SetShelf
<1>7. ASSUME NEW b \in Branches, RemoveTorn(b)
      PROVE  /\ shelf' \in [Branches -> Shelf] /\ shelf'[b] = NoShelf /\ ~Has(b)
             /\ \A d \in Branches \ {b} : shelf'[d] = shelf[d]
  BY <1>3, <1>7, NoShelfType, SetShelf DEF RemoveTorn, Has
<1> QED BY <1>1, <1>2, <1>4, <1>5, <1>6, <1>7

\* SafeInv survives it.
LEMMA GoneSafe ==
  ASSUME SafeInv, CopyInv,
         ConsumeMetadata \/ GiveUp \/ Crash \/ \E b \in Branches : RemoveTorn(b)
  PROVE  SafeInv'
<1>1. /\ UNCHANGED <<tip, head, index, owed, home, touched, next>>
      /\ OnlyCopies /\ tree' \in Tree
      /\ pc' = "idle" /\ own' = NoBranch /\ to' = NoBranch
      /\ shelf' \in [Branches -> Shelf]
      /\ \A b \in Branches : shelf'[b] \in {shelf[b], NoShelf}
      /\ \A b \in Branches : shelf'[b] = shelf[b] \/ ~Has(b) \/ (pc = "consume" /\ b = own)
  BY GoneMoves
<1>2. /\ ilock' \in BOOLEAN /\ follow' \in BOOLEAN /\ undo' \in BOOLEAN /\ left' \subseteq Paths
      /\ copy' \subseteq Paths \X Temps
  BY DEF SafeInv, TypeOK, ConsumeMetadata, GiveUp, Crash, RemoveTorn, Idle, session
<1>3. TypeOK'
  BY <1>1, <1>2 DEF SafeInv, TypeOK
<1> QED BY <1>1, <1>3, GoneFrame DEF SafeInv

-----------------------------------------------------------------------------
(* The capture.                                                            *)

\* Plan begins an empty shelf of the branch checked out.
LEMMA PlanMoves ==
  ASSUME SafeInv, Plan
  PROVE  /\ head \in Branches /\ ~Has(head) /\ to # head /\ pc' = "index" /\ own' = head
         /\ shelf' \in [Branches -> Shelf] /\ \A b \in Branches \ {head} : shelf'[b] = shelf[b]
         /\ shelf'[head].base = tip[head] /\ shelf'[head].image = NoTree
         /\ shelf'[head].index = NoTree /\ \A p \in Paths : shelf'[head].kind[p] = Kind(p)
         /\ shelf'[head].meta = "none" /\ ~shelf'[head].ready /\ shelf'[head].rindex = "none"
         /\ UNCHANGED <<tip, head, tree, index, ilock, to, follow, undo, copy, left, owed, home,
                        touched, next>>
<1>. DEFINE r == [NoShelf EXCEPT !.base = tip[head], !.kind = [p \in Paths |-> Kind(p)]]
<1>1. /\ head \in Branches /\ shelf \in [Branches -> Shelf] /\ tip[head] \in Tree
      /\ ~Has(head) /\ to # head
  BY DEF SafeInv, TypeOK, Works, Captures, Plan, CanPlan, At
<1>2. [p \in Paths |-> Kind(p)] \in [Paths -> {"clean", "tracked", "untracked"}]
  BY DEF Kind
<1>3. /\ r \in Shelf /\ r.base = tip[head] /\ r.image = NoTree /\ r.index = NoTree
      /\ r.meta = "none" /\ ~r.ready /\ r.rindex = "none" /\ r.kind = [p \in Paths |-> Kind(p)]
  BY <1>1, <1>2, NoShelfType DEF Shelf, NoShelf
<1>4. Set(head, r) /\ pc' = "index" /\ own' = head
  BY DEF Plan, Goto
<1>5. \A p \in Paths : r.kind[p] = Kind(p)
  BY <1>3
<1>. HIDE DEF r
<1>6. /\ shelf' \in [Branches -> Shelf] /\ shelf'[head] = r
      /\ \A b \in Branches \ {head} : shelf'[b] = shelf[b]
  BY <1>1, <1>3, <1>4, SetShelf
<1>7. UNCHANGED <<tip, head, tree, index, ilock, to, follow, undo, copy, left, owed, home, touched,
                  next>>
  BY DEF Plan, history
<1> QED BY <1>1, <1>3, <1>4, <1>5, <1>6, <1>7

\* SafeInv survives Plan: the shelf it replaces is none that can be read.
LEMMA PlanSafe ==
  ASSUME SafeInv, Plan
  PROVE  SafeInv'
<1>1. /\ head \in Branches /\ ~Has(head) /\ to # head /\ pc' = "index" /\ own' = head
      /\ shelf' \in [Branches -> Shelf] /\ \A b \in Branches \ {head} : shelf'[b] = shelf[b]
      /\ shelf'[head].base = tip[head] /\ shelf'[head].image = NoTree
      /\ shelf'[head].index = NoTree /\ shelf'[head].meta = "none"
      /\ UNCHANGED <<tip, head, tree, index, ilock, to, follow, undo, copy, left, owed, home,
                     touched, next>>
  BY PlanMoves
<1>2. TypeOK'
  BY <1>1, BranchAssumption DEF SafeInv, TypeOK
<1>3. Works'
  BY <1>1 DEF SafeInv, Works, Copying, Cleaning, Reviewing, Restoring, Captures, Owning
<1>4. \A p \in Paths : NoTree[p] = Absent
  BY DEF NoTree
<1>5. Bounded' /\ CommittedFree'
  BY <1>1, <1>4 DEF SafeInv, Bounded, CommittedFree, Absent
<1>6. ImagesPlanned'
  BY <1>1, <1>4 DEF SafeInv, ImagesPlanned, Planned, Captured
<1>7. IndexSaved' /\ FilesSaved' /\ LeftPlanned' /\ Back'
  BY <1>1 DEF IndexSaved, FilesSaved, LeftPlanned, Back, Cleaning, Reviewing, Restoring
<1>8. NothingLost'
  BY <1>1, DroppedFrame
<1> QED BY <1>2, <1>3, <1>5, <1>6, <1>7, <1>8 DEF SafeInv

\* CopyIndex takes the index into the shelf and leaves every path to copy.
LEMMA CopyIndexMoves ==
  ASSUME SafeInv, CopyIndex
  PROVE  /\ own \in Branches /\ own = head /\ to # head /\ pc = "index" /\ pc' = "copy"
         /\ left' = Planned(own)
         /\ shelf' \in [Branches -> Shelf] /\ \A b \in Branches \ {own} : shelf'[b] = shelf[b]
         /\ shelf'[own].base = shelf[own].base /\ shelf'[own].base = tip[own]
         /\ shelf'[own].kind = shelf[own].kind /\ shelf'[own].image = shelf[own].image
         /\ shelf'[own].index = index /\ shelf'[own].have = {"index"}
         /\ shelf[own].meta = "none" /\ shelf'[own].meta = "none"
         /\ shelf'[own].ready = shelf[own].ready /\ shelf'[own].rindex = shelf[own].rindex
         /\ UNCHANGED <<tip, head, tree, index, ilock, to, follow, own, undo, copy, owed, home,
                        touched, next>>
<1>. DEFINE r == [shelf[own] EXCEPT !.index = index, !.have = {"index"}]
<1>1. /\ own \in Branches /\ shelf \in [Branches -> Shelf] /\ shelf[own] \in Shelf /\ index \in Tree
      /\ own = head /\ shelf[own].meta = "none" /\ shelf[own].base = tip[own] /\ to # head
  BY DEF SafeInv, TypeOK, Works, Copying, Captures, Owning, CopyIndex, At
<1>2. /\ r \in Shelf /\ r.base = shelf[own].base /\ r.image = shelf[own].image /\ r.index = index
      /\ r.kind = shelf[own].kind /\ r.meta = "none" /\ r.have = {"index"}
      /\ r.ready = shelf[own].ready /\ r.rindex = shelf[own].rindex
  BY <1>1 DEF Shelf, Payload
<1>3. Set(own, r) /\ pc = "index" /\ pc' = "copy" /\ left' = Planned(own)
  BY DEF CopyIndex, Goto, At
<1>. HIDE DEF r
<1>4. /\ shelf' \in [Branches -> Shelf] /\ shelf'[own] = r
      /\ \A b \in Branches \ {own} : shelf'[b] = shelf[b]
  BY <1>1, <1>2, <1>3, SetShelf
<1>5. UNCHANGED <<tip, head, tree, index, ilock, to, follow, own, undo, copy, owed, home, touched,
                  next>>
  BY DEF CopyIndex, history
<1> QED BY <1>1, <1>2, <1>3, <1>4, <1>5

\* SafeInv survives CopyIndex: from here on the payload has the index.
LEMMA CopyIndexSafe ==
  ASSUME SafeInv, CopyIndex
  PROVE  SafeInv'
<1>1. /\ own \in Branches /\ own = head /\ to # head /\ pc' = "copy" /\ left' = Planned(own)
      /\ shelf' \in [Branches -> Shelf] /\ \A b \in Branches \ {own} : shelf'[b] = shelf[b]
      /\ shelf'[own].base = shelf[own].base /\ shelf'[own].base = tip[own]
      /\ shelf'[own].kind = shelf[own].kind /\ shelf'[own].image = shelf[own].image
      /\ shelf'[own].index = index /\ shelf'[own].have = {"index"}
      /\ shelf[own].meta = "none" /\ shelf'[own].meta = "none"
      /\ UNCHANGED <<tip, head, tree, index, ilock, to, follow, own, undo, copy, owed, home,
                     touched, next>>
  BY CopyIndexMoves
<1>2. Planned(own)' = Planned(own) /\ Planned(own) \subseteq Paths
  BY <1>1 DEF Planned, Captured
<1>3. TypeOK'
  BY <1>1, <1>2, BranchAssumption DEF SafeInv, TypeOK
<1>4. Works'
  BY <1>1 DEF SafeInv, Works, Copying, Cleaning, Reviewing, Restoring, Captures, Owning
<1>5. Bounded' /\ CommittedFree'
  BY <1>1 DEF SafeInv, Bounded, CommittedFree
<1>6. ImagesPlanned'
  BY <1>1 DEF SafeInv, ImagesPlanned, Planned, Captured
<1>7. IndexSaved' /\ Back'
  BY <1>1 DEF IndexSaved, Back, Cleaning, Restoring, Reviewing
<1>8. FilesSaved' /\ LeftPlanned'
  BY <1>1, <1>2 DEF FilesSaved, LeftPlanned, Cleaning, Reviewing
<1>9. NothingLost'
  BY <1>1, DroppedFrame DEF Has
<1> QED BY <1>3, <1>4, <1>5, <1>6, <1>7, <1>8, <1>9 DEF SafeInv

\* CopyPath takes the bytes of one file.
LEMMA CopyPathMoves ==
  ASSUME SafeInv, NEW p \in Paths, CopyPath(p)
  PROVE  /\ own \in Branches /\ own = head /\ pc = "copy" /\ pc' = "copy"
         /\ p \in left /\ left' = left \ {p}
         /\ shelf' \in [Branches -> Shelf] /\ \A b \in Branches \ {own} : shelf'[b] = shelf[b]
         /\ shelf'[own].base = shelf[own].base /\ shelf'[own].kind = shelf[own].kind
         /\ shelf'[own].index = shelf[own].index
         /\ shelf'[own].image[p] = tree[p]
         /\ \A q \in Paths \ {p} : shelf'[own].image[q] = shelf[own].image[q]
         /\ shelf'[own].have = shelf[own].have \cup (IF tree[p] = Absent THEN {} ELSE {p})
         /\ shelf[own].meta = "none" /\ shelf'[own].meta = "none"
         /\ shelf'[own].ready = shelf[own].ready /\ shelf'[own].rindex = shelf[own].rindex
         /\ UNCHANGED <<tip, head, tree, index, ilock, pc, to, follow, own, undo, copy, owed, home,
                        touched, next>>
<1>. DEFINE r == [shelf[own] EXCEPT !.image[p] = tree[p],
                                    !.have = @ \cup (IF tree[p] = Absent THEN {} ELSE {p})]
<1>1. /\ own \in Branches /\ shelf \in [Branches -> Shelf] /\ shelf[own] \in Shelf
      /\ tree \in Tree /\ own = head /\ shelf[own].meta = "none"
  BY DEF SafeInv, TypeOK, Works, Copying, Owning, CopyPath, At
<1>2. shelf[own].image \in Tree /\ tree[p] \in Value /\ shelf[own].have \subseteq Payload
  BY <1>1 DEF Shelf, Tree
<1>3. [shelf[own].image EXCEPT ![p] = tree[p]] \in Tree
  BY <1>2 DEF Tree
<1>4. /\ r.base = shelf[own].base /\ r.index = shelf[own].index /\ r.kind = shelf[own].kind
      /\ r.meta = "none" /\ r.image = [shelf[own].image EXCEPT ![p] = tree[p]]
      /\ r.have = shelf[own].have \cup (IF tree[p] = Absent THEN {} ELSE {p})
      /\ r.ready = shelf[own].ready /\ r.rindex = shelf[own].rindex
  BY <1>1 DEF Shelf
<1>5. r \in Shelf
  BY <1>1, <1>2, <1>3 DEF Shelf, Payload
<1>6. Set(own, r) /\ pc = "copy" /\ pc' = "copy" /\ left' = left \ {p} /\ p \in left
  BY DEF CopyPath, At
<1>. HIDE DEF r
<1>7. /\ shelf' \in [Branches -> Shelf] /\ shelf'[own] = r
      /\ \A b \in Branches \ {own} : shelf'[b] = shelf[b]
  BY <1>1, <1>5, <1>6, SetShelf
<1>8. UNCHANGED <<tip, head, tree, index, ilock, pc, to, follow, own, undo, copy, owed, home,
                  touched, next>>
  BY DEF CopyPath, history
<1>9. /\ shelf'[own].image[p] = tree[p]
      /\ \A q \in Paths \ {p} : shelf'[own].image[q] = shelf[own].image[q]
  BY <1>2, <1>4, <1>7 DEF Tree
<1> QED BY <1>1, <1>4, <1>6, <1>7, <1>8, <1>9

\* SafeInv survives CopyPath: the payload has one more file.
LEMMA CopyPathSafe ==
  ASSUME SafeInv, NEW p \in Paths, CopyPath(p)
  PROVE  SafeInv'
<1>1. /\ own \in Branches /\ own = head /\ pc = "copy" /\ pc' = "copy"
      /\ p \in left /\ left' = left \ {p}
      /\ shelf' \in [Branches -> Shelf] /\ \A b \in Branches \ {own} : shelf'[b] = shelf[b]
      /\ shelf'[own].base = shelf[own].base /\ shelf'[own].kind = shelf[own].kind
      /\ shelf'[own].index = shelf[own].index
      /\ shelf'[own].image[p] = tree[p]
      /\ \A q \in Paths \ {p} : shelf'[own].image[q] = shelf[own].image[q]
      /\ shelf'[own].have = shelf[own].have \cup (IF tree[p] = Absent THEN {} ELSE {p})
      /\ shelf[own].meta = "none" /\ shelf'[own].meta = "none"
      /\ UNCHANGED <<tip, head, tree, index, ilock, pc, to, follow, own, undo, copy, owed, home,
                     touched, next>>
  BY CopyPathMoves
<1>2. Planned(own)' = Planned(own) /\ Planned(own) \subseteq Paths /\ p \in Planned(own)
  BY <1>1 DEF Planned, Captured, SafeInv, LeftPlanned
<1>3. TypeOK'
  BY <1>1 DEF SafeInv, TypeOK
<1>4. Works'
  BY <1>1 DEF SafeInv, Works, Copying, Cleaning, Reviewing, Restoring, Captures, Owning
<1>5. Bounded' /\ CommittedFree'
  BY <1>1 DEF SafeInv, Bounded, CommittedFree
<1>6. ImagesPlanned'
  BY <1>1, <1>2 DEF SafeInv, ImagesPlanned, Planned, Captured
<1>7. IndexSaved' /\ Back'
  BY <1>1 DEF SafeInv, IndexSaved, Back, Cleaning, Restoring, Reviewing
<1>8. \A q \in Planned(own) \ left' : FileSaved(q)' /\ FileKept(q)'
  <2> SUFFICES ASSUME NEW q \in Planned(own) \ left', tree[q] \in owed
               PROVE  tree[q] = shelf'[own].image[q] /\ q \in shelf'[own].have
    BY <1>1 DEF FileSaved, FileKept
  <2>1. CASE q = p
    BY <1>1, <2>1 DEF SafeInv, Bounded, Absent
  <2>2. CASE q # p
    <3>1. q \in Planned(own) \ left
      BY <1>1, <2>2
    <3>2. FileSaved(q) /\ FileKept(q)
      BY <1>1, <3>1 DEF SafeInv, FilesSaved
    <3> QED BY <1>1, <1>2, <2>2, <3>2 DEF FileSaved, FileKept
  <2> QED BY <2>1, <2>2
<1>9. FilesSaved' /\ LeftPlanned'
  BY <1>1, <1>2, <1>8 DEF SafeInv, FilesSaved, LeftPlanned, Cleaning, Reviewing
<1>10. NothingLost'
  BY <1>1, DroppedFrame DEF Has
<1> QED BY <1>3, <1>4, <1>5, <1>6, <1>7, <1>9, <1>10 DEF SafeInv

-----------------------------------------------------------------------------
(* Steps that write the working tree or the index.                         *)

\* A content is replaced where it is owed only if it is held elsewhere.
LEMMA ReplacedFrame ==
  ASSUME NothingLost, UNCHANGED <<tip, shelf>>, \A v \in owed' : v \in owed \/ Held(v)',
         \A p \in Paths : \A v \in owed' : tree[p] = v => tree'[p] = v \/ Held(v)',
         \A p \in Paths : \A v \in owed' : index[p] = v => index'[p] = v \/ Held(v)'
  PROVE  NothingLost'
<1> SUFFICES ASSUME NEW v \in owed', ~Held(v)' PROVE FALSE
  BY DEF NothingLost
<1>1. Held(v)
  BY DEF NothingLost
<1>2. ~InTree(v)
  <2> SUFFICES ASSUME NEW p \in Paths, tree[p] = v PROVE FALSE
    BY DEF InTree
  <2> QED BY DEF Held, InTree
<1>3. ~Staged(v)
  <2> SUFFICES ASSUME NEW p \in Paths, index[p] = v PROVE FALSE
    BY DEF Staged
  <2> QED BY DEF Held, Staged
<1>4. ~Committed(v) /\ ~ShelvedFile(v) /\ ~ShelvedBlob(v)
  BY DEF Held, Committed, ShelvedFile, ShelvedBlob, Has
<1> QED BY <1>1, <1>2, <1>3, <1>4 DEF Held

\* What the payload of a shelf that can be read keeps is held.
LEMMA FileHeld ==
  ASSUME NEW p \in Paths, own \in Branches, Has(own), FileSaved(p), FileKept(p),
         NEW v \in owed, tree[p] = v, shelf' = shelf
  PROVE  Held(v)'
<1>1. ShelvedFile(v)'
  BY DEF ShelvedFile, FileSaved, FileKept, Has
<1> QED BY <1>1 DEF Held

\* What a reference keeps of the index of such a shelf is held.
LEMMA EntryHeld ==
  ASSUME NEW p \in Paths, own \in Branches, Has(own), "index" \in shelf[own].have,
         NEW v, index[p] = v, v = shelf[own].index[p], v \in shelf[own].kept, shelf' = shelf
  PROVE  Held(v)'
<1>1. ShelvedBlob(v)'
  BY DEF ShelvedBlob, Has
<1> QED BY <1>1 DEF Held

\* A step of the session that leaves commits and shelves alone.
FilesStep == UNCHANGED <<tip, shelf, owed, home, next>>

\* After it the contents keep their bounds.
LEMMA FilesFrame ==
  ASSUME SafeInv, FilesStep,
         \A p \in Paths : tree'[p] < next /\ index'[p] < next
  PROVE  Bounded' /\ CommittedFree' /\ ImagesPlanned'
<1>1. Bounded'
  BY DEF SafeInv, Bounded, FilesStep
<1>2. CommittedFree' /\ ImagesPlanned'
  BY DEF SafeInv, CommittedFree, ImagesPlanned, Planned, Captured, FilesStep
<1> QED BY <1>1, <1>2

\* What a session that works on a shelf knows of it.
LEMMA WorkingShelf ==
  ASSUME SafeInv, pc \in Cleaning \cup Restoring
  PROVE  /\ own \in Branches /\ own = head /\ Has(own) /\ shelf[own] \in Shelf
         /\ shelf[own].base \in Tree /\ shelf[own].image \in Tree /\ shelf[own].index \in Tree
         /\ \A p \in Paths :
                /\ shelf[own].base[p] \in Value /\ shelf[own].base[p] \notin owed
                /\ shelf[own].base[p] < next /\ shelf[own].image[p] < next
                /\ shelf[own].index[p] < next
<1>1. own \in Branches /\ own = head /\ Has(own) /\ shelf[own] \in Shelf
  BY DEF SafeInv, TypeOK, Works, Owning
<1>2. shelf[own].base \in Tree /\ shelf[own].image \in Tree /\ shelf[own].index \in Tree
  BY <1>1 DEF Shelf
<1> QED BY <1>1, <1>2 DEF SafeInv, Bounded, CommittedFree, Tree

\* SafeInv survives DiscardPath and RemovePath: what is removed is in the shelf.
LEMMA CleanPathSafe ==
  ASSUME SafeInv, NEW p \in Paths, DiscardPath(p) \/ RemovePath(p)
  PROVE  SafeInv'
<1>1. /\ pc \in Cleaning /\ pc \in {"discard", "remove"} /\ p \in left
      /\ left' = left \ {p} /\ FilesStep
      /\ UNCHANGED <<head, index, ilock, pc, to, follow, own, undo, copy, touched>>
  BY DEF DiscardPath, RemovePath, Cleaning, FilesStep, At, history
<1>2. PICK v \in {shelf[own].base[p], Absent} : tree' = [tree EXCEPT ![p] = v]
  BY DEF DiscardPath, RemovePath
<1>3. v \in Value /\ v \notin owed /\ v < next
  BY <1>1, WorkingShelf, BoundAssumption DEF SafeInv, Bounded, Absent, Value
<1>4. tree \in Tree /\ tree' \in Tree /\ tree'[p] = v
      /\ \A q \in Paths \ {p} : tree'[q] = tree[q]
  BY <1>2, <1>3 DEF SafeInv, TypeOK, Tree
<1>5. p \in Planned(own) /\ Planned(own) \subseteq Paths /\ Planned(own)' = Planned(own)
  BY <1>1 DEF SafeInv, LeftPlanned, Planned, Captured, FilesStep
<1>6. TypeOK'
  BY <1>1, <1>4 DEF SafeInv, TypeOK, FilesStep
<1>7. Works'
  BY <1>1 DEF SafeInv, Works, FilesStep, Has
<1>8. Bounded' /\ CommittedFree' /\ ImagesPlanned'
  BY <1>1, <1>3, <1>4, FilesFrame DEF SafeInv, Bounded
<1>9. IndexSaved' /\ Back'
  BY <1>1 DEF SafeInv, IndexSaved, Back, FilesStep, Cleaning
<1>10. \A q \in Planned(own) : FileSaved(q) /\ FileKept(q)
  BY <1>1 DEF SafeInv, FilesSaved
<1>11. \A q \in Planned(own) : FileSaved(q)' /\ FileKept(q)'
  BY <1>1, <1>3, <1>4, <1>5, <1>10 DEF FileSaved, FileKept, FilesStep
<1>12. FilesSaved' /\ LeftPlanned'
  BY <1>1, <1>5, <1>11 DEF SafeInv, FilesSaved, LeftPlanned, Cleaning, Reviewing
<1>13. NothingLost'
  <2>1. \A u \in owed : tree[p] = u => Held(u)'
    BY <1>1, <1>5, <1>10, FileHeld, WorkingShelf DEF FilesStep
  <2> QED BY <1>1, <1>4, <2>1, ReplacedFrame DEF SafeInv, FilesStep
<1> QED BY <1>6, <1>7, <1>8, <1>9, <1>12, <1>13 DEF SafeInv

\* What PutPath does to the working tree.
LEMMA PutPathMoves ==
  ASSUME SafeInv, CopyInv, NEW p \in Paths, PutPath(p)
  PROVE  /\ pc = "put" /\ p \in left /\ left' = left \ {p} /\ copy' = {} /\ FilesStep
         /\ UNCHANGED <<head, index, ilock, pc, to, follow, own, undo, touched>>
         /\ own \in Branches /\ own = head /\ p \in Planned(own)
         /\ tree' \in Tree /\ tree'[p] = shelf[own].image[p]
         /\ \A q \in Paths \ {p} :
                \/ tree'[q] = tree[q]
                \/ /\ q \in Temps /\ tree[q] = Scrap /\ tree'[q] = Absent
                   /\ q \notin Planned(own)
<1>1. /\ pc = "put" /\ p \in left /\ left' = left \ {p} /\ copy' = {} /\ FilesStep
      /\ UNCHANGED <<head, index, ilock, pc, to, follow, own, undo, touched>>
  BY DEF PutPath, FilesStep, At, history
<1>2. pc \in Restoring
  BY <1>1 DEF Restoring
<1>3. /\ own \in Branches /\ own = head /\ shelf[own].image[p] \in Value /\ Absent \in Value
      /\ tree \in Tree /\ p \in Planned(own)
  BY <1>1, <1>2, WorkingShelf, BoundAssumption
     DEF Tree, SafeInv, TypeOK, LeftPlanned, Value, Absent
<1>4. CASE tree' = [tree EXCEPT ![p] = shelf[own].image[p]]
  BY <1>1, <1>3, <1>4 DEF Tree
<1>5. ASSUME NEW t \in Temps, copy = {<<p, t>>},
             tree' = [tree EXCEPT ![t] = Absent, ![p] = shelf[own].image[p]]
      PROVE  /\ tree' \in Tree /\ tree'[p] = shelf[own].image[p]
             /\ \A q \in Paths \ {p} :
                    \/ tree'[q] = tree[q]
                    \/ /\ q \in Temps /\ tree[q] = Scrap /\ tree'[q] = Absent
                       /\ q \notin Planned(own)
  <2>1. t \in Paths
    BY TempAssumption
  <2>2. <<p, t>> \in copy
    BY <1>5
  <2>3. tree[t] = Scrap /\ t \notin Planned(own)
    BY <2>2 DEF CopyInv
  <2>4. tree' \in Tree /\ tree'[p] = shelf[own].image[p]
    BY <1>3, <1>5, <2>1 DEF Tree
  <2>5. /\ \A q \in Paths \ {p, t} : tree'[q] = tree[q]
        /\ t # p => tree'[t] = Absent
    BY <1>3, <1>5, <2>1 DEF Tree
  <2> QED BY <2>3, <2>4, <2>5
<1> QED BY <1>1, <1>3, <1>4, <1>5 DEF PutPath

\* SafeInv survives PutPath: a file that is owed is replaced by itself.
LEMMA PutPathSafe ==
  ASSUME SafeInv, CopyInv, NEW p \in Paths, PutPath(p)
  PROVE  SafeInv'
<1>1. /\ pc = "put" /\ p \in left /\ left' = left \ {p} /\ copy' = {} /\ FilesStep
      /\ UNCHANGED <<head, index, ilock, pc, to, follow, own, undo, touched>>
      /\ tree' \in Tree /\ tree'[p] = shelf[own].image[p]
      /\ \A q \in Paths \ {p} :
             tree'[q] = tree[q] \/ (tree[q] = Scrap /\ tree'[q] = Absent)
  BY PutPathMoves
<1>2. pc \in Restoring
  BY <1>1 DEF Restoring
<1>3. shelf[own].image[p] < next
  BY <1>2, WorkingShelf
<1>4. /\ 0 < next /\ Absent \notin owed /\ Scrap \notin owed
      /\ \A q \in Paths : tree[q] < next /\ index[q] < next
  BY DEF SafeInv, Bounded, Absent
<1>5. FileSaved(p)
  BY <1>1 DEF SafeInv, FilesSaved
<1>6. TypeOK'
  BY <1>1 DEF SafeInv, TypeOK, FilesStep
<1>7. Works'
  BY <1>1 DEF SafeInv, Works, FilesStep, Has
<1>8. Bounded' /\ CommittedFree' /\ ImagesPlanned'
  <2>1. \A q \in Paths : tree'[q] < next /\ index'[q] < next
    BY <1>1, <1>3, <1>4 DEF Absent
  <2> QED BY <1>1, <2>1, FilesFrame
<1>9. IndexSaved' /\ Back'
  BY <1>1 DEF SafeInv, IndexSaved, Back, FilesStep, Cleaning, Restoring, Reviewing
<1>10. FilesSaved' /\ LeftPlanned'
  <2>1. \A q \in Paths \ {p} : FileSaved(q) => FileSaved(q)'
    BY <1>1, <1>4 DEF FileSaved, FilesStep
  <2>2. left \subseteq Paths /\ \A q \in left : FileSaved(q)
    BY <1>1 DEF SafeInv, TypeOK, FilesSaved
  <2>3. \A q \in left' : FileSaved(q)'
    BY <1>1, <2>1, <2>2
  <2>4. LeftPlanned'
    BY <1>1 DEF SafeInv, LeftPlanned, Planned, Captured, FilesStep
  <2> QED BY <1>1, <2>3, <2>4 DEF FilesSaved, Cleaning, Reviewing
<1>11. NothingLost'
  BY <1>1, <1>4, <1>5, ReplacedFrame DEF SafeInv, FilesStep, FileSaved
<1> QED BY <1>6, <1>7, <1>8, <1>9, <1>10, <1>11 DEF SafeInv

\* StageCopy and RemoveStray touch a temporary copy only.
LEMMA CopyMoves ==
  ASSUME SafeInv, NEW t \in Temps, RemoveStray(t) \/ \E p \in Paths : StageCopy(p, t)
  PROVE  /\ FilesStep /\ OnlyCopies /\ tree' \in Tree /\ t \in Paths
         /\ UNCHANGED <<head, index, ilock, pc, to, follow, own, undo, left, touched>>
         /\ copy' \subseteq Paths \X Temps
         /\ \A q \in Paths \ {t} : tree'[q] = tree[q]
         /\ \A b \in Branches : t \notin Planned(b)
<1>1. /\ t \in Paths /\ Scrap \in Value /\ Absent \in Value /\ tree \in Tree
      /\ copy \subseteq Paths \X Temps
  BY TempAssumption, BoundAssumption DEF SafeInv, TypeOK, Value, Absent
<1>2. CASE RemoveStray(t)
  <2>1. tree[t] = Scrap /\ tree' = [tree EXCEPT ![t] = Absent]
    BY <1>2 DEF RemoveStray
  <2>2. tree' \in Tree /\ tree'[t] = Absent /\ \A q \in Paths \ {t} : tree'[q] = tree[q]
    BY <1>1, <2>1 DEF Tree
  <2>3. OnlyCopies
    BY <2>1, <2>2 DEF OnlyCopies
  <2> QED BY <1>1, <1>2, <2>2, <2>3 DEF RemoveStray, FilesStep, session, history
<1>3. ASSUME NEW p \in Paths, StageCopy(p, t)
      PROVE  /\ FilesStep /\ OnlyCopies /\ tree' \in Tree
             /\ UNCHANGED <<head, index, ilock, pc, to, follow, own, undo, left, touched>>
             /\ copy' \subseteq Paths \X Temps
             /\ \A q \in Paths \ {t} : tree'[q] = tree[q]
             /\ \A b \in Branches : t \notin Planned(b)
  <2>1. tree[t] = Absent /\ tree' = [tree EXCEPT ![t] = Scrap] /\ copy' = {<<p, t>>}
    BY <1>3 DEF StageCopy
  <2>2. tree' \in Tree /\ tree'[t] = Scrap /\ \A q \in Paths \ {t} : tree'[q] = tree[q]
    BY <1>1, <2>1 DEF Tree
  <2>3. OnlyCopies
    BY <2>1, <2>2 DEF OnlyCopies
  <2>4. copy' \subseteq Paths \X Temps
    BY <2>1
  <2> QED BY <1>3, <2>2, <2>3, <2>4 DEF StageCopy, FilesStep, history
<1> QED BY <1>1, <1>2, <1>3

\* SafeInv survives them.
LEMMA CopySafe ==
  ASSUME SafeInv, NEW t \in Temps, RemoveStray(t) \/ \E p \in Paths : StageCopy(p, t)
  PROVE  SafeInv'
<1>1. /\ FilesStep /\ OnlyCopies /\ tree' \in Tree
      /\ UNCHANGED <<head, index, ilock, pc, to, follow, own, undo, left, touched>>
      /\ copy' \subseteq Paths \X Temps
  BY CopyMoves
<1>2. pc \in {"idle", "put"}
  BY DEF RemoveStray, StageCopy, At
<1>3. TypeOK'
  BY <1>1 DEF SafeInv, TypeOK, FilesStep
<1>4. Works'
  BY <1>1 DEF SafeInv, Works, FilesStep, Has
<1>5. Bounded' /\ CommittedFree' /\ ImagesPlanned'
  <2>1. \A q \in Paths : tree'[q] < next /\ index'[q] < next
    BY <1>1 DEF SafeInv, Bounded, OnlyCopies, Absent
  <2> QED BY <1>1, <2>1, FilesFrame
<1>6. IndexSaved' /\ Back'
  BY <1>1, <1>2 DEF SafeInv, IndexSaved, Back, FilesStep, Cleaning, Restoring, Reviewing
<1>7. FilesSaved' /\ LeftPlanned'
  <2>1. \A q \in Paths : FileSaved(q) => FileSaved(q)'
    BY <1>1, CopiesUnowed DEF FileSaved, FilesStep
  <2>2. left \subseteq Paths
    BY DEF SafeInv, TypeOK
  <2>3. LeftPlanned'
    BY <1>1 DEF SafeInv, LeftPlanned, Planned, Captured, FilesStep
  <2> QED BY <1>1, <1>2, <2>1, <2>2, <2>3 DEF SafeInv, FilesSaved, Cleaning, Reviewing
<1>8. NothingLost'
  BY <1>1, CopiesUnowed, ReplacedFrame DEF SafeInv, FilesStep
<1> QED BY <1>3, <1>4, <1>5, <1>6, <1>7, <1>8 DEF SafeInv

\* SafeInv survives DiscardIndex: the blobs it drops are in the shelf.
LEMMA DiscardIndexSafe ==
  ASSUME SafeInv, DiscardIndex
  PROVE  SafeInv'
<1>1. /\ pc = "discard" /\ pc' = "remove" /\ FilesStep /\ ilock' = FALSE
      /\ left' = Captured(own, {"untracked"})
      /\ index' = [p \in Paths |-> IF p \in Captured(own, {"tracked"})
                                   THEN shelf[own].base[p] ELSE index[p]]
      /\ UNCHANGED <<head, tree, to, follow, own, undo, copy, touched>>
  BY DEF DiscardIndex, FilesStep, At, Goto, history
<1>2. pc \in Cleaning /\ pc' \in Cleaning
  BY <1>1 DEF Cleaning
<1>3. /\ index \in Tree /\ index' \in Tree
      /\ \A p \in Paths : index'[p] = index[p] \/ index'[p] = shelf[own].base[p]
  BY <1>1, <1>2, WorkingShelf DEF SafeInv, TypeOK, Tree
<1>4. TypeOK'
  BY <1>1, <1>3 DEF SafeInv, TypeOK, FilesStep, Captured
<1>5. Works'
  BY <1>1 DEF SafeInv, Works, FilesStep, Has, Copying, Cleaning, Reviewing, Restoring, Captures,
              Owning
<1>6. Bounded' /\ CommittedFree' /\ ImagesPlanned'
  BY <1>1, <1>2, <1>3, FilesFrame, WorkingShelf DEF SafeInv, Bounded
<1>7. IndexSaved' /\ Back'
  BY <1>1, <1>2, <1>3, WorkingShelf DEF SafeInv, IndexSaved, Back, FilesStep
<1>8. FilesSaved' /\ LeftPlanned'
  BY <1>1, <1>2 DEF SafeInv, FilesSaved, FileSaved, FileKept, LeftPlanned, Planned, Captured,
                    FilesStep, Reviewing
<1>9. NothingLost'
  <2>1. \A p \in Paths : \A v \in owed : index[p] = v => Held(v)'
    BY <1>1, <1>2, EntryHeld, WorkingShelf DEF SafeInv, IndexSaved, FilesStep
  <2> QED BY <1>1, <2>1, ReplacedFrame DEF SafeInv, FilesStep
<1> QED BY <1>4, <1>5, <1>6, <1>7, <1>8, <1>9 DEF SafeInv

\* SafeInv survives SwapIndex: an entry that is owed is replaced by itself.
LEMMA SwapIndexSafe ==
  ASSUME SafeInv, SwapIndex
  PROVE  SafeInv'
<1>1. /\ pc = "swap" /\ pc' = "compare" /\ FilesStep /\ ilock' = FALSE /\ index' = shelf[own].index
      /\ UNCHANGED <<head, tree, to, follow, own, undo, copy, left, touched>>
  BY DEF SwapIndex, FilesStep, At, Goto, history
<1>2. pc \in Restoring
  BY <1>1 DEF Restoring
<1>3. index' \in Tree /\ \A p \in Paths : index'[p] < next
  BY <1>1, <1>2, WorkingShelf
<1>4. TypeOK'
  BY <1>1, <1>3 DEF SafeInv, TypeOK, FilesStep
<1>5. Works'
  BY <1>1 DEF SafeInv, Works, FilesStep, Has, Copying, Cleaning, Reviewing, Restoring, Captures,
              Owning
<1>6. Bounded' /\ CommittedFree' /\ ImagesPlanned'
  BY <1>1, <1>3, FilesFrame DEF SafeInv, Bounded
<1>7. IndexSaved' /\ FilesSaved' /\ LeftPlanned' /\ Back'
  BY <1>1 DEF IndexSaved, FilesSaved, LeftPlanned, Back, Cleaning, Reviewing, Restoring
<1>8. NothingLost'
  BY <1>1, <1>2, ReplacedFrame DEF SafeInv, FilesStep, IndexSaved
<1> QED BY <1>4, <1>5, <1>6, <1>7, <1>8 DEF SafeInv

\* A checkout replaces only what is committed.
LEMMA CheckoutSafe ==
  ASSUME SafeInv, to \in Branches, FilesStep, Checkout \/ UNCHANGED <<head, tree, index>>
  PROVE  /\ head' \in Branches /\ tree' \in Tree /\ index' \in Tree
         /\ Bounded' /\ CommittedFree' /\ ImagesPlanned' /\ NothingLost'
<1>1. /\ tree \in Tree /\ index \in Tree /\ tip[to] \in Tree /\ head \in Branches
      /\ tip[head] \in Tree
  BY DEF SafeInv, TypeOK
<1>2. head' \in Branches /\ tree' \in Tree /\ index' \in Tree
  BY <1>1 DEF Checkout, Tree
<1>3. \A p \in Paths : tree'[p] \in {tree[p], tip[to][p]} /\ index'[p] \in {index[p], tip[to][p]}
  BY DEF Checkout
<1>4. Bounded' /\ CommittedFree' /\ ImagesPlanned'
  BY <1>3, FilesFrame DEF SafeInv, Bounded
<1>5. \A p \in Paths : /\ tree'[p] = tree[p] \/ tree[p] \notin owed
                       /\ index'[p] = index[p] \/ index[p] \notin owed
  BY <1>1 DEF Checkout, Dirty, SafeInv, CommittedFree
<1>6. NothingLost'
  BY <1>5, ReplacedFrame DEF SafeInv, FilesStep
<1> QED BY <1>2, <1>4, <1>6

\* SafeInv survives SwitchBranch and SwitchFails.
LEMMA SwitchSafe ==
  ASSUME SafeInv, SwitchBranch \/ SwitchFails
  PROVE  SafeInv'
<1>1. /\ pc = "checkout" /\ to \in Branches /\ pc' \in {"select", "idle"} /\ FilesStep
      /\ Checkout \/ UNCHANGED <<head, tree, index>>
      /\ UNCHANGED <<ilock, touched>>
  BY DEF SafeInv, Works, SwitchBranch, SwitchFails, Arrive, Idle, Goto, At, FilesStep, history
<1>2. /\ pc' = "idle" => own' = NoBranch /\ to' = NoBranch
      /\ pc' = "select" => own' \in Branches
      /\ own' \in Branches \cup {NoBranch} /\ to' \in Branches \cup {NoBranch}
      /\ follow' \in BOOLEAN /\ undo' \in BOOLEAN /\ left' \subseteq Paths
      /\ copy' \subseteq Paths \X Temps
  BY <1>1 DEF SafeInv, TypeOK, SwitchBranch, SwitchFails, Arrive, Idle, Goto
<1>3. /\ head' \in Branches /\ tree' \in Tree /\ index' \in Tree
      /\ Bounded' /\ CommittedFree' /\ ImagesPlanned' /\ NothingLost'
  BY <1>1, CheckoutSafe
<1>4. TypeOK'
  BY <1>1, <1>2, <1>3, BranchAssumption DEF SafeInv, TypeOK, FilesStep
<1>5. Works' /\ IndexSaved' /\ FilesSaved' /\ LeftPlanned' /\ Back'
  BY <1>1, <1>2 DEF Works, IndexSaved, FilesSaved, LeftPlanned, Back, Copying, Cleaning,
                    Reviewing, Restoring, Captures, Owning
<1> QED BY <1>3, <1>4, <1>5 DEF SafeInv

-----------------------------------------------------------------------------
(* The user.                                                               *)

\* What Write does to the history.
LEMMA WriteHistory ==
  ASSUME TypeOK, NEW old, NEW new \in SUBSET Value, Write(old, new)
  PROVE  /\ owed' = (owed \ old) \cup new /\ owed' \subseteq Value
         /\ home' \in [Value -> Branches \cup {NoBranch}] /\ touched' = TRUE
         /\ \A v \in owed' \ new : v \in owed /\ home'[v] = home[v]
         /\ \A v \in new : home'[v] \in {head, home[v]}
  BY DEF TypeOK, Write, At

\* ... and when nothing new is written.
LEMMA WriteNothing ==
  ASSUME TypeOK, NEW old, Write(old, {})
  PROVE  /\ owed' = owed \ old /\ owed' \subseteq owed /\ owed' \subseteq Value
         /\ home' \in [Value -> Branches \cup {NoBranch}] /\ touched' = TRUE
         /\ \A v \in owed' : home'[v] = home[v]
  BY DEF TypeOK, Write, At

\* Contents are numbers.
LEMMA Contents ==
  ASSUME TypeOK
  PROVE  /\ next \in Nat /\ Value \subseteq Nat /\ owed \subseteq Nat
         /\ \A p \in Paths : tree[p] \in Nat /\ index[p] \in Nat
         /\ \A b \in Branches, p \in Paths : /\ tip[b][p] \in Nat /\ shelf[b].base[p] \in Nat
                                             /\ shelf[b].image[p] \in Nat
                                             /\ shelf[b].index[p] \in Nat
<1>1. Value \subseteq Nat /\ next \in Nat /\ owed \subseteq Nat
  BY BoundAssumption DEF TypeOK, Value
<1>2. \A t \in Tree : \A p \in Paths : t[p] \in Nat
  BY <1>1 DEF Tree
<1>3. \A b \in Branches :
          /\ tip[b] \in Tree /\ shelf[b].base \in Tree
          /\ shelf[b].image \in Tree /\ shelf[b].index \in Tree
  BY DEF TypeOK, Shelf
<1>4. tree \in Tree /\ index \in Tree
  BY DEF TypeOK
<1> QED BY <1>1, <1>2, <1>3, <1>4

\* SafeInv survives Edit.
LEMMA EditSafe ==
  ASSUME SafeInv, NEW p \in Paths, Edit(p)
  PROVE  SafeInv'
<1>. DEFINE new == IF Exposed(p) THEN {} ELSE {next}
<1>1. /\ next \in Nat /\ next \in Value /\ next \notin owed /\ next' = next + 1
      /\ tree' = [tree EXCEPT ![p] = next] /\ Write(Unstaged(p), new)
      /\ UNCHANGED <<tip, head, index, ilock, shelf, session>>
  BY BoundAssumption DEF SafeInv, TypeOK, Bounded, Value, Edit
<1>2. /\ owed' = (owed \ Unstaged(p)) \cup new /\ owed' \subseteq Value
      /\ home' \in [Value -> Branches \cup {NoBranch}] /\ touched' = TRUE
  <2>1. new \in SUBSET Value /\ TypeOK
    BY <1>1 DEF SafeInv
  <2> QED BY <1>1, <2>1, WriteHistory
<1>3. /\ tree \in Tree /\ tree' \in Tree /\ tree'[p] = next
      /\ \A q \in Paths \ {p} : tree'[q] = tree[q]
  BY <1>1 DEF SafeInv, TypeOK, Tree
<1>4. /\ \A v \in owed' : v < next => v \in owed
      /\ \A v \in owed' : v # next => v \in owed /\ v \notin Unstaged(p)
      /\ next \in owed' => ~Exposed(p)
  BY <1>1, <1>2 DEF SafeInv, Bounded
<1>5. TypeOK'
  BY <1>1, <1>2, <1>3 DEF SafeInv, TypeOK, session
<1>6. Works'
  BY <1>1 DEF SafeInv, Works, Has, session
<1>7. Bounded'
  <2>1. \A q \in Paths : tree[q] \in Nat /\ index[q] \in Nat
    BY BoundAssumption DEF SafeInv, TypeOK, Tree, Value
  <2>2. \A b \in Branches, q \in Paths :
            /\ tip[b][q] \in Nat /\ shelf[b].base[q] \in Nat
            /\ shelf[b].image[q] \in Nat /\ shelf[b].index[q] \in Nat
    BY Contents DEF SafeInv
  <2>3. \A v \in owed' : 0 < v /\ v < next + 1 /\ v # Scrap
    BY <1>1, <1>2, <1>4, BoundAssumption DEF SafeInv, TypeOK, Bounded, Value
  <2>4. \A q \in Paths : tree'[q] < next + 1 /\ index[q] < next + 1
    BY <1>1, <1>3, <2>1 DEF SafeInv, Bounded
  <2>5. \A b \in Branches, q \in Paths :
            /\ tip[b][q] < next + 1 /\ shelf[b].base[q] < next + 1
            /\ shelf[b].image[q] < next + 1 /\ shelf[b].index[q] < next + 1
    BY <1>1, <2>2 DEF SafeInv, Bounded
  <2>6. 0 < next + 1 /\ Scrap < next + 1
    BY <1>1, TempAssumption, BoundAssumption DEF SafeInv, Bounded, Value
  <2> QED BY <1>1, <2>3, <2>4, <2>5, <2>6 DEF Bounded
<1>8. CommittedFree' /\ ImagesPlanned'
  BY <1>1, <1>4 DEF SafeInv, CommittedFree, Bounded, ImagesPlanned, Planned, Captured
<1>9. \A q \in Paths : index[q] \in owed' => index[q] \in owed
  BY <1>4 DEF SafeInv, Bounded
<1>10. IndexSaved'
  BY <1>1, <1>9 DEF SafeInv, IndexSaved, session
<1>11. \A q \in Paths \ {p} : tree'[q] \in owed' => tree'[q] = tree[q] /\ tree[q] \in owed
  BY <1>3, <1>4 DEF SafeInv, Bounded
<1>12. Exposed(p) => tree'[p] \notin owed'
  BY <1>3, <1>4
<1>13. FilesSaved'
  <2>1. pc \in {"copy", "metadata", "put"} \cup Cleaning \cup Reviewing
          => own \in Branches /\ own # NoBranch
    BY BranchAssumption DEF SafeInv, TypeOK, Cleaning, Reviewing
  <2>2. Planned(own)' = Planned(own) /\ Planned(own) \subseteq Paths
    BY <1>1 DEF Planned, Captured, session
  <2>3. /\ pc = "copy" /\ p \in Planned(own) \ left => Exposed(p)
        /\ pc \in {"metadata"} \cup Cleaning \cup Reviewing /\ p \in Planned(own) => Exposed(p)
        /\ pc = "put" /\ p \in left => Exposed(p)
    BY <2>1 DEF Exposed, At, Cleaning, Reviewing, SafeInv, LeftPlanned
  <2>4. \A q \in Paths \ {p} : /\ FileSaved(q) => FileSaved(q)'
                               /\ FileKept(q) => FileKept(q)'
    BY <1>1, <1>11 DEF FileSaved, FileKept, session
  <2>5. Exposed(p) => FileSaved(p)' /\ FileKept(p)'
    BY <1>12 DEF FileSaved, FileKept
  <2>6. UNCHANGED <<pc, left>> /\ left \subseteq Paths
    BY <1>1 DEF session, SafeInv, TypeOK
  <2> QED BY <2>2, <2>3, <2>4, <2>5, <2>6 DEF SafeInv, FilesSaved
<1>14. LeftPlanned'
  BY <1>1 DEF SafeInv, LeftPlanned, Planned, Captured, session
<1>15. Back'
  <2> SUFFICES ASSUME pc = "consume", NEW q \in Paths
               PROVE  /\ shelf[own].image[q] \in owed' =>
                             shelf[own].image[q] \in {tree'[q], index[q]}
                      /\ shelf[own].index[q] \in owed' => shelf[own].index[q] = index[q]
    BY <1>1 DEF Back, session
  <2>1. own \in Branches
    BY DEF SafeInv, TypeOK
  <2>2. /\ shelf[own].image[q] < next /\ shelf[own].index[q] < next
        /\ shelf[own].image[q] \in owed' => shelf[own].image[q] \in owed \ Unstaged(p)
        /\ shelf[own].index[q] \in owed' => shelf[own].index[q] \in owed
    BY <1>1, <1>4, <2>1 DEF SafeInv, Bounded
  <2> QED BY <1>3, <2>2 DEF SafeInv, Back, Unstaged
<1>16. NothingLost'
  <2>1. ASSUME NEW v, v = next PROVE Held(v)'
    BY <1>1, <1>3, <2>1 DEF InTree, Held
  <2>2. \A v \in owed' : v \in owed \/ Held(v)'
    BY <1>4, <2>1
  <2> QED BY <1>1, <1>3, <1>4, <2>2, ReplacedFrame DEF SafeInv, Unstaged, Held, Staged
<1> QED BY <1>5, <1>6, <1>7, <1>8, <1>10, <1>13, <1>14, <1>15, <1>16 DEF SafeInv

\* While no command runs, only what the repository holds matters.
LEMMA IdleFrame ==
  ASSUME SafeInv, pc = "idle", UNCHANGED <<head, ilock, shelf, session>>,
         NEW old, Write(old, {}), next' \in {next, next + 1},
         tip' \in [Branches -> Tree], tree' \in Tree, index' \in Tree,
         \A b \in Branches, p \in Paths : tip'[b][p] < next /\ tip'[b][p] \notin owed',
         \A p \in Paths : tree'[p] < next /\ index'[p] < next
  PROVE  /\ TypeOK' /\ Works' /\ Bounded' /\ CommittedFree' /\ IndexSaved' /\ FilesSaved'
         /\ LeftPlanned' /\ ImagesPlanned' /\ Back' /\ owed' = owed \ old
<1>1. /\ owed' = owed \ old /\ owed' \subseteq Value
      /\ home' \in [Value -> Branches \cup {NoBranch}] /\ touched' = TRUE
  BY WriteNothing DEF SafeInv
<1>2. TypeOK'
  BY <1>1 DEF SafeInv, TypeOK, session
<1>3. Works' /\ IndexSaved' /\ FilesSaved' /\ LeftPlanned' /\ Back'
  BY DEF SafeInv, Works, IndexSaved, FilesSaved, LeftPlanned, Back, session, Copying, Cleaning,
         Reviewing, Restoring, Captures, Owning
<1>4. CommittedFree' /\ ImagesPlanned'
  BY <1>1 DEF SafeInv, CommittedFree, ImagesPlanned, Planned, Captured
<1>5. Bounded'
  <2>1. next \in Nat /\ next' \in Nat /\ next <= next' /\ \A v \in owed' : v \in Nat
    BY <1>1, BoundAssumption DEF SafeInv, TypeOK, Value
  <2>2. /\ \A p \in Paths : tree'[p] \in Nat /\ index'[p] \in Nat
        /\ \A b \in Branches, p \in Paths :
               /\ tip'[b][p] \in Nat /\ shelf[b].base[p] \in Nat
               /\ shelf[b].image[p] \in Nat /\ shelf[b].index[p] \in Nat
    <3>1. \A p \in Paths : tree'[p] \in Nat /\ index'[p] \in Nat
      BY Contents DEF SafeInv, Tree
    <3>2. \A b \in Branches : tip'[b] \in Tree
      OBVIOUS
    <3>3. \A b \in Branches, p \in Paths : tip'[b][p] \in Nat
      BY <3>2, Contents DEF SafeInv, Tree
    <3> QED BY <3>1, <3>3, Contents DEF SafeInv
  <2>3. \A v \in owed' : 0 < v /\ v < next' /\ v # Scrap
    BY <1>1, <2>1 DEF SafeInv, Bounded
  <2>4. \A p \in Paths : tree'[p] < next' /\ index'[p] < next'
    BY <2>1, <2>2
  <2>5. \A b \in Branches, p \in Paths :
            /\ tip'[b][p] < next' /\ shelf[b].base[p] < next'
            /\ shelf[b].image[p] < next' /\ shelf[b].index[p] < next'
    BY <2>1, <2>2 DEF SafeInv, Bounded
  <2>6. 0 < next' /\ Scrap < next'
    BY <2>1, TempAssumption, BoundAssumption DEF SafeInv, Bounded, Value
  <2> QED BY <2>3, <2>4, <2>5, <2>6 DEF Bounded
<1> QED BY <1>1, <1>2, <1>3, <1>4, <1>5

\* SafeInv survives Delete.
LEMMA DeleteSafe ==
  ASSUME SafeInv, NEW p \in Paths, Delete(p)
  PROVE  SafeInv'
<1>1. /\ pc = "idle" /\ UNCHANGED <<head, ilock, shelf, session>> /\ next' = next + 1
      /\ tree' = [tree EXCEPT ![p] = Absent] /\ Write(Unstaged(p), {})
      /\ UNCHANGED <<tip, index>>
  BY DEF Delete, At
<1>2. tree' \in Tree /\ tree'[p] = Absent /\ \A q \in Paths \ {p} : tree'[q] = tree[q]
  BY <1>1, BoundAssumption DEF SafeInv, TypeOK, Tree, Value, Absent
<1>3. /\ \A q \in Paths : tree'[q] < next /\ index'[q] < next
      /\ tip' \in [Branches -> Tree] /\ index' \in Tree
  BY <1>1, <1>2 DEF SafeInv, TypeOK, Bounded, Absent
<1>4. owed' \subseteq owed /\ owed' = owed \ Unstaged(p)
  BY <1>1, WriteNothing DEF SafeInv
<1>5. \A b \in Branches, q \in Paths : tip'[b][q] < next /\ tip'[b][q] \notin owed'
  BY <1>1, <1>4 DEF SafeInv, Bounded, CommittedFree
<1>6. NothingLost'
  BY <1>1, <1>2, <1>4, ReplacedFrame DEF SafeInv, Unstaged, Held, Staged
<1> QED BY <1>1, <1>2, <1>3, <1>5, <1>6, IdleFrame DEF SafeInv

\* SafeInv survives Stage.
LEMMA StageSafe ==
  ASSUME SafeInv, NEW p \in Paths, Stage(p)
  PROVE  SafeInv'
<1>1. /\ pc = "idle" /\ UNCHANGED <<head, ilock, shelf, session>> /\ next' = next
      /\ index' = [index EXCEPT ![p] = tree[p]] /\ Write({index[p]}, {})
      /\ UNCHANGED <<tip, tree>>
  BY DEF Stage, At
<1>2. /\ tree' \in Tree /\ index' \in Tree /\ tip' \in [Branches -> Tree]
      /\ index'[p] = tree[p] /\ \A q \in Paths \ {p} : index'[q] = index[q]
  BY <1>1 DEF SafeInv, TypeOK, Tree
<1>3. \A q \in Paths : tree'[q] < next /\ index'[q] < next
  BY <1>1, <1>2 DEF SafeInv, Bounded
<1>4. owed' \subseteq owed /\ owed' = owed \ {index[p]}
  BY <1>1, WriteNothing DEF SafeInv
<1>5. \A b \in Branches, q \in Paths : tip'[b][q] < next /\ tip'[b][q] \notin owed'
  BY <1>1, <1>4 DEF SafeInv, Bounded, CommittedFree
<1>6. NothingLost'
  BY <1>1, <1>2, <1>4, ReplacedFrame DEF SafeInv
<1> QED BY <1>1, <1>2, <1>3, <1>5, <1>6, IdleFrame DEF SafeInv

\* SafeInv survives Discard.
LEMMA DiscardSafe ==
  ASSUME SafeInv, NEW p \in Paths, Discard(p)
  PROVE  SafeInv'
<1>1. /\ pc = "idle" /\ UNCHANGED <<head, ilock, shelf, session>> /\ next' = next + 1
      /\ tree' = [tree EXCEPT ![p] = tip[head][p]] /\ index' = [index EXCEPT ![p] = tip[head][p]]
      /\ Write({tree[p], index[p]}, {}) /\ UNCHANGED tip
  BY DEF Discard, At
<1>2. /\ tree' \in Tree /\ index' \in Tree /\ tip' \in [Branches -> Tree] /\ head \in Branches
      /\ tree'[p] = tip[head][p] /\ index'[p] = tip[head][p]
      /\ \A q \in Paths \ {p} : tree'[q] = tree[q] /\ index'[q] = index[q]
  BY <1>1 DEF SafeInv, TypeOK, Tree
<1>3. \A q \in Paths : tree'[q] < next /\ index'[q] < next
  BY <1>2 DEF SafeInv, Bounded
<1>4. owed' \subseteq owed /\ owed' = owed \ {tree[p], index[p]}
  BY <1>1, WriteNothing DEF SafeInv
<1>5. \A b \in Branches, q \in Paths : tip'[b][q] < next /\ tip'[b][q] \notin owed'
  BY <1>1, <1>4 DEF SafeInv, Bounded, CommittedFree
<1>6. NothingLost'
  BY <1>1, <1>2, <1>4, ReplacedFrame DEF SafeInv
<1> QED BY <1>1, <1>2, <1>3, <1>5, <1>6, IdleFrame DEF SafeInv

\* SafeInv survives Commit: what was staged is committed.
LEMMA CommitSafe ==
  ASSUME SafeInv, Commit
  PROVE  SafeInv'
<1>1. /\ pc = "idle" /\ UNCHANGED <<head, ilock, shelf, session>> /\ next' = next
      /\ tip' = [tip EXCEPT ![head] = index] /\ Write({index[p] : p \in Paths}, {})
      /\ UNCHANGED <<tree, index>>
  BY DEF Commit, At
<1>2. /\ tree' \in Tree /\ index' \in Tree /\ tip' \in [Branches -> Tree] /\ head \in Branches
      /\ tip'[head] = index /\ \A b \in Branches \ {head} : tip'[b] = tip[b]
  BY <1>1 DEF SafeInv, TypeOK
<1>3. \A q \in Paths : tree'[q] < next /\ index'[q] < next
  BY <1>1 DEF SafeInv, Bounded
<1>4. owed' \subseteq owed /\ owed' = owed \ {index[p] : p \in Paths}
  BY <1>1, WriteNothing DEF SafeInv
<1>5. \A b \in Branches, q \in Paths : tip'[b][q] < next /\ tip'[b][q] \notin owed'
  BY <1>2, <1>4 DEF SafeInv, Bounded, CommittedFree
<1>6. NothingLost'
  <2> SUFFICES ASSUME NEW v \in owed' PROVE Held(v)'
    BY DEF NothingLost
  <2>1. Held(v) /\ ~Committed(v)
    BY <1>4 DEF SafeInv, NothingLost, Committed, CommittedFree
  <2>2. /\ InTree(v) => InTree(v)'
        /\ Staged(v) => Staged(v)'
        /\ ShelvedFile(v) => ShelvedFile(v)'
        /\ ShelvedBlob(v) => ShelvedBlob(v)'
    BY <1>1 DEF InTree, Staged, ShelvedFile, ShelvedBlob, Has
  <2> QED BY <2>1, <2>2 DEF Held
<1> QED BY <1>1, <1>2, <1>3, <1>5, <1>6, IdleFrame DEF SafeInv

-----------------------------------------------------------------------------
(* SafeInv is an invariant.                                                *)

\* At the start nothing is shelved and nothing is owed.
LEMMA SafeInit == Init => SafeInv
<1> SUFFICES ASSUME Init PROVE SafeInv
  OBVIOUS
<1>1. FirstTip \in [Branches -> Tree] /\ \A b \in Branches, p \in Paths : FirstTip[b][p] < Fresh
  BY TipAssumption DEF Tree
<1>2. \A p \in Paths : NoTree[p] = Absent
  BY DEF NoTree
<1>3. TypeOK
  BY <1>1, BranchAssumption, BoundAssumption, NoShelfType DEF Init, TypeOK
<1>4. Works
  BY DEF Init, Works, Copying, Cleaning, Reviewing, Restoring, Captures, Owning
<1>5. Bounded /\ CommittedFree
  BY <1>1, <1>2, NoShelfType, BranchAssumption, BoundAssumption, TempAssumption
     DEF Init, Bounded, CommittedFree, Absent
<1>6. IndexSaved /\ FilesSaved /\ LeftPlanned /\ Back /\ NothingLost
  BY DEF Init, IndexSaved, FilesSaved, LeftPlanned, Back, NothingLost, Cleaning, Reviewing,
         Restoring
<1>7. ImagesPlanned
  BY <1>2, NoShelfType DEF Init, ImagesPlanned
<1> QED BY <1>3, <1>4, <1>5, <1>6, <1>7 DEF SafeInv

\* Nothing depends on variables that do not change.
LEMMA SafeStutter ==
  ASSUME SafeInv, UNCHANGED vars
  PROVE  SafeInv'
<1>1. SessionStep
  BY DEF vars, repository, session, history, SessionStep
<1>2. TypeOK'
  BY DEF SafeInv, TypeOK, vars, repository, session, history
<1>3. Works'
  BY DEF SafeInv, Works, Has, vars, repository, session, history
<1>4. IndexSaved'
  BY DEF SafeInv, IndexSaved, vars, repository, session, history
<1>5. FilesSaved'
  BY DEF SafeInv, FilesSaved, FileSaved, FileKept, Planned, Captured, vars, repository, session,
         history
<1>6. LeftPlanned' /\ Back'
  BY DEF SafeInv, LeftPlanned, Planned, Captured, Back, vars, repository, session, history
<1> QED BY <1>1, <1>2, <1>3, <1>4, <1>5, <1>6, SessionFrame DEF SafeInv

\* Every step preserves SafeInv.
LEMMA SafeNext == SafeInv /\ CopyInv /\ [Next]_vars => SafeInv'
<1> SUFFICES ASSUME SafeInv, CopyInv, [Next]_vars PROVE SafeInv'
  OBVIOUS
<1>1. CASE \/ BeginShelve \/ VerifyClean \/ StayOnBranch \/ Select \/ Compare \/ StartClean
           \/ LockIndex \/ CleanFails \/ RemoveLock
           \/ \E b \in Branches : BeginUnshelve(b) \/ BeginSwitch(b)
  BY <1>1, BeginSafe, PassSafe, PhaseSafe, SelectSafe, CompareSafe
<1>2. CASE Plan \/ CopyIndex \/ ProtectIndex \/ CreateMetadata \/ FillMetadata \/ MarkReady
  BY <1>2, PlanSafe, CopyIndexSafe, CaptureFlagsSafe, MarkReadySafe
<1>3. CASE DiscardIndex \/ SwapIndex \/ SwitchBranch \/ SwitchFails
  BY <1>3, DiscardIndexSafe, SwapIndexSafe, SwitchSafe
<1>4. CASE CreateIndexImage \/ FillIndexImage \/ CreateJournal \/ FillJournal
  BY <1>4, JournalSafe
<1>5. CASE ConsumeFiles \/ ConsumeMetadata \/ GiveUp \/ Crash \/ \E b \in Branches : RemoveTorn(b)
  BY <1>5, ConsumeFilesSafe, GoneSafe
<1>6. CASE Commit
  BY <1>6, CommitSafe
<1>7. CASE \E p \in Paths : CopyPath(p) \/ DiscardPath(p) \/ RemovePath(p) \/ PutPath(p)
  BY <1>7, CopyPathSafe, CleanPathSafe, PutPathSafe
<1>8. CASE \E p \in Paths : Edit(p) \/ Delete(p) \/ Stage(p) \/ Discard(p)
  BY <1>8, EditSafe, DeleteSafe, StageSafe, DiscardSafe
<1>9. CASE \E t \in Temps : RemoveStray(t) \/ \E p \in Paths : StageCopy(p, t)
  BY <1>9, CopySafe
<1>10. CASE UNCHANGED vars
  BY <1>10, SafeStutter
<1> QED BY <1>1, <1>2, <1>3, <1>4, <1>5, <1>6, <1>7, <1>8, <1>9, <1>10 DEF Next

\* Only StageCopy makes a temporary copy, and only PutPath and the end of the
\* session take one away.
LEMMA CopyKept ==
  ASSUME [Next]_vars
  PROVE  \/ copy' = {}
         \/ copy' = copy /\ (pc = "put" => left = {} \/ UNCHANGED session)
         \/ \E t \in Temps, p \in Paths : StageCopy(p, t)
<1>1. CASE \/ BeginShelve \/ VerifyClean \/ StayOnBranch \/ Select \/ Compare \/ StartClean
           \/ CleanFails \/ RemoveLock
           \/ \E b \in Branches : BeginUnshelve(b) \/ BeginSwitch(b)
  BY <1>1 DEF BeginShelve, VerifyClean, StayOnBranch, Arrive, Select, Compare, StartClean,
              CleanFails, RemoveLock, BeginUnshelve, BeginSwitch, Idle, At, Goto, session
<1>2. CASE Plan \/ CopyIndex \/ ProtectIndex \/ CreateMetadata \/ FillMetadata \/ MarkReady
  BY <1>2 DEF Plan, CopyIndex, ProtectIndex, CreateMetadata, FillMetadata, MarkReady, Idle, At,
              session
<1>3. CASE DiscardIndex \/ SwapIndex \/ SwitchBranch \/ SwitchFails
  BY <1>3 DEF DiscardIndex, SwapIndex, SwitchBranch, SwitchFails, Arrive, Idle, At
<1>4. CASE CreateIndexImage \/ FillIndexImage \/ CreateJournal \/ FillJournal
  BY <1>4 DEF CreateIndexImage, FillIndexImage, CreateJournal, FillJournal, At
<1>5. CASE ConsumeFiles \/ ConsumeMetadata \/ GiveUp \/ Crash \/ \E b \in Branches : RemoveTorn(b)
  BY <1>5 DEF ConsumeFiles, ConsumeMetadata, GiveUp, Crash, RemoveTorn, Idle, At, session
<1>6. CASE Commit \/ \E p \in Paths : Edit(p) \/ Delete(p) \/ Stage(p) \/ Discard(p)
  BY <1>6 DEF Commit, Edit, Delete, Stage, Discard, session
<1>7. CASE \E p \in Paths : CopyPath(p) \/ DiscardPath(p) \/ RemovePath(p) \/ PutPath(p)
  BY <1>7 DEF CopyPath, DiscardPath, RemovePath, PutPath, At
<1>8. CASE LockIndex
  BY <1>8 DEF LockIndex, At, Goto
<1>9. CASE UNCHANGED vars \/ \E t \in Temps : RemoveStray(t)
  BY <1>9 DEF RemoveStray, vars, session
<1> QED BY <1>1, <1>2, <1>3, <1>4, <1>5, <1>6, <1>7, <1>8, <1>9 DEF Next

\* Nothing else but an edit changes the working tree while files are put back, and
\* no edit changes a temporary copy.
LEMMA CopyUntouched ==
  ASSUME SafeInv, [Next]_vars, pc = "put", UNCHANGED session
  PROVE  shelf' = shelf /\ \A t \in Temps : tree'[t] = tree[t]
<1>1. Temps \subseteq Paths /\ tree \in Tree
  BY TempAssumption DEF SafeInv, TypeOK
<1>2. CASE \E p \in Paths \ Temps : Edit(p)
  BY <1>1, <1>2 DEF Edit, Tree
<1>3. CASE RemoveLock \/ UNCHANGED vars
  BY <1>3 DEF RemoveLock, vars, repository
<1>4. CASE Next /\ ~RemoveLock /\ ~\E p \in Paths \ Temps : Edit(p)
  <2>1. \/ LockIndex \/ GiveUp \/ Crash \/ \E p \in Paths : PutPath(p)
        \/ \E t \in Temps, p \in Paths : StageCopy(p, t)
    BY <1>4
       DEF Next, BeginShelve, BeginUnshelve, BeginSwitch, Plan, CopyIndex, ProtectIndex,
           CreateMetadata, FillMetadata, StartClean, DiscardIndex, VerifyClean, CleanFails,
           MarkReady, StayOnBranch, SwitchBranch, SwitchFails, Select, CreateIndexImage,
           FillIndexImage, CreateJournal, FillJournal, SwapIndex, Compare, ConsumeFiles,
           ConsumeMetadata, CopyPath, DiscardPath, RemovePath, Delete, Stage, Discard,
           RemoveStray, Commit, RemoveTorn, At
  <2>2. CASE LockIndex \/ GiveUp \/ Crash
    BY <2>2 DEF LockIndex, GiveUp, Crash, Idle, Goto, session
  <2>3. ASSUME NEW p \in Paths, PutPath(p) PROVE FALSE
    BY <2>3 DEF PutPath, session
  <2>4. ASSUME NEW t \in Temps, NEW p \in Paths, StageCopy(p, t) PROVE FALSE
    BY <2>4 DEF StageCopy, session
  <2> QED BY <2>1, <2>2, <2>3, <2>4
<1> QED BY <1>2, <1>3, <1>4

\* At the start there is no temporary copy.
LEMMA CopyInit == Init => CopyInv
  BY DEF Init, CopyInv

\* Every step preserves CopyInv.
LEMMA CopyNext == SafeInv /\ CopyInv /\ [Next]_vars => CopyInv'
<1> SUFFICES ASSUME SafeInv, CopyInv, [Next]_vars PROVE CopyInv'
  OBVIOUS
<1>1. CASE copy' = {}
  BY <1>1 DEF CopyInv
<1>2. CASE copy' = copy /\ copy' # {}
  <2>1. pc = "put"
    BY <1>2 DEF CopyInv
  <2>2. left # {}
    <3>1. PICK c \in copy : TRUE
      BY <1>2
    <3>2. PICK p \in Paths, t \in Temps : c = <<p, t>>
      BY <3>1 DEF SafeInv, TypeOK
    <3> QED BY <3>1, <3>2 DEF CopyInv
  <2>3. CASE UNCHANGED session
    <3>1. shelf' = shelf /\ \A t \in Temps : tree'[t] = tree[t]
      BY <2>1, <2>3, CopyUntouched
    <3>2. Planned(own)' = Planned(own) /\ UNCHANGED <<pc, left>>
      BY <2>3, <3>1 DEF Planned, Captured, session
    <3> QED BY <1>2, <2>1, <3>1, <3>2 DEF CopyInv
  <2>4. CASE \E t \in Temps, p \in Paths : StageCopy(p, t)
    BY <1>2, <2>4 DEF StageCopy
  <2> QED BY <1>2, <2>1, <2>2, <2>3, <2>4, CopyKept
<1>3. ASSUME NEW t \in Temps, NEW p \in Paths, StageCopy(p, t) PROVE CopyInv'
  <2>1. /\ pc = "put" /\ p \in left /\ UNCHANGED <<pc, left, own, shelf>>
        /\ copy' = {<<p, t>>} /\ tree' = [tree EXCEPT ![t] = Scrap]
        /\ \A b \in Branches : t \notin Planned(b)
    BY <1>3 DEF StageCopy, At
  <2>2. own \in Branches /\ t \in Paths /\ tree \in Tree
    BY <2>1, TempAssumption DEF SafeInv, TypeOK
  <2>3. tree'[t] = Scrap
    BY <2>1, <2>2 DEF Tree
  <2>4. t \notin Planned(own)'
    BY <2>1, <2>2 DEF Planned, Captured
  <2>5. \A q \in Paths, u \in Temps : <<q, u>> \in copy' => q = p /\ u = t
    BY <2>1
  <2> QED BY <2>1, <2>3, <2>4, <2>5 DEF CopyInv
<1> QED BY <1>1, <1>2, <1>3, CopyKept

-----------------------------------------------------------------------------
(* HomeInv: what is written on a branch stays on it.                       *)

\* A step that writes no file of the user: a shelf gets nothing but the files
\* and the index of its own branch.
HomeStep ==
    /\ OnlyCopies /\ UNCHANGED <<index, head, owed, home>>
    /\ \A b \in Branches, p \in Paths :
           /\ \/ shelf'[b].image[p] \in {shelf[b].image[p], Absent}
              \/ b = head /\ shelf'[b].image[p] = tree[p]
           /\ \/ shelf'[b].index[p] \in {shelf[b].index[p], Absent}
              \/ b = head /\ shelf'[b].index[p] = index[p]
    /\ Leaving' => Leaving \/ Dirty = {}

\* Such a step preserves HomeInv.
LEMMA HomeStepFrame ==
  ASSUME SafeInv, HomeInv, HomeStep
  PROVE  HomeInv'
<1>1. Absent \notin owed
  BY DEF SafeInv, Bounded, Absent
<1>2. ShelvesAtHome'
  <2> SUFFICES ASSUME NEW b \in Branches, NEW p \in Paths,
                      NEW v \in {shelf'[b].image[p], shelf'[b].index[p]} \cap owed
               PROVE  home[v] \in {b, NoBranch}
    BY DEF ShelvesAtHome, HomeStep
  <2>1. CASE v \in {shelf[b].image[p], shelf[b].index[p]}
    BY <2>1 DEF HomeInv, ShelvesAtHome
  <2>2. CASE b = head /\ v \in {tree[p], index[p]}
    BY <2>2 DEF HomeInv, AtHome
  <2> QED BY <1>1, <2>1, <2>2 DEF HomeStep
<1>3. \A p \in Paths : {tree'[p], index'[p]} \cap owed \subseteq {tree[p], index[p]} \cap owed
  BY CopiesUnowed DEF HomeStep
<1>4. AtHome' /\ Unowned'
  BY <1>3 DEF HomeInv, AtHome, Unowned, HomeStep
<1>5. NothingCarried'
  <2> SUFFICES ASSUME Leaving', NEW p \in Paths, NEW v \in {tree[p], index[p]} \cap owed
               PROVE  home[v] = NoBranch
    BY <1>3 DEF NothingCarried, HomeStep
  <2>1. CASE Leaving
    BY <2>1 DEF HomeInv, NothingCarried
  <2>2. CASE Dirty = {}
    BY <2>2 DEF Dirty, SafeInv, CommittedFree, TypeOK
  <2> QED BY <2>1, <2>2 DEF HomeStep
<1> QED BY <1>2, <1>4, <1>5 DEF HomeInv

\* A step that writes files puts there what is committed or what the shelf of
\* the branch holds.
LEMMA FilesHome ==
  ASSUME SafeInv, HomeInv, FilesStep, head' = head, ~Leaving',
         \A p \in Paths : tree'[p] \in {tree[p], shelf[head].image[p]} \/ tree'[p] \notin owed,
         \A p \in Paths : index'[p] \in {index[p], shelf[head].index[p]} \/ index'[p] \notin owed
  PROVE  HomeInv'
<1>1. ShelvesAtHome' /\ Unowned' /\ NothingCarried'
  BY DEF HomeInv, ShelvesAtHome, Unowned, NothingCarried, FilesStep
<1>2. AtHome'
  <2> SUFFICES ASSUME NEW p \in Paths, NEW v \in {tree'[p], index'[p]} \cap owed
               PROVE  home[v] \in {head, NoBranch}
    BY DEF AtHome, FilesStep
  <2>1. v \in {tree[p], index[p], shelf[head].image[p], shelf[head].index[p]} /\ head \in Branches
    BY DEF SafeInv, TypeOK
  <2> QED BY <2>1 DEF HomeInv, AtHome, ShelvesAtHome
<1> QED BY <1>1, <1>2 DEF HomeInv

\* Steps of the session that only look.
LEMMA LookingHome ==
  ASSUME SafeInv, \/ BeginShelve \/ VerifyClean \/ StayOnBranch \/ Select \/ Compare
                  \/ StartClean \/ LockIndex \/ CleanFails \/ RemoveLock
                  \/ \E b \in Branches : BeginUnshelve(b) \/ BeginSwitch(b)
  PROVE  HomeStep
<1>1. UNCHANGED <<tree, index, head, owed, home, shelf>>
  BY DEF BeginShelve, VerifyClean, StayOnBranch, Select, Compare, StartClean, LockIndex,
         CleanFails, RemoveLock, BeginUnshelve, BeginSwitch, repository, history
<1>2. Leaving' => Dirty = {}
  <2>1. CASE BeginShelve \/ Select \/ StartClean \/ LockIndex \/ CleanFails \/ RemoveLock
    BY <2>1 DEF BeginShelve, Select, StartClean, LockIndex, CleanFails, RemoveLock, Leaving, At,
                Goto, session
  <2>2. CASE StayOnBranch \/ Compare
    BY <2>2 DEF StayOnBranch, Arrive, Compare, Leaving, Idle, Goto, At
  <2>3. CASE VerifyClean
    BY <2>3 DEF VerifyClean
  <2>4. CASE \E b \in Branches : BeginUnshelve(b)
    BY <2>4 DEF BeginUnshelve, Leaving, Goto
  <2>5. CASE \E b \in Branches : BeginSwitch(b)
    BY <1>1, <2>5 DEF BeginSwitch, Leaving, Goto
  <2> QED BY <2>1, <2>2, <2>3, <2>4, <2>5
<1> QED BY <1>1, <1>2 DEF HomeStep, OnlyCopies

\* Steps that write a file of a shelf, not its contents.
LEMMA FlagsHome ==
  ASSUME SafeInv, \/ ProtectIndex \/ CreateMetadata \/ FillMetadata \/ MarkReady
                  \/ CreateIndexImage \/ FillIndexImage \/ CreateJournal \/ FillJournal
                  \/ ConsumeFiles
  PROVE  HomeStep
<1>1. SameContents /\ UNCHANGED <<tree, index, head, owed, home>>
  BY ProtectIndexMoves, MetadataMoves, MarkReadyMoves, JournalMoves, ConsumeFilesMoves
     DEF ShelfStep
<1>2. \A b \in Branches, p \in Paths : /\ shelf'[b].image[p] = shelf[b].image[p]
                                       /\ shelf'[b].index[p] = shelf[b].index[p]
  BY <1>1 DEF SameContents, SameContent
<1>3. Leaving' => Leaving
  BY DEF ProtectIndex, CreateMetadata, FillMetadata, MarkReady, CreateIndexImage,
         FillIndexImage,
         CreateJournal, FillJournal, ConsumeFiles, Leaving, At, Goto, Idle, session
<1> QED BY <1>1, <1>2, <1>3 DEF HomeStep, OnlyCopies

\* The capture.
LEMMA CaptureHome ==
  ASSUME SafeInv, Plan \/ CopyIndex \/ \E p \in Paths : CopyPath(p)
  PROVE  HomeStep
<1>1. CASE Plan
  <2>1. /\ head \in Branches /\ shelf'[head].image = NoTree /\ shelf'[head].index = NoTree
        /\ \A b \in Branches \ {head} : shelf'[b] = shelf[b]
        /\ UNCHANGED <<tree, index, head, owed, home>> /\ pc' = "index"
    BY <1>1, PlanMoves
  <2>2. \A p \in Paths : NoTree[p] = Absent
    BY DEF NoTree
  <2> QED BY <2>1, <2>2 DEF HomeStep, OnlyCopies, Leaving
<1>2. CASE CopyIndex
  <2>1. /\ own = head /\ shelf'[own].image = shelf[own].image /\ shelf'[own].index = index
        /\ \A b \in Branches \ {own} : shelf'[b] = shelf[b]
        /\ UNCHANGED <<tree, index, head, owed, home>> /\ pc' = "copy"
    BY <1>2, CopyIndexMoves
  <2> QED BY <2>1 DEF HomeStep, OnlyCopies, Leaving
<1>3. ASSUME NEW p \in Paths, CopyPath(p) PROVE HomeStep
  <2>1. /\ own = head /\ shelf'[own].image[p] = tree[p] /\ shelf'[own].index = shelf[own].index
        /\ \A q \in Paths \ {p} : shelf'[own].image[q] = shelf[own].image[q]
        /\ \A b \in Branches \ {own} : shelf'[b] = shelf[b]
        /\ UNCHANGED <<tree, index, head, owed, home>> /\ pc' = "copy"
    BY <1>3, CopyPathMoves
  <2> QED BY <2>1 DEF HomeStep, OnlyCopies, Leaving
<1> QED BY <1>1, <1>2, <1>3

\* Shelves that go.
LEMMA GoneHome ==
  ASSUME SafeInv, CopyInv,
         ConsumeMetadata \/ GiveUp \/ Crash \/ \E b \in Branches : RemoveTorn(b)
  PROVE  HomeStep
<1>1. /\ OnlyCopies /\ UNCHANGED <<index, head, owed, home>> /\ pc' = "idle"
      /\ \A b \in Branches : shelf'[b] \in {shelf[b], NoShelf}
  BY GoneMoves
<1>2. \A p \in Paths : NoTree[p] = Absent
  BY DEF NoTree
<1> QED BY <1>1, <1>2, NoShelfType DEF HomeStep, Leaving

\* Temporary copies.
LEMMA CopyHome ==
  ASSUME SafeInv, NEW t \in Temps, RemoveStray(t) \/ \E p \in Paths : StageCopy(p, t)
  PROVE  HomeStep
<1>1. FilesStep /\ OnlyCopies /\ UNCHANGED <<head, index, pc, to>>
  BY CopyMoves
<1> QED BY <1>1 DEF HomeStep, FilesStep, Leaving

\* HomeInv survives the steps that write files.
LEMMA FilesStepHome ==
  ASSUME SafeInv, CopyInv, HomeInv,
         \/ DiscardIndex \/ SwapIndex
         \/ \E p \in Paths : DiscardPath(p) \/ RemovePath(p) \/ PutPath(p)
  PROVE  HomeInv'
<1>1. /\ FilesStep /\ head' = head /\ ~Leaving' /\ pc \in Cleaning \cup Restoring
  BY DEF DiscardIndex, SwapIndex, DiscardPath, RemovePath, PutPath, FilesStep, Leaving, At,
         Goto,
         history, Cleaning, Restoring
<1>2. /\ own = head /\ \A p \in Paths : shelf[own].base[p] \notin owed
  BY <1>1, WorkingShelf
<1>3. Absent \notin owed /\ tree \in Tree /\ index \in Tree
  BY DEF SafeInv, TypeOK, Bounded, Absent
<1>4. CASE DiscardIndex
  <2>1. /\ tree' = tree
        /\ \A p \in Paths : index'[p] \in {index[p], shelf[own].base[p]}
    BY <1>4 DEF DiscardIndex
  <2> QED BY <1>1, <1>2, <2>1, FilesHome
<1>5. CASE SwapIndex
  <2>1. tree' = tree /\ index' = shelf[own].index
    BY <1>5 DEF SwapIndex
  <2> QED BY <1>1, <1>2, <2>1, FilesHome
<1>6. ASSUME NEW p \in Paths, DiscardPath(p) \/ RemovePath(p) \/ PutPath(p)
      PROVE  HomeInv'
  <2>1. /\ index' = index /\ \A q \in Paths \ {p} : tree'[q] \in {tree[q], Absent}
        /\ tree'[p] \in {shelf[own].base[p], shelf[own].image[p], Absent}
    <3>1. CASE DiscardPath(p) \/ RemovePath(p)
      BY <1>3, <3>1 DEF DiscardPath, RemovePath, Tree
    <3>2. CASE PutPath(p)
      BY <3>2, PutPathMoves
    <3> QED BY <1>6, <3>1, <3>2
  <2> QED BY <1>1, <1>2, <1>3, <2>1, FilesHome
<1> QED BY <1>4, <1>5, <1>6

\* HomeInv survives a checkout: what it carries has no home.
LEMMA SwitchHome ==
  ASSUME SafeInv, HomeInv, SwitchBranch \/ SwitchFails
  PROVE  HomeInv'
<1>1. /\ pc = "checkout" /\ to # head /\ pc' # "checkout" /\ pc' # "ready" /\ FilesStep
      /\ to \in Branches
      /\ Checkout \/ UNCHANGED <<head, tree, index>>
  BY DEF SafeInv, Works, SwitchBranch, SwitchFails, Arrive, Idle, Goto, At, FilesStep, history
<1>2. ShelvesAtHome' /\ Unowned' /\ NothingCarried'
  BY <1>1 DEF HomeInv, ShelvesAtHome, Unowned, NothingCarried, FilesStep, Leaving
<1>3. AtHome'
  <2>1. CASE UNCHANGED <<head, tree, index>>
    BY <1>1, <2>1 DEF HomeInv, AtHome, FilesStep
  <2>2. CASE Checkout
    <3>1. \A p \in Paths : /\ tree'[p] \in {tree[p], tip[to][p]}
                           /\ index'[p] \in {index[p], tip[to][p]}
      BY <2>2 DEF Checkout
    <3>2. \A p \in Paths : tip[to][p] \notin owed
      BY <1>1 DEF SafeInv, CommittedFree
    <3>3. Leaving
      BY <1>1 DEF Leaving
    <3>4. \A p \in Paths : \A v \in {tree[p], index[p]} \cap owed : home[v] = NoBranch
      BY <3>3 DEF HomeInv, NothingCarried
    <3>5. UNCHANGED <<owed, home>>
      BY <1>1 DEF FilesStep
    <3> QED BY <3>1, <3>2, <3>4, <3>5 DEF AtHome
  <2> QED BY <1>1, <2>1, <2>2
<1> QED BY <1>2, <1>3 DEF HomeInv

\* HomeInv survives Edit: a content made while a command runs has no home.
LEMMA EditHome ==
  ASSUME SafeInv, HomeInv, NEW p \in Paths, Edit(p)
  PROVE  HomeInv'
<1>. DEFINE new == IF Exposed(p) THEN {} ELSE {next}
<1>1. /\ next \in Value /\ next \notin owed /\ tree' = [tree EXCEPT ![p] = next]
      /\ Write(Unstaged(p), new) /\ UNCHANGED <<tip, head, index, ilock, shelf, session>>
      /\ new \subseteq {next}
  BY BoundAssumption DEF SafeInv, TypeOK, Bounded, Value, Edit
<1>2. home[next] = NoBranch
  BY <1>1 DEF HomeInv, Unowned
<1>3. /\ owed' \subseteq owed \cup {next}
      /\ home' = [v \in Value |-> IF v \in new /\ At("idle") THEN head
                                  ELSE IF v \in owed' THEN home[v] ELSE NoBranch]
  BY <1>1 DEF Write
<1>4. /\ \A v \in owed' \ {next} : v \in owed /\ home'[v] = home[v]
      /\ home'[next] \in {head, NoBranch} /\ (pc # "idle" => home'[next] = NoBranch)
      /\ \A v \in Value \ owed' : home'[v] = NoBranch
  <2>1. owed' \subseteq Value
    BY <1>1, <1>3 DEF SafeInv, TypeOK
  <2>2. next \in new => next \in owed'
    BY <1>1 DEF Write
  <2> QED BY <1>1, <1>2, <1>3, <2>1, <2>2 DEF At
<1>5. /\ tree'[p] = next /\ \A q \in Paths \ {p} : tree'[q] = tree[q]
  BY <1>1 DEF SafeInv, TypeOK, Tree
<1>6. Unowned'
  BY <1>4 DEF Unowned
<1>7. ShelvesAtHome'
  <2>1. \A b \in Branches, q \in Paths : shelf[b].image[q] # next /\ shelf[b].index[q] # next
    BY Contents DEF SafeInv, Bounded
  <2> QED BY <1>1, <1>4, <2>1 DEF HomeInv, ShelvesAtHome
<1>8. \A q \in Paths : \A v \in {tree'[q], index[q]} \cap owed' :
          v = next \/ v \in {tree[q], index[q]} \cap owed
  BY <1>4, <1>5
<1>9. AtHome'
  BY <1>1, <1>4, <1>8 DEF HomeInv, AtHome
<1>10. NothingCarried'
  BY <1>1, <1>4, <1>8 DEF HomeInv, NothingCarried, Leaving, session
<1> QED BY <1>6, <1>7, <1>9, <1>10 DEF HomeInv

\* HomeInv survives what the user does while no command runs.
LEMMA IdleHome ==
  ASSUME SafeInv, HomeInv, Commit \/ \E p \in Paths : Delete(p) \/ Stage(p) \/ Discard(p)
  PROVE  HomeInv'
<1>1. /\ pc = "idle" /\ pc' = "idle" /\ UNCHANGED <<head, shelf>>
      /\ \E old : Write(old, {})
      /\ \A p \in Paths : /\ tree'[p] \in {tree[p], Absent, tip[head][p]}
                          /\ index'[p] \in {index[p], tree[p], tip[head][p]}
  BY DEF Commit, Delete, Stage, Discard, At, session, SafeInv, TypeOK, Tree
<1>2. /\ owed' \subseteq owed /\ \A v \in owed' : home'[v] = home[v]
  BY <1>1, WriteNothing DEF SafeInv
<1>3. \A v \in Value \ owed' : home'[v] = NoBranch
  <2>1. PICK old : Write(old, {})
    BY <1>1
  <2> QED BY <2>1 DEF Write, At
<1>4. ShelvesAtHome' /\ Unowned' /\ NothingCarried'
  BY <1>1, <1>2, <1>3 DEF HomeInv, ShelvesAtHome, Unowned, NothingCarried, Leaving
<1>5. \A p \in Paths : tip[head][p] \notin owed /\ Absent \notin owed
  BY DEF SafeInv, TypeOK, CommittedFree, Bounded, Absent
<1>6. AtHome'
  BY <1>1, <1>2, <1>5 DEF HomeInv, AtHome
<1> QED BY <1>4, <1>6 DEF HomeInv

\* HomeInv is an invariant beside SafeInv.
LEMMA HomeInit == Init => HomeInv
<1> SUFFICES ASSUME Init PROVE HomeInv
  OBVIOUS
<1>1. ShelvesAtHome /\ NothingCarried /\ AtHome
  BY DEF Init, ShelvesAtHome, NothingCarried, AtHome
<1>2. Unowned
  BY DEF Init, Unowned
<1> QED BY <1>1, <1>2 DEF HomeInv

\* Every step preserves HomeInv.
LEMMA HomeNext == SafeInv /\ CopyInv /\ HomeInv /\ [Next]_vars => HomeInv'
<1> SUFFICES ASSUME SafeInv, CopyInv, HomeInv, [Next]_vars PROVE HomeInv'
  OBVIOUS
<1>1. CASE \/ BeginShelve \/ VerifyClean \/ StayOnBranch \/ Select \/ Compare
           \/ StartClean \/ LockIndex \/ CleanFails \/ RemoveLock
           \/ \E b \in Branches : BeginUnshelve(b) \/ BeginSwitch(b)
  BY <1>1, LookingHome, HomeStepFrame
<1>2. CASE \/ ProtectIndex \/ CreateMetadata \/ FillMetadata \/ MarkReady
           \/ CreateIndexImage \/ FillIndexImage \/ CreateJournal \/ FillJournal
           \/ ConsumeFiles
  BY <1>2, FlagsHome, HomeStepFrame
<1>3. CASE Plan \/ CopyIndex \/ \E p \in Paths : CopyPath(p)
  BY <1>3, CaptureHome, HomeStepFrame
<1>4. CASE ConsumeMetadata \/ GiveUp \/ Crash \/ \E b \in Branches : RemoveTorn(b)
  BY <1>4, GoneHome, HomeStepFrame
<1>5. CASE \/ DiscardIndex \/ SwapIndex
           \/ \E p \in Paths : DiscardPath(p) \/ RemovePath(p) \/ PutPath(p)
  BY <1>5, FilesStepHome
<1>6. CASE SwitchBranch \/ SwitchFails
  BY <1>6, SwitchHome
<1>7. CASE Commit \/ \E p \in Paths : Edit(p) \/ Delete(p) \/ Stage(p) \/ Discard(p)
  BY <1>7, EditHome, IdleHome
<1>8. CASE \E t \in Temps : RemoveStray(t) \/ \E p \in Paths : StageCopy(p, t)
  BY <1>8, CopyHome, HomeStepFrame
<1>9. CASE UNCHANGED vars
  BY <1>9
     DEF vars, repository, session, history, HomeInv, ShelvesAtHome, NothingCarried, Unowned,
              AtHome, Leaving
<1> QED BY <1>1, <1>2, <1>3, <1>4, <1>5, <1>6, <1>7, <1>8, <1>9 DEF Next

-----------------------------------------------------------------------------
(* RepeatInv: an interrupted restoration can be repeated.                  *)

\* The repository is as dirty as it was, and a shelf matches it as it did.
LEMMA SameRepository ==
  ASSUME UNCHANGED <<tip, head, tree, index>>
  PROVE  /\ Dirty' = Dirty
         /\ \A b : shelf'[b] = shelf[b] => /\ HalfPut(b)' = HalfPut(b)
                                           /\ Matches(b)' = Matches(b)
                                           /\ RestoreAccepts(b)' = RestoreAccepts(b)
<1>1. Dirty' = Dirty
  BY DEF Dirty
<1>2. ASSUME NEW b, shelf'[b] = shelf[b]
      PROVE  HalfPut(b)' = HalfPut(b) /\ Matches(b)' = Matches(b)
             /\ RestoreAccepts(b)' = RestoreAccepts(b)
  <2>1. Planned(b)' = Planned(b)
    BY <1>2 DEF Planned, Captured
  <2>2. HalfPut(b)' = HalfPut(b)
    BY <1>1, <1>2, <2>1 DEF HalfPut
  <2>3. Matches(b)' = Matches(b)
    BY <1>2, <2>1 DEF Matches
  <2>4. RestoreAccepts(b)' = RestoreAccepts(b)
    BY <1>1, <1>2, <2>1 DEF RestoreAccepts
  <2> QED BY <2>2, <2>3, <2>4
<1> QED BY <1>1, <1>2

\* A step that leaves repository and shelves alone keeps what is said of them.
LEMMA RepeatFrame ==
  ASSUME SafeInv, RepeatInv, UNCHANGED <<tip, head, tree, index, shelf, touched>>,
         pc' \notin {"index", "copy", "metadata"} \/ UNCHANGED <<pc, own>>
  PROVE  IndexPlanned' /\ BaseCurrent' /\ Acceptable'
<1>1. IndexPlanned'
  BY DEF RepeatInv, IndexPlanned, Planned, Captured, Has
<1>2. BaseCurrent'
  BY DEF RepeatInv, BaseCurrent, Has
<1>3. Acceptable'
  <2>1. /\ Matches(head)' = Matches(head) /\ RestoreAccepts(head)' = RestoreAccepts(head)
        /\ HalfPut(head)' = HalfPut(head)
    BY SameRepository
  <2> QED BY <2>1 DEF RepeatInv, Acceptable, Has
<1> QED BY <1>1, <1>2, <1>3

\* RepeatInv survives the steps of the session that only look.
LEMMA LookingRepeat ==
  ASSUME SafeInv, RepeatInv,
         \/ BeginShelve \/ VerifyClean \/ StayOnBranch \/ Compare
         \/ StartClean \/ LockIndex \/ CleanFails \/ RemoveLock
         \/ \E b \in Branches : BeginUnshelve(b) \/ BeginSwitch(b)
  PROVE  RepeatInv'
<1>1. /\ UNCHANGED <<tip, head, tree, index, shelf, touched>>
      /\ pc' \notin {"index", "copy", "metadata"} \/ UNCHANGED <<pc, own>>
  BY DEF BeginShelve, VerifyClean, StayOnBranch, Compare, StartClean, LockIndex, CleanFails,
         RemoveLock, BeginUnshelve, BeginSwitch, Arrive, Idle, Goto, At, repository, session,
         history
<1>2. IndexPlanned' /\ BaseCurrent' /\ Acceptable'
  BY <1>1, RepeatFrame
<1>3. /\ Dirty' = Dirty
      /\ \A b \in Branches : HalfPut(b)' = HalfPut(b) /\ Matches(b)' = Matches(b)
  BY <1>1, SameRepository
<1>4. CASE BeginShelve \/ RemoveLock \/ \E b \in Branches : BeginUnshelve(b)
  <2>1. pc' \in {"idle", "plan", "select"} /\ to' = NoBranch
    BY <1>4 DEF BeginShelve, RemoveLock, BeginUnshelve, Goto, At, session, SafeInv, Works
  <2>2. TargetCurrent' /\ Undisturbed' /\ Reviewed'
    BY <2>1
       DEF TargetCurrent, Undisturbed, Reviewed, Leaving, Reviewing, Captures, Copying,
           Cleaning
  <2> QED BY <1>2, <2>2 DEF RepeatInv
<1>5. ASSUME NEW b \in Branches, BeginSwitch(b) PROVE RepeatInv'
  <2>1. /\ pc' \in {"plan", "checkout"} /\ to' = b /\ (Has(b) => shelf[b].base = tip[b])
        /\ pc' = "checkout" /\ b # head => Dirty = {}
    BY <1>5 DEF BeginSwitch, Goto, CanSwitch
  <2>2. TargetCurrent'
    BY <1>1, <2>1 DEF TargetCurrent, Has
  <2>3. Undisturbed' /\ Reviewed'
    BY <1>1, <1>3, <2>1
       DEF Undisturbed, Reviewed, Leaving, Reviewing, Captures, Copying, Cleaning
  <2> QED BY <1>2, <2>2, <2>3 DEF RepeatInv
<1>6. CASE VerifyClean \/ StartClean
  <2>1. /\ pc \in Cleaning /\ pc' \in {"discard", "ready"} /\ UNCHANGED <<own, to>>
        /\ pc' = "ready" => Dirty = {}
        /\ own \in Branches
    BY <1>6 DEF VerifyClean, StartClean, Goto, At, Cleaning, SafeInv, TypeOK
  <2>2. TargetCurrent'
    BY <1>1, <2>1 DEF RepeatInv, TargetCurrent, Has, Captures, Cleaning
  <2>3. Undisturbed'
    BY <1>3, <2>1 DEF Undisturbed, Leaving, Reviewing
  <2>4. Reviewed'
    BY <1>1, <2>1 DEF RepeatInv, Reviewed, Captures, Copying, Cleaning
  <2> QED BY <1>2, <2>2, <2>3, <2>4 DEF RepeatInv
<1>7. CASE CleanFails
  <2>1. pc \in Cleaning /\ pc' = "put" /\ own' = own
    BY <1>7 DEF CleanFails, Goto, Cleaning
  <2>2. ~shelf[own].ready
    BY <2>1 DEF RepeatInv, Reviewed, Captures, Copying, Cleaning
  <2>3. TargetCurrent' /\ Undisturbed' /\ Reviewed'
    BY <1>1, <2>1, <2>2 DEF TargetCurrent, Undisturbed, Reviewed, Leaving, Reviewing, Captures,
                            Copying, Cleaning
  <2> QED BY <1>2, <2>3 DEF RepeatInv
<1>8. CASE LockIndex
  <2>1. pc = "put" /\ pc' = "swap" /\ own' = own /\ own \in Branches
    BY <1>8 DEF LockIndex, Goto, At, SafeInv, TypeOK
  <2>2. TargetCurrent' /\ Reviewed'
    BY <2>1 DEF TargetCurrent, Reviewed, Captures, Copying, Cleaning
  <2>3. HalfPut(own)' = HalfPut(own)
    BY <1>1, <2>1 DEF HalfPut, Planned, Captured, Dirty
  <2>4. Undisturbed'
    BY <1>1, <2>1, <2>3 DEF RepeatInv, Undisturbed, Leaving, Reviewing
  <2> QED BY <1>2, <2>2, <2>4 DEF RepeatInv
<1>9. CASE StayOnBranch
  <2>1. pc' \in {"idle", "select"}
    BY <1>9 DEF StayOnBranch, Arrive, Idle, Goto
  <2>2. TargetCurrent' /\ Undisturbed' /\ Reviewed'
    BY <2>1
       DEF TargetCurrent, Undisturbed, Reviewed, Leaving, Reviewing, Captures, Copying,
           Cleaning
  <2> QED BY <1>2, <2>2 DEF RepeatInv
<1>10. CASE Compare
  <2>1. pc' \in {"idle", "consume"} /\ (pc' = "consume" => own' = own) /\ Matches(own)
    BY <1>10 DEF Compare, Idle, Goto
  <2>2. TargetCurrent' /\ Reviewed'
    BY <2>1 DEF TargetCurrent, Reviewed, Captures, Copying, Cleaning
  <2>3. pc' = "consume" => Matches(own)'
    BY <1>1, <2>1 DEF Matches, Planned, Captured
  <2>4. Undisturbed'
    BY <2>1, <2>3 DEF Undisturbed, Leaving, Reviewing
  <2> QED BY <1>2, <2>2, <2>4 DEF RepeatInv
<1> QED BY <1>4, <1>5, <1>6, <1>7, <1>8, <1>9, <1>10

\* RepeatInv survives Select: what it accepts is what it may repeat.
LEMMA SelectRepeat ==
  ASSUME SafeInv, RepeatInv, Select
  PROVE  RepeatInv'
<1>1. /\ UNCHANGED <<tip, head, tree, index, shelf, own>>
      /\ own = head /\ shelf[head].base = tip[head]
      /\ Matches(own) \/ RestoreAccepts(own)
      /\ pc' \in {"consume", "put", "journal"}
  BY DEF Select, CanSelect, Goto, repository
<1>2. /\ pc' = "consume" => Matches(own)
      /\ pc' = "put" => shelf[own].journal = "whole" /\ RestoreAccepts(own)
      /\ pc' = "journal" => shelf[own].journal # "whole" /\ RestoreAccepts(own)
  BY DEF Select, CanSelect, Goto
<1>3. /\ Dirty' = Dirty
      /\ HalfPut(own)' = HalfPut(own) /\ Matches(own)' = Matches(own)
      /\ Matches(head)' = Matches(head) /\ RestoreAccepts(head)' = RestoreAccepts(head)
  BY <1>1 DEF HalfPut, Matches, RestoreAccepts, Planned, Captured, Dirty
<1>4. IndexPlanned'
  BY <1>1 DEF RepeatInv, IndexPlanned, Planned, Captured, Has
<1>5. BaseCurrent' /\ TargetCurrent' /\ Acceptable'
  BY <1>1, <1>3 DEF BaseCurrent, TargetCurrent, Acceptable, Captures, Copying, Cleaning
<1>6. /\ pc' = "put" => HalfPut(own)
      /\ pc' = "journal" => /\ Dirty = {} /\ shelf[own].journal = "none"
                            /\ shelf[own].rindex # "torn"
  BY <1>2 DEF RestoreAccepts, HalfPut
<1>7. Undisturbed' /\ Reviewed'
  BY <1>1, <1>2, <1>3, <1>6
     DEF Undisturbed, Reviewed, Leaving, Reviewing, Captures, Copying, Cleaning
<1> QED BY <1>4, <1>5, <1>7 DEF RepeatInv

\* The capture writes no journal, so nothing of it is to be repeated.
LEMMA CaptureFlagsRepeat ==
  ASSUME SafeInv, RepeatInv, ProtectIndex \/ CreateMetadata \/ FillMetadata \/ MarkReady
  PROVE  RepeatInv'
<1>1. /\ ShelfStep /\ SameContents /\ shelf'[own].rindex = shelf[own].rindex
      /\ pc # "ready" => shelf'[own].ready = shelf[own].ready
      /\ shelf'[own].meta = "whole" => Has(own) \/ pc = "metadata"
  <2>1. CASE ProtectIndex
    BY <2>1, ProtectIndexMoves DEF Has
  <2>2. CASE CreateMetadata \/ FillMetadata
    BY <2>2, MetadataMoves
  <2>3. CASE MarkReady
    BY <2>3, MarkReadyMoves DEF MarkReady, At, Has
  <2> QED BY <2>1, <2>2, <2>3
<1>2. /\ pc \in {"copy", "metadata", "ready"} /\ own \in Branches /\ own = head
      /\ pc = "ready" => /\ pc' \in {"checkout", "idle"}
                         /\ pc' = "checkout" => UNCHANGED <<to, own>>
      /\ pc # "ready" => pc' \in {"metadata", "clean"} /\ UNCHANGED <<to, own>>
      /\ to # head /\ to \in Branches \cup {NoBranch}
  BY DEF SafeInv, TypeOK, Works, Owning, Captures, Copying, ProtectIndex, CreateMetadata,
         FillMetadata, MarkReady, At, Goto, Idle, session
<1>3. \A b \in Branches : Planned(b)' = Planned(b) /\ SameContent(shelf'[b], shelf[b])
  BY <1>1 DEF SameContents, SameContent, Planned, Captured
<1>4. /\ shelf[own].rindex = "none"
      /\ pc # "ready" => ~shelf[own].ready
  BY <1>2 DEF RepeatInv, Reviewed, Captures, Copying
<1>5. IndexPlanned'
  <2>1. \A b \in Branches : Has(b)' => Has(b) \/ (b = own /\ pc = "metadata")
    BY <1>1 DEF ShelfStep, Has
  <2>2. \A b \in Branches : Has(b)' =>
            \A p \in Paths \ Planned(b) : shelf[b].index[p] = shelf[b].base[p]
    BY <2>1 DEF RepeatInv, IndexPlanned
  <2>3. pc' \in {"copy", "metadata"} =>
            \A p \in Paths \ Planned(own) : shelf[own].index[p] = shelf[own].base[p]
    BY <1>2 DEF RepeatInv, IndexPlanned
  <2>4. pc' \in {"copy", "metadata"} => own' = own /\ Planned(own)' = Planned(own)
    BY <1>2, <1>3 DEF Planned, Captured, SameContent
  <2> QED BY <1>2, <1>3, <2>2, <2>3, <2>4 DEF IndexPlanned, SameContent
<1>6. BaseCurrent'
  <2>1. Has(own)' /\ own' = own => Has(own) \/ pc = "metadata"
    BY <1>1 DEF Has
  <2>2. shelf'[head].meta = "whole" /\ ~touched => shelf[head].base = tip[head]
    BY <1>1, <1>2 DEF RepeatInv, BaseCurrent, SafeInv, Works
  <2> QED BY <1>1, <1>2, <1>3, <2>2 DEF BaseCurrent, Has, ShelfStep, SameContent
<1>7. TargetCurrent'
  <2>1. pc' # "idle" /\ to # NoBranch => to' = to /\ to \in Branches /\ shelf'[to] = shelf[to]
    BY <1>1, <1>2 DEF ShelfStep
  <2>2. pc \in Captures
    BY <1>2 DEF Captures, Copying
  <2>3. pc' # "idle" => to' = to
    BY <1>2
  <2> QED BY <1>1, <2>1, <2>2, <2>3
          DEF RepeatInv, TargetCurrent, ShelfStep, Has, Captures, Copying, Cleaning
<1>8. Dirty' = Dirty
  BY <1>1, SameRepository DEF ShelfStep
<1>9. Undisturbed' /\ Reviewed'
  BY <1>1, <1>2, <1>4, <1>8
     DEF RepeatInv, Undisturbed, Reviewed, Leaving, Reviewing, Captures, Copying, Cleaning,
         ShelfStep
<1>10. Acceptable'
  BY <1>1, <1>2, <1>4 DEF Acceptable, ShelfStep
<1> QED BY <1>5, <1>6, <1>7, <1>9, <1>10 DEF RepeatInv

\* In a clean repository everything is as committed.
LEMMA CleanRepository ==
  ASSUME TypeOK, Dirty = {}
  PROVE  tree = tip[head] /\ index = tip[head]
  BY DEF TypeOK, Dirty, Tree

\* The journal is begun in a clean repository, and once it is complete the next
\* attempt can go on from any file.
LEMMA JournalRepeat ==
  ASSUME SafeInv, RepeatInv, CreateIndexImage \/ FillIndexImage \/ CreateJournal \/ FillJournal
  PROVE  RepeatInv'
<1>1. /\ ShelfStep /\ SameContents /\ shelf'[own].meta = shelf[own].meta
      /\ pc \in Reviewing /\ pc' \in {"fill", "journal", "put"} /\ own' = own
      /\ own \in Branches /\ own = head /\ Has(own)
      /\ pc' = "fill" => \/ shelf'[own].rindex = "torn" /\ shelf'[own].journal = "none"
                         \/ shelf'[own].rindex = "whole" /\ shelf'[own].journal = "torn"
      /\ pc' # "fill" => /\ shelf'[own].rindex = "whole"
                         /\ shelf'[own].journal = IF pc' = "put" THEN "whole" ELSE "none"
  <2>1. /\ pc \in Reviewing /\ own' = own /\ own \in Branches /\ own = head /\ Has(own)
        /\ pc = "journal" => shelf[own].journal = "none" /\ shelf[own].rindex # "torn"
        /\ pc = "fill" => \/ shelf[own].journal = "none" /\ shelf[own].rindex = "torn"
                          \/ shelf[own].journal = "torn" /\ shelf[own].rindex = "whole"
    BY DEF SafeInv, TypeOK, Works, Owning, Restoring, Reviewing, CreateIndexImage,
           FillIndexImage,
           CreateJournal, FillJournal, At, RepeatInv, Reviewed
  <2> QED BY <2>1, JournalMoves
<1>2. \A b \in Branches : /\ Planned(b)' = Planned(b) /\ SameContent(shelf'[b], shelf[b])
                          /\ Has(b)' <=> Has(b)
  BY <1>1 DEF ShelfStep, SameContents, SameContent, Planned, Captured, Has
<1>3. IndexPlanned'
  BY <1>1, <1>2 DEF RepeatInv, IndexPlanned, SameContent
<1>4. BaseCurrent' /\ TargetCurrent'
  BY <1>1, <1>2
     DEF RepeatInv, BaseCurrent, TargetCurrent, ShelfStep, Has, SameContent, Captures,
                    Copying, Cleaning
<1>5. Dirty' = Dirty /\ UNCHANGED <<tip, head, tree, index, touched>>
  BY <1>1, SameRepository DEF ShelfStep
<1>6. ~touched => /\ Dirty = {} /\ shelf'[own].base = tip[head]
                  /\ tree = tip[head] /\ index = tip[head]
  BY <1>1, <1>2, CleanRepository DEF RepeatInv, Undisturbed, BaseCurrent, SafeInv, SameContent
<1>7. ~touched /\ pc' = "put" => HalfPut(own)'
  BY <1>1, <1>5, <1>6 DEF HalfPut, Planned, Captured
<1>8. Undisturbed' /\ Reviewed'
  BY <1>1, <1>5, <1>6, <1>7
     DEF Undisturbed, Reviewed, Leaving, Reviewing, Captures, Copying, Cleaning
<1>9. Acceptable'
  <2>1. ~touched /\ shelf'[own].rindex = "whole" /\ shelf'[own].journal = "none"
          => RestoreAccepts(own)'
    BY <1>1, <1>5, <1>6 DEF RestoreAccepts
  <2> QED BY <1>1, <1>5, <1>7, <2>1 DEF Acceptable
<1> QED BY <1>3, <1>4, <1>8, <1>9 DEF RepeatInv

\* What goes of a shelf while it is consumed is back, as Matches says.
LEMMA ConsumeRepeat ==
  ASSUME SafeInv, RepeatInv, ConsumeFiles
  PROVE  RepeatInv'
<1>1. /\ ShelfStep /\ SameContents /\ pc = "consume" /\ own = head
      /\ UNCHANGED <<ilock, session>>
  BY ConsumeFilesMoves
<1>2. \A b \in Branches : Planned(b)' = Planned(b) /\ SameContent(shelf'[b], shelf[b])
  BY <1>1 DEF SameContents, SameContent, Planned, Captured
<1>3. \A b \in Branches : Has(b)' => Has(b)
  <2>1. shelf'[own].meta = shelf[own].meta
    BY ConsumeFilesMoves
  <2> QED BY <1>1, <2>1 DEF ShelfStep, Has
<1>4. IndexPlanned'
  BY <1>1, <1>2, <1>3 DEF RepeatInv, IndexPlanned, SameContent, session
<1>5. BaseCurrent' /\ TargetCurrent' /\ Reviewed'
  BY <1>1, <1>2, <1>3
     DEF RepeatInv, BaseCurrent, TargetCurrent, Reviewed, ShelfStep, SameContent,
                          session, Captures, Copying, Cleaning
<1>6. ~touched => Matches(own)'
  <2>1. ~touched => Matches(own)
    BY <1>1 DEF RepeatInv, Undisturbed
  <2> QED BY <1>1, <1>2, <2>1 DEF Matches, ShelfStep, SameContent, session, Planned, Captured
<1>7. Undisturbed'
  BY <1>1, <1>6 DEF Undisturbed, Leaving, Reviewing, ShelfStep, session
<1>8. Acceptable'
  BY <1>1, <1>6 DEF Acceptable, ShelfStep, session
<1> QED BY <1>4, <1>5, <1>7, <1>8 DEF RepeatInv

\* A half done restoration stays one whatever becomes of its temporary copies.
LEMMA HalfPutCopies ==
  ASSUME NEW b \in Branches, HalfPut(b), OnlyCopies, UNCHANGED <<tip, head, index>>,
         shelf'[b] = shelf[b], \A p \in Planned(b) : tree'[p] = tree[p]
  PROVE  HalfPut(b)'
<1>1. Planned(b)' = Planned(b)
  BY DEF Planned, Captured
<1>2. Dirty' \subseteq Dirty \cup Temps
  BY DEF Dirty, OnlyCopies
<1> QED BY <1>1, <1>2 DEF HalfPut

\* Of a shelf that goes nothing is to be repeated.
LEMMA GoneRepeat ==
  ASSUME SafeInv, CopyInv, RepeatInv,
         ConsumeMetadata \/ GiveUp \/ Crash \/ \E b \in Branches : RemoveTorn(b)
  PROVE  RepeatInv'
<1>1. /\ UNCHANGED <<tip, head, index, touched>> /\ pc' = "idle" /\ head \in Branches
      /\ \A b \in Branches : shelf'[b] \in {shelf[b], NoShelf}
      /\ OnlyCopies
      /\ tree' = tree \/ (pc = "put" /\ \A p \in Planned(own) : tree'[p] = tree[p])
  BY GoneMoves DEF SafeInv, TypeOK
<1>2. \A b \in Branches : Has(b)' => Has(b) /\ shelf'[b] = shelf[b]
  BY <1>1, NoShelfType DEF Has
<1>3. IndexPlanned' /\ BaseCurrent'
  BY <1>1, <1>2 DEF RepeatInv, IndexPlanned, BaseCurrent, Planned, Captured
<1>4. TargetCurrent' /\ Undisturbed' /\ Reviewed'
  BY <1>1
     DEF TargetCurrent, Undisturbed, Reviewed, Leaving, Reviewing, Captures, Copying, Cleaning
<1>5. CASE tree' = tree
  <2>1. shelf'[head] = shelf[head] => /\ Matches(head)' = Matches(head)
                                      /\ RestoreAccepts(head)' = RestoreAccepts(head)
                                      /\ HalfPut(head)' = HalfPut(head)
    BY <1>1, <1>5 DEF Matches, RestoreAccepts, HalfPut, Planned, Captured, Dirty
  <2>2. Acceptable'
    BY <1>1, <1>2, <2>1 DEF RepeatInv, Acceptable
  <2> QED BY <1>3, <1>4, <2>2 DEF RepeatInv
<1>6. CASE pc = "put" /\ \A p \in Planned(own) : tree'[p] = tree[p]
  <2>1. own = head
    BY <1>6 DEF SafeInv, Works, Owning, Restoring
  <2>2. ~touched /\ shelf[head].ready => HalfPut(head)
    BY <1>6, <2>1 DEF RepeatInv, Undisturbed
  <2>3. HalfPut(head) /\ shelf'[head] = shelf[head] => HalfPut(head)'
    BY <1>1, <1>6, <2>1, HalfPutCopies
  <2>4. Acceptable'
    BY <1>1, <1>2, <2>2, <2>3 DEF Acceptable
  <2> QED BY <1>3, <1>4, <2>4 DEF RepeatInv
<1> QED BY <1>1, <1>5, <1>6

\* What a capture has begun cannot be restored yet.
LEMMA CaptureRepeat ==
  ASSUME SafeInv, RepeatInv, Plan \/ CopyIndex \/ \E p \in Paths : CopyPath(p)
  PROVE  RepeatInv'
<1>1. /\ own' = head /\ head \in Branches /\ pc' \in {"index", "copy"} /\ to # head
      /\ shelf'[head].meta = "none" /\ ~shelf'[head].ready /\ shelf'[head].rindex = "none"
      /\ \A b \in Branches \ {head} : shelf'[b] = shelf[b]
      /\ UNCHANGED <<tip, head, tree, index, to, touched>>
      /\ pc \in Captures
  <2>1. /\ pc \in Captures /\ (pc # "plan" => shelf[own].rindex = "none" /\ ~shelf[own].ready)
        /\ (pc # "plan" => pc \in Copying)
    BY DEF Plan, CopyIndex, CopyPath, At, Captures, Copying, Cleaning, RepeatInv, Reviewed
  <2>2. to # head
    BY <2>1 DEF SafeInv, Works
  <2>3. CASE Plan
    BY <2>1, <2>2, <2>3, PlanMoves
  <2>4. CASE CopyIndex
    BY <2>1, <2>2, <2>4, CopyIndexMoves
  <2>5. ASSUME NEW p \in Paths, CopyPath(p)
        PROVE  /\ own' = head /\ head \in Branches /\ pc' = "copy" /\ pc = "copy"
               /\ shelf'[head].meta = "none" /\ shelf'[head].ready = shelf[own].ready
               /\ shelf'[head].rindex = shelf[own].rindex
               /\ \A b \in Branches \ {head} : shelf'[b] = shelf[b]
               /\ UNCHANGED <<tip, head, tree, index, to, touched>>
    BY <2>5, CopyPathMoves
  <2> QED BY <2>1, <2>2, <2>3, <2>4, <2>5
<1>2. \A b \in Branches : Has(b)' => b # head /\ Has(b) /\ shelf'[b] = shelf[b]
  BY <1>1 DEF Has
<1>3. /\ pc' = "index" => \A p \in Paths \ Planned(own)' : index[p] = shelf'[own'].base[p]
      /\ pc' = "copy" => \A p \in Paths \ Planned(own)' :
                              shelf'[own'].index[p] = shelf'[own'].base[p]
  <2>1. CASE Plan
    <3>1. /\ own' = head /\ shelf'[head].base = tip[head] /\ pc' = "index"
          /\ \A p \in Paths : shelf'[head].kind[p] = Kind(p)
      BY <2>1, PlanMoves
    <3>2. \A p \in Paths \ Planned(own)' : Kind(p) = "clean"
      BY <3>1 DEF Planned, Captured, Kind
    <3>3. \A p \in Paths \ Planned(own)' : p \notin Dirty
      BY <3>2 DEF Kind
    <3> QED BY <3>1, <3>3 DEF Dirty
  <2>2. CASE CopyIndex
    <3>1. /\ own' = own /\ shelf'[own].base = shelf[own].base
          /\ shelf'[own].kind = shelf[own].kind
          /\ shelf'[own].index = index /\ pc' = "copy" /\ pc = "index"
      BY <2>2, CopyIndexMoves
    <3>2. Planned(own)' = Planned(own)
      BY <3>1 DEF Planned, Captured
    <3> QED BY <3>1, <3>2 DEF RepeatInv, IndexPlanned
  <2>3. ASSUME NEW p \in Paths, CopyPath(p)
        PROVE  /\ pc' = "copy"
               /\ \A q \in Paths \ Planned(own)' : shelf'[own'].index[q] = shelf'[own'].base[q]
    <3>1. /\ own' = own /\ shelf'[own].base = shelf[own].base
          /\ shelf'[own].kind = shelf[own].kind
          /\ shelf'[own].index = shelf[own].index /\ pc' = "copy" /\ pc = "copy"
      BY <2>3, CopyPathMoves
    <3>2. Planned(own)' = Planned(own)
      BY <3>1 DEF Planned, Captured
    <3> QED BY <3>1, <3>2 DEF RepeatInv, IndexPlanned
  <2> QED BY <2>1, <2>2, <2>3
<1>4. IndexPlanned'
  BY <1>1, <1>2, <1>3 DEF RepeatInv, IndexPlanned, Planned, Captured
<1>5. BaseCurrent' /\ Undisturbed' /\ Reviewed' /\ Acceptable'
  BY <1>1, <1>2
     DEF BaseCurrent, Undisturbed, Reviewed, Acceptable, Leaving, Reviewing, Captures,
                    Copying, Cleaning
<1>6. TargetCurrent'
  <2>1. to # NoBranch => to \in Branches
    BY DEF SafeInv, TypeOK
  <2> QED BY <1>1, <1>2, <2>1 DEF RepeatInv, TargetCurrent
<1> QED BY <1>4, <1>5, <1>6 DEF RepeatInv

\* While the cleanup runs there is no journal to repeat.
LEMMA CleanRepeat ==
  ASSUME SafeInv, RepeatInv,
         DiscardIndex \/ \E p \in Paths : DiscardPath(p) \/ RemovePath(p)
  PROVE  RepeatInv'
<1>1. /\ UNCHANGED <<tip, head, shelf, to, own, touched>> /\ pc \in Cleaning /\ pc' \in Cleaning
      /\ own = head
  BY DEF DiscardIndex, DiscardPath, RemovePath, At, Goto, Cleaning, history, SafeInv, Works,
         Owning
<1>2. shelf[own].rindex = "none" /\ ~shelf[own].ready
  BY <1>1 DEF RepeatInv, Reviewed, Captures, Copying, Cleaning
<1>3. IndexPlanned'
  BY <1>1 DEF RepeatInv, IndexPlanned, Planned, Captured, Has, Cleaning
<1>4. BaseCurrent' /\ TargetCurrent'
  BY <1>1 DEF RepeatInv, BaseCurrent, TargetCurrent, Has, Captures
<1>5. Undisturbed' /\ Reviewed' /\ Acceptable'
  BY <1>1, <1>2 DEF Undisturbed, Reviewed, Acceptable, Leaving, Reviewing, Captures, Cleaning
<1> QED BY <1>3, <1>4, <1>5 DEF RepeatInv

\* A file put back leaves the restoration half done.
LEMMA PutPathRepeat ==
  ASSUME SafeInv, CopyInv, RepeatInv, NEW p \in Paths, PutPath(p)
  PROVE  RepeatInv'
<1>1. /\ pc = "put" /\ UNCHANGED <<tip, head, index, shelf, pc, to, own, touched>>
      /\ own = head /\ own \in Branches /\ p \in Planned(own)
      /\ tree'[p] = shelf[own].image[p]
      /\ \A q \in Paths \ {p} : tree'[q] = tree[q] \/ (q \in Temps /\ q \notin Planned(own))
  BY PutPathMoves DEF FilesStep
<1>2. IndexPlanned' /\ BaseCurrent' /\ TargetCurrent' /\ Reviewed'
  BY <1>1
     DEF RepeatInv, IndexPlanned, BaseCurrent, TargetCurrent, Reviewed, Planned, Captured, Has,
              Captures
<1>3. Planned(own)' = Planned(own) /\ Planned(own) \subseteq Paths
  BY <1>1 DEF Planned, Captured
<1>4. Dirty' \subseteq Dirty \cup {p} \cup Temps
  BY <1>1 DEF Dirty
<1>5. HalfPut(own) => HalfPut(own)'
  BY <1>1, <1>3, <1>4 DEF HalfPut
<1>6. Undisturbed'
  BY <1>1, <1>5 DEF RepeatInv, Undisturbed, Leaving, Reviewing
<1>7. Acceptable'
  BY <1>1, <1>5 DEF RepeatInv, Undisturbed, Acceptable
<1> QED BY <1>2, <1>6, <1>7 DEF RepeatInv

\* So do the temporary copies, and the user who removes one.
LEMMA CopyRepeat ==
  ASSUME SafeInv, RepeatInv, NEW t \in Temps,
         RemoveStray(t) \/ \E p \in Paths : StageCopy(p, t)
  PROVE  RepeatInv'
<1>1. /\ UNCHANGED <<tip, head, index, shelf, pc, to, own, touched>> /\ OnlyCopies /\ t \in Paths
      /\ \A q \in Paths \ {t} : tree'[q] = tree[q]
      /\ \A b \in Branches : t \notin Planned(b)
      /\ head \in Branches
  BY CopyMoves DEF FilesStep, SafeInv, TypeOK
<1>2. IndexPlanned' /\ BaseCurrent' /\ TargetCurrent' /\ Reviewed'
  BY <1>1
     DEF RepeatInv, IndexPlanned, BaseCurrent, TargetCurrent, Reviewed, Planned, Captured, Has
<1>3. \A b \in Branches : /\ Planned(b)' = Planned(b) /\ Planned(b) \subseteq Paths
                          /\ \A p \in Planned(b) : tree'[p] = tree[p]
  BY <1>1 DEF Planned, Captured
<1>4. \A b \in Branches : HalfPut(b) => HalfPut(b)'
  BY <1>1, <1>3, HalfPutCopies
<1>5. CASE \E p \in Paths : StageCopy(p, t)
  <2>1. pc = "put"
    BY <1>5 DEF StageCopy, At
  <2>2. own = head
    BY <2>1 DEF SafeInv, Works, Owning, Restoring
  <2>3. ~touched /\ shelf[head].ready => HalfPut(head)'
    BY <1>1, <1>4, <2>1, <2>2 DEF RepeatInv, Undisturbed
  <2>4. Undisturbed'
    BY <1>1, <2>1, <2>2, <2>3 DEF Undisturbed, Leaving, Reviewing
  <2>5. Acceptable'
    BY <1>1, <2>3 DEF Acceptable
  <2> QED BY <1>2, <2>4, <2>5 DEF RepeatInv
<1>6. CASE RemoveStray(t)
  <2>1. pc = "idle" /\ tree'[t] = Absent /\ tip[head][t] = Absent /\ index[t] = Absent
    <3>1. Kind(t) = "untracked" /\ tree' = [tree EXCEPT ![t] = Absent] /\ pc = "idle"
      BY <1>6 DEF RemoveStray, At
    <3>2. tree'[t] = Absent
      BY <1>1, <3>1 DEF SafeInv, TypeOK, Tree
    <3>3. tip[head][t] = Absent /\ index[t] = Absent
      BY <3>1 DEF Kind
    <3> QED BY <3>1, <3>2, <3>3
  <2>2. Dirty' \subseteq Dirty
    BY <1>1, <2>1 DEF Dirty
  <2>3. RestoreAccepts(head) => RestoreAccepts(head)'
    BY <1>1, <1>3, <2>2 DEF RestoreAccepts
  <2>4. Matches(head) => Matches(head)'
    BY <1>1, <1>3 DEF Matches
  <2>5. Acceptable'
    BY <1>1, <1>4, <2>3, <2>4 DEF RepeatInv, Acceptable, Has
  <2>6. Undisturbed'
    BY <1>1, <2>1 DEF Undisturbed, Leaving, Reviewing
  <2> QED BY <1>2, <2>5, <2>6 DEF RepeatInv
<1> QED BY <1>5, <1>6

\* So does the index put back: beside the plan it is the one of the commit.
LEMMA SwapIndexRepeat ==
  ASSUME SafeInv, RepeatInv, SwapIndex
  PROVE  RepeatInv'
<1>1. /\ pc = "swap" /\ pc' = "compare" /\ UNCHANGED <<tip, head, tree, shelf, to, own, touched>>
      /\ index' = shelf[own].index /\ own = head /\ own \in Branches /\ Has(own)
  BY DEF SwapIndex, At, Goto, history, SafeInv, TypeOK, Works, Owning, Restoring
<1>2. IndexPlanned' /\ BaseCurrent' /\ TargetCurrent' /\ Reviewed' /\ Undisturbed'
  BY <1>1
     DEF RepeatInv, IndexPlanned, BaseCurrent, TargetCurrent, Reviewed, Undisturbed, Leaving,
              Reviewing, Planned, Captured, Has, Captures, Copying, Cleaning
<1>3. Planned(own)' = Planned(own)
  BY <1>1 DEF Planned, Captured
<1>4. ~touched => \A p \in Paths \ Planned(own) : shelf[own].index[p] = tip[head][p]
  BY <1>1 DEF RepeatInv, IndexPlanned, BaseCurrent
<1>5. ~touched /\ HalfPut(own) => HalfPut(own)'
  <2> SUFFICES ASSUME ~touched, HalfPut(own) PROVE HalfPut(own)'
    OBVIOUS
  <2>1. Dirty' \subseteq Planned(own) \cup Temps
    <3> SUFFICES ASSUME NEW p \in Paths \ (Planned(own) \cup Temps) PROVE p \notin Dirty'
      BY DEF Dirty
    <3>1. p \notin Dirty
      BY DEF HalfPut
    <3> QED BY <1>1, <1>4, <3>1 DEF Dirty
  <2> QED BY <1>1, <1>3, <2>1 DEF HalfPut
<1>6. Acceptable'
  BY <1>1, <1>5 DEF RepeatInv, Undisturbed, Acceptable
<1> QED BY <1>2, <1>6 DEF RepeatInv

\* An undisturbed switch starts in a clean repository and ends in one.
LEMMA SwitchRepeat ==
  ASSUME SafeInv, RepeatInv, SwitchBranch \/ SwitchFails
  PROVE  RepeatInv'
<1>1. /\ pc = "checkout" /\ to # head /\ pc' \in {"select", "idle"} /\ to \in Branches
      /\ UNCHANGED <<tip, shelf, touched>>
      /\ Checkout \/ UNCHANGED <<head, tree, index>>
      /\ head \in Branches /\ to # NoBranch
  BY BranchAssumption
     DEF SafeInv, TypeOK, Works, SwitchBranch, SwitchFails, Arrive, Idle, Goto, At,
                          history
<1>2. IndexPlanned'
  BY <1>1 DEF RepeatInv, IndexPlanned, Planned, Captured, Has
<1>3. TargetCurrent' /\ Undisturbed' /\ Reviewed'
  BY <1>1
     DEF TargetCurrent, Undisturbed, Reviewed, Leaving, Reviewing, Captures, Copying, Cleaning
<1>4. ~touched => Dirty = {}
  BY <1>1 DEF RepeatInv, Undisturbed, Leaving
<1>5. Has(to) => shelf[to].base = tip[to]
  BY <1>1 DEF RepeatInv, TargetCurrent
<1>6. CASE UNCHANGED <<head, tree, index>>
  <2>1. /\ Matches(head)' = Matches(head) /\ RestoreAccepts(head)' = RestoreAccepts(head)
        /\ HalfPut(head)' = HalfPut(head)
    BY <1>1, <1>6 DEF Matches, RestoreAccepts, HalfPut, Planned, Captured, Dirty
  <2>2. BaseCurrent' /\ Acceptable'
    BY <1>1, <1>6, <2>1 DEF RepeatInv, BaseCurrent, Acceptable, Has
  <2> QED BY <1>2, <1>3, <2>2 DEF RepeatInv
<1>7. CASE Checkout
  <2>1. head' = to
    BY <1>7 DEF Checkout
  <2>2. BaseCurrent'
    BY <1>1, <1>5, <2>1 DEF BaseCurrent, Has
  <2>3. ~touched => tree' = tip[to] /\ index' = tip[to]
    BY <1>1, <1>4, <1>7 DEF Checkout, SafeInv, TypeOK, Tree
  <2>4. ~touched => Dirty' = {}
    BY <1>1, <2>1, <2>3 DEF Dirty
  <2>5. Acceptable'
    <3> SUFFICES ASSUME ~touched, Has(to), shelf[to].rindex = "whole", shelf[to].journal # "torn"
                 PROVE  RestoreAccepts(head)'
      BY <1>1, <2>1 DEF Acceptable, Has
    <3>1. shelf[to].journal \in {"none", "whole"}
      BY <1>1 DEF SafeInv, TypeOK, Shelf, File
    <3>2. CASE shelf[to].journal = "none"
      BY <1>1, <2>1, <2>4, <3>2 DEF RestoreAccepts
    <3>3. CASE shelf[to].journal = "whole"
      BY <1>1, <1>5, <2>1, <2>3, <2>4, <3>3 DEF RestoreAccepts, Planned, Captured
    <3> QED BY <3>1, <3>2, <3>3
  <2> QED BY <1>2, <1>3, <2>2, <2>5 DEF RepeatInv
<1> QED BY <1>1, <1>6, <1>7

\* Once the user has touched something, a failed restoration need not repeat.
LEMMA UserRepeat ==
  ASSUME SafeInv, RepeatInv,
         Commit \/ \E p \in Paths : Edit(p) \/ Delete(p) \/ Stage(p) \/ Discard(p)
  PROVE  RepeatInv'
<1>1. touched' = TRUE /\ UNCHANGED <<shelf, session, head>>
  BY DEF Commit, Edit, Delete, Stage, Discard, Write
<1>2. BaseCurrent' /\ Undisturbed' /\ Acceptable'
  BY <1>1 DEF BaseCurrent, Undisturbed, Acceptable
<1>3. Reviewed'
  BY <1>1 DEF RepeatInv, Reviewed, session
<1>4. CASE \E p \in Paths : Edit(p)
  <2>1. UNCHANGED <<tip, index>>
    BY <1>4 DEF Edit
  <2>2. IndexPlanned' /\ TargetCurrent'
    BY <1>1, <2>1 DEF RepeatInv, IndexPlanned, TargetCurrent, Planned, Captured, Has, session
  <2> QED BY <1>2, <1>3, <2>2 DEF RepeatInv
<1>5. CASE Commit \/ \E p \in Paths : Delete(p) \/ Stage(p) \/ Discard(p)
  <2>1. pc = "idle"
    BY <1>5 DEF Commit, Delete, Stage, Discard, At
  <2>2. IndexPlanned' /\ TargetCurrent'
    BY <1>1, <2>1 DEF RepeatInv, IndexPlanned, TargetCurrent, Planned, Captured, Has, session,
                      Captures, Copying, Cleaning
  <2> QED BY <1>2, <1>3, <2>2 DEF RepeatInv
<1> QED BY <1>4, <1>5

\* RepeatInv is an invariant beside SafeInv.
LEMMA RepeatInit == Init => RepeatInv
<1> SUFFICES ASSUME Init PROVE RepeatInv
  OBVIOUS
<1>1. \A b \in Branches : ~Has(b)
  BY NoShelfType DEF Init, Has
<1>2. IndexPlanned /\ BaseCurrent /\ Acceptable
  BY <1>1, BranchAssumption DEF Init, IndexPlanned, BaseCurrent, Acceptable
<1>3. TargetCurrent /\ Undisturbed /\ Reviewed
  BY DEF Init, TargetCurrent, Undisturbed, Reviewed, Leaving, Reviewing, Captures, Copying,
         Cleaning
<1> QED BY <1>2, <1>3 DEF RepeatInv

\* Every step preserves RepeatInv.
LEMMA RepeatNext == SafeInv /\ CopyInv /\ RepeatInv /\ [Next]_vars => RepeatInv'
<1> SUFFICES ASSUME SafeInv, CopyInv, RepeatInv, [Next]_vars PROVE RepeatInv'
  OBVIOUS
<1>1. CASE \/ BeginShelve \/ VerifyClean \/ StayOnBranch \/ Compare
           \/ StartClean \/ LockIndex \/ CleanFails \/ RemoveLock
           \/ \E b \in Branches : BeginUnshelve(b) \/ BeginSwitch(b)
  BY <1>1, LookingRepeat
<1>2. CASE ProtectIndex \/ CreateMetadata \/ FillMetadata \/ MarkReady
  BY <1>2, CaptureFlagsRepeat
<1>3. CASE Plan \/ CopyIndex \/ \E p \in Paths : CopyPath(p)
  BY <1>3, CaptureRepeat
<1>4. CASE Select \/ CreateIndexImage \/ FillIndexImage \/ CreateJournal \/ FillJournal
  BY <1>4, SelectRepeat, JournalRepeat
<1>5. CASE DiscardIndex \/ \E p \in Paths : DiscardPath(p) \/ RemovePath(p)
  BY <1>5, CleanRepeat
<1>6. CASE SwapIndex \/ \E p \in Paths : PutPath(p)
  BY <1>6, SwapIndexRepeat, PutPathRepeat
<1>7. CASE SwitchBranch \/ SwitchFails
  BY <1>7, SwitchRepeat
<1>8. CASE ConsumeFiles \/ ConsumeMetadata \/ GiveUp \/ Crash \/ \E b \in Branches : RemoveTorn(b)
  BY <1>8, ConsumeRepeat, GoneRepeat
<1>9. CASE Commit \/ \E p \in Paths : Edit(p) \/ Delete(p) \/ Stage(p) \/ Discard(p)
  BY <1>9, UserRepeat
<1>10. CASE \E t \in Temps : RemoveStray(t) \/ \E p \in Paths : StageCopy(p, t)
  BY <1>10, CopyRepeat
<1>11. CASE UNCHANGED vars
  <2>1. UNCHANGED <<tip, head, tree, index, shelf, touched, pc, own, to>>
    BY <1>11 DEF vars, repository, session, history
  <2>2. IndexPlanned' /\ BaseCurrent' /\ Acceptable'
    BY <2>1, RepeatFrame
  <2>3. TargetCurrent' /\ Reviewed'
    BY <2>1 DEF RepeatInv, TargetCurrent, Reviewed, Has
  <2>4. Dirty' = Dirty /\ HalfPut(own)' = HalfPut(own) /\ Matches(own)' = Matches(own)
    BY <2>1 DEF Dirty, HalfPut, Matches, Planned, Captured
  <2>5. Undisturbed'
    BY <2>1, <2>4 DEF RepeatInv, Undisturbed, Leaving
  <2> QED BY <2>2, <2>3, <2>5 DEF RepeatInv
<1> QED BY <1>1, <1>2, <1>3, <1>4, <1>5, <1>6, <1>7, <1>8, <1>9, <1>10, <1>11
       DEF Next

-----------------------------------------------------------------------------
(* Theorems.                                                               *)

IInv == SafeInv /\ CopyInv /\ HomeInv /\ RepeatInv

\* The inductive invariant: it holds at the start, every step preserves it, and
\* it implies the properties below.
THEOREM Inductive == Spec => []IInv
<1>1. Init => IInv
  BY SafeInit, CopyInit, HomeInit, RepeatInit DEF IInv
<1>2. IInv /\ [Next]_vars => IInv'
  BY SafeNext, CopyNext, HomeNext, RepeatNext DEF IInv
<1> QED BY <1>1, <1>2, PTL DEF Spec

\* Every variable has its type, and a session beyond its plan works on a branch.
THEOREM TypeCorrect == Spec => []TypeOK
<1>1. IInv => TypeOK
  BY DEF IInv, SafeInv
<1> QED BY <1>1, Inductive, PTL

\* No failing step, crash, repetition or edit in between makes a shelf or a
\* switch lose the last copy of a content the user wrote, unless he wrote it into
\* a file the running session had read already (Session::capture,
\* Session::restore, apply).
THEOREM NoChangeIsLost == Spec => []NothingLost
<1>1. IInv => NothingLost
  BY DEF IInv, SafeInv
<1> QED BY <1>1, Inductive, PTL

\* A change written on one branch while no command ran is never in the files or
\* in the index of another (prepare, apply, select_restore).
THEOREM ChangesStayHome == Spec => []AtHome
<1>1. IInv => AtHome
  BY DEF IInv, HomeInv
<1> QED BY <1>1, Inductive, PTL

\* The next attempt accepts what an interrupted restoration left, if its image
\* of the index was written and a crash did not tear its journal, if the user has
\* touched nothing since, and if no temporary copy of it is in the way or whoever
\* found one has removed it (files::restore, restore_preflight).
THEOREM RestorationsRepeat == Spec => []Repeatable
<1>1. IInv => Repeatable
  <2>1. HalfPut(head) /\ Dirty \cap Temps \subseteq Planned(head) => RestoreAccepts(head)
    BY DEF HalfPut, RestoreAccepts
  <2> QED BY <2>1 DEF IInv, RepeatInv, Acceptable, Repeatable
<1> QED BY <1>1, Inductive, PTL
=============================================================================
