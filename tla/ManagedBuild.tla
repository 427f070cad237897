---------------------------- MODULE ManagedBuild ----------------------------
(***************************************************************************)
(* Builds of one project against its reusable service infobase             *)
(* (eska-build-runtime/src/build/infobase.rs and execute.rs): the lock,    *)
(* the ownership marker and the recorded state of the infobase, the two    *)
(* `ibcmd` stages and their cancellation, and the publication of an        *)
(* artifact with or without its passport (artifact manifest).              *)
(*                                                                         *)
(* Every process runs one command at a time, `eska build` in one of three  *)
(* forms or `eska clean`.  Of the project's inputs only the base           *)
(* configuration is modelled: the sources of a passport are copied and     *)
(* hashed in one pass.  The files an orphaned `ibcmd` writes are not.      *)
(***************************************************************************)
EXTENDS Integers, FiniteSets

CONSTANTS
    Processes,      \* eska-build processes
    NoOne,          \* holder of a free lock
    Commands,       \* "build", "recreate", "passport", "clean"
    Bases,          \* contents the base configuration file may have
    FirstBase,      \* its content at the start
    Container,      \* ibcmd runs inside a container and not on the host
    Faults,         \* "crash", "io", "native", "signal", "torn", "hold"
    MaxFaults, MaxBuilds, MaxEdits

ASSUME ProcessAssumption == NoOne \notin Processes /\ Container \in BOOLEAN
ASSUME BaseAssumption == FirstBase \in Bases /\ Bases \cap {"none", "partial", "torn", "absent"} = {}
ASSUME CommandAssumption == Commands \subseteq {"build", "recreate", "passport", "clean"}
ASSUME BoundAssumption == {MaxFaults, MaxBuilds, MaxEdits} \subseteq Nat

VARIABLES
    \* disk
    root,           \* managed infobase: directory, owner marker, state.json, data
    base,           \* content of the base configuration file
    dest,           \* published artifact and passport
    backups,        \* hard-link backups beside them
    held,           \* published files another program keeps from being removed
    lock,           \* holder of the infobase lock file
    \* processes
    proc,           \* local variables of a build or a clean
    native,         \* ibcmd as the child of a process
    orphan,         \* ibcmd that outlived the process waiting for it
    space,          \* the workspace directory of a process exists
    pidfile,        \* the stage whose PID is in the workspace's ibcmd.pid
    signalled,      \* Ibcmd::was_interrupted
    \* history and bounds
    before,         \* destinations when the lock was taken
    settled,        \* contents of the last build that reached all its destinations
    paired,         \* builds that make a passport
    stuck,          \* failed builds whose artifact could not be taken away again
    faults, builds, edits

disk    == <<root, base, dest, backups, held>>
children == <<native, orphan, space, pidfile, signalled>>
history == <<before, settled, paired, stuck>>
bounds  == <<faults, builds, edits>>
vars    == <<disk, lock, proc, children, history, bounds>>

Targets == {"output", "manifest"}
TargetAt(i) == IF i = 1 THEN "output" ELSE "manifest"

\* An artifact is the build that made it and the base it was made against; a
\* passport is the build it belongs to and the base it claims.
Content == [id : 0..MaxBuilds, base : Bases \cup {"none", "partial", "torn", "absent"}]
Nothing == [id |-> 0, base |-> "none"]

NoRoot == [exists |-> FALSE, owner |-> FALSE, state |-> "none", data |-> "absent"]
Idle   == [pc |-> "idle", cmd |-> "none", base |-> "none", id |-> 0, i |-> 1, made |-> "none",
           back |-> [t \in Targets |-> Nothing], result |-> "none"]

Init ==
    /\ root = NoRoot /\ base = FirstBase /\ lock = NoOne
    /\ dest = [t \in Targets |-> Nothing] /\ backups = {} /\ held = {}
    /\ proc = [p \in Processes |-> Idle]
    /\ native = [p \in Processes |-> "none"] /\ orphan = [p \in Processes |-> "none"]
    /\ space = [p \in Processes |-> FALSE] /\ pidfile = [p \in Processes |-> "none"]
    /\ signalled = [p \in Processes |-> FALSE]
    /\ before = [p \in Processes |-> dest] /\ settled = dest /\ paired = {} /\ stuck = {}
    /\ faults = 0 /\ builds = 0 /\ edits = 0

At(p, pc) == proc[p].pc = pc
Goto(p, pc) == proc' = [proc EXCEPT ![p].pc = pc]

\* An error or a result: locals are dropped in the order of Release and Tidy.
End(p, result) == proc' = [proc EXCEPT ![p].pc = "release", ![p].result = result]

Fault(kind) ==
    /\ kind \in Faults /\ faults < MaxFaults /\ faults' = faults + 1
    /\ UNCHANGED <<builds, edits>>

-----------------------------------------------------------------------------
(* execute_streaming_inner up to the lock, and the entry of clean.         *)

Begin(p, cmd) ==
    /\ At(p, "idle") /\ orphan[p] = "none"
    /\ IF cmd = "clean"
         THEN root.exists /\ UNCHANGED <<builds, space, pidfile, signalled>>
         ELSE /\ builds < MaxBuilds /\ builds' = builds + 1
              /\ space' = [space EXCEPT ![p] = TRUE]
              /\ pidfile' = [pidfile EXCEPT ![p] = "none"]
              /\ signalled' = [signalled EXCEPT ![p] = FALSE]
    /\ proc' = [proc EXCEPT ![p] = [Idle EXCEPT !.pc = IF cmd = "clean" THEN "lock" ELSE "capture",
                                                !.cmd = cmd, !.id = builds']]
    /\ paired' = IF cmd = "passport" THEN paired \cup {builds'} ELSE paired
    /\ UNCHANGED <<disk, lock, native, orphan, before, settled, stuck, faults, edits>>

\* StateDocument::capture hashes the file itself, a passport its own copy.
Capture(p) ==
    /\ At(p, "capture")
    /\ proc' = [proc EXCEPT ![p].base = base, ![p].pc = "lock"]
    /\ UNCHANGED <<disk, lock, children, history, bounds>>

\* Mutant: a busy lock file does not stop a build.
TryLockShared(p) ==
    /\ At(p, "lock") /\ lock' = p /\ Goto(p, "inspect")
    /\ before' = [before EXCEPT ![p] = dest]
    /\ UNCHANGED <<disk, children, settled, paired, stuck, bounds>>

TryLock(p) ==
    /\ At(p, "lock")
    /\ \/ /\ lock = NoOne /\ lock' = p /\ Goto(p, "inspect")
          /\ before' = [before EXCEPT ![p] = dest]
       \/ lock # NoOne /\ End(p, "locked") /\ UNCHANGED <<lock, before>>
    /\ UNCHANGED <<disk, children, settled, paired, stuck, bounds>>

-----------------------------------------------------------------------------
(* ManagedInfobase::prepare, reset_owned_root and clean under the lock.    *)

\* Mutant: the recorded base configuration is not compared.
ReusableUnchecked(p) ==
    /\ root.owner /\ root.data # "absent" /\ root.state # "none"
    /\ proc[p].cmd # "recreate"

Reusable(p) ==
    /\ root.owner /\ root.data # "absent"
    /\ root.state = proc[p].base
    /\ proc[p].cmd # "recreate"

Inspect(p) ==
    /\ At(p, "inspect")
    /\ \/ root.exists /\ ~root.owner /\ End(p, "unowned")
       \/ ~root.exists /\ IF proc[p].cmd = "clean" THEN End(p, "absent") ELSE Goto(p, "make")
       \/ /\ root.exists /\ root.owner
          /\ Goto(p, IF proc[p].cmd # "clean" /\ Reusable(p) THEN "import" ELSE "remove")
    /\ UNCHANGED <<disk, lock, children, history, bounds>>

Remove(p) ==
    /\ At(p, "remove")
    /\ root' = NoRoot
    /\ IF proc[p].cmd = "clean" THEN End(p, "ok") ELSE Goto(p, "make")
    /\ UNCHANGED <<base, dest, backups, held, lock, children, history, bounds>>

\* remove_dir_all stops half-way, by an error or because the process dies:
\* it deletes in the order of the directory, so any of the parts may be left.
RemoveSome(p) ==
    /\ At(p, "remove") /\ Fault("torn")
    /\ \E owner \in {root.owner, FALSE}, state \in {root.state, "none"},
          data \in {root.data, "absent"} \cup (IF root.data = "absent" THEN {} ELSE {"torn"}) :
            root' = [exists |-> TRUE, owner |-> owner, state |-> state, data |-> data]
    /\ End(p, "error")
    /\ UNCHANGED <<base, dest, backups, held, lock, children, history>>

Make(p) ==
    /\ At(p, "make")
    /\ \/ root' = [NoRoot EXCEPT !.exists = TRUE] /\ Goto(p, "own") /\ UNCHANGED bounds
       \/ Fault("io") /\ End(p, "error") /\ UNCHANGED root
    /\ UNCHANGED <<base, dest, backups, held, lock, children, history>>

\* Mutant: the infobase is marked as ready before it is created.
OwnMarksReady(p) ==
    /\ At(p, "own") /\ Goto(p, "create")
    /\ root' = [root EXCEPT !.owner = TRUE, !.state = proc[p].base, !.data = "partial"]
    /\ UNCHANGED <<base, dest, backups, held, lock, children, history, bounds>>

Own(p) ==
    /\ At(p, "own")
    /\ \/ root' = [root EXCEPT !.owner = TRUE] /\ Goto(p, "create") /\ UNCHANGED bounds
       \/ Fault("io") /\ End(p, "error") /\ UNCHANGED root
    /\ UNCHANGED <<base, dest, backups, held, lock, children, history>>

-----------------------------------------------------------------------------
(* The two stages of ibcmd, Ibcmd::run_interruptible and its cancellation. *)

Stage(p) == IF At(p, "creating") THEN "create" ELSE "import"
Waiting(p) == At(p, "creating") \/ At(p, "importing")

Spawn(p) ==
    /\ \/ At(p, "create") /\ Goto(p, "creating")
       \/ At(p, "import") /\ Goto(p, "importing")
    /\ native' = [native EXCEPT ![p] = "entering"]
    /\ UNCHANGED <<disk, lock, orphan, space, pidfile, signalled, history, bounds>>

\* In a container a shell first records its PID, then becomes ibcmd.
Enter(p) ==
    /\ Waiting(p) /\ native[p] = "entering"
    /\ native' = [native EXCEPT ![p] = "working"]
    /\ pidfile' = IF Container THEN [pidfile EXCEPT ![p] = Stage(p)] ELSE pidfile
    /\ root' = IF Stage(p) = "create" THEN [root EXCEPT !.data = "partial"] ELSE root
    /\ UNCHANGED <<base, dest, backups, held, lock, proc, orphan, space, signalled, history, bounds>>

\* `create --load` reads the file the build named: the workspace's copy for a
\* passport, otherwise whatever the path holds by now.
Loaded(p) == IF proc[p].cmd = "passport" THEN proc[p].base ELSE base

NativeEnds(p) ==
    /\ Waiting(p) /\ native[p] = "working"
    /\ \/ /\ native' = [native EXCEPT ![p] = "done"]
          /\ root' = IF Stage(p) = "create" THEN [root EXCEPT !.data = Loaded(p)] ELSE root
          /\ UNCHANGED bounds
       \/ Fault("native") /\ native' = [native EXCEPT ![p] = "failed"] /\ UNCHANGED root
    /\ UNCHANGED <<base, dest, backups, held, lock, proc, orphan, space, pidfile, signalled, history>>

\* Mutant: the child is not killed.
SurvivesAlways(p) == native[p] \in {"entering", "working"}

\* Inside a container only the PID the shell has recorded is signalled: before
\* that the file is missing, or still holds the PID of the earlier stage.
SurvivesKill(p) ==
    Container /\ native[p] \in {"entering", "working"} /\ pidfile[p] # Stage(p)

Interrupt(p) ==
    /\ Waiting(p) /\ signalled[p]
    /\ native' = [native EXCEPT ![p] = "none"]
    /\ orphan' = IF SurvivesKill(p) THEN [orphan EXCEPT ![p] = native[p]] ELSE orphan
    /\ End(p, "interrupted")
    /\ UNCHANGED <<disk, lock, space, pidfile, signalled, history, bounds>>

Reap(p) ==
    /\ Waiting(p) /\ ~signalled[p] /\ native[p] \in {"done", "failed"}
    /\ native' = [native EXCEPT ![p] = "none"]
    /\ IF native[p] = "failed" THEN End(p, "failed")
       ELSE IF Stage(p) = "create" THEN Goto(p, "mark")
       ELSE proc' = [proc EXCEPT ![p].pc = "check", ![p].made = root.data]
    /\ UNCHANGED <<disk, lock, orphan, space, pidfile, signalled, history, bounds>>

\* mark_ready truncates and rewrites state.json; cut short it does not parse,
\* unless only the final newline is missing.
Mark(p) ==
    /\ At(p, "mark")
    /\ \/ root' = [root EXCEPT !.state = proc[p].base] /\ Goto(p, "import") /\ UNCHANGED bounds
       \/ Fault("io") /\ End(p, "error") /\ root' \in {root, [root EXCEPT !.state = proc[p].base]}
    /\ UNCHANGED <<base, dest, backups, held, lock, children, history>>

\* reject_interrupted_import, validate_artifact and the staged manifest.
Check(p) ==
    /\ At(p, "check")
    /\ IF signalled[p] THEN End(p, "interrupted") ELSE Goto(p, "backup")
    /\ UNCHANGED <<disk, lock, children, history, bounds>>

-----------------------------------------------------------------------------
(* publish and publish_pair.  Every step works on target i; an ordinary    *)
(* build has one target, a passport two.                                   *)

Pair(p) == proc[p].cmd = "passport"
Last(p) == IF Pair(p) THEN 2 ELSE 1
T(p) == TargetAt(proc[p].i)
Staged(p) == [id   |-> proc[p].id,
              base |-> IF T(p) = "output" THEN proc[p].made ELSE proc[p].base]

\* The locals that follow step i of a phase: the next target or phase.
Following(p, record, phase) ==
    IF record.i < Last(p) THEN [record EXCEPT !.i = @ + 1]
    ELSE [record EXCEPT !.i = 1, !.pc = phase]
Advance(p, phase) == proc' = [proc EXCEPT ![p] = Following(p, @, phase)]

BackupOf(p, t) == IF proc[p].back[t] = Nothing THEN {} ELSE {<<t, proc[p].back[t]>>}
Backups(p) == UNION {BackupOf(p, t) : t \in Targets}
Holding(t) == <<t, dest[t]>> \in held

BackUp(p) ==
    /\ At(p, "backup")
    /\ \/ /\ backups' = backups \cup IF dest[T(p)] = Nothing THEN {} ELSE {<<T(p), dest[T(p)]>>}
          /\ proc' = [proc EXCEPT ![p] = Following(p, [@ EXCEPT !.back[T(p)] = dest[T(p)]], "unlink")]
          /\ UNCHANGED bounds
       \/ /\ dest[T(p)] # Nothing /\ Fault("io")
          /\ backups' = backups \ (Backups(p) \ held)
          /\ End(p, "error")
    /\ UNCHANGED <<root, base, dest, held, lock, children, history>>

\* Mutant: the passport stays until the new one is linked over it.
UnlinkArtifact(p) ==
    /\ At(p, "unlink") /\ ~Holding(T(p))
    /\ dest' = [dest EXCEPT !["output"] = Nothing]
    /\ Advance(p, "link")
    /\ UNCHANGED <<root, base, backups, held, lock, children, history, bounds>>

Unlink(p) ==
    /\ At(p, "unlink") /\ ~Holding(T(p))
    /\ dest' = [dest EXCEPT ![T(p)] = Nothing]
    /\ Advance(p, "link")
    /\ UNCHANGED <<root, base, backups, held, lock, children, history, bounds>>

\* The pair is restored as a whole, a single artifact was never touched.
UnlinkFails(p) ==
    /\ At(p, "unlink")
    /\ \/ Holding(T(p)) /\ UNCHANGED bounds
       \/ dest[T(p)] # Nothing /\ Fault("io")
    /\ IF Pair(p)
         THEN /\ proc' = [proc EXCEPT ![p].pc = "undo", ![p].i = 1]
              /\ UNCHANGED backups
         ELSE End(p, "error") /\ backups' = backups \ (Backups(p) \ held)
    /\ UNCHANGED <<root, base, dest, held, lock, children, history>>

\* What a build has put at all its destinations is the last one published as a
\* whole, also if the build does not live to report it.
Link(p) ==
    /\ At(p, "link")
    /\ \/ /\ dest' = [dest EXCEPT ![T(p)] = Staged(p)]
          /\ settled' = [t \in Targets |-> IF proc[p].i = Last(p) /\ (Pair(p) \/ t = "output")
                                           THEN dest'[t] ELSE settled[t]]
          /\ Advance(p, "sweep") /\ UNCHANGED bounds
       \/ /\ Fault("io") /\ UNCHANGED <<dest, settled>>
          /\ proc' = [proc EXCEPT ![p].pc = IF Pair(p) THEN "undo" ELSE "redo", ![p].i = 1]
    /\ UNCHANGED <<root, base, backups, held, lock, children, before, paired, stuck>>

\* restore_pair removes what stands at the destinations, ignoring failures.
Undo(p) ==
    /\ At(p, "undo")
    /\ \/ ~Holding(T(p)) /\ dest' = [dest EXCEPT ![T(p)] = Nothing] /\ UNCHANGED bounds
       \/ Holding(T(p)) /\ UNCHANGED <<dest, bounds>>
       \/ dest[T(p)] # Nothing /\ Fault("io") /\ UNCHANGED dest
    /\ stuck' = IF dest'[T(p)] = Staged(p) THEN stuck \cup {proc[p].id} ELSE stuck
    /\ Advance(p, "redo")
    /\ UNCHANGED <<root, base, backups, held, lock, children, before, settled, paired>>

\* Mutant: only the artifact is put back.
PutBackArtifact(p) == IF T(p) = "manifest" THEN dest ELSE [dest EXCEPT ![T(p)] = proc[p].back[T(p)]]

PutBack(p) == [dest EXCEPT ![T(p)] = proc[p].back[T(p)]]

\* restore_optional and restore_backup link the backup back and remove it; an
\* ordinary build reports a backup that stays, a pair ignores it.
Redo(p) ==
    /\ At(p, "redo") /\ (proc[p].back[T(p)] = Nothing \/ dest[T(p)] = Nothing)
    /\ dest' = IF proc[p].back[T(p)] = Nothing THEN dest ELSE PutBack(p)
    /\ \/ /\ backups' = backups \ (BackupOf(p, T(p)) \ held) /\ UNCHANGED bounds
       \/ /\ proc[p].back[T(p)] # Nothing /\ Fault("io") /\ UNCHANGED backups
    /\ LET stays == ~Pair(p) /\ BackupOf(p, T(p)) \cap backups' # {}
       IN  IF proc[p].i < Last(p) THEN Advance(p, "redo")
           ELSE End(p, IF stays THEN "restore" ELSE "error")
    /\ UNCHANGED <<root, base, held, lock, children, history>>

\* Mutant: the backup is removed although it could not be linked back.
RedoFailsClears(p) ==
    /\ At(p, "redo") /\ dest[T(p)] # Nothing /\ End(p, "restore")
    /\ backups' = backups \ Backups(p)
    /\ UNCHANGED <<root, base, dest, held, lock, children, history, bounds>>

RedoFails(p) ==
    /\ At(p, "redo") /\ proc[p].back[T(p)] # Nothing
    /\ \/ dest[T(p)] # Nothing /\ UNCHANGED bounds
       \/ Fault("io")
    /\ End(p, "restore")
    /\ UNCHANGED <<disk, lock, children, history>>

\* The staged files go first.  A failure ends an ordinary build with an error
\* although its artifact has been replaced, and is ignored for a pair.
Sweep(p) ==
    /\ At(p, "sweep")
    /\ \/ Goto(p, "prune") /\ UNCHANGED bounds
       \/ /\ Fault("io")
          /\ IF Pair(p) THEN Goto(p, "prune") ELSE End(p, "error")
    /\ UNCHANGED <<disk, lock, children, history>>

\* Then the backups go one by one, the artifact's first.  One that stays is an
\* error of an ordinary build, and ignored for a pair.
Prune(p) ==
    /\ At(p, "prune")
    /\ \/ backups' = backups \ (BackupOf(p, T(p)) \ held) /\ UNCHANGED bounds
       \/ proc[p].back[T(p)] # Nothing /\ Fault("io") /\ UNCHANGED backups
    /\ IF proc[p].i < Last(p) THEN Advance(p, "prune")
       ELSE End(p, IF Pair(p) \/ BackupOf(p, T(p)) \cap backups' = {} THEN "ok" ELSE "error")
    /\ UNCHANGED <<root, base, dest, held, lock, children, history>>

-----------------------------------------------------------------------------
(* The end of a command, its environment and the specification.            *)

\* ManagedInfobase is dropped first, then the workspace is removed.
Release(p) ==
    /\ At(p, "release")
    /\ lock' = (IF lock = p THEN NoOne ELSE lock)
    /\ IF proc[p].cmd = "clean" THEN proc' = [proc EXCEPT ![p] = Idle] ELSE Goto(p, "tidy")
    /\ UNCHANGED <<disk, children, history, bounds>>

Tidy(p) ==
    /\ At(p, "tidy")
    /\ space' = [space EXCEPT ![p] = FALSE] /\ proc' = [proc EXCEPT ![p] = Idle]
    /\ UNCHANGED <<disk, lock, native, orphan, pidfile, signalled, history, bounds>>

\* The process dies: the lock is freed, its ibcmd and its workspace stay.
Crash(p) ==
    /\ ~At(p, "idle") /\ Fault("crash")
    /\ lock' = (IF lock = p THEN NoOne ELSE lock)
    /\ proc' = [proc EXCEPT ![p] = Idle]
    /\ native' = [native EXCEPT ![p] = "none"]
    /\ orphan' = IF native[p] \in {"entering", "working"} THEN [orphan EXCEPT ![p] = native[p]] ELSE orphan
    /\ UNCHANGED <<disk, space, pidfile, signalled, history>>

Signal(p) ==
    /\ ~At(p, "idle") /\ proc[p].cmd # "clean" /\ ~signalled[p] /\ Fault("signal")
    /\ signalled' = [signalled EXCEPT ![p] = TRUE]
    /\ UNCHANGED <<disk, lock, proc, native, orphan, space, pidfile, history>>

\* The shell in the container runs ibcmd only if it can record its PID.
OrphanEnters(p) ==
    /\ orphan[p] = "entering"
    /\ orphan' = [orphan EXCEPT ![p] = IF space[p] \/ ~Container THEN "working" ELSE "none"]
    /\ UNCHANGED <<disk, lock, proc, native, space, pidfile, signalled, history, bounds>>

OrphanEnds(p) ==
    /\ orphan[p] = "working"
    /\ orphan' = [orphan EXCEPT ![p] = "none"]
    /\ UNCHANGED <<disk, lock, proc, native, space, pidfile, signalled, history, bounds>>

EditBase ==
    /\ edits < MaxEdits /\ edits' = edits + 1
    /\ base' \in Bases \ {base}
    /\ UNCHANGED <<root, dest, backups, held, lock, proc, children, history, faults, builds>>

Hold(t) ==
    /\ ~Holding(t) /\ dest[t] # Nothing /\ Fault("hold")
    /\ held' = held \cup {<<t, dest[t]>>}
    /\ UNCHANGED <<root, base, dest, backups, lock, proc, children, history>>

LetGo ==
    /\ held # {} /\ held' = {}
    /\ UNCHANGED <<root, base, dest, backups, lock, proc, children, history, bounds>>

Work(p) ==
    \/ Capture(p) \/ TryLock(p) \/ Inspect(p) \/ Remove(p) \/ RemoveSome(p) \/ Make(p) \/ Own(p)
    \/ Spawn(p) \/ Enter(p) \/ NativeEnds(p) \/ Interrupt(p) \/ Reap(p) \/ Mark(p) \/ Check(p)
    \/ BackUp(p) \/ Unlink(p) \/ UnlinkFails(p) \/ Link(p) \/ Undo(p) \/ Redo(p) \/ RedoFails(p)
    \/ Sweep(p) \/ Prune(p) \/ Release(p) \/ Tidy(p)

Next ==
    \/ \E p \in Processes : \/ Work(p) \/ Crash(p) \/ Signal(p) \/ OrphanEnters(p) \/ OrphanEnds(p)
                            \/ \E cmd \in Commands : Begin(p, cmd)
    \/ EditBase
    \/ LetGo
    \/ \E t \in Targets : Hold(t)

Spec == Init /\ [][Next]_vars

-----------------------------------------------------------------------------
(* Properties.                                                             *)

Phases == {"backup", "unlink", "link", "undo", "redo", "sweep", "prune"}
Locked == Phases \cup {"inspect", "remove", "make", "own", "create", "creating", "mark",
                      "import", "importing", "check"}

\* Types, and the lock is held by exactly the process that is between taking
\* it and returning: TryLock is the only way in and Release the way out.
TypeOK ==
    /\ root \in [exists : BOOLEAN, owner : BOOLEAN, state : Bases \cup {"none"},
                 data : Bases \cup {"partial", "torn", "absent"}]
    /\ base \in Bases /\ lock \in Processes \cup {NoOne}
    /\ dest \in [Targets -> Content] /\ backups \subseteq Targets \X Content
    /\ held \subseteq Targets \X Content
    /\ proc \in [Processes -> [pc : Locked \cup {"idle", "capture", "lock", "release", "tidy"},
                               cmd : Commands \cup {"none"}, base : Bases \cup {"none"},
                               id : 0..MaxBuilds, i : 1..2,
                               made : Bases \cup {"none", "partial", "torn", "absent"},
                               back : [Targets -> Content],
                               result : {"none", "ok", "error", "restore", "locked", "unowned",
                                         "absent", "failed", "interrupted"}]]
    /\ native \in [Processes -> {"none", "entering", "working", "done", "failed"}]
    /\ orphan \in [Processes -> {"none", "entering", "working"}]
    /\ {space, signalled} \subseteq [Processes -> BOOLEAN]
    /\ pidfile \in [Processes -> {"none", "create", "import"}]
    /\ {paired, stuck} \subseteq SUBSET (1..MaxBuilds)
    /\ \A p \in Processes : /\ proc[p].pc \in Locked => lock = p
                            /\ lock = p => proc[p].pc \in Locked \cup {"release"}

\* The artifact and the passport beside it are of one build, whatever fails or
\* dies, whenever the artifact is of a build that made a passport.  Two cases
\* are apart: an ordinary build leaves an older passport where it is, and a
\* failed build whose artifact cannot be removed again puts the passport it
\* found beside it (execute.rs publish_pair, restore_pair).
PairMatches ==
    dest["output"].id \in paired \ stuck /\ dest["manifest"] # Nothing
        => dest["output"].id = dest["manifest"].id

\* What was published is never lost to a build that does not publish: the
\* files of the last build that reached all its destinations stay in place or
\* in a backup until a later build has reached all of its own, whatever fails,
\* dies or is kept from being removed in between (publish, publish_pair,
\* restore_pair).  That later build need not live to report itself: its backups
\* go before it returns.
Survives ==
    \A t \in Targets :
        settled[t] \in {Nothing, dest[t]} \/ <<t, settled[t]>> \in backups

\* A build with a passport that fails while it holds the infobase leaves both
\* published files as it found them, unless it reports that they could not be
\* restored or its own artifact could not be removed (publish_pair).
FailureKeepsPair ==
    \A p \in Processes :
        /\ At(p, "release") /\ lock = p /\ proc[p].cmd = "passport"
        /\ proc[p].result \notin {"ok", "restore"} /\ proc[p].id \notin stuck
        => dest = before[p]

\* A passport names the base configuration its artifact was made against, even
\* when the infobase was created by an earlier build (infobase.rs prepare,
\* manifest.rs write).
PassportTruthful ==
    dest["output"] # Nothing /\ dest["output"].id = dest["manifest"].id
        => dest["output"].base = dest["manifest"].base

\* Sources are only imported into an infobase that was created to the end,
\* also after a crash of the process that created it (prepare, mark_ready).
\* What a removal that stopped half-way leaves may still be marked as ready:
\* "torn" was complete once, and nothing notices what is gone.
ReuseComplete == \A p \in Processes : At(p, "import") => root.data \in Bases \cup {"torn"}

\* An ibcmd at work on the infobase belongs to the holder of its lock, and the
\* holder is a process between taking it and returning: no other command resets
\* or imports into the infobase meanwhile (run_interruptible).
AloneInData ==
    /\ TypeOK
    /\ \A p \in Processes : "working" \in {native[p], orphan[p]} => lock = p

=============================================================================
