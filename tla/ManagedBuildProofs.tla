------------------------- MODULE ManagedBuildProofs -------------------------
(***************************************************************************)
(* The safety properties of ManagedBuild, for any number of processes,     *)
(* builds and faults.                                                      *)
(*                                                                         *)
(* Everything rests on the lock: its holder alone touches the infobase and *)
(* the published files (ILock), so what it found and what it has done to   *)
(* it so far can be said by its program counter alone: of the infobase     *)
(* (IReady), of the published files (Placed) and of the backups (Kept).    *)
(***************************************************************************)
EXTENDS ManagedBuild, TLAPS

Steps == Locked \cup {"idle", "capture", "lock", "release", "tidy"}
Results == {"none", "ok", "error", "restore", "locked", "unowned", "absent", "failed", "interrupted"}
Data == Bases \cup {"partial", "torn", "absent"}
Made == Bases \cup {"none", "partial", "torn", "absent"}
Local == [pc : Steps, cmd : Commands \cup {"none"}, base : Bases \cup {"none"},
          id : 0..MaxBuilds, i : 1..2, made : Made, back : [Targets -> Content],
          result : Results]

\* Everything has its type.
IDisk ==
    /\ root \in [exists : BOOLEAN, owner : BOOLEAN, state : Bases \cup {"none"}, data : Data]
    /\ base \in Bases
    /\ dest \in [Targets -> Content]
    /\ backups \subseteq Targets \X Content /\ held \subseteq Targets \X Content
IProc == proc \in [Processes -> Local]
IChildren ==
    /\ native \in [Processes -> {"none", "entering", "working", "done", "failed"}]
    /\ orphan \in [Processes -> {"none", "entering", "working"}]
    /\ space \in [Processes -> BOOLEAN] /\ signalled \in [Processes -> BOOLEAN]
    /\ pidfile \in [Processes -> {"none", "create", "import"}]
IHistory ==
    /\ before \in [Processes -> [Targets -> Content]] /\ settled \in [Targets -> Content]
    /\ paired \subseteq 1..MaxBuilds /\ stuck \subseteq 1..MaxBuilds
    /\ builds \in 0..MaxBuilds

\* The lock is with the process that is between taking it and returning.
ILock ==
    /\ lock \in Processes \cup {NoOne}
    /\ \A p \in Processes : /\ proc[p].pc \in Locked => lock = p
                            /\ lock = p => proc[p].pc \in Locked \cup {"release"}

\* Builds are numbered in the order of their beginning.
IBuilds ==
    /\ paired \subseteq 1..builds
    /\ \A t \in Targets : dest[t].id <= builds
    /\ \A p \in Processes :
        /\ proc[p].id <= builds /\ \A t \in Targets : before[p][t].id <= builds
        /\ proc[p].cmd \in Commands \ {"clean"} => proc[p].id > 0
        /\ proc[p].cmd # "passport" /\ proc[p].cmd \in Commands \ {"clean"}
              => proc[p].id \notin paired

\* What a process has done before it takes the lock, and what the infobase is
\* when it is about to use it.
Ready(r, child) ==
    /\ r.pc \in Locked \cup {"capture", "lock"} => r.cmd # "none"
    /\ r.cmd = "clean" => r.pc \in {"lock", "inspect", "remove", "release"}
    /\ r.pc \in Locked \cup {"lock"} /\ r.cmd # "clean" => r.base \in Bases
    /\ r.pc \in {"capture", "lock"} => r.i = 1 /\ \A t \in Targets : r.back[t] = Nothing
    /\ r.pc \in {"own", "create", "creating"} => root.state = "none"
    /\ r.pc = "creating" /\ child = "done" => root.data \in Bases
    /\ r.pc = "mark" => root.data \in Bases
    /\ r.pc = "import" => root.data \in Bases \cup {"torn"}

IReady ==
    /\ root.state # "none" => root.data \in Bases \cup {"torn", "absent"}
    /\ \A p \in Processes : Ready(proc[p], native[p])

\* PairMatches, of the files at any time.
Matched(files) ==
    files["output"].id \in paired \ stuck /\ files["manifest"] # Nothing
        => files["output"].id = files["manifest"].id

IMatched == Matched(dest) /\ \A p \in Processes : Matched(before[p])

Early == Locked \ Phases
\* The new files are in place, the backups still to be removed.
Linked == {"sweep", "prune"}
Artifact(r) == [id |-> r.id, base |-> r.made]
Passport(r) == [id |-> r.id, base |-> r.base]

\* The published files while a process w found works on them.
Placed(r, w) ==
    /\ r.pc \in Early \cup {"backup"} => dest = w
    /\ r.pc \in Early => r.i = 1
    /\ r.pc \in Early \/ (r.pc = "backup" /\ r.i = 1) => \A t \in Targets : r.back[t] = Nothing
    /\ r.pc \in Phases /\ r.i = 2 => r.cmd = "passport"
    /\ r.pc = "backup" /\ r.i = 2 => r.back["output"] = w["output"] /\ r.back["manifest"] = Nothing
    /\ r.pc \in Phases \ {"backup"} =>
        /\ r.back["output"] = w["output"]
        /\ IF r.cmd = "passport" THEN r.back["manifest"] = w["manifest"]
           ELSE r.back["manifest"] = Nothing /\ dest["manifest"] = w["manifest"]
    /\ r.pc = "unlink" =>
        /\ dest["output"] = IF r.i = 1 THEN w["output"] ELSE Nothing
        /\ dest["manifest"] = w["manifest"]
    /\ r.pc = "link" =>
        /\ dest["output"] = IF r.i = 1 THEN Nothing ELSE Artifact(r)
        /\ r.cmd = "passport" => dest["manifest"] = Nothing
    /\ r.pc \in Linked =>
        /\ dest["output"] = Artifact(r)
        /\ r.cmd = "passport" => dest["manifest"] = Passport(r)
    /\ r.pc = "undo" =>
        /\ r.cmd = "passport" /\ dest["manifest"] \in {Nothing, w["manifest"]}
        /\ \/ dest["output"] \in {Nothing, w["output"]}
           \/ /\ dest["output"] = Artifact(r) /\ dest["manifest"] = Nothing
              /\ r.i = 2 => r.id \in stuck
    /\ r.pc = "redo" =>
        /\ dest["manifest"] \in {Nothing, w["manifest"]}
        /\ \/ dest["output"] = Nothing /\ r.i = 1
           \/ dest["output"] = w["output"]
           \/ /\ dest["output"] = Artifact(r) /\ r.id \in stuck
              /\ r.i = 1 => dest["manifest"] = Nothing
              /\ r.i = 2 => w["output"] = Nothing
        /\ r.cmd # "passport" => dest["output"] = Nothing
    /\ r.pc = "release" /\ r.cmd = "passport" /\ r.result \notin {"ok", "restore"} /\ r.id \notin stuck
        => dest = w

\* What was published last is what the process found or has a backup, and so
\* has what it takes away; once all is linked it is what stands in place.
Kept(r, w) ==
    /\ r.pc \in Locked \ Linked => \A t \in Targets :
        settled[t] \in {Nothing, w[t]} \/ <<t, settled[t]>> \in backups
    /\ r.pc \in Linked => \A t \in Targets :
        r.cmd = "passport" \/ t = "output" => settled[t] = dest[t]
    /\ r.pc \in Phases \ Linked => \A t \in Targets :
        r.back[t] = Nothing \/ <<t, r.back[t]>> \in backups
            \/ (r.pc = "redo" /\ r.i = 2 /\ t = "output")

IHolder == \A p \in Processes :
    lock = p => Placed(proc[p], before[p]) /\ Kept(proc[p], before[p])

IInv == /\ IDisk /\ IProc /\ IChildren /\ IHistory
        /\ ILock /\ IBuilds /\ IReady /\ IMatched /\ IHolder /\ Survives

-----------------------------------------------------------------------------
(* The local variables of a process.                                       *)

\* Goto changes the program counter alone.
LEMMA Goes ==
    ASSUME IProc, NEW p \in Processes, NEW pc \in Steps, Goto(p, pc)
    PROVE  /\ IProc' /\ \A q \in Processes \ {p} : proc'[q] = proc[q]
           /\ proc'[p] = [proc[p] EXCEPT !.pc = pc]
           /\ proc'[p].pc = pc /\ proc'[p].cmd = proc[p].cmd /\ proc'[p].base = proc[p].base
           /\ proc'[p].id = proc[p].id /\ proc'[p].i = proc[p].i /\ proc'[p].made = proc[p].made
           /\ proc'[p].back = proc[p].back /\ proc'[p].result = proc[p].result
<1>1. proc' = [proc EXCEPT ![p] = [proc[p] EXCEPT !.pc = pc]]
  BY DEF Goto
<1>2. [proc[p] EXCEPT !.pc = pc] \in Local
  BY DEF IProc, Local
<1>3. IProc' /\ \A q \in Processes \ {p} : proc'[q] = proc[q]
  BY <1>1, <1>2 DEF IProc
<1>4. proc[p] \in Local /\ proc'[p] = [proc[p] EXCEPT !.pc = pc]
  BY <1>1 DEF IProc
<1> QED BY <1>3, <1>4 DEF Local

\* End also leaves a result.
LEMMA Ends ==
    ASSUME IProc, NEW p \in Processes, NEW result \in Results, End(p, result)
    PROVE  /\ IProc' /\ \A q \in Processes \ {p} : proc'[q] = proc[q]
           /\ proc'[p].pc = "release" /\ proc'[p].cmd = proc[p].cmd /\ proc'[p].base = proc[p].base
           /\ proc'[p].id = proc[p].id /\ proc'[p].i = proc[p].i /\ proc'[p].made = proc[p].made
           /\ proc'[p].back = proc[p].back /\ proc'[p].result = result
<1>1. proc' = [proc EXCEPT ![p] = [proc[p] EXCEPT !.pc = "release", !.result = result]]
  BY DEF End
<1>2. [proc[p] EXCEPT !.pc = "release", !.result = result] \in Local
  BY DEF IProc, Local, Steps
<1>3. IProc' /\ \A q \in Processes \ {p} : proc'[q] = proc[q]
  BY <1>1, <1>2 DEF IProc
<1>4. proc[p] \in Local /\ proc'[p] = [proc[p] EXCEPT !.pc = "release", !.result = result]
  BY <1>1 DEF IProc
<1> QED BY <1>3, <1>4 DEF Local

\* A process goes on with a step and a target.
LEMMA Turns ==
    ASSUME IProc, NEW p \in Processes, NEW pc \in Steps, NEW i \in 1..2,
           proc' = [proc EXCEPT ![p] = [proc[p] EXCEPT !.pc = pc, !.i = i]]
    PROVE  /\ IProc' /\ \A q \in Processes \ {p} : proc'[q] = proc[q]
           /\ proc'[p].pc = pc /\ proc'[p].i = i
           /\ proc'[p].cmd = proc[p].cmd /\ proc'[p].base = proc[p].base
           /\ proc'[p].id = proc[p].id /\ proc'[p].made = proc[p].made
           /\ proc'[p].back = proc[p].back /\ proc'[p].result = proc[p].result
<1>1. [proc[p] EXCEPT !.pc = pc, !.i = i] \in Local
  BY DEF IProc, Local
<1>2. IProc' /\ \A q \in Processes \ {p} : proc'[q] = proc[q]
  BY <1>1 DEF IProc
<1>3. proc[p] \in Local /\ proc'[p] = [proc[p] EXCEPT !.pc = pc, !.i = i]
  BY DEF IProc
<1>4. /\ proc'[p].pc = pc /\ proc'[p].i = i
  BY <1>3 DEF Local
<1>5. proc'[p].cmd = proc[p].cmd /\ proc'[p].base = proc[p].base
  BY <1>3 DEF Local
<1>6. proc'[p].id = proc[p].id /\ proc'[p].made = proc[p].made
  BY <1>3 DEF Local
<1>7. proc'[p].back = proc[p].back /\ proc'[p].result = proc[p].result
  BY <1>3 DEF Local
<1> QED BY <1>2, <1>4, <1>5, <1>6, <1>7

\* Advance goes to the next target or to the next phase.
LEMMA Advances ==
    ASSUME IProc, NEW p \in Processes, NEW phase \in Phases, Advance(p, phase)
    PROVE  /\ IProc' /\ \A q \in Processes \ {p} : proc'[q] = proc[q]
           /\ \/ proc[p].i = 1 /\ Pair(p) /\ proc'[p].pc = proc[p].pc /\ proc'[p].i = 2
              \/ (proc[p].i = 2 \/ ~Pair(p)) /\ proc'[p].pc = phase /\ proc'[p].i = 1
           /\ proc'[p].cmd = proc[p].cmd /\ proc'[p].base = proc[p].base
           /\ proc'[p].id = proc[p].id /\ proc'[p].made = proc[p].made
           /\ proc'[p].back = proc[p].back /\ proc'[p].result = proc[p].result
<1>1. proc[p] \in Local /\ proc[p].i \in 1..2 /\ phase \in Steps /\ proc[p].pc \in Steps
  BY DEF IProc, Local, Steps, Locked
<1>2. CASE proc[p].i < Last(p)
  <2>1. proc[p].i = 1 /\ Pair(p)
    BY <1>1, <1>2 DEF Last
  <2>2. proc' = [proc EXCEPT ![p] = [proc[p] EXCEPT !.i = proc[p].i + 1]]
    BY <1>2 DEF Advance, Following
  <2>4. proc[p].i + 1 = 2
    BY <2>1
  <2>5. proc' = [proc EXCEPT ![p] = [proc[p] EXCEPT !.pc = proc[p].pc, !.i = 2]]
    <3>1. [proc[p] EXCEPT !.i = 2] = [proc[p] EXCEPT !.pc = proc[p].pc, !.i = 2]
      BY <1>1 DEF Local
    <3> QED BY <2>2, <2>4, <3>1, Zenon
  <2>6. 2 \in 1..2
    OBVIOUS
  <2> QED BY <1>1, <2>1, <2>5, <2>6, Turns
<1>3. CASE ~(proc[p].i < Last(p))
  <2>1. proc[p].i = 2 \/ ~Pair(p)
    BY <1>1, <1>3 DEF Last
  <2>2. proc' = [proc EXCEPT ![p] = [proc[p] EXCEPT !.i = 1, !.pc = phase]]
    BY <1>3 DEF Advance, Following
  <2>3. [proc[p] EXCEPT !.i = 1, !.pc = phase] = [proc[p] EXCEPT !.pc = phase, !.i = 1]
    BY <1>1 DEF Local
  <2>4. proc' = [proc EXCEPT ![p] = [proc[p] EXCEPT !.pc = phase, !.i = 1]]
    BY <2>2, <2>3
  <2>5. 1 \in 1..2
    OBVIOUS
  <2> QED BY <1>1, <2>1, <2>4, <2>5, Turns
<1> QED BY <1>2, <1>3

\* A process turns to the first target in another phase.
LEMMA Returns ==
    ASSUME IProc, NEW p \in Processes, NEW phase \in Phases,
           proc' = [proc EXCEPT ![p].pc = phase, ![p].i = 1]
    PROVE  /\ IProc' /\ \A q \in Processes \ {p} : proc'[q] = proc[q]
           /\ proc'[p].pc = phase /\ proc'[p].i = 1
           /\ proc'[p].cmd = proc[p].cmd /\ proc'[p].base = proc[p].base
           /\ proc'[p].id = proc[p].id /\ proc'[p].made = proc[p].made
           /\ proc'[p].back = proc[p].back /\ proc'[p].result = proc[p].result
<1>1. proc' = [proc EXCEPT ![p] = [proc[p] EXCEPT !.pc = phase, !.i = 1]]
  OBVIOUS
<1>2. phase \in Steps
  BY DEF Steps, Locked
<1>3. 1 \in 1..2
  OBVIOUS
<1> QED BY <1>1, <1>2, <1>3, Turns

\* A process without a command.
LEMMA IdleLocal == Idle \in Local
<1>1. Nothing \in Content
  BY BoundAssumption DEF Nothing, Content
<1>2. [t \in Targets |-> Nothing] \in [Targets -> Content]
  BY <1>1
<1> QED BY <1>2, BoundAssumption DEF Idle, Local, Steps, Results, Made

\* A command is over, or its process has died.
LEMMA Rests ==
    ASSUME IProc, NEW p \in Processes, proc' = [proc EXCEPT ![p] = Idle]
    PROVE  /\ IProc' /\ \A q \in Processes \ {p} : proc'[q] = proc[q]
           /\ proc'[p].pc = "idle" /\ proc'[p].cmd = "none" /\ proc'[p].id = 0
<1>1. IProc' /\ (\A q \in Processes \ {p} : proc'[q] = proc[q]) /\ proc'[p] = Idle
  BY IdleLocal DEF IProc
<1> QED BY <1>1 DEF Idle

\* What is known of the process that is between taking the lock and returning.
LEMMA Holds ==
    ASSUME IInv, NEW p \in Processes, proc[p].pc \in Locked
    PROVE  /\ lock = p /\ Placed(proc[p], before[p]) /\ Kept(proc[p], before[p])
           /\ Ready(proc[p], native[p])
BY DEF IInv, ILock, IHolder, IReady

-----------------------------------------------------------------------------
(* What a step of one process leaves alone.                                *)

\* Nothing of the infobase and of the published files changes: what is said of
\* the others stays, and only the process itself has to be looked at.
LEMMA Quiet ==
    ASSUME IInv, NEW p \in Processes,
           UNCHANGED <<root, dest, backups, settled, paired, stuck, builds>>,
           base' \in Bases, held' \subseteq Targets \X Content, IProc', IChildren',
           before' \in [Processes -> [Targets -> Content]], before'[p] \in {before[p], dest},
           \A q \in Processes \ {p} :
              proc'[q] = proc[q] /\ before'[q] = before[q] /\ native'[q] = native[q],
           lock' = lock \/ (lock = NoOne /\ lock' = p) \/ (lock = p /\ lock' = NoOne),
           proc'[p].pc \in Locked => lock' = p,
           lock' = p => proc'[p].pc \in Locked \cup {"release"},
           \/ proc'[p].id = proc[p].id /\ proc'[p].cmd = proc[p].cmd
           \/ proc'[p].id = 0 /\ proc'[p].cmd = "none",
           Ready(proc'[p], native'[p]),
           lock' = p => Placed(proc'[p], before'[p]) /\ Kept(proc'[p], before'[p])
    PROVE  IInv'
<1>1. IDisk' /\ IHistory'
  BY DEF IInv, IDisk, IHistory
<1>2. ILock'
  <2>1. lock' \in Processes \cup {NoOne}
    BY DEF IInv, ILock
  <2>2. ASSUME NEW q \in Processes
        PROVE  /\ proc'[q].pc \in Locked => lock' = q
               /\ lock' = q => proc'[q].pc \in Locked \cup {"release"}
    <3>1. CASE q = p
      BY <3>1
    <3>2. CASE q # p
      <4>1. /\ proc[q].pc \in Locked => lock = q
            /\ lock = q => proc[q].pc \in Locked \cup {"release"}
            /\ proc'[q] = proc[q]
        BY <3>2 DEF IInv, ILock
      <4> QED BY <3>2, <4>1, ProcessAssumption
    <3> QED BY <3>1, <3>2
  <2> QED BY <2>1, <2>2 DEF ILock
<1>3. IBuilds'
  <2>1. ASSUME NEW q \in Processes
        PROVE  /\ proc'[q].id <= builds /\ \A t \in Targets : before'[q][t].id <= builds
               /\ proc'[q].cmd \in Commands \ {"clean"} => proc'[q].id > 0
               /\ proc'[q].cmd # "passport" /\ proc'[q].cmd \in Commands \ {"clean"}
                     => proc'[q].id \notin paired
    <3>1. /\ proc[q].id <= builds /\ \A t \in Targets : before[q][t].id <= builds
          /\ proc[q].cmd \in Commands \ {"clean"} => proc[q].id > 0
          /\ proc[q].cmd # "passport" /\ proc[q].cmd \in Commands \ {"clean"}
                => proc[q].id \notin paired
          /\ \A t \in Targets : dest[t].id <= builds
          /\ paired \subseteq 1..MaxBuilds /\ builds \in Nat
      BY BoundAssumption DEF IInv, IBuilds, IHistory
    <3>2. "none" \notin Commands
      BY CommandAssumption
    <3> QED BY <3>1, <3>2
  <2> QED BY <2>1 DEF IInv, IBuilds
<1>4. IReady'
  BY DEF IInv, IReady, Ready
<1>5. IMatched'
  BY DEF IInv, IMatched, Matched
<1>6. IHolder'
  <2>1. ASSUME NEW q \in Processes, lock' = q
        PROVE  Placed(proc'[q], before'[q]) /\ Kept(proc'[q], before'[q])
    <3>1. CASE q # p
      BY <2>1, <3>1, ProcessAssumption DEF IInv, IHolder
    <3> QED BY <2>1, <3>1
  <2>2. ASSUME NEW q \in Processes, lock' = q
        PROVE  Placed(proc[q], before[q])'
    BY <2>1, <2>2 DEF Linked, Placed
  <2>3. ASSUME NEW q \in Processes, lock' = q
        PROVE  Kept(proc[q], before[q])'
    BY <2>1, <2>3 DEF Linked, Kept
  <2> QED BY <2>2, <2>3 DEF IHolder
<1>7. Survives'
  BY DEF IInv, Survives
<1> QED BY <1>1, <1>2, <1>3, <1>4, <1>5, <1>6, <1>7 DEF IInv

\* Nothing on the disk changes, nor the lock.
LEMMA Turn ==
    ASSUME IInv, NEW p \in Processes,
           UNCHANGED <<disk, lock, before, settled, paired, stuck, builds>>, IProc', IChildren',
           \A q \in Processes \ {p} : proc'[q] = proc[q] /\ native'[q] = native[q],
           proc'[p].pc \in Locked => lock = p,
           lock = p => proc'[p].pc \in Locked \cup {"release"},
           proc'[p].id = proc[p].id, proc'[p].cmd = proc[p].cmd,
           Ready(proc'[p], native'[p]),
           lock = p => Placed(proc'[p], before[p]) /\ Kept(proc'[p], before[p])
    PROVE  IInv'
<1>1. base' \in Bases /\ held' \subseteq Targets \X Content
      /\ UNCHANGED <<root, dest, backups>>
  BY DEF IInv, IDisk, disk
<1>2. before' \in [Processes -> [Targets -> Content]]
  BY DEF IInv, IHistory
<1> QED BY <1>1, <1>2, Quiet

\* The holder of the lock changes the infobase; the published files stay.
LEMMA Infobase ==
    ASSUME IInv, NEW p \in Processes, proc[p].pc \in Early,
           UNCHANGED <<base, dest, backups, held, lock, before, settled, paired, stuck, builds>>,
           root' \in [exists : BOOLEAN, owner : BOOLEAN, state : Bases \cup {"none"}, data : Data],
           root'.state # "none" => root'.data \in Bases \cup {"torn", "absent"},
           IProc', IChildren',
           \A q \in Processes \ {p} : proc'[q] = proc[q] /\ native'[q] = native[q],
           \/ proc'[p].pc \in Early
           \/ proc'[p].pc = "release" /\ proc'[p].result # "ok"
           \/ proc'[p].pc = "release" /\ proc'[p].cmd # "passport",
           proc'[p].id = proc[p].id, proc'[p].cmd = proc[p].cmd, proc'[p].i = proc[p].i,
           proc'[p].back = proc[p].back,
           Ready(proc[p], native[p])'
    PROVE  IInv'
<1>1. lock = p /\ \A q \in Processes \ {p} : proc[q].pc \notin Locked
  BY DEF IInv, ILock, Early
<1>2. IDisk' /\ IHistory'
  BY DEF IInv, IDisk, IHistory
<1>3. ILock'
  <2>1. Early \subseteq Locked
    BY DEF Early
  <2> QED BY <1>1, <2>1 DEF IInv, ILock
<1>4. IBuilds'
  <2>1. \A q \in Processes : proc'[q].id = proc[q].id /\ proc'[q].cmd = proc[q].cmd
    OBVIOUS
  <2> QED BY <2>1 DEF IInv, IBuilds
<1>5. IReady'
  <2>1. ASSUME NEW q \in Processes \ {p}
        PROVE  Ready(proc[q], native[q])'
    BY <1>1 DEF IInv, IReady, Ready, Locked
  <2> QED BY <2>1 DEF IReady
<1>6. IMatched'
  BY DEF IInv, IMatched, Matched
<1>7. IHolder'
  <2>1. Placed(proc[p], before[p]) /\ Kept(proc[p], before[p])
    BY <1>1 DEF IInv, IHolder
  <2>2. proc[p].pc \notin {"redo", "release"} /\ Early \cap Phases = {} /\ "release" \notin Early
        /\ "release" \notin Phases /\ "backup" \notin Early /\ Early \subseteq Locked
    BY DEF Early, Phases, Locked
  <2>3. /\ dest = before[p] /\ proc[p].i = 1 /\ (\A t \in Targets : proc[p].back[t] = Nothing)
        /\ \A t \in Targets : settled[t] \in {Nothing, before[p][t]} \/ <<t, settled[t]>> \in backups
    BY <2>1, <2>2 DEF Placed, Kept, Linked, Phases
  <2>4. Placed(proc[p], before[p])'
    BY <2>2, <2>3 DEF Placed, Linked, Phases
  <2>5. Kept(proc[p], before[p])'
    BY <2>2, <2>3 DEF Kept, Linked, Phases
  <2> QED BY <1>1, <2>4, <2>5, ProcessAssumption DEF IHolder
<1>8. Survives'
  BY DEF IInv, Survives
<1> QED BY <1>2, <1>3, <1>4, <1>5, <1>6, <1>7, <1>8 DEF IInv

\* The holder of the lock changes the published files and the backups; the
\* infobase stays.
LEMMA Publication ==
    ASSUME IInv, NEW p \in Processes, proc[p].pc \in Phases,
           UNCHANGED <<root, base, held, lock, children, before, paired, builds>>,
           dest' \in [Targets -> Content], \A t \in Targets : dest'[t].id <= builds,
           backups' \subseteq Targets \X Content, settled' \in [Targets -> Content],
           stuck \subseteq stuck', stuck' \subseteq 1..MaxBuilds,
           IProc', \A q \in Processes \ {p} : proc'[q] = proc[q],
           proc'[p].pc \in Phases \cup {"release"},
           proc'[p].id = proc[p].id, proc'[p].cmd = proc[p].cmd, proc'[p].base = proc[p].base,
           Matched(dest)', Placed(proc[p], before[p])', Kept(proc[p], before[p])', Survives'
    PROVE  IInv'
<1>1. lock = p /\ Phases \subseteq Locked
  BY DEF IInv, ILock, Locked
<1>2. IDisk' /\ IHistory' /\ IChildren'
  BY DEF IInv, IDisk, IHistory, IChildren, children
<1>3. ILock'
  BY <1>1 DEF IInv, ILock
<1>4. IBuilds'
  <2>1. \A q \in Processes : proc'[q].id = proc[q].id /\ proc'[q].cmd = proc[q].cmd
    OBVIOUS
  <2> QED BY <2>1 DEF IInv, IBuilds
<1>5. IReady'
  <2>1. native' = native
    BY DEF children
  <2>2. Ready(proc[p], native[p])'
    <3>1. Ready(proc[p], native[p])
      BY DEF IInv, IReady
    <3> QED BY <1>1, <2>1, <3>1 DEF Ready, Phases
  <2>3. ASSUME NEW q \in Processes \ {p}
        PROVE  Ready(proc[q], native[q])'
    BY <2>1 DEF IInv, IReady, Ready
  <2> QED BY <2>2, <2>3 DEF IInv, IReady
<1>6. IMatched'
  BY DEF IInv, IMatched, Matched
<1>7. IHolder'
  BY <1>1, ProcessAssumption DEF IHolder
<1> QED BY <1>2, <1>3, <1>4, <1>5, <1>6, <1>7 DEF IInv

-----------------------------------------------------------------------------
(* The commands: their beginning, the lock and the end.                    *)

\* At first nothing exists and nobody runs.
LEMMA Starts == Init => IInv
<1> SUFFICES ASSUME Init PROVE IInv
  OBVIOUS
<1>1. /\ root = NoRoot /\ base = FirstBase /\ lock = NoOne
      /\ dest = [t \in Targets |-> Nothing] /\ backups = {} /\ held = {}
      /\ proc = [p \in Processes |-> Idle]
      /\ native = [p \in Processes |-> "none"] /\ orphan = [p \in Processes |-> "none"]
      /\ space = [p \in Processes |-> FALSE] /\ pidfile = [p \in Processes |-> "none"]
      /\ signalled = [p \in Processes |-> FALSE]
      /\ before = [p \in Processes |-> dest] /\ settled = dest /\ paired = {} /\ stuck = {}
      /\ builds = 0
  BY Zenon DEF Init
<1>2. Nothing \in Content /\ Nothing.id = 0
  BY BoundAssumption DEF Nothing, Content
<1>3. Idle \in Local /\ Idle.pc = "idle" /\ Idle.id = 0 /\ Idle.cmd = "none"
  BY IdleLocal DEF Idle
<1>4. NoRoot \in [exists : BOOLEAN, owner : BOOLEAN, state : Bases \cup {"none"}, data : Data]
      /\ NoRoot.state = "none"
  BY DEF NoRoot, Data
<1>5. IDisk
  BY <1>1, <1>2, <1>4, BaseAssumption DEF IDisk
<1>6. IProc /\ IHistory
  BY <1>1, <1>2, <1>3, BoundAssumption DEF IProc, IHistory
<1>7. IChildren
  BY <1>1 DEF IChildren
<1>8. ILock /\ IHolder
  BY <1>1, <1>3, ProcessAssumption DEF ILock, IHolder, Locked, Phases
<1>9. IBuilds
  <2>1. "none" \notin Commands
    BY CommandAssumption
  <2> QED BY <1>1, <1>2, <1>3, <2>1 DEF IBuilds
<1>10. IReady
  BY <1>1, <1>3, <1>4 DEF IReady, Ready, Locked, Phases
<1>11. IMatched /\ Survives
  BY <1>1 DEF IMatched, Matched, Survives, Targets
<1> QED BY <1>5, <1>6, <1>7, <1>8, <1>9, <1>10, <1>11 DEF IInv

\* A build takes a new number; what has an older one is not affected.
LEMMA Begins ==
    ASSUME IInv, NEW p \in Processes, NEW cmd \in Commands, Begin(p, cmd)
    PROVE  IInv'
<1> DEFINE r == [Idle EXCEPT !.pc = IF cmd = "clean" THEN "lock" ELSE "capture",
                             !.cmd = cmd, !.id = builds']
<1>1. /\ At(p, "idle") /\ proc' = [proc EXCEPT ![p] = r]
      /\ UNCHANGED <<disk, lock, native, orphan, before, settled, stuck>>
      /\ paired' = IF cmd = "passport" THEN paired \cup {builds'} ELSE paired
  BY Zenon DEF Begin
<1>2. /\ builds' \in 0..MaxBuilds /\ builds <= builds' /\ builds \in Nat
      /\ cmd # "clean" => builds' = builds + 1
  BY BoundAssumption DEF Begin, IInv, IHistory
<1>3. IChildren'
  BY <1>1 DEF Begin, IInv, IChildren
<1>5. r \in Local /\ r.pc \in {"lock", "capture"} /\ (r.pc = "lock" <=> cmd = "clean")
      /\ r.cmd = cmd /\ r.id = builds' /\ r.i = 1 /\ \A t \in Targets : r.back[t] = Nothing
  <2>1. Idle \in Local
    BY IdleLocal
  <2>2. Idle.i = 1 /\ \A t \in Targets : Idle.back[t] = Nothing
    BY DEF Idle
  <2>3. "lock" \in Steps /\ "capture" \in Steps
    BY DEF Steps
  <2> DEFINE entry == IF cmd = "clean" THEN "lock" ELSE "capture"
  <2>4. entry \in Steps /\ entry \in {"lock", "capture"} /\ (entry = "lock" <=> cmd = "clean")
    BY <2>3
  <2>5. r = [Idle EXCEPT !.pc = entry, !.cmd = cmd, !.id = builds']
    OBVIOUS
  <2> HIDE DEF entry, r
  <2>6. r \in Local /\ r.pc = entry /\ r.cmd = cmd /\ r.id = builds' /\ r.i = Idle.i
        /\ r.back = Idle.back
    BY <1>2, <2>1, <2>4, <2>5 DEF Local
  <2> QED BY <2>2, <2>4, <2>6
<1> HIDE DEF r
<1>6. IProc' /\ proc'[p] = r /\ \A q \in Processes \ {p} : proc'[q] = proc[q]
  BY <1>1, <1>5 DEF IInv, IProc
<1>7. IDisk' /\ UNCHANGED <<root, dest, backups>>
  BY <1>1 DEF IInv, IDisk, disk
<1>8. IHistory'
  BY <1>1, <1>2, BoundAssumption DEF IInv, IHistory
<1>9. lock # p /\ r.pc \notin Locked
  BY <1>1, <1>5 DEF IInv, ILock, At, Locked, Phases
<1>10. ILock'
  BY <1>1, <1>6, <1>9 DEF IInv, ILock
<1>11. IBuilds'
  <2>1. paired' \subseteq 1..builds'
    BY <1>1, <1>2 DEF IInv, IBuilds
  <2>2. \A t \in Targets : dest'[t].id <= builds'
    BY <1>2, <1>7 DEF IInv, IBuilds, IDisk, Content
  <2>3. ASSUME NEW q \in Processes
        PROVE  /\ proc'[q].id <= builds' /\ \A t \in Targets : before'[q][t].id <= builds'
               /\ proc'[q].cmd \in Commands \ {"clean"} => proc'[q].id > 0
               /\ proc'[q].cmd # "passport" /\ proc'[q].cmd \in Commands \ {"clean"}
                     => proc'[q].id \notin paired'
    <3>1. \A t \in Targets : before'[q][t].id <= builds'
      BY <1>1, <1>2 DEF IInv, IBuilds, IHistory, Content
    <3>2. paired \subseteq 1..builds
      BY DEF IInv, IBuilds
    <3>3. CASE q = p
      <4>1. proc'[q].id = builds' /\ proc'[q].cmd = cmd
        BY <1>5, <1>6, <3>3
      <4>2. cmd # "clean" => builds' > 0 /\ builds' \notin paired
        BY <1>2, <3>2
      <4> QED BY <1>1, <1>2, <3>1, <4>1, <4>2
    <3>4. CASE q # p
      <4>1. /\ proc[q].id <= builds /\ proc[q].id \in Nat
            /\ proc[q].cmd \in Commands \ {"clean"} => proc[q].id > 0
            /\ proc[q].cmd # "passport" /\ proc[q].cmd \in Commands \ {"clean"}
                     => proc[q].id \notin paired
        BY DEF IInv, IBuilds, IProc, Local
      <4> QED BY <1>1, <1>2, <1>6, <3>1, <3>4, <4>1
    <3> QED BY <3>3, <3>4
  <2> QED BY <2>1, <2>2, <2>3 DEF IBuilds
<1>12. IReady'
  <2>1. Ready(proc[p], native[p])'
    BY <1>5, <1>6, <1>9, CommandAssumption DEF Ready, Locked, Phases
  <2>2. ASSUME NEW q \in Processes \ {p} PROVE Ready(proc[q], native[q])'
    BY <1>1, <1>6, <1>7 DEF IInv, IReady, Ready
  <2> QED BY <1>7, <2>1, <2>2 DEF IInv, IReady
<1>13. IMatched'
  <2>1. ASSUME NEW files, Matched(files), files["output"].id <= builds,
               files["output"].id \in Nat
        PROVE  Matched(files)'
    BY <1>1, <1>2, <2>1 DEF Matched
  <2>2. Matched(dest)'
    BY <1>7, <2>1 DEF IInv, IMatched, IBuilds, IDisk, Content, Targets
  <2>3. ASSUME NEW q \in Processes PROVE Matched(before[q])'
    <3>1. before[q]["output"].id <= builds /\ before[q]["output"].id \in Nat
      BY DEF IInv, IBuilds, IHistory, Content, Targets
    <3> QED BY <1>1, <2>1, <3>1 DEF IInv, IMatched
  <2> QED BY <2>2, <2>3 DEF IMatched
<1>14. IHolder'
  <2>1. ASSUME NEW q \in Processes, lock' = q
        PROVE  Placed(proc[q], before[q])' /\ Kept(proc[q], before[q])'
    <3>1. Placed(proc[q], before[q]) /\ Kept(proc[q], before[q]) /\ proc'[q] = proc[q]
      BY <1>1, <1>6, <1>9, <2>1 DEF IInv, IHolder
    <3>2. UNCHANGED <<dest, backups, stuck, settled>> /\ before'[q] = before[q]
      BY <1>1, <1>7
    <3>3. Placed(proc[q], before[q])'
      BY <3>1, <3>2 DEF Linked, Placed
    <3>4. Kept(proc[q], before[q])'
      BY <3>1, <3>2 DEF Linked, Kept
    <3> QED BY <3>3, <3>4
  <2> QED BY <2>1 DEF IHolder
<1>15. Survives'
  BY <1>1, <1>7 DEF IInv, Survives
<1> QED BY <1>3, <1>6, <1>7, <1>8, <1>10, <1>11, <1>12, <1>13, <1>14, <1>15 DEF IInv

\* The base configuration is hashed.
LEMMA Captures ==
    ASSUME IInv, NEW p \in Processes, Capture(p)
    PROVE  IInv'
<1>1. /\ proc[p].pc = "capture" /\ proc' = [proc EXCEPT ![p] = [proc[p] EXCEPT !.base = base, !.pc = "lock"]]
      /\ UNCHANGED <<disk, lock, children, history, bounds>>
  BY DEF Capture, At
<1>2. lock # p /\ proc[p] \in Local /\ base \in Bases /\ Ready(proc[p], native[p])
  BY <1>1 DEF IInv, ILock, IProc, IDisk, IReady, Locked, Phases
<1>3. [proc[p] EXCEPT !.base = base, !.pc = "lock"] \in Local
  <2>1. "lock" \in Steps
    BY DEF Steps
  <2> QED BY <1>2, <2>1 DEF Local
<1>4. IProc' /\ (\A q \in Processes \ {p} : proc'[q] = proc[q])
      /\ proc'[p] = [proc[p] EXCEPT !.base = base, !.pc = "lock"]
  BY <1>1, <1>3 DEF IInv, IProc
<1>5. proc'[p].pc = "lock" /\ proc'[p].base \in Bases /\ proc'[p].cmd = proc[p].cmd
      /\ proc'[p].id = proc[p].id
  BY <1>2, <1>4 DEF Local
<1>6. proc'[p].i = proc[p].i /\ proc'[p].back = proc[p].back
  BY <1>2, <1>4 DEF Local
<1>7. proc[p].cmd # "none" /\ proc[p].cmd # "clean"
  BY <1>1, <1>2 DEF Ready
<1>8. Ready(proc'[p], native'[p])
  BY <1>1, <1>2, <1>5, <1>6, <1>7 DEF Ready
<1>9. UNCHANGED <<disk, lock, native, before, settled, paired, stuck, builds>>
  BY <1>1 DEF children, history, bounds
<1>10. IChildren'
  BY <1>1 DEF IInv, IChildren, children
<1>11. proc'[p].pc \notin Locked
  BY <1>5 DEF Locked, Phases
<1> QED BY <1>2, <1>4, <1>5, <1>8, <1>9, <1>10, <1>11, Turn

\* A free lock is taken, and what is published now is noted; a busy one ends
\* the command.
LEMMA Locks ==
    ASSUME IInv, NEW p \in Processes, TryLock(p)
    PROVE  IInv'
<1>1. proc[p].pc = "lock" /\ UNCHANGED <<disk, children, settled, paired, stuck, builds>>
  BY DEF TryLock, At, bounds
<1>2. lock # p /\ IProc /\ Ready(proc[p], native[p])
  BY <1>1 DEF IInv, ILock, IReady, Locked, Phases
<1>3. IChildren' /\ native' = native
  BY <1>1 DEF IInv, IChildren, children
<1>4. base' \in Bases /\ held' \subseteq Targets \X Content /\ UNCHANGED <<root, dest, backups>>
  BY <1>1 DEF IInv, IDisk, disk
<1>5. /\ proc[p].cmd # "none"
      /\ proc[p].cmd # "clean" => proc[p].base \in Bases
      /\ proc[p].i = 1 /\ \A t \in Targets : proc[p].back[t] = Nothing
  BY <1>1, <1>2 DEF Ready
<1>6. CASE lock = NoOne /\ lock' = p /\ Goto(p, "inspect") /\ before' = [before EXCEPT ![p] = dest]
  <2>1. before' \in [Processes -> [Targets -> Content]] /\ before'[p] = dest
        /\ \A q \in Processes \ {p} : before'[q] = before[q]
    BY <1>6 DEF IInv, IHistory, IDisk
  <2>2. "inspect" \in Steps /\ "inspect" \in Locked /\ "inspect" \notin Phases /\ "inspect" \in Early
    BY DEF Steps, Locked, Phases, Early
  <2>3. /\ IProc' /\ (\A q \in Processes \ {p} : proc'[q] = proc[q])
        /\ proc'[p].pc = "inspect" /\ proc'[p].cmd = proc[p].cmd /\ proc'[p].base = proc[p].base
        /\ proc'[p].id = proc[p].id /\ proc'[p].i = proc[p].i /\ proc'[p].back = proc[p].back
    BY <1>2, <1>6, <2>2, Goes
  <2>4. Ready(proc'[p], native'[p])
    <3>1. /\ proc'[p].cmd # "none" /\ proc'[p].pc = "inspect"
          /\ proc'[p].cmd # "clean" => proc'[p].base \in Bases
      BY <1>5, <2>3
    <3> QED BY <3>1 DEF Ready
  <2>5. Placed(proc'[p], before'[p])
    BY <1>5, <2>1, <2>2, <2>3 DEF Linked, Placed
  <2>6. Kept(proc'[p], before'[p])
    BY <2>1, <2>2, <2>3 DEF Linked, Kept, IInv, Survives
  <2> QED BY <1>1, <1>3, <1>4, <1>6, <2>1, <2>2, <2>3, <2>4, <2>5, <2>6, Quiet
<1>7. CASE lock # NoOne /\ End(p, "locked") /\ UNCHANGED <<lock, before>>
  <2>1. "locked" \in Results /\ "release" \notin Locked
    BY DEF Results, Locked, Phases
  <2>2. /\ IProc' /\ (\A q \in Processes \ {p} : proc'[q] = proc[q])
        /\ proc'[p].pc = "release" /\ proc'[p].cmd = proc[p].cmd /\ proc'[p].base = proc[p].base
        /\ proc'[p].id = proc[p].id
    BY <1>2, <1>7, <2>1, Ends
  <2>3. Ready(proc'[p], native'[p])
    BY <2>1, <2>2 DEF Ready
  <2> QED BY <1>1, <1>2, <1>3, <1>7, <2>1, <2>2, <2>3, Turn
<1> QED BY <1>6, <1>7 DEF TryLock

\* A command that ends before it has touched the published files leaves them
\* as it found them.
LEMMA Stops ==
    ASSUME IInv, NEW p \in Processes, proc[p].pc \in Early \cup {"backup"},
           NEW result \in Results, End(p, result),
           UNCHANGED <<disk, lock, before, settled, paired, stuck, builds>>, IChildren',
           \A q \in Processes \ {p} : native'[q] = native[q]
    PROVE  IInv'
<1>1. proc[p].pc \in Locked /\ IProc
  BY DEF Early, Locked, Phases, IInv
<1>2. /\ lock = p /\ Placed(proc[p], before[p]) /\ Kept(proc[p], before[p])
      /\ Ready(proc[p], native[p])
  BY <1>1, Holds
<1>3. /\ IProc' /\ (\A q \in Processes \ {p} : proc'[q] = proc[q])
      /\ proc'[p].pc = "release" /\ proc'[p].cmd = proc[p].cmd /\ proc'[p].base = proc[p].base
      /\ proc'[p].id = proc[p].id
  BY <1>1, Ends
<1>4. "release" \notin Locked /\ "release" \notin Early /\ "release" \notin Phases
  BY DEF Locked, Early, Phases
<1>5. Ready(proc'[p], native'[p])
  BY <1>3, <1>4 DEF Ready
<1>6. dest = before[p]
  BY <1>2 DEF Linked, Placed
<1>7. Placed(proc'[p], before[p])
  BY <1>3, <1>4, <1>6 DEF Linked, Placed
<1>8. Kept(proc'[p], before[p])
  BY <1>3, <1>4 DEF Linked, Kept
<1> QED BY <1>2, <1>3, <1>4, <1>5, <1>7, <1>8, Turn

\* A step towards the publication touches no published file either.
LEMMA Proceeds ==
    ASSUME IInv, NEW p \in Processes, proc[p].pc \in Early, IProc',
           \A q \in Processes \ {p} : proc'[q] = proc[q] /\ native'[q] = native[q],
           proc'[p].pc \in Early \cup {"backup"},
           proc'[p].id = proc[p].id, proc'[p].cmd = proc[p].cmd, proc'[p].i = proc[p].i,
           proc'[p].back = proc[p].back,
           UNCHANGED <<disk, lock, before, settled, paired, stuck, builds>>, IChildren',
           Ready(proc'[p], native'[p])
    PROVE  IInv'
<1>1. proc[p].pc \in Locked /\ IProc
  BY DEF Early, IInv
<1>2. lock = p /\ Placed(proc[p], before[p]) /\ Kept(proc[p], before[p])
  BY <1>1, Holds
<1>3. /\ proc[p].pc \notin Phases /\ proc[p].pc # "release" /\ proc'[p].pc \in Locked
      /\ proc'[p].pc \notin Phases \ {"backup"} /\ proc'[p].pc # "release"
  BY DEF Early, Locked, Phases
<1>4. /\ dest = before[p] /\ proc[p].i = 1 /\ \A t \in Targets : proc[p].back[t] = Nothing
      /\ \A t \in Targets : settled[t] \in {Nothing, before[p][t]} \/ <<t, settled[t]>> \in backups
  BY <1>1, <1>2, <1>3 DEF Placed, Kept, Linked, Phases
<1>5. Placed(proc'[p], before[p])
  <2>1. proc'[p].pc \notin {"unlink", "link", "undo", "redo", "sweep", "prune", "release"}
    BY <1>3 DEF Phases
  <2>2. proc'[p].i = 1 /\ \A t \in Targets : proc'[p].back[t] = Nothing
    BY <1>4
  <2> QED BY <1>3, <1>4, <2>1, <2>2 DEF Placed, Linked
<1>6. Kept(proc'[p], before[p])
  BY <1>3, <1>4 DEF Kept, Linked, Phases
<1> QED BY <1>2, <1>3, <1>5, <1>6, Turn

\* The infobase is reused, rebuilt or refused (prepare, clean).
LEMMA Inspects ==
    ASSUME IInv, NEW p \in Processes, Inspect(p)
    PROVE  IInv'
<1>1. proc[p].pc = "inspect" /\ UNCHANGED <<disk, lock, children, history, bounds>>
  BY DEF Inspect, At
<1>2. proc[p].pc \in Early /\ proc[p].pc \in Locked /\ IProc
  BY <1>1 DEF Early, Locked, Phases, IInv
<1>3. Ready(proc[p], native[p])
  BY <1>2, Holds
<1>4. UNCHANGED <<disk, lock, before, settled, paired, stuck, builds, native>> /\ IChildren'
  BY <1>1 DEF IInv, IChildren, children, history, bounds
<1>5. {"unowned", "absent"} \subseteq Results
  BY DEF Results
<1>6. CASE End(p, "unowned") \/ End(p, "absent")
  BY <1>2, <1>4, <1>5, <1>6, Stops
<1>7. ASSUME NEW pc \in {"make", "import", "remove"}, Goto(p, pc),
             pc = "make" => proc[p].cmd # "clean",
             pc = "import" => proc[p].cmd # "clean" /\ Reusable(p)
      PROVE  IInv'
  <2>1. pc \in Steps /\ pc \in Early
    BY DEF Steps, Locked, Early, Phases
  <2>2. /\ IProc' /\ (\A q \in Processes \ {p} : proc'[q] = proc[q])
        /\ proc'[p].pc = pc /\ proc'[p].cmd = proc[p].cmd /\ proc'[p].base = proc[p].base
        /\ proc'[p].id = proc[p].id /\ proc'[p].i = proc[p].i /\ proc'[p].back = proc[p].back
    BY <1>2, <1>7, <2>1, Goes
  <2>3. pc = "import" => root.data \in Bases \cup {"torn"}
    <3>1. pc = "import" => proc[p].base \in Bases /\ root.state = proc[p].base /\ root.data # "absent"
      BY <1>2, <1>3, <1>7 DEF Ready, Reusable
    <3>2. "none" \notin Bases /\ (root.state # "none" => root.data \in Bases \cup {"torn", "absent"})
      BY BaseAssumption DEF IInv, IReady
    <3> QED BY <3>1, <3>2
  <2>4. Ready(proc'[p], native'[p])
    <3>1. /\ proc[p].cmd # "none"
          /\ proc[p].cmd # "clean" => proc[p].base \in Bases
          /\ proc[p].cmd = "clean" => pc = "remove"
      BY <1>2, <1>3, <1>7 DEF Ready
    <3> QED BY <2>2, <2>3, <3>1 DEF Ready
  <2> QED BY <1>2, <1>4, <2>1, <2>2, <2>4, Proceeds
<1>8. CASE Goto(p, "make") /\ proc[p].cmd # "clean"
  BY <1>7, <1>8
<1>9. CASE Goto(p, "import") /\ proc[p].cmd # "clean" /\ Reusable(p)
  BY <1>7, <1>9
<1>10. CASE Goto(p, "remove")
  BY <1>7, <1>10
<1> QED BY <1>6, <1>8, <1>9, <1>10 DEF Inspect

\* ibcmd is started.
LEMMA Spawns ==
    ASSUME IInv, NEW p \in Processes, Spawn(p)
    PROVE  IInv'
<1>1. /\ native' = [native EXCEPT ![p] = "entering"]
      /\ UNCHANGED <<disk, lock, orphan, space, pidfile, signalled, history, bounds>>
  BY DEF Spawn
<1>2. native'[p] = "entering" /\ (\A q \in Processes \ {p} : native'[q] = native[q]) /\ IChildren'
  BY <1>1 DEF IInv, IChildren
<1>3. UNCHANGED <<disk, lock, before, settled, paired, stuck, builds>>
  BY <1>1 DEF history, bounds
<1>4. ASSUME NEW from \in {"create", "import"}, NEW pc \in {"creating", "importing"},
             proc[p].pc = from, Goto(p, pc), pc = "creating" => from = "create"
      PROVE  IInv'
  <2>1. pc \in Steps /\ pc \in Early /\ proc[p].pc \in Early /\ proc[p].pc \in Locked /\ IProc
    BY <1>4 DEF Steps, Locked, Early, Phases, IInv
  <2>2. /\ IProc' /\ (\A q \in Processes \ {p} : proc'[q] = proc[q])
        /\ proc'[p].pc = pc /\ proc'[p].cmd = proc[p].cmd /\ proc'[p].base = proc[p].base
        /\ proc'[p].id = proc[p].id /\ proc'[p].i = proc[p].i /\ proc'[p].back = proc[p].back
    BY <1>4, <2>1, Goes
  <2>3. Ready(proc[p], native[p])
    BY <2>1, Holds
  <2>4. Ready(proc'[p], native'[p])
    <3>1. /\ proc[p].cmd # "none" /\ proc[p].cmd # "clean" /\ proc[p].base \in Bases
          /\ pc = "creating" => root.state = "none"
      BY <1>4, <2>1, <2>3 DEF Ready
    <3> QED BY <1>2, <2>2, <3>1 DEF Ready
  <2> QED BY <1>2, <1>3, <2>1, <2>2, <2>4, Proceeds
<1>5. CASE At(p, "create") /\ Goto(p, "creating")
  BY <1>4, <1>5 DEF At
<1>6. CASE At(p, "import") /\ Goto(p, "importing")
  BY <1>4, <1>6 DEF At
<1> QED BY <1>5, <1>6 DEF Spawn

\* A signal ends the command; what its ibcmd still does is the orphan's.
LEMMA Interrupts ==
    ASSUME IInv, NEW p \in Processes, Interrupt(p)
    PROVE  IInv'
<1>1. /\ Waiting(p) /\ native' = [native EXCEPT ![p] = "none"] /\ End(p, "interrupted")
      /\ orphan' = IF SurvivesKill(p) THEN [orphan EXCEPT ![p] = native[p]] ELSE orphan
      /\ UNCHANGED <<disk, lock, space, pidfile, signalled, history, bounds>>
  BY DEF Interrupt
<1>2. proc[p].pc \in Early /\ "interrupted" \in Results
  BY <1>1 DEF Waiting, At, Early, Locked, Phases, Results
<1>3. orphan' \in [Processes -> {"none", "entering", "working"}]
  <2>1. SurvivesKill(p) => native[p] \in {"entering", "working"}
    BY DEF SurvivesKill
  <2> QED BY <1>1, <2>1 DEF IInv, IChildren
<1>4. IChildren' /\ \A q \in Processes \ {p} : native'[q] = native[q]
  BY <1>1, <1>3 DEF IInv, IChildren
<1>5. UNCHANGED <<disk, lock, before, settled, paired, stuck, builds>>
  BY <1>1 DEF history, bounds
<1> QED BY <1>1, <1>2, <1>4, <1>5, Stops

\* ibcmd has ended.
LEMMA Reaps ==
    ASSUME IInv, NEW p \in Processes, Reap(p)
    PROVE  IInv'
<1>1. /\ Waiting(p) /\ native[p] \in {"done", "failed"} /\ native' = [native EXCEPT ![p] = "none"]
      /\ UNCHANGED <<disk, lock, orphan, space, pidfile, signalled, history, bounds>>
  BY DEF Reap
<1>2. /\ proc[p].pc \in Early /\ proc[p].pc \in Locked /\ IProc
      /\ proc[p].pc \in {"creating", "importing"}
  BY <1>1 DEF Waiting, At, Early, Locked, Phases, IInv
<1>3. IChildren' /\ native'[p] = "none" /\ \A q \in Processes \ {p} : native'[q] = native[q]
  BY <1>1 DEF IInv, IChildren
<1>4. UNCHANGED <<disk, lock, before, settled, paired, stuck, builds>>
  BY <1>1 DEF history, bounds
<1>5. Ready(proc[p], native[p])
  BY <1>2, Holds
<1>6. proc[p].cmd # "none" /\ proc[p].cmd # "clean" /\ proc[p].base \in Bases
  BY <1>2, <1>5 DEF Ready
<1>7. CASE native[p] = "failed"
  <2>1. End(p, "failed") /\ "failed" \in Results
    BY <1>7 DEF Reap, Results
  <2> QED BY <1>2, <1>3, <1>4, <2>1, Stops
<1>8. CASE native[p] = "done" /\ proc[p].pc = "creating"
  <2>1. Goto(p, "mark")
    BY <1>8 DEF Reap, Stage, At
  <2>2. "mark" \in Steps /\ "mark" \in Early
    BY DEF Steps, Locked, Early, Phases
  <2>3. /\ IProc' /\ (\A q \in Processes \ {p} : proc'[q] = proc[q])
        /\ proc'[p].pc = "mark" /\ proc'[p].cmd = proc[p].cmd /\ proc'[p].base = proc[p].base
        /\ proc'[p].id = proc[p].id /\ proc'[p].i = proc[p].i /\ proc'[p].back = proc[p].back
    BY <1>2, <2>1, <2>2, Goes
  <2>4. root.data \in Bases
    BY <1>5, <1>8 DEF Ready
  <2>5. Ready(proc'[p], native'[p])
    BY <1>6, <2>3, <2>4 DEF Ready
  <2> QED BY <1>2, <1>3, <1>4, <2>2, <2>3, <2>5, Proceeds
<1>9. CASE native[p] = "done" /\ proc[p].pc = "importing"
  <2>1. proc' = [proc EXCEPT ![p] = [proc[p] EXCEPT !.pc = "check", !.made = root.data]]
    BY <1>9 DEF Reap, Stage, At
  <2>2. root.data \in Made /\ "check" \in Steps /\ "check" \in Early
    BY DEF IInv, IDisk, Data, Made, Steps, Locked, Early, Phases
  <2>3. proc[p] \in Local
    BY <1>2 DEF IProc
  <2>4. [proc[p] EXCEPT !.pc = "check", !.made = root.data] \in Local
    BY <2>2, <2>3 DEF Local
  <2>5. IProc' /\ (\A q \in Processes \ {p} : proc'[q] = proc[q])
        /\ proc'[p] = [proc[p] EXCEPT !.pc = "check", !.made = root.data]
    BY <1>2, <2>1, <2>4 DEF IProc
  <2>6. /\ proc'[p].pc = "check" /\ proc'[p].cmd = proc[p].cmd /\ proc'[p].base = proc[p].base
        /\ proc'[p].id = proc[p].id /\ proc'[p].i = proc[p].i /\ proc'[p].back = proc[p].back
    BY <2>3, <2>5 DEF Local
  <2>7. Ready(proc'[p], native'[p])
    BY <1>6, <2>6 DEF Ready
  <2> QED BY <1>2, <1>3, <1>4, <2>2, <2>5, <2>6, <2>7, Proceeds
<1> QED BY <1>1, <1>2, <1>7, <1>8, <1>9

\* What was made is checked before anything is published.
LEMMA Checks ==
    ASSUME IInv, NEW p \in Processes, Check(p)
    PROVE  IInv'
<1>1. proc[p].pc = "check" /\ UNCHANGED <<disk, lock, children, history, bounds>>
  BY DEF Check, At
<1>2. proc[p].pc \in Early /\ proc[p].pc \in Locked /\ IProc
  BY <1>1 DEF Early, Locked, Phases, IInv
<1>3. UNCHANGED <<disk, lock, before, settled, paired, stuck, builds, native>> /\ IChildren'
  BY <1>1 DEF IInv, IChildren, children, history, bounds
<1>4. CASE End(p, "interrupted")
  <2>1. "interrupted" \in Results
    BY DEF Results
  <2> QED BY <1>2, <1>3, <1>4, <2>1, Stops
<1>5. CASE Goto(p, "backup")
  <2>1. "backup" \in Steps
    BY DEF Steps, Locked, Phases
  <2>2. /\ IProc' /\ (\A q \in Processes \ {p} : proc'[q] = proc[q])
        /\ proc'[p].pc = "backup" /\ proc'[p].cmd = proc[p].cmd /\ proc'[p].base = proc[p].base
        /\ proc'[p].id = proc[p].id /\ proc'[p].i = proc[p].i /\ proc'[p].back = proc[p].back
    BY <1>2, <1>5, <2>1, Goes
  <2>3. Ready(proc[p], native[p])
    BY <1>2, Holds
  <2>4. proc[p].cmd # "none" /\ proc[p].cmd # "clean" /\ proc[p].base \in Bases
    BY <1>1, <1>2, <2>3 DEF Ready
  <2>5. Ready(proc'[p], native'[p])
    BY <2>2, <2>4 DEF Ready
  <2> QED BY <1>2, <1>3, <2>2, <2>5, Proceeds
<1> QED BY <1>4, <1>5 DEF Check

\* What cannot be restored is said to be so.
LEMMA FailsToRestore ==
    ASSUME IInv, NEW p \in Processes, RedoFails(p)
    PROVE  IInv'
<1>1. proc[p].pc = "redo" /\ End(p, "restore") /\ UNCHANGED <<disk, lock, children, history, builds>>
  BY DEF RedoFails, At, Fault, bounds
<1>2. "restore" \in Results /\ proc[p].pc \in Locked /\ IProc
  BY <1>1 DEF Results, Locked, Phases, IInv
<1>3. /\ IProc' /\ (\A q \in Processes \ {p} : proc'[q] = proc[q])
      /\ proc'[p].pc = "release" /\ proc'[p].cmd = proc[p].cmd /\ proc'[p].base = proc[p].base
      /\ proc'[p].id = proc[p].id /\ proc'[p].result = "restore"
  BY <1>1, <1>2, Ends
<1>4. "release" \notin Locked /\ "release" \notin Early /\ "release" \notin Phases
  BY DEF Locked, Early, Phases
<1>5. Ready(proc'[p], native'[p])
  BY <1>3, <1>4 DEF Ready
<1>6. Placed(proc'[p], before[p]) /\ Kept(proc'[p], before[p])
  BY <1>3, <1>4 DEF Linked, Placed, Kept
<1>7. UNCHANGED <<disk, lock, before, settled, paired, stuck, builds, native>> /\ IChildren'
  BY <1>1 DEF IInv, IChildren, children, history
<1> QED BY <1>2, <1>3, <1>4, <1>5, <1>6, <1>7, Holds, Turn

\* The lock is given back; a clean is over, a build has its workspace to remove.
LEMMA Releases ==
    ASSUME IInv, NEW p \in Processes, Release(p)
    PROVE  IInv'
<1>1. /\ proc[p].pc = "release" /\ lock' = (IF lock = p THEN NoOne ELSE lock)
      /\ UNCHANGED <<disk, children, history, bounds>>
  BY DEF Release, At
<1>2. IProc /\ p # NoOne
  BY ProcessAssumption DEF IInv
<1>3. /\ base' \in Bases /\ held' \subseteq Targets \X Content
      /\ UNCHANGED <<root, dest, backups, before, settled, paired, stuck, builds, native>>
      /\ before' \in [Processes -> [Targets -> Content]] /\ IChildren'
  BY <1>1 DEF IInv, IDisk, IHistory, IChildren, disk, children, history, bounds
<1>4. CASE proc' = [proc EXCEPT ![p] = Idle]
  <2>1. IProc' /\ (\A q \in Processes \ {p} : proc'[q] = proc[q])
        /\ proc'[p].pc = "idle" /\ proc'[p].cmd = "none" /\ proc'[p].id = 0
    BY <1>2, <1>4, Rests
  <2>2. Ready(proc'[p], native'[p]) /\ proc'[p].pc \notin Locked
    BY <2>1 DEF Ready, Locked, Phases
  <2> QED BY <1>1, <1>2, <1>3, <2>1, <2>2, Quiet
<1>5. CASE Goto(p, "tidy") /\ proc[p].cmd # "clean"
  <2>1. "tidy" \in Steps /\ "tidy" \notin Locked
    BY DEF Steps, Locked, Phases
  <2>2. /\ IProc' /\ (\A q \in Processes \ {p} : proc'[q] = proc[q])
        /\ proc'[p].pc = "tidy" /\ proc'[p].cmd = proc[p].cmd /\ proc'[p].id = proc[p].id
    BY <1>2, <1>5, <2>1, Goes
  <2>3. Ready(proc'[p], native'[p])
    BY <1>5, <2>1, <2>2 DEF Ready
  <2> QED BY <1>1, <1>2, <1>3, <2>1, <2>2, <2>3, Quiet
<1> QED BY <1>4, <1>5 DEF Release

\* The workspace goes.
LEMMA Tidies ==
    ASSUME IInv, NEW p \in Processes, Tidy(p)
    PROVE  IInv'
<1>1. /\ proc[p].pc = "tidy" /\ proc' = [proc EXCEPT ![p] = Idle]
      /\ space' = [space EXCEPT ![p] = FALSE]
      /\ UNCHANGED <<disk, lock, native, orphan, pidfile, signalled, history, bounds>>
  BY DEF Tidy, At
<1>2. IProc /\ lock # p
  BY <1>1 DEF IInv, ILock, Locked, Phases
<1>3. IChildren' /\ native' = native
  BY <1>1 DEF IInv, IChildren
<1>4. /\ base' \in Bases /\ held' \subseteq Targets \X Content
      /\ UNCHANGED <<root, dest, backups, before, settled, paired, stuck, builds>>
      /\ before' \in [Processes -> [Targets -> Content]]
  BY <1>1 DEF IInv, IDisk, IHistory, disk, history, bounds
<1>5. IProc' /\ (\A q \in Processes \ {p} : proc'[q] = proc[q])
      /\ proc'[p].pc = "idle" /\ proc'[p].cmd = "none" /\ proc'[p].id = 0
  BY <1>1, <1>2, Rests
<1>6. Ready(proc'[p], native'[p]) /\ proc'[p].pc \notin Locked
  BY <1>5 DEF Ready, Locked, Phases
<1> QED BY <1>1, <1>2, <1>3, <1>4, <1>5, <1>6, Quiet

\* A process dies wherever it is: the disk stays as it left it.
LEMMA Crashes ==
    ASSUME IInv, NEW p \in Processes, Crash(p)
    PROVE  IInv'
<1>1. /\ lock' = (IF lock = p THEN NoOne ELSE lock) /\ proc' = [proc EXCEPT ![p] = Idle]
      /\ native' = [native EXCEPT ![p] = "none"]
      /\ orphan' = IF native[p] \in {"entering", "working"} THEN [orphan EXCEPT ![p] = native[p]] ELSE orphan
      /\ UNCHANGED <<disk, space, pidfile, signalled, history, builds>>
  BY DEF Crash, Fault
<1>2. IProc /\ p # NoOne
  BY ProcessAssumption DEF IInv
<1>3. IChildren' /\ \A q \in Processes \ {p} : native'[q] = native[q]
  BY <1>1 DEF IInv, IChildren
<1>4. /\ base' \in Bases /\ held' \subseteq Targets \X Content
      /\ UNCHANGED <<root, dest, backups, before, settled, paired, stuck, builds>>
      /\ before' \in [Processes -> [Targets -> Content]]
  BY <1>1 DEF IInv, IDisk, IHistory, disk, history
<1>5. IProc' /\ (\A q \in Processes \ {p} : proc'[q] = proc[q])
      /\ proc'[p].pc = "idle" /\ proc'[p].cmd = "none" /\ proc'[p].id = 0
  BY <1>1, <1>2, Rests
<1>6. Ready(proc'[p], native'[p]) /\ proc'[p].pc \notin Locked
  BY <1>5 DEF Ready, Locked, Phases
<1> QED BY <1>1, <1>2, <1>3, <1>4, <1>5, <1>6, Quiet

\* A signal, the end of an orphan, a change of the base configuration and
\* another program with a published file open change nothing a process relies on.
LEMMA Surrounds ==
    ASSUME IInv, UNCHANGED <<root, dest, backups, lock, proc, native, history, builds>>,
           base' \in Bases, held' \subseteq Targets \X Content, IChildren'
    PROVE  IInv'
<1>1. UNCHANGED <<before, settled, paired, stuck>>
  BY DEF history
<1>2. IDisk' /\ IProc' /\ IHistory'
  BY <1>1 DEF IInv, IDisk, IProc, IHistory
<1>3. ILock' /\ IBuilds'
  BY <1>1 DEF IInv, ILock, IBuilds
<1>4. IReady'
  BY DEF IInv, IReady, Ready
<1>5. IMatched' /\ Survives'
  BY <1>1 DEF IInv, IMatched, Matched, Survives
<1>6. IHolder'
  <2>1. ASSUME NEW q \in Processes, lock' = q
        PROVE  Placed(proc[q], before[q])' /\ Kept(proc[q], before[q])'
    <3>1. Placed(proc[q], before[q]) /\ Kept(proc[q], before[q])
      BY <2>1 DEF IInv, IHolder
    <3>2. Placed(proc[q], before[q])'
      BY <1>1, <3>1 DEF Linked, Placed
    <3>3. Kept(proc[q], before[q])'
      BY <1>1, <3>1 DEF Linked, Kept
    <3> QED BY <3>2, <3>3
  <2> QED BY <2>1 DEF IHolder
<1> QED BY <1>2, <1>3, <1>4, <1>5, <1>6 DEF IInv

\* The steps of the environment.
LEMMA Environment ==
    ASSUME IInv,
           \/ \E p \in Processes : Signal(p) \/ OrphanEnters(p) \/ OrphanEnds(p)
           \/ EditBase \/ LetGo \/ \E t \in Targets : Hold(t)
    PROVE  IInv'
<1>1. base \in Bases /\ held \subseteq Targets \X Content /\ dest \in [Targets -> Content] /\ IChildren
  BY DEF IInv, IDisk
<1>2. ASSUME NEW p \in Processes, Signal(p) PROVE IInv'
  <2>1. /\ signalled' = [signalled EXCEPT ![p] = TRUE]
        /\ UNCHANGED <<disk, lock, proc, native, orphan, space, pidfile, history, builds>>
    BY <1>2 DEF Signal, Fault
  <2>2. IChildren'
    BY <1>1, <2>1 DEF IChildren
  <2> QED BY <1>1, <2>1, <2>2, Surrounds DEF disk
<1>3. ASSUME NEW p \in Processes, NEW state \in {"none", "working"},
             orphan' = [orphan EXCEPT ![p] = state],
             UNCHANGED <<disk, lock, proc, native, space, pidfile, signalled, history, bounds>>
      PROVE  IInv'
  <2>1. IChildren'
    BY <1>1, <1>3 DEF IChildren
  <2> QED BY <1>1, <1>3, <2>1, Surrounds DEF disk, bounds
<1>4. ASSUME NEW p \in Processes, OrphanEnters(p) PROVE IInv'
  <2>1. CASE space[p] \/ ~Container
    BY <1>3, <1>4, <2>1 DEF OrphanEnters
  <2>2. CASE ~(space[p] \/ ~Container)
    BY <1>3, <1>4, <2>2 DEF OrphanEnters
  <2> QED BY <2>1, <2>2
<1>5. ASSUME NEW p \in Processes, OrphanEnds(p) PROVE IInv'
  BY <1>3, <1>5 DEF OrphanEnds
<1>6. CASE EditBase
  <2>1. /\ base' \in Bases
        /\ UNCHANGED <<root, dest, backups, held, lock, proc, children, history, builds>>
    BY <1>6 DEF EditBase
  <2>2. IChildren'
    BY <1>1, <2>1 DEF IChildren, children
  <2> QED BY <1>1, <2>1, <2>2, Surrounds DEF children
<1>7. CASE LetGo
  <2>1. held' = {} /\ UNCHANGED <<root, base, dest, backups, lock, proc, children, history, builds>>
    BY <1>7 DEF LetGo, bounds
  <2>2. IChildren'
    BY <1>1, <2>1 DEF IChildren, children
  <2> QED BY <1>1, <2>1, <2>2, Surrounds DEF children
<1>8. ASSUME NEW t \in Targets, Hold(t) PROVE IInv'
  <2>1. /\ held' = held \cup {<<t, dest[t]>>}
        /\ UNCHANGED <<root, base, dest, backups, lock, proc, children, history, builds>>
    BY <1>8 DEF Hold, Fault
  <2>2. IChildren'
    BY <1>1, <2>1 DEF IChildren, children
  <2>3. held' \subseteq Targets \X Content
    BY <1>1, <2>1
  <2> QED BY <1>1, <2>1, <2>2, <2>3, Surrounds DEF children
<1> QED BY <1>2, <1>4, <1>5, <1>6, <1>7, <1>8

-----------------------------------------------------------------------------
(* The infobase.                                                           *)

\* What a step of the holder of the lock leaves of an infobase.
LEMMA Removes ==
    ASSUME IInv, NEW p \in Processes, Remove(p)
    PROVE  IInv'
<1>1. /\ proc[p].pc = "remove" /\ root' = NoRoot
      /\ UNCHANGED <<base, dest, backups, held, lock, children, history, bounds>>
  BY DEF Remove, At
<1>2. proc[p].pc \in Early /\ proc[p].pc \in Locked /\ IProc
  BY <1>1 DEF Early, Locked, Phases, IInv
<1>3. Ready(proc[p], native[p])
  BY <1>2, Holds
<1>4. root'.state = "none"
      /\ root' \in [exists : BOOLEAN, owner : BOOLEAN, state : Bases \cup {"none"}, data : Data]
  BY <1>1 DEF NoRoot, Data
<1>5. UNCHANGED <<before, settled, paired, stuck, builds, native>> /\ IChildren'
  BY <1>1 DEF IInv, IChildren, children, history, bounds
<1>6. CASE End(p, "ok") /\ proc[p].cmd = "clean"
  <2>1. "ok" \in Results
    BY DEF Results
  <2>2. /\ IProc' /\ (\A q \in Processes \ {p} : proc'[q] = proc[q])
        /\ proc'[p].pc = "release" /\ proc'[p].cmd = proc[p].cmd /\ proc'[p].base = proc[p].base
        /\ proc'[p].id = proc[p].id /\ proc'[p].i = proc[p].i /\ proc'[p].back = proc[p].back
    BY <1>2, <1>6, <2>1, Ends
  <2>3. Ready(proc[p], native[p])'
    BY <2>2 DEF Ready, Locked, Phases
  <2> QED BY <1>1, <1>2, <1>4, <1>5, <1>6, <2>2, <2>3, Infobase
<1>7. CASE Goto(p, "make") /\ proc[p].cmd # "clean"
  <2>1. "make" \in Steps /\ "make" \in Early
    BY DEF Steps, Locked, Early, Phases
  <2>2. /\ IProc' /\ (\A q \in Processes \ {p} : proc'[q] = proc[q])
        /\ proc'[p].pc = "make" /\ proc'[p].cmd = proc[p].cmd /\ proc'[p].base = proc[p].base
        /\ proc'[p].id = proc[p].id /\ proc'[p].i = proc[p].i /\ proc'[p].back = proc[p].back
    BY <1>2, <1>7, <2>1, Goes
  <2>3. proc[p].cmd # "none" /\ proc[p].base \in Bases
    BY <1>2, <1>3, <1>7 DEF Ready
  <2>4. Ready(proc[p], native[p])'
    BY <1>7, <2>2, <2>3 DEF Ready
  <2> QED BY <1>1, <1>2, <1>4, <1>5, <2>1, <2>2, <2>4, Infobase
<1> QED BY <1>6, <1>7 DEF Remove

\* A command that fails at the infobase.
LEMMA Errs ==
    ASSUME IInv, NEW p \in Processes, proc[p].pc \in Early, End(p, "error"),
           root' \in [exists : BOOLEAN, owner : BOOLEAN, state : Bases \cup {"none"}, data : Data],
           root'.state # "none" => root'.data \in Bases \cup {"torn", "absent"},
           UNCHANGED <<base, dest, backups, held, lock, children, history, builds>>
    PROVE  IInv'
<1>1. "error" \in Results /\ IProc
  BY DEF Results, IInv
<1>2. /\ IProc' /\ (\A q \in Processes \ {p} : proc'[q] = proc[q])
      /\ proc'[p].pc = "release" /\ proc'[p].cmd = proc[p].cmd /\ proc'[p].base = proc[p].base
      /\ proc'[p].id = proc[p].id /\ proc'[p].i = proc[p].i /\ proc'[p].back = proc[p].back
      /\ proc'[p].result = "error"
  BY <1>1, Ends
<1>3. Ready(proc[p], native[p])'
  BY <1>2 DEF Ready, Locked, Phases
<1>4. UNCHANGED <<before, settled, paired, stuck, builds, native>> /\ IChildren'
  BY DEF IInv, IChildren, children, history
<1> QED BY <1>2, <1>3, <1>4, Infobase

\* A removal that stops half-way leaves any of the parts.
LEMMA RemovesSome ==
    ASSUME IInv, NEW p \in Processes, RemoveSome(p)
    PROVE  IInv'
<1>1. /\ proc[p].pc = "remove" /\ End(p, "error")
      /\ UNCHANGED <<base, dest, backups, held, lock, children, history, builds>>
  BY DEF RemoveSome, At, Fault
<1>2. PICK owner \in {root.owner, FALSE}, state \in {root.state, "none"},
           data \in {root.data, "absent"} \cup (IF root.data = "absent" THEN {} ELSE {"torn"}) :
              root' = [exists |-> TRUE, owner |-> owner, state |-> state, data |-> data]
  BY DEF RemoveSome
<1>3. proc[p].pc \in Early
  BY <1>1 DEF Early, Locked, Phases
<1>4. root \in [exists : BOOLEAN, owner : BOOLEAN, state : Bases \cup {"none"}, data : Data]
      /\ (root.state # "none" => root.data \in Bases \cup {"torn", "absent"})
  BY DEF IInv, IDisk, IReady
<1>5. root.owner \in BOOLEAN /\ root.state \in Bases \cup {"none"} /\ root.data \in Data
  BY <1>4
<1>6. owner \in BOOLEAN
  BY <1>2, <1>5
<1>7. state \in Bases \cup {"none"} /\ data \in Data
  BY <1>2, <1>5 DEF Data
<1>8. root' \in [exists : BOOLEAN, owner : BOOLEAN, state : Bases \cup {"none"}, data : Data]
  BY <1>2, <1>6, <1>7
<1>9. root'.state = state /\ root'.data = data
  BY <1>2
<1>10. root'.state # "none" => root'.data \in Bases \cup {"torn", "absent"}
  BY <1>2, <1>4, <1>9
<1> QED BY <1>1, <1>3, <1>8, <1>10, Errs

\* The directory is made, without a marker.
LEMMA Makes ==
    ASSUME IInv, NEW p \in Processes, Make(p)
    PROVE  IInv'
<1>1. proc[p].pc = "make" /\ UNCHANGED <<base, dest, backups, held, lock, children, history, builds>>
  BY DEF Make, At, Fault, bounds
<1>2. proc[p].pc \in Early /\ proc[p].pc \in Locked /\ IProc
  BY <1>1 DEF Early, Locked, Phases, IInv
<1>3. Ready(proc[p], native[p])
  BY <1>2, Holds
<1>4. UNCHANGED <<before, settled, paired, stuck, builds, native>> /\ IChildren'
  BY <1>1 DEF IInv, IChildren, children, history
<1>5. CASE root' = [NoRoot EXCEPT !.exists = TRUE] /\ Goto(p, "own")
  <2>1. "own" \in Steps /\ "own" \in Early
    BY DEF Steps, Locked, Early, Phases
  <2>2. /\ IProc' /\ (\A q \in Processes \ {p} : proc'[q] = proc[q])
        /\ proc'[p].pc = "own" /\ proc'[p].cmd = proc[p].cmd /\ proc'[p].base = proc[p].base
        /\ proc'[p].id = proc[p].id /\ proc'[p].i = proc[p].i /\ proc'[p].back = proc[p].back
    BY <1>2, <1>5, <2>1, Goes
  <2>3. root' = [exists |-> TRUE, owner |-> FALSE, state |-> "none", data |-> "absent"]
    BY <1>5 DEF NoRoot
  <2>4. root' \in [exists : BOOLEAN, owner : BOOLEAN, state : Bases \cup {"none"}, data : Data]
        /\ root'.state = "none"
    BY <2>3 DEF Data
  <2>5. proc[p].cmd # "none" /\ proc[p].cmd # "clean" /\ proc[p].base \in Bases
    BY <1>1, <1>2, <1>3 DEF Ready
  <2>6. Ready(proc[p], native[p])'
    BY <2>2, <2>4, <2>5 DEF Ready
  <2> QED BY <1>1, <1>2, <1>4, <2>1, <2>2, <2>4, <2>6, Infobase
<1>6. CASE End(p, "error") /\ UNCHANGED root
  BY <1>1, <1>2, <1>6, Errs DEF IInv, IDisk, IReady
<1> QED BY <1>5, <1>6 DEF Make

\* The marker of ownership is written.
LEMMA Owns ==
    ASSUME IInv, NEW p \in Processes, Own(p)
    PROVE  IInv'
<1>1. proc[p].pc = "own" /\ UNCHANGED <<base, dest, backups, held, lock, children, history, builds>>
  BY DEF Own, At, Fault, bounds
<1>2. proc[p].pc \in Early /\ proc[p].pc \in Locked /\ IProc
  BY <1>1 DEF Early, Locked, Phases, IInv
<1>3. Ready(proc[p], native[p])
  BY <1>2, Holds
<1>4. UNCHANGED <<before, settled, paired, stuck, builds, native>> /\ IChildren'
  BY <1>1 DEF IInv, IChildren, children, history
<1>5. CASE root' = [root EXCEPT !.owner = TRUE] /\ Goto(p, "create")
  <2>1. "create" \in Steps /\ "create" \in Early
    BY DEF Steps, Locked, Early, Phases
  <2>2. /\ IProc' /\ (\A q \in Processes \ {p} : proc'[q] = proc[q])
        /\ proc'[p].pc = "create" /\ proc'[p].cmd = proc[p].cmd /\ proc'[p].base = proc[p].base
        /\ proc'[p].id = proc[p].id /\ proc'[p].i = proc[p].i /\ proc'[p].back = proc[p].back
    BY <1>2, <1>5, <2>1, Goes
  <2>3. /\ proc[p].cmd # "none" /\ proc[p].cmd # "clean" /\ proc[p].base \in Bases
        /\ root.state = "none"
    BY <1>1, <1>2, <1>3 DEF Ready
  <2>4. root' \in [exists : BOOLEAN, owner : BOOLEAN, state : Bases \cup {"none"}, data : Data]
        /\ root'.state = "none"
    BY <1>5, <2>3 DEF IInv, IDisk
  <2>5. Ready(proc[p], native[p])'
    BY <2>2, <2>3, <2>4 DEF Ready
  <2> QED BY <1>1, <1>2, <1>4, <2>1, <2>2, <2>4, <2>5, Infobase
<1>6. CASE End(p, "error") /\ UNCHANGED root
  BY <1>1, <1>2, <1>6, Errs DEF IInv, IDisk, IReady
<1> QED BY <1>5, <1>6 DEF Own

\* ibcmd begins to work: a create leaves a partial infobase at first.
LEMMA Enters ==
    ASSUME IInv, NEW p \in Processes, Enter(p)
    PROVE  IInv'
<1>1. /\ Waiting(p) /\ native' = [native EXCEPT ![p] = "working"]
      /\ pidfile' = IF Container THEN [pidfile EXCEPT ![p] = Stage(p)] ELSE pidfile
      /\ root' = IF Stage(p) = "create" THEN [root EXCEPT !.data = "partial"] ELSE root
      /\ UNCHANGED <<base, dest, backups, held, lock, proc, orphan, space, signalled, history, bounds>>
  BY DEF Enter
<1>2. /\ proc[p].pc \in {"creating", "importing"}
      /\ proc[p].pc \in Early /\ proc[p].pc \in Locked /\ proc[p].pc \in {"creating", "importing"}
  BY <1>1 DEF Waiting, At, Early, Locked, Phases
<1>3. Ready(proc[p], native[p])
  BY <1>2, Holds
<1>4. Stage(p) \in {"create", "import"} /\ (Stage(p) = "create" <=> proc[p].pc = "creating")
  BY DEF Stage, At
<1>5. IChildren' /\ native'[p] = "working" /\ \A q \in Processes \ {p} : native'[q] = native[q]
  BY <1>1, <1>4 DEF IInv, IChildren
<1>6. UNCHANGED <<before, settled, paired, stuck, builds>> /\ IProc'
  BY <1>1 DEF IInv, IProc, history, bounds
<1>7. root \in [exists : BOOLEAN, owner : BOOLEAN, state : Bases \cup {"none"}, data : Data]
      /\ (root.state # "none" => root.data \in Bases \cup {"torn", "absent"})
  BY DEF IInv, IDisk, IReady
<1>8. root' \in [exists : BOOLEAN, owner : BOOLEAN, state : Bases \cup {"none"}, data : Data]
      /\ root'.state = root.state /\ (proc[p].pc = "importing" => root'.data = root.data)
  <2>1. "partial" \in Data
    BY DEF Data
  <2> QED BY <1>1, <1>2, <1>4, <1>7, <2>1
<1>9. proc[p].pc = "creating" => root.state = "none"
  BY <1>3 DEF Ready
<1>10. Ready(proc[p], native[p])'
  BY <1>1, <1>2, <1>3, <1>5, <1>8 DEF Ready
<1>11. root'.state # "none" => root'.data \in Bases \cup {"torn", "absent"}
  BY <1>2, <1>7, <1>8, <1>9
<1> QED BY <1>1, <1>2, <1>5, <1>6, <1>8, <1>10, <1>11, Infobase

\* ibcmd ends: an infobase is complete when it was created to the end.
LEMMA NativeFinishes ==
    ASSUME IInv, NEW p \in Processes, NativeEnds(p)
    PROVE  IInv'
<1>1. /\ Waiting(p)
      /\ \/ /\ native' = [native EXCEPT ![p] = "done"]
            /\ root' = IF Stage(p) = "create" THEN [root EXCEPT !.data = Loaded(p)] ELSE root
         \/ native' = [native EXCEPT ![p] = "failed"] /\ UNCHANGED root
      /\ UNCHANGED <<base, dest, backups, held, lock, proc, orphan, space, pidfile, signalled, history, builds>>
  BY DEF NativeEnds, Fault, bounds
<1>2. /\ proc[p].pc \in {"creating", "importing"}
      /\ proc[p].pc \in Early /\ proc[p].pc \in Locked
  BY <1>1 DEF Waiting, At, Early, Locked, Phases
<1>3. Ready(proc[p], native[p])
  BY <1>2, Holds
<1>4. Stage(p) = "create" <=> proc[p].pc = "creating"
  BY DEF Stage, At
<1>5. IChildren' /\ native'[p] \in {"done", "failed"}
      /\ \A q \in Processes \ {p} : native'[q] = native[q]
  BY <1>1 DEF IInv, IChildren
<1>6. UNCHANGED <<before, settled, paired, stuck, builds>> /\ IProc'
  BY <1>1 DEF IInv, IProc, history
<1>7. root \in [exists : BOOLEAN, owner : BOOLEAN, state : Bases \cup {"none"}, data : Data]
      /\ (root.state # "none" => root.data \in Bases \cup {"torn", "absent"})
  BY DEF IInv, IDisk, IReady
<1>8. Loaded(p) \in Bases
  BY <1>2, <1>3 DEF Loaded, Ready, IInv, IDisk
<1>9. root' \in [exists : BOOLEAN, owner : BOOLEAN, state : Bases \cup {"none"}, data : Data]
      /\ root'.state = root.state /\ (root'.data = root.data \/ root'.data \in Bases)
  <2>1. Loaded(p) \in Data
    BY <1>8 DEF Data
  <2> QED BY <1>1, <1>7, <1>8, <2>1
<1>10. proc[p].pc = "creating" /\ native'[p] = "done" => root'.data \in Bases
  <2>1. native' = [native EXCEPT ![p] = "failed"] => native'[p] = "failed"
    BY DEF IInv, IChildren
  <2> QED BY <1>1, <1>4, <1>7, <1>8, <2>1
<1>11. Ready(proc[p], native[p])'
  BY <1>1, <1>2, <1>3, <1>9, <1>10 DEF Ready
<1>12. root'.state # "none" => root'.data \in Bases \cup {"torn", "absent"}
  BY <1>7, <1>9
<1> QED BY <1>1, <1>2, <1>5, <1>6, <1>9, <1>11, <1>12, Infobase

\* The infobase is marked as ready for the base that the build has captured.
LEMMA Marks ==
    ASSUME IInv, NEW p \in Processes, Mark(p)
    PROVE  IInv'
<1>1. proc[p].pc = "mark" /\ UNCHANGED <<base, dest, backups, held, lock, children, history, builds>>
  BY DEF Mark, At, Fault, bounds
<1>2. proc[p].pc \in Early /\ proc[p].pc \in Locked /\ IProc
  BY <1>1 DEF Early, Locked, Phases, IInv
<1>3. Ready(proc[p], native[p])
  BY <1>2, Holds
<1>4. UNCHANGED <<before, settled, paired, stuck, builds, native>> /\ IChildren'
  BY <1>1 DEF IInv, IChildren, children, history
<1>5. /\ proc[p].cmd # "none" /\ proc[p].cmd # "clean" /\ proc[p].base \in Bases
      /\ root.data \in Bases
  BY <1>1, <1>2, <1>3 DEF Ready
<1>6. root' \in {root, [root EXCEPT !.state = proc[p].base]}
  BY DEF Mark
<1>7. root' \in [exists : BOOLEAN, owner : BOOLEAN, state : Bases \cup {"none"}, data : Data]
      /\ root'.data = root.data
  BY <1>5, <1>6 DEF IInv, IDisk
<1>8. CASE Goto(p, "import")
  <2>1. "import" \in Steps /\ "import" \in Early
    BY DEF Steps, Locked, Early, Phases
  <2>2. /\ IProc' /\ (\A q \in Processes \ {p} : proc'[q] = proc[q])
        /\ proc'[p].pc = "import" /\ proc'[p].cmd = proc[p].cmd /\ proc'[p].base = proc[p].base
        /\ proc'[p].id = proc[p].id /\ proc'[p].i = proc[p].i /\ proc'[p].back = proc[p].back
    BY <1>2, <1>8, <2>1, Goes
  <2>3. Ready(proc[p], native[p])'
    BY <1>5, <1>7, <2>2 DEF Ready
  <2> QED BY <1>1, <1>2, <1>4, <1>5, <1>7, <2>1, <2>2, <2>3, Infobase
<1>9. CASE End(p, "error")
  BY <1>1, <1>2, <1>5, <1>7, <1>9, Errs
<1> QED BY <1>8, <1>9 DEF Mark

-----------------------------------------------------------------------------
(* The publication.                                                        *)

\* A phase works on the artifact first, then on the passport.
LEMMA Working ==
    ASSUME IProc, NEW p \in Processes
    PROVE  /\ proc[p] \in Local /\ T(p) \in Targets /\ Staged(p) \in Content /\ Nothing \in Content
           /\ proc[p].i = 1 => T(p) = "output" /\ Staged(p) = Artifact(proc[p])
           /\ proc[p].i # 1 => /\ proc[p].i = 2 /\ T(p) = "manifest"
                               /\ Staged(p) = Passport(proc[p])
           /\ Staged(p).id = proc[p].id
<1>1. proc[p] \in Local /\ proc[p].i \in 1..2
  BY DEF IProc, Local
<1>2. Nothing \in Content
  BY BoundAssumption DEF Nothing, Content
<1>3. Staged(p) \in Content
  BY <1>1 DEF Staged, Content, Local, Made
<1>4. T(p) \in Targets /\ (proc[p].i = 1 => T(p) = "output") /\ (proc[p].i # 1 => T(p) = "manifest")
  BY DEF T, TargetAt, Targets
<1>5. /\ proc[p].i = 1 => Staged(p) = Artifact(proc[p])
      /\ proc[p].i # 1 => Staged(p) = Passport(proc[p])
  BY <1>4 DEF Staged, Artifact, Passport
<1>6. Staged(p).id = proc[p].id
  BY DEF Staged
<1> QED BY <1>1, <1>2, <1>3, <1>4, <1>5, <1>6

\* The backup of a target is noted in the locals.
LEMMA Notes ==
    ASSUME IProc, dest \in [Targets -> Content], NEW p \in Processes,
           proc' = [proc EXCEPT ![p] = Following(p, [@ EXCEPT !.back[T(p)] = dest[T(p)]], "unlink")]
    PROVE  /\ IProc' /\ \A q \in Processes \ {p} : proc'[q] = proc[q]
           /\ \/ proc[p].i = 1 /\ Pair(p) /\ proc'[p].pc = proc[p].pc /\ proc'[p].i = 2
              \/ (proc[p].i = 2 \/ ~Pair(p)) /\ proc'[p].pc = "unlink" /\ proc'[p].i = 1
           /\ proc'[p].cmd = proc[p].cmd /\ proc'[p].base = proc[p].base
           /\ proc'[p].id = proc[p].id /\ proc'[p].made = proc[p].made
           /\ proc'[p].back = [proc[p].back EXCEPT ![T(p)] = dest[T(p)]]
<1> DEFINE r == [proc[p] EXCEPT !.back = [proc[p].back EXCEPT ![T(p)] = dest[T(p)]]]
<1>1. proc[p] \in Local /\ T(p) \in Targets
  BY Working
<1>2. [proc[p].back EXCEPT ![T(p)] = dest[T(p)]] \in [Targets -> Content]
  BY <1>1 DEF Local
<1>3. r \in Local
  BY <1>1, <1>2 DEF Local
<1>4. /\ r.pc = proc[p].pc /\ r.cmd = proc[p].cmd /\ r.base = proc[p].base /\ r.id = proc[p].id
      /\ r.made = proc[p].made /\ r.i = proc[p].i
      /\ r.back = [proc[p].back EXCEPT ![T(p)] = dest[T(p)]]
  BY <1>1 DEF Local
<1>5. proc' = [proc EXCEPT ![p] = Following(p, r, "unlink")]
  OBVIOUS
<1> HIDE DEF r
<1>6. r.i \in 1..2 /\ r.pc \in Steps /\ "unlink" \in Steps
  BY <1>3 DEF Local, Steps, Locked, Phases
<1>7. CASE r.i < Last(p)
  <2>1. r.i = 1 /\ Pair(p)
    BY <1>6, <1>7 DEF Last
  <2>2. Following(p, r, "unlink") = [r EXCEPT !.i = r.i + 1]
    BY <1>7 DEF Following
  <2>3. r.i + 1 = 2
    BY <2>1
  <2>4. Following(p, r, "unlink") = [r EXCEPT !.i = 2]
    BY <2>2, <2>3, Zenon
  <2>5. [r EXCEPT !.i = 2] \in Local
    BY <1>3 DEF Local
  <2>6. /\ [r EXCEPT !.i = 2].i = 2 /\ [r EXCEPT !.i = 2].pc = r.pc
        /\ [r EXCEPT !.i = 2].cmd = r.cmd /\ [r EXCEPT !.i = 2].base = r.base
        /\ [r EXCEPT !.i = 2].id = r.id /\ [r EXCEPT !.i = 2].made = r.made
        /\ [r EXCEPT !.i = 2].back = r.back
    BY <1>3 DEF Local
  <2>7. IProc' /\ (\A q \in Processes \ {p} : proc'[q] = proc[q]) /\ proc'[p] = [r EXCEPT !.i = 2]
    BY <1>5, <2>4, <2>5 DEF IProc
  <2> QED BY <1>4, <2>1, <2>6, <2>7
<1>8. CASE ~(r.i < Last(p))
  <2>1. r.i = 2 \/ ~Pair(p)
    BY <1>6, <1>8 DEF Last
  <2>2. Following(p, r, "unlink") = [r EXCEPT !.i = 1, !.pc = "unlink"]
    BY <1>8 DEF Following
  <2> DEFINE s == [r EXCEPT !.i = 1, !.pc = "unlink"]
  <2>3. s \in Local
    <3> DEFINE u == [r EXCEPT !.i = 1]
    <3>1. u \in Local
      BY <1>3 DEF Local
    <3>2. s = [u EXCEPT !.pc = "unlink"]
      OBVIOUS
    <3> HIDE DEF u, s
    <3> QED BY <1>6, <3>1, <3>2 DEF Local
  <2>4. s.i = 1 /\ s.pc = "unlink"
    BY <1>3 DEF Local
  <2>5. s.cmd = r.cmd /\ s.base = r.base
    BY <1>3 DEF Local
  <2>6. s.id = r.id /\ s.made = r.made /\ s.back = r.back
    BY <1>3 DEF Local
  <2> HIDE DEF s
  <2>7. IProc' /\ (\A q \in Processes \ {p} : proc'[q] = proc[q]) /\ proc'[p] = s
    BY <1>5, <2>2, <2>3 DEF IProc, s
  <2> QED BY <1>4, <2>1, <2>4, <2>5, <2>6, <2>7
<1> QED BY <1>7, <1>8

\* What a process knows while it publishes.
LEMMA Publishes ==
    ASSUME IInv, NEW p \in Processes, proc[p].pc \in Phases
    PROVE  /\ IProc /\ Placed(proc[p], before[p]) /\ Kept(proc[p], before[p])
           /\ dest \in [Targets -> Content] /\ before[p] \in [Targets -> Content]
           /\ settled \in [Targets -> Content] /\ backups \subseteq Targets \X Content
           /\ stuck \subseteq 1..MaxBuilds /\ paired \subseteq 1..MaxBuilds
           /\ proc[p].id <= builds /\ \A t \in Targets : dest[t].id <= builds
           /\ proc[p].id \in 1..MaxBuilds
           /\ proc[p].cmd # "passport" => proc[p].id \notin paired
           /\ Matched(dest) /\ Matched(before[p]) /\ Survives
<1>1. proc[p].pc \in Locked /\ proc[p].pc \notin {"lock", "inspect", "remove", "release"}
  BY DEF Locked, Phases
<1>2. Placed(proc[p], before[p]) /\ Kept(proc[p], before[p]) /\ Ready(proc[p], native[p])
  BY <1>1, Holds
<1>3. proc[p].cmd # "none" /\ proc[p].cmd # "clean"
  BY <1>1, <1>2 DEF Ready
<1>4. proc[p].cmd \in Commands \ {"clean"} /\ proc[p].id \in 0..MaxBuilds
  BY <1>3 DEF IInv, IProc, Local
<1>5. proc[p].id > 0 /\ (proc[p].cmd # "passport" => proc[p].id \notin paired)
  BY <1>4 DEF IInv, IBuilds
<1>6. proc[p].id \in 1..MaxBuilds
  BY <1>4, <1>5, BoundAssumption
<1>7. /\ IProc /\ dest \in [Targets -> Content] /\ before[p] \in [Targets -> Content]
      /\ settled \in [Targets -> Content] /\ backups \subseteq Targets \X Content
      /\ stuck \subseteq 1..MaxBuilds /\ paired \subseteq 1..MaxBuilds
  BY DEF IInv, IDisk, IHistory
<1>8. proc[p].id <= builds /\ \A t \in Targets : dest[t].id <= builds
  BY DEF IInv, IBuilds
<1>9. Matched(dest) /\ Matched(before[p]) /\ Survives
  BY DEF IInv, IMatched
<1> QED BY <1>2, <1>5, <1>6, <1>7, <1>8, <1>9

\* The target at hand is one the process has looked for a backup of, and what
\* it found there is the process's to put back.
LEMMA InPlay ==
    ASSUME IProc, NEW p \in Processes, proc[p].pc \in Phases \ {"backup"},
           Placed(proc[p], before[p])
    PROVE  proc[p].back[T(p)] = before[p][T(p)]
<1>1. proc[p].pc \in Phases
  OBVIOUS
<1>2. /\ proc[p].back["output"] = before[p]["output"]
      /\ proc[p].cmd = "passport" => proc[p].back["manifest"] = before[p]["manifest"]
      /\ proc[p].i = 2 => proc[p].cmd = "passport"
  BY <1>1 DEF Linked, Placed
<1> QED BY <1>2, Working

\* The backups of a process.
LEMMA BackupsAre ==
    ASSUME NEW p \in Processes
    PROVE  /\ \A t \in Targets : \A c : <<t, c>> \in Backups(p)
                  <=> proc[p].back[t] # Nothing /\ c = proc[p].back[t]
           /\ \A t, u \in Targets : \A c : <<u, c>> \in BackupOf(p, t)
                  <=> u = t /\ proc[p].back[t] # Nothing /\ c = proc[p].back[t]
<1>1. \A t, u \in Targets : \A c : <<u, c>> \in BackupOf(p, t)
          <=> u = t /\ proc[p].back[t] # Nothing /\ c = proc[p].back[t]
  BY DEF BackupOf
<1>2. \A t \in Targets : \A c : <<t, c>> \in Backups(p) <=> \E u \in Targets : <<t, c>> \in BackupOf(p, u)
  BY DEF Backups
<1> QED BY <1>1, <1>2

\* A backup removed while what it holds is still in place loses nothing.
LEMMA Discards ==
    ASSUME NEW p \in Processes, Survives, UNCHANGED <<dest, settled>>,
           backups' = backups \ (Backups(p) \ held),
           \A t \in Targets : proc[p].back[t] \in {Nothing, dest[t]}
    PROVE  Survives'
<1>1. ASSUME NEW t \in Targets
      PROVE  settled'[t] \in {Nothing, dest'[t]} \/ <<t, settled'[t]>> \in backups'
  <2>1. CASE <<t, settled[t]>> \in Backups(p)
    BY <2>1, BackupsAre
  <2>2. CASE <<t, settled[t]>> \notin Backups(p)
    BY <2>2 DEF Survives
  <2> QED BY <2>1, <2>2
<1> QED BY <1>1 DEF Survives

\* The published file gets another name, or the process stops there.
LEMMA BacksUp ==
    ASSUME IInv, NEW p \in Processes, BackUp(p)
    PROVE  IInv'
<1>1. /\ proc[p].pc = "backup"
      /\ UNCHANGED <<root, base, dest, held, lock, children, before, settled, paired, stuck, builds>>
  BY DEF BackUp, At, Fault, bounds, history
<1>2. proc[p].pc \in Phases
  BY <1>1 DEF Phases
<1>3. /\ IProc /\ Placed(proc[p], before[p]) /\ Kept(proc[p], before[p])
      /\ dest \in [Targets -> Content] /\ before[p] \in [Targets -> Content]
      /\ settled \in [Targets -> Content] /\ backups \subseteq Targets \X Content
      /\ stuck \subseteq 1..MaxBuilds /\ \A t \in Targets : dest[t].id <= builds
      /\ Matched(dest) /\ Survives
  BY <1>2, Publishes
<1>4. /\ dest = before[p]
      /\ proc[p].i = 1 => \A t \in Targets : proc[p].back[t] = Nothing
      /\ proc[p].i = 2 => /\ proc[p].cmd = "passport" /\ proc[p].back["manifest"] = Nothing
                          /\ proc[p].back["output"] = before[p]["output"]
  BY <1>1, <1>2, <1>3 DEF Linked, Placed
<1>5. Matched(dest)'
  BY <1>1, <1>3 DEF Matched
<1>6. ASSUME NEW t \in Targets
      PROVE  settled[t] \in {Nothing, before[p][t]} \/ <<t, settled[t]>> \in backups
  BY <1>1, <1>2, <1>3 DEF Kept, Locked, Linked
<1>7. ASSUME NEW t \in Targets
      PROVE  proc[p].back[t] = Nothing \/ <<t, proc[p].back[t]>> \in backups
  BY <1>1, <1>2, <1>3 DEF Kept, Linked
<1>8. CASE /\ backups' = backups \cup IF dest[T(p)] = Nothing THEN {} ELSE {<<T(p), dest[T(p)]>>}
           /\ proc' = [proc EXCEPT ![p] = Following(p, [@ EXCEPT !.back[T(p)] = dest[T(p)]], "unlink")]
  <2>1. /\ IProc' /\ \A q \in Processes \ {p} : proc'[q] = proc[q]
        /\ \/ proc[p].i = 1 /\ Pair(p) /\ proc'[p].pc = proc[p].pc /\ proc'[p].i = 2
           \/ (proc[p].i = 2 \/ ~Pair(p)) /\ proc'[p].pc = "unlink" /\ proc'[p].i = 1
        /\ proc'[p].cmd = proc[p].cmd /\ proc'[p].base = proc[p].base
        /\ proc'[p].id = proc[p].id /\ proc'[p].made = proc[p].made
        /\ proc'[p].back = [proc[p].back EXCEPT ![T(p)] = dest[T(p)]]
    BY <1>3, <1>8, Notes
  <2>2. /\ proc[p] \in Local /\ T(p) \in Targets
        /\ proc[p].i = 1 => T(p) = "output"
        /\ proc[p].i # 1 => proc[p].i = 2 /\ T(p) = "manifest"
    BY <1>3, Working
  <2>3. proc[p].back \in [Targets -> Content]
    BY <2>2 DEF Local
  <2>4. /\ proc'[p].back[T(p)] = dest[T(p)]
        /\ \A t \in Targets \ {T(p)} : proc'[p].back[t] = proc[p].back[t]
    BY <2>1, <2>2, <2>3
  <2>5. backups' \subseteq Targets \X Content /\ backups \subseteq backups'
        /\ (dest[T(p)] = Nothing \/ <<T(p), dest[T(p)]>> \in backups')
    BY <1>3, <1>8, <2>2
  <2>6. {"output", "manifest"} = Targets
    BY DEF Targets
  <2>7. Placed(proc[p], before[p])'
    <3>1. CASE proc'[p].pc = "backup" /\ proc'[p].i = 2
      <4>1. proc[p].i = 1 /\ Pair(p)
        BY <1>1, <2>1, <3>1
      <4>2. /\ proc'[p].back["output"] = before[p]["output"] /\ proc'[p].back["manifest"] = Nothing
            /\ proc'[p].cmd = "passport"
        BY <1>4, <2>1, <2>2, <2>4, <2>6, <4>1 DEF Pair
      <4>3. "backup" \notin Early /\ "release" \notin Early
        BY DEF Early, Phases, Locked
      <4>4. proc'[p].pc \notin Phases \ {"backup"} /\ proc'[p].pc \notin Early
        BY <3>1, <4>3
      <4> QED BY <1>1, <1>4, <3>1, <4>2, <4>4 DEF Placed, Linked, Phases
    <3>2. CASE proc'[p].pc = "unlink" /\ proc'[p].i = 1
      <4>1. proc[p].i = 2 \/ (proc[p].i = 1 /\ ~Pair(p))
        BY <1>1, <2>1, <2>2, <3>2
      <4>2. /\ proc'[p].back["output"] = before[p]["output"]
            /\ proc'[p].cmd = "passport" => proc'[p].back["manifest"] = before[p]["manifest"]
            /\ proc'[p].cmd # "passport" => proc'[p].back["manifest"] = Nothing
        BY <1>4, <2>1, <2>2, <2>4, <2>6, <4>1 DEF Pair
      <4>3. "unlink" \in Phases /\ "unlink" \notin Early
        BY DEF Phases, Early
      <4> QED BY <1>1, <1>4, <3>2, <4>2, <4>3 DEF Placed, Linked
    <3> QED BY <1>1, <2>1, <3>1, <3>2
  <2>8. Kept(proc[p], before[p])'
    <3>1. ASSUME NEW t \in Targets
          PROVE  proc'[p].back[t] = Nothing \/ <<t, proc'[p].back[t]>> \in backups'
      BY <1>7, <2>4, <2>5
    <3>2. ASSUME NEW t \in Targets
          PROVE  settled'[t] \in {Nothing, before'[p][t]} \/ <<t, settled'[t]>> \in backups'
      BY <1>1, <1>6, <2>5
    <3>3. proc'[p].pc \notin Linked
      BY <1>1, <2>1 DEF Linked
    <3> QED BY <3>1, <3>2, <3>3 DEF Linked, Kept
  <2>9. Survives'
    BY <1>1, <1>3, <2>5 DEF Survives
  <2>10. proc'[p].pc \in Phases \cup {"release"}
    BY <1>2, <2>1 DEF Phases
  <2> QED BY <1>1, <1>2, <1>3, <1>5, <2>1, <2>5, <2>7, <2>8, <2>9, <2>10, Publication
<1>9. CASE backups' = backups \ (Backups(p) \ held) /\ End(p, "error")
  <2>1. "error" \in Results
    BY DEF Results
  <2>2. /\ IProc' /\ (\A q \in Processes \ {p} : proc'[q] = proc[q])
        /\ proc'[p].pc = "release" /\ proc'[p].cmd = proc[p].cmd /\ proc'[p].base = proc[p].base
        /\ proc'[p].id = proc[p].id
    BY <1>3, <1>9, <2>1, Ends
  <2>3. "release" \notin Locked /\ "release" \notin Early /\ "release" \notin Phases
    BY DEF Locked, Early, Phases
  <2>4. Placed(proc[p], before[p])'
    BY <1>1, <1>4, <2>2, <2>3 DEF Linked, Placed
  <2>5. Kept(proc[p], before[p])'
    BY <2>2, <2>3 DEF Kept, Linked, Phases
  <2>6. \A t \in Targets : proc[p].back[t] \in {Nothing, dest[t]}
    BY <1>3, <1>4, Working DEF Targets
  <2>7. Survives'
    BY <1>1, <1>3, <1>9, <2>6, Discards
  <2>8. backups' \subseteq Targets \X Content
    BY <1>3, <1>9
  <2> QED BY <1>1, <1>2, <1>3, <1>5, <2>2, <2>4, <2>5, <2>7, <2>8, Publication
<1> QED BY <1>8, <1>9 DEF BackUp

\* What was published last of the target at hand has a backup: it can be taken away.
LEMMA Covered ==
    ASSUME IInv, NEW p \in Processes, proc[p].pc \in {"unlink", "link", "undo"}
    PROVE  settled[T(p)] = Nothing \/ <<T(p), settled[T(p)]>> \in backups
<1>1. /\ proc[p].pc \in Phases /\ proc[p].pc \in Locked /\ proc[p].pc \in Phases \ {"backup"}
      /\ proc[p].pc \notin Linked
  BY DEF Phases, Locked, Linked
<1>2. IProc /\ Placed(proc[p], before[p]) /\ Kept(proc[p], before[p])
  BY <1>1, Publishes
<1>3. proc[p].back[T(p)] = before[p][T(p)] /\ T(p) \in Targets
  BY <1>1, <1>2, InPlay, Working
<1>4. settled[T(p)] \in {Nothing, before[p][T(p)]} \/ <<T(p), settled[T(p)]>> \in backups
  BY <1>1, <1>2, <1>3 DEF Linked, Kept
<1>5. proc[p].back[T(p)] = Nothing \/ <<T(p), proc[p].back[T(p)]>> \in backups
  BY <1>1, <1>2, <1>3 DEF Linked, Kept
<1> QED BY <1>3, <1>4, <1>5

\* Taking a target away, or putting another file there, loses nothing then.
LEMMA Replaces ==
    ASSUME IInv, NEW p \in Processes, proc[p].pc \in {"unlink", "link", "undo"},
           NEW c, dest' = [dest EXCEPT ![T(p)] = c], UNCHANGED <<settled, backups>>
    PROVE  Survives'
<1>1. dest \in [Targets -> Content] /\ Survives /\ T(p) \in Targets
  BY Working DEF IInv, IDisk
<1>2. ASSUME NEW t \in Targets
      PROVE  settled'[t] \in {Nothing, dest'[t]} \/ <<t, settled'[t]>> \in backups'
  <2>1. CASE t = T(p)
    BY <2>1, Covered
  <2>2. CASE t # T(p)
    BY <1>1, <2>2 DEF Survives
  <2> QED BY <2>1, <2>2
<1> QED BY <1>2 DEF Survives

\* The backups of a phase that keeps them all.
LEMMA StillKept ==
    ASSUME NEW p \in Processes, Kept(proc[p], before[p]),
           proc[p].pc \in {"backup", "unlink", "link", "undo"}, proc'[p].pc \notin Linked,
           UNCHANGED <<settled, backups, before>>, proc'[p].back = proc[p].back
    PROVE  Kept(proc[p], before[p])'
<1>1. proc[p].pc \in Locked \ Linked /\ proc[p].pc \in Phases \ Linked
  BY DEF Locked, Phases, Linked
<1> QED BY <1>1 DEF Linked, Kept

\* A published file is removed: first the artifact, then its passport.
LEMMA Unlinks ==
    ASSUME IInv, NEW p \in Processes, Unlink(p)
    PROVE  IInv'
<1>1. /\ proc[p].pc = "unlink" /\ dest' = [dest EXCEPT ![T(p)] = Nothing] /\ Advance(p, "link")
      /\ UNCHANGED <<root, base, backups, held, lock, children, before, settled, paired, stuck, builds>>
  BY DEF Unlink, At, bounds, history
<1>2. proc[p].pc \in Phases /\ "link" \in Phases
  BY <1>1 DEF Phases
<1>3. /\ IProc /\ Placed(proc[p], before[p]) /\ Kept(proc[p], before[p])
      /\ dest \in [Targets -> Content] /\ \A t \in Targets : dest[t].id <= builds
      /\ stuck \subseteq 1..MaxBuilds /\ settled \in [Targets -> Content]
      /\ backups \subseteq Targets \X Content /\ paired \subseteq 1..MaxBuilds
  BY <1>2, Publishes
<1>4. /\ T(p) \in Targets /\ Nothing \in Content
      /\ proc[p].i = 1 => T(p) = "output"
      /\ proc[p].i # 1 => proc[p].i = 2 /\ T(p) = "manifest"
  BY <1>3, Working
<1>5. Nothing.id = 0 /\ builds \in Nat
  BY BoundAssumption DEF Nothing, IInv, IHistory
<1>6. dest' \in [Targets -> Content] /\ \A t \in Targets : dest'[t].id <= builds
  BY <1>1, <1>3, <1>4, <1>5
<1>7. /\ IProc' /\ \A q \in Processes \ {p} : proc'[q] = proc[q]
      /\ \/ proc[p].i = 1 /\ Pair(p) /\ proc'[p].pc = proc[p].pc /\ proc'[p].i = 2
         \/ (proc[p].i = 2 \/ ~Pair(p)) /\ proc'[p].pc = "link" /\ proc'[p].i = 1
      /\ proc'[p].cmd = proc[p].cmd /\ proc'[p].base = proc[p].base
      /\ proc'[p].id = proc[p].id /\ proc'[p].made = proc[p].made
      /\ proc'[p].back = proc[p].back
  BY <1>1, <1>2, <1>3, Advances
<1>8. /\ proc[p].back["output"] = before[p]["output"]
      /\ proc[p].cmd = "passport" => proc[p].back["manifest"] = before[p]["manifest"]
      /\ proc[p].cmd # "passport" => /\ proc[p].back["manifest"] = Nothing
                                     /\ dest["manifest"] = before[p]["manifest"]
      /\ proc[p].i = 2 => proc[p].cmd = "passport" /\ dest["output"] = Nothing
      /\ dest["manifest"] = before[p]["manifest"]
  <2>1. proc[p].pc \in Phases \ {"backup"}
    BY <1>1, <1>2
  <2> QED BY <1>1, <1>2, <1>3, <2>1 DEF Linked, Placed
<1>9. dest'["output"] = Nothing /\ (proc[p].i = 1 => dest'["manifest"] = dest["manifest"])
      /\ (proc[p].i = 2 => dest'["manifest"] = Nothing)
  BY <1>1, <1>3, <1>4, <1>8 DEF Targets
<1>10. Matched(dest)'
  BY <1>1, <1>3, <1>5, <1>9 DEF Matched
<1>11. Placed(proc[p], before[p])'
  <2>1. "unlink" \in Phases \ {"backup"} /\ "link" \in Phases \ {"backup"}
        /\ "unlink" \notin Early /\ "link" \notin Early
    BY DEF Phases, Early
  <2>2. CASE proc[p].i = 1 /\ Pair(p) /\ proc'[p].pc = "unlink" /\ proc'[p].i = 2
    BY <1>1, <1>7, <1>8, <1>9, <2>1, <2>2 DEF Linked, Placed, Pair
  <2>3. CASE (proc[p].i = 2 \/ ~Pair(p)) /\ proc'[p].pc = "link" /\ proc'[p].i = 1
    <3>1. proc[p].cmd = "passport" => dest'["manifest"] = Nothing
      BY <1>4, <1>9, <2>3 DEF Pair
    <3>2. proc[p].cmd # "passport" => dest'["manifest"] = before[p]["manifest"]
      BY <1>4, <1>8, <1>9
    <3> QED BY <1>1, <1>7, <1>8, <1>9, <2>1, <2>3, <3>1, <3>2 DEF Linked, Placed
  <2> QED BY <1>1, <1>7, <2>2, <2>3
<1>12. Kept(proc[p], before[p])'
  BY <1>1, <1>3, <1>7, StillKept DEF Linked
<1>13. Survives'
  BY <1>1, Replaces
<1>14. proc'[p].pc \in Phases
  BY <1>1, <1>2, <1>7
<1> QED BY <1>1, <1>2, <1>3, <1>6, <1>7, <1>10, <1>11, <1>12, <1>13, <1>14, Publication

\* A file that cannot be removed: a pair is restored, a single artifact was
\* never touched.
LEMMA FailsToUnlink ==
    ASSUME IInv, NEW p \in Processes, UnlinkFails(p)
    PROVE  IInv'
<1>1. /\ proc[p].pc = "unlink"
      /\ UNCHANGED <<root, base, dest, held, lock, children, before, settled, paired, stuck, builds>>
  BY DEF UnlinkFails, At, Fault, bounds, history
<1>2. proc[p].pc \in Phases /\ proc[p].pc \in Phases \ {"backup"} /\ "undo" \in Phases
  BY <1>1 DEF Phases
<1>3. /\ IProc /\ Placed(proc[p], before[p]) /\ Kept(proc[p], before[p])
      /\ dest \in [Targets -> Content] /\ \A t \in Targets : dest[t].id <= builds
      /\ before[p] \in [Targets -> Content] /\ proc[p] \in Local
      /\ stuck \subseteq 1..MaxBuilds /\ settled \in [Targets -> Content]
      /\ backups \subseteq Targets \X Content /\ Matched(dest) /\ Survives
  BY <1>2, Publishes, Working
<1>4. /\ proc[p].back["output"] = before[p]["output"]
      /\ proc[p].cmd = "passport" => proc[p].back["manifest"] = before[p]["manifest"]
      /\ proc[p].cmd # "passport" => proc[p].back["manifest"] = Nothing
      /\ proc[p].i = 2 => proc[p].cmd = "passport"
      /\ dest["output"] = IF proc[p].i = 1 THEN before[p]["output"] ELSE Nothing
      /\ dest["manifest"] = before[p]["manifest"]
  BY <1>1, <1>2, <1>3 DEF Linked, Placed
<1>5. Matched(dest)'
  BY <1>1, <1>3 DEF Matched
<1>6. CASE Pair(p) /\ proc' = [proc EXCEPT ![p].pc = "undo", ![p].i = 1] /\ UNCHANGED backups
  <2>1. /\ IProc' /\ \A q \in Processes \ {p} : proc'[q] = proc[q]
        /\ proc'[p].pc = "undo" /\ proc'[p].i = 1
        /\ proc'[p].cmd = proc[p].cmd /\ proc'[p].base = proc[p].base
        /\ proc'[p].id = proc[p].id /\ proc'[p].made = proc[p].made
        /\ proc'[p].back = proc[p].back
    BY <1>2, <1>3, <1>6, Returns
  <2>2. Placed(proc[p], before[p])'
    <3>1. "undo" \in Phases \ {"backup"} /\ "undo" \notin Early
      BY DEF Phases, Early
    <3> QED BY <1>1, <1>4, <1>6, <2>1, <3>1 DEF Linked, Placed, Pair
  <2>3. Kept(proc[p], before[p])'
    BY <1>1, <1>3, <1>6, <2>1, StillKept DEF Linked
  <2>4. Survives'
    BY <1>1, <1>3, <1>6 DEF Survives
  <2> QED BY <1>1, <1>2, <1>3, <1>5, <1>6, <2>1, <2>2, <2>3, <2>4, Publication
<1>7. CASE ~Pair(p) /\ End(p, "error") /\ backups' = backups \ (Backups(p) \ held)
  <2>1. "error" \in Results
    BY DEF Results
  <2>2. /\ IProc' /\ (\A q \in Processes \ {p} : proc'[q] = proc[q])
        /\ proc'[p].pc = "release" /\ proc'[p].cmd = proc[p].cmd /\ proc'[p].base = proc[p].base
        /\ proc'[p].id = proc[p].id
    BY <1>3, <1>7, <2>1, Ends
  <2>3. "release" \notin Locked /\ "release" \notin Early /\ "release" \notin Phases
    BY DEF Locked, Early, Phases
  <2>4. Placed(proc[p], before[p])'
    BY <1>7, <2>2, <2>3 DEF Linked, Placed, Pair
  <2>5. Kept(proc[p], before[p])'
    BY <2>2, <2>3 DEF Linked, Kept
  <2>6. \A t \in Targets : proc[p].back[t] \in {Nothing, dest[t]}
    <3>1. proc[p].i = 1
      BY <1>3, <1>4, <1>7, Working DEF Pair
    <3> QED BY <1>4, <1>7, <3>1 DEF Targets, Pair
  <2>7. Survives'
    BY <1>1, <1>3, <1>7, <2>6, Discards
  <2>8. backups' \subseteq Targets \X Content
    BY <1>3, <1>7
  <2> QED BY <1>1, <1>2, <1>3, <1>5, <2>2, <2>4, <2>5, <2>7, <2>8, Publication
<1> QED BY <1>6, <1>7 DEF UnlinkFails


\* A staged file becomes the published one, or the publication is undone.
LEMMA Links ==
    ASSUME IInv, NEW p \in Processes, Link(p)
    PROVE  IInv'
<1>1. /\ proc[p].pc = "link"
      /\ UNCHANGED <<root, base, backups, held, lock, children, before, paired, stuck, builds>>
  BY DEF Link, At, Fault, bounds
<1>2. /\ proc[p].pc \in Phases /\ proc[p].pc \in Phases \ {"backup"}
      /\ "undo" \in Phases /\ "redo" \in Phases /\ "sweep" \in Phases
  BY <1>1 DEF Phases
<1>3. /\ IProc /\ Placed(proc[p], before[p]) /\ Kept(proc[p], before[p])
      /\ dest \in [Targets -> Content] /\ \A t \in Targets : dest[t].id <= builds
      /\ stuck \subseteq 1..MaxBuilds /\ settled \in [Targets -> Content]
      /\ backups \subseteq Targets \X Content /\ Matched(dest) /\ Survives
      /\ proc[p].id <= builds /\ (proc[p].cmd # "passport" => proc[p].id \notin paired)
  BY <1>2, Publishes
<1>4. /\ T(p) \in Targets /\ Staged(p) \in Content /\ Staged(p).id = proc[p].id
      /\ proc[p].i = 1 => T(p) = "output" /\ Staged(p) = Artifact(proc[p])
      /\ proc[p].i # 1 => /\ proc[p].i = 2 /\ T(p) = "manifest"
                          /\ Staged(p) = Passport(proc[p])
  BY <1>3, Working
<1>5. /\ proc[p].back["output"] = before[p]["output"]
      /\ proc[p].cmd = "passport" => proc[p].back["manifest"] = before[p]["manifest"]
      /\ proc[p].cmd # "passport" => /\ proc[p].back["manifest"] = Nothing
                                     /\ dest["manifest"] = before[p]["manifest"]
      /\ proc[p].i = 2 => proc[p].cmd = "passport"
      /\ dest["output"] = IF proc[p].i = 1 THEN Nothing ELSE Artifact(proc[p])
      /\ proc[p].cmd = "passport" => dest["manifest"] = Nothing
  BY <1>1, <1>2, <1>3 DEF Linked, Placed
<1>6. /\ "link" \in Phases \ {"backup"} /\ "undo" \in Phases \ {"backup"}
      /\ "redo" \in Phases \ {"backup"} /\ "sweep" \in Phases \ {"backup"}
      /\ "link" \notin Early /\ "undo" \notin Early /\ "redo" \notin Early /\ "sweep" \notin Early
  BY DEF Phases, Early
<1>7. CASE /\ dest' = [dest EXCEPT ![T(p)] = Staged(p)] /\ Advance(p, "sweep")
           /\ settled' = [t \in Targets |-> IF proc[p].i = Last(p) /\ (Pair(p) \/ t = "output")
                                            THEN dest'[t] ELSE settled[t]]
  <2>1. /\ IProc' /\ \A q \in Processes \ {p} : proc'[q] = proc[q]
        /\ \/ proc[p].i = 1 /\ Pair(p) /\ proc'[p].pc = proc[p].pc /\ proc'[p].i = 2
           \/ (proc[p].i = 2 \/ ~Pair(p)) /\ proc'[p].pc = "sweep" /\ proc'[p].i = 1
        /\ proc'[p].cmd = proc[p].cmd /\ proc'[p].base = proc[p].base
        /\ proc'[p].id = proc[p].id /\ proc'[p].made = proc[p].made
        /\ proc'[p].back = proc[p].back
    BY <1>2, <1>3, <1>7, Advances
  <2>2. dest' \in [Targets -> Content] /\ \A t \in Targets : dest'[t].id <= builds
    BY <1>3, <1>4, <1>7
  <2>3. Artifact(proc[p])' = Artifact(proc[p]) /\ Passport(proc[p])' = Passport(proc[p])
    BY <2>1 DEF Artifact, Passport
  <2>4. /\ dest'["output"] = Artifact(proc[p])
        /\ proc[p].i = 1 => dest'["manifest"] = dest["manifest"]
        /\ proc[p].i = 2 => dest'["manifest"] = Passport(proc[p])
    BY <1>3, <1>4, <1>5, <1>7 DEF Targets
  <2>5. Artifact(proc[p]).id = proc[p].id /\ Passport(proc[p]).id = proc[p].id
    BY DEF Artifact, Passport
  <2>6. proc[p].i = 1 \/ proc[p].i = 2
    BY <1>4
  <2>7. Matched(dest)'
    <3>1. paired' = paired /\ stuck' = stuck
      BY <1>1
    <3> QED BY <1>3, <1>5, <2>4, <2>5, <2>6, <3>1 DEF Matched
  <2>8. Placed(proc[p], before[p])'
    <3>1. CASE proc[p].i = 1 /\ Pair(p) /\ proc'[p].pc = "link" /\ proc'[p].i = 2
      BY <1>1, <1>5, <1>6, <2>1, <2>3, <2>4, <3>1 DEF Linked, Placed, Pair
    <3>2. CASE (proc[p].i = 2 \/ ~Pair(p)) /\ proc'[p].pc = "sweep" /\ proc'[p].i = 1
      <4>1. proc[p].cmd = "passport" => dest'["manifest"] = Passport(proc[p])
        BY <2>4, <3>2 DEF Pair
      <4>2. proc[p].cmd # "passport" => dest'["manifest"] = before[p]["manifest"]
        BY <1>5, <2>4, <2>6
      <4> QED BY <1>1, <1>5, <1>6, <2>1, <2>3, <2>4, <3>2, <4>1, <4>2 DEF Linked, Placed
    <3> QED BY <1>1, <2>1, <3>1, <3>2
  <2>9. settled' \in [Targets -> Content] /\ Kept(proc[p], before[p])' /\ Survives'
    <3>1. CASE proc[p].i = 1 /\ Pair(p)
      <4>1. proc[p].i # Last(p) /\ proc'[p].pc \notin Linked
        BY <1>1, <2>1, <3>1 DEF Last, Linked
      <4>2. settled' = [t \in Targets |-> settled[t]]
        BY <1>7, <4>1
      <4>3. settled' = settled
        BY <1>3, <4>2
      <4> QED BY <1>1, <1>3, <1>7, <2>1, <4>1, <4>3, StillKept, Replaces
    <3>2. CASE Pair(p) /\ proc[p].i = 2
      <4>1. proc[p].i = Last(p) /\ proc'[p].pc \in Linked /\ proc'[p].pc \in Locked
        BY <2>1, <3>2 DEF Last, Linked, Locked, Phases
      <4>2. settled' = [t \in Targets |-> dest'[t]]
        BY <1>7, <3>2, <4>1
      <4>3. settled' = dest'
        BY <2>2, <4>2
      <4> QED BY <2>2, <4>1, <4>3 DEF Kept, Survives
    <3>3. CASE ~Pair(p)
      <4>1. proc[p].i = 1 /\ proc'[p].pc \in Linked /\ proc'[p].pc \in Locked
        BY <1>4, <1>5, <2>1, <3>3 DEF Pair, Linked, Locked, Phases
      <4>2. proc[p].i = Last(p) /\ proc'[p].cmd # "passport"
        BY <2>1, <3>3, <4>1 DEF Last, Pair
      <4>3. settled'["output"] = dest'["output"] /\ settled'["manifest"] = settled["manifest"]
        BY <1>7, <3>3, <4>2 DEF Targets
      <4>4. settled' \in [Targets -> Content]
        BY <1>3, <1>7, <2>2
      <4>5. dest'["manifest"] = dest["manifest"] /\ UNCHANGED backups
        BY <1>1, <2>4, <4>1
      <4>6. settled["manifest"] \in {Nothing, dest["manifest"]}
               \/ <<"manifest", settled["manifest"]>> \in backups
        BY <1>3 DEF Survives, Targets
      <4>7. Survives'
        BY <4>3, <4>5, <4>6 DEF Survives, Targets
      <4>8. Kept(proc[p], before[p])'
        BY <4>1, <4>2, <4>3 DEF Kept
      <4> QED BY <4>4, <4>7, <4>8
    <3> QED BY <2>6, <3>1, <3>2, <3>3
  <2>11. proc'[p].pc \in Phases
    BY <1>1, <1>2, <2>1
  <2> QED BY <1>1, <1>2, <1>3, <2>1, <2>2, <2>7, <2>8, <2>9, <2>11, Publication
<1>8. CASE /\ UNCHANGED <<dest, settled>>
           /\ proc' = [proc EXCEPT ![p].pc = IF Pair(p) THEN "undo" ELSE "redo", ![p].i = 1]
  <2> DEFINE phase == IF Pair(p) THEN "undo" ELSE "redo"
  <2>1. phase \in Phases /\ proc' = [proc EXCEPT ![p].pc = phase, ![p].i = 1]
    BY <1>2, <1>8
  <2>2. (Pair(p) => phase = "undo") /\ (~Pair(p) => phase = "redo")
    OBVIOUS
  <2> HIDE DEF phase
  <2>3. /\ IProc' /\ \A q \in Processes \ {p} : proc'[q] = proc[q]
        /\ proc'[p].pc = phase /\ proc'[p].i = 1
        /\ proc'[p].cmd = proc[p].cmd /\ proc'[p].base = proc[p].base
        /\ proc'[p].id = proc[p].id /\ proc'[p].made = proc[p].made
        /\ proc'[p].back = proc[p].back
    BY <1>3, <2>1, Returns
  <2>4. Artifact(proc[p])' = Artifact(proc[p])
    BY <2>3 DEF Artifact
  <2>5. Placed(proc[p], before[p])'
    <3>1. CASE Pair(p)
      BY <1>1, <1>5, <1>6, <1>8, <2>2, <2>3, <2>4, <3>1 DEF Linked, Placed, Pair
    <3>2. CASE ~Pair(p)
      <4>1. proc[p].i = 1
        BY <1>4, <1>5, <3>2 DEF Pair
      <4> QED BY <1>1, <1>5, <1>6, <1>8, <2>2, <2>3, <3>2, <4>1 DEF Linked, Placed, Pair
    <3> QED BY <3>1, <3>2
  <2>6. Kept(proc[p], before[p])'
    BY <1>1, <1>3, <1>8, <2>2, <2>3, StillKept DEF Linked
  <2>7. Matched(dest)' /\ Survives'
    BY <1>1, <1>3, <1>8 DEF Matched, Survives
  <2> QED BY <1>1, <1>2, <1>3, <1>8, <2>1, <2>3, <2>5, <2>6, <2>7, Publication
<1> QED BY <1>7, <1>8 DEF Link

\* Files that are the ones found, or taken away, or of a build that is stuck
\* with its artifact, match as the ones found did.
LEMMA StaysMatched ==
    ASSUME NEW w, Matched(w), UNCHANGED paired, stuck \subseteq stuck', paired \subseteq 1..MaxBuilds,
           dest'["output"] \in {Nothing, w["output"]} \/ dest'["output"].id \in stuck',
           dest'["manifest"] \in {Nothing, w["manifest"]}
    PROVE  Matched(dest)'
<1>1. Nothing.id \notin paired
  BY BoundAssumption DEF Nothing
<1> QED BY <1>1 DEF Matched

\* What a pair put in place is taken away again, as far as possible.
LEMMA Undoes ==
    ASSUME IInv, NEW p \in Processes, Undo(p)
    PROVE  IInv'
<1>1. /\ proc[p].pc = "undo" /\ Advance(p, "redo")
      /\ dest' = [dest EXCEPT ![T(p)] = Nothing] \/ dest' = dest
      /\ stuck' = IF dest'[T(p)] = Staged(p) THEN stuck \cup {proc[p].id} ELSE stuck
      /\ UNCHANGED <<root, base, backups, held, lock, children, before, settled, paired, builds>>
  BY DEF Undo, At, Fault, bounds
<1>2. /\ proc[p].pc \in Phases /\ proc[p].pc \in Phases \ {"backup"} /\ "redo" \in Phases
      /\ "undo" \in Phases \ {"backup"} /\ "redo" \in Phases \ {"backup"}
      /\ "undo" \notin Early /\ "redo" \notin Early
  BY <1>1 DEF Phases, Early
<1>3. /\ IProc /\ Placed(proc[p], before[p]) /\ Kept(proc[p], before[p])
      /\ dest \in [Targets -> Content] /\ \A t \in Targets : dest[t].id <= builds
      /\ stuck \subseteq 1..MaxBuilds /\ settled \in [Targets -> Content]
      /\ backups \subseteq Targets \X Content /\ paired \subseteq 1..MaxBuilds
      /\ Matched(dest) /\ Survives /\ proc[p].id \in 1..MaxBuilds
  BY <1>2, Publishes
<1>4. /\ T(p) \in Targets /\ Nothing \in Content
      /\ proc[p].i = 1 => T(p) = "output" /\ Staged(p) = Artifact(proc[p])
      /\ proc[p].i # 1 => proc[p].i = 2 /\ T(p) = "manifest"
  BY <1>3, Working
<1>5. /\ proc[p].cmd = "passport" /\ dest["manifest"] \in {Nothing, before[p]["manifest"]}
      /\ \/ dest["output"] \in {Nothing, before[p]["output"]}
         \/ /\ dest["output"] = Artifact(proc[p]) /\ dest["manifest"] = Nothing
            /\ proc[p].i = 2 => proc[p].id \in stuck
      /\ proc[p].back["output"] = before[p]["output"]
      /\ proc[p].back["manifest"] = before[p]["manifest"]
  BY <1>1, <1>2, <1>3 DEF Linked, Placed
<1>6. /\ IProc' /\ \A q \in Processes \ {p} : proc'[q] = proc[q]
      /\ \/ proc[p].i = 1 /\ Pair(p) /\ proc'[p].pc = proc[p].pc /\ proc'[p].i = 2
         \/ (proc[p].i = 2 \/ ~Pair(p)) /\ proc'[p].pc = "redo" /\ proc'[p].i = 1
      /\ proc'[p].cmd = proc[p].cmd /\ proc'[p].base = proc[p].base
      /\ proc'[p].id = proc[p].id /\ proc'[p].made = proc[p].made
      /\ proc'[p].back = proc[p].back
  BY <1>1, <1>2, <1>3, Advances
<1>7. /\ Nothing.id = 0 /\ builds \in Nat /\ Artifact(proc[p])' = Artifact(proc[p])
      /\ Artifact(proc[p]).id = proc[p].id
  BY <1>6, BoundAssumption DEF Nothing, IInv, IHistory, Artifact
<1>8. /\ dest' \in [Targets -> Content] /\ \A t \in Targets : dest'[t].id <= builds
      /\ stuck \subseteq stuck' /\ stuck' \subseteq 1..MaxBuilds
  <2>1. stuck \subseteq stuck' /\ stuck' \subseteq 1..MaxBuilds
    BY <1>1, <1>3
  <2>2. dest' \in [Targets -> Content]
    BY <1>1, <1>3, <1>4
  <2>3. ASSUME NEW t \in Targets
        PROVE  dest'[t].id <= builds
    <3>1. dest'[t] \in {Nothing, dest[t]}
      BY <1>1, <1>3, <1>4
    <3> QED BY <1>3, <1>7, <3>1
  <2> QED BY <2>1, <2>2, <2>3
<1>9. /\ proc[p].i = 1 => /\ dest'["manifest"] = dest["manifest"]
                          /\ dest'["output"] \in {Nothing, dest["output"]}
                          /\ dest'["output"] = Artifact(proc[p]) => proc[p].id \in stuck'
      /\ proc[p].i = 2 => /\ dest'["output"] = dest["output"]
                          /\ dest'["manifest"] \in {Nothing, dest["manifest"]}
  BY <1>1, <1>3, <1>4 DEF Targets
<1>10. dest'["manifest"] \in {Nothing, before[p]["manifest"]}
  BY <1>4, <1>5, <1>9
<1>11. \/ dest'["output"] \in {Nothing, before[p]["output"]}
       \/ dest'["output"] = Artifact(proc[p]) /\ dest'["manifest"] = Nothing /\ proc[p].id \in stuck'
  <2>1. CASE proc[p].i = 1
    BY <1>5, <1>9, <2>1
  <2>2. CASE proc[p].i = 2
    BY <1>5, <1>8, <1>9, <2>2
  <2> QED BY <1>4, <2>1, <2>2
<1>12. Matched(dest)'
  <2>1. Matched(before[p])
    BY <1>2, Publishes
  <2> QED BY <1>1, <1>3, <1>7, <1>8, <1>10, <1>11, <2>1, StaysMatched
<1>13. Placed(proc[p], before[p])'
  <2>1. CASE proc'[p].pc = "undo" /\ proc'[p].i = 2
    BY <1>1, <1>2, <1>5, <1>6, <1>7, <1>10, <1>11, <2>1 DEF Linked, Placed
  <2>2. CASE proc'[p].pc = "redo" /\ proc'[p].i = 1
    BY <1>1, <1>2, <1>5, <1>6, <1>7, <1>10, <1>11, <2>2 DEF Linked, Placed
  <2> QED BY <1>1, <1>6, <2>1, <2>2
<1>14. Kept(proc[p], before[p])'
  BY <1>1, <1>3, <1>6, StillKept DEF Linked
<1>15. Survives'
  <2>1. CASE dest' = dest
    BY <1>1, <1>3, <2>1 DEF Survives
  <2>2. CASE dest' = [dest EXCEPT ![T(p)] = Nothing]
    BY <1>1, <2>2, Replaces
  <2> QED BY <1>1, <2>1, <2>2
<1>16. proc'[p].pc \in Phases
  BY <1>1, <1>2, <1>6
<1> QED BY <1>1, <1>2, <1>3, <1>6, <1>8, <1>12, <1>13, <1>14, <1>15, <1>16, Publication

\* What the process found is put back and its backup removed, unless something
\* stands there or the process has no backup of it.
LEMMA PutsBack ==
    ASSUME IInv, NEW p \in Processes, Redo(p)
    PROVE  /\ dest' \in [Targets -> Content] /\ \A t \in Targets : dest'[t].id <= builds
           /\ backups' \subseteq backups
           /\ \A t \in Targets \ {T(p)} :
                dest'[t] = dest[t] /\ \A c : <<t, c>> \in backups => <<t, c>> \in backups'
           /\ proc[p].back[T(p)] = Nothing => dest' = dest /\ backups' = backups
           /\ proc[p].back[T(p)] # Nothing => /\ dest[T(p)] = Nothing
                                              /\ dest'[T(p)] = before[p][T(p)]
           /\ \A c : <<T(p), c>> \in backups => <<T(p), c>> \in backups' \/ c = before[p][T(p)]
           /\ proc[p].back[T(p)] = before[p][T(p)]
<1>1. /\ proc[p].pc = "redo" /\ (proc[p].back[T(p)] = Nothing \/ dest[T(p)] = Nothing)
      /\ dest' = IF proc[p].back[T(p)] = Nothing THEN dest ELSE PutBack(p)
      /\ backups' = backups \ (BackupOf(p, T(p)) \ held)
         \/ (proc[p].back[T(p)] # Nothing /\ UNCHANGED backups)
  BY DEF Redo, At
<1>2. proc[p].pc \in Phases /\ proc[p].pc \in Phases \ {"backup"}
  BY <1>1 DEF Phases
<1>3. /\ IProc /\ Placed(proc[p], before[p])
      /\ dest \in [Targets -> Content] /\ before[p] \in [Targets -> Content]
      /\ backups \subseteq Targets \X Content
      /\ \A t \in Targets : dest[t].id <= builds
  BY <1>2, Publishes
<1>4. T(p) \in Targets /\ proc[p].back[T(p)] = before[p][T(p)]
  BY <1>2, <1>3, Working, InPlay
<1>5. \A t \in Targets : before[p][t].id <= builds
  BY DEF IInv, IBuilds
<1>6. dest' = dest \/ dest' = [dest EXCEPT ![T(p)] = before[p][T(p)]]
  BY <1>1, <1>4 DEF PutBack
<1>7. dest' \in [Targets -> Content] /\ \A t \in Targets : dest'[t].id <= builds
  <2>1. dest' \in [Targets -> Content]
    BY <1>3, <1>4, <1>6
  <2>2. ASSUME NEW t \in Targets
        PROVE  dest'[t].id <= builds
    <3>1. dest'[t] = dest[t] \/ dest'[t] = before[p][t]
      BY <1>3, <1>4, <1>6
    <3> QED BY <1>3, <1>5, <3>1
  <2> QED BY <2>1, <2>2
<1>8. ASSUME NEW t \in Targets \ {T(p)}
      PROVE  dest'[t] = dest[t] /\ \A c : <<t, c>> \in backups => <<t, c>> \in backups'
  <2>1. \A c : <<t, c>> \notin BackupOf(p, T(p))
    BY <1>4, BackupsAre
  <2> QED BY <1>1, <1>3, <1>4, <1>6, <2>1
<1>9. proc[p].back[T(p)] = Nothing => dest' = dest /\ backups' = backups
  <2>1. proc[p].back[T(p)] = Nothing => BackupOf(p, T(p)) = {}
    BY DEF BackupOf
  <2> QED BY <1>1, <2>1
<1>10. proc[p].back[T(p)] # Nothing => dest[T(p)] = Nothing /\ dest'[T(p)] = before[p][T(p)]
  BY <1>1, <1>3, <1>4 DEF PutBack
<1>11. ASSUME NEW c, <<T(p), c>> \in backups
       PROVE  <<T(p), c>> \in backups' \/ c = before[p][T(p)]
  BY <1>1, <1>4, <1>11, BackupsAre
<1>12. backups' \subseteq backups
  BY <1>1
<1> QED BY <1>4, <1>7, <1>8, <1>9, <1>10, <1>11, <1>12

\* What stood there before is put back: the artifact first, then its passport.
LEMMA Redoes ==
    ASSUME IInv, NEW p \in Processes, Redo(p)
    PROVE  IInv'
<1>1. /\ proc[p].pc = "redo"
      /\ UNCHANGED <<root, base, held, lock, children, before, settled, paired, stuck, builds>>
      /\ proc[p].i < Last(p) => Advance(p, "redo")
      /\ ~(proc[p].i < Last(p)) => \/ ~Pair(p) /\ (End(p, "restore") \/ End(p, "error"))
                                   \/ Pair(p) /\ End(p, "error")
  BY DEF Redo, At, Fault, bounds, history
<1>2. /\ proc[p].pc \in Phases /\ proc[p].pc \in Phases \ {"backup"} /\ proc[p].pc \in Locked
      /\ "redo" \in Phases \ {"backup"} /\ "redo" \in Phases /\ "redo" \notin Early
  BY <1>1 DEF Phases, Early, Locked
<1>3. /\ IProc /\ Placed(proc[p], before[p]) /\ Kept(proc[p], before[p])
      /\ dest \in [Targets -> Content] /\ before[p] \in [Targets -> Content]
      /\ stuck \subseteq 1..MaxBuilds /\ paired \subseteq 1..MaxBuilds
      /\ settled \in [Targets -> Content] /\ backups \subseteq Targets \X Content
      /\ Matched(before[p]) /\ Survives
  BY <1>2, Publishes
<1>4. /\ T(p) \in Targets /\ Nothing \in Content /\ proc[p] \in Local
      /\ proc[p].i = 1 => T(p) = "output"
      /\ proc[p].i # 1 => proc[p].i = 2 /\ T(p) = "manifest"
  BY <1>3, Working
<1>5. /\ dest' \in [Targets -> Content] /\ \A t \in Targets : dest'[t].id <= builds
      /\ backups' \subseteq backups
      /\ \A t \in Targets \ {T(p)} :
           dest'[t] = dest[t] /\ \A c : <<t, c>> \in backups => <<t, c>> \in backups'
      /\ proc[p].back[T(p)] = Nothing => dest' = dest /\ backups' = backups
      /\ proc[p].back[T(p)] # Nothing => /\ dest[T(p)] = Nothing
                                         /\ dest'[T(p)] = before[p][T(p)]
      /\ \A c : <<T(p), c>> \in backups => <<T(p), c>> \in backups' \/ c = before[p][T(p)]
      /\ proc[p].back[T(p)] = before[p][T(p)]
  BY PutsBack
<1>6. /\ proc[p].back["output"] = before[p]["output"]
      /\ proc[p].cmd = "passport" => proc[p].back["manifest"] = before[p]["manifest"]
      /\ proc[p].cmd # "passport" => /\ proc[p].back["manifest"] = Nothing
                                     /\ dest["manifest"] = before[p]["manifest"]
      /\ proc[p].i = 2 => proc[p].cmd = "passport"
      /\ dest["manifest"] \in {Nothing, before[p]["manifest"]}
      /\ \/ dest["output"] = Nothing /\ proc[p].i = 1
         \/ dest["output"] = before[p]["output"]
         \/ /\ dest["output"] = Artifact(proc[p]) /\ proc[p].id \in stuck
            /\ proc[p].i = 1 => dest["manifest"] = Nothing
            /\ proc[p].i = 2 => before[p]["output"] = Nothing
  BY <1>1, <1>2, <1>3 DEF Linked, Placed
<1>7. Artifact(proc[p]).id = proc[p].id
  BY DEF Artifact
<1>8. /\ proc[p].i = 1 => dest'["manifest"] = dest["manifest"]
      /\ proc[p].i = 2 => dest'["output"] = dest["output"]
  BY <1>4, <1>5 DEF Targets
<1>9. \/ dest'["output"] = before[p]["output"]
      \/ /\ dest'["output"] = Artifact(proc[p]) /\ proc[p].id \in stuck
         /\ before[p]["output"] = Nothing
  <2>1. CASE proc[p].i = 1
    BY <1>4, <1>5, <1>6, <2>1
  <2>2. CASE proc[p].i = 2
    BY <1>6, <1>8, <2>2
  <2> QED BY <1>4, <2>1, <2>2
<1>10. /\ dest'["manifest"] \in {Nothing, before[p]["manifest"]}
       /\ proc[p].i = 2 => dest'["manifest"] = before[p]["manifest"]
  BY <1>4, <1>5, <1>6, <1>8
<1>11. Matched(dest)'
  BY <1>1, <1>3, <1>7, <1>9, <1>10, StaysMatched
<1>12. Survives'
  <2>1. ASSUME NEW t \in Targets
        PROVE  settled'[t] \in {Nothing, dest'[t]} \/ <<t, settled'[t]>> \in backups'
    <3>1. settled[t] \in {Nothing, dest[t]} \/ <<t, settled[t]>> \in backups
      BY <1>3 DEF Survives
    <3>2. CASE t = T(p)
      BY <1>1, <1>5, <3>1, <3>2
    <3>3. CASE t # T(p)
      BY <1>1, <1>5, <3>1, <3>3
    <3> QED BY <3>2, <3>3
  <2> QED BY <2>1 DEF Survives
<1>13. backups' \subseteq Targets \X Content
  BY <1>3, <1>5
<1>14. CASE proc[p].i < Last(p)
  <2>1. proc[p].i = 1 /\ proc[p].cmd = "passport" /\ Pair(p)
    BY <1>4, <1>14 DEF Last, Pair
  <2>2. Advance(p, "redo")
    BY <1>1, <1>14
  <2>3. /\ IProc' /\ \A q \in Processes \ {p} : proc'[q] = proc[q]
        /\ \/ proc[p].i = 1 /\ Pair(p) /\ proc'[p].pc = proc[p].pc /\ proc'[p].i = 2
           \/ (proc[p].i = 2 \/ ~Pair(p)) /\ proc'[p].pc = "redo" /\ proc'[p].i = 1
        /\ proc'[p].cmd = proc[p].cmd /\ proc'[p].base = proc[p].base
        /\ proc'[p].id = proc[p].id /\ proc'[p].made = proc[p].made
        /\ proc'[p].back = proc[p].back
    BY <1>2, <1>3, <2>2, Advances
  <2>4. proc'[p].pc = "redo" /\ proc'[p].i = 2 /\ Artifact(proc[p])' = Artifact(proc[p])
    BY <1>1, <2>1, <2>3 DEF Artifact
  <2>5. Placed(proc[p], before[p])'
    BY <1>1, <1>2, <1>6, <1>9, <1>10, <2>1, <2>3, <2>4 DEF Linked, Placed
  <2>6. Kept(proc[p], before[p])'
    <3>1. ASSUME NEW t \in Targets
          PROVE  settled'[t] \in {Nothing, before'[p][t]} \/ <<t, settled'[t]>> \in backups'
      <4>1. settled[t] \in {Nothing, before[p][t]} \/ <<t, settled[t]>> \in backups
        BY <1>1, <1>2, <1>3 DEF Linked, Kept
      <4>2. <<t, settled[t]>> \in backups => <<t, settled[t]>> \in backups' \/ settled[t] = before[p][t]
        BY <1>5
      <4> QED BY <1>1, <4>1, <4>2
    <3>2. ASSUME NEW t \in Targets
          PROVE  \/ proc'[p].back[t] = Nothing \/ <<t, proc'[p].back[t]>> \in backups'
                 \/ (proc'[p].pc = "redo" /\ proc'[p].i = 2 /\ t = "output")
      <4>1. CASE t = "output"
        BY <2>4, <4>1
      <4>2. CASE t # "output"
        <5>1. t \in Targets \ {T(p)}
          BY <1>4, <2>1, <4>2
        <5>2. proc[p].back[t] = Nothing \/ <<t, proc[p].back[t]>> \in backups
          BY <1>1, <1>2, <1>3, <4>2 DEF Linked, Kept
        <5> QED BY <1>5, <2>3, <5>1, <5>2
      <4> QED BY <4>1, <4>2
    <3> QED BY <2>4, <3>1, <3>2 DEF Linked, Kept
  <2>7. proc'[p].pc \in Phases
    BY <1>2, <2>4
  <2> QED BY <1>1, <1>2, <1>3, <1>5, <1>11, <1>12, <1>13, <2>3, <2>5, <2>6, <2>7, Publication
<1>15. CASE ~(proc[p].i < Last(p))
  <2>1. "error" \in Results /\ "restore" \in Results
    BY DEF Results
  <2>2. \/ ~Pair(p) /\ (End(p, "restore") \/ End(p, "error"))
        \/ Pair(p) /\ End(p, "error")
    BY <1>1, <1>15
  <2>3. /\ IProc' /\ (\A q \in Processes \ {p} : proc'[q] = proc[q])
        /\ proc'[p].pc = "release" /\ proc'[p].cmd = proc[p].cmd /\ proc'[p].base = proc[p].base
        /\ proc'[p].id = proc[p].id
    BY <1>3, <2>1, <2>2, Ends
  <2>4. "release" \notin Locked /\ "release" \notin Early /\ "release" \notin Phases
    BY DEF Locked, Early, Phases
  <2>5. proc[p].cmd = "passport" /\ proc[p].id \notin stuck => dest' = before[p]
    <3> SUFFICES ASSUME proc[p].cmd = "passport", proc[p].id \notin stuck
                 PROVE  dest' = before[p]
      OBVIOUS
    <3>1. proc[p].i = 2
      BY <1>4, <1>15 DEF Last, Pair
    <3>2. \A t \in Targets : dest'[t] = before[p][t]
      BY <1>9, <1>10, <3>1 DEF Targets
    <3> QED BY <1>3, <1>5, <3>2
  <2>6. Placed(proc[p], before[p])'
    BY <1>1, <2>3, <2>4, <2>5 DEF Linked, Placed
  <2>7. Kept(proc[p], before[p])'
    BY <2>3, <2>4 DEF Linked, Kept
  <2> QED BY <1>1, <1>2, <1>3, <1>5, <1>11, <1>12, <1>13, <2>3, <2>6, <2>7, Publication
<1> QED BY <1>14, <1>15

\* The staged files are gone, or an ordinary build ends with an error.
LEMMA Sweeps ==
    ASSUME IInv, NEW p \in Processes, Sweep(p)
    PROVE  IInv'
<1>1. /\ proc[p].pc = "sweep"
      /\ UNCHANGED <<root, base, dest, backups, held, lock, children, before, settled, paired, stuck, builds>>
      /\ \/ Goto(p, "prune")
         \/ ~Pair(p) /\ End(p, "error")
  BY DEF Sweep, At, Fault, bounds, disk, history
<1>2. proc[p].pc \in Phases /\ proc[p].pc \in Linked
  BY <1>1 DEF Phases, Linked
<1>3. /\ IProc /\ Placed(proc[p], before[p]) /\ Kept(proc[p], before[p])
      /\ dest \in [Targets -> Content] /\ \A t \in Targets : dest[t].id <= builds
      /\ stuck \subseteq 1..MaxBuilds /\ settled \in [Targets -> Content]
      /\ backups \subseteq Targets \X Content /\ Matched(dest) /\ Survives
  BY <1>2, Publishes
<1>4. Matched(dest)' /\ Survives'
  BY <1>1, <1>3 DEF Matched, Survives
<1>5. CASE Goto(p, "prune")
  <2>1. "prune" \in Steps
    BY DEF Steps, Locked, Phases
  <2>2. /\ IProc' /\ (\A q \in Processes \ {p} : proc'[q] = proc[q])
        /\ proc'[p].pc = "prune" /\ proc'[p].cmd = proc[p].cmd /\ proc'[p].base = proc[p].base
        /\ proc'[p].id = proc[p].id /\ proc'[p].i = proc[p].i /\ proc'[p].made = proc[p].made
        /\ proc'[p].back = proc[p].back
    BY <1>3, <1>5, <2>1, Goes
  <2>3. Artifact(proc[p])' = Artifact(proc[p]) /\ Passport(proc[p])' = Passport(proc[p])
    BY <2>2 DEF Artifact, Passport
  <2>4. /\ "prune" \in Linked /\ "prune" \in Phases /\ "prune" \in Phases \ {"backup"}
        /\ "prune" \notin Early /\ "prune" \notin Locked \ Linked /\ "prune" \notin Phases \ Linked
    BY DEF Linked, Phases, Early
  <2>5. Placed(proc[p], before[p])'
    <3>1. proc[p].pc \in Phases \ {"backup"}
      BY <1>1, <1>2
    <3>2. /\ proc[p].i = 2 => proc[p].cmd = "passport"
          /\ proc[p].back["output"] = before[p]["output"]
          /\ IF proc[p].cmd = "passport" THEN proc[p].back["manifest"] = before[p]["manifest"]
             ELSE proc[p].back["manifest"] = Nothing /\ dest["manifest"] = before[p]["manifest"]
          /\ dest["output"] = Artifact(proc[p])
          /\ proc[p].cmd = "passport" => dest["manifest"] = Passport(proc[p])
      BY <1>2, <1>3, <3>1 DEF Placed
    <3> QED BY <1>1, <2>2, <2>3, <2>4, <3>2 DEF Placed
  <2>6. Kept(proc[p], before[p])'
    BY <1>1, <1>2, <1>3, <2>2, <2>4 DEF Kept
  <2> QED BY <1>1, <1>2, <1>3, <1>4, <2>2, <2>4, <2>5, <2>6, Publication
<1>6. CASE ~Pair(p) /\ End(p, "error")
  <2>1. "error" \in Results
    BY DEF Results
  <2>2. /\ IProc' /\ (\A q \in Processes \ {p} : proc'[q] = proc[q])
        /\ proc'[p].pc = "release" /\ proc'[p].cmd = proc[p].cmd /\ proc'[p].base = proc[p].base
        /\ proc'[p].id = proc[p].id
    BY <1>3, <1>6, <2>1, Ends
  <2>3. "release" \notin Locked /\ "release" \notin Early /\ "release" \notin Phases
    BY DEF Locked, Early, Phases
  <2>4. Placed(proc[p], before[p])' /\ Kept(proc[p], before[p])'
    BY <1>6, <2>2, <2>3 DEF Linked, Placed, Kept, Pair
  <2> QED BY <1>1, <1>2, <1>3, <1>4, <2>2, <2>4, Publication
<1> QED BY <1>1, <1>5, <1>6

\* A backup that is removed is of a file that has been replaced.
LEMMA Prunes ==
    ASSUME IInv, NEW p \in Processes, Prune(p)
    PROVE  IInv'
<1>1. /\ proc[p].pc = "prune"
      /\ UNCHANGED <<root, base, dest, held, lock, children, before, settled, paired, stuck, builds>>
      /\ backups' = backups \ (BackupOf(p, T(p)) \ held) \/ backups' = backups
      /\ proc[p].i < Last(p) => Advance(p, "prune")
      /\ ~(proc[p].i < Last(p)) => End(p, "ok") \/ (~Pair(p) /\ End(p, "error"))
  BY DEF Prune, At, Fault, bounds, history
<1>2. proc[p].pc \in Phases /\ proc[p].pc \in Linked /\ proc[p].pc \in Phases \ {"backup"}
  BY <1>1 DEF Phases, Linked
<1>3. /\ IProc /\ Placed(proc[p], before[p]) /\ Kept(proc[p], before[p])
      /\ dest \in [Targets -> Content] /\ \A t \in Targets : dest[t].id <= builds
      /\ stuck \subseteq 1..MaxBuilds /\ settled \in [Targets -> Content]
      /\ backups \subseteq Targets \X Content /\ Matched(dest) /\ Survives
  BY <1>2, Publishes
<1>4. /\ proc[p].i = 2 => proc[p].cmd = "passport"
      /\ proc[p].back["output"] = before[p]["output"]
      /\ IF proc[p].cmd = "passport" THEN proc[p].back["manifest"] = before[p]["manifest"]
         ELSE proc[p].back["manifest"] = Nothing /\ dest["manifest"] = before[p]["manifest"]
      /\ dest["output"] = Artifact(proc[p])
      /\ proc[p].cmd = "passport" => dest["manifest"] = Passport(proc[p])
  BY <1>2, <1>3 DEF Placed
<1>5. /\ T(p) \in Targets /\ proc[p] \in Local
      /\ proc[p].i = 1 => T(p) = "output"
      /\ proc[p].i # 1 => proc[p].i = 2 /\ T(p) = "manifest"
  BY <1>3, Working
<1>6. \A t \in Targets : proc[p].cmd = "passport" \/ t = "output" => settled[t] = dest[t]
  BY <1>2, <1>3 DEF Kept
<1>7. settled[T(p)] = dest[T(p)]
  BY <1>4, <1>5, <1>6
<1>8. Matched(dest)' /\ backups' \subseteq Targets \X Content
  BY <1>1, <1>3 DEF Matched
<1>9. Survives'
  <2>1. ASSUME NEW t \in Targets
        PROVE  settled[t] \in {Nothing, dest[t]} \/ <<t, settled[t]>> \in backups'
    <3>1. CASE t = T(p)
      BY <1>7, <3>1
    <3>2. CASE t # T(p)
      <4>1. settled[t] \in {Nothing, dest[t]} \/ <<t, settled[t]>> \in backups
        BY <1>3 DEF Survives
      <4>2. <<t, settled[t]>> \notin BackupOf(p, T(p))
        BY <1>5, <3>2, BackupsAre
      <4> QED BY <1>1, <4>1, <4>2
    <3> QED BY <3>1, <3>2
  <2> QED BY <1>1, <2>1 DEF Survives
<1>10. CASE proc[p].i < Last(p)
  <2>1. proc[p].i = 1 /\ proc[p].cmd = "passport" /\ Pair(p) /\ Advance(p, "prune")
    BY <1>1, <1>5, <1>10 DEF Last, Pair
  <2>2. /\ IProc' /\ (\A q \in Processes \ {p} : proc'[q] = proc[q])
        /\ proc'[p].pc = "prune" /\ proc'[p].i = 2
        /\ proc'[p].cmd = proc[p].cmd /\ proc'[p].base = proc[p].base
        /\ proc'[p].id = proc[p].id /\ proc'[p].made = proc[p].made
        /\ proc'[p].back = proc[p].back
    BY <1>1, <1>2, <1>3, <2>1, Advances
  <2>3. Artifact(proc[p])' = Artifact(proc[p]) /\ Passport(proc[p])' = Passport(proc[p])
    BY <2>2 DEF Artifact, Passport
  <2>4. /\ "prune" \in Linked /\ "prune" \in Phases /\ "prune" \in Phases \ {"backup"}
        /\ "prune" \notin Early /\ "prune" \notin Locked \ Linked /\ "prune" \notin Phases \ Linked
    BY DEF Linked, Phases, Early
  <2>5. Placed(proc[p], before[p])'
    BY <1>1, <1>4, <2>1, <2>2, <2>3, <2>4 DEF Placed
  <2>6. Kept(proc[p], before[p])'
    BY <1>1, <1>6, <2>2, <2>4 DEF Kept
  <2> QED BY <1>1, <1>2, <1>3, <1>8, <1>9, <2>2, <2>4, <2>5, <2>6, Publication
<1>11. CASE ~(proc[p].i < Last(p))
  <2>1. "ok" \in Results /\ "error" \in Results
    BY DEF Results
  <2>2. /\ IProc' /\ (\A q \in Processes \ {p} : proc'[q] = proc[q])
        /\ proc'[p].pc = "release" /\ proc'[p].cmd = proc[p].cmd /\ proc'[p].base = proc[p].base
        /\ proc'[p].id = proc[p].id /\ (Pair(p) => proc'[p].result = "ok")
    BY <1>1, <1>3, <1>11, <2>1, Ends
  <2>3. "release" \notin Locked /\ "release" \notin Early /\ "release" \notin Phases
    BY DEF Locked, Early, Phases
  <2>4. Placed(proc[p], before[p])' /\ Kept(proc[p], before[p])'
    BY <2>2, <2>3 DEF Linked, Placed, Kept, Pair
  <2> QED BY <1>1, <1>2, <1>3, <1>8, <1>9, <2>2, <2>4, Publication
<1> QED BY <1>10, <1>11

-----------------------------------------------------------------------------
(* The invariant and what follows from it.                                 *)

\* Every step of a command.
LEMMA Works ==
    ASSUME IInv, NEW p \in Processes, Work(p)
    PROVE  IInv'
<1>1. CASE Capture(p) \/ TryLock(p) \/ Inspect(p) \/ Remove(p) \/ RemoveSome(p) \/ Make(p) \/ Own(p)
  BY <1>1, Captures, Locks, Inspects, Removes, RemovesSome, Makes, Owns
<1>2. CASE Spawn(p) \/ Enter(p) \/ NativeEnds(p) \/ Interrupt(p) \/ Reap(p) \/ Mark(p) \/ Check(p)
  BY <1>2, Spawns, Enters, NativeFinishes, Interrupts, Reaps, Marks, Checks
<1>3. CASE BackUp(p) \/ Unlink(p) \/ UnlinkFails(p) \/ Link(p) \/ Undo(p) \/ Redo(p) \/ RedoFails(p)
  BY <1>3, BacksUp, Unlinks, FailsToUnlink, Links, Undoes, Redoes, FailsToRestore
<1>4. CASE Sweep(p) \/ Prune(p) \/ Release(p) \/ Tidy(p)
  BY <1>4, Sweeps, Prunes, Releases, Tidies
<1> QED BY <1>1, <1>2, <1>3, <1>4 DEF Work

\* The files, the infobase and the processes are as IInv says in every state a
\* project can reach, whatever fails or dies.
THEOREM Inductive == Spec => []IInv
<1>1. Init => IInv
  BY Starts
<1>2. IInv /\ [Next]_vars => IInv'
  <2> SUFFICES ASSUME IInv, [Next]_vars PROVE IInv'
    OBVIOUS
  <2>1. ASSUME NEW p \in Processes, Work(p) PROVE IInv'
    BY <2>1, Works
  <2>2. ASSUME NEW p \in Processes, Crash(p) PROVE IInv'
    BY <2>2, Crashes
  <2>3. ASSUME NEW p \in Processes, NEW cmd \in Commands, Begin(p, cmd) PROVE IInv'
    BY <2>3, Begins
  <2>4. CASE \/ \E p \in Processes : Signal(p) \/ OrphanEnters(p) \/ OrphanEnds(p)
             \/ EditBase \/ LetGo \/ \E t \in Targets : Hold(t)
    BY <2>4, Environment
  <2>5. CASE UNCHANGED vars
    <3>1. UNCHANGED <<root, dest, backups, lock, proc, native, history, builds>> /\ UNCHANGED base
          /\ UNCHANGED held /\ UNCHANGED children
      BY <2>5 DEF vars, disk, children, bounds
    <3>2. base' \in Bases /\ held' \subseteq Targets \X Content /\ IChildren'
      BY <3>1 DEF IInv, IDisk, IChildren, children
    <3> QED BY <3>1, <3>2, Surrounds
  <2> QED BY <2>1, <2>2, <2>3, <2>4, <2>5 DEF Next
<1> QED BY <1>1, <1>2, PTL DEF Spec

\* Types, and the lock is with exactly the process that is between taking it
\* and returning (infobase.rs lock, execute.rs).
THEOREM TypeCorrect == Spec => []TypeOK
<1>1. IInv => TypeOK
  <2> SUFFICES ASSUME IInv PROVE TypeOK
    OBVIOUS
  <2>1. IDisk /\ IProc /\ IChildren /\ IHistory /\ ILock
    BY DEF IInv
  <2>2. /\ root \in [exists : BOOLEAN, owner : BOOLEAN, state : Bases \cup {"none"},
                     data : Bases \cup {"partial", "torn", "absent"}]
        /\ base \in Bases /\ dest \in [Targets -> Content]
        /\ backups \subseteq Targets \X Content /\ held \subseteq Targets \X Content
    BY <2>1 DEF IDisk, Data
  <2>3. proc \in [Processes -> [pc : Locked \cup {"idle", "capture", "lock", "release", "tidy"},
                                cmd : Commands \cup {"none"}, base : Bases \cup {"none"},
                                id : 0..MaxBuilds, i : 1..2,
                                made : Bases \cup {"none", "partial", "torn", "absent"},
                                back : [Targets -> Content],
                                result : {"none", "ok", "error", "restore", "locked", "unowned",
                                          "absent", "failed", "interrupted"}]]
    BY <2>1 DEF IProc, Local, Steps, Results, Made
  <2>4. /\ native \in [Processes -> {"none", "entering", "working", "done", "failed"}]
        /\ orphan \in [Processes -> {"none", "entering", "working"}]
        /\ pidfile \in [Processes -> {"none", "create", "import"}]
        /\ {space, signalled} \subseteq [Processes -> BOOLEAN]
        /\ {paired, stuck} \subseteq SUBSET (1..MaxBuilds)
    BY <2>1 DEF IChildren, IHistory
  <2> QED BY <2>1, <2>2, <2>3, <2>4 DEF TypeOK, ILock
<1> QED BY <1>1, Inductive, PTL

\* The artifact and the passport beside it are of one build whenever the
\* artifact is of a build that made a passport, but for the builds whose
\* artifact could not be removed again (execute.rs publish_pair, restore_pair).
THEOREM PairsMatch == Spec => []PairMatches
<1>1. IInv => PairMatches
  BY DEF IInv, IMatched, Matched, PairMatches
<1> QED BY <1>1, Inductive, PTL

\* The files of the last build that reached all its destinations stay in place
\* or in a backup until a later build has reached all of its own, whatever fails
\* or dies meanwhile (publish, publish_pair, restore_pair).
THEOREM NothingPublishedIsLost == Spec => []Survives
<1>1. IInv => Survives
  BY DEF IInv
<1> QED BY <1>1, Inductive, PTL

\* A build with a passport that fails while it holds the infobase leaves both
\* files as it found them, however many of its steps fail, unless it says that
\* it could not restore them or could not remove its artifact (publish_pair).
THEOREM FailuresKeepPairs == Spec => []FailureKeepsPair
<1>1. IInv => FailureKeepsPair
  <2> SUFFICES ASSUME IInv, NEW p \in Processes, At(p, "release"), lock = p,
                      proc[p].cmd = "passport", proc[p].result \notin {"ok", "restore"},
                      proc[p].id \notin stuck
               PROVE  dest = before[p]
    BY DEF FailureKeepsPair
  <2>1. Placed(proc[p], before[p])
    BY DEF IInv, IHolder
  <2> QED BY <2>1 DEF Placed, At
<1> QED BY <1>1, Inductive, PTL

\* Sources are imported into an infobase that was created to the end, by this
\* build or an earlier one, whatever died in between (infobase.rs prepare,
\* mark_ready).
THEOREM ReuseIsComplete == Spec => []ReuseComplete
<1>1. IInv => ReuseComplete
  BY DEF IInv, IReady, Ready, ReuseComplete, At
<1> QED BY <1>1, Inductive, PTL

-----------------------------------------------------------------------------
(* ibcmd at work.                                                          *)

\* While no build is killed, and none is interrupted inside a container, ibcmd
\* is the child of a process that waits for it.
Tended ==
    /\ \A p \in Processes : native[p] = "none" \/ Waiting(p)
    /\ \A p \in Processes : orphan[p] = "none"
    /\ "signal" \notin Faults => \A p \in Processes : ~signalled[p]

\* A step of a process that has no child and starts none.
LEMMA StaysTended ==
    ASSUME IInv, Tended, NEW p \in Processes, native[p] = "none",
           \A q \in Processes \ {p} : proc'[q] = proc[q],
           UNCHANGED <<native, orphan>>,
           "signal" \notin Faults => \A q \in Processes : signalled'[q] \in {FALSE, signalled[q]}
    PROVE  Tended'
BY DEF Tended, Waiting, At

\* Only these steps of a command concern ibcmd.
LEMMA WorksTended ==
    ASSUME IInv, Tended, NEW p \in Processes, Work(p), "crash" \notin Faults,
           ~Container \/ "signal" \notin Faults
    PROVE  Tended'
<1>1. IProc /\ IChildren /\ "release" \in Steps /\ "interrupted" \in Results /\ "failed" \in Results
  BY DEF IInv, Steps, Results
<1>2. ASSUME ~Waiting(p), \A q \in Processes \ {p} : proc'[q] = proc[q],
             UNCHANGED <<native, orphan, signalled>>
      PROVE  Tended'
  <2>1. native[p] = "none"
    BY <1>2 DEF Tended
  <2> QED BY <1>2, <2>1, StaysTended
<1>3. CASE Capture(p) \/ TryLock(p) \/ Inspect(p) \/ Remove(p) \/ RemoveSome(p) \/ Make(p) \/ Own(p)
  <2>1. ~Waiting(p)
    BY <1>3 DEF Capture, TryLock, Inspect, Remove, RemoveSome, Make, Own, Waiting, At
  <2>2. \A q \in Processes \ {p} : proc'[q] = proc[q]
    BY <1>1, <1>3 DEF Capture, TryLock, Inspect, Remove, RemoveSome, Make, Own, Goto, End, Advance, IProc
  <2>3. UNCHANGED <<native, orphan, signalled>>
    BY <1>3 DEF Capture, TryLock, Inspect, Remove, RemoveSome, Make, Own, children
  <2> QED BY <1>2, <2>1, <2>2, <2>3
<1>4. CASE Mark(p) \/ Check(p) \/ BackUp(p) \/ Unlink(p) \/ UnlinkFails(p) \/ Link(p)
  <2>1. ~Waiting(p)
    BY <1>4 DEF Mark, Check, BackUp, Unlink, UnlinkFails, Link, Waiting, At
  <2>2. \A q \in Processes \ {p} : proc'[q] = proc[q]
    BY <1>1, <1>4 DEF Mark, Check, BackUp, Unlink, UnlinkFails, Link, Goto, End, Advance, IProc
  <2>3. UNCHANGED <<native, orphan, signalled>>
    BY <1>4 DEF Mark, Check, BackUp, Unlink, UnlinkFails, Link, children
  <2> QED BY <1>2, <2>1, <2>2, <2>3
<1>5. CASE Undo(p) \/ Redo(p) \/ RedoFails(p) \/ Sweep(p) \/ Prune(p) \/ Release(p) \/ Tidy(p)
  <2>1. ~Waiting(p)
    BY <1>5 DEF Undo, Redo, RedoFails, Sweep, Prune, Release, Tidy, Waiting, At
  <2>2. \A q \in Processes \ {p} : proc'[q] = proc[q]
    BY <1>1, <1>5 DEF Undo, Redo, RedoFails, Sweep, Prune, Release, Tidy, Goto, End, Advance, IProc
  <2>3. UNCHANGED <<native, orphan, signalled>>
    BY <1>5 DEF Undo, Redo, RedoFails, Sweep, Prune, Release, Tidy, children
  <2> QED BY <1>2, <2>1, <2>2, <2>3
<1>6. CASE Spawn(p)
  <2>1. /\ native' = [native EXCEPT ![p] = "entering"] /\ UNCHANGED <<orphan, signalled>>
        /\ Goto(p, "creating") \/ Goto(p, "importing")
    BY <1>6 DEF Spawn
  <2>2. "creating" \in Steps /\ "importing" \in Steps
    BY DEF Steps, Locked
  <2>3. (\A q \in Processes \ {p} : proc'[q] = proc[q]) /\ proc'[p].pc \in {"creating", "importing"}
    BY <1>1, <2>1, <2>2, Goes
  <2> QED BY <1>1, <2>1, <2>3 DEF Tended, Waiting, At, IChildren
<1>7. CASE Enter(p) \/ NativeEnds(p)
  <2>1. /\ Waiting(p) /\ UNCHANGED <<proc, orphan, signalled>>
        /\ \E state : native' = [native EXCEPT ![p] = state]
    BY <1>7 DEF Enter, NativeEnds
  <2> QED BY <1>1, <2>1 DEF Tended, Waiting, At, IChildren
<1>8. CASE Interrupt(p) \/ Reap(p)
  <2>1. /\ native' = [native EXCEPT ![p] = "none"] /\ UNCHANGED signalled
        /\ \A q \in Processes \ {p} : proc'[q] = proc[q]
    BY <1>1, <1>8 DEF Interrupt, Reap, Goto, End, IProc
  <2>2. orphan' = orphan
    <3>1. CASE Interrupt(p)
      <4>1. "signal" \in Faults
        BY <3>1 DEF Interrupt, Tended
      <4> QED BY <3>1, <4>1 DEF Interrupt, SurvivesKill
    <3>2. CASE Reap(p)
      BY <3>2 DEF Reap
    <3> QED BY <1>8, <3>1, <3>2
  <2>3. native'[p] = "none" /\ \A q \in Processes \ {p} : native'[q] = native[q]
    BY <1>1, <2>1 DEF IChildren
  <2> QED BY <2>1, <2>2, <2>3 DEF Tended, Waiting, At
<1> QED BY <1>3, <1>4, <1>5, <1>6, <1>7, <1>8 DEF Work

\* An ibcmd at work on the infobase belongs to the holder of its lock, if builds
\* are not killed and, in a container, not interrupted before the shell there
\* has recorded its PID (run_interruptible).
THEOREM ToolsAreAlone ==
    ASSUME "crash" \notin Faults, ~Container \/ "signal" \notin Faults
    PROVE  Spec => []AloneInData
<1>1. Init => Tended
  BY DEF Init, Tended
<1>2. IInv /\ Tended /\ [Next]_vars => Tended'
  <2> SUFFICES ASSUME IInv, Tended, [Next]_vars PROVE Tended'
    OBVIOUS
  <2>1. ASSUME NEW p \in Processes, Work(p) PROVE Tended'
    BY <2>1, WorksTended
  <2>2. ASSUME NEW p \in Processes, Crash(p) PROVE Tended'
    BY <2>2 DEF Crash, Fault
  <2>3. ASSUME NEW p \in Processes, Signal(p) PROVE Tended'
    BY <2>3 DEF Signal, Fault, Tended, Waiting, At
  <2>4. ASSUME NEW p \in Processes, OrphanEnters(p) \/ OrphanEnds(p) PROVE Tended'
    BY <2>4 DEF OrphanEnters, OrphanEnds, Tended
  <2>5. ASSUME NEW p \in Processes, NEW cmd \in Commands, Begin(p, cmd) PROVE Tended'
    <3>1. native[p] = "none"
      BY <2>5 DEF Begin, Tended, Waiting, At
    <3>2. /\ \A q \in Processes \ {p} : proc'[q] = proc[q]
          /\ UNCHANGED <<native, orphan>>
          /\ \A q \in Processes : signalled'[q] \in {FALSE, signalled[q]}
      BY <2>5 DEF Begin, IInv, IProc, IChildren
    <3> QED BY <3>1, <3>2, StaysTended
  <2>6. CASE EditBase \/ LetGo \/ \E t \in Targets : Hold(t)
    BY <2>6 DEF EditBase, LetGo, Hold, children, Tended, Waiting, At
  <2>7. CASE UNCHANGED vars
    BY <2>7 DEF vars, children, Tended, Waiting, At
  <2> QED BY <2>1, <2>2, <2>3, <2>4, <2>5, <2>6, <2>7 DEF Next
<1>3. IInv /\ TypeOK /\ Tended => AloneInData
  <2> SUFFICES ASSUME IInv, TypeOK, Tended, NEW p \in Processes,
                      "working" \in {native[p], orphan[p]}
               PROVE  lock = p
    BY DEF AloneInData
  <2>1. Waiting(p)
    BY DEF Tended
  <2>2. proc[p].pc \in Locked
    BY <2>1 DEF Waiting, At, Locked
  <2> QED BY <2>2 DEF IInv, ILock
<1> QED BY <1>1, <1>2, <1>3, Inductive, TypeCorrect, PTL DEF Spec

-----------------------------------------------------------------------------
(* The base a passport claims, while every build makes a passport and no   *)
(* removal stops half-way.                                                 *)

\* The infobase a process works in was created from the base it has copied.
Claimed(r, child) ==
    r.cmd = "passport" =>
        /\ r.pc = "creating" /\ child = "done" => root.data = r.base
        /\ r.pc \in {"mark", "import", "importing"} => root.data = r.base
        /\ r.pc \in Phases \cup {"check"} => r.made = r.base
IClaims ==
    /\ root.state # "none" => root.data = root.state
    /\ \A p \in Processes : Claimed(proc[p], native[p])

\* A number that names a build names no file yet, but the ones it publishes.
Over == {"release", "tidy"}
Unused(files, id) == \A t \in Targets : files[t].id # id
IFresh ==
    /\ \A p, q \in Processes :
        p # q /\ proc[p].cmd = "passport" /\ proc[q].cmd = "passport" => proc[p].id # proc[q].id
    /\ \A p \in Processes : proc[p].cmd = "passport" /\ proc[p].pc \notin Over =>
        /\ proc[p].pc \notin Phases => Unused(dest, proc[p].id)
        /\ \A q \in Processes : Unused(before[q], proc[p].id)

\* Files of one build name one base.
Genuine(files) ==
    /\ \A t \in Targets : files[t].id = 0 => files[t] = Nothing
    /\ files["output"].id = files["manifest"].id => files["output"].base = files["manifest"].base
IGenuine == Genuine(dest) /\ \A p \in Processes : Genuine(before[p])

\* No step of a command changes what it is or its number, nor, while it publishes,
\* the bases it works with; its phases come before its end.
LEMMA Moves ==
    ASSUME IInv, NEW p \in Processes, Work(p)
    PROVE  /\ \A q \in Processes \ {p} : proc'[q] = proc[q]
           /\ \/ proc'[p].cmd = "none"
              \/ /\ proc'[p].cmd = proc[p].cmd /\ proc'[p].id = proc[p].id
                 /\ proc[p].pc \in Phases => proc'[p].pc \in Phases \cup Over
                 /\ proc[p].pc \in Over => proc'[p].pc \in Over
                 /\ proc[p].pc \notin {"capture", "importing"}
                       => proc'[p].base = proc[p].base /\ proc'[p].made = proc[p].made
<1> DEFINE Named == proc'[p].cmd = proc[p].cmd /\ proc'[p].id = proc[p].id
           Same == Named /\ proc'[p].base = proc[p].base /\ proc'[p].made = proc[p].made
           Others == \A q \in Processes \ {p} : proc'[q] = proc[q]
           Early0 == proc[p].pc \notin Phases /\ proc[p].pc \notin Over
           Late == proc[p].pc \in Phases /\ proc'[p].pc \in Phases \cup Over
<1>1. IProc /\ proc[p] \in Local /\ dest \in [Targets -> Content]
  BY DEF IInv, IProc, IDisk
<1>2. ASSUME NEW pc, Goto(p, pc)
      PROVE  Others /\ Same /\ proc'[p].pc = pc
  BY <1>1, <1>2 DEF Goto, IProc, Local
<1>3. ASSUME NEW result, End(p, result)
      PROVE  Others /\ Same /\ proc'[p].pc = "release"
  <2>1. proc' = [proc EXCEPT ![p] = [proc[p] EXCEPT !.pc = "release", !.result = result]]
    BY <1>3 DEF End
  <2>2. Others /\ proc'[p] = [proc[p] EXCEPT !.pc = "release", !.result = result]
    BY <1>1, <2>1 DEF IProc
  <2> QED BY <1>1, <2>2 DEF Local
<1>4. "release" \in Over /\ "release" \notin Phases /\ "tidy" \in Over /\ "tidy" \notin Phases /\ Over \cap Phases = {}
  BY DEF Over, Phases
<1>5. ASSUME NEW phase \in Phases, Advance(p, phase), proc[p].pc \in Phases
      PROVE  Others /\ Same /\ Late
  <2>1. /\ Others /\ Same /\ (proc'[p].pc = proc[p].pc \/ proc'[p].pc = phase)
    BY <1>1, <1>5, Advances
  <2> QED BY <1>5, <2>1
<1>6. CASE Capture(p)
  <2>1. /\ proc' = [proc EXCEPT ![p] = [proc[p] EXCEPT !.base = base, !.pc = "lock"]]
        /\ proc[p].pc = "capture"
    BY <1>6 DEF Capture, At
  <2>2. Others /\ proc'[p] = [proc[p] EXCEPT !.base = base, !.pc = "lock"]
    BY <1>1, <2>1 DEF IProc
  <2>3. Named
    BY <1>1, <2>2 DEF Local
  <2> QED BY <2>1, <2>2, <2>3 DEF Phases, Over
<1>7. CASE TryLock(p) \/ Inspect(p) \/ Remove(p) \/ RemoveSome(p) \/ Make(p) \/ Own(p) \/ Spawn(p)
           \/ Interrupt(p) \/ Mark(p) \/ Check(p)
  <2>1. (\E pc : Goto(p, pc)) \/ (\E result : End(p, result))
    BY <1>7 DEF TryLock, Inspect, Remove, RemoveSome, Make, Own, Spawn, Interrupt, Mark, Check
  <2>2. Early0
    BY <1>7 DEF TryLock, Inspect, Remove, RemoveSome, Make, Own, Spawn, Interrupt, Mark, Check,
                At, Waiting, Phases, Over
  <2> QED BY <1>2, <1>3, <2>1, <2>2
<1>8. CASE Enter(p) \/ NativeEnds(p)
  BY <1>8 DEF Enter, NativeEnds, Waiting, At, Phases, Over
<1>9. CASE Reap(p)
  <2>1. \/ (\E pc : Goto(p, pc)) \/ (\E result : End(p, result))
        \/ /\ proc' = [proc EXCEPT ![p] = [proc[p] EXCEPT !.pc = "check", !.made = root.data]]
           /\ proc[p].pc = "importing"
    BY <1>9 DEF Reap, Waiting, Stage, At
  <2>2. Early0
    BY <1>9 DEF Reap, At, Waiting, Phases, Over
  <2>3. CASE /\ proc' = [proc EXCEPT ![p] = [proc[p] EXCEPT !.pc = "check", !.made = root.data]]
             /\ proc[p].pc = "importing"
    <3>1. Others /\ proc'[p] = [proc[p] EXCEPT !.pc = "check", !.made = root.data]
      BY <1>1, <2>3 DEF IProc
    <3>2. Named
      BY <1>1, <3>1 DEF Local
    <3> QED BY <2>2, <2>3, <3>1, <3>2
  <2> QED BY <1>2, <1>3, <2>1, <2>2, <2>3
<1>10. CASE BackUp(p)
  <2>1. /\ proc[p].pc = "backup" /\ proc[p].pc \in Phases /\ "unlink" \in Phases
        /\ \/ proc' = [proc EXCEPT ![p] = Following(p, [@ EXCEPT !.back[T(p)] = dest[T(p)]], "unlink")]
           \/ End(p, "error")
    BY <1>10 DEF BackUp, At, Phases
  <2>2. CASE End(p, "error")
    BY <1>3, <1>4, <2>1, <2>2
  <2>3. CASE proc' = [proc EXCEPT ![p] = Following(p, [@ EXCEPT !.back[T(p)] = dest[T(p)]], "unlink")]
    <3>1. Others /\ Same /\ (proc'[p].pc = proc[p].pc \/ proc'[p].pc = "unlink")
      BY <1>1, <2>3, Notes
    <3> QED BY <1>4, <2>1, <3>1
  <2> QED BY <2>1, <2>2, <2>3
<1>11. CASE UnlinkFails(p) \/ Link(p) \/ Unlink(p) \/ Undo(p)
  <2>1. /\ proc[p].pc \in Phases /\ "sweep" \in Phases /\ "link" \in Phases /\ "redo" \in Phases
        /\ "undo" \in Phases
    BY <1>11 DEF UnlinkFails, Link, Unlink, Undo, At, Phases
  <2>2. \/ End(p, "error") \/ Advance(p, "sweep") \/ Advance(p, "link") \/ Advance(p, "redo")
        \/ proc' = [proc EXCEPT ![p].pc = "undo", ![p].i = 1]
        \/ proc' = [proc EXCEPT ![p].pc = "redo", ![p].i = 1]
    BY <1>11 DEF UnlinkFails, Link, Unlink, Undo
  <2>3. ASSUME NEW phase \in Phases, proc' = [proc EXCEPT ![p].pc = phase, ![p].i = 1]
        PROVE  Others /\ Same /\ Late
    BY <1>1, <2>1, <2>3, Returns
  <2> QED BY <1>3, <1>4, <1>5, <2>1, <2>2, <2>3
<1>12. CASE Redo(p) \/ RedoFails(p) \/ Sweep(p) \/ Prune(p)
  <2>1. proc[p].pc \in Phases /\ "redo" \in Phases /\ "prune" \in Phases
    BY <1>12 DEF Redo, RedoFails, Sweep, Prune, At, Phases
  <2>2. Advance(p, "redo") \/ Advance(p, "prune") \/ Goto(p, "prune") \/ \E result : End(p, result)
    BY <1>12 DEF Redo, RedoFails, Sweep, Prune
  <2> QED BY <1>2, <1>3, <1>4, <1>5, <2>1, <2>2
<1>13. CASE Release(p) \/ Tidy(p)
  <2>1. proc' = [proc EXCEPT ![p] = Idle] \/ (Goto(p, "tidy") /\ proc[p].pc = "release")
    BY <1>13 DEF Release, Tidy, At
  <2>2. CASE proc' = [proc EXCEPT ![p] = Idle]
    BY <1>1, <2>2, Rests
  <2> QED BY <1>2, <1>4, <2>1, <2>2
<1> QED BY <1>6, <1>7, <1>8, <1>9, <1>10, <1>11, <1>12, <1>13 DEF Work

\* The published files change in four steps, and what a process found when it
\* takes the lock.
LEMMA Changes ==
    ASSUME IInv, NEW p \in Processes, Work(p)
    PROVE  /\ dest' = dest \/ Unlink(p) \/ Link(p) \/ Undo(p) \/ Redo(p)
           /\ before' = before \/ (before' = [before EXCEPT ![p] = dest] /\ proc[p].pc = "lock"
                                     /\ lock = NoOne /\ dest' = dest)
<1>1. CASE Capture(p) \/ Inspect(p) \/ Remove(p) \/ RemoveSome(p) \/ Make(p) \/ Own(p) \/ Spawn(p)
  BY <1>1 DEF Capture, Inspect, Remove, RemoveSome, Make, Own, Spawn, disk, history
<1>2. CASE Enter(p) \/ NativeEnds(p) \/ Interrupt(p) \/ Reap(p) \/ Mark(p) \/ Check(p)
  BY <1>2 DEF Enter, NativeEnds, Interrupt, Reap, Mark, Check, disk, history
<1>3. CASE BackUp(p) \/ Unlink(p) \/ UnlinkFails(p) \/ Link(p)
  BY <1>3 DEF BackUp, Unlink, UnlinkFails, Link, history
<1>4. CASE Undo(p) \/ Redo(p) \/ RedoFails(p) \/ Sweep(p) \/ Prune(p) \/ Release(p) \/ Tidy(p)
  BY <1>4 DEF Undo, Redo, RedoFails, Sweep, Prune, Release, Tidy, disk, history
<1>5. CASE TryLock(p)
  BY <1>5 DEF TryLock, At, disk
<1> QED BY <1>1, <1>2, <1>3, <1>4, <1>5 DEF Work

\* What a process publishes is its own or what it found.
LEMMA Sources ==
    ASSUME IInv, NEW p \in Processes, Unlink(p) \/ Link(p) \/ Undo(p) \/ Redo(p)
    PROVE  /\ proc[p].pc \in Phases
           /\ \A t \in Targets : dest'[t] \in {dest[t], Nothing, before[p][t], Staged(p)}
<1>1. proc[p].pc \in Phases
  BY DEF Unlink, Link, Undo, Redo, At, Phases
<1>2. IProc /\ dest \in [Targets -> Content] /\ T(p) \in Targets
  BY Working DEF IInv, IDisk
<1>3. CASE Unlink(p) \/ Link(p) \/ Undo(p)
  <2>1. dest' = dest \/ dest' = [dest EXCEPT ![T(p)] = Nothing] \/ dest' = [dest EXCEPT ![T(p)] = Staged(p)]
    BY <1>3 DEF Unlink, Link, Undo
  <2> QED BY <1>1, <1>2, <2>1
<1>4. CASE Redo(p)
  <2>1. \A t \in Targets : t # T(p) => dest'[t] = dest[t]
    BY <1>4, PutsBack
  <2>2. dest'[T(p)] \in {dest[T(p)], before[p][T(p)]}
    BY <1>4, PutsBack
  <2> QED BY <1>1, <2>1, <2>2
<1> QED BY <1>3, <1>4

\* Numbers stay fresh until their build publishes.
LEMMA WorksFresh ==
    ASSUME IInv, IFresh, Commands \subseteq {"passport", "clean"}, NEW p \in Processes, Work(p)
    PROVE  IFresh'
<1>1. ASSUME NEW q \in Processes, proc'[q].cmd = "passport"
      PROVE  /\ proc[q].cmd = "passport" /\ proc'[q].id = proc[q].id /\ proc[q].id > 0
             /\ proc'[q].pc \notin Over => proc[q].pc \notin Over
             /\ proc'[q].pc \notin Over /\ proc'[q].pc \notin Phases => proc[q].pc \notin Phases
  <2>1. /\ proc[q].cmd = "passport" /\ proc'[q].id = proc[q].id
        /\ proc'[q].pc \notin Over => proc[q].pc \notin Over
        /\ proc'[q].pc \notin Over /\ proc'[q].pc \notin Phases => proc[q].pc \notin Phases
    BY <1>1, Moves
  <2>2. proc[q].cmd \in Commands \ {"clean"}
    BY <2>1 DEF IInv, IProc, Local
  <2> QED BY <2>1, <2>2 DEF IInv, IBuilds
<1>2. ASSUME NEW q \in Processes, NEW r \in Processes, q # r,
             proc'[q].cmd = "passport", proc'[r].cmd = "passport"
      PROVE  proc'[q].id # proc'[r].id
  BY <1>1, <1>2 DEF IFresh
<1>3. ASSUME NEW q \in Processes, proc'[q].cmd = "passport", proc'[q].pc \notin Over,
             proc'[q].pc \notin Phases
      PROVE  Unused(dest', proc'[q].id)
  <2>1. /\ proc[q].cmd = "passport" /\ proc'[q].id = proc[q].id /\ proc[q].id > 0
        /\ proc[q].pc \notin Over /\ proc[q].pc \notin Phases
    BY <1>1, <1>3
  <2>2. Unused(dest, proc[q].id) /\ Unused(before[p], proc[q].id)
    BY <2>1 DEF IFresh
  <2>3. CASE dest' = dest
    BY <2>1, <2>2, <2>3
  <2>4. CASE dest' # dest
    <3>1. /\ proc[p].pc \in Phases
          /\ \A t \in Targets : dest'[t] \in {dest[t], Nothing, before[p][t], Staged(p)}
      BY <2>4, Changes, Sources
    <3>2. p # q
      BY <2>1, <3>1
    <3>3. proc[p].cmd = "passport"
      <4>1. proc[p].pc \in Locked /\ proc[p].pc \notin {"lock", "inspect", "remove", "release"}
        BY <3>1 DEF Locked, Phases
      <4>2. proc[p].cmd # "none" /\ proc[p].cmd # "clean"
        BY <4>1, Holds DEF Ready
      <4> QED BY <4>2 DEF IInv, IProc, Local
    <3>4. proc[p].id # proc[q].id /\ Staged(p).id = proc[p].id /\ Nothing.id = 0
      BY <2>1, <3>2, <3>3 DEF IFresh, Staged, Nothing
    <3> QED BY <2>1, <2>2, <3>1, <3>4 DEF Unused
  <2> QED BY <2>3, <2>4
<1>4. ASSUME NEW q \in Processes, proc'[q].cmd = "passport", proc'[q].pc \notin Over,
             NEW r \in Processes
      PROVE  Unused(before'[r], proc'[q].id)
  <2>1. proc[q].cmd = "passport" /\ proc'[q].id = proc[q].id /\ proc[q].pc \notin Over
    BY <1>1, <1>4
  <2>2. Unused(before[r], proc[q].id)
    BY <2>1 DEF IFresh
  <2>3. CASE before' = before
    BY <2>1, <2>2, <2>3
  <2>4. CASE before' = [before EXCEPT ![p] = dest] /\ lock = NoOne
    <3>1. proc[q].pc \notin Phases
      <4>1. Phases \subseteq Locked
        BY DEF Locked
      <4> QED BY <2>4, <4>1, ProcessAssumption DEF IInv, ILock
    <3>2. Unused(dest, proc[q].id)
      BY <2>1, <3>1 DEF IFresh
    <3>3. before'[r] \in {before[r], dest}
      BY <2>4 DEF IInv, IHistory
    <3> QED BY <2>1, <2>2, <3>2, <3>3
  <2> QED BY <2>3, <2>4, Changes
<1> QED BY <1>2, <1>3, <1>4 DEF IFresh

\* Files that are the ones found, taken away, or a new artifact without its
\* passport are of no build that names two bases.
LEMMA StaysGenuine ==
    ASSUME NEW w, NEW files, NEW r, Genuine(w), Unused(w, r.id), r.id # 0,
           files["output"] \in {Nothing, w["output"], Artifact(r)},
           files["manifest"] \in {Nothing, w["manifest"]}
    PROVE  Genuine(files)
<1>1. Artifact(r).id = r.id /\ Nothing.id = 0 /\ Nothing.base = "none"
  BY DEF Artifact, Nothing
<1>2. "output" \in Targets /\ "manifest" \in Targets /\ Targets = {"output", "manifest"}
  BY DEF Targets
<1>3. \A t \in Targets : files[t].id = 0 => files[t] = Nothing
  BY <1>1, <1>2 DEF Genuine
<1>4. ASSUME files["output"].id = files["manifest"].id
      PROVE  files["output"].base = files["manifest"].base
  <2>1. w["manifest"].id # r.id
    BY <1>2 DEF Unused
  <2>2. files["manifest"].id # r.id
    BY <1>1, <2>1
  <2>3. files["output"] \in {Nothing, w["output"]}
    BY <1>1, <1>4, <2>2
  <2>4. CASE files["output"].id = 0
    BY <1>1, <1>2, <1>3, <1>4, <2>4
  <2>5. CASE files["output"].id # 0
    <3>1. files["output"] = w["output"] /\ files["manifest"] = w["manifest"]
      BY <1>1, <1>4, <2>3, <2>5
    <3> QED BY <1>4, <3>1 DEF Genuine
  <2> QED BY <2>4, <2>5
<1> QED BY <1>3, <1>4 DEF Genuine

\* A build publishes its own passport only beside its own artifact.
LEMMA WorksGenuine ==
    ASSUME IInv, IClaims, IFresh, IGenuine, Commands \subseteq {"passport", "clean"},
           NEW p \in Processes, Work(p)
    PROVE  IGenuine'
<1>1. ASSUME NEW q \in Processes
      PROVE  before'[q] \in {before[q], dest}
  BY Changes DEF IInv, IHistory
<1>2. ASSUME dest' # dest
      PROVE  Genuine(dest')
  <2>1. (Unlink(p) \/ Link(p) \/ Undo(p) \/ Redo(p)) /\ proc[p].pc \in Phases
    BY <1>2, Changes, Sources
  <2>2. proc[p].pc \in Locked /\ proc[p].pc \notin {"lock", "inspect", "remove", "release"}
        /\ proc[p].pc \notin Over
    BY <2>1 DEF Locked, Phases, Over
  <2>3. proc[p].cmd # "none" /\ proc[p].cmd # "clean"
    BY <2>2, Holds DEF Ready
  <2>4. proc[p].cmd = "passport"
    BY <2>3 DEF IInv, IProc, Local
  <2>5. /\ IProc /\ Placed(proc[p], before[p]) /\ dest \in [Targets -> Content]
        /\ proc[p].id \in 1..MaxBuilds
    BY <2>1, Publishes
  <2>6. Genuine(before[p]) /\ Unused(before[p], proc[p].id) /\ proc[p].id # 0
    BY <2>2, <2>4, <2>5 DEF IGenuine, IFresh
  <2>7. /\ T(p) \in Targets
        /\ proc[p].i = 1 => T(p) = "output" /\ Staged(p) = Artifact(proc[p])
        /\ proc[p].i # 1 => /\ proc[p].i = 2 /\ T(p) = "manifest"
                            /\ Staged(p) = Passport(proc[p])
    BY <2>5, Working
  <2>8. Targets = {"output", "manifest"}
    BY DEF Targets
  <2> DEFINE w == before[p]
             Parts(files) == /\ files["output"] \in {Nothing, w["output"], Artifact(proc[p])}
                             /\ files["manifest"] \in {Nothing, w["manifest"]}
  <2>9. CASE Unlink(p)
    <3>1. proc[p].pc = "unlink" /\ dest' = [dest EXCEPT ![T(p)] = Nothing]
      BY <2>9 DEF Unlink, At
    <3>2. Parts(dest)
      BY <2>5, <3>1 DEF Placed
    <3>3. Parts(dest')
      BY <2>5, <2>8, <3>1, <3>2
    <3> QED BY <2>6, <3>3, StaysGenuine
  <2>10. CASE Undo(p)
    <3>1. proc[p].pc = "undo" /\ dest' = [dest EXCEPT ![T(p)] = Nothing]
      BY <1>2, <2>10 DEF Undo, At
    <3>2. Parts(dest)
      BY <2>5, <3>1 DEF Placed
    <3>3. Parts(dest')
      BY <2>5, <2>8, <3>1, <3>2
    <3> QED BY <2>6, <3>3, StaysGenuine
  <2>11. CASE Redo(p)
    <3>1. proc[p].pc = "redo"
      BY <2>11 DEF Redo, At
    <3>2. Parts(dest)
      BY <2>5, <3>1 DEF Placed
    <3>3. \A t \in Targets : dest'[t] \in {dest[t], w[t]}
      <4>1. \A t \in Targets : t # T(p) => dest'[t] = dest[t]
        BY <2>11, PutsBack
      <4>2. dest'[T(p)] \in {dest[T(p)], w[T(p)]}
        BY <2>11, PutsBack
      <4> QED BY <4>1, <4>2
    <3>4. Parts(dest')
      BY <2>8, <3>2, <3>3
    <3> QED BY <2>6, <3>4, StaysGenuine
  <2>12. CASE Link(p)
    <3>1. proc[p].pc = "link" /\ dest' = [dest EXCEPT ![T(p)] = Staged(p)]
      BY <1>2, <2>12 DEF Link, At
    <3>2. dest["manifest"] = Nothing /\ (proc[p].i # 1 => dest["output"] = Artifact(proc[p]))
      BY <2>4, <2>5, <3>1 DEF Placed
    <3>3. dest'["output"] = Artifact(proc[p])
      BY <2>5, <2>7, <2>8, <3>1, <3>2
    <3>4. CASE proc[p].i = 1
      <4>1. dest'["manifest"] = Nothing
        BY <2>5, <2>7, <2>8, <3>1, <3>2, <3>4
      <4> QED BY <2>6, <3>3, <4>1, StaysGenuine
    <3>5. CASE proc[p].i # 1
      <4>1. dest'["manifest"] = Passport(proc[p])
        BY <2>5, <2>7, <2>8, <3>1, <3>5
      <4>2. proc[p].made = proc[p].base
        BY <2>1, <2>4 DEF IClaims, Claimed
      <4>3. Artifact(proc[p]) = [id |-> proc[p].id, base |-> proc[p].base]
            /\ Passport(proc[p]) = [id |-> proc[p].id, base |-> proc[p].base]
        BY <4>2 DEF Artifact, Passport
      <4>4. dest'["output"].id # 0 /\ dest'["manifest"].id # 0
            /\ dest'["output"].base = dest'["manifest"].base
        BY <2>6, <3>3, <4>1, <4>3
      <4> QED BY <2>8, <4>4 DEF Genuine
    <3> QED BY <3>4, <3>5
  <2> QED BY <2>1, <2>9, <2>10, <2>11, <2>12
<1>3. Genuine(dest')
  BY <1>2 DEF IGenuine
<1> QED BY <1>1, <1>3 DEF IGenuine

\* A step of the process that may use the infobase: the others say nothing of it.
LEMMA StaysClaimed ==
    ASSUME IInv, IClaims, NEW p \in Processes,
           \A q \in Processes \ {p} : proc'[q] = proc[q] /\ native'[q] = native[q],
           root' = root \/ (/\ proc[p].pc \in Locked
                            /\ root'.state # "none" => root'.data = root'.state),
           Claimed(proc[p], native[p])'
    PROVE  IClaims'
<1>1. root'.state # "none" => root'.data = root'.state
  BY DEF IClaims
<1>2. ASSUME NEW q \in Processes
      PROVE  Claimed(proc[q], native[q])'
  <2>1. CASE q = p
    BY <2>1
  <2>2. CASE q # p /\ root' = root
    BY <2>2 DEF IClaims, Claimed
  <2>3. CASE q # p /\ root' # root
    <3>1. proc[q].pc \notin Locked
      BY <2>3 DEF IInv, ILock
    <3>2. proc'[q].pc \notin {"creating", "mark", "import", "importing", "check"} \cup Phases
      BY <2>3, <3>1 DEF Locked
    <3> QED BY <3>2 DEF Claimed
  <2> QED BY <2>1, <2>2, <2>3
<1> QED BY <1>1, <1>2 DEF IClaims

\* The base a build has copied is what it creates its infobase from, what it
\* records of it and what it reuses it by.
LEMMA WorksClaimed ==
    ASSUME IInv, IClaims, Commands \subseteq {"passport", "clean"}, "torn" \notin Faults,
           NEW p \in Processes, Work(p)
    PROVE  IClaims'
<1>1. /\ IProc /\ IChildren /\ proc[p] \in Local
      /\ root \in [exists : BOOLEAN, owner : BOOLEAN, state : Bases \cup {"none"}, data : Data]
      /\ Ready(proc[p], native[p]) /\ Claimed(proc[p], native[p])
      /\ root.state # "none" => root.data = root.state
  BY DEF IInv, IProc, IDisk, IReady, IClaims
<1>2. \A q \in Processes \ {p} : proc'[q] = proc[q]
  BY Moves
<1>3. \A q \in Processes \ {p} : native'[q] = native[q]
  <2>1. CASE Spawn(p) \/ Enter(p) \/ NativeEnds(p) \/ Interrupt(p) \/ Reap(p)
    BY <1>1, <2>1 DEF Spawn, Enter, NativeEnds, Interrupt, Reap, IChildren
  <2>2. CASE Capture(p) \/ TryLock(p) \/ Inspect(p) \/ Remove(p) \/ RemoveSome(p) \/ Make(p) \/ Own(p)
    BY <2>2 DEF Capture, TryLock, Inspect, Remove, RemoveSome, Make, Own, children
  <2>3. CASE Mark(p) \/ Check(p) \/ BackUp(p) \/ Unlink(p) \/ UnlinkFails(p) \/ Link(p)
    BY <2>3 DEF Mark, Check, BackUp, Unlink, UnlinkFails, Link, children
  <2>4. CASE Undo(p) \/ Redo(p) \/ RedoFails(p) \/ Sweep(p) \/ Prune(p) \/ Release(p) \/ Tidy(p)
    BY <2>4 DEF Undo, Redo, RedoFails, Sweep, Prune, Release, Tidy, children
  <2> QED BY <2>1, <2>2, <2>3, <2>4 DEF Work
<1>4. ASSUME root' = root \/ (/\ proc[p].pc \in Locked
                              /\ root'.state # "none" => root'.data = root'.state),
             proc'[p].pc \notin {"creating", "mark", "import", "importing", "check"} \cup Phases
      PROVE  IClaims'
  <2>1. Claimed(proc[p], native[p])'
    BY <1>4 DEF Claimed
  <2> QED BY <1>2, <1>3, <1>4, <2>1, StaysClaimed
<1>5. ASSUME NEW pc, Goto(p, pc)
      PROVE  /\ proc'[p].pc = pc /\ proc'[p].cmd = proc[p].cmd
             /\ proc'[p].base = proc[p].base /\ proc'[p].made = proc[p].made
  BY <1>1, <1>5 DEF Goto, IProc, Local
<1>6. ASSUME NEW result, End(p, result)
      PROVE  proc'[p].pc = "release"
  BY <1>1, <1>6 DEF End, IProc, Local
<1>7. "release" \notin Phases /\ "create" \notin Phases /\ "own" \notin Phases /\ "make" \notin Phases
      /\ "remove" \notin Phases /\ "tidy" \notin Phases /\ "idle" \notin Phases
      /\ "lock" \notin Phases /\ "inspect" \notin Phases
  BY DEF Phases
<1>8. CASE Capture(p) \/ TryLock(p)
  <2>1. root' = root
    BY <1>8 DEF Capture, TryLock, disk
  <2>2. proc'[p].pc \in {"lock", "inspect", "release"}
    <3>1. CASE Capture(p)
      <4>1. proc'[p] = [proc[p] EXCEPT !.base = base, !.pc = "lock"]
        BY <1>1, <3>1 DEF Capture, IProc
      <4> QED BY <1>1, <4>1 DEF Local
    <3>2. CASE TryLock(p)
      BY <1>5, <1>6, <3>2 DEF TryLock
    <3> QED BY <1>8, <3>1, <3>2
  <2> QED BY <1>4, <1>7, <2>1, <2>2
<1>9. CASE Inspect(p)
  <2>1. proc[p].pc = "inspect" /\ root' = root
    BY <1>9 DEF Inspect, At, disk
  <2>2. CASE Reusable(p) /\ proc[p].cmd # "clean" /\ Goto(p, "import")
    <3>1. proc[p].base \in Bases
      BY <1>1, <2>1, <2>2 DEF Ready, Locked
    <3>2. root.data = proc[p].base
      BY <1>1, <2>2, <3>1, BaseAssumption DEF Reusable
    <3>3. "import" \notin Phases
      BY DEF Phases
    <3>4. Claimed(proc[p], native[p])'
      BY <1>5, <2>1, <2>2, <3>2, <3>3 DEF Claimed
    <3> QED BY <1>2, <1>3, <2>1, <3>4, StaysClaimed
  <2>3. CASE End(p, "unowned") \/ End(p, "absent") \/ Goto(p, "make") \/ Goto(p, "remove")
    BY <1>4, <1>5, <1>6, <1>7, <2>1, <2>3
  <2> QED BY <1>9, <2>2, <2>3 DEF Inspect
<1>10. CASE Remove(p) \/ Make(p) \/ Own(p)
  <2>1. proc[p].pc \in {"remove", "make", "own"} /\ proc[p].pc \in Locked
    BY <1>10 DEF Remove, Make, Own, At, Locked
  <2>2. root' = root \/ (root'.state # "none" => root'.data = root'.state)
    <3>1. CASE Remove(p) \/ Make(p)
      BY <3>1 DEF Remove, Make, NoRoot
    <3>2. CASE Own(p)
      <4>1. root.state = "none" /\ (root' = root \/ root' = [root EXCEPT !.owner = TRUE])
        BY <1>1, <3>2 DEF Own, At, Ready
      <4> QED BY <1>1, <4>1
    <3> QED BY <1>10, <3>1, <3>2
  <2>3. proc'[p].pc \in {"release", "make", "own", "create"}
    BY <1>5, <1>6, <1>10 DEF Remove, Make, Own
  <2> QED BY <1>4, <1>7, <2>1, <2>2, <2>3
<1>11. ~RemoveSome(p)
  BY DEF RemoveSome, Fault
<1>12. CASE Spawn(p)
  <2>1. /\ native' = [native EXCEPT ![p] = "entering"] /\ root' = root
        /\ \/ proc[p].pc = "create" /\ Goto(p, "creating")
           \/ proc[p].pc = "import" /\ Goto(p, "importing")
    BY <1>12 DEF Spawn, At, disk
  <2>2. native'[p] = "entering" /\ "creating" \notin Phases /\ "importing" \notin Phases
    BY <1>1, <2>1 DEF IChildren, Phases
  <2>3. Claimed(proc[p], native[p])'
    BY <1>1, <1>5, <2>1, <2>2 DEF Claimed
  <2> QED BY <1>2, <1>3, <2>1, <2>3, StaysClaimed
<1>13. CASE Enter(p)
  <2>1. /\ Waiting(p) /\ native'[p] = "working" /\ proc' = proc
        /\ root' = IF Stage(p) = "create" THEN [root EXCEPT !.data = "partial"] ELSE root
    BY <1>1, <1>13 DEF Enter, IChildren
  <2>2. proc[p].pc \in Locked /\ proc[p].pc \in {"creating", "importing"}
    BY <2>1 DEF Waiting, At, Locked
  <2>3. CASE proc[p].pc = "creating"
    <3>1. root'.state = "none"
      BY <1>1, <2>1, <2>3 DEF Stage, At, Ready
    <3>2. "creating" \notin Phases
      BY DEF Phases
    <3>3. Claimed(proc[p], native[p])'
      BY <2>1, <2>3, <3>2 DEF Claimed
    <3> QED BY <1>2, <1>3, <2>2, <3>1, <3>3, StaysClaimed
  <2>4. CASE proc[p].pc = "importing"
    <3>1. root' = root
      BY <2>1, <2>4 DEF Stage, At
    <3>2. Claimed(proc[p], native[p])'
      BY <1>1, <2>1, <2>4, <3>1 DEF Claimed
    <3> QED BY <1>2, <1>3, <3>1, <3>2, StaysClaimed
  <2> QED BY <2>2, <2>3, <2>4
<1>14. CASE NativeEnds(p)
  <2>1. /\ Waiting(p) /\ proc' = proc
        /\ root' = root \/ (Stage(p) = "create" /\ root' = [root EXCEPT !.data = Loaded(p)])
        /\ native'[p] = "done" /\ Stage(p) = "create" => root' = [root EXCEPT !.data = Loaded(p)]
    <3>1. CASE Fault("native") /\ native' = [native EXCEPT ![p] = "failed"] /\ UNCHANGED root
      <4>1. native'[p] = "failed"
        BY <1>1, <3>1 DEF IChildren
      <4> QED BY <1>14, <3>1, <4>1 DEF NativeEnds
    <3> QED BY <1>14, <3>1 DEF NativeEnds
  <2>2. proc[p].pc \in Locked /\ proc[p].pc \in {"creating", "importing"}
    BY <2>1 DEF Waiting, At, Locked
  <2>3. CASE proc[p].pc = "creating"
    <3>1. root.state = "none" /\ root'.state = "none" /\ Stage(p) = "create"
      BY <1>1, <2>1, <2>3 DEF Stage, At, Ready
    <3>2. "creating" \notin Phases
      BY DEF Phases
    <3>3. proc[p].cmd = "passport" /\ native'[p] = "done" => root'.data = proc[p].base
      BY <1>1, <2>1, <3>1 DEF Loaded
    <3>4. Claimed(proc[p], native[p])'
      BY <2>1, <2>3, <3>2, <3>3 DEF Claimed
    <3> QED BY <1>2, <1>3, <2>2, <3>1, <3>4, StaysClaimed
  <2>4. CASE proc[p].pc = "importing"
    <3>1. root' = root
      BY <2>1, <2>4 DEF Stage, At
    <3>2. Claimed(proc[p], native[p])'
      BY <1>1, <2>1, <2>4, <3>1 DEF Claimed
    <3> QED BY <1>2, <1>3, <3>1, <3>2, StaysClaimed
  <2> QED BY <2>2, <2>3, <2>4
<1>15. CASE Interrupt(p) \/ RedoFails(p)
  <2>1. root' = root /\ proc'[p].pc = "release"
    BY <1>6, <1>15 DEF Interrupt, RedoFails, disk
  <2> QED BY <1>4, <1>7, <2>1
<1>16. CASE Reap(p)
  <2>1. /\ root' = root /\ proc[p].pc \in {"creating", "importing"}
        /\ \/ End(p, "failed")
           \/ native[p] = "done" /\ proc[p].pc = "creating" /\ Goto(p, "mark")
           \/ /\ proc[p].pc = "importing"
              /\ proc' = [proc EXCEPT ![p] = [proc[p] EXCEPT !.pc = "check", !.made = root.data]]
    BY <1>16 DEF Reap, Waiting, Stage, At, disk
  <2>2. CASE End(p, "failed")
    BY <1>4, <1>6, <1>7, <2>1, <2>2
  <2>3. CASE native[p] = "done" /\ proc[p].pc = "creating" /\ Goto(p, "mark")
    <3>1. "mark" \notin Phases
      BY DEF Phases
    <3>2. Claimed(proc[p], native[p])'
      BY <1>1, <1>5, <2>1, <2>3, <3>1 DEF Claimed
    <3> QED BY <1>2, <1>3, <2>1, <3>2, StaysClaimed
  <2>4. CASE /\ proc[p].pc = "importing"
             /\ proc' = [proc EXCEPT ![p] = [proc[p] EXCEPT !.pc = "check", !.made = root.data]]
    <3>1. proc'[p] = [proc[p] EXCEPT !.pc = "check", !.made = root.data]
      BY <1>1, <2>4 DEF IProc
    <3>2. proc'[p].pc = "check" /\ proc'[p].made = root.data /\ proc'[p].base = proc[p].base
          /\ proc'[p].cmd = proc[p].cmd
      BY <1>1, <3>1 DEF Local
    <3>3. Claimed(proc[p], native[p])'
      BY <1>1, <2>4, <3>2 DEF Claimed
    <3> QED BY <1>2, <1>3, <2>1, <3>3, StaysClaimed
  <2> QED BY <2>1, <2>2, <2>3, <2>4
<1>17. CASE Mark(p)
  <2>1. /\ proc[p].pc = "mark" /\ (root' = root \/ root' = [root EXCEPT !.state = proc[p].base])
        /\ \/ Goto(p, "import")
           \/ End(p, "error")
    BY <1>17 DEF Mark, At
  <2>2. proc[p].cmd = "passport" /\ proc[p].pc \in Locked
    <3>1. proc[p].pc \in Locked /\ proc[p].pc \notin {"lock", "inspect", "remove", "release"}
      BY <2>1 DEF Locked
    <3>2. proc[p].cmd # "none" /\ proc[p].cmd # "clean"
      BY <1>1, <3>1 DEF Ready
    <3> QED BY <1>1, <3>1, <3>2 DEF Local
  <2>3. root.data = proc[p].base
    BY <1>1, <2>1, <2>2 DEF Claimed
  <2>4. root'.data = proc[p].base /\ (root'.state # "none" => root'.data = root'.state)
    BY <1>1, <2>1, <2>3
  <2>5. CASE Goto(p, "import")
    <3>1. "import" \notin Phases
      BY DEF Phases
    <3>2. Claimed(proc[p], native[p])'
      BY <1>5, <2>4, <2>5, <3>1 DEF Claimed
    <3> QED BY <1>2, <1>3, <2>2, <2>4, <3>2, StaysClaimed
  <2>6. CASE End(p, "error")
    BY <1>4, <1>6, <1>7, <2>2, <2>4, <2>6
  <2> QED BY <2>1, <2>5, <2>6
<1>18. CASE Check(p)
  <2>1. proc[p].pc = "check" /\ root' = root /\ (Goto(p, "backup") \/ End(p, "interrupted"))
    BY <1>18 DEF Check, At, disk
  <2>2. CASE Goto(p, "backup")
    <3>1. Claimed(proc[p], native[p])'
      BY <1>1, <1>5, <2>1, <2>2 DEF Claimed
    <3> QED BY <1>2, <1>3, <2>1, <3>1, StaysClaimed
  <2> QED BY <1>4, <1>6, <1>7, <2>1, <2>2
<1>19. CASE \/ BackUp(p) \/ Unlink(p) \/ UnlinkFails(p) \/ Link(p)
            \/ Undo(p) \/ Redo(p) \/ Sweep(p) \/ Prune(p)
  <2>1. root' = root /\ proc[p].pc \in Phases
    BY <1>19 DEF BackUp, Unlink, UnlinkFails, Link, Undo, Redo, Sweep, Prune, At, disk, Phases
  <2>2. proc[p].pc \notin {"capture", "importing"}
    BY <2>1 DEF Phases
  <2>3. \/ proc'[p].cmd = "none"
        \/ /\ proc'[p].cmd = proc[p].cmd /\ proc'[p].pc \in Phases \cup Over
           /\ proc'[p].base = proc[p].base /\ proc'[p].made = proc[p].made
    BY <2>1, <2>2, Moves
  <2>4. {"creating", "mark", "import", "importing", "check"} \cap (Phases \cup Over) = {}
    BY DEF Phases, Over
  <2>5. Claimed(proc[p], native[p])'
    BY <1>1, <2>1, <2>3, <2>4 DEF Claimed
  <2> QED BY <1>2, <1>3, <2>1, <2>5, StaysClaimed
<1>20. CASE Release(p) \/ Tidy(p)
  <2>1. root' = root
    BY <1>20 DEF Release, Tidy, disk
  <2>2. proc'[p].pc \in {"idle", "tidy"}
    <3>1. CASE proc' = [proc EXCEPT ![p] = Idle]
      BY <1>1, <3>1, Rests
    <3> QED BY <1>5, <1>20, <3>1 DEF Release, Tidy
  <2> QED BY <1>4, <1>7, <2>1, <2>2
<1> QED BY <1>8, <1>9, <1>10, <1>11, <1>12, <1>13, <1>14, <1>15, <1>16, <1>17, <1>18, <1>19, <1>20 DEF Work

\* The three facts together.
Truth == IClaims /\ IFresh /\ IGenuine

\* At first there is nothing to name a base.
LEMMA StartsTrue == Init => Truth
<1> SUFFICES ASSUME Init PROVE Truth
  OBVIOUS
<1>1. /\ root = NoRoot /\ dest = [t \in Targets |-> Nothing]
      /\ proc = [p \in Processes |-> Idle] /\ before = [p \in Processes |-> dest]
  BY Zenon DEF Init
<1>2. Idle.cmd = "none" /\ NoRoot.state = "none"
  BY DEF Idle, NoRoot
<1>3. IClaims
  BY <1>1, <1>2 DEF IClaims, Claimed
<1>4. IFresh
  BY <1>1, <1>2 DEF IFresh
<1>5. dest["output"] = Nothing /\ dest["manifest"] = Nothing /\ (\A t \in Targets : dest[t] = Nothing)
  BY <1>1 DEF Targets
<1>6. Genuine(dest)
  BY <1>5 DEF Genuine
<1>7. \A p \in Processes : before[p] = dest
  BY <1>1
<1>8. IGenuine
  BY <1>6, <1>7 DEF IGenuine
<1> QED BY <1>3, <1>4, <1>8 DEF Truth

\* Nothing of them changes while the disk stays and processes rest or die.
LEMMA RestsTrue ==
    ASSUME IInv, Truth, UNCHANGED <<root, dest, before>>,
           \A q \in Processes : \/ proc'[q].cmd = "none"
                                \/ proc'[q] = proc[q] /\ native'[q] = native[q]
    PROVE  Truth'
<1>1. IClaims'
  BY DEF Truth, IClaims, Claimed
<1>2. IFresh'
  BY DEF Truth, IFresh, Unused
<1>3. IGenuine'
  BY DEF Truth, IGenuine, Genuine
<1> QED BY <1>1, <1>2, <1>3 DEF Truth

\* A new build has a number no file has.
LEMMA BeginsTrue ==
    ASSUME IInv, Truth, NEW p \in Processes, NEW cmd \in Commands, Begin(p, cmd)
    PROVE  Truth'
<1> DEFINE r == [Idle EXCEPT !.pc = IF cmd = "clean" THEN "lock" ELSE "capture",
                             !.cmd = cmd, !.id = builds']
<1>1. /\ proc' = [proc EXCEPT ![p] = r] /\ UNCHANGED <<root, dest, before, native>>
      /\ cmd # "clean" => builds' = builds + 1
  BY DEF Begin, disk
<1>2. IProc /\ r.cmd = cmd /\ r.id = builds' /\ r.pc \in {"lock", "capture"}
  BY DEF IInv, Idle
<1> HIDE DEF r
<1>3. (\A q \in Processes \ {p} : proc'[q] = proc[q]) /\ proc'[p] = r
  BY <1>1, <1>2 DEF IProc
<1>4. "lock" \notin Phases /\ "capture" \notin Phases
  BY DEF Phases
<1>5. IClaims'
  <2>1. Claimed(proc[p], native[p])'
    BY <1>2, <1>3, <1>4 DEF Claimed
  <2> QED BY <1>1, <1>3, <2>1, StaysClaimed DEF Truth
<1>6. /\ builds \in Nat /\ \A q \in Processes : proc[q].id <= builds
      /\ (\A t \in Targets : dest[t].id <= builds)
      /\ (\A q \in Processes, t \in Targets : before[q][t].id <= builds)
  BY BoundAssumption DEF IInv, IBuilds, IHistory
<1>7. /\ \A q \in Processes : proc[q].id \in Int
      /\ \A t \in Targets : dest[t].id \in Int
      /\ \A q \in Processes, t \in Targets : before[q][t].id \in Int
  <2>1. \A c \in Content : c.id \in Int
    BY DEF Content
  <2>2. \A q \in Processes : proc[q].id \in Int
    BY <1>2 DEF IProc, Local
  <2> QED BY <2>1, <2>2 DEF IInv, IDisk, IHistory
<1>8. IFresh'
  <2>1. cmd = "passport" =>
          /\ \A q \in Processes \ {p} : proc'[q].id # r.id
          /\ Unused(dest', r.id) /\ \A q \in Processes : Unused(before'[q], r.id)
    BY <1>1, <1>2, <1>3, <1>6, <1>7 DEF Unused
  <2>2. ASSUME NEW q \in Processes, NEW u \in Processes, q # u,
               proc'[q].cmd = "passport", proc'[u].cmd = "passport"
        PROVE  proc'[q].id # proc'[u].id
    BY <1>2, <1>3, <2>1, <2>2 DEF Truth, IFresh
  <2>3. ASSUME NEW q \in Processes, proc'[q].cmd = "passport", proc'[q].pc \notin Over
        PROVE  /\ proc'[q].pc \notin Phases => Unused(dest', proc'[q].id)
               /\ \A u \in Processes : Unused(before'[u], proc'[q].id)
    <3>1. CASE q = p
      BY <1>2, <1>3, <2>1, <2>3, <3>1
    <3>2. CASE q # p
      BY <1>1, <1>3, <2>3, <3>2 DEF Truth, IFresh
    <3> QED BY <3>1, <3>2
  <2> QED BY <2>2, <2>3 DEF IFresh
<1>9. IGenuine'
  BY <1>1 DEF Truth, IGenuine, Genuine
<1> QED BY <1>5, <1>8, <1>9 DEF Truth

\* A passport names the base configuration its artifact was made against, for
\* any number of builds, processes and crashes, if all builds make passports
\* (an ordinary build does not copy what it hashes) and no removal of an
\* infobase stops half-way (infobase.rs prepare, manifest.rs write).
THEOREM PassportsAreTruthful ==
    ASSUME Commands \subseteq {"passport", "clean"}, "torn" \notin Faults
    PROVE  Spec => []PassportTruthful
<1>1. Init => Truth
  BY StartsTrue
<1>2. IInv /\ Truth /\ [Next]_vars => Truth'
  <2> SUFFICES ASSUME IInv, Truth, [Next]_vars PROVE Truth'
    OBVIOUS
  <2>1. ASSUME NEW p \in Processes, Work(p) PROVE Truth'
    BY <2>1, WorksClaimed, WorksFresh, WorksGenuine DEF Truth
  <2>2. ASSUME NEW p \in Processes, Crash(p) PROVE Truth'
    <3>1. /\ proc' = [proc EXCEPT ![p] = Idle] /\ native' = [native EXCEPT ![p] = "none"]
          /\ UNCHANGED <<root, dest, before>> /\ IProc /\ IChildren
      BY <2>2 DEF Crash, disk, history, IInv
    <3>2. \A q \in Processes : proc'[q].cmd = "none" \/ (proc'[q] = proc[q] /\ native'[q] = native[q])
      BY <3>1, Rests DEF IChildren
    <3> QED BY <3>1, <3>2, RestsTrue
  <2>3. ASSUME NEW p \in Processes, NEW cmd \in Commands, Begin(p, cmd) PROVE Truth'
    BY <2>3, BeginsTrue
  <2>4. CASE \/ \E p \in Processes : Signal(p) \/ OrphanEnters(p) \/ OrphanEnds(p)
             \/ EditBase \/ LetGo \/ (\E t \in Targets : Hold(t)) \/ UNCHANGED vars
    <3>1. UNCHANGED <<root, dest, before, proc, native>>
      BY <2>4 DEF Signal, OrphanEnters, OrphanEnds, EditBase, LetGo, Hold, vars, disk, children, history
    <3> QED BY <3>1, RestsTrue
  <2> QED BY <2>1, <2>2, <2>3, <2>4 DEF Next
<1>3. Truth => PassportTruthful
  BY DEF Truth, IGenuine, Genuine, PassportTruthful
<1> QED BY <1>1, <1>2, <1>3, Inductive, PTL DEF Spec
=============================================================================
