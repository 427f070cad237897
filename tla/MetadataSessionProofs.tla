------------------------ MODULE MetadataSessionProofs ------------------------
(***************************************************************************)
(* What MetadataSession promises, for any tree of objects, any contents,   *)
(* any size of the queue and of the cache and any number of edits.         *)
(*                                                                         *)
(* A change of a file that the session was not told of is never forgotten: *)
(* NothingForgotten is inductive once the packets, the flags and the state *)
(* of the watcher have their types (IShape), because every action that     *)
(* takes a change out of one place puts it, or the request for a refresh,  *)
(* into another.                                                           *)
(*                                                                         *)
(* What the session was told of, it does not answer from memory.  IKnown   *)
(* says why: whatever it remembers of a descriptor, it also remembers      *)
(* under a path, so that a notification finds it.  An expanded object is   *)
(* in the tree (Tree), complete properties are cached under an exposed     *)
(* path (Reached), a record of the index belongs to an object that has one *)
(* (Linked), a hash is known to the tree or to the index (Hashed).         *)
(***************************************************************************)
EXTENDS MetadataSession, TLAPS

-----------------------------------------------------------------------------
(* The way of a notification.                                               *)

Packet == [sequence : Nat, paths : SUBSET Owners]

\* What stands between a file and the session has its type.
IShape ==
    /\ server \in [refresh : BOOLEAN, file : Nat]
    /\ queue \in Seq(Packet)
    /\ lost \in BOOLEAN
    /\ client \in [unsent : SUBSET Owners, next : Nat,
                   watcher : {"watching", "stopped", "resumed"}]
    /\ untold \subseteq Owners

IInv == IShape /\ NothingForgotten

\* An invalidation succeeds or fails (invalidate, refresh_root).
LEMMA Answered ==
    ASSUME NEW s, NEW owners, NEW outcome \in Invalidated(s, owners)
    PROVE  outcome.ok \in BOOLEAN
<1>1. \E t : outcome \in RootRead(t) \cup {Outcome(TRUE, Nothing, t)}
  BY Zenon DEF Invalidated
<1>2. ASSUME NEW t, outcome \in RootRead(t)
      PROVE  \E text, u : outcome = Outcome(TRUE, text, u) \/ outcome = Outcome(FALSE, text, u)
  BY <1>2, Zenon DEF RootRead
<1>3. PICK text, u : outcome = Outcome(TRUE, text, u) \/ outcome = Outcome(FALSE, text, u)
  BY <1>1, <1>2, Zenon
<1>4. Outcome(TRUE, text, u).ok /\ Outcome(TRUE, text, u).ok \in BOOLEAN
  BY DEF Outcome
<1>5. ~Outcome(FALSE, text, u).ok /\ Outcome(FALSE, text, u).ok \in BOOLEAN
  BY DEF Outcome
<1> QED BY <1>3, <1>4, <1>5, Zenon

\* The session opens with nothing to tell (ProjectSession::open).
LEMMA Opens == Init => IInv
<1> SUFFICES ASSUME Init PROVE IInv
  OBVIOUS
<1>1. /\ server = [refresh |-> FALSE, file |-> 0] /\ queue = <<>> /\ lost = FALSE
      /\ client = [unsent |-> {}, next |-> 1, watcher |-> "watching"] /\ untold = {}
  BY Zenon DEF Init
<1>2. server \in [refresh : BOOLEAN, file : Nat] /\ queue \in Seq(Packet) /\ lost \in BOOLEAN
  <2>1. <<>> \in Seq(Packet)
    OBVIOUS
  <2>2. [refresh |-> FALSE, file |-> 0] \in [refresh : BOOLEAN, file : Nat]
    OBVIOUS
  <2> QED BY <1>1, <2>1, <2>2
<1>3. client \in [unsent : SUBSET Owners, next : Nat,
                  watcher : {"watching", "stopped", "resumed"}]
  BY <1>1
<1>4. NothingForgotten
  BY <1>1 DEF NothingForgotten
<1> QED BY <1>1, <1>2, <1>3, <1>4 DEF IInv, IShape

\* Requests other than a refresh, and the index, leave the way of a packet as
\* it is (children, properties, index, index_step).
LEMMA Asks ==
    ASSUME IInv,
           \/ \E o \in Owners : Children(o) \/ Properties(o) \/ IndexStep(o)
           \/ IndexControl
    PROVE  IInv'
<1>1. UNCHANGED <<server, queue, lost, client, untold>>
  BY DEF Children, Properties, IndexStep, IndexControl
<1> QED BY <1>1 DEF IInv, IShape, NothingForgotten

\* A refresh of the root makes up for everything, one of a branch for nothing
\* but the branch; only the first touches the packets and the watcher
\* (ide/metadata.rs refresh).
LEMMA Refreshes ==
    ASSUME IInv, NEW o \in Owners, NEW reset \in BOOLEAN, Refresh(o, reset)
    PROVE  IInv'
<1>1. PICK outcome \in Invalidated(session, IF o = Root THEN Everything ELSE {o}) :
          LET restarted == outcome.ok /\ reset
          IN  /\ server' = [server EXCEPT !.refresh = IF o = Root THEN ~outcome.ok ELSE @,
                                          !.file = IF restarted THEN 0 ELSE @]
              /\ queue' = IF restarted THEN <<>> ELSE queue
              /\ client' =
                    IF restarted THEN [unsent |-> {}, next |-> 1, watcher |-> "stopped"]
                    ELSE IF outcome.ok /\ o = Root /\ client.watcher = "resumed"
                    THEN [client EXCEPT !.watcher = "watching"]
                    ELSE client
  BY DEF Refresh
<1>2. outcome.ok \in BOOLEAN
  BY Answered
<1>3. /\ lost' = lost /\ (reset => o = Root)
      /\ untold' = IF o = Root THEN {} ELSE untold \ {o}
  BY DEF Refresh
<1>4. IShape'
  <2>1. server' \in [refresh : BOOLEAN, file : Nat]
    BY <1>1, <1>2 DEF IInv, IShape
  <2>2. queue' \in Seq(Packet)
    BY <1>1, <1>2 DEF IInv, IShape
  <2>3. client' \in [unsent : SUBSET Owners, next : Nat,
                     watcher : {"watching", "stopped", "resumed"}]
    BY <1>1, <1>2 DEF IInv, IShape
  <2> QED BY <1>3, <2>1, <2>2, <2>3 DEF IInv, IShape
<1>5. NothingForgotten'
  <2>1. CASE o = Root
    BY <1>3, <2>1 DEF NothingForgotten
  <2>2. CASE o # Root
    <3>1. queue' = queue /\ client' = client
      BY <1>1, <1>3, <2>2
    <3>2. server'.refresh = server.refresh
      BY <1>1, <2>2 DEF IInv, IShape
    <3> QED BY <1>3, <2>2, <3>1, <3>2 DEF IInv, NothingForgotten
  <2> QED BY <2>1, <2>2
<1> QED BY <1>4, <1>5 DEF IInv

\* A packet that comes in its turn is told, any other one asks for a refresh;
\* the packets behind it wait as before (files_changed).
LEMMA Tells ==
    ASSUME IInv, FilesChanged
    PROVE  IInv'
<1> DEFINE packet == Head(queue)
<1>1. /\ queue # <<>> /\ queue' = Tail(queue)
      /\ ~lost /\ lost' = lost /\ client' = client
  BY DEF FilesChanged, Idle
<1>2. packet \in Packet /\ Tail(queue) \in Seq(Packet)
  BY <1>1 DEF IInv, IShape
<1>3. CASE packet.sequence # server.file + 1 \/ ~Serving
  <2>1. /\ server' = [server EXCEPT !.file = packet.sequence, !.refresh = TRUE]
        /\ untold' = untold
    BY <1>3 DEF FilesChanged
  <2>2. server' \in [refresh : BOOLEAN, file : Nat] /\ server'.refresh
    BY <1>2, <2>1 DEF IInv, IShape, Packet
  <2> QED BY <1>1, <1>2, <2>1, <2>2 DEF IInv, IShape, NothingForgotten
<1>4. CASE ~(packet.sequence # server.file + 1 \/ ~Serving)
  <2>1. PICK owners : \E outcome \in Invalidated(session, owners) :
            server' = [server EXCEPT !.file = packet.sequence, !.refresh = ~outcome.ok]
    BY <1>4 DEF FilesChanged
  <2>2. untold' = untold \ packet.paths
    BY <1>4 DEF FilesChanged
  <2>3. server' \in [refresh : BOOLEAN, file : Nat]
    BY <1>2, <2>1, Answered DEF IInv, IShape, Packet
  <2>4. IShape'
    BY <1>1, <1>2, <2>2, <2>3 DEF IInv, IShape
  <2>5. ASSUME NEW o \in untold'
        PROVE  \/ o \in client'.unsent
               \/ \E k \in DOMAIN queue' : o \in queue'[k].paths
               \/ client'.watcher # "watching"
    <3>1. o \in untold /\ o \notin packet.paths /\ ~lost /\ ~server.refresh
      BY <1>1, <1>4, <2>2 DEF Serving
    <3>2. CASE \E k \in DOMAIN queue : o \in queue[k].paths
      <4>1. PICK k \in DOMAIN queue : o \in queue[k].paths
        BY <3>2
      <4>2. queue \in Seq(Packet) /\ k \in 1..Len(queue) /\ k # 1
        BY <1>1, <3>1, <4>1 DEF IInv, IShape
      <4>3. k - 1 \in DOMAIN Tail(queue) /\ Tail(queue)[k - 1] = queue[k]
        BY <1>1, <4>2
      <4> QED BY <1>1, <4>1, <4>3
    <3> QED BY <1>1, <3>1, <3>2 DEF IInv, NothingForgotten
  <2> QED BY <2>4, <2>5 DEF IInv, NothingForgotten
<1> QED BY <1>3, <1>4

\* A packet the queue refused asks for a refresh (file_overflow).
LEMMA Overflows ==
    ASSUME IInv, FileOverflow
    PROVE  IInv'
<1>1. /\ server' = [server EXCEPT !.refresh = TRUE]
      /\ lost' = FALSE /\ UNCHANGED <<queue, client, untold>>
  BY DEF FileOverflow
<1>2. server' \in [refresh : BOOLEAN, file : Nat] /\ server'.refresh
  BY <1>1 DEF IInv, IShape
<1> QED BY <1>1, <1>2 DEF IInv, IShape, NothingForgotten

\* A change is seen by the watcher, or happens while there is none.
LEMMA Edits ==
    ASSUME IInv, NEW o \in Owners, Edit(o)
    PROVE  IInv'
<1>1. /\ untold' = untold \cup {o}
      /\ client' = [client EXCEPT !.unsent = IF client.watcher = "stopped" THEN @ ELSE @ \cup {o}]
      /\ UNCHANGED <<server, queue, lost>>
  BY DEF Edit
<1>2. /\ client' \in [unsent : SUBSET Owners, next : Nat,
                      watcher : {"watching", "stopped", "resumed"}]
      /\ client'.watcher = client.watcher
      /\ client.watcher # "stopped" => client'.unsent = client.unsent \cup {o}
      /\ client.watcher = "stopped" => client'.unsent = client.unsent
  BY <1>1 DEF IInv, IShape
<1> QED BY <1>1, <1>2 DEF IInv, IShape, NothingForgotten

\* A packet goes from the watcher into the queue, or is noticed as lost
\* (enqueue).
LEMMA Sends ==
    ASSUME IInv, Send
    PROVE  IInv'
<1>1. PICK paths \in SUBSET client.unsent :
          /\ \/ queue' = Append(queue, [sequence |-> client.next, paths |-> paths]) /\ lost' = lost
             \/ lost' = TRUE /\ queue' = queue
          /\ client' = [client EXCEPT !.unsent = @ \ paths, !.next = @ + 1]
  BY DEF Send
<1>2. UNCHANGED <<server, untold>>
  BY DEF Send
<1> DEFINE packet == [sequence |-> client.next, paths |-> paths]
<1>3. packet \in Packet /\ packet.paths = paths
  BY DEF IInv, IShape, Packet
<1>4. /\ client' \in [unsent : SUBSET Owners, next : Nat,
                      watcher : {"watching", "stopped", "resumed"}]
      /\ client'.watcher = client.watcher /\ client'.unsent = client.unsent \ paths
  <2>1. client'.unsent = client.unsent \ paths
    BY <1>1 DEF IInv, IShape
  <2>2. client'.watcher = client.watcher
    BY <1>1 DEF IInv, IShape
  <2>3. client'.next = client.next + 1
    BY <1>1 DEF IInv, IShape
  <2>4. client' = [unsent |-> client'.unsent, next |-> client'.next, watcher |-> client'.watcher]
    BY <1>1 DEF IInv, IShape
  <2> QED BY <2>1, <2>2, <2>3, <2>4 DEF IInv, IShape
<1>5. CASE lost' = TRUE /\ queue' = queue
  BY <1>2, <1>4, <1>5 DEF IInv, IShape, NothingForgotten
<1>6. CASE queue' = Append(queue, packet) /\ lost' = lost
  <2>1. /\ queue' \in Seq(Packet) /\ Len(queue') = Len(queue) + 1
        /\ DOMAIN queue' = 1..(Len(queue) + 1) /\ DOMAIN queue = 1..Len(queue)
        /\ queue'[Len(queue) + 1] = packet
        /\ \A k \in DOMAIN queue : queue'[k] = queue[k]
        /\ Len(queue) \in Nat
    BY <1>3, <1>6 DEF IInv, IShape
  <2>2. IShape'
    BY <1>2, <1>4, <1>6, <2>1 DEF IInv, IShape
  <2>3. ASSUME NEW o \in untold'
        PROVE  \/ o \in client'.unsent
               \/ \E k \in DOMAIN queue' : o \in queue'[k].paths
               \/ lost' \/ server'.refresh
               \/ client'.watcher # "watching"
    <3>1. CASE o \in paths
      <4>1. Len(queue) + 1 \in DOMAIN queue'
        BY <2>1
      <4> QED BY <1>3, <2>1, <3>1, <4>1
    <3>2. CASE \E k \in DOMAIN queue : o \in queue[k].paths
      <4>1. PICK k \in DOMAIN queue : o \in queue[k].paths
        BY <3>2
      <4>2. k \in DOMAIN queue' /\ queue'[k] = queue[k]
        BY <2>1, <4>1
      <4> QED BY <4>1, <4>2
    <3> QED BY <1>2, <1>4, <1>6, <3>1, <3>2 DEF IInv, NothingForgotten
  <2> QED BY <2>2, <2>3 DEF IInv, NothingForgotten
<1> QED BY <1>1, <1>5, <1>6

\* The watcher that starts again owes a refresh of the root.
LEMMA Resumes ==
    ASSUME IInv, Resume
    PROVE  IInv'
<1>1. client' = [client EXCEPT !.watcher = "resumed"] /\ UNCHANGED <<server, queue, lost, untold>>
  BY DEF Resume
<1>2. /\ client' \in [unsent : SUBSET Owners, next : Nat,
                      watcher : {"watching", "stopped", "resumed"}]
      /\ client'.watcher = "resumed"
  BY <1>1 DEF IInv, IShape
<1> QED BY <1>1, <1>2 DEF IInv, IShape, NothingForgotten

\* Every step keeps the invariant.
LEMMA Step == IInv /\ [Next]_vars => IInv'
<1> SUFFICES ASSUME IInv, [Next]_vars PROVE IInv'
  OBVIOUS
<1>1. CASE UNCHANGED vars
  BY <1>1 DEF vars, IInv, IShape, NothingForgotten
<1>2. CASE Next
  BY <1>2, Asks, Refreshes, Tells, Overflows, Edits, Sends, Resumes DEF Next
<1> QED BY <1>1, <1>2

\* The packets, the flags and the watcher keep their types, and no change of a
\* file is forgotten on the way to the session.
THEOREM Inductive == Spec => []IInv
<1> QED BY Opens, Step, PTL DEF Spec

\* A change the session has not been told of is with the watcher, in the queue
\* or noticed as lost, or the project refuses to answer, or the client owes it a
\* refresh of the root, whatever the project and the bounds are (enqueue,
\* files_changed, file_overflow, refresh).
THEOREM NothingIsForgotten == Spec => []NothingForgotten
<1>1. IInv => NothingForgotten
  BY DEF IInv
<1> QED BY <1>1, Inductive, PTL

-----------------------------------------------------------------------------
(* The tree of objects.                                                     *)

\* What is above an object, without recursion: in every set that holds the object
\* that declares it and is closed under declarers.
Closure(o) == {x \in Owners : \A S \in SUBSET Owners :
                 (o # Root => Parent[o] \in S) /\ (\A y \in S \ {Root} : Parent[y] \in S) => x \in S}
\* The recursive definition of what is above an object has a solution.
LEMMA AboveDef == Above = [o \in Owners |-> IF o = Root THEN {} ELSE {Parent[o]} \cup Above[Parent[o]]]
<1> DEFINE F == [o \in Owners |-> Closure(o)]
<1> DEFINE G(f) == [o \in Owners |-> IF o = Root THEN {} ELSE {Parent[o]} \cup f[Parent[o]]]
<1>1. ASSUME NEW o \in Owners
      PROVE  Closure(o) = IF o = Root THEN {} ELSE {Parent[o]} \cup Closure(Parent[o])
  <2>1. CASE o = Root
    <3>1. \A y \in {} \ {Root} : Parent[y] \in {}
      OBVIOUS
    <3> QED BY <2>1, <3>1 DEF Closure
  <2>2. CASE o # Root
    <3>1. Parent[o] \in Owners
      BY <2>2, SessionAssumption
    <3>2. ASSUME NEW x \in Closure(o), x # Parent[o] PROVE x \in Closure(Parent[o])
      <4>1. SUFFICES ASSUME NEW S \in SUBSET Owners, Parent[o] # Root => Parent[Parent[o]] \in S,
                            \A y \in S \ {Root} : Parent[y] \in S
                     PROVE  x \in S
        BY <3>1, <3>2 DEF Closure
      <4>2. \A y \in (S \cup {Parent[o]}) \ {Root} : Parent[y] \in S \cup {Parent[o]}
        BY <4>1
      <4>3. S \cup {Parent[o]} \in SUBSET Owners /\ Parent[o] \in S \cup {Parent[o]}
        BY <3>1
      <4>4. x \in S \cup {Parent[o]}
        BY <2>2, <3>2, <4>2, <4>3, Zenon DEF Closure
      <4> QED BY <3>2, <4>4
    <3>3. Parent[o] \in Closure(o)
      BY <2>2, <3>1 DEF Closure
    <3>4. ASSUME NEW x \in Closure(Parent[o]) PROVE x \in Closure(o)
      BY <2>2, <3>1 DEF Closure
    <3> QED BY <2>2, <3>2, <3>3, <3>4
  <2> QED BY <2>1, <2>2
<1>2. ASSUME NEW o \in Owners, o # Root PROVE F[Parent[o]] = Closure(Parent[o])
  BY <1>2, SessionAssumption
<1>3. F = G(F)
  BY <1>1, <1>2, Zenon
<1>4. \E f : f = G(f)
  BY <1>3
<1>5. Above = CHOOSE f : f = G(f)
  BY DEF Above
<1>6. Above = G(Above)
  BY <1>4, <1>5, Zenon
<1> QED BY <1>6

\* What is above an object is what declares it, and what is above that.
LEMMA AboveSteps ==
    /\ Above[Root] = {}
    /\ \A o \in Owners \ {Root} : Parent[o] \in Owners /\ Above[o] = {Parent[o]} \cup Above[Parent[o]]
<1>1. Root \in Owners /\ \A o \in Owners \ {Root} : Parent[o] \in Owners
  BY SessionAssumption
<1> QED BY <1>1, AboveDef

\* What is above is an object, and so is what is above that.
LEMMA AboveCloses ==
    \A o \in Owners : Above[o] \subseteq Owners /\ \A x \in Above[o] : Above[x] \subseteq Above[o]
<1> DEFINE S == {o \in Owners : Above[o] \subseteq Owners /\ \A x \in Above[o] : Above[x] \subseteq Above[o]}
<1>1. S \in SUBSET Owners /\ Root \in S
  BY AboveSteps, SessionAssumption
<1>2. ASSUME NEW o \in Owners \ {Root}, Parent[o] \in S PROVE o \in S
  <2>1. Above[o] = {Parent[o]} \cup Above[Parent[o]] /\ Parent[o] \in Owners
    BY AboveSteps
  <2>2. \A x \in Above[o] : Above[x] \subseteq Above[o]
    BY <1>2, <2>1
  <2> QED BY <1>2, <2>1, <2>2
<1>3. S = Owners
  BY <1>1, <1>2, TreeAssumption, Zenon
<1> QED BY <1>3

\* Nothing is above itself, and the root is above everything else.
LEMMA AboveOrders ==
    \A o \in Owners : o \notin Above[o] /\ (o # Root => Root \in Above[o])
<1> DEFINE S == {o \in Owners : o \notin Above[o] /\ (o # Root => Root \in Above[o])}
<1>1. S \in SUBSET Owners /\ Root \in S
  BY AboveSteps, SessionAssumption
<1>2. ASSUME NEW o \in Owners \ {Root}, Parent[o] \in S PROVE o \in S
  <2>1. Above[o] = {Parent[o]} \cup Above[Parent[o]] /\ Parent[o] \in Owners
    BY AboveSteps
  <2>2. o \notin Above[o]
    BY <1>2, <2>1, AboveCloses
  <2>3. Root \in Above[o]
    BY <1>2, <2>1
  <2> QED BY <2>2, <2>3
<1>3. S = Owners
  BY <1>1, <1>2, TreeAssumption, Zenon
<1> QED BY <1>3

\* A branch is entered at its top only.
LEMMA Branches ==
    ASSUME NEW r \in Owners
    PROVE  /\ Branch(r) \subseteq Owners /\ r \in Branch(r)
           /\ r # Root => Root \notin Branch(r)
           /\ \A x \in Owners \ {Root} : Parent[x] \in Branch(r) => x \in Branch(r) \ {r}
           /\ \A x \in Branch(r) \ {r} : x # Root /\ Parent[x] \in Branch(r)
<1>1. Branch(r) \subseteq Owners /\ r \in Branch(r) /\ (r # Root => Root \notin Branch(r))
  BY AboveSteps, SessionAssumption DEF Branch
<1>2. ASSUME NEW x \in Owners \ {Root}, Parent[x] \in Branch(r)
      PROVE  x \in Branch(r) \ {r}
  <2>1. r \in Above[x]
    BY <1>2, AboveSteps DEF Branch
  <2> QED BY <2>1, AboveOrders DEF Branch
<1>3. ASSUME NEW x \in Branch(r) \ {r}
      PROVE  x # Root /\ Parent[x] \in Branch(r)
  BY <1>3, AboveSteps DEF Branch
<1> QED BY <1>1, <1>2, <1>3

\* Neither the object that declares a branch is in it nor what is above that.
LEMMA Outside ==
    ASSUME NEW o \in Owners, NEW r \in Declared(o)
    PROVE  /\ r \in Owners /\ r # Root /\ Parent[r] = o /\ o \notin Branch(r)
           /\ o # Root => Parent[o] \notin Branch(r)
           /\ \A x \in Branch(r) \cap Declared(o) : x = r
<1>1. r \in Owners /\ r # Root /\ Parent[r] = o
  BY DEF Declared
<1>2. o \notin Branch(r)
  <2>1. o \in Above[r]
    BY <1>1, AboveSteps
  <2> QED BY <1>1, <2>1, AboveOrders, AboveCloses DEF Branch
<1>3. o # Root => Parent[o] \notin Branch(r)
  BY <1>1, <1>2, Branches
<1>4. ASSUME NEW x \in Branch(r) \cap Declared(o) PROVE x = r
  BY <1>1, <1>2, <1>4, Branches DEF Declared
<1> QED BY <1>1, <1>2, <1>3, <1>4

-----------------------------------------------------------------------------
(* What the session remembers.                                              *)

Sessions ==
    [expanded : SUBSET Owners, objects : SUBSET Owners, paths : SUBSET Owners,
     shown : [Owners -> Parsed \cup {Nothing}],
     cache : [Owners -> [text : Parsed, full : BOOLEAN] \cup {Nothing}],
     fingerprints : [Owners -> Parsed \cup {Nothing}]]

SourceShape ==
    /\ DOMAIN disk = Owners
    /\ \A o \in Owners : disk[o] \in Contents[o]

\* What is exposed is declared by an expanded object.
Tree(s) ==
    /\ Root \in s.objects /\ s.expanded \subseteq s.objects
    /\ s.expanded \subseteq s.paths /\ s.paths \subseteq s.objects
    /\ \A o \in s.expanded : s.shown[o] \in Parsed /\ s.shown[o].refs \subseteq Declared(o)
    /\ \A x \in s.objects \ {Root} : Parent[x] \in s.expanded /\ x \in s.shown[Parent[x]].refs
    /\ \A o \in s.expanded : s.shown[o].refs \subseteq s.objects

\* The hash of a cached descriptor is known.
Matched(s) == \A o \in Owners : s.cache[o] # Nothing => s.fingerprints[o] = s.cache[o].text

\* Complete properties are cached only under a path somebody can refresh.
Reached(s) == \A o \in Owners : Hit(s, o, TRUE) => o \in s.paths

Whole(s) == Root \in s.expanded /\ s.objects \subseteq s.paths

Sound(s) == s \in Sessions /\ Tree(s) /\ Matched(s) /\ Reached(s)

SameTree(s, t) ==
    /\ t.expanded = s.expanded /\ t.objects = s.objects
    /\ t.paths = s.paths /\ t.shown = s.shown

\* Reading changes at most what is cached and hashed of the object itself.
Reads(s, t, o, full) ==
    /\ t \in Sessions /\ SameTree(s, t) /\ Matched(t)
    /\ \A x \in Owners : \/ t.cache[x] \in {Nothing, s.cache[x]}
                         \/ x = o /\ t.cache[x] = [text |-> disk[o], full |-> full]
    /\ \A x \in Owners \ {o} : t.fingerprints[x] = s.fingerprints[x]

\* A descriptor that can be read names objects of its own.
LEMMA Descriptors ==
    ASSUME SourceShape, NEW o \in Owners, Readable(o)
    PROVE  disk[o] \in Parsed /\ disk[o] # Nothing /\ disk[o] # Missing
           /\ disk[o].refs \subseteq Declared(o)
<1> QED BY ContentsAssumption, NothingAssumption DEF SourceShape, Readable, Parsed

\* Forgetting leaves the tree.
LEMMA Forgetting ==
    ASSUME NEW s \in Sessions, NEW gone
    PROVE  /\ Forget(s, gone) \in Sessions /\ SameTree(s, Forget(s, gone))
           /\ \A x \in Owners :
               /\ Forget(s, gone).cache[x] = IF x \in gone THEN Nothing ELSE s.cache[x]
               /\ Forget(s, gone).fingerprints[x] = IF x \in gone THEN Nothing ELSE s.fingerprints[x]
           /\ Matched(s) => Matched(Forget(s, gone))
<1> DEFINE cache == [x \in Owners |-> IF x \in gone THEN Nothing ELSE s.cache[x]]
           prints == [x \in Owners |-> IF x \in gone THEN Nothing ELSE s.fingerprints[x]]
<1>1. /\ cache \in [Owners -> [text : Parsed, full : BOOLEAN] \cup {Nothing}]
      /\ prints \in [Owners -> Parsed \cup {Nothing}]
  BY DEF Sessions
<1>2. Forget(s, gone) = [s EXCEPT !.cache = cache, !.fingerprints = prints]
  BY DEF Forget
<1> HIDE DEF cache, prints
<1>3. Forget(s, gone).cache = cache /\ Forget(s, gone).fingerprints = prints
  BY <1>2 DEF Sessions
<1>4. SameTree(s, Forget(s, gone))
  BY <1>2 DEF Sessions, SameTree
<1>5. Forget(s, gone) \in Sessions
  BY <1>1, <1>2 DEF Sessions
<1>6. \A x \in Owners :
          /\ cache[x] = IF x \in gone THEN Nothing ELSE s.cache[x]
          /\ prints[x] = IF x \in gone THEN Nothing ELSE s.fingerprints[x]
  BY DEF cache, prints
<1> QED BY <1>3, <1>4, <1>5, <1>6 DEF Matched

\* A sound session stays sound when it forgets.
LEMMA ForgettingSound ==
    ASSUME NEW s, Sound(s), NEW gone
    PROVE  Sound(Forget(s, gone)) /\ (Whole(s) => Whole(Forget(s, gone)))
<1>1. s \in Sessions
  BY DEF Sound
<1>2. Tree(Forget(s, gone)) /\ (Whole(s) => Whole(Forget(s, gone)))
  BY <1>1, Forgetting DEF Sound, SameTree, Tree, Whole
<1>3. Reached(Forget(s, gone))
  BY <1>1, Forgetting DEF Sound, SameTree, Reached, Hit
<1> QED BY <1>1, <1>2, <1>3, Forgetting DEF Sound

\* Making room forgets cached descriptors and no hash.
LEMMA Trimming ==
    ASSUME NEW s \in Sessions, Matched(s), NEW o \in Owners, NEW t \in Trimmed(s, o)
    PROVE  /\ t \in Sessions /\ SameTree(s, t) /\ Matched(t)
           /\ \A x \in Owners : t.cache[x] \in {Nothing, s.cache[x]}
           /\ t.fingerprints = s.fingerprints
<1>1. PICK old : t = [s EXCEPT !.cache = [x \in Owners |-> IF x \in old \cup {o} THEN @[x] ELSE Nothing]]
  BY Zenon DEF Trimmed
<1> DEFINE cache == [x \in Owners |-> IF x \in old \cup {o} THEN s.cache[x] ELSE Nothing]
<1>2. cache \in [Owners -> [text : Parsed, full : BOOLEAN] \cup {Nothing}]
  BY DEF Sessions
<1>3. t = [s EXCEPT !.cache = cache]
  BY <1>1 DEF Sessions
<1>4. \A x \in Owners : cache[x] \in {Nothing, s.cache[x]}
  OBVIOUS
<1> HIDE DEF cache
<1>5. t \in Sessions /\ SameTree(s, t) /\ t.cache = cache /\ t.fingerprints = s.fingerprints
  BY <1>2, <1>3 DEF Sessions, SameTree
<1> QED BY <1>4, <1>5 DEF Matched

\* A descriptor is admitted with its hash.
LEMMA Admitting ==
    ASSUME SourceShape, NEW s \in Sessions, Matched(s), NEW o \in Owners, NEW full \in BOOLEAN,
           Readable(o)
    PROVE  LET t == Admitted(s, o, full)
           IN  /\ t \in Sessions /\ SameTree(s, t) /\ Matched(t)
               /\ t.cache = [s.cache EXCEPT ![o] = [text |-> disk[o], full |-> full]]
               /\ t.fingerprints = [s.fingerprints EXCEPT ![o] = disk[o]]
<1> DEFINE cache == [s.cache EXCEPT ![o] = [text |-> disk[o], full |-> full]]
           prints == [s.fingerprints EXCEPT ![o] = disk[o]]
           t == Admitted(s, o, full)
<1>1. disk[o] \in Parsed
  BY Descriptors
<1>2. /\ cache \in [Owners -> [text : Parsed, full : BOOLEAN] \cup {Nothing}]
      /\ prints \in [Owners -> Parsed \cup {Nothing}]
  BY <1>1 DEF Sessions
<1>3. t = [s EXCEPT !.cache = cache, !.fingerprints = prints]
  BY DEF Admitted, Sessions
<1>4. /\ cache[o] = [text |-> disk[o], full |-> full] /\ prints[o] = disk[o]
      /\ \A x \in Owners \ {o} : cache[x] = s.cache[x] /\ prints[x] = s.fingerprints[x]
  BY DEF Sessions
<1> HIDE DEF cache, prints, t
<1>5. t \in Sessions /\ SameTree(s, t) /\ t.cache = cache /\ t.fingerprints = prints
  BY <1>2, <1>3 DEF Sessions, SameTree
<1>6. Matched(t)
  BY <1>4, <1>5 DEF Matched
<1> QED BY <1>5, <1>6 DEF cache, prints, t

\* What a call to read a descriptor returns and leaves.
LEMMA Loading ==
    ASSUME SourceShape, NEW s \in Sessions, Matched(s), NEW o \in Owners, NEW full \in BOOLEAN,
           NEW outcome \in Loads(s, o, full)
    PROVE  /\ outcome.ok \in BOOLEAN /\ Reads(s, outcome.session, o, full)
           /\ outcome.ok => /\ outcome.text = outcome.session.fingerprints[o]
                            /\ outcome.text \in Parsed
                            /\ outcome.text \in {s.fingerprints[o], disk[o]}
           /\ ~outcome.ok => outcome.session = s
           /\ ~outcome.ok /\ o \notin untold /\ s.fingerprints[o] \in {Nothing, disk[o]}
                => ~Readable(o)
<1>1. Reads(s, s, o, full)
  BY DEF Reads, SameTree
<1>2. CASE Hit(s, o, full)
  <2>1. outcome = Outcome(TRUE, s.cache[o].text, s)
    BY <1>2 DEF Loads
  <2>2. s.cache[o] # Nothing /\ s.cache[o].text \in Parsed
    BY <1>2 DEF Hit, Sessions
  <2>3. outcome.ok = TRUE /\ outcome.text = s.cache[o].text /\ outcome.session = s
    BY <2>1 DEF Outcome
  <2>4. s.cache[o].text = s.fingerprints[o]
    BY <2>2 DEF Matched
  <2> QED BY <1>1, <2>2, <2>3, <2>4
<1>3. CASE ~Hit(s, o, full)
  <2>1. \/ /\ Readable(o) /\ s.fingerprints[o] \in {Nothing, disk[o]}
           /\ \E t \in Trimmed(Admitted(s, o, full), o) : outcome = Outcome(TRUE, disk[o], t)
        \/ /\ ~(Readable(o) /\ s.fingerprints[o] \in {Nothing, disk[o]}) \/ o \in untold
           /\ outcome = Outcome(FALSE, Nothing, s)
    BY <1>3, Zenon DEF Loads
  <2>2. CASE /\ Readable(o) /\ s.fingerprints[o] \in {Nothing, disk[o]}
             /\ \E t \in Trimmed(Admitted(s, o, full), o) : outcome = Outcome(TRUE, disk[o], t)
    <3>1. PICK t \in Trimmed(Admitted(s, o, full), o) : outcome = Outcome(TRUE, disk[o], t)
      BY <2>2
    <3> DEFINE a == Admitted(s, o, full)
    <3>2. /\ a \in Sessions /\ SameTree(s, a) /\ Matched(a)
          /\ a.cache = [s.cache EXCEPT ![o] = [text |-> disk[o], full |-> full]]
          /\ a.fingerprints = [s.fingerprints EXCEPT ![o] = disk[o]]
      BY <2>2, Admitting
    <3> HIDE DEF a
    <3>3. /\ t \in Sessions /\ SameTree(a, t) /\ Matched(t)
          /\ \A x \in Owners : t.cache[x] \in {Nothing, a.cache[x]}
          /\ t.fingerprints = a.fingerprints
      BY <3>1, <3>2, Trimming DEF a
    <3>4. /\ a.cache[o] = [text |-> disk[o], full |-> full] /\ a.fingerprints[o] = disk[o]
          /\ \A x \in Owners \ {o} : a.cache[x] = s.cache[x] /\ a.fingerprints[x] = s.fingerprints[x]
      BY <3>2 DEF Sessions
    <3>5. Reads(s, t, o, full)
      BY <3>2, <3>3, <3>4 DEF Reads, SameTree
    <3>6. disk[o] \in Parsed
      BY <2>2 DEF Readable
    <3>7. outcome.ok = TRUE /\ outcome.text = disk[o] /\ outcome.session = t
      BY <3>1 DEF Outcome
    <3> QED BY <3>3, <3>4, <3>5, <3>6, <3>7
  <2>3. CASE /\ ~(Readable(o) /\ s.fingerprints[o] \in {Nothing, disk[o]}) \/ o \in untold
             /\ outcome = Outcome(FALSE, Nothing, s)
    <3>1. outcome.ok = FALSE /\ outcome.session = s
      BY <2>3 DEF Outcome
    <3> QED BY <1>1, <2>3, <3>1
  <2> QED BY <2>1, <2>2, <2>3
<1> QED BY <1>2, <1>3

\* What a verified reading returns and leaves: the text the file has.
LEMMA Preparing ==
    ASSUME SourceShape, NEW s \in Sessions, Matched(s), NEW o \in Owners,
           NEW outcome \in Prepared(s, o)
    PROVE  /\ outcome.ok \in BOOLEAN /\ Reads(s, outcome.session, o, FALSE)
           /\ outcome.session.fingerprints[o] \in {Nothing, disk[o], s.fingerprints[o]}
           /\ outcome.ok => /\ outcome.text = disk[o] /\ Readable(o)
                            /\ outcome.session.fingerprints[o] = disk[o]
           /\ ~outcome.ok => outcome.session.fingerprints[o] \in {Nothing, s.fingerprints[o]}
           /\ ~outcome.ok /\ o \notin untold /\ s.fingerprints[o] \in {Nothing, disk[o]}
                => ~Readable(o)
<1>1. PICK load \in Loads(s, o, FALSE) : outcome \in Verified(load, o)
  BY Zenon DEF Prepared
<1> DEFINE t == load.session
           f == Forget(t, {o})
<1>2. /\ load.ok \in BOOLEAN /\ Reads(s, t, o, FALSE)
      /\ load.ok => /\ load.text = t.fingerprints[o] /\ load.text \in Parsed
                    /\ load.text \in {s.fingerprints[o], disk[o]}
      /\ ~load.ok => t = s
      /\ ~load.ok /\ o \notin untold /\ s.fingerprints[o] \in {Nothing, disk[o]} => ~Readable(o)
  BY Loading
<1>3. \/ ~load.ok /\ outcome = load
      \/ load.ok /\ disk[o] = Missing /\ outcome = Outcome(FALSE, Nothing, t)
      \/ load.ok /\ disk[o] # Missing /\ disk[o] = t.fingerprints[o] /\ outcome = load
      \/ /\ load.ok /\ disk[o] # Missing /\ outcome = Outcome(FALSE, Nothing, f)
         /\ disk[o] # t.fingerprints[o] \/ o \in untold
  BY <1>1, Zenon DEF Verified
<1>4. /\ f \in Sessions /\ SameTree(t, f) /\ Matched(f) /\ f.fingerprints[o] = Nothing
      /\ \A x \in Owners : f.cache[x] \in {Nothing, t.cache[x]}
      /\ \A x \in Owners \ {o} : f.fingerprints[x] = t.fingerprints[x]
  BY <1>2, Forgetting DEF Reads
<1> HIDE DEF t, f
<1>5. CASE ~load.ok /\ outcome = load
  BY <1>2, <1>5 DEF t
<1>6. CASE load.ok /\ disk[o] = Missing /\ outcome = Outcome(FALSE, Nothing, t)
  <2>1. ~Readable(o)
    BY <1>6, Descriptors
  <2>2. t.fingerprints[o] = s.fingerprints[o]
    BY <1>2, <1>6, <2>1 DEF Readable
  <2>3. outcome.ok = FALSE /\ outcome.session = t
    BY <1>6 DEF Outcome
  <2> QED BY <1>2, <2>1, <2>2, <2>3
<1>7. CASE load.ok /\ disk[o] # Missing /\ disk[o] = t.fingerprints[o] /\ outcome = load
  BY <1>2, <1>7 DEF t, Readable
<1>8. CASE /\ load.ok /\ disk[o] # Missing /\ outcome = Outcome(FALSE, Nothing, f)
           /\ disk[o] # t.fingerprints[o] \/ o \in untold
  <2>1. Reads(s, f, o, FALSE)
    BY <1>2, <1>4 DEF Reads, SameTree
  <2>2. s.fingerprints[o] \in {Nothing, disk[o]} => o \in untold
    <3>1. load.text # Nothing
      BY <1>2, <1>8, NothingAssumption
    <3> QED BY <1>2, <1>8, <3>1
  <2>3. outcome.ok = FALSE /\ outcome.session = f
    BY <1>8 DEF Outcome
  <2> QED BY <1>4, <2>1, <2>2, <2>3
<1> QED BY <1>3, <1>5, <1>6, <1>7, <1>8

\* The exposed descendants of the objects that are collapsed.
Below(s, owners) == (UNION {Branch(o) \ {o} : o \in owners}) \cap s.objects

\* An object is below those that are above it.
LEMMA Descendants ==
    ASSUME NEW s \in Sessions, NEW owners
    PROVE  /\ Below(s, owners) = {x \in s.objects : owners \cap Above[x] # {}}
           /\ Root \notin Below(s, owners)
           /\ \A x \in s.objects \ {Root} :
                x \in Below(s, owners) <=> \/ Parent[x] \in owners
                                           \/ owners \cap Above[Parent[x]] # {}
<1>1. s.objects \subseteq Owners
  BY DEF Sessions
<1>2. \A x \in Owners : \A o : x \in Branch(o) \ {o} <=> o \in Above[x]
  BY AboveOrders DEF Branch
<1>3. Below(s, owners) = {x \in s.objects : owners \cap Above[x] # {}}
  <2> DEFINE parts == {Branch(o) \ {o} : o \in owners}
  <2>1. ASSUME NEW x \in UNION parts PROVE \E o \in owners : x \in Branch(o) \ {o}
    BY <2>1, Zenon
  <2>2. ASSUME NEW o \in owners, NEW x \in Branch(o) \ {o} PROVE x \in UNION parts
    <3>1. Branch(o) \ {o} \in parts
      BY Zenon
    <3> QED BY <2>2, <3>1, Zenon
  <2>3. Below(s, owners) = (UNION parts) \cap s.objects
    BY Zenon DEF Below
  <2> HIDE DEF parts
  <2>4. ASSUME NEW x \in Below(s, owners) PROVE x \in s.objects /\ owners \cap Above[x] # {}
    <3>1. x \in s.objects /\ \E o \in owners : x \in Branch(o) \ {o}
      BY <2>1, <2>3, Zenon
    <3> QED BY <1>1, <1>2, <3>1
  <2>5. ASSUME NEW x \in s.objects, owners \cap Above[x] # {} PROVE x \in Below(s, owners)
    <3>1. PICK o \in owners : o \in Above[x]
      BY <2>5
    <3>2. x \in Branch(o) \ {o}
      BY <1>1, <1>2, <3>1
    <3> QED BY <2>2, <2>3, <3>2, Zenon
  <2> QED BY <2>4, <2>5
<1>4. Root \notin Below(s, owners)
  BY <1>3, AboveSteps
<1>5. \A x \in s.objects \ {Root} :
          x \in Below(s, owners) <=> \/ Parent[x] \in owners
                                     \/ owners \cap Above[Parent[x]] # {}
  BY <1>1, <1>3, AboveSteps
<1> QED BY <1>3, <1>4, <1>5

\* What collapsing changes.
LEMMA Collapsing ==
    ASSUME NEW s \in Sessions, NEW owners
    PROVE  LET t == Collapsed(s, owners)
               below == Below(s, owners)
           IN  /\ t \in Sessions
               /\ t.expanded = s.expanded \ (owners \cup below)
               /\ t.objects = s.objects \ below
               /\ t.paths = s.paths \ (below \cup (owners \ s.objects))
               /\ \A x \in Owners :
                   /\ t.shown[x] = IF x \in owners \cup below THEN Nothing ELSE s.shown[x]
                   /\ t.cache[x] = IF x \in s.paths \cap (owners \cup below)
                                   THEN Nothing ELSE s.cache[x]
                   /\ t.fingerprints[x] = IF x \in s.paths \cap (owners \cup below)
                                          THEN Nothing ELSE s.fingerprints[x]
               /\ Matched(s) => Matched(t)
<1> DEFINE t == Collapsed(s, owners)
           below == Below(s, owners)
           closed == Forget(s, s.paths \cap (owners \cup below))
           shown == [x \in Owners |-> IF x \in owners \cup below THEN Nothing ELSE s.shown[x]]
<1>1. /\ closed \in Sessions /\ SameTree(s, closed)
      /\ \A x \in Owners :
          /\ closed.cache[x] = IF x \in s.paths \cap (owners \cup below)
                               THEN Nothing ELSE s.cache[x]
          /\ closed.fingerprints[x] = IF x \in s.paths \cap (owners \cup below)
                                      THEN Nothing ELSE s.fingerprints[x]
      /\ Matched(s) => Matched(closed)
  BY Forgetting
<1>2. t = [closed EXCEPT !.expanded = @ \ (owners \cup below),
                         !.shown = [x \in Owners |-> IF x \in owners \cup below THEN Nothing ELSE @[x]],
                         !.objects = @ \ below,
                         !.paths = @ \ (below \cup (owners \ s.objects))]
  BY DEF Collapsed, Below
<1> HIDE DEF closed, below, t
<1>3. t = [closed EXCEPT !.expanded = s.expanded \ (owners \cup below),
                         !.shown = shown,
                         !.objects = s.objects \ below,
                         !.paths = s.paths \ (below \cup (owners \ s.objects))]
  BY <1>1, <1>2 DEF Sessions, SameTree
<1>4. shown \in [Owners -> Parsed \cup {Nothing}]
  BY DEF Sessions
<1>5. \A x \in Owners : shown[x] = IF x \in owners \cup below THEN Nothing ELSE s.shown[x]
  OBVIOUS
<1> HIDE DEF shown
<1>6. /\ t.expanded = s.expanded \ (owners \cup below)
      /\ t.shown = shown
      /\ t.objects = s.objects \ below
      /\ t.paths = s.paths \ (below \cup (owners \ s.objects))
  BY <1>1, <1>3 DEF Sessions
<1>7. t.cache = closed.cache /\ t.fingerprints = closed.fingerprints
  BY <1>1, <1>3 DEF Sessions
<1>8. t \in Sessions
  <2>1. /\ s.expanded \ (owners \cup below) \in SUBSET Owners /\ s.objects \ below \in SUBSET Owners
        /\ s.paths \ (below \cup (owners \ s.objects)) \in SUBSET Owners
    BY DEF Sessions
  <2> QED BY <1>1, <1>3, <1>4, <2>1 DEF Sessions
<1>9. Matched(s) => Matched(t)
  BY <1>1, <1>7 DEF Matched
<1> QED BY <1>1, <1>5, <1>6, <1>7, <1>8, <1>9 DEF t, below

\* Collapsing keeps the tree sound, and whole unless the root is collapsed.
LEMMA CollapsingSound ==
    ASSUME NEW s, Sound(s), NEW owners
    PROVE  LET t == Collapsed(s, owners)
           IN  /\ Sound(t)
               /\ Whole(s) /\ Root \notin owners => Whole(t)
               /\ t.expanded \subseteq s.expanded \ owners
               /\ \A x \in t.expanded : t.shown[x] = s.shown[x]
               /\ \A x \in Owners : t.cache[x] \in {Nothing, s.cache[x]}
               /\ \A x \in s.paths \cap owners : t.cache[x] = Nothing
               /\ \A x \in Owners : t.fingerprints[x] # Nothing =>
                      /\ t.fingerprints[x] = s.fingerprints[x]
                      /\ x \in s.paths => x \in t.paths
<1> DEFINE t == Collapsed(s, owners)
           below == Below(s, owners)
<1>0. s \in Sessions /\ Tree(s)
  BY DEF Sound
<1>1. /\ t \in Sessions
      /\ t.expanded = s.expanded \ (owners \cup below)
      /\ t.objects = s.objects \ below
      /\ t.paths = s.paths \ (below \cup (owners \ s.objects))
      /\ \A x \in Owners :
          /\ t.shown[x] = IF x \in owners \cup below THEN Nothing ELSE s.shown[x]
          /\ t.cache[x] = IF x \in s.paths \cap (owners \cup below) THEN Nothing ELSE s.cache[x]
          /\ t.fingerprints[x] = IF x \in s.paths \cap (owners \cup below)
                                 THEN Nothing ELSE s.fingerprints[x]
      /\ Matched(t)
  BY Collapsing DEF Sound
<1>2. /\ Root \notin below /\ below \subseteq s.objects
      /\ \A x \in s.objects :
           x \in below <=> owners \cap Above[x] # {}
      /\ \A x \in s.objects \ {Root} :
           x \in below <=> Parent[x] \in owners \/ owners \cap Above[Parent[x]] # {}
  BY <1>0, Descendants
<1>3. s.objects \subseteq Owners /\ s.expanded \subseteq Owners
  BY <1>0 DEF Sessions
<1> HIDE DEF t, below
<1>4. \A x \in t.expanded : x \in s.expanded /\ x \notin owners /\ t.shown[x] = s.shown[x]
  BY <1>1, <1>3
<1>5. Tree(t)
  <2>1. /\ Root \in t.objects /\ t.expanded \subseteq t.objects
        /\ t.expanded \subseteq t.paths /\ t.paths \subseteq t.objects
    BY <1>0, <1>1, <1>2 DEF Tree
  <2>2. \A o \in t.expanded : t.shown[o] \in Parsed /\ t.shown[o].refs \subseteq Declared(o)
    BY <1>0, <1>4 DEF Tree
  <2>3. ASSUME NEW x \in t.objects \ {Root}
        PROVE  Parent[x] \in t.expanded /\ x \in t.shown[Parent[x]].refs
    <3>1. x \in s.objects /\ x \notin below /\ Parent[x] \in s.expanded
          /\ x \in s.shown[Parent[x]].refs
      BY <1>0, <1>1 DEF Tree
    <3>2. Parent[x] \notin owners /\ Parent[x] \notin below
      BY <1>0, <1>2, <3>1 DEF Tree
    <3> QED BY <1>1, <1>4, <3>1, <3>2
  <2>4. ASSUME NEW o \in t.expanded, NEW y \in t.shown[o].refs PROVE y \in t.objects
    <3>1. o \in s.expanded /\ o \in s.objects /\ o \notin owners /\ o \notin below
      BY <1>0, <1>1, <1>4 DEF Tree
    <3>2. y \in s.objects /\ y \in Declared(o)
      BY <1>0, <1>4, <3>1 DEF Tree
    <3>3. y # Root /\ Parent[y] = o
      BY <3>2 DEF Declared
    <3> QED BY <1>1, <1>2, <3>1, <3>2, <3>3
  <2> QED BY <2>1, <2>2, <2>3, <2>4 DEF Tree
<1>6. Reached(t)
  BY <1>1 DEF Sound, Reached, Hit
<1>7. Whole(s) /\ Root \notin owners => Whole(t)
  BY <1>1, <1>2 DEF Whole
<1>8. \A x \in Owners : t.fingerprints[x] # Nothing =>
          t.fingerprints[x] = s.fingerprints[x] /\ (x \in s.paths => x \in t.paths)
  BY <1>1
<1>9. Sound(t)
  BY <1>1, <1>5, <1>6 DEF Sound
<1>10. /\ \A x \in Owners : t.cache[x] \in {Nothing, s.cache[x]}
       /\ \A x \in s.paths \cap owners : t.cache[x] = Nothing
  BY <1>0, <1>1 DEF Sessions
<1>11. t.expanded \subseteq s.expanded \ owners /\ \A x \in t.expanded : t.shown[x] = s.shown[x]
  BY <1>4
<1> QED BY <1>7, <1>8, <1>9, <1>10, <1>11 DEF t

\* A root that cannot be read leaves nothing to be stale.
LEMMA Baring ==
    ASSUME NEW s, Sound(s)
    PROVE  LET t == Bare(s)
           IN  /\ Sound(t) /\ t.expanded = {}
               /\ \A x \in Owners : t.cache[x] = Nothing /\ t.fingerprints[x] = Nothing
<1> DEFINE c == Collapsed(s, {Root})
           f == Forget(c, Owners)
           t == Bare(s)
<1>0. s \in Sessions /\ Tree(s)
  BY DEF Sound
<1>1. Sound(c) /\ c \in Sessions /\ c.expanded = s.expanded \ ({Root} \cup Below(s, {Root}))
      /\ c.objects = s.objects \ Below(s, {Root})
  BY CollapsingSound, Collapsing DEF Sound
<1>2. s.objects \subseteq Owners /\ s.expanded \subseteq s.objects
  BY DEF Sound, Tree, Sessions
<1>3. \A x \in s.objects \ {Root} : x \in Below(s, {Root})
  BY <1>2, Descendants, AboveOrders DEF Sound
<1> HIDE DEF c
<1>4. c.expanded = {} /\ c.objects = {Root}
  BY <1>0, <1>1, <1>2, <1>3, Descendants DEF Tree
<1>5. /\ f \in Sessions /\ SameTree(c, f)
      /\ \A x \in Owners : f.cache[x] = Nothing /\ f.fingerprints[x] = Nothing
  BY <1>1, Forgetting
<1>6. t = [f EXCEPT !.paths = {}]
  BY DEF Bare, c
<1> HIDE DEF f, t
<1>7. /\ t \in Sessions /\ t.expanded = {} /\ t.objects = {Root} /\ t.paths = {}
      /\ t.cache = f.cache /\ t.fingerprints = f.fingerprints
  BY <1>4, <1>5, <1>6 DEF Sessions, SameTree
<1>8. Tree(t) /\ Matched(t) /\ Reached(t)
  BY <1>5, <1>7 DEF Tree, Matched, Reached, Hit
<1> QED BY <1>5, <1>7, <1>8 DEF Sound, t

\* The branches of the old tree that the root still declares.
Carried(s, text) == UNION {Branch(o) : o \in text.refs \cap s.expanded}

\* They are closed downwards, and upwards as far as the root.
LEMMA Carrying ==
    ASSUME NEW s \in Sessions, NEW text, text.refs \subseteq Declared(Root)
    PROVE  /\ Carried(s, text) \subseteq Owners /\ Root \notin Carried(s, text)
           /\ text.refs \cap s.expanded \subseteq Carried(s, text)
           /\ \A y \in Owners \ {Root} : Parent[y] \in Carried(s, text) => y \in Carried(s, text)
           /\ \A y \in Carried(s, text) : y \in text.refs \/ Parent[y] \in Carried(s, text)
<1>1. \A y \in Carried(s, text) : \E o \in text.refs \cap s.expanded : y \in Branch(o)
  <2>1. ASSUME NEW y \in Carried(s, text)
        PROVE  \E o \in text.refs \cap s.expanded : y \in Branch(o)
    BY <2>1, Zenon DEF Carried
  <2> QED BY <2>1
<1>2. \A o \in text.refs \cap s.expanded : \A y \in Branch(o) : y \in Carried(s, text)
  <2>1. ASSUME NEW o \in text.refs \cap s.expanded, NEW y \in Branch(o)
        PROVE  y \in Carried(s, text)
    BY <2>1, Zenon DEF Carried
  <2> QED BY <2>1
<1>3. \A o \in text.refs : o \in Owners /\ o # Root
  BY DEF Declared
<1>4. \A o \in text.refs :
          /\ Branch(o) \subseteq Owners /\ o \in Branch(o) /\ Root \notin Branch(o)
          /\ \A x \in Owners \ {Root} : Parent[x] \in Branch(o) => x \in Branch(o)
          /\ \A x \in Branch(o) \ {o} : Parent[x] \in Branch(o)
  BY <1>3, Branches
<1> QED
  <2>1. Carried(s, text) \subseteq Owners /\ Root \notin Carried(s, text)
    BY <1>1, <1>4
  <2>2. text.refs \cap s.expanded \subseteq Carried(s, text)
    BY <1>2, <1>4
  <2>3. ASSUME NEW y \in Owners \ {Root}, Parent[y] \in Carried(s, text)
        PROVE  y \in Carried(s, text)
    BY <1>1, <1>2, <1>4, <2>3
  <2>4. ASSUME NEW y \in Carried(s, text)
        PROVE  y \in text.refs \/ Parent[y] \in Carried(s, text)
    BY <1>1, <1>2, <1>4, <2>4
  <2> QED BY <2>1, <2>2, <2>3, <2>4

\* What a root that was read leaves.
LEMMA Grafting ==
    ASSUME SourceShape, NEW s, Sound(s), Readable(Root), NEW read,
           Reads(Forget(s, {Root}), read, Root, FALSE)
    PROVE  LET t == Grafted(s, disk[Root], read)
           IN  /\ Sound(t) /\ Whole(t)
               /\ t.expanded \subseteq s.expanded \cup {Root}
               /\ t.shown[Root] = disk[Root]
               /\ \A x \in t.expanded \ {Root} : t.shown[x] = s.shown[x]
               /\ \A x \in Owners : /\ t.cache[x] \in {Nothing, read.cache[x]}
                                    /\ t.fingerprints[x] \in {Nothing, read.fingerprints[x]}
               /\ \A x \in s.paths \cup {Root} : t.fingerprints[x] # Nothing => x \in t.paths
<1> DEFINE text == disk[Root]
           kept == Carried(s, text)
           objects == {Root} \cup text.refs \cup (kept \cap s.objects)
           expanded == {Root} \cup (kept \cap s.expanded)
           shown == [o \in Owners |-> IF o = Root THEN text
                                      ELSE IF o \in kept THEN s.shown[o] ELSE Nothing]
           f == Forget(read, s.objects \ objects)
           t == Grafted(s, text, read)
<1>1. s \in Sessions /\ Tree(s) /\ Matched(s) /\ Reached(s)
  BY DEF Sound
<1>2. Root \in Owners /\ text \in Parsed /\ text.refs \subseteq Declared(Root)
  BY SessionAssumption, Descriptors
<1>3. /\ kept \subseteq Owners /\ Root \notin kept
      /\ text.refs \cap s.expanded \subseteq kept
      /\ \A y \in Owners \ {Root} : Parent[y] \in kept => y \in kept
      /\ \A y \in kept : y \in text.refs \/ Parent[y] \in kept
  BY <1>1, <1>2, Carrying
<1>4. /\ objects \in SUBSET Owners /\ expanded \in SUBSET Owners
      /\ shown \in [Owners -> Parsed \cup {Nothing}]
  BY <1>1, <1>2, <1>3 DEF Sessions, Declared
<1>5. shown[Root] = text /\ \A x \in kept : shown[x] = s.shown[x]
  BY <1>2, <1>3
<1>6. t = [f EXCEPT !.expanded = expanded, !.shown = shown, !.objects = objects, !.paths = objects]
  BY Zenon DEF Grafted, Carried
<1>7. /\ f \in Sessions /\ Matched(f)
      /\ \A x \in Owners :
          /\ f.cache[x] = IF x \in s.objects \ objects THEN Nothing ELSE read.cache[x]
          /\ f.fingerprints[x] = IF x \in s.objects \ objects THEN Nothing ELSE read.fingerprints[x]
  BY Forgetting DEF Reads
<1> HIDE DEF t, f, shown
<1>8. /\ t.expanded = expanded /\ t.shown = shown /\ t.objects = objects /\ t.paths = objects
      /\ t.cache = f.cache /\ t.fingerprints = f.fingerprints
  BY <1>6, <1>7 DEF Sessions
<1>9. t \in Sessions
  BY <1>4, <1>6, <1>7 DEF Sessions
<1> HIDE DEF kept
<1>10. Tree(t)
  <2>1. /\ Root \in t.objects /\ t.expanded \subseteq t.objects
        /\ t.expanded \subseteq t.paths /\ t.paths \subseteq t.objects
    BY <1>1, <1>8 DEF Tree
  <2>2. \A o \in t.expanded : t.shown[o] \in Parsed /\ t.shown[o].refs \subseteq Declared(o)
    BY <1>1, <1>2, <1>5, <1>8 DEF Tree
  <2>3. ASSUME NEW x \in t.objects \ {Root}
        PROVE  Parent[x] \in t.expanded /\ x \in t.shown[Parent[x]].refs
    <3>1. CASE x \in text.refs
      <4>1. Parent[x] = Root
        BY <1>2, <3>1 DEF Declared
      <4> QED BY <1>5, <1>8, <3>1, <4>1
    <3>2. CASE x \notin text.refs
      <4>1. x \in kept /\ x \in s.objects /\ Parent[x] \in kept
        BY <1>3, <1>8, <3>2
      <4>2. Parent[x] \in s.expanded /\ x \in s.shown[Parent[x]].refs
        BY <1>1, <4>1 DEF Tree
      <4> QED BY <1>5, <1>8, <4>1, <4>2
    <3> QED BY <3>1, <3>2
  <2>4. ASSUME NEW o \in t.expanded, NEW y \in t.shown[o].refs PROVE y \in t.objects
    <3>1. CASE o = Root
      BY <1>5, <1>8, <3>1, <2>4
    <3>2. CASE o # Root
      <4>1. o \in kept /\ o \in s.expanded /\ t.shown[o] = s.shown[o]
        BY <1>5, <1>8, <3>2
      <4>2. y \in s.objects /\ y \in Declared(o)
        BY <1>1, <2>4, <4>1 DEF Tree
      <4>3. y \in Owners \ {Root} /\ Parent[y] = o
        BY <4>2 DEF Declared
      <4> QED BY <1>3, <1>8, <4>1, <4>2, <4>3
    <3> QED BY <3>1, <3>2
  <2> QED BY <2>1, <2>2, <2>3, <2>4 DEF Tree
<1>11. Whole(t)
  BY <1>8 DEF Whole
<1>12. Matched(t)
  BY <1>7, <1>8 DEF Matched
<1>13. Reached(t)
  <2>1. SUFFICES ASSUME NEW x \in Owners, Hit(t, x, TRUE) PROVE x \in t.paths
    BY DEF Reached
  <2>2. t.cache[x] # Nothing /\ t.cache[x].full
    BY <2>1 DEF Hit
  <2>3. x \notin s.objects \ objects /\ t.cache[x] = read.cache[x]
    BY <1>7, <1>8, <2>2
  <2>4. read.cache[x] \in {Nothing, Forget(s, {Root}).cache[x]}
        \/ read.cache[x] = [text |-> disk[Root], full |-> FALSE]
    BY DEF Reads
  <2>5. read.cache[x] = s.cache[x]
    BY <1>1, <2>2, <2>3, <2>4, Forgetting
  <2>6. x \in s.paths
    BY <1>1, <2>2, <2>3, <2>5 DEF Reached, Hit
  <2> QED BY <1>1, <1>8, <2>3, <2>6 DEF Tree
<1>14. /\ t.expanded \subseteq s.expanded \cup {Root}
       /\ \A x \in t.expanded \ {Root} : t.shown[x] = s.shown[x]
  BY <1>5, <1>8
<1>15. /\ \A x \in Owners : /\ t.cache[x] \in {Nothing, read.cache[x]}
                            /\ t.fingerprints[x] \in {Nothing, read.fingerprints[x]}
       /\ \A x \in s.paths \cup {Root} : t.fingerprints[x] # Nothing => x \in t.paths
  <2>1. s.paths \cup {Root} \subseteq Owners /\ s.paths \subseteq s.objects
    BY <1>1, <1>2 DEF Tree, Sessions
  <2> QED BY <1>7, <1>8, <2>1
<1> QED BY <1>5, <1>8, <1>9, <1>10, <1>11, <1>12, <1>13, <1>14, <1>15 DEF Sound, t

\* What an invalidation leaves: nothing of the objects it names but a root that
\* was read again.
LEMMA Invalidating ==
    ASSUME SourceShape, NEW s, Sound(s), NEW owners, NEW outcome \in Invalidated(s, owners)
    PROVE  LET t == outcome.session
           IN  /\ outcome.ok \in BOOLEAN /\ Sound(t)
               /\ outcome.ok /\ (Whole(s) \/ Root \in owners) => Whole(t)
               /\ Root \notin owners => outcome.ok
               /\ \A x \in t.expanded :
                    \/ x \in s.expanded \ owners /\ t.shown[x] = s.shown[x]
                    \/ x = Root /\ t.shown[x] = disk[x]
               /\ \A x \in Owners : Hit(t, x, TRUE) =>
                    x \notin owners /\ t.cache[x] = s.cache[x]
               /\ \A x \in Owners : t.fingerprints[x] # Nothing =>
                    /\ \/ x \notin owners /\ t.fingerprints[x] = s.fingerprints[x]
                       \/ x = Root /\ Root \in owners /\ t.fingerprints[x] = disk[x]
                    /\ x \in s.paths \cup ({Root} \cap owners) => x \in t.paths
<1> DEFINE f == Forget(s, owners)
           c == Collapsed(f, owners \ {Root})
           t == outcome.session
<1>1. s \in Sessions /\ Sound(f)
  BY ForgettingSound DEF Sound
<1>2. /\ SameTree(s, f) /\ (Whole(s) => Whole(f))
      /\ \A x \in Owners :
           /\ f.cache[x] = IF x \in owners THEN Nothing ELSE s.cache[x]
           /\ f.fingerprints[x] = IF x \in owners THEN Nothing ELSE s.fingerprints[x]
  BY <1>1, Forgetting, ForgettingSound
<1> HIDE DEF f
<1>3. /\ Sound(c)
      /\ Whole(f) => Whole(c)
      /\ c.expanded \subseteq f.expanded \ (owners \ {Root})
      /\ \A x \in c.expanded : c.shown[x] = f.shown[x]
      /\ \A x \in Owners : c.cache[x] \in {Nothing, f.cache[x]}
      /\ \A x \in Owners : c.fingerprints[x] # Nothing =>
             /\ c.fingerprints[x] = f.fingerprints[x]
             /\ x \in f.paths => x \in c.paths
  BY <1>1, CollapsingSound
<1> HIDE DEF c
<1>4. CASE Root \notin owners
  <2>1. outcome = Outcome(TRUE, Nothing, c)
    BY <1>4 DEF Invalidated, c, f
  <2>2. outcome.ok = TRUE /\ t = c
    BY <2>1 DEF Outcome
  <2>3. owners \ {Root} = owners
    BY <1>4
  <2>4. \A x \in t.expanded : x \in s.expanded \ owners /\ t.shown[x] = s.shown[x]
    BY <1>2, <1>3, <2>2, <2>3 DEF SameTree
  <2>5. ASSUME NEW x \in Owners, Hit(t, x, TRUE) PROVE x \notin owners /\ t.cache[x] = s.cache[x]
    BY <1>2, <1>3, <2>2, <2>5 DEF Hit
  <2>6. ASSUME NEW x \in Owners, t.fingerprints[x] # Nothing
        PROVE  /\ x \notin owners /\ t.fingerprints[x] = s.fingerprints[x]
               /\ x \in s.paths \cup ({Root} \cap owners) => x \in t.paths
    BY <1>2, <1>3, <1>4, <2>2, <2>6 DEF SameTree
  <2> QED BY <1>2, <1>3, <1>4, <2>2, <2>4, <2>5, <2>6
<1>5. CASE Root \in owners
  <2> DEFINE g == Forget(c, {Root})
  <2>1. PICK read \in Prepared(g, Root) :
            outcome = IF read.ok THEN Outcome(TRUE, read.text, Grafted(c, read.text, read.session))
                                 ELSE Outcome(FALSE, Nothing, Bare(c))
    <3>1. outcome \in RootRead(c)
      BY <1>5 DEF Invalidated, c, f
    <3> QED BY <3>1, Zenon DEF RootRead
  <2>2. /\ Sound(g) /\ c \in Sessions /\ SameTree(c, g)
        /\ \A x \in Owners :
             /\ g.cache[x] = IF x \in {Root} THEN Nothing ELSE c.cache[x]
             /\ g.fingerprints[x] = IF x \in {Root} THEN Nothing ELSE c.fingerprints[x]
    BY <1>3, Forgetting, ForgettingSound DEF Sound
  <2>3. g \in Sessions /\ Matched(g) /\ Root \in Owners
    BY <2>2, SessionAssumption DEF Sound
  <2>4. /\ read.ok \in BOOLEAN /\ Reads(g, read.session, Root, FALSE)
        /\ read.ok => /\ read.text = disk[Root] /\ Readable(Root)
                      /\ read.session.fingerprints[Root] = disk[Root]
    BY <2>1, <2>3, Preparing
  <2>5. CASE ~read.ok
    <3>1. outcome.ok = FALSE /\ t = Bare(c)
      BY <2>1, <2>5 DEF Outcome
    <3>2. /\ Sound(t) /\ t.expanded = {}
          /\ \A x \in Owners : t.cache[x] = Nothing /\ t.fingerprints[x] = Nothing
      BY <1>3, <3>1, Baring
    <3> QED BY <1>5, <3>1, <3>2 DEF Hit
  <2>6. CASE read.ok
    <3> DEFINE r == read.session
    <3>1. outcome.ok = TRUE /\ t = Grafted(c, disk[Root], r)
      BY <2>1, <2>4, <2>6 DEF Outcome
    <3>2. Reads(Forget(c, {Root}), r, Root, FALSE) /\ Readable(Root)
      BY <2>4, <2>6
    <3> DEFINE u == Grafted(c, disk[Root], r)
    <3>a. /\ Sound(u) /\ Whole(u)
          /\ u.expanded \subseteq c.expanded \cup {Root}
          /\ u.shown[Root] = disk[Root]
          /\ \A x \in u.expanded \ {Root} : u.shown[x] = c.shown[x]
          /\ \A x \in Owners : /\ u.cache[x] \in {Nothing, r.cache[x]}
                               /\ u.fingerprints[x] \in {Nothing, r.fingerprints[x]}
          /\ \A x \in c.paths \cup {Root} : u.fingerprints[x] # Nothing => x \in u.paths
      BY <1>3, <3>2, Grafting
    <3> HIDE DEF g, u, t
    <3>3. /\ Sound(t) /\ Whole(t)
          /\ t.expanded \subseteq c.expanded \cup {Root}
          /\ t.shown[Root] = disk[Root]
          /\ \A x \in t.expanded \ {Root} : t.shown[x] = c.shown[x]
          /\ \A x \in Owners : /\ t.cache[x] \in {Nothing, r.cache[x]}
                               /\ t.fingerprints[x] \in {Nothing, r.fingerprints[x]}
          /\ \A x \in c.paths \cup {Root} : t.fingerprints[x] # Nothing => x \in t.paths
      BY <3>1, <3>a DEF u
    <3>4. ASSUME NEW x \in t.expanded
          PROVE  \/ x \in s.expanded \ owners /\ t.shown[x] = s.shown[x]
                 \/ x = Root /\ t.shown[x] = disk[x]
      BY <1>2, <1>3, <3>3 DEF SameTree
    <3>5. ASSUME NEW x \in Owners, Hit(t, x, TRUE)
          PROVE  x \notin owners /\ t.cache[x] = s.cache[x]
      <4>1. t.cache[x] # Nothing /\ t.cache[x].full /\ t.cache[x] = r.cache[x]
        BY <3>3, <3>5 DEF Hit
      <4>2. r.cache[x] \in {Nothing, g.cache[x]} \/ r.cache[x] = [text |-> disk[Root], full |-> FALSE]
        BY <2>4 DEF Reads
      <4>3. r.cache[x] = g.cache[x] /\ g.cache[x] = c.cache[x] /\ c.cache[x] = f.cache[x]
        BY <1>3, <2>2, <4>1, <4>2
      <4> QED BY <1>2, <4>1, <4>3
    <3>6. ASSUME NEW x \in Owners, t.fingerprints[x] # Nothing
          PROVE  /\ \/ x \notin owners /\ t.fingerprints[x] = s.fingerprints[x]
                    \/ x = Root /\ Root \in owners /\ t.fingerprints[x] = disk[x]
                 /\ x \in s.paths \cup ({Root} \cap owners) => x \in t.paths
      <4>1. t.fingerprints[x] = r.fingerprints[x]
        BY <3>3, <3>6
      <4>2. CASE x = Root
        BY <1>5, <2>4, <2>6, <3>3, <3>6, <4>1, <4>2
      <4>3. CASE x # Root
        <5>1. r.fingerprints[x] = g.fingerprints[x] /\ g.fingerprints[x] = c.fingerprints[x]
          BY <2>2, <2>4, <4>3 DEF Reads
        <5>2. c.fingerprints[x] = f.fingerprints[x] /\ (x \in f.paths => x \in c.paths)
          BY <1>3, <3>6, <4>1, <5>1
        <5> QED BY <1>2, <3>3, <3>6, <4>1, <4>3, <5>1, <5>2 DEF SameTree
      <4> QED BY <4>2, <4>3
    <3>7. outcome.ok \in BOOLEAN /\ Sound(t) /\ Whole(t)
      BY <3>1, <3>3
    <3> QED BY <1>5, <3>4, <3>5, <3>6, <3>7 DEF t
  <2> QED BY <2>4, <2>5, <2>6
<1> QED BY <1>4, <1>5

-----------------------------------------------------------------------------
(* What the index remembers.                                                *)

Indexes ==
    [state : {"absent", "building", "cancelled", "ready", "incomplete"},
     records : [Owners -> [owner : Owners, text : Parsed] \cup {Nothing}],
     refs : [Owners -> (SUBSET Owners) \cup {Nothing}],
     pending : SUBSET Owners, failures : SUBSET Owners, dirty : SUBSET Owners,
     paths : SUBSET Owners]

\* Whatever has a record was declared by an object that was read, and whatever
\* was declared has a record; what was not read is pending or has failed.
Linked(i) ==
    /\ Recorded(i) \subseteq i.paths
    /\ i.pending \cup i.failures \subseteq Recorded(i) \cup {Root}
    /\ \A x \in Recorded(i) :
        /\ i.records[x].owner = x \/ (x # Root /\ i.records[x].owner = Parent[x])
        /\ i.records[x].owner \in Recorded(i) /\ i.refs[i.records[x].owner] # Nothing
    /\ \A p \in Owners : i.refs[p] # Nothing =>
           p \in Recorded(i) /\ i.refs[p] \subseteq Recorded(i) \cap Declared(p)
    /\ \A x \in Recorded(i) \ {Root} : i.refs[Parent[x]] # Nothing /\ x \in i.refs[Parent[x]]
    /\ \A x \in Recorded(i) : i.refs[x] = Nothing => x \in i.pending \cup i.failures
    /\ i.dirty \subseteq i.pending \cup i.failures

Stated(i) ==
    /\ i.state = "ready" => i.pending = {} /\ i.failures = {}
    /\ i.state # "absent" => Root \in Recorded(i) \cup i.pending \cup i.failures
    /\ i.state = "absent" =>
           Recorded(i) = {} /\ i.pending = {} /\ i.failures = {} /\ i.paths = {}

\* A descriptor that is not marked stale gave what it now contains.
Current(i, source, told) ==
    \A w \in told \ i.dirty :
        /\ i.refs[w] # Nothing => source[w] \in Parsed /\ i.refs[w] = source[w].refs
        /\ \A x \in Recorded(i) : i.records[x].owner = w => i.records[x].text = source[w]

Ordered(i) == i \in Indexes /\ Linked(i) /\ Stated(i)

\* An index that starts anew (start_search_index).
Anew(i) ==
    /\ i \in Indexes /\ i.state \in {"building", "cancelled"}
    /\ \A o \in Owners : i.records[o] = Nothing /\ i.refs[o] = Nothing
    /\ i.pending = {Root} /\ i.failures = {} /\ i.dirty = {} /\ i.paths = {}

\* It knows nothing that could be wrong.
LEMMA AnewHolds ==
    ASSUME NEW i, Anew(i), NEW source, NEW told \in SUBSET Owners
    PROVE  Ordered(i) /\ Current(i, source, told) /\ Recorded(i) = {}
<1>1. Recorded(i) = {} /\ i \in Indexes
  BY DEF Anew, Recorded
<1>2. Linked(i) /\ Stated(i)
  BY <1>1 DEF Anew, Linked, Stated
<1>3. Current(i, source, told)
  BY <1>1 DEF Anew, Current
<1> QED BY <1>1, <1>2, <1>3 DEF Ordered

\* metadata/index start
LEMMA Starting == Anew(Started)
<1> DEFINE records == [o \in Owners |-> Nothing]
<1>1. \A o \in Owners : records[o] = Nothing
  OBVIOUS
<1>a. records \in [Owners -> [owner : Owners, text : Parsed] \cup {Nothing}]
  OBVIOUS
<1>b. records \in [Owners -> (SUBSET Owners) \cup {Nothing}]
  BY Zenon
<1> HIDE DEF records
<1>2. Started = [state |-> "building", records |-> records, refs |-> records,
                 pending |-> {Root}, failures |-> {}, dirty |-> {}, paths |-> {}]
  BY DEF Started, EmptyIndex, records
<1> QED BY <1>1, <1>a, <1>b, <1>2, SessionAssumption DEF Anew, Indexes

\* A full invalidation.
LEMMA Rebuilding ==
    ASSUME NEW i, Ordered(i)
    PROVE  /\ i.state = "absent" /\ Rebuilt(i) = i
           \/ Anew(Rebuilt(i))
<1>1. CASE i.state = "absent"
  BY <1>1 DEF Rebuilt
<1>2. CASE i.state # "absent"
  <2>1. PICK state \in {"building", "cancelled"} : Rebuilt(i) = [Started EXCEPT !.state = state]
    BY <1>2 DEF Rebuilt
  <2> QED BY <2>1, Starting DEF Anew, Indexes
<1> QED BY <1>1, <1>2

\* Only the state of an index changes when it settles.
LEMMA Settling ==
    ASSUME NEW i \in Indexes, Linked(i), NEW source, NEW told \in SUBSET Owners,
           i.state # "absent", Root \in Recorded(i) \cup i.pending \cup i.failures
    PROVE  LET j == Settled(i)
           IN  /\ Ordered(j) /\ Recorded(j) = Recorded(i)
               /\ j.paths = i.paths /\ j.failures = i.failures
               /\ Current(i, source, told) => Current(j, source, told)
<1> DEFINE j == Settled(i)
<1>1. PICK state \in {"building", "ready", "incomplete", "cancelled"} :
          /\ j = [i EXCEPT !.state = state]
          /\ state = "ready" => i.pending = {} /\ i.failures = {}
  <2>1. CASE i.state = "cancelled"
    <3>1. i = [i EXCEPT !.state = "cancelled"]
      BY <2>1 DEF Indexes
    <3> QED BY <2>1, <3>1 DEF Settled
  <2>2. CASE i.state # "cancelled"
    BY <2>2 DEF Settled
  <2> QED BY <2>1, <2>2
<1> HIDE DEF j
<1>2. /\ j \in Indexes /\ j.state = state
      /\ j.records = i.records /\ j.refs = i.refs /\ j.pending = i.pending
      /\ j.failures = i.failures /\ j.dirty = i.dirty /\ j.paths = i.paths
  BY <1>1 DEF Indexes
<1>3. Recorded(j) = Recorded(i)
  BY <1>2 DEF Recorded
<1>4. Linked(j)
  BY <1>2, <1>3 DEF Linked
<1>5. Stated(j)
  BY <1>1, <1>2, <1>3 DEF Stated
<1>6. Current(i, source, told) => Current(j, source, told)
  BY <1>2, <1>3 DEF Current
<1> QED BY <1>2, <1>3, <1>4, <1>5, <1>6 DEF Ordered, j

\* What was told becomes stale if the index knows it.
LEMMA Superseding ==
    ASSUME NEW i, Ordered(i), NEW owners, NEW source, NEW told \in SUBSET Owners,
           NEW more \in SUBSET Owners, Current(i, source, told),
           more \cap (i.paths \cup {Root}) \subseteq owners
    PROVE  LET j == Superseded(i, owners)
           IN  /\ Ordered(j) /\ j.paths = i.paths /\ j.failures \subseteq i.failures
               /\ j.failures \cap more = {}
               /\ Current(j, source, told \cup more)
<1> DEFINE known == IF i.state = "absent" THEN {} ELSE owners \cap (Recorded(i) \cup {Root})
           j == Superseded(i, owners)
<1>1. i \in Indexes /\ Linked(i) /\ Stated(i) /\ Recorded(i) \subseteq Owners /\ Root \in Owners
  BY SessionAssumption DEF Ordered, Recorded
<1>2. known \subseteq owners \cap (Recorded(i) \cup {Root})
  OBVIOUS
<1>3. i.state # "absent" => more \cap (Recorded(i) \cup {Root}) \subseteq known
  BY <1>1 DEF Linked
<1>4. i.state = "absent" => known = {}
  OBVIOUS
<1>5. PICK state \in {"absent", "building", "cancelled", "ready", "incomplete"} :
          /\ j = [i EXCEPT !.pending = i.pending \cup known, !.dirty = i.dirty \cup known,
                           !.failures = i.failures \ known, !.state = state]
          /\ state = i.state \/ (known # {} /\ state = "building")
          /\ state = "ready" => known = {}
  <2> DEFINE state == IF known # {} /\ i.state # "cancelled" THEN "building" ELSE i.state
  <2>1. state \in {"absent", "building", "cancelled", "ready", "incomplete"}
    BY <1>1 DEF Indexes
  <2>2. j = [i EXCEPT !.pending = i.pending \cup known, !.dirty = i.dirty \cup known,
                      !.failures = i.failures \ known, !.state = state]
    BY <1>1 DEF Superseded, Indexes
  <2> QED BY <2>1, <2>2
<1> HIDE DEF known, j
<1>6. /\ j.records = i.records /\ j.refs = i.refs /\ j.paths = i.paths
      /\ j.pending = i.pending \cup known /\ j.dirty = i.dirty \cup known
      /\ j.failures = i.failures \ known /\ j.state = state
  BY <1>1, <1>5 DEF Indexes
<1>7. j \in Indexes
  <2>1. known \subseteq Owners
    BY <1>1, <1>2
  <2> QED BY <1>1, <1>5, <2>1 DEF Indexes
<1>8. Recorded(j) = Recorded(i)
  BY <1>6 DEF Recorded
<1>9. Linked(j)
  BY <1>1, <1>2, <1>6, <1>8 DEF Linked
<1>10. Stated(j)
  BY <1>1, <1>4, <1>5, <1>6, <1>8 DEF Stated
<1>11. j.failures \cap more = {}
  BY <1>1, <1>3, <1>6 DEF Linked, Stated
<1>12. Current(j, source, told \cup more)
  <2>1. SUFFICES ASSUME NEW w \in (told \cup more) \ j.dirty
                 PROVE  /\ j.refs[w] # Nothing => source[w] \in Parsed /\ j.refs[w] = source[w].refs
                        /\ \A x \in Recorded(j) : j.records[x].owner = w => j.records[x].text = source[w]
    BY DEF Current
  <2>2. CASE w \in told
    BY <1>6, <1>8, <2>1, <2>2 DEF Current
  <2>3. CASE w \notin told
    <3>1. w \notin Recorded(i)
      BY <1>1, <1>3, <1>6, <2>1, <2>3 DEF Stated
    <3> QED BY <1>1, <1>6, <1>8, <2>1, <2>3, <3>1 DEF Linked
  <2> QED BY <2>2, <2>3
<1> QED BY <1>6, <1>7, <1>9, <1>10, <1>11, <1>12 DEF Ordered, j

\* A descriptor that could not be read is stale until it can.
LEMMA Unreading ==
    ASSUME NEW i, Ordered(i), NEW source, NEW told \in SUBSET Owners,
           Current(i, source, told), NEW o \in i.pending
    PROVE  LET j == Settled(Unread(i, o))
           IN  /\ Ordered(j) /\ Current(j, source, told) /\ j.paths = i.paths
               /\ j.failures = i.failures \cup {o}
<1> DEFINE k == Unread(i, o)
<1>1. i \in Indexes /\ Linked(i) /\ Stated(i) /\ o \in Owners
  BY DEF Ordered, Indexes
<1>2. k = [i EXCEPT !.pending = i.pending \ {o}, !.failures = i.failures \cup {o},
                    !.dirty = i.dirty \cup {o}]
  BY <1>1 DEF Unread, Indexes
<1> HIDE DEF k
<1>3. /\ k \in Indexes /\ k.state = i.state
      /\ k.records = i.records /\ k.refs = i.refs /\ k.paths = i.paths
      /\ k.pending = i.pending \ {o} /\ k.dirty = i.dirty \cup {o}
      /\ k.failures = i.failures \cup {o}
  BY <1>1, <1>2 DEF Indexes
<1>4. Recorded(k) = Recorded(i)
  BY <1>3 DEF Recorded
<1>5. Linked(k)
  BY <1>1, <1>3, <1>4 DEF Linked
<1>6. k.state # "absent" /\ Root \in Recorded(k) \cup k.pending \cup k.failures
  BY <1>1, <1>3, <1>4 DEF Stated
<1>7. Current(k, source, told)
  BY <1>3, <1>4 DEF Current
<1> QED BY <1>3, <1>5, <1>6, <1>7, Settling DEF k

\* What the descriptor declares from now on keeps or gets a record; what only
\* descends from an object it no longer declares loses its own.
LEMMA Undeclaring ==
    ASSUME NEW i, Ordered(i), NEW o \in Owners, o \in Recorded(i) \cup {Root},
           NEW text, text.refs \subseteq Declared(o)
    PROVE  LET gone == Undeclared(i, o, text)
           IN  /\ gone \subseteq Recorded(i) /\ o \notin gone /\ Root \notin gone
               /\ gone \cap text.refs = {}
               /\ o # Root => Parent[o] \notin gone
               /\ \A x \in Recorded(i) \ {Root} : Parent[x] \in gone => x \in gone
               /\ \A x \in gone : \/ i.refs[o] # Nothing /\ x \in i.refs[o] \ text.refs
                                  \/ x # Root /\ Parent[x] \in gone
               /\ i.refs[o] # Nothing =>
                    \A x \in Recorded(i) : x \in i.refs[o] \ text.refs => x \in gone
<1> DEFINE gone == Undeclared(i, o, text)
<1>1. i \in Indexes /\ Linked(i) /\ Recorded(i) \subseteq Owners
  BY DEF Ordered, Recorded
<1>2. CASE i.refs[o] = Nothing
  BY <1>2 DEF Undeclared
<1>3. CASE i.refs[o] # Nothing
  <2>1. gone = {x \in Recorded(i) : \E r \in i.refs[o] \ text.refs : x \in Branch(r)}
    BY <1>3 DEF Undeclared
  <2>2. i.refs[o] \subseteq Recorded(i) \cap Declared(o)
    BY <1>1, <1>3 DEF Linked
  <2>3. ASSUME NEW r \in i.refs[o]
        PROVE  /\ o \notin Branch(r) /\ Root \notin Branch(r) /\ r \in Branch(r)
               /\ o # Root => Parent[o] \notin Branch(r)
               /\ \A x \in Branch(r) \cap Declared(o) : x = r
               /\ \A x \in Owners \ {Root} : Parent[x] \in Branch(r) => x \in Branch(r)
               /\ \A x \in Branch(r) \ {r} : x # Root /\ Parent[x] \in Branch(r)
    <3>1. r \in Declared(o) /\ r \in Owners /\ r # Root
      BY <2>2 DEF Declared
    <3> QED BY <3>1, Outside, Branches
  <2> HIDE DEF gone
  <2>4. /\ gone \subseteq Recorded(i) /\ o \notin gone /\ Root \notin gone
        /\ o # Root => Parent[o] \notin gone
    BY <2>1, <2>3
  <2>5. gone \cap text.refs = {}
    BY <2>1, <2>3
  <2>6. \A x \in Recorded(i) \ {Root} : Parent[x] \in gone => x \in gone
    BY <1>1, <2>1, <2>3
  <2>7. ASSUME NEW x \in gone
        PROVE  x \in i.refs[o] \ text.refs \/ (x # Root /\ Parent[x] \in gone)
    <3>1. PICK r \in i.refs[o] \ text.refs : x \in Branch(r)
      BY <2>1
    <3>2. CASE x = r
      BY <3>1, <3>2
    <3>3. CASE x # r
      <4>1. x # Root /\ Parent[x] \in Branch(r)
        BY <2>3, <3>1, <3>3
      <4>2. Parent[x] \in Recorded(i)
        <5>1. x \in Recorded(i) /\ Parent[x] \in Owners
          BY <2>4, <4>1, AboveSteps, <1>1
        <5> QED BY <1>1, <4>1, <5>1 DEF Linked
      <4> QED BY <2>1, <3>1, <4>1, <4>2
    <3> QED BY <3>2, <3>3
  <2>8. \A x \in Recorded(i) : x \in i.refs[o] \ text.refs => x \in gone
    BY <2>1, <2>3
  <2> QED BY <1>3, <2>4, <2>5, <2>6, <2>7, <2>8 DEF gone
<1> QED BY <1>2, <1>3

\* What the index has of a descriptor once it was read.
LEMMA IndexedFields ==
    ASSUME NEW i, Ordered(i), NEW o \in Owners, o \in Recorded(i) \cup {Root},
           NEW text \in Parsed, text.refs \subseteq Declared(o)
    PROVE  LET gone == Undeclared(i, o, text)
               k == Indexed(i, o, text)
           IN  /\ k \in Indexes /\ k.state = i.state
               /\ Recorded(k) = (Recorded(i) \ gone) \cup text.refs \cup {o}
               /\ \A x \in Recorded(k) :
                    \/ x \in text.refs \cup {o} /\ k.records[x] = [owner |-> o, text |-> text]
                    \/ /\ x \in Recorded(i) \ gone /\ k.records[x] = i.records[x]
                       /\ i.records[x].owner # o
               /\ \A x \in Owners :
                    k.refs[x] = IF x = o THEN text.refs
                                ELSE IF x \in gone THEN Nothing ELSE i.refs[x]
               /\ k.pending = (i.pending \ (gone \cup {o}))
                     \cup {x \in text.refs : i.refs[x] = Nothing /\ x \notin i.failures}
               /\ k.failures = i.failures \ (gone \cup {o})
               /\ k.dirty = i.dirty \ (gone \cup {o})
               /\ Recorded(k) \subseteq k.paths /\ o \in k.paths
               /\ i.paths \ gone \subseteq k.paths
<1> DEFINE gone == Undeclared(i, o, text)
           k == Indexed(i, o, text)
           replaced == IF i.refs[o] = Nothing THEN gone
                       ELSE gone \cup {x \in Recorded(i) : i.records[x].owner = o}
           named == {x \in text.refs : x \notin Recorded(i) \ replaced}
           new == {x \in text.refs : i.refs[x] = Nothing /\ x \notin i.failures}
           records == [x \in Owners |->
               IF x \in named \cup {o} THEN [owner |-> o, text |-> text]
               ELSE IF x \in replaced THEN Nothing ELSE i.records[x]]
           refs == [x \in Owners |->
               IF x = o THEN text.refs ELSE IF x \in gone THEN Nothing ELSE i.refs[x]]
<1>1. /\ i \in Indexes /\ Linked(i) /\ Recorded(i) \subseteq Owners
      /\ text.refs \subseteq Owners /\ \A x \in text.refs : x # Root /\ Parent[x] = o
  BY DEF Ordered, Recorded, Declared
<1>2. /\ gone \subseteq Recorded(i) /\ o \notin gone /\ Root \notin gone
      /\ gone \cap text.refs = {}
      /\ i.refs[o] # Nothing => \A x \in Recorded(i) : x \in i.refs[o] \ text.refs => x \in gone
  BY Undeclaring
<1> HIDE DEF gone
<1>3. k = [i EXCEPT !.records = records, !.refs = refs,
                    !.pending = (i.pending \ (gone \cup {o})) \cup new,
                    !.failures = i.failures \ (gone \cup {o}),
                    !.dirty = i.dirty \ (gone \cup {o}),
                    !.paths = (i.paths \ gone) \cup {o} \cup named]
  BY <1>1 DEF Indexed, Indexes, gone
<1>4. replaced \subseteq Recorded(i) /\ named \subseteq text.refs /\ gone \subseteq replaced
  BY <1>2
<1>5. ASSUME NEW x \in replaced \ gone PROVE x = o \/ x \in text.refs
  <2>1. i.refs[o] # Nothing /\ x \in Recorded(i) /\ i.records[x].owner = o
    BY <1>5
  <2>2. x = o \/ (x # Root /\ Parent[x] = o)
    BY <1>1, <2>1 DEF Linked
  <2>3. CASE x # Root /\ Parent[x] = o
    <3>1. x \in i.refs[o]
      BY <1>1, <2>1, <2>3 DEF Linked
    <3> QED BY <1>2, <1>5, <2>1, <3>1
  <2> QED BY <2>2, <2>3
<1>6. ASSUME NEW x \in Recorded(i) \ replaced PROVE i.records[x].owner # o
  BY <1>1, <1>6 DEF Linked
<1>7. \A x \in text.refs : x \in named \/ x \in Recorded(i) \ replaced
  OBVIOUS
<1>8. /\ \A x \in Owners : records[x] = IF x \in named \cup {o} THEN [owner |-> o, text |-> text]
                                        ELSE IF x \in replaced THEN Nothing ELSE i.records[x]
      /\ \A x \in Owners : refs[x] = IF x = o THEN text.refs
                                     ELSE IF x \in gone THEN Nothing ELSE i.refs[x]
  OBVIOUS
<1>9. records \in [Owners -> [owner : Owners, text : Parsed] \cup {Nothing}]
  BY <1>1 DEF Indexes
<1>10. refs \in [Owners -> (SUBSET Owners) \cup {Nothing}]
  <2>1. \A x \in Owners : i.refs[x] \in (SUBSET Owners) \cup {Nothing}
    BY <1>1 DEF Indexes
  <2>2. text.refs \in (SUBSET Owners) \cup {Nothing}
    BY <1>1
  <2> QED BY <2>1, <2>2, Zenon
<1>11. new \in SUBSET Owners /\ named \in SUBSET Owners
  BY <1>1
<1>12. [owner |-> o, text |-> text] # Nothing
  BY NothingAssumption
<1> HIDE DEF records, refs, k
<1>13. /\ k.state = i.state /\ k.records = records /\ k.refs = refs
       /\ k.pending = (i.pending \ (gone \cup {o})) \cup new
       /\ k.failures = i.failures \ (gone \cup {o})
       /\ k.dirty = i.dirty \ (gone \cup {o})
       /\ k.paths = (i.paths \ gone) \cup {o} \cup named
  BY <1>1, <1>3 DEF Indexes
<1>14. k \in Indexes
  BY <1>1, <1>3, <1>9, <1>10, <1>11 DEF Indexes
<1> HIDE DEF replaced, named
<1>15. Recorded(k) = (Recorded(i) \ replaced) \cup named \cup {o}
  <2>1. \A x \in Owners : k.records[x] # Nothing <=>
             x \in named \cup {o} \/ (x \notin replaced /\ i.records[x] # Nothing)
    BY <1>8, <1>12, <1>13
  <2> QED BY <1>1, <1>4, <2>1 DEF Recorded
<1>16. Recorded(k) = (Recorded(i) \ gone) \cup text.refs \cup {o}
  BY <1>4, <1>5, <1>7, <1>15
<1>17. ASSUME NEW x \in Recorded(k)
       PROVE  \/ x \in text.refs \cup {o} /\ k.records[x] = [owner |-> o, text |-> text]
              \/ /\ x \in Recorded(i) \ gone /\ k.records[x] = i.records[x]
                 /\ i.records[x].owner # o
  BY <1>1, <1>4, <1>6, <1>8, <1>13, <1>15
<1>18. Recorded(k) \subseteq k.paths /\ o \in k.paths /\ i.paths \ gone \subseteq k.paths
  BY <1>1, <1>4, <1>13, <1>15 DEF Linked
<1>19. \A x \in Owners : k.refs[x] = IF x = o THEN text.refs
                                     ELSE IF x \in gone THEN Nothing ELSE i.refs[x]
  BY <1>8, <1>13
<1> QED BY <1>13, <1>14, <1>16, <1>17, <1>18, <1>19 DEF gone, k, new

\* Indexing a descriptor keeps the index linked and current.
LEMMA Indexing ==
    ASSUME SourceShape, NEW i, Ordered(i), NEW told \in SUBSET Owners, Current(i, disk, told),
           NEW o \in i.pending, Readable(o)
    PROVE  LET j == Settled(Indexed(i, o, disk[o]))
           IN  /\ Ordered(j) /\ Current(j, disk, told)
               /\ j.failures \subseteq i.failures
               /\ i.paths \ Undeclared(i, o, disk[o]) \subseteq j.paths /\ o \in j.paths
<1> DEFINE text == disk[o]
           gone == Undeclared(i, o, text)
           k == Indexed(i, o, text)
<1>1. /\ i \in Indexes /\ Linked(i) /\ Stated(i) /\ o \in Owners /\ o \in Recorded(i) \cup {Root}
      /\ Recorded(i) \subseteq Owners
  BY DEF Ordered, Indexes, Linked, Recorded
<1>2. /\ text \in Parsed /\ text.refs \subseteq Declared(o) /\ text.refs \subseteq Owners
      /\ \A x \in text.refs : x # Root /\ Parent[x] = o
      /\ text.refs # Nothing
  <2>1. text \in Parsed /\ text.refs \subseteq Declared(o)
    BY <1>1, Descriptors
  <2>2. text.refs \subseteq Owners /\ \A x \in text.refs : x # Root /\ Parent[x] = o
    BY <2>1 DEF Declared
  <2> QED BY <2>1, <2>2, NothingAssumption
<1>3. o # Root => Parent[o] # o
  BY <1>1, AboveSteps, AboveOrders
<1> HIDE DEF text
<1>4. /\ gone \subseteq Recorded(i) /\ o \notin gone /\ Root \notin gone
      /\ gone \cap text.refs = {}
      /\ o # Root => Parent[o] \notin gone
      /\ \A x \in Recorded(i) \ {Root} : Parent[x] \in gone => x \in gone
      /\ \A x \in gone : \/ i.refs[o] # Nothing /\ x \in i.refs[o] \ text.refs
                         \/ x # Root /\ Parent[x] \in gone
      /\ i.refs[o] # Nothing => \A x \in Recorded(i) : x \in i.refs[o] \ text.refs => x \in gone
  BY <1>1, <1>2, Undeclaring
<1>5. /\ k \in Indexes /\ k.state = i.state
      /\ Recorded(k) = (Recorded(i) \ gone) \cup text.refs \cup {o}
      /\ \A x \in Recorded(k) :
           \/ x \in text.refs \cup {o} /\ k.records[x] = [owner |-> o, text |-> text]
           \/ /\ x \in Recorded(i) \ gone /\ k.records[x] = i.records[x]
              /\ i.records[x].owner # o
      /\ \A x \in Owners : k.refs[x] = IF x = o THEN text.refs
                                       ELSE IF x \in gone THEN Nothing ELSE i.refs[x]
      /\ k.pending = (i.pending \ (gone \cup {o}))
            \cup {x \in text.refs : i.refs[x] = Nothing /\ x \notin i.failures}
      /\ k.failures = i.failures \ (gone \cup {o})
      /\ k.dirty = i.dirty \ (gone \cup {o})
      /\ Recorded(k) \subseteq k.paths /\ o \in k.paths
      /\ i.paths \ gone \subseteq k.paths
  BY <1>1, <1>2, IndexedFields
<1> HIDE DEF gone, k
<1>6. Linked(k)
  <2>1. k.pending \cup k.failures \subseteq Recorded(k) \cup {Root}
    BY <1>1, <1>5 DEF Linked
  <2>2. ASSUME NEW x \in Recorded(k)
        PROVE  /\ k.records[x].owner = x \/ (x # Root /\ k.records[x].owner = Parent[x])
               /\ k.records[x].owner \in Recorded(k) /\ k.refs[k.records[x].owner] # Nothing
    <3>1. CASE x \in text.refs \cup {o} /\ k.records[x] = [owner |-> o, text |-> text]
      <4>1. k.records[x].owner = o
        BY <3>1
      <4>2. o \in Recorded(k) /\ k.refs[o] # Nothing
        BY <1>1, <1>2, <1>5
      <4>3. o = x \/ (x # Root /\ o = Parent[x])
        BY <1>2, <3>1
      <4> QED BY <4>1, <4>2, <4>3
    <3>2. CASE /\ x \in Recorded(i) \ gone /\ k.records[x] = i.records[x]
               /\ i.records[x].owner # o
      <4> DEFINE w == i.records[x].owner
      <4>1. /\ w = x \/ (x # Root /\ w = Parent[x])
            /\ w \in Recorded(i) /\ i.refs[w] # Nothing /\ w # o
        BY <1>1, <3>2 DEF Linked
      <4> HIDE DEF w
      <4>2. w \notin gone
        BY <1>4, <3>2, <4>1
      <4>3. w \in Recorded(k) /\ k.refs[w] = i.refs[w]
        BY <1>1, <1>5, <4>1, <4>2
      <4>4. k.records[x].owner = w
        BY <3>2 DEF w
      <4> QED BY <4>1, <4>3, <4>4
    <3> QED BY <1>5, <3>1, <3>2
  <2>3. ASSUME NEW p \in Owners, k.refs[p] # Nothing
        PROVE  p \in Recorded(k) /\ k.refs[p] \subseteq Recorded(k) \cap Declared(p)
    <3>1. CASE p = o
      BY <1>2, <1>5, <3>1
    <3>2. CASE p # o
      <4>1. p \notin gone /\ k.refs[p] = i.refs[p]
        BY <1>5, <2>3, <3>2
      <4>2. p \in Recorded(i) /\ i.refs[p] \subseteq Recorded(i) \cap Declared(p)
        BY <1>1, <2>3, <4>1 DEF Linked
      <4>3. ASSUME NEW y \in i.refs[p] PROVE y \notin gone
        <5>1. y \in Owners /\ y # Root /\ Parent[y] = p
          BY <4>2 DEF Declared
        <5>2. i.refs[o] # Nothing => y \notin i.refs[o]
          BY <1>1, <3>2, <5>1 DEF Linked, Declared
        <5> QED BY <1>4, <4>1, <5>1, <5>2
      <4> QED BY <1>5, <4>1, <4>2, <4>3
    <3> QED BY <3>1, <3>2
  <2>4. ASSUME NEW x \in Recorded(k) \ {Root}
        PROVE  k.refs[Parent[x]] # Nothing /\ x \in k.refs[Parent[x]]
    <3>1. x \in Owners /\ Parent[x] \in Owners
      BY <1>1, <1>2, <1>5, AboveSteps
    <3>2. CASE x \in text.refs
      BY <1>2, <1>5, <3>1, <3>2
    <3>3. CASE x \notin text.refs
      <4>1. x \in Recorded(i)
        BY <1>1, <1>5, <3>3
      <4>2. i.refs[Parent[x]] # Nothing /\ x \in i.refs[Parent[x]]
        BY <1>1, <4>1 DEF Linked
      <4>3. x \notin gone
        BY <1>4, <1>5, <3>3
      <4>4. Parent[x] \notin gone
        BY <1>4, <4>1, <4>3
      <4>5. Parent[x] # o
        BY <1>4, <3>3, <4>1, <4>2, <4>3
      <4> QED BY <1>5, <3>1, <4>2, <4>4, <4>5
    <3> QED BY <3>2, <3>3
  <2>5. ASSUME NEW x \in Recorded(k), k.refs[x] = Nothing
        PROVE  x \in k.pending \cup k.failures
    <3>1. x \in Owners /\ x # o /\ x \notin gone
      BY <1>1, <1>2, <1>4, <1>5, <2>5
    <3>2. i.refs[x] = Nothing
      BY <1>5, <2>5, <3>1
    <3>3. CASE x \in text.refs
      BY <1>5, <3>1, <3>2, <3>3
    <3>4. CASE x \notin text.refs
      <4>1. x \in i.pending \cup i.failures
        BY <1>1, <1>5, <3>1, <3>2, <3>4 DEF Linked
      <4> QED BY <1>5, <3>1, <4>1
    <3> QED BY <3>3, <3>4
  <2>6. k.dirty \subseteq k.pending \cup k.failures
    BY <1>1, <1>5 DEF Linked
  <2> QED BY <1>5, <2>1, <2>2, <2>3, <2>4, <2>5, <2>6 DEF Linked
<1>7. k.state # "absent" /\ Root \in Recorded(k) \cup k.pending \cup k.failures
  BY <1>1, <1>4, <1>5 DEF Stated
<1>8. Current(k, disk, told)
  <2>1. SUFFICES ASSUME NEW w \in told \ k.dirty
                 PROVE  /\ k.refs[w] # Nothing => disk[w] \in Parsed /\ k.refs[w] = disk[w].refs
                        /\ \A x \in Recorded(k) : k.records[x].owner = w => k.records[x].text = disk[w]
    BY DEF Current
  <2>2. CASE w = o
    <3>1. k.refs[w] = disk[w].refs /\ disk[w] \in Parsed
      BY <1>1, <1>2, <1>5, <2>2 DEF text
    <3>2. \A x \in Recorded(k) : k.records[x].owner = w => k.records[x] = [owner |-> o, text |-> text]
      BY <1>5, <2>2
    <3> QED BY <2>2, <3>1, <3>2 DEF text
  <2>3. CASE w # o
    <3>1. w \in gone \/ w \in told \ i.dirty
      BY <1>5, <2>1, <2>3
    <3>2. CASE w \in gone
      <4>1. k.refs[w] = Nothing
        BY <1>5, <2>3, <3>2
      <4>2. ASSUME NEW x \in Recorded(k), k.records[x].owner = w PROVE FALSE
        <5>1. x \in Recorded(i) \ gone /\ i.records[x].owner = w
          BY <1>5, <2>3, <4>2
        <5> QED BY <1>1, <1>4, <3>2, <5>1 DEF Linked
      <4> QED BY <4>1, <4>2
    <3>3. CASE w \notin gone
      <4>1. w \in told \ i.dirty /\ k.refs[w] = i.refs[w]
        BY <1>5, <2>3, <3>1, <3>3
      <4>2. \A x \in Recorded(k) : k.records[x].owner = w =>
                x \in Recorded(i) /\ k.records[x] = i.records[x]
        BY <1>5, <2>3
      <4> QED BY <4>1, <4>2 DEF Current
    <3> QED BY <3>2, <3>3
  <2> QED BY <2>2, <2>3
<1>9. /\ Ordered(Settled(k)) /\ Current(Settled(k), disk, told)
      /\ Settled(k).paths = k.paths /\ Settled(k).failures = k.failures
  BY <1>5, <1>6, <1>7, <1>8, Settling
<1> QED BY <1>5, <1>9 DEF k, gone, text

-----------------------------------------------------------------------------
(* What an answer rests on.                                                 *)

Fresh(s, source, told) ==
    \A o \in told : /\ o \in s.expanded => s.shown[o] = source[o]
                    /\ Hit(s, o, TRUE) => s.cache[o].text = source[o]

\* A hash is kept only where a notification would find it, and what was told is
\* neither refused as changed nor reported as a failure without being one.
Hashed(s, i, source, told) ==
    /\ \A o \in Owners : s.fingerprints[o] # Nothing => o \in s.paths \cup i.paths
    /\ \A o \in told : /\ s.fingerprints[o] \in {Nothing, source[o]}
                       /\ o \in i.failures => source[o] \notin Parsed

IKnown ==
    /\ SourceShape
    /\ work \in [edits : Nat, restarted : BOOLEAN]
    /\ Sound(session) /\ Fresh(session, disk, Told)
    /\ Serving => Whole(session)
    /\ Ordered(index) /\ Current(index, disk, Told)
    /\ ~work.restarted => Hashed(session, index, disk, Told)

\* A reading leaves what is exposed, and caches what the file has.
LEMMA Reading ==
    ASSUME NEW s, Sound(s), NEW t, NEW o \in Owners, NEW full \in BOOLEAN, Reads(s, t, o, full),
           full => o \in s.paths, NEW told \in SUBSET Owners, Fresh(s, disk, told)
    PROVE  /\ Sound(t) /\ Fresh(t, disk, told) /\ SameTree(s, t)
           /\ Whole(s) => Whole(t)
<1>1. t \in Sessions /\ SameTree(s, t) /\ Matched(t)
  BY DEF Reads
<1>2. Tree(t) /\ (Whole(s) => Whole(t))
  BY <1>1 DEF Sound, SameTree, Tree, Whole
<1>3. ASSUME NEW x \in Owners, Hit(t, x, TRUE)
      PROVE  /\ x \in s.paths
             /\ (Hit(s, x, TRUE) /\ t.cache[x] = s.cache[x]) \/ t.cache[x].text = disk[x]
  <2>1. t.cache[x] # Nothing /\ t.cache[x].full
    BY <1>3 DEF Hit
  <2>2. CASE t.cache[x] = s.cache[x]
    BY <2>1, <2>2 DEF Hit, Sound, Reached
  <2>3. CASE x = o /\ t.cache[x] = [text |-> disk[o], full |-> full]
    BY <2>1, <2>3
  <2> QED BY <2>1, <2>2, <2>3 DEF Reads
<1>4. Reached(t)
  BY <1>1, <1>3 DEF Reached, SameTree
<1>5. Fresh(t, disk, told)
  BY <1>1, <1>3 DEF Fresh, SameTree
<1> QED BY <1>1, <1>2, <1>4, <1>5 DEF Sound

\* A branch is published with what the file declares.
LEMMA Publishing ==
    ASSUME SourceShape, NEW s, Sound(s), Whole(s), NEW o \in s.objects \ s.expanded, Readable(o),
           NEW told \in SUBSET Owners, Fresh(s, disk, told)
    PROVE  LET t == Published(s, o, disk[o])
           IN  /\ Sound(t) /\ Whole(t) /\ Fresh(t, disk, told)
               /\ t.fingerprints = s.fingerprints /\ s.paths \subseteq t.paths
<1> DEFINE t == Published(s, o, disk[o])
           refs == disk[o].refs
<1>1. /\ s \in Sessions /\ Tree(s) /\ o \in Owners /\ disk[o] \in Parsed
      /\ refs \subseteq Declared(o) /\ refs \subseteq Owners
  <2>1. s \in Sessions /\ Tree(s) /\ o \in Owners
    BY DEF Sound, Sessions
  <2> QED BY <2>1, Descriptors DEF Declared
<1>2. t = [s EXCEPT !.expanded = s.expanded \cup {o}, !.shown = [s.shown EXCEPT ![o] = disk[o]],
                    !.objects = s.objects \cup {o} \cup refs,
                    !.paths = s.paths \cup {o} \cup refs]
  BY <1>1 DEF Published, Sessions
<1> HIDE DEF t, refs
<1>3. /\ t \in Sessions
      /\ t.expanded = s.expanded \cup {o} /\ t.objects = s.objects \cup refs
      /\ t.paths = s.paths \cup {o} \cup refs
      /\ t.shown = [s.shown EXCEPT ![o] = disk[o]]
      /\ t.cache = s.cache /\ t.fingerprints = s.fingerprints
  <2>1. [s.shown EXCEPT ![o] = disk[o]] \in [Owners -> Parsed \cup {Nothing}]
    BY <1>1 DEF Sessions
  <2> QED BY <1>1, <1>2, <2>1 DEF Sessions
<1>4. t.shown[o] = disk[o] /\ \A x \in s.expanded : t.shown[x] = s.shown[x]
  BY <1>1, <1>3 DEF Sessions
<1>5. \A x \in refs : x \in Owners /\ x # Root /\ Parent[x] = o
  BY <1>1 DEF Declared
<1>6. Tree(t)
  BY <1>1, <1>3, <1>4, <1>5 DEF Tree, refs
<1>7. Matched(t) /\ Reached(t) /\ Whole(t)
  BY <1>3 DEF Sound, Matched, Reached, Hit, Whole
<1>8. Fresh(t, disk, told)
  BY <1>3, <1>4 DEF Fresh, Hit
<1> QED BY <1>3, <1>6, <1>7, <1>8 DEF Sound, t

\* Nothing of what an invalidation was told of is older than the file.
LEMMA Telling ==
    ASSUME SourceShape, NEW s, Sound(s), NEW told \in SUBSET Owners, Fresh(s, disk, told),
           NEW owners, NEW more \in SUBSET Owners, more \cap s.paths \subseteq owners,
           NEW outcome \in Invalidated(s, owners)
    PROVE  LET t == outcome.session
           IN  /\ outcome.ok \in BOOLEAN /\ (Root \notin owners => outcome.ok)
               /\ Sound(t) /\ Fresh(t, disk, told \cup more)
               /\ outcome.ok /\ (Whole(s) \/ Root \in owners) => Whole(t)
<1> DEFINE t == outcome.session
<1>1. /\ outcome.ok \in BOOLEAN /\ Sound(t)
      /\ outcome.ok /\ (Whole(s) \/ Root \in owners) => Whole(t)
      /\ Root \notin owners => outcome.ok
      /\ \A x \in t.expanded :
           \/ x \in s.expanded \ owners /\ t.shown[x] = s.shown[x]
           \/ x = Root /\ t.shown[x] = disk[x]
      /\ \A x \in Owners : Hit(t, x, TRUE) =>
           x \notin owners /\ t.cache[x] = s.cache[x]
      /\ \A x \in Owners : t.fingerprints[x] # Nothing =>
           /\ \/ x \notin owners /\ t.fingerprints[x] = s.fingerprints[x]
              \/ x = Root /\ Root \in owners /\ t.fingerprints[x] = disk[x]
           /\ x \in s.paths \cup ({Root} \cap owners) => x \in t.paths
  BY Invalidating
<1> HIDE DEF t
<1>2. ASSUME NEW x \in told \cup more, x \in t.expanded PROVE t.shown[x] = disk[x]
  BY <1>1, <1>2 DEF Fresh, Sound, Tree
<1>3. ASSUME NEW x \in told \cup more, Hit(t, x, TRUE) PROVE t.cache[x].text = disk[x]
  <2>1. x \notin owners /\ t.cache[x] = s.cache[x]
    BY <1>1, <1>3
  <2>2. Hit(s, x, TRUE) /\ x \in s.paths
    BY <1>3, <2>1 DEF Hit, Sound, Reached
  <2> QED BY <2>1, <2>2 DEF Fresh
<1> QED BY <1>1, <1>2, <1>3 DEF Fresh, t

\* The hashes after an invalidation of single objects.
LEMMA TellingHashes ==
    ASSUME SourceShape, NEW s, Sound(s), NEW i, NEW told \in SUBSET Owners, Hashed(s, i, disk, told),
           NEW owners, NEW more \in SUBSET Owners, more \cap (s.paths \cup i.paths) \subseteq owners,
           NEW outcome \in Invalidated(s, owners),
           NEW j, j.paths = i.paths, j.failures \subseteq i.failures, j.failures \cap more = {}
    PROVE  Hashed(outcome.session, j, disk, told \cup more)
<1> DEFINE t == outcome.session
<1>1. \A x \in Owners : t.fingerprints[x] # Nothing =>
          /\ \/ x \notin owners /\ t.fingerprints[x] = s.fingerprints[x]
             \/ x = Root /\ Root \in owners /\ t.fingerprints[x] = disk[x]
          /\ x \in s.paths \cup ({Root} \cap owners) => x \in t.paths
  BY Invalidating
<1> HIDE DEF t
<1>2. ASSUME NEW x \in Owners, t.fingerprints[x] # Nothing PROVE x \in t.paths \cup j.paths
  BY <1>1, <1>2 DEF Hashed
<1>3. ASSUME NEW x \in told \cup more PROVE t.fingerprints[x] \in {Nothing, disk[x]}
  BY <1>1 DEF Hashed
<1> QED BY <1>2, <1>3 DEF Hashed, t

\* The hashes after a full invalidation.
LEMMA TellingAll ==
    ASSUME SourceShape, NEW s, Sound(s), NEW i, NEW told \in SUBSET Owners, Hashed(s, i, disk, told),
           NEW owners, s.paths \cup i.paths \cup {Root} \subseteq owners,
           NEW outcome \in Invalidated(s, owners), NEW j, j.failures = {}
    PROVE  Hashed(outcome.session, j, disk, Owners)
<1> DEFINE t == outcome.session
<1>1. \A x \in Owners : t.fingerprints[x] # Nothing =>
          /\ \/ x \notin owners /\ t.fingerprints[x] = s.fingerprints[x]
             \/ x = Root /\ Root \in owners /\ t.fingerprints[x] = disk[x]
          /\ x \in s.paths \cup ({Root} \cap owners) => x \in t.paths
  BY Invalidating
<1> HIDE DEF t
<1>2. \A x \in Owners : t.fingerprints[x] # Nothing =>
          x = Root /\ t.fingerprints[x] = disk[x] /\ x \in t.paths
  BY <1>1 DEF Hashed
<1> QED BY <1>2 DEF Hashed, t

-----------------------------------------------------------------------------
(* The steps.                                                               *)

\* An open project knows its root, from the file.
LEMMA OpensKnown == Init => IKnown
<1> SUFFICES ASSUME Init PROVE IKnown
  OBVIOUS
<1> DEFINE whole == [o \in Owners |-> CHOOSE text \in Contents[o] \cap Parsed : text.refs = Declared(o)]
           none == [o \in Owners |-> Nothing]
           root == whole[Root]
           closed == [expanded |-> {}, objects |-> {}, paths |-> {},
                      shown |-> none, cache |-> none, fingerprints |-> none]
           refs == root.refs
<1>1. \A o \in Owners : whole[o] \in Contents[o] \cap Parsed /\ whole[o].refs = Declared(o)
  BY ContentsAssumption
<1>2. /\ disk = whole /\ untold = {} /\ index = EmptyIndex("absent")
      /\ session = [Published(closed, Root, root) EXCEPT
                        !.cache[Root] = [text |-> root, full |-> FALSE],
                        !.fingerprints[Root] = root]
      /\ work = [edits |-> 0, restarted |-> FALSE]
      /\ server = [refresh |-> FALSE, file |-> 0]
  BY DEF Init
<1>3. SourceShape
  BY <1>1, <1>2 DEF SourceShape
<1>4. Root \in Owners /\ root \in Parsed /\ refs = Declared(Root) /\ disk[Root] = root
  BY <1>1, <1>2, SessionAssumption
<1>5. \A o \in Owners : none[o] = Nothing
  OBVIOUS
<1>6. /\ none \in [Owners -> Parsed \cup {Nothing}]
      /\ none \in [Owners -> [text : Parsed, full : BOOLEAN] \cup {Nothing}]
  OBVIOUS
<1>7. /\ none \in [Owners -> [owner : Owners, text : Parsed] \cup {Nothing}]
      /\ none \in [Owners -> (SUBSET Owners) \cup {Nothing}]
  OBVIOUS
<1>8. EmptyIndex("absent") = [state |-> "absent", records |-> none, refs |-> none,
                              pending |-> {}, failures |-> {}, dirty |-> {}, paths |-> {}]
  BY DEF EmptyIndex
<1> HIDE DEF whole, none
<1>9. session = [expanded |-> {Root}, objects |-> {Root} \cup refs, paths |-> {Root} \cup refs,
                 shown |-> [none EXCEPT ![Root] = root],
                 cache |-> [none EXCEPT ![Root] = [text |-> root, full |-> FALSE]],
                 fingerprints |-> [none EXCEPT ![Root] = root]]
  BY <1>2 DEF Published
<1>10. /\ session.expanded = {Root} /\ session.objects = {Root} \cup refs
       /\ session.paths = {Root} \cup refs
       /\ session.shown = [none EXCEPT ![Root] = root]
       /\ session.cache = [none EXCEPT ![Root] = [text |-> root, full |-> FALSE]]
       /\ session.fingerprints = [none EXCEPT ![Root] = root]
  BY <1>9
<1>11. /\ [none EXCEPT ![Root] = root] \in [Owners -> Parsed \cup {Nothing}]
       /\ [none EXCEPT ![Root] = root][Root] = root
       /\ \A o \in Owners \ {Root} : [none EXCEPT ![Root] = root][o] = Nothing
  BY <1>4, <1>5, <1>6
<1>12. /\ [none EXCEPT ![Root] = [text |-> root, full |-> FALSE]]
             \in [Owners -> [text : Parsed, full : BOOLEAN] \cup {Nothing}]
       /\ [none EXCEPT ![Root] = [text |-> root, full |-> FALSE]][Root]
             = [text |-> root, full |-> FALSE]
       /\ \A o \in Owners \ {Root} :
             [none EXCEPT ![Root] = [text |-> root, full |-> FALSE]][o] = Nothing
  BY <1>4, <1>5, <1>6
<1>13. session \in Sessions
  <2>1. {Root} \cup refs \in SUBSET Owners
    BY <1>4 DEF Declared
  <2> QED BY <1>4, <1>9, <1>11, <1>12, <2>1 DEF Sessions
<1> HIDE DEF root
<1>14. Tree(session)
  BY <1>4, <1>10, <1>11 DEF Tree, Declared
<1>15. Matched(session) /\ Reached(session)
  <2>1. /\ session.cache[Root].text = root /\ ~session.cache[Root].full
        /\ session.fingerprints[Root] = root
        /\ \A o \in Owners \ {Root} : session.cache[o] = Nothing
    BY <1>10, <1>11, <1>12
  <2> QED BY <2>1 DEF Matched, Reached, Hit
<1>16. Whole(session) /\ Fresh(session, disk, Told)
  <2>1. session.shown[Root] = root /\ \A o \in Owners : ~Hit(session, o, TRUE)
    BY <1>10, <1>11, <1>12 DEF Hit
  <2> QED BY <1>4, <1>10, <2>1 DEF Whole, Fresh, Told
<1>17. /\ index \in Indexes /\ index.state = "absent" /\ index.records = none /\ index.refs = none
       /\ index.pending = {} /\ index.failures = {} /\ index.dirty = {} /\ index.paths = {}
  BY <1>2, <1>7, <1>8 DEF Indexes
<1>18. Recorded(index) = {}
  BY <1>5, <1>17 DEF Recorded
<1>19. Ordered(index) /\ Current(index, disk, Told)
  BY <1>5, <1>17, <1>18 DEF Ordered, Linked, Stated, Current, Told
<1>20. Hashed(session, index, disk, Told)
  BY <1>4, <1>10, <1>11, <1>17 DEF Hashed, Told
<1>21. work \in [edits : Nat, restarted : BOOLEAN]
  BY <1>2
<1> QED BY <1>3, <1>13, <1>14, <1>15, <1>16, <1>19, <1>20, <1>21 DEF IKnown, Sound

\* An expansion shows what the file declares (children).
LEMMA KnownChildren ==
    ASSUME IInv, IKnown, NEW o \in Owners, Children(o)
    PROVE  IKnown'
<1>1. PICK outcome \in Prepared(session, o) :
          session' = IF outcome.ok THEN Published(outcome.session, o, outcome.text)
                     ELSE outcome.session
  BY DEF Children
<1>2. /\ Serving /\ o \in session.objects \ session.expanded
      /\ UNCHANGED <<disk, index, server, untold, work>>
  BY DEF Children
<1> DEFINE read == outcome.session
<1>3. /\ Sound(session) /\ Whole(session) /\ Fresh(session, disk, Told) /\ SourceShape
      /\ Told \in SUBSET Owners
  BY <1>2 DEF IKnown, Told
<1>4. /\ outcome.ok \in BOOLEAN /\ Reads(session, read, o, FALSE)
      /\ read.fingerprints[o] \in {Nothing, disk[o], session.fingerprints[o]}
      /\ outcome.ok => outcome.text = disk[o] /\ Readable(o)
  BY <1>1, <1>3, Preparing DEF Sound
<1> HIDE DEF read
<1>5. Sound(read) /\ Fresh(read, disk, Told) /\ SameTree(session, read) /\ Whole(read)
  BY <1>3, <1>4, Reading
<1>6. /\ Sound(session') /\ Whole(session') /\ Fresh(session', disk, Told)
      /\ session'.fingerprints = read.fingerprints /\ session.paths \subseteq session'.paths
  <2>1. CASE ~outcome.ok
    BY <1>1, <1>5, <2>1 DEF read, SameTree
  <2>2. CASE outcome.ok
    <3>1. session' = Published(read, o, disk[o]) /\ o \in read.objects \ read.expanded
      BY <1>1, <1>2, <1>4, <1>5, <2>2 DEF read, SameTree
    <3> QED BY <1>3, <1>4, <1>5, <2>2, <3>1, Publishing DEF SameTree
  <2> QED BY <1>4, <2>1, <2>2
<1>7. ASSUME ~work.restarted PROVE Hashed(session', index, disk, Told)
  <2>1. o \in session.paths
    BY <1>2, <1>3 DEF Whole
  <2>2. Hashed(session, index, disk, Told)
    BY <1>7 DEF IKnown
  <2> QED BY <1>3, <1>4, <1>6, <2>1, <2>2 DEF Hashed, Reads
<1> QED BY <1>2, <1>6, <1>7 DEF IKnown, SourceShape, Serving, Told

\* Complete properties are cached as the file has them (properties).
LEMMA KnownProperties ==
    ASSUME IInv, IKnown, NEW o \in Owners, Properties(o)
    PROVE  IKnown'
<1>1. PICK outcome \in Loads(session, o, TRUE) : session' = outcome.session
  BY DEF Properties
<1>2. Serving /\ o \in session.objects /\ UNCHANGED <<disk, index, server, untold, work>>
  BY DEF Properties
<1>3. /\ Sound(session) /\ Whole(session) /\ Fresh(session, disk, Told) /\ SourceShape
      /\ Told \in SUBSET Owners /\ o \in session.paths
  BY <1>2 DEF IKnown, Told, Whole
<1>4. /\ Reads(session, session', o, TRUE)
      /\ session'.fingerprints[o] \in {disk[o], session.fingerprints[o]}
  <2> DEFINE read == outcome.session
  <2>1. /\ outcome.ok \in BOOLEAN /\ Reads(session, read, o, TRUE)
        /\ outcome.ok => /\ outcome.text = read.fingerprints[o]
                         /\ outcome.text \in Parsed
                         /\ outcome.text \in {session.fingerprints[o], disk[o]}
        /\ ~outcome.ok => read = session
        /\ ~outcome.ok /\ o \notin untold /\ session.fingerprints[o] \in {Nothing, disk[o]}
             => ~Readable(o)
    BY <1>1, <1>3, Loading DEF Sound
  <2> QED BY <1>1, <2>1
<1>5. Sound(session') /\ Fresh(session', disk, Told) /\ SameTree(session, session') /\ Whole(session')
  BY <1>3, <1>4, Reading
<1>6. ASSUME ~work.restarted PROVE Hashed(session', index, disk, Told)
  <2>1. Hashed(session, index, disk, Told)
    BY <1>6 DEF IKnown
  <2> QED BY <1>3, <1>4, <1>5, <2>1 DEF Hashed, Reads, SameTree
<1> QED BY <1>2, <1>5, <1>6 DEF IKnown, SourceShape, Serving, Told

\* A descriptor is indexed as the file has it, and what it no longer declares is
\* forgotten (index_step).
LEMMA KnownIndexStep ==
    ASSUME IInv, IKnown, NEW o \in Owners, IndexStep(o)
    PROVE  IKnown'
<1>1. PICK outcome \in Prepared(session, o) :
          IF outcome.ok
          THEN /\ index' = Settled(Indexed(index, o, outcome.text))
               /\ session' = Forget(outcome.session, Undeclared(index, o, outcome.text))
          ELSE /\ index' = Settled(Unread(index, o))
               /\ session' = outcome.session
  BY DEF IndexStep
<1>2. Serving /\ o \in index.pending /\ UNCHANGED <<disk, server, untold, work>>
  BY DEF IndexStep
<1> DEFINE read == outcome.session
           gone == Undeclared(index, o, disk[o])
<1>3. /\ Sound(session) /\ Whole(session) /\ Fresh(session, disk, Told) /\ SourceShape
      /\ Told \in SUBSET Owners /\ Ordered(index) /\ Current(index, disk, Told)
  BY <1>2 DEF IKnown, Told
<1>4. /\ outcome.ok \in BOOLEAN /\ Reads(session, read, o, FALSE)
      /\ read.fingerprints[o] \in {Nothing, disk[o], session.fingerprints[o]}
      /\ outcome.ok => outcome.text = disk[o] /\ Readable(o)
      /\ ~outcome.ok => read.fingerprints[o] \in {Nothing, session.fingerprints[o]}
      /\ ~outcome.ok /\ o \notin untold /\ session.fingerprints[o] \in {Nothing, disk[o]}
            => ~Readable(o)
  BY <1>1, <1>3, Preparing DEF Sound
<1>5. Sound(read) /\ Fresh(read, disk, Told) /\ SameTree(session, read) /\ Whole(read)
  BY <1>3, <1>4, Reading
<1>6. /\ work.restarted \/ Hashed(session, index, disk, Told)
      /\ \A x \in Owners \ {o} : read.fingerprints[x] = session.fingerprints[x]
  BY <1>4 DEF IKnown, Reads
<1>7. CASE ~outcome.ok
  <2>1. index' = Settled(Unread(index, o)) /\ session' = read
    BY <1>1, <1>7
  <2>2. /\ Ordered(index') /\ Current(index', disk, Told)
        /\ index'.paths = index.paths /\ index'.failures = index.failures \cup {o}
    BY <1>2, <1>3, <2>1, Unreading
  <2>3. ASSUME ~work.restarted PROVE Hashed(session', index', disk, Told)
    <3>1. o \in Told => ~Readable(o)
      BY <1>4, <1>6, <1>7, <2>3 DEF Hashed, Told
    <3> HIDE DEF read
    <3> QED BY <1>3, <1>4, <1>5, <1>6, <1>7, <2>1, <2>2, <2>3, <3>1 DEF Hashed, SameTree, Readable
  <2> HIDE DEF read
  <2> QED BY <1>2, <1>5, <2>1, <2>2, <2>3 DEF IKnown, SourceShape, Serving, Told
<1>8. CASE outcome.ok
  <2>1. /\ index' = Settled(Indexed(index, o, disk[o])) /\ session' = Forget(read, gone)
        /\ Readable(o)
    BY <1>1, <1>4, <1>8
  <2>2. /\ Ordered(index') /\ Current(index', disk, Told)
        /\ index'.failures \subseteq index.failures
        /\ index.paths \ gone \subseteq index'.paths /\ o \in index'.paths
    BY <1>2, <1>3, <2>1, Indexing
  <2> HIDE DEF read, gone
  <2>3. /\ Sound(session') /\ Whole(session') /\ SameTree(read, session')
        /\ \A x \in Owners :
             /\ session'.cache[x] = IF x \in gone THEN Nothing ELSE read.cache[x]
             /\ session'.fingerprints[x] = IF x \in gone THEN Nothing ELSE read.fingerprints[x]
    BY <1>5, <2>1, Forgetting, ForgettingSound DEF Sound
  <2>4. Fresh(session', disk, Told)
    BY <1>3, <1>5, <2>3 DEF Fresh, SameTree, Hit
  <2>5. ASSUME ~work.restarted PROVE Hashed(session', index', disk, Told)
    BY <1>3, <1>4, <1>5, <1>6, <2>2, <2>3, <2>5 DEF Hashed, SameTree
  <2> QED BY <1>2, <2>2, <2>3, <2>4, <2>5 DEF IKnown, SourceShape, Serving, Told
<1> QED BY <1>4, <1>7, <1>8

\* An index that is told only its state remembers the same.
LEMMA Stating ==
    ASSUME NEW i, Ordered(i), NEW source, NEW told \in SUBSET Owners, Current(i, source, told),
           i.state # "absent", NEW state \in {"building", "cancelled"}
    PROVE  LET k == [i EXCEPT !.state = state]
           IN  /\ Ordered(k) /\ Current(k, source, told) /\ k.state # "absent"
               /\ Root \in Recorded(k) \cup k.pending \cup k.failures
               /\ k.paths = i.paths /\ k.failures = i.failures
<1> DEFINE k == [i EXCEPT !.state = state]
<1>1. /\ k \in Indexes /\ k.state = state
      /\ k.records = i.records /\ k.refs = i.refs /\ k.pending = i.pending
      /\ k.failures = i.failures /\ k.dirty = i.dirty /\ k.paths = i.paths
  BY DEF Ordered, Indexes
<1> HIDE DEF k
<1>2. Recorded(k) = Recorded(i)
  BY <1>1 DEF Recorded
<1>3. Linked(k) /\ Stated(k) /\ Current(k, source, told)
  BY <1>1, <1>2 DEF Ordered, Linked, Stated, Current
<1> QED BY <1>1, <1>2, <1>3 DEF Ordered, Stated, k

\* An index that starts again forgets under which paths a hash is found
\* (metadata/index).
LEMMA KnownIndexControl ==
    ASSUME IInv, IKnown, IndexControl
    PROVE  IKnown'
<1>1. UNCHANGED <<disk, session, server, untold>> /\ Told \in SUBSET Owners
  BY DEF IndexControl, Told
<1>2. Ordered(index) /\ Current(index, disk, Told)
  BY DEF IKnown
<1>3. CASE /\ index' = Started
           /\ work' = [work EXCEPT !.restarted = @ \/ index.state # "absent"]
  <2>1. Ordered(index') /\ Current(index', disk, Told) /\ index'.failures = {}
    BY <1>1, <1>3, Starting, AnewHolds DEF Anew
  <2>2. /\ work' \in [edits : Nat, restarted : BOOLEAN]
        /\ ~work'.restarted => ~work.restarted /\ index.state = "absent"
    BY <1>3 DEF IKnown
  <2>3. ASSUME ~work'.restarted PROVE Hashed(session, index', disk, Told)
    <3>1. Hashed(session, index, disk, Told) /\ index.paths = {}
      BY <1>2, <2>2, <2>3 DEF IKnown, Ordered, Stated
    <3> QED BY <2>1, <3>1 DEF Hashed
  <2> QED BY <1>1, <2>1, <2>2, <2>3 DEF IKnown, SourceShape, Serving, Told
<1>4. CASE /\ index.state = "building"
           /\ index' = [index EXCEPT !.state = "cancelled"]
           /\ UNCHANGED work
  <2>1. /\ Ordered(index') /\ Current(index', disk, Told)
        /\ index'.paths = index.paths /\ index'.failures = index.failures
    BY <1>1, <1>2, <1>4, Stating
  <2>2. Hashed(session, index, disk, Told) => Hashed(session, index', disk, Told)
    BY <2>1 DEF Hashed
  <2> QED BY <1>1, <1>4, <2>1, <2>2 DEF IKnown, SourceShape, Serving, Told
<1>5. CASE /\ index.state = "cancelled"
           /\ index' = Settled([index EXCEPT !.state = "building"])
           /\ UNCHANGED work
  <2> DEFINE k == [index EXCEPT !.state = "building"]
  <2>1. /\ Ordered(k) /\ Current(k, disk, Told) /\ k.state # "absent"
        /\ Root \in Recorded(k) \cup k.pending \cup k.failures
        /\ k.paths = index.paths /\ k.failures = index.failures
    BY <1>1, <1>2, <1>5, Stating
  <2> HIDE DEF k
  <2>2. /\ Ordered(Settled(k)) /\ Current(Settled(k), disk, Told)
        /\ Settled(k).paths = k.paths /\ Settled(k).failures = k.failures
    BY <1>1, <2>1, Settling DEF Ordered
  <2>3. index' = Settled(k)
    BY <1>5 DEF k
  <2>4. Hashed(session, index, disk, Told) => Hashed(session, index', disk, Told)
    BY <2>1, <2>2, <2>3 DEF Hashed
  <2> QED BY <1>1, <1>5, <2>2, <2>3, <2>4 DEF IKnown, SourceShape, Serving, Told
<1> QED BY <1>3, <1>4, <1>5 DEF IndexControl

\* What a full invalidation leaves is true of every object (invalidate_all).
LEMMA FullInvalidation ==
    ASSUME IInv, IKnown, NEW outcome \in Invalidated(session, Everything),
           session' = outcome.session, index' = Rebuilt(index), server'.refresh = ~outcome.ok,
           disk' = disk, work' = work, untold' \subseteq Owners
    PROVE  IKnown'
<1>1. /\ SourceShape /\ Sound(session) /\ Fresh(session, disk, Told)
      /\ Told \in SUBSET Owners /\ Told' \in SUBSET Owners
      /\ Ordered(index) /\ Current(index, disk, Told)
  BY DEF IKnown, Told
<1>2. /\ session.paths \cup index.paths \cup {Root} \subseteq Everything
      /\ Owners \cap session.paths \subseteq Everything
  BY DEF Everything
<1>3. /\ outcome.ok \in BOOLEAN /\ Sound(session')
      /\ Fresh(session', disk, Told \cup Owners)
      /\ outcome.ok => Whole(session')
  BY <1>1, <1>2, Telling
<1>4. Fresh(session', disk, Told')
  BY <1>1, <1>3 DEF Fresh
<1>5. Ordered(index') /\ Current(index', disk, Told') /\ index'.failures = {}
  <2>1. CASE index.state = "absent" /\ index' = index
    <3>1. Recorded(index) = {} /\ index.failures = {} /\ \A o \in Owners : index.refs[o] = Nothing
      BY <1>1, <2>1 DEF Ordered, Linked, Stated
    <3> QED BY <1>1, <2>1, <3>1 DEF Current
  <2>2. CASE Anew(index')
    BY <1>1, <2>2, AnewHolds DEF Anew
  <2> QED BY <1>1, <2>1, <2>2, Rebuilding
<1>6. ASSUME ~work.restarted PROVE Hashed(session', index', disk, Told')
  <2>1. Hashed(session, index, disk, Told)
    BY <1>6 DEF IKnown
  <2>2. Hashed(session', index', disk, Owners)
    BY <1>1, <1>2, <1>5, <2>1, TellingAll
  <2> QED BY <1>1, <2>2 DEF Hashed
<1>7. SourceShape' /\ work' \in [edits : Nat, restarted : BOOLEAN]
  BY DEF IKnown, SourceShape
<1>8. Serving' => outcome.ok
  BY <1>3 DEF Serving
<1> QED BY <1>3, <1>4, <1>5, <1>6, <1>7, <1>8 DEF IKnown

\* What an invalidation of some objects leaves is true of what it was told of,
\* whichever other objects it forgets (invalidate).
LEMMA PartInvalidation ==
    ASSUME IInv, IKnown, Serving, NEW owners, NEW more \in SUBSET Owners,
           more \cap (session.paths \cup index.paths \cup {Root}) \subseteq owners,
           NEW outcome \in Invalidated(session, owners),
           session' = outcome.session, index' = Superseded(index, owners),
           outcome.ok \/ server'.refresh,
           disk' = disk, work' = work, untold' = untold \ more
    PROVE  IKnown'
<1>1. /\ SourceShape /\ Sound(session) /\ Fresh(session, disk, Told) /\ Whole(session)
      /\ Told \in SUBSET Owners /\ Told' = Told \cup more
      /\ Ordered(index) /\ Current(index, disk, Told)
  BY DEF IKnown, Told, IInv, IShape
<1>2. /\ Sound(session') /\ Fresh(session', disk, Told')
      /\ outcome.ok => Whole(session')
  <2>1. more \cap session.paths \subseteq owners
    OBVIOUS
  <2>2. /\ outcome.ok \in BOOLEAN /\ (Root \notin owners => outcome.ok)
        /\ Sound(session') /\ Fresh(session', disk, Told \cup more)
        /\ outcome.ok /\ (Whole(session) \/ Root \in owners) => Whole(session')
    BY <1>1, <2>1, Telling
  <2> QED BY <1>1, <2>2
<1>3. /\ Ordered(index') /\ index'.paths = index.paths /\ index'.failures \subseteq index.failures
      /\ index'.failures \cap more = {}
      /\ Current(index', disk, Told')
  <2>1. more \cap (index.paths \cup {Root}) \subseteq owners
    OBVIOUS
  <2>2. /\ Ordered(index') /\ index'.paths = index.paths /\ index'.failures \subseteq index.failures
        /\ index'.failures \cap more = {}
        /\ Current(index', disk, Told \cup more)
    BY <1>1, <2>1, Superseding
  <2> QED BY <1>1, <2>2
<1>4. ASSUME ~work.restarted PROVE Hashed(session', index', disk, Told')
  <2>1. Hashed(session, index, disk, Told)
    BY <1>4 DEF IKnown
  <2>2. more \cap (session.paths \cup index.paths) \subseteq owners
    OBVIOUS
  <2>3. Hashed(session', index', disk, Told \cup more)
    BY <1>1, <1>3, <2>1, <2>2, TellingHashes
  <2> QED BY <1>1, <2>3
<1>5. SourceShape' /\ work' \in [edits : Nat, restarted : BOOLEAN]
  BY DEF IKnown, SourceShape
<1> QED BY <1>2, <1>3, <1>4, <1>5 DEF IKnown, Serving

\* A refresh of the root invalidates everything, one of a branch that branch
\* (metadata/refresh).
LEMMA KnownRefresh ==
    ASSUME IInv, IKnown, NEW o \in Owners, NEW reset \in BOOLEAN, Refresh(o, reset)
    PROVE  IKnown'
<1>1. PICK outcome \in Invalidated(session, IF o = Root THEN Everything ELSE {o}) :
          LET restarted == outcome.ok /\ reset
          IN  /\ session' = outcome.session
              /\ server' = [server EXCEPT !.refresh = IF o = Root THEN ~outcome.ok ELSE @,
                                          !.file = IF restarted THEN 0 ELSE @]
  BY DEF Refresh
<1>2. /\ index' = IF o = Root THEN Rebuilt(index) ELSE Superseded(index, {o})
      /\ untold' = IF o = Root THEN {} ELSE untold \ {o}
      /\ server.refresh \/ reset => o = Root
      /\ UNCHANGED <<disk, work>>
  BY DEF Refresh
<1>3. server'.refresh = IF o = Root THEN ~outcome.ok ELSE server.refresh
  BY <1>1 DEF IInv, IShape
<1>4. CASE o = Root
  BY <1>1, <1>2, <1>3, <1>4, FullInvalidation
<1>5. CASE o # Root
  <2>1. outcome \in Invalidated(session, {o}) /\ session' = outcome.session
    BY <1>1, <1>5
  <2>2. Serving /\ {o} \in SUBSET Owners
    BY <1>2, <1>5 DEF Serving
  <2>3. outcome.ok
    <3>1. Root \notin {o} /\ outcome = Outcome(TRUE, Nothing, Collapsed(Forget(session, {o}), {o} \ {Root}))
      BY <1>5, <2>1 DEF Invalidated
    <3> QED BY <3>1 DEF Outcome
  <2>4. {o} \cap (session.paths \cup index.paths \cup {Root}) \subseteq {o}
    OBVIOUS
  <2> QED BY <1>2, <1>5, <2>1, <2>2, <2>3, <2>4, PartInvalidation
<1> QED BY <1>4, <1>5

\* A path that is known is its own owner (path_owner).
LEMMA Owning ==
    ASSUME NEW o \in session.paths \cup index.paths
    PROVE  PathOwner(o) = o
<1> QED BY DEF PathOwner

\* A packet is told to the session before its changes count as told
\* (files_changed).
LEMMA KnownFilesChanged ==
    ASSUME IInv, IKnown, FilesChanged
    PROVE  IKnown'
<1> DEFINE packet == Head(queue)
           owners == {PathOwner(o) : o \in packet.paths}
<1>1. queue # <<>> /\ UNCHANGED <<disk, work>>
  BY DEF FilesChanged
<1>2. packet \in Packet /\ packet.paths \in SUBSET Owners
  <2>1. packet \in Packet
    BY <1>1 DEF IInv, IShape
  <2> QED BY <2>1 DEF Packet
<1>3. CASE packet.sequence # server.file + 1 \/ ~Serving
  <2>1. /\ server' = [server EXCEPT !.file = packet.sequence, !.refresh = TRUE]
        /\ UNCHANGED <<session, index, untold>>
    BY <1>3 DEF FilesChanged
  <2>2. server'.refresh
    BY <2>1 DEF IInv, IShape
  <2> QED BY <1>1, <2>1, <2>2 DEF IKnown, SourceShape, Serving, Told
<1>4. CASE ~(packet.sequence # server.file + 1 \/ ~Serving)
  <2>1. /\ index' = IF Nothing \in owners THEN Rebuilt(index) ELSE Superseded(index, owners)
        /\ \E outcome \in Invalidated(session, IF Nothing \in owners THEN Everything ELSE owners) :
              /\ session' = outcome.session
              /\ server' = [server EXCEPT !.file = packet.sequence, !.refresh = ~outcome.ok]
        /\ untold' = untold \ packet.paths
    BY <1>4 DEF FilesChanged
  <2>2. PICK outcome \in Invalidated(session, IF Nothing \in owners THEN Everything ELSE owners) :
              /\ session' = outcome.session
              /\ server' = [server EXCEPT !.file = packet.sequence, !.refresh = ~outcome.ok]
    BY <2>1
  <2>3. server'.refresh = ~outcome.ok
    BY <2>2 DEF IInv, IShape
  <2>4. untold' \subseteq Owners
    BY <2>1 DEF IInv, IShape
  <2>5. ASSUME NEW o \in packet.paths, o \in session.paths \cup index.paths PROVE o \in owners
    <3>1. PathOwner(o) = o
      BY <2>5, Owning
    <3> QED BY <3>1, Zenon
  <2> HIDE DEF owners, packet
  <2>6. CASE Nothing \in owners
    BY <1>1, <2>1, <2>2, <2>3, <2>4, <2>6, FullInvalidation
  <2>7. CASE Nothing \notin owners
    <3>1. Serving /\ Root \in session.paths
      BY <1>4 DEF IKnown, Whole, Sound, Tree
    <3>2. packet.paths \cap (session.paths \cup index.paths \cup {Root}) \subseteq owners
      BY <2>5, <3>1
    <3>3. /\ outcome \in Invalidated(session, owners) /\ index' = Superseded(index, owners)
          /\ outcome.ok \/ server'.refresh
      BY <2>1, <2>2, <2>3, <2>7
    <3> QED BY <1>1, <1>2, <2>1, <2>2, <3>1, <3>2, <3>3, PartInvalidation
  <2> QED BY <2>6, <2>7
<1> QED BY <1>3, <1>4

\* What changes is no longer told.
LEMMA KnownEdit ==
    ASSUME IInv, IKnown, NEW o \in Owners, Edit(o)
    PROVE  IKnown'
<1>1. PICK text \in Contents[o] : disk' = [disk EXCEPT ![o] = text]
  BY DEF Edit
<1>2. /\ untold' = untold \cup {o} /\ work' = [work EXCEPT !.edits = @ + 1]
      /\ UNCHANGED <<session, index, server>>
  BY DEF Edit
<1>3. SourceShape'
  BY <1>1 DEF IKnown, SourceShape
<1>4. Told' \subseteq Told /\ \A x \in Told' : disk'[x] = disk[x]
  BY <1>1, <1>2 DEF IKnown, SourceShape, Told
<1>5. /\ work' \in [edits : Nat, restarted : BOOLEAN] /\ work'.restarted = work.restarted
  BY <1>2 DEF IKnown
<1>6. Fresh(session, disk', Told') /\ Current(index, disk', Told')
  BY <1>4 DEF IKnown, Fresh, Current
<1>7. Hashed(session, index, disk, Told) => Hashed(session, index, disk', Told')
  BY <1>4 DEF Hashed
<1> QED BY <1>2, <1>3, <1>5, <1>6, <1>7 DEF IKnown, Serving

\* Every step keeps what the answers rest on.
LEMMA StepKnown == IInv /\ IKnown /\ [Next]_vars => IKnown'
<1> SUFFICES ASSUME IInv, IKnown, [Next]_vars PROVE IKnown'
  OBVIOUS
<1>1. CASE UNCHANGED vars
  BY <1>1 DEF vars, IKnown, SourceShape, Serving, Told
<1>2. CASE FileOverflow
  <2>1. /\ server' = [server EXCEPT !.refresh = TRUE]
        /\ UNCHANGED <<disk, session, index, untold, work>>
    BY <1>2 DEF FileOverflow
  <2>2. server'.refresh
    BY <2>1 DEF IInv, IShape
  <2> QED BY <2>1, <2>2 DEF IKnown, SourceShape, Serving, Told
<1>3. CASE Send \/ Resume
  <2>1. UNCHANGED <<disk, session, index, server, untold, work>>
    BY <1>3 DEF Send, Resume
  <2> QED BY <2>1 DEF IKnown, SourceShape, Serving, Told
<1> QED
  BY <1>1, <1>2, <1>3, KnownChildren, KnownProperties, KnownIndexStep, KnownEdit, KnownRefresh,
     KnownIndexControl, KnownFilesChanged DEF Next

-----------------------------------------------------------------------------
(* What the properties ask for.                                             *)

\* What is served is what the files have.
LEMMA KnownCoherent == IKnown => Coherent
<1> SUFFICES ASSUME IKnown, Serving PROVE TreeSound /\ \A o \in Told :
                 /\ o \in session.expanded => session.shown[o] = disk[o]
                 /\ Hit(session, o, TRUE) => session.cache[o].text = disk[o]
                 /\ o \in Visible(index) /\ index.records[o].owner \in Told
                       => index.records[o].text = disk[index.records[o].owner]
  BY DEF Coherent
<1>1. /\ Tree(session) /\ Whole(session) /\ Fresh(session, disk, Told)
      /\ Linked(index) /\ Current(index, disk, Told)
  BY DEF IKnown, Sound, Ordered
<1>2. TreeSound
  <2> DEFINE shown == {session.shown[o].refs : o \in session.expanded}
  <2>1. ASSUME NEW x \in session.objects PROVE x \in {Root} \cup UNION shown
    <3>1. CASE x # Root
      <4>1. Parent[x] \in session.expanded /\ x \in session.shown[Parent[x]].refs
        BY <1>1, <3>1 DEF Tree
      <4>2. session.shown[Parent[x]].refs \in shown
        BY <4>1, Zenon
      <4> QED BY <4>1, <4>2
    <3> QED BY <3>1
  <2>2. ASSUME NEW x \in UNION shown PROVE x \in session.objects
    <3>1. PICK o \in session.expanded : x \in session.shown[o].refs
      BY <2>2, Zenon
    <3> QED BY <1>1, <3>1 DEF Tree
  <2>3. Root \in session.objects
    BY <1>1 DEF Tree
  <2>4. session.objects = {Root} \cup UNION shown
    <3> HIDE DEF shown
    <3> QED BY <2>1, <2>2, <2>3
  <2> QED BY <1>1, <2>4 DEF TreeSound, Tree, Whole
<1>3. ASSUME NEW o \in Told, o \in Visible(index), index.records[o].owner \in Told
      PROVE  index.records[o].text = disk[index.records[o].owner]
  <2> DEFINE w == index.records[o].owner
  <2>1. o \in Recorded(index) /\ o \in Owners /\ ({o} \cup Above[o]) \cap index.dirty = {}
    BY <1>3 DEF Visible, Recorded
  <2>2. w = o \/ (o # Root /\ w = Parent[o])
    BY <1>1, <2>1 DEF Linked
  <2>3. w \in Told \ index.dirty
    BY <1>3, <2>1, <2>2, AboveSteps
  <2> QED BY <1>1, <2>1, <2>3 DEF Current
<1> QED BY <1>1, <1>2, <1>3 DEF Fresh

\* What was told is neither refused nor wrongly reported.
LEMMA KnownUnrefused == IKnown => Unrefused
<1> QED BY DEF IKnown, Unrefused, Hashed, Readable

\* An index with nothing left to read has what a walk over the files finds.
LEMMA KnownComplete == IKnown => ReadyIsComplete
<1> SUFFICES ASSUME IKnown, untold = {}, index.state = "ready" PROVE Visible(index) = Reachable
  BY DEF ReadyIsComplete
<1> DEFINE found == Recorded(index)
<1>1. /\ Linked(index) /\ Stated(index) /\ Current(index, disk, Owners) /\ found \subseteq Owners
  BY DEF IKnown, Ordered, Told, Recorded
<1>2. index.pending = {} /\ index.failures = {} /\ index.dirty = {}
  BY <1>1 DEF Stated, Linked
<1>3. Root \in found /\ Visible(index) = found
  BY <1>1, <1>2 DEF Stated, Visible
<1>4. \A x \in found : /\ index.refs[x] # Nothing /\ index.refs[x] = disk[x].refs
                       /\ Readable(x) /\ disk[x].refs \subseteq found
  BY <1>1, <1>2 DEF Linked, Current, Readable
<1>5. \A x \in found \ {Root} : Parent[x] \in found /\ x \in disk[Parent[x]].refs
  <2>1. ASSUME NEW x \in found \ {Root} PROVE Parent[x] \in found /\ x \in disk[Parent[x]].refs
    <3>1. Parent[x] \in Owners
      BY <1>1, AboveSteps
    <3>2. index.refs[Parent[x]] # Nothing /\ x \in index.refs[Parent[x]]
      BY <1>1 DEF Linked
    <3>3. Parent[x] \in found
      BY <1>1, <3>1, <3>2 DEF Linked
    <3> QED BY <1>4, <3>2, <3>3
  <2> QED BY <2>1
<1> HIDE DEF found
<1>6. ASSUME NEW x \in found PROVE x \in Reachable
  <2> DEFINE S == {y \in Owners : y \in found => Above[y] \subseteq found}
  <2>1. S \in SUBSET Owners /\ Root \in S
    BY AboveSteps, SessionAssumption
  <2>2. ASSUME NEW y \in Owners \ {Root}, Parent[y] \in S PROVE y \in S
    BY <1>5, <2>2, AboveSteps
  <2>3. S = Owners
    BY <2>1, <2>2, TreeAssumption, Zenon
  <2>4. {x} \cup Above[x] \subseteq found
    BY <1>1, <1>6, <2>3
  <2>5. ASSUME NEW o \in {x} \cup Above[x]
        PROVE  /\ Readable(o)
               /\ o # Root => Readable(Parent[o]) /\ o \in disk[Parent[o]].refs
    BY <1>4, <1>5, <2>4
  <2> QED BY <1>1, <1>6, <2>5 DEF Reachable
<1>7. ASSUME NEW x \in Reachable PROVE x \in found
  <2> DEFINE S == {y \in Owners : y \in Reachable => y \in found}
  <2>1. S \in SUBSET Owners /\ Root \in S
    BY <1>3, SessionAssumption
  <2>2. ASSUME NEW y \in Owners \ {Root}, Parent[y] \in S PROVE y \in S
    <3>1. SUFFICES ASSUME y \in Reachable PROVE y \in found
      OBVIOUS
    <3>2. Above[y] = {Parent[y]} \cup Above[Parent[y]] /\ Parent[y] \in Owners
      BY AboveSteps
    <3>3. Parent[y] \in Reachable /\ y \in disk[Parent[y]].refs
      BY <2>2, <3>1, <3>2 DEF Reachable
    <3>4. Parent[y] \in found
      BY <2>2, <3>3
    <3> QED BY <1>4, <3>3, <3>4
  <2>3. S = Owners
    BY <2>1, <2>2, TreeAssumption, Zenon
  <2> QED BY <2>3 DEF Reachable
<1> QED BY <1>3, <1>6, <1>7

\* Whatever the session remembers of the files is found by a notification, and
\* true of the files it was told of.
THEOREM KnownInductive == Spec => [](IInv /\ IKnown)
<1> QED BY OpensKnown, StepKnown, Inductive, PTL DEF Spec

\* While the project answers, the tree is what the expanded descriptors declare,
\* and no expanded branch, cached set of properties or visible hit of the search
\* is older than a file the session was told of (invalidate, refresh_root,
\* SearchIndex::invalidate).
THEOREM AnswersAreCoherent == Spec => []Coherent
<1> QED BY KnownCoherent, KnownInductive, PTL

\* Once every change has been told, an index that calls itself ready holds exactly
\* what a walk over the source tree finds (index_descriptor,
\* remove_search_subtrees, settle).
THEOREM ReadyMeansComplete == Spec => []ReadyIsComplete
<1> QED BY KnownComplete, KnownInductive, PTL

\* Unless the index was started again, no descriptor stays refused as changed, or
\* reported as unreadable, after its change was told (verify_source, path_owner).
THEOREM NothingStaysRefused == Spec => []Unrefused
<1> QED BY KnownUnrefused, KnownInductive, PTL
=============================================================================
