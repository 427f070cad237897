--------------------------- MODULE MetadataSession ---------------------------
(***************************************************************************)
(* One open project of the IDE server: what it remembers of the source     *)
(* files, and how the notifications of the client make it forget.          *)
(*                                                                         *)
(* ProjectSession (eska-project-core, metadata_workspace) reads a          *)
(* descriptor only when somebody asks for it.  It keeps the branches of    *)
(* the tree that were expanded, a bounded cache of parsed descriptors, the *)
(* hash of every descriptor it read and an index for the search, which is  *)
(* filled one descriptor at a time while the worker has nothing to do.     *)
(* Nothing in the server watches the files: the client does, and sends     *)
(* numbered packets of changed paths (ide/events.rs) through the bounded   *)
(* queue of the runtime.  A packet that is lost, repeated or refused       *)
(* stops every answer until the client refreshes the root.                 *)
(*                                                                         *)
(* A descriptor stands for the object it declares; its path is known       *)
(* through the names of the object and of its owners, so the objects are   *)
(* their own paths here.  Every invalidation raises the generation of the  *)
(* session, and a request of an older one is refused without effect; that  *)
(* counter is left out, as are the modules of an object, its predefined    *)
(* data, the support policy, the cache on disk, edits of properties and a  *)
(* change of the manifest.                                                 *)
(***************************************************************************)
EXTENDS Naturals, Sequences, FiniteSets

CONSTANTS
    Owners,      \* objects with a descriptor of their own
    Root,        \* the configuration itself
    Parent,      \* the object that declares it, of every other object
    Contents,    \* what the descriptor of each object may contain
    Missing,     \* there is no such file
    Malformed,   \* there is one that does not parse
    Nothing,     \* not cached, not hashed, not indexed
    CacheLimit,  \* descriptors the cache retains
    MaxEdits,    \* bound: changes of the source files
    MaxQueue     \* bound: packets waiting in the queue of the runtime

ASSUME SessionAssumption ==
    /\ Root \in Owners
    /\ Parent \in [Owners \ {Root} -> Owners]
    /\ Nothing \notin {Missing, Malformed}
    /\ CacheLimit \in Nat \ {0}
    /\ MaxEdits \in Nat /\ MaxQueue \in Nat

\* Every object is somewhere under the root.
ASSUME TreeAssumption ==
    \A S \in SUBSET Owners :
        Root \in S /\ (\A o \in Owners \ {Root} : Parent[o] \in S => o \in S) => S = Owners

VARIABLES
    disk,        \* the descriptors in the source directory
    session,     \* ProjectSession: tree, cache, hashes
    index,       \* SearchIndex
    server,      \* ProjectState: refresh, file
    queue,       \* packets between reader and worker
    lost,        \* Queue::overflow: a packet found the queue full
    client,      \* the watcher: unsent changes, the next number, its state
    untold,      \* history: changed since the session was last told of it
    work         \* history: edits so far, and an index started anew

vars == <<disk, session, index, server, queue, lost, client, untold, work>>

-----------------------------------------------------------------------------
(***************************************************************************)
(* The source tree.                                                        *)
(***************************************************************************)
Declared(o) == {x \in Owners \ {Root} : Parent[x] = o}

Above[o \in Owners] == IF o = Root THEN {} ELSE {Parent[o]} \cup Above[Parent[o]]

\* A branch: an object and everything declared under it.
Branch(o) == {x \in Owners : x = o \/ o \in Above[x]}

Parsed == (UNION {Contents[o] : o \in Owners}) \ {Missing, Malformed}

\* A descriptor names objects it declares itself, and may name them all.
ASSUME ContentsAssumption ==
    \A o \in Owners :
        /\ \A text \in Contents[o] \cap Parsed : text.refs \subseteq Declared(o)
        /\ \E text \in Contents[o] \cap Parsed : text.refs = Declared(o)

\* Nothing is no text, no entry of the cache or of the index and no set.
ASSUME NothingAssumption ==
    /\ Nothing \notin Parsed
    /\ Nothing \notin [text : Parsed, full : BOOLEAN]
    /\ Nothing \notin [owner : Owners, text : Parsed]
    /\ \A refs \in SUBSET Owners : refs # Nothing

Readable(o) == disk[o] \in Parsed

\* What a complete walk from the root finds.
Reachable == {x \in Owners : \A o \in {x} \cup Above[x] :
                 /\ Readable(o)
                 /\ o # Root => Readable(Parent[o]) /\ o \in disk[Parent[o]].refs}

-----------------------------------------------------------------------------
(***************************************************************************)
(* Reading a descriptor.  Each operator gives the set of possible outcomes *)
(* of the call: whether it succeeded, the text it returned and the session *)
(* it leaves.                                                              *)
(***************************************************************************)
Outcome(ok, text, s) == [ok |-> ok, text |-> text, session |-> s]

\* A summary does not answer a request for the complete properties.
Hit(s, o, full) == s.cache[o] # Nothing /\ (full => s.cache[o].full)

\* Older entries make room for the new one; their hashes stay.
Trimmed(s, o) ==
    LET others == {x \in Owners : s.cache[x] # Nothing} \ {o}
        kept == {old \in SUBSET others : Cardinality(old) < CacheLimit
                    /\ (Cardinality(old) = CacheLimit - 1 \/ old = others)}
    IN  {[s EXCEPT !.cache = [x \in Owners |-> IF x \in old \cup {o} THEN @[x] ELSE Nothing]] :
            old \in kept}

Admitted(s, o, full) ==
    [s EXCEPT !.cache[o] = [text |-> disk[o], full |-> full], !.fingerprints[o] = disk[o]]

\* A read is refused when the file is not what was hashed before, and when
\* a writer came between the first reading and the second one.
Loads(s, o, full) ==
    IF Hit(s, o, full) THEN {Outcome(TRUE, s.cache[o].text, s)}
    ELSE (IF Readable(o) /\ s.fingerprints[o] \in {Nothing, disk[o]}
          THEN {Outcome(TRUE, disk[o], t) : t \in Trimmed(Admitted(s, o, full), o)}
          ELSE {Outcome(FALSE, Nothing, s)})
         \cup {Outcome(FALSE, Nothing, s) : x \in untold \cap {o}}

Forget(s, gone) ==
    [s EXCEPT !.cache = [x \in Owners |-> IF x \in gone THEN Nothing ELSE s.cache[x]],
              !.fingerprints = [x \in Owners |-> IF x \in gone THEN Nothing ELSE s.fingerprints[x]]]

\* verify_source: the hash is compared once more before anything is shown.
Verified(outcome, o) ==
    LET refused == Outcome(FALSE, Nothing, Forget(outcome.session, {o}))
    IN  IF ~outcome.ok THEN {outcome}
        ELSE IF disk[o] = Missing THEN {Outcome(FALSE, Nothing, outcome.session)}
        ELSE (IF disk[o] = outcome.session.fingerprints[o] THEN {outcome} ELSE {refused})
             \cup {refused : x \in untold \cap {o}}

Prepared(s, o) == UNION {Verified(outcome, o) : outcome \in Loads(s, o, FALSE)}

\* expand: the branch is published as a whole, once its text is verified.
Published(s, o, text) ==
    [s EXCEPT !.expanded = @ \cup {o},
              !.shown[o] = text,
              !.objects = @ \cup {o} \cup text.refs,
              !.paths = @ \cup {o} \cup text.refs]

-----------------------------------------------------------------------------
(***************************************************************************)
(* Forgetting.                                                             *)
(***************************************************************************)

\* Mutant: the descriptors of the descendants stay in the cache.
CollapsedOnTop(s, owners) ==
    LET below == (UNION {Branch(o) \ {o} : o \in owners}) \cap s.objects
        closed == Forget(s, s.paths \cap owners)
    IN  [closed EXCEPT !.expanded = @ \ (owners \cup below),
                       !.shown = [o \in Owners |-> IF o \in owners \cup below THEN Nothing ELSE @[o]],
                       !.objects = @ \ below,
                       !.paths = @ \ (below \cup (owners \ s.objects))]

\* collapse and remove_collapsed_paths: the descendants are no longer exposed,
\* the owner stays selectable.
Collapsed(s, owners) ==
    LET below == (UNION {Branch(o) \ {o} : o \in owners}) \cap s.objects
        closed == Forget(s, s.paths \cap (owners \cup below))
    IN  [closed EXCEPT !.expanded = @ \ (owners \cup below),
                       !.shown = [o \in Owners |-> IF o \in owners \cup below THEN Nothing ELSE @[o]],
                       !.objects = @ \ below,
                       !.paths = @ \ (below \cup (owners \ s.objects))]

\* refresh_root: the root is read again; the expanded branches it still
\* declares are kept as they are, the others are dropped with their cache.
Grafted(s, text, read) ==
    LET kept == UNION {Branch(o) : o \in text.refs \cap s.expanded}
        objects == {Root} \cup text.refs \cup (kept \cap s.objects)
    IN  [Forget(read, s.objects \ objects) EXCEPT
            !.expanded = {Root} \cup (kept \cap s.expanded),
            !.shown = [o \in Owners |-> IF o = Root THEN text
                                        ELSE IF o \in kept THEN s.shown[o] ELSE Nothing],
            !.objects = objects,
            !.paths = objects]

\* A root that cannot be read leaves the bare root and forgets all files.
Bare(s) == [Forget(Collapsed(s, {Root}), Owners) EXCEPT !.paths = {}]

RootRead(s) ==
    {IF outcome.ok THEN Outcome(TRUE, outcome.text, Grafted(s, outcome.text, outcome.session))
     ELSE Outcome(FALSE, Nothing, Bare(s)) : outcome \in Prepared(Forget(s, {Root}), Root)}

\* invalidate, as far as the tree and the cache go.
Invalidated(s, owners) ==
    LET closed == Collapsed(Forget(s, owners), owners \ {Root})
    IN  IF Root \in owners THEN RootRead(closed) ELSE {Outcome(TRUE, Nothing, closed)}

-----------------------------------------------------------------------------
(***************************************************************************)
(* The search index.                                                       *)
(***************************************************************************)
EmptyIndex(state) ==
    [state |-> state,
     records |-> [o \in Owners |-> Nothing],
     refs |-> [o \in Owners |-> Nothing],
     pending |-> {}, failures |-> {}, dirty |-> {}, paths |-> {}]

\* start_search_index
Started == [EmptyIndex("building") EXCEPT !.pending = {Root}]

Recorded(i) == {o \in Owners : i.records[o] # Nothing}

\* A record is hidden while its descriptor or that of an ancestor is stale.
Visible(i) == {o \in Recorded(i) : ({o} \cup Above[o]) \cap i.dirty = {}}

Settled(i) ==
    IF i.state \in {"cancelled", "absent"} THEN i
    ELSE [i EXCEPT !.state = IF i.pending # {} THEN "building"
                             ELSE IF i.failures = {} THEN "ready" ELSE "incomplete"]

\* SearchIndex::invalidate for each owner: an object nobody indexed yet is
\* left to the walk that will find it.
Superseded(i, owners) ==
    LET known == IF i.state = "absent" THEN {} ELSE owners \cap (Recorded(i) \cup {Root})
    IN  [i EXCEPT !.pending = @ \cup known, !.dirty = @ \cup known,
                  !.failures = @ \ known,
                  !.state = IF known # {} /\ @ # "cancelled" THEN "building" ELSE @]

\* A full invalidation starts the index anew, and leaves it paused when it was.
Rebuilt(i) ==
    IF i.state = "absent" THEN i
    ELSE [Started EXCEPT !.state = IF i.state = "cancelled" THEN "cancelled" ELSE "building"]

\* Mutant: what a descriptor no longer declares stays in the index.
UndeclaredKept(i, o, text) == {}

\* remove_search_subtrees for what a descriptor no longer declares.
Undeclared(i, o, text) ==
    IF i.refs[o] = Nothing THEN {}
    ELSE {x \in Recorded(i) : \E r \in i.refs[o] \ text.refs : x \in Branch(r)}

\* The records one descriptor gives: its own, and one by name for each
\* object it declares that has none.
Indexed(i, o, text) ==
    LET gone == Undeclared(i, o, text)
        replaced == IF i.refs[o] = Nothing THEN gone
                    ELSE gone \cup {x \in Recorded(i) : i.records[x].owner = o}
        named == {x \in text.refs : x \notin Recorded(i) \ replaced}
        new == {x \in text.refs : i.refs[x] = Nothing /\ x \notin i.failures}
    IN  [i EXCEPT
            !.records = [x \in Owners |->
                IF x \in named \cup {o} THEN [owner |-> o, text |-> text]
                ELSE IF x \in replaced THEN Nothing ELSE @[x]],
            !.refs = [x \in Owners |->
                IF x = o THEN text.refs ELSE IF x \in gone THEN Nothing ELSE @[x]],
            !.pending = (@ \ (gone \cup {o})) \cup new,
            !.failures = @ \ (gone \cup {o}),
            !.dirty = @ \ (gone \cup {o}),
            !.paths = (@ \ gone) \cup {o} \cup named]

Unread(i, o) ==
    [i EXCEPT !.pending = @ \ {o}, !.failures = @ \cup {o}, !.dirty = @ \cup {o}]

-----------------------------------------------------------------------------
(***************************************************************************)
(* Requests.  The worker hears of a lost packet before it takes the next   *)
(* job, and refuses them all while the project waits for a refresh of its  *)
(* root.  A change of the index shows in its records only: a search reads  *)
(* what is visible of them.                                                *)
(***************************************************************************)
Serving == ~server.refresh

Idle == ~lost

\* metadata/children
Children(o) ==
    /\ Idle /\ Serving
    /\ o \in session.objects \ session.expanded
    /\ \E outcome \in Prepared(session, o) :
          session' = IF outcome.ok THEN Published(outcome.session, o, outcome.text)
                                   ELSE outcome.session
    /\ UNCHANGED <<disk, index, server, queue, lost, client, untold, work>>

\* metadata/properties
Properties(o) ==
    /\ Idle /\ Serving
    /\ o \in session.objects
    /\ \E outcome \in Loads(session, o, TRUE) : session' = outcome.session
    /\ UNCHANGED <<disk, index, server, queue, lost, client, untold, work>>

\* metadata/index: start, cancel, resume
IndexControl ==
    /\ Idle /\ Serving
    /\ \/ /\ index' = Started
          /\ work' = [work EXCEPT !.restarted = @ \/ index.state # "absent"]
       \/ /\ index.state = "building"
          /\ index' = [index EXCEPT !.state = "cancelled"]
          /\ UNCHANGED work
       \/ /\ index.state = "cancelled"
          /\ index' = Settled([index EXCEPT !.state = "building"])
          /\ UNCHANGED work
    /\ UNCHANGED <<disk, session, server, queue, lost, client, untold>>

\* index_step: one pending descriptor, when no job waits.
IndexStep(o) ==
    /\ Idle /\ Serving
    /\ queue = <<>>
    /\ index.state = "building"
    /\ o \in index.pending
    /\ \E outcome \in Prepared(session, o) :
          IF outcome.ok
          THEN /\ index' = Settled(Indexed(index, o, outcome.text))
               /\ session' = Forget(outcome.session, Undeclared(index, o, outcome.text))
          ELSE /\ index' = Settled(Unread(index, o))
               /\ session' = outcome.session
    /\ UNCHANGED <<disk, server, queue, lost, client, untold, work>>

\* Mutant: the objects only the index knows are left out.
EverythingShown == session.paths \cup {Root}

\* invalidate_all: everything a path is known of, and the root.
Everything == session.paths \cup index.paths \cup {Root}

\* metadata/refresh.  Only a refresh of the root is accepted while the
\* project waits for one; it also may reset the numbering of the packets.
Refresh(o, reset) ==
    /\ Idle
    /\ server.refresh \/ reset => o = Root
    /\ o \in session.objects
    /\ index' = IF o = Root THEN Rebuilt(index) ELSE Superseded(index, {o})
    /\ \E outcome \in Invalidated(session, IF o = Root THEN Everything ELSE {o}) :
          LET restarted == outcome.ok /\ reset
          IN  /\ session' = outcome.session
              /\ server' = [server EXCEPT !.refresh = IF o = Root THEN ~outcome.ok ELSE @,
                                          !.file = IF restarted THEN 0 ELSE @]
              /\ queue' = IF restarted THEN <<>> ELSE queue
              /\ client' =
                    IF restarted THEN [unsent |-> {}, next |-> 1, watcher |-> "stopped"]
                    ELSE IF outcome.ok /\ o = Root /\ client.watcher = "resumed"
                    THEN [client EXCEPT !.watcher = "watching"]
                    ELSE client
    /\ untold' = IF o = Root THEN {} ELSE untold \ {o}
    /\ UNCHANGED <<disk, lost, work>>

-----------------------------------------------------------------------------
(***************************************************************************)
(* Notifications.                                                          *)
(***************************************************************************)

\* path_owner: the descriptor itself when its path is known, otherwise the
\* nearest known one that encloses it; the root encloses nothing by path.
PathOwner(o) ==
    LET known == session.paths \cup index.paths
        around == (Above[o] \cap known) \ {Root}
    IN  IF o \in known THEN o
        ELSE IF around = {} THEN Nothing
        ELSE CHOOSE x \in around : \A y \in around : y = x \/ y \in Above[x]

\* files_changed: a packet in sequence makes the session forget the owners
\* of its paths; any other one, and a root that cannot be read, asks for a
\* refresh.
FilesChanged ==
    /\ Idle
    /\ queue # <<>>
    /\ LET packet == Head(queue)
           owners == {PathOwner(o) : o \in packet.paths}
           full == Nothing \in owners
       IN  IF packet.sequence # server.file + 1 \/ ~Serving
           THEN /\ server' = [server EXCEPT !.file = packet.sequence, !.refresh = TRUE]
                /\ UNCHANGED <<session, index, untold>>
           ELSE /\ index' = IF full THEN Rebuilt(index) ELSE Superseded(index, owners)
                /\ \E outcome \in Invalidated(session, IF full THEN Everything ELSE owners) :
                      /\ session' = outcome.session
                      /\ server' = [server EXCEPT !.file = packet.sequence,
                                                  !.refresh = ~outcome.ok]
                /\ untold' = untold \ packet.paths
    /\ queue' = Tail(queue)
    /\ UNCHANGED <<disk, lost, client, work>>

\* Mutant: the loss is taken note of and nothing is asked of the client.
FileOverflowQuiet ==
    /\ lost
    /\ lost' = FALSE
    /\ UNCHANGED <<disk, session, index, server, queue, client, untold, work>>

\* file_overflow
FileOverflow ==
    /\ lost
    /\ lost' = FALSE
    /\ server' = [server EXCEPT !.refresh = TRUE]
    /\ UNCHANGED <<disk, session, index, queue, client, untold, work>>

-----------------------------------------------------------------------------
(***************************************************************************)
(* The client and the files it watches.                                    *)
(***************************************************************************)

\* Somebody changes, removes or breaks a descriptor.
Edit(o) ==
    /\ work.edits < MaxEdits
    /\ \E text \in Contents[o] \ {disk[o]} :
          disk' = [disk EXCEPT ![o] = text]
    /\ untold' = untold \cup {o}
    /\ client' = [client EXCEPT !.unsent = IF client.watcher = "stopped" THEN @ ELSE @ \cup {o}]
    /\ work' = [work EXCEPT !.edits = @ + 1]
    /\ UNCHANGED <<session, index, server, queue, lost>>

\* A packet is numbered even when the queue has no room for it.
Send ==
    /\ client.watcher # "stopped"
    /\ \E paths \in (SUBSET client.unsent) \ {{}} :
          /\ LET packet == [sequence |-> client.next, paths |-> paths]
             IN  IF Len(queue) < MaxQueue
                 THEN queue' = Append(queue, packet) /\ UNCHANGED lost
                 ELSE lost' = TRUE /\ UNCHANGED queue
          /\ client' = [client EXCEPT !.unsent = @ \ paths, !.next = @ + 1]
    /\ UNCHANGED <<disk, session, index, server, untold, work>>

\* After a reset the client starts its watcher again, and owes a refresh of
\* the root for what happened in between.
Resume ==
    /\ client.watcher = "stopped"
    /\ client' = [client EXCEPT !.watcher = "resumed"]
    /\ UNCHANGED <<disk, session, index, server, queue, lost, untold, work>>

-----------------------------------------------------------------------------
\* ProjectSession::open: the root is expanded, nothing else is read.
Init ==
    LET whole == [o \in Owners |-> CHOOSE text \in Contents[o] \cap Parsed : text.refs = Declared(o)]
        closed == [expanded |-> {}, objects |-> {}, paths |-> {},
                   shown |-> [o \in Owners |-> Nothing],
                   cache |-> [o \in Owners |-> Nothing],
                   fingerprints |-> [o \in Owners |-> Nothing]]
    IN  /\ disk = whole
        /\ session = [Published(closed, Root, whole[Root]) EXCEPT
                        !.cache[Root] = [text |-> whole[Root], full |-> FALSE],
                        !.fingerprints[Root] = whole[Root]]
        /\ index = EmptyIndex("absent")
        /\ server = [refresh |-> FALSE, file |-> 0]
        /\ queue = <<>>
        /\ lost = FALSE
        /\ client = [unsent |-> {}, next |-> 1, watcher |-> "watching"]
        /\ untold = {}
        /\ work = [edits |-> 0, restarted |-> FALSE]

Next ==
    \/ \E o \in Owners : \/ Children(o) \/ Properties(o) \/ IndexStep(o) \/ Edit(o)
                         \/ \E reset \in BOOLEAN : Refresh(o, reset)
    \/ IndexControl \/ FilesChanged \/ FileOverflow \/ Send \/ Resume

Spec == Init /\ [][Next]_vars

-----------------------------------------------------------------------------
(***************************************************************************)
(* Properties.                                                             *)
(***************************************************************************)

\* A change the session has not been told of is still with the watcher, in the
\* queue or noticed as lost, or the project refuses to answer, or the client
\* owes it a refresh of the root (enqueue, files_changed, file_overflow and the
\* reset of the numbering).
NothingForgotten ==
    \A o \in untold :
        \/ o \in client.unsent
        \/ \E k \in DOMAIN queue : o \in queue[k].paths
        \/ lost \/ server.refresh
        \/ client.watcher # "watching"

Told == Owners \ untold

\* The tree is what the expanded descriptors declare, and nothing else is
\* exposed or known by its path (expand, collapse, refresh_root).
TreeSound ==
    /\ session.objects = {Root} \cup UNION {session.shown[o].refs : o \in session.expanded}
    /\ Root \in session.expanded /\ session.expanded \subseteq session.objects
    /\ session.objects \subseteq session.paths

\* While the project answers, nothing it would answer about a descriptor it was
\* told of is older than the file: not an expanded branch, not a cached set of
\* properties, not a visible hit of the search (invalidate, refresh_root,
\* SearchIndex::invalidate).
Coherent ==
    Serving =>
        /\ TreeSound
        /\ \A o \in Told :
            /\ o \in session.expanded => session.shown[o] = disk[o]
            /\ Hit(session, o, TRUE) => session.cache[o].text = disk[o]
            /\ o \in Visible(index) /\ index.records[o].owner \in Told
                  => index.records[o].text = disk[index.records[o].owner]

\* An index that calls itself ready holds every object a walk over the source
\* tree finds and no other, once every change has been told (index_descriptor,
\* remove_search_subtrees, settle).
ReadyIsComplete ==
    Serving /\ untold = {} /\ index.state = "ready" => Visible(index) = Reachable

\* A descriptor whose change was told is not refused as changed for ever: its
\* hash is gone or current, and the index reports only what it cannot parse.
\* metadata/index start breaks this: it drops the paths the index knew, so that
\* a later event or refresh no longer finds the hash (start_search_index,
\* path_owner, invalidate_all).
Unrefused ==
    Serving /\ ~work.restarted =>
        \A o \in Told : /\ session.fingerprints[o] \in {Nothing, disk[o]}
                        /\ o \in index.failures => ~Readable(o)
=============================================================================
