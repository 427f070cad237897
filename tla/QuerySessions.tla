---------------------------- MODULE QuerySessions ----------------------------
(***************************************************************************)
(* A query editing session and the private recovery store behind it        *)
(* (eska-project-core query/session.rs and query/recovery, eska-project    *)
(* ide/query): one IDE window in full, with its server process and its     *)
(* native buffer of a source, beside other windows that replace the same   *)
(* checkpoint file by compare-and-swap with anything their requests may    *)
(* store.  This is the journal of protocol 1.16: the intent of an          *)
(* application is stored before its plan is handed out.                    *)
(*                                                                         *)
(* A text of the source stands for the query in it: a native edit anywhere *)
(* else is a text no draft is.  The revision of a checkpoint is the hash   *)
(* of its contents, so it is the record itself; so are the snapshots.  A   *)
(* server handles one request at a time.                                   *)
(***************************************************************************)
EXTENDS Naturals, FiniteSets

CONSTANTS
    Texts, FirstText,       \* texts of the source, the one at the start
    None, Closed,           \* nothing there; the store is not open
    Drafts,                 \* bound: texts the user uploads as a draft
    MaxVersion,             \* bound: the native buffer changes while its version is less
    MaxSerial,              \* bound: a session prepares while its plan serial is less
    MaxTrouble              \* bound: native edits, crashes, acts of other windows

Version == 1..MaxVersion
Intent  == [applied : Texts, save : BOOLEAN, token : 1..MaxSerial]
\* The base of a record is the query of its owner text.  The native version, which
\* the code stores as well, is left out: two records may be equal more often.
Record  == [owner : Texts, disk : Texts, draft : Texts, intent : Intent \cup {None}]

ASSUME TextAssumption == FirstText \in Texts /\ Drafts \subseteq Texts
ASSUME BoundAssumption == MaxVersion \in Nat \ {0} /\ {MaxSerial, MaxTrouble} \subseteq Nat

VARIABLES
    \* shared by the windows
    disk,       \* the source file
    file,       \* the checkpoint
    peer,       \* what another window compared under the lock it still holds
    \* the server of the window
    cache,      \* recovery.rs State::records
    upload,     \* State::upload
    session,    \* sessions.rs Entry: its phase, plan serial and the version of its
                \* document; the rest of it is cache
    job,        \* publication in progress; at "locked" it holds the lock
    \* its client
    buffer,     \* native model of the source
    adapter,    \* what became of the plan the client was handed
    \* history and bounds
    due,        \* intent of the plan handed out last, until some window settles it
    alone,      \* since the last preparation only its plan changed the source
    trouble

shared  == <<disk, file, peer>>
server  == <<cache, upload, session, job>>
client  == <<buffer, adapter>>
history == <<due, alone, trouble>>
vars    == <<shared, server, client, history>>

Phases  == {"paused", "ready", "applying", "recovering"}
Session == [phase : Phases, serial : 0..MaxSerial, version : Version]
Upload  == [seen : Record, draft : Texts]
Ops     == {"open", "resume", "prepare", "applied", "abort", "commit", "remove"}
Job     == [op : Ops, seen : Record \cup {None}, want : Record \cup {None},
            version : Version, step : {"asked", "locked"}]
Buffer  == [text : Texts, version : Version, dirty : BOOLEAN]

ASSUME NoneAssumption ==
    /\ None \notin Record \cup Intent \cup Session \cup Upload \cup Job
    /\ Closed \notin Record \cup {None}

Loaded(text) == [text |-> text, version |-> 1, dirty |-> FALSE]

Init ==
    /\ disk = FirstText /\ file = None /\ peer = Closed
    /\ cache = Closed /\ upload = None /\ session = None /\ job = None
    /\ buffer = Loaded(FirstText) /\ adapter = "none"
    /\ due = None /\ alone = FALSE /\ trouble = 0

-----------------------------------------------------------------------------
(* Checks of a session against the native buffer and the disk.             *)

Stored     == cache \in Record
Pending    == Stored /\ cache.intent # None
InPhase(p) == session # None /\ session.phase = p
NoOp       == cache.intent.applied = cache.owner

\* Mutant: a source the user saved himself since the checkpoint is a conflict.
CheckedStrict(resuming) ==
    /\ buffer.text = cache.owner /\ (resuming \/ buffer.version = session.version)
    /\ ~buffer.dirty => disk = cache.owner
    /\ disk = cache.disk

\* checked_read_document: the remembered owner, and a disk that is either the
\* remembered one or, when resuming, what the clean buffer shows.
Checked(resuming) ==
    /\ buffer.text = cache.owner /\ (resuming \/ buffer.version = session.version)
    /\ ~buffer.dirty => disk = cache.owner
    /\ disk = cache.disk \/ (resuming /\ ~buffer.dirty)

\* acknowledge: the exact output, in a buffer that moved, saved if it had to be.
Acknowledges(recovered) ==
    LET out   == cache.intent.applied
        saved == cache.intent.save /\ ~(recovered /\ buffer.dirty)
    IN  /\ buffer.text = out
        /\ \/ recovered \/ buffer.version > session.version
           \/ NoOp /\ buffer.version = session.version
        /\ ~buffer.dirty => disk = out
        /\ saved => disk = out
        /\ ~saved /\ disk # cache.disk => ~buffer.dirty /\ disk = out

\* The checkpoint bound to an owner text and to the disk as it is now.
Rebound(owner) == [cache EXCEPT !.owner = owner, !.disk = disk, !.intent = None]

\* Mutant: the query just applied replaces the draft.
AcknowledgedAll == [Rebound(cache.intent.applied) EXCEPT !.draft = cache.intent.applied]

\* Owner and base advance to the output; a newer draft stays.
Acknowledged == Rebound(cache.intent.applied)

\* resume, of a session whose intent a crash left and of any other.
Reconciles == Pending /\ buffer.text # cache.owner
Resumable  == IF Reconciles THEN Acknowledges(TRUE) ELSE Checked(TRUE)
Resumed    == IF Reconciles THEN Acknowledged ELSE Rebound(cache.owner)

-----------------------------------------------------------------------------
(* Requests.  A server that publishes (job) answers no other request.      *)

Free == job = None
\* Publication: replace `seen` by `want`, or remove it.
Publish(op, seen, want) ==
    job' = [op |-> op, seen |-> seen, want |-> want, version |-> buffer.version,
            step |-> "asked"]

\* recoveryOpen reads the file without the lock and drops every session.
OpenStore ==
    /\ Free /\ upload = None
    /\ cache' = file /\ session' = None /\ adapter' = "none"
    /\ UNCHANGED <<shared, upload, job, buffer, history>>

\* recoveryClose, and the death of the server, even in the middle of a publication.
CloseStore ==
    /\ cache # Closed
    /\ cache' = Closed /\ upload' = None /\ session' = None /\ job' = None
    /\ adapter' = "none"
    /\ UNCHANGED <<shared, buffer, history>>

\* open_session; QuerySession::open
OpenSession ==
    /\ Free /\ cache = None /\ session = None
    /\ Publish("open", None, [owner |-> buffer.text, disk |-> disk, draft |-> buffer.text,
                              intent |-> None])
    /\ UNCHANGED <<shared, cache, upload, session, client, history>>

\* restore_session, from the cache; QuerySession::restore
RestoreSession ==
    /\ Free /\ Stored /\ session = None
    /\ session' = IF Pending
                    THEN [phase |-> "recovering", serial |-> cache.intent.token, version |-> 1]
                    ELSE [phase |-> "paused", serial |-> 0, version |-> 1]
    /\ UNCHANGED <<shared, cache, upload, job, client, history>>

\* Assumed of the client: it has no upload left when it closes a session.
CloseSession ==
    /\ Free /\ session # None /\ upload = None
    /\ session' = None /\ adapter' = "none"
    /\ UNCHANGED <<shared, cache, upload, job, buffer, history>>

\* session_request: every method but abort first verifies the file.
Asks == Free /\ session # None
Verified == Asks /\ file = cache

Resume ==
    /\ Verified /\ ~InPhase("applying") /\ Resumable
    /\ Publish("resume", cache, Resumed)
    /\ UNCHANGED <<shared, cache, upload, session, client, history>>

Prepare ==
    /\ Verified /\ InPhase("ready") /\ Checked(FALSE) /\ session.serial < MaxSerial
    /\ Publish("prepare", cache,
               [cache EXCEPT !.intent = [applied |-> cache.draft, token |-> session.serial + 1,
                                         save |-> ~buffer.dirty /\ cache.draft # cache.owner]])
    /\ alone' = TRUE
    /\ UNCHANGED <<shared, cache, upload, session, client, due, trouble>>

\* A failed check of resume or prepare leaves the session paused; the policy and
\* the context of the project can fail it as well as the buffer and the disk.
Refuse ==
    /\ Verified /\ InPhase("ready")
    /\ session' = [session EXCEPT !.phase = "paused", !.version = 1]
    /\ UNCHANGED <<shared, cache, upload, job, client, history>>

Applied ==
    /\ Verified /\ InPhase("applying") /\ Acknowledges(FALSE)
    /\ Publish("applied", cache, Acknowledged)
    /\ UNCHANGED <<shared, cache, upload, session, client, history>>

Abort ==
    /\ Asks /\ (InPhase("applying") \/ InPhase("recovering"))
    /\ Publish("abort", cache, [cache EXCEPT !.intent = None])
    /\ UNCHANGED <<shared, cache, upload, session, client, history>>

\* recoveryRemove; a record with an intent needs discardPrepared.
Remove ==
    /\ Free /\ Stored
    /\ Publish("remove", cache, None)
    /\ UNCHANGED <<shared, cache, upload, session, client, history>>

-----------------------------------------------------------------------------
(* Upload of a draft: only it crosses the pipe, in chunks that change      *)
(* nothing else; the other parts are reused.                               *)

Begin(draft) ==
    /\ Free /\ Stored /\ upload = None /\ draft # cache.draft
    /\ upload' = [seen |-> cache, draft |-> draft]
    /\ UNCHANGED <<shared, cache, session, job, client, history>>

\* Where commit and stage_checkpoint refuse.
Fits ==
    /\ Pending => upload.seen.owner = cache.owner /\ upload.seen.disk = cache.disk
    /\ session # None => upload.seen = cache

\* Mutant: an upload replaces the whole record.
DraftedPlain == [upload.seen EXCEPT !.draft = upload.draft, !.intent = None]

\* with_prepared: an acknowledged intent stays.
Drafted == [upload.seen EXCEPT !.draft = upload.draft,
                               !.intent = IF Stored THEN cache.intent ELSE None]

\* recoveryCommit takes the upload before it can fail.
Commit ==
    /\ Free /\ upload # None /\ Fits
    /\ Publish("commit", upload.seen, Drafted)
    /\ upload' = None
    /\ UNCHANGED <<shared, cache, session, client, history>>

\* recoveryCancel, a chunk whose hash does not match, a refused commit.
DropUpload ==
    /\ Free /\ upload # None
    /\ upload' = None
    /\ UNCHANGED <<shared, cache, session, job, client, history>>

-----------------------------------------------------------------------------
(* Publication: Store::save and Store::remove.                             *)

\* compare_revision; nothing to remove is no error.
Matches == file = job.seen \/ (job.op = "remove" /\ file = None)
AtStep(step) == job # None /\ job.step = step

\* Mutant: a busy lock is ignored.
LockIgnored ==
    /\ AtStep("asked") /\ Matches
    /\ job' = [job EXCEPT !.step = "locked"]
    /\ UNCHANGED <<shared, cache, upload, session, client, history>>

\* try_lock, and the comparison under the lock; save repeats it before the rename.
Lock ==
    /\ AtStep("asked") /\ peer = Closed /\ Matches
    /\ job' = [job EXCEPT !.step = "locked"]
    /\ UNCHANGED <<shared, cache, upload, session, client, history>>

\* Requests that settle an application, whoever prepared it.
Settling == {"resume", "applied", "abort", "remove"}

\* The rename, or the removal.
Replace ==
    /\ AtStep("locked")
    /\ file' = job.want /\ job' = None

\* The session once its request has succeeded.
Advanced ==
    CASE job.op = "open" -> [phase |-> "ready", serial |-> 0, version |-> job.version]
      [] job.op \in {"resume", "applied"} ->
                            [session EXCEPT !.phase = "ready", !.version = job.version]
      [] job.op = "prepare" -> [session EXCEPT !.phase = "applying", !.serial = @ + 1]
      [] job.op = "abort"   -> [session EXCEPT !.phase = "paused", !.version = 1]
      [] job.op = "commit"  -> session
      [] job.op = "remove"  -> None

\* The process keeps the new state and replies; the client drops its plan unless
\* the request was about the draft.
Install ==
    /\ Replace
    /\ cache' = job.want /\ session' = Advanced
    /\ upload' = IF job.op = "remove" THEN None ELSE upload
    /\ adapter' = CASE job.op = "prepare" -> "planned"
                    [] job.op = "commit"  -> adapter
                    [] OTHER              -> "none"
    /\ due' = CASE job.op = "prepare"  -> job.want.intent
                [] job.op \in Settling -> None
                [] OTHER               -> due
    /\ UNCHANGED <<disk, peer, buffer, alone, trouble>>

\* The rename succeeded and the request fails, or the process dies right after it.
Lose ==
    /\ Replace
    /\ due' = IF job.op \in Settling THEN None ELSE due
    /\ UNCHANGED <<disk, peer, cache, upload, session, client, alone, trouble>>

\* Busy, a conflict or an I/O error: nothing changed.
Fail ==
    /\ job # None /\ job' = None
    /\ UNCHANGED <<shared, cache, upload, session, client, history>>

-----------------------------------------------------------------------------
(* The other windows: the same requests on the same file, each from a      *)
(* cache, a session and a buffer that may hold anything.                   *)

PeerLock ==
    /\ trouble < MaxTrouble /\ trouble' = trouble + 1
    /\ peer = Closed /\ ~AtStep("locked") /\ peer' = file
    /\ UNCHANGED <<disk, file, server, client, due, alone>>

Rebindings(r) == {[r EXCEPT !.owner = t, !.disk = d, !.intent = None] :
                    t \in {r.owner} \cup (IF r.intent = None THEN {} ELSE {r.intent.applied}),
                    d \in {r.disk, disk}}
Preparations(r) == IF r.intent = None THEN {[r EXCEPT !.intent = i] :
                                             i \in {j \in Intent : j.applied = r.draft}} ELSE {}
Draftings(r) == {[r EXCEPT !.draft = d] : d \in Drafts}
Openings     == {[owner |-> t, disk |-> disk, draft |-> t, intent |-> None] : t \in Texts}

PeerInstall ==
    /\ peer # Closed
    /\ file' \in (IF peer = None THEN Openings
                  ELSE {None} \cup Rebindings(peer) \cup Preparations(peer) \cup Draftings(peer))
    /\ peer' = Closed
    /\ due' = IF file' # None /\ file'.intent = due THEN due ELSE None
    /\ UNCHANGED <<disk, server, client, alone, trouble>>

PeerFail ==
    /\ peer # Closed /\ peer' = Closed
    /\ UNCHANGED <<disk, file, server, client, history>>

\* Another window saves its buffer of the same source.
PeerSave(text) ==
    /\ trouble < MaxTrouble /\ trouble' = trouble + 1
    /\ text # disk /\ disk' = text /\ alone' = FALSE
    /\ UNCHANGED <<file, peer, server, client, due>>

-----------------------------------------------------------------------------
(* The adapter and the native editor.                                      *)

Moves == buffer.version < MaxVersion
Show(text, dirty) == buffer' = [text |-> text, version |-> buffer.version + 1, dirty |-> dirty]

\* The adapter checks the model again right before the edit.
Apply ==
    /\ adapter = "planned" /\ InPhase("applying")
    /\ buffer.text = cache.owner /\ buffer.version = session.version
    /\ IF NoOp THEN UNCHANGED buffer ELSE Moves /\ Show(cache.intent.applied, TRUE)
    /\ adapter' = "applied"
    /\ alone' = (alone /\ disk = cache.disk)
    /\ UNCHANGED <<shared, server, due, trouble>>

\* By the adapter for saveOwner, or by the user.
Save ==
    /\ buffer.dirty
    /\ disk' = buffer.text /\ buffer' = [buffer EXCEPT !.dirty = FALSE]
    /\ UNCHANGED <<file, peer, server, adapter, history>>

Edit(text) ==
    /\ Moves /\ text # buffer.text /\ Show(text, TRUE)
    /\ trouble < MaxTrouble /\ trouble' = trouble + 1
    /\ alone' = FALSE
    /\ UNCHANGED <<shared, server, adapter, due>>

\* A clean buffer follows the disk.
Reload ==
    /\ Moves /\ ~buffer.dirty /\ buffer.text # disk /\ Show(disk, FALSE)
    /\ UNCHANGED <<shared, server, adapter, history>>

\* The window dies, and the server with its connection.  The next one brings an
\* unsaved buffer back (hot exit) or not.
Crash ==
    /\ trouble < MaxTrouble /\ trouble' = trouble + 1
    /\ cache' = Closed /\ upload' = None /\ session' = None /\ job' = None
    /\ adapter' = "none"
    /\ \/ buffer.dirty /\ buffer' = [buffer EXCEPT !.version = 1]
       \/ buffer' = Loaded(disk)
    /\ UNCHANGED <<shared, due, alone>>

Next ==
    \/ OpenStore \/ CloseStore \/ OpenSession \/ RestoreSession \/ CloseSession
    \/ Resume \/ Prepare \/ Refuse \/ Applied \/ Abort \/ Remove
    \/ Commit \/ DropUpload \/ \E d \in Drafts : Begin(d)
    \/ Lock \/ Install \/ Lose \/ Fail \/ PeerLock \/ PeerInstall \/ PeerFail
    \/ Apply \/ Save \/ Reload \/ Crash
    \/ \E t \in Texts : Edit(t) \/ PeerSave(t)

Spec == Init /\ [][Next]_vars

-----------------------------------------------------------------------------
(* Properties.                                                             *)

\* Every variable has its type, and a session awaits a receipt exactly while the
\* checkpoint it stands for holds an intent.
TypeOK ==
    /\ disk \in Texts /\ file \in Record \cup {None} /\ peer \in Record \cup {None, Closed}
    /\ cache \in Record \cup {None, Closed} /\ upload \in Upload \cup {None}
    /\ session \in Session \cup {None} /\ job \in Job \cup {None}
    /\ buffer \in Buffer /\ adapter \in {"none", "planned", "applied"}
    /\ due \in Intent \cup {None} /\ alone \in BOOLEAN /\ trouble \in 0..MaxTrouble
    /\ session # None => /\ Stored
                         /\ Pending <=> (InPhase("applying") \/ InPhase("recovering"))

\* A window replaces or removes only the checkpoint it has seen: whatever two
\* processes do at once, no acknowledged checkpoint is overwritten unread.
ReplacesKnown == [][file' # file => (job # None /\ job.seen = file) \/ peer = file]_vars

\* The stored draft is the user's: preparing, acknowledging, resuming or aborting
\* an application never changes it; only an upload does.
DraftKept ==
    [][file # None /\ file' \notin {file, None} /\ file'.draft # file.draft
         => peer = file \/ job.op = "commit"]_vars

\* From the moment a plan is handed out until some window settles it, the checkpoint
\* holds its intent, whatever is uploaded, fails or crashes meanwhile.
IntentCovers == due # None => file # None /\ file.intent = due

\* After any crash during an application that nobody disturbed, a restored
\* session can be resumed from the untouched source or from the exact output.
Reconcilable ==
    (/\ InPhase("recovering") /\ file = cache /\ due = file.intent /\ alone
     /\ buffer.text \in {cache.owner, cache.intent.applied}
     /\ ~buffer.dirty => buffer.text = disk)
      => Resumable
=============================================================================
