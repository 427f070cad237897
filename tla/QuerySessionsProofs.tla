------------------------- MODULE QuerySessionsProofs -------------------------
(***************************************************************************)
(* What QuerySessions promises about the checkpoint, for any texts, drafts *)
(* and bounds: who may replace it, what may change its draft, and that the *)
(* intent of a plan stays in it until the application is settled.          *)
(*                                                                         *)
(* A publication was computed from what the server had seen, before the    *)
(* lock; IJob says what it may put in place of it, IUpload why an upload   *)
(* that was begun long ago still knows the current intent, and ILock why   *)
(* the file is still the one that was compared when it is replaced.        *)
(***************************************************************************)
EXTENDS QuerySessions, TLAPS

\* The types alone
IFiles  == disk \in Texts /\ file \in Record \cup {None} /\ peer \in Record \cup {None, Closed}
IServer == /\ cache \in Record \cup {None, Closed} /\ upload \in Upload \cup {None}
           /\ session \in Session \cup {None}
IClient == /\ buffer \in Buffer /\ adapter \in {"none", "planned", "applied"}
           /\ alone \in BOOLEAN /\ trouble \in 0..MaxTrouble
IDue    == due \in Intent \cup {None}

\* A session awaits a receipt exactly while its checkpoint holds an intent
ISession ==
    session # None =>
        /\ Stored
        /\ Pending <=> (InPhase("applying") \/ InPhase("recovering"))

\* Only one process holds the lock, and the file is the one it compared
ILock ==
    /\ peer # Closed => peer = file /\ ~AtStep("locked")
    /\ AtStep("locked") => Matches

\* Without a session an upload is one of the cached record
IUpload == upload # None /\ session = None => upload.seen = cache

\* What each request may put in place of the checkpoint it has seen
IJob ==
    job # None =>
        /\ job \in Job
        /\ job.op = "remove" <=> job.want = None
        /\ job.op \in {"open", "commit"} => upload = None
        /\ job.op = "open" => job.seen = None /\ job.want.intent = None
        /\ job.op = "commit" =>
             /\ job.seen # None /\ job.want.intent = job.seen.intent
             /\ session # None => job.seen = cache
        /\ job.op \in {"resume", "prepare", "applied", "abort"} =>
             /\ session # None
             /\ job.seen # None /\ job.want.draft = job.seen.draft
             /\ job.op # "prepare" => job.want.intent = None
        /\ job.op = "prepare" => /\ job.seen.intent = None /\ job.want.intent # None
                                 /\ session.serial < MaxSerial

\* The inductive invariant
IInv == IFiles /\ IServer /\ IClient /\ IDue /\ ISession /\ ILock /\ IUpload /\ IJob /\ IntentCovers

-----------------------------------------------------------------------------
(* Records, intents and publications.                                      *)

\* The parts of a record, an intent and a buffer have their types.
LEMMA Fields ==
    /\ \A r \in Record : /\ r # None /\ r # Closed /\ r.owner \in Texts /\ r.disk \in Texts
                         /\ r.draft \in Texts /\ r.intent \in Intent \cup {None}
    /\ \A i \in Intent : i # None /\ i.applied \in Texts /\ i.token \in 1..MaxSerial
    /\ \A b \in Buffer : b.text \in Texts /\ b.version \in Version /\ b.dirty \in BOOLEAN
    /\ \A u \in Upload : u # None /\ u.seen \in Record /\ u.draft \in Texts
<1>1. \A r \in Record : /\ r.owner \in Texts /\ r.disk \in Texts
                        /\ r.draft \in Texts /\ r.intent \in Intent \cup {None}
  BY DEF Record
<1>2. \A i \in Intent : i.applied \in Texts /\ i.token \in 1..MaxSerial
  BY DEF Intent
<1>3. \A b \in Buffer : b.text \in Texts /\ b.version \in Version /\ b.dirty \in BOOLEAN
  BY DEF Buffer
<1>4. \A u \in Upload : u.seen \in Record /\ u.draft \in Texts
  BY DEF Upload
<1>q. QED BY <1>1, <1>2, <1>3, <1>4, NoneAssumption

\* A publication remembers what it was asked for.
LEMMA Published ==
    ASSUME NEW op \in Ops, NEW seen \in Record \cup {None}, NEW want \in Record \cup {None},
           buffer \in Buffer, Publish(op, seen, want)
    PROVE  /\ job' \in Job /\ job' # None /\ job'.op = op /\ job'.seen = seen
           /\ job'.want = want /\ job'.step = "asked"
<1>1. buffer.version \in Version
  BY Fields
<1>2. job' = [op |-> op, seen |-> seen, want |-> want, version |-> buffer.version,
              step |-> "asked"]
  BY DEF Publish
<1>3. job' \in Job
  BY <1>1, <1>2 DEF Job
<1>q. QED BY <1>2, <1>3, NoneAssumption

\* What a publication has.
LEMMA JobFields ==
    ASSUME NEW j \in Job
    PROVE  /\ j # None /\ j.op \in Ops /\ j.seen \in Record \cup {None}
           /\ j.want \in Record \cup {None} /\ j.version \in Version
           /\ j.step \in {"asked", "locked"}
<1>1. /\ j.op \in Ops /\ j.seen \in Record \cup {None} /\ j.want \in Record \cup {None}
      /\ j.version \in Version /\ j.step \in {"asked", "locked"}
  BY DEF Job
<1>q. QED BY <1>1, NoneAssumption

-----------------------------------------------------------------------------
(* What each request asks for.                                             *)

\* Every request asks for something its publication may put in the file.
LEMMA Requests ==
    ASSUME IFiles, IServer, IClient, ISession, IUpload,
           OpenSession \/ Resume \/ Prepare \/ Applied \/ Abort \/ Remove \/ Commit
    PROVE  job' # None /\ IJob' /\ job'.step = "asked"
<1> USE DEF IFiles, IServer, IClient, ISession
<1>1. CASE OpenSession
  <2> DEFINE want == [owner |-> buffer.text, disk |-> disk, draft |-> buffer.text, intent |-> None]
  <2>1. want \in Record /\ want.intent = None
    BY Fields DEF Record
  <2>2. upload = None
    BY <1>1, Fields DEF OpenSession, IUpload
  <2>3. /\ Publish("open", None, want) /\ UNCHANGED <<upload, session, cache>>
    BY <1>1 DEF OpenSession
  <2>4. /\ job' \in Job /\ job' # None /\ job'.op = "open" /\ job'.seen = None
        /\ job'.want = want /\ job'.step = "asked"
    BY <2>1, <2>3, Published DEF Ops
  <2>q. QED BY <2>1, <2>2, <2>3, <2>4, Fields DEF IJob
<1>2. CASE Resume
  <2>1. cache \in Record /\ session # None
    BY <1>2 DEF Resume, Verified, Asks, Stored
  <2>2. Resumed \in Record /\ Resumed.intent = None /\ Resumed.draft = cache.draft
    <3>1. CASE Reconciles
      BY <2>1, <3>1, Fields DEF Record, Resumed, Acknowledged, Rebound, Reconciles,
         Pending
    <3>2. CASE ~Reconciles
      BY <2>1, <3>2, Fields DEF Record, Resumed, Rebound
    <3>q. QED BY <3>1, <3>2
  <2>3. Publish("resume", cache, Resumed) /\ UNCHANGED <<upload, session, cache>>
    BY <1>2 DEF Resume
  <2>4. /\ job' \in Job /\ job' # None /\ job'.op = "resume" /\ job'.seen = cache
        /\ job'.want = Resumed /\ job'.step = "asked"
    BY <2>1, <2>2, <2>3, Published DEF Ops
  <2>q. QED BY <2>1, <2>2, <2>3, <2>4, Fields DEF IJob
<1>3. CASE Prepare
  <2> DEFINE next == [applied |-> cache.draft, token |-> session.serial + 1,
                      save |-> ~buffer.dirty /\ cache.draft # cache.owner]
             want == [cache EXCEPT !.intent = next]
  <2>1. cache \in Record /\ session # None /\ session \in Session /\ session.serial < MaxSerial
    BY <1>3 DEF Prepare, Verified, Asks, Stored
  <2>2. cache.intent = None
    BY <1>3, <2>1 DEF Prepare, InPhase, Pending, Stored
  <2>3. next \in Intent
    <3>1. cache.draft \in Texts /\ session.serial + 1 \in 1..MaxSerial
      BY <2>1, Fields, BoundAssumption DEF Session
    <3>2. (~buffer.dirty /\ cache.draft # cache.owner) \in BOOLEAN
      BY Zenon
    <3>q. QED BY <3>1, <3>2 DEF Intent
  <2>4. want \in Record /\ want.intent = next /\ want.draft = cache.draft
    <3> HIDE DEF next
    <3>q. QED BY <2>1, <2>3 DEF Record
  <2>5. Publish("prepare", cache, want) /\ UNCHANGED <<upload, session, cache>>
    BY <1>3 DEF Prepare
  <2>6. /\ job' \in Job /\ job' # None /\ job'.op = "prepare" /\ job'.seen = cache
        /\ job'.want = want /\ job'.step = "asked"
    BY <2>1, <2>4, <2>5, Published DEF Ops
  <2>7. want # None /\ want.intent # None
    BY <2>3, <2>4, Fields
  <2> HIDE DEF want, next
  <2>q. QED BY <2>1, <2>2, <2>4, <2>5, <2>6, <2>7, Fields DEF IJob
<1>4. CASE Applied
  <2>1. cache \in Record /\ session # None /\ cache.intent # None
    BY <1>4 DEF Applied, Verified, Asks, Stored, InPhase, Pending
  <2>2. Acknowledged \in Record /\ Acknowledged.intent = None /\ Acknowledged.draft = cache.draft
    BY <2>1, Fields DEF Record, Acknowledged, Rebound
  <2>3. Publish("applied", cache, Acknowledged) /\ UNCHANGED <<upload, session, cache>>
    BY <1>4 DEF Applied
  <2>4. /\ job' \in Job /\ job' # None /\ job'.op = "applied" /\ job'.seen = cache
        /\ job'.want = Acknowledged /\ job'.step = "asked"
    BY <2>1, <2>2, <2>3, Published DEF Ops
  <2>q. QED BY <2>1, <2>2, <2>3, <2>4, Fields DEF IJob
<1>5. CASE Abort
  <2> DEFINE want == [cache EXCEPT !.intent = None]
  <2>1. cache \in Record /\ session # None
    BY <1>5 DEF Abort, Asks, Stored
  <2>2. want \in Record /\ want.intent = None /\ want.draft = cache.draft
    BY <2>1 DEF Record
  <2>3. Publish("abort", cache, want) /\ UNCHANGED <<upload, session, cache>>
    BY <1>5 DEF Abort
  <2>4. /\ job' \in Job /\ job' # None /\ job'.op = "abort" /\ job'.seen = cache
        /\ job'.want = want /\ job'.step = "asked"
    BY <2>1, <2>2, <2>3, Published DEF Ops
  <2> HIDE DEF want
  <2>q. QED BY <2>1, <2>2, <2>3, <2>4, Fields DEF IJob
<1>6. CASE Remove
  <2>1. cache \in Record /\ Publish("remove", cache, None) /\ UNCHANGED <<upload, session, cache>>
    BY <1>6 DEF Remove, Stored
  <2>2. /\ job' \in Job /\ job' # None /\ job'.op = "remove" /\ job'.seen = cache
        /\ job'.want = None /\ job'.step = "asked"
    BY <2>1, Published DEF Ops
  <2>q. QED BY <2>1, <2>2 DEF IJob
<1>7. CASE Commit
  <2>1. upload \in Upload /\ Fits /\ upload' = None /\ UNCHANGED <<session, cache>>
    BY <1>7 DEF Commit
  <2>2. upload.seen = cache /\ cache \in Record
    <3>1. CASE session = None
      BY <2>1, <3>1, Fields DEF IUpload
    <3>2. CASE session # None
      BY <2>1, <3>2, Fields DEF Fits
    <3>q. QED BY <3>1, <3>2, <2>1, Fields
  <2>3. Drafted \in Record /\ Drafted.intent = cache.intent
    <3>1. Drafted = [cache EXCEPT !.draft = upload.draft, !.intent = cache.intent]
      BY <2>2 DEF Drafted, Stored
    <3>2. upload.draft \in Texts /\ cache.intent \in Intent \cup {None}
      BY <2>1, <2>2, Fields
    <3>q. QED BY <2>2, <3>1, <3>2 DEF Record
  <2>4. Publish("commit", cache, Drafted)
    BY <1>7, <2>2 DEF Commit
  <2>5. /\ job' \in Job /\ job' # None /\ job'.op = "commit" /\ job'.seen = cache
        /\ job'.want = Drafted /\ job'.step = "asked"
    BY <2>2, <2>3, <2>4, Published DEF Ops
  <2>q. QED BY <2>1, <2>2, <2>3, <2>5, Fields DEF IJob
<1>q. QED BY <1>1, <1>2, <1>3, <1>4, <1>5, <1>6, <1>7

\* What the others may put in place of the checkpoint are records too.
LEMMA PeerWants ==
    ASSUME IFiles, PeerInstall
    PROVE  file' \in Record \cup {None}
<1>1. CASE peer = None
  BY <1>1 DEF PeerInstall, Openings, IFiles, Record
<1>2. CASE peer # None
  <2>1. peer \in Record
    BY <1>2 DEF PeerInstall, IFiles
  <2>2. \A r \in Rebindings(peer) : r \in Record
    <3> DEFINE owners == {peer.owner} \cup (IF peer.intent = None THEN {} ELSE {peer.intent.applied})
               rebound(t, d) == [peer EXCEPT !.owner = t, !.disk = d, !.intent = None]
    <3>1. ASSUME peer.intent # None PROVE peer.intent.applied \in Texts
      BY <2>1, <3>1, Fields
    <3>2. owners \subseteq Texts /\ {peer.disk, disk} \subseteq Texts
      BY <2>1, <3>1, Fields DEF IFiles
    <3>3. \A t \in Texts, d \in Texts : rebound(t, d) \in Record
      BY <2>1 DEF Record
    <3>4. Rebindings(peer) = {rebound(t, d) : t \in owners, d \in {peer.disk, disk}}
      BY DEF Rebindings
    <3> HIDE DEF owners, rebound
    <3>q. QED BY <3>2, <3>3, <3>4
  <2>3. \A r \in Preparations(peer) : r \in Record
    BY <2>1 DEF Preparations, Record
  <2>4. \A r \in Draftings(peer) : r \in Record
    BY <2>1, TextAssumption DEF Draftings, Record
  <2>q. QED BY <1>2, <2>2, <2>3, <2>4 DEF PeerInstall
<1>q. QED BY <1>1, <1>2

\* A request that keeps its session advances it within its type.
LEMMA AdvancedSession ==
    ASSUME IServer, IJob, job # None, session \in Session,
           job.op \in {"resume", "applied", "abort", "prepare"}
    PROVE  Advanced \in Session /\ Advanced # None
<1>1. job \in Job /\ job.version \in Version /\ 1 \in Version
  BY JobFields, BoundAssumption DEF IJob, Version
<1>2. CASE job.op = "prepare"
  <2>1. session.serial + 1 \in 0..MaxSerial
    BY <1>2, BoundAssumption DEF IJob, Session
  <2>2. Advanced = [session EXCEPT !.phase = "applying", !.serial = session.serial + 1]
    BY <1>2 DEF Advanced
  <2>3. Advanced \in Session
    BY <2>1, <2>2 DEF Session, Phases
  <2>q. QED BY <2>3, NoneAssumption
<1>3. CASE job.op # "prepare"
  <2>1. Advanced \in Session
    BY <1>1, <1>3 DEF Advanced, Session, Phases
  <2>q. QED BY <2>1, NoneAssumption
<1>q. QED BY <1>2, <1>3

\* Whatever is done, it advances to a session or to none.
LEMMA AdvancedType ==
    ASSUME IServer, IJob, job # None
    PROVE  Advanced \in Session \cup {None}
<1>1. job \in Job /\ job.op \in Ops /\ job.version \in Version
  BY JobFields DEF IJob
<1>2. CASE job.op \in {"resume", "applied", "abort", "prepare"}
  <2>1. session \in Session
    BY <1>2 DEF IJob, IServer
  <2>q. QED BY <1>2, <2>1, AdvancedSession
<1>3. CASE job.op \in {"commit", "remove"}
  BY <1>3 DEF Advanced, IServer
<1>4. CASE job.op = "open"
  BY <1>1, <1>4, BoundAssumption DEF Advanced, Session, Phases
<1>q. QED BY <1>1, <1>2, <1>3, <1>4 DEF Ops

\* A session that is paused is a session.
LEMMA PausedType ==
    ASSUME NEW s \in Session
    PROVE  /\ [s EXCEPT !.phase = "paused", !.version = 1] \in Session
           /\ [s EXCEPT !.phase = "paused", !.version = 1] # None
<1>1. 1 \in Version /\ "paused" \in Phases
  BY BoundAssumption DEF Version, Phases
<1>2. [s EXCEPT !.phase = "paused", !.version = 1] \in Session
  BY <1>1 DEF Session
<1>q. QED BY <1>2, NoneAssumption

-----------------------------------------------------------------------------
(* The parts of the invariant, each kept by every step.                    *)

\* The files hold texts and records, and a peer has compared one.
LEMMA StepFiles ==
    ASSUME IFiles, IClient, IJob, Next
    PROVE  IFiles'
<1>1. CASE Install
  BY <1>1, Fields, JobFields, SMTT(15) DEF Install, Replace, IFiles, AtStep, IJob,
     shared, server, client, history
<1>2. CASE Lose
  BY <1>2, Fields, JobFields, SMTT(15) DEF Lose, Replace, IFiles, AtStep, IJob, shared,
     server, client, history
<1>3. CASE PeerLock
  BY <1>3, Fields, JobFields, SMTT(15) DEF PeerLock, IFiles, AtStep, IJob, shared,
     server, client, history
<1>4. CASE PeerInstall
  BY <1>4, PeerWants DEF PeerInstall, IFiles
<1>5. CASE PeerFail
  BY <1>5, Fields, JobFields, SMTT(15) DEF PeerFail, IFiles, AtStep, IJob, shared,
     server, client, history
<1>6. CASE Save
  <2>1. disk' = buffer.text /\ UNCHANGED <<file, peer>>
    BY <1>6 DEF Save
  <2>q. QED BY <2>1, Fields DEF IFiles, IClient
<1>7. ASSUME NEW t \in Texts, PeerSave(t) PROVE IFiles'
  BY <1>7, Fields, JobFields, SMTT(15) DEF PeerSave, IFiles, AtStep, IJob, shared,
     server, client, history
<1>8. CASE UNCHANGED <<disk, file, peer>>
  BY <1>8 DEF IFiles
<1>q. QED
  <2>1. ASSUME
          OpenStore \/ CloseStore \/ OpenSession \/ RestoreSession \/
          CloseSession \/ Resume \/ Prepare \/ Refuse \/ Applied \/ Abort \/
          Remove \/ Commit \/ DropUpload \/ (\E d \in Drafts : Begin(d)) \/ Lock
          \/ Fail \/ Apply \/ Reload \/ Crash \/ (\E t \in Texts : Edit(t))
        PROVE UNCHANGED <<disk, file, peer>>
    BY <2>1, Zenon DEF OpenStore, CloseStore, OpenSession, RestoreSession, CloseSession,
       Resume, Prepare, Refuse, Applied, Abort, Remove, Commit, DropUpload, Begin, Lock,
       Fail, Apply, Reload, Crash, Edit, shared, server, client, history
  <2>q. QED
    BY <1>1, <1>2, <1>3, <1>4, <1>5, <1>6, <1>7, <1>8, <2>1 DEF Next

\* The server's state keeps its type.
LEMMA StepServer ==
    ASSUME IFiles, IServer, IClient, IJob, Next
    PROVE  IServer'
<1>1. CASE OpenStore
  BY <1>1, SMTT(15) DEF OpenStore, Free, IServer, IFiles, shared, server, client,
     history
<1>2. CASE CloseStore
  BY <1>2, SMTT(15) DEF CloseStore, IServer, IFiles, shared, server, client, history
<1>3. CASE RestoreSession
  <2>1. UNCHANGED <<cache, upload>> /\ cache \in Record
    BY <1>3 DEF RestoreSession, Stored, shared
  <2>2. CASE Pending
    <3>1. cache.intent.token \in 0..MaxSerial
      BY <2>1, <2>2, Fields DEF Pending
    <3>q. QED BY <1>3, <2>1, <2>2, <3>1, BoundAssumption DEF RestoreSession, IServer,
       Session, Phases, Version
  <2>3. CASE ~Pending
    BY <1>3, <2>1, <2>3, BoundAssumption DEF RestoreSession, IServer, Session, Phases,
       Version
  <2>q. QED BY <2>2, <2>3
<1>4. CASE CloseSession
  BY <1>4, SMTT(15) DEF CloseSession, Free, IServer, IFiles, shared, server, client,
     history
<1>5. CASE Refuse
  <2>1. /\ session \in Session /\ UNCHANGED <<cache, upload>>
        /\ session' = [session EXCEPT !.phase = "paused", !.version = 1]
    BY <1>5 DEF Refuse, InPhase, IServer
  <2>q. QED BY <2>1, PausedType DEF IServer
<1>6. CASE Commit
  BY <1>6, SMTT(15) DEF Commit, IServer, IFiles, shared, server, client, history
<1>7. CASE DropUpload
  BY <1>7, SMTT(15) DEF DropUpload, Free, IServer, IFiles, shared, server, client,
     history
<1>8. ASSUME NEW d \in Drafts, Begin(d) PROVE IServer'
  <2>1. upload' = [seen |-> cache, draft |-> d] /\ cache \in Record /\ UNCHANGED <<cache, session>>
    BY <1>8 DEF Begin, Stored, shared
  <2>2. d \in Texts
    BY <1>8, TextAssumption
  <2>q. QED BY <2>1, <2>2 DEF IServer, Upload
<1>9. CASE Install
  <2>1. job \in Job /\ job # None
    BY <1>9, Zenon DEF Install, Replace, AtStep, IJob
  <2>2. cache' \in Record \cup {None} /\ upload' \in Upload \cup {None}
    BY <1>9, <2>1, JobFields DEF Install, IServer
  <2>3. session' \in Session \cup {None}
    BY <1>9, <2>1, AdvancedType DEF Install
  <2>q. QED BY <2>2, <2>3 DEF IServer
<1>10. CASE Crash
  BY <1>10, SMTT(15) DEF Crash, IServer, IFiles, shared, server, client, history
<1>11. CASE UNCHANGED <<cache, upload, session>>
  BY <1>11 DEF IServer
<1>q. QED
  <2>1. ASSUME
          OpenSession \/ Resume \/ Prepare \/ Applied \/ Abort \/ Remove \/ Lock
          \/ Lose \/ Fail \/ PeerLock \/ PeerInstall \/ PeerFail \/ Apply \/
          Save \/ Reload \/ (\E t \in Texts : Edit(t)) \/ (\E t \in Texts :
          PeerSave(t))
        PROVE UNCHANGED <<cache, upload, session>>
    BY <2>1, Zenon DEF OpenSession, Resume, Prepare, Applied, Abort, Remove, Lock, Lose,
       Fail, PeerLock, PeerInstall, PeerFail, Apply, Save, Reload, Edit, PeerSave,
       shared, server, client, history
  <2>q. QED
    BY <1>1, <1>2, <1>3, <1>4, <1>5, <1>6, <1>7, <1>8, <1>9, <1>10, <1>11, <2>1 DEF Next

\* The client's state keeps its type.
LEMMA StepClient ==
    ASSUME IFiles, IServer, IClient, ISession, Next
    PROVE  IClient'
<1>1. CASE OpenStore
  BY <1>1, SMTT(15) DEF OpenStore, Free, IClient, shared, server, client, history
<1>2. CASE CloseStore
  BY <1>2, SMTT(15) DEF CloseStore, IClient, shared, server, client, history
<1>3. CASE CloseSession
  BY <1>3, SMTT(15) DEF CloseSession, Free, IClient, shared, server, client, history
<1>4. CASE Prepare
  <2>1. alone' \in BOOLEAN
    BY <1>4, Zenon DEF Prepare, IClient, history, client
  <2>q. QED BY <1>4, <2>1 DEF Prepare, IClient, client
<1>5. CASE Install
  BY <1>5 DEF Install, IClient
<1>6. CASE PeerLock
  <2>1. alone' \in BOOLEAN
    BY <1>6, Zenon DEF PeerLock, IClient, history, client
  <2>q. QED BY <1>6, <2>1, BoundAssumption DEF PeerLock, IClient, client
<1>7. CASE Apply
  <2>1. alone' \in BOOLEAN
    BY <1>7, Zenon DEF Apply, IClient, history, client
  <2>2. buffer' \in Buffer
    <3>1. CASE NoOp
      BY <1>7, <3>1 DEF Apply, IClient
    <3>2. CASE ~NoOp
      <4>1. Stored /\ cache.intent # None
        BY <1>7 DEF Apply, InPhase, ISession, Pending
      <4>2. cache.intent.applied \in Texts /\ buffer.version + 1 \in Version
        BY <1>7, <3>2, <4>1, Fields, BoundAssumption DEF Apply, Moves, Stored, IClient,
           Version
      <4>3. buffer' = [text |-> cache.intent.applied, version |-> buffer.version + 1, dirty |-> TRUE]
        BY <1>7, <3>2 DEF Apply, Show
      <4>q. QED BY <4>2, <4>3 DEF Buffer
    <3>q. QED BY <3>1, <3>2
  <2>q. QED BY <1>7, <2>1, <2>2 DEF Apply, IClient
<1>8. CASE Save
  <2>1. alone' \in BOOLEAN
    BY <1>8, Zenon DEF Save, IClient, history, client
  <2>2. buffer' \in Buffer
    BY <1>8 DEF Save, IClient, Buffer
  <2>q. QED BY <1>8, <2>1, <2>2 DEF Save, IClient, history
<1>9. CASE Reload
  <2>1. alone' \in BOOLEAN
    BY <1>9, Zenon DEF Reload, IClient, history, client
  <2>2. disk \in Texts /\ buffer.version + 1 \in Version
    BY <1>9, Fields, BoundAssumption DEF Reload, Moves, IFiles, IClient, Version
  <2>3. buffer' \in Buffer
    BY <1>9, <2>2 DEF Reload, Show, Buffer
  <2>q. QED BY <1>9, <2>1, <2>3, BoundAssumption DEF Reload, IClient, history
<1>10. CASE Crash
  <2>1. alone' \in BOOLEAN
    BY <1>10, Zenon DEF Crash, IClient, history, client
  <2>2. 1 \in Version
    BY BoundAssumption DEF Version
  <2>3. buffer' \in Buffer
    <3>1. CASE buffer' = Loaded(disk)
      BY <2>2, <3>1 DEF Loaded, IFiles, Buffer
    <3>2. CASE buffer' = [buffer EXCEPT !.version = 1]
      BY <2>2, <3>2 DEF IClient, Buffer
    <3>q. QED BY <1>10, <3>1, <3>2 DEF Crash
  <2>q. QED BY <1>10, <2>1, <2>3, BoundAssumption DEF Crash, IClient
<1>11. ASSUME NEW t \in Texts, Edit(t) PROVE IClient'
  <2>1. alone' \in BOOLEAN
    BY <1>11, Zenon DEF Edit, IClient, history, client
  <2>2. t \in Texts /\ buffer.version + 1 \in Version
    BY <1>11, Fields, BoundAssumption DEF Edit, Moves, IFiles, IClient, Version
  <2>3. buffer' \in Buffer
    BY <1>11, <2>2 DEF Edit, Show, Buffer
  <2>q. QED BY <1>11, <2>1, <2>3, BoundAssumption DEF Edit, IClient, history
<1>12. ASSUME NEW t \in Texts, PeerSave(t) PROVE IClient'
  <2>1. alone' \in BOOLEAN
    BY <1>12, Zenon DEF PeerSave, IClient, history, client
  <2>q. QED BY <1>12, <2>1, BoundAssumption DEF PeerSave, IClient, client
<1>13. CASE UNCHANGED <<buffer, adapter, alone, trouble>>
  BY <1>13 DEF IClient
<1>q. QED
  <2>1. ASSUME
          OpenSession \/ RestoreSession \/ Resume \/ Refuse \/ Applied \/ Abort
          \/ Remove \/ Commit \/ DropUpload \/ (\E d \in Drafts : Begin(d)) \/
          Lock \/ Lose \/ Fail \/ PeerInstall \/ PeerFail
        PROVE UNCHANGED <<buffer, adapter, alone, trouble>>
    BY <2>1, Zenon DEF OpenSession, RestoreSession, Resume, Refuse, Applied, Abort,
       Remove, Commit, DropUpload, Begin, Lock, Lose, Fail, PeerInstall, PeerFail,
       shared, server, client, history
  <2>q. QED
    BY <1>1, <1>2, <1>3, <1>4, <1>5, <1>6, <1>7, <1>8, <1>9, <1>10, <1>11, <1>12, <1>13,
       <2>1 DEF Next

\* What is due is an intent.
LEMMA StepDue ==
    ASSUME IDue, IJob, Next
    PROVE  IDue'
<1>1. CASE Install
  <2>1. job \in Job /\ job # None
    BY <1>1, Zenon DEF Install, Replace, AtStep, IJob
  <2>2. job.op = "prepare" => job.want \in Record /\ job.want.intent \in Intent \cup {None}
    BY <2>1, JobFields, Fields DEF IJob
  <2>q. QED BY <1>1, <2>2 DEF Install, IDue
<1>2. CASE Lose
  BY <1>2, SMTT(15) DEF Lose, Replace, IDue, shared, server, client, history
<1>3. CASE PeerInstall
  BY <1>3, SMTT(15) DEF PeerInstall, IDue, shared, server, client, history
<1>4. CASE UNCHANGED due
  BY <1>4 DEF IDue
<1>q. QED
  <2>1. ASSUME
          OpenStore \/ CloseStore \/ OpenSession \/ RestoreSession \/
          CloseSession \/ Resume \/ Prepare \/ Refuse \/ Applied \/ Abort \/
          Remove \/ Commit \/ DropUpload \/ (\E d \in Drafts : Begin(d)) \/ Lock
          \/ Fail \/ PeerLock \/ PeerFail \/ Apply \/ Save \/ Reload \/ Crash \/
          (\E t \in Texts : Edit(t)) \/ (\E t \in Texts : PeerSave(t))
        PROVE UNCHANGED due
    BY <2>1, Zenon DEF OpenStore, CloseStore, OpenSession, RestoreSession, CloseSession,
       Resume, Prepare, Refuse, Applied, Abort, Remove, Commit, DropUpload, Begin, Lock,
       Fail, PeerLock, PeerFail, Apply, Save, Reload, Crash, Edit, PeerSave, shared,
       server, client, history
  <2>q. QED
    BY <1>1, <1>2, <1>3, <1>4, <2>1 DEF Next

\* Sessions and their checkpoints agree.
LEMMA StepSession ==
    ASSUME IServer, ISession, IJob, Next
    PROVE  ISession'
<1>1. CASE OpenStore
  BY <1>1, SMTT(15) DEF OpenStore, Free, ISession, Stored, Pending, InPhase, shared,
     server, client, history
<1>2. CASE CloseStore
  BY <1>2, SMTT(15) DEF CloseStore, ISession, Stored, Pending, InPhase, shared, server,
     client, history
<1>3. CASE RestoreSession
  <2>1. Stored /\ cache' = cache
    BY <1>3 DEF RestoreSession
  <2>2. CASE Pending
    <3>1. session'.phase = "recovering" /\ Pending'
      BY <1>3, <2>1, <2>2 DEF RestoreSession, Pending, Stored
    <3>q. QED BY <2>1, <3>1 DEF ISession, InPhase, Stored
  <2>3. CASE ~Pending
    <3>1. session'.phase = "paused" /\ ~Pending'
      BY <1>3, <2>1, <2>3 DEF RestoreSession, Pending, Stored
    <3>q. QED BY <2>1, <3>1 DEF ISession, InPhase, Stored
  <2>q. QED BY <2>2, <2>3
<1>4. CASE CloseSession
  BY <1>4, SMTT(15) DEF CloseSession, Free, ISession, Stored, Pending, InPhase, shared,
     server, client, history
<1>5. CASE Refuse
  <2>1. session # None /\ session \in Session /\ ~Pending /\ Stored
    BY <1>5 DEF Refuse, InPhase, ISession, IServer
  <2>2. session' = [session EXCEPT !.phase = "paused", !.version = 1] /\ cache' = cache
    BY <1>5 DEF Refuse
  <2>3. session'.phase = "paused"
    BY <2>1, <2>2 DEF Session
  <2>q. QED BY <2>1, <2>2, <2>3 DEF ISession, InPhase, Stored, Pending
<1>6. CASE Install
  <2>1. job \in Job /\ job # None
    BY <1>6, Zenon DEF Install, Replace, AtStep, IJob
  <2>2. cache' = job.want /\ session' = Advanced /\ job.want \in Record \cup {None}
    BY <1>6, <2>1, JobFields DEF Install
  <2>3. CASE job.op = "remove"
    BY <2>2, <2>3 DEF ISession, Advanced
  <2>4. CASE job.op = "commit"
    <3>1. session' = session /\ job.want \in Record /\ job.want.intent = job.seen.intent
      BY <2>2, <2>4, <2>1 DEF Advanced, IJob
    <3>2. CASE session # None
      BY <2>1, <2>2, <2>4, <3>1, <3>2 DEF IJob, ISession, Stored, Pending, InPhase
    <3>q. QED BY <3>1, <3>2 DEF ISession
  <2>5. CASE job.op \in {"open", "resume", "applied", "abort", "prepare"}
    <3>1. job.want \in Record /\ (job.op = "prepare" <=> job.want.intent # None)
      BY <2>1, <2>2, <2>5 DEF IJob
    <3>2. session' # None => session'.phase = IF job.op = "prepare" THEN "applying"
                                              ELSE IF job.op = "abort" THEN "paused" ELSE "ready"
      <4>1. job.op # "open" => session \in Session
        BY <2>1, <2>5 DEF IJob, IServer
      <4>q. QED BY <2>2, <2>5, <4>1 DEF Advanced, Session
    <3>q. QED BY <2>2, <3>1, <3>2 DEF ISession, Stored, Pending, InPhase
  <2>q. QED BY <2>1, <2>3, <2>4, <2>5, JobFields DEF Ops
<1>7. CASE Crash
  BY <1>7, SMTT(15) DEF Crash, ISession, Stored, Pending, InPhase, shared, server,
     client, history
<1>8. CASE UNCHANGED <<cache, session>>
  BY <1>8 DEF ISession, Stored, Pending, InPhase
<1>q. QED
  <2>1. ASSUME
          OpenSession \/ Resume \/ Prepare \/ Applied \/ Abort \/ Remove \/
          Commit \/ DropUpload \/ (\E d \in Drafts : Begin(d)) \/ Lock \/ Lose
          \/ Fail \/ PeerLock \/ PeerInstall \/ PeerFail \/ Apply \/ Save \/
          Reload \/ (\E t \in Texts : Edit(t)) \/ (\E t \in Texts : PeerSave(t))
        PROVE UNCHANGED <<cache, session>>
    BY <2>1, Zenon DEF OpenSession, Resume, Prepare, Applied, Abort, Remove, Commit,
       DropUpload, Begin, Lock, Lose, Fail, PeerLock, PeerInstall, PeerFail, Apply,
       Save, Reload, Edit, PeerSave, shared, server, client, history
  <2>q. QED
    BY <1>1, <1>2, <1>3, <1>4, <1>5, <1>6, <1>7, <1>8, <2>1 DEF Next

\* The lock protects what was compared.
LEMMA StepLock ==
    ASSUME IFiles, IServer, IClient, ISession, IUpload, ILock, Next
    PROVE  ILock'
<1>1. CASE CloseStore
  BY <1>1, SMTT(15) DEF CloseStore, ILock, AtStep, Matches, shared, server, client,
     history
<1>2. CASE OpenSession
  <2>1. job' # None /\ job'.step = "asked"
    BY <1>2, Requests
  <2>q. QED BY <1>2, <2>1 DEF OpenSession, ILock, AtStep, shared
<1>3. CASE Resume
  <2>1. job' # None /\ job'.step = "asked"
    BY <1>3, Requests
  <2>q. QED BY <1>3, <2>1 DEF Resume, ILock, AtStep, shared
<1>4. CASE Prepare
  <2>1. job' # None /\ job'.step = "asked"
    BY <1>4, Requests
  <2>q. QED BY <1>4, <2>1 DEF Prepare, ILock, AtStep, shared
<1>5. CASE Applied
  <2>1. job' # None /\ job'.step = "asked"
    BY <1>5, Requests
  <2>q. QED BY <1>5, <2>1 DEF Applied, ILock, AtStep, shared
<1>6. CASE Abort
  <2>1. job' # None /\ job'.step = "asked"
    BY <1>6, Requests
  <2>q. QED BY <1>6, <2>1 DEF Abort, ILock, AtStep, shared
<1>7. CASE Remove
  <2>1. job' # None /\ job'.step = "asked"
    BY <1>7, Requests
  <2>q. QED BY <1>7, <2>1 DEF Remove, ILock, AtStep, shared
<1>8. CASE Commit
  <2>1. job' # None /\ job'.step = "asked"
    BY <1>8, Requests
  <2>q. QED BY <1>8, <2>1 DEF Commit, ILock, AtStep, shared
<1>9. CASE Lock
  BY <1>9, SMTT(15) DEF Lock, ILock, AtStep, Matches, shared, server, client, history
<1>10. CASE Install
  BY <1>10, SMTT(15) DEF Install, Replace, ILock, AtStep, Matches, shared, server,
     client, history
<1>11. CASE Lose
  BY <1>11, SMTT(15) DEF Lose, Replace, ILock, AtStep, Matches, shared, server, client,
     history
<1>12. CASE Fail
  BY <1>12, SMTT(15) DEF Fail, ILock, AtStep, Matches, shared, server, client, history
<1>13. CASE PeerLock
  BY <1>13, SMTT(15) DEF PeerLock, ILock, AtStep, Matches, shared, server, client,
     history
<1>14. CASE PeerInstall
  BY <1>14, SMTT(15) DEF PeerInstall, ILock, AtStep, Matches, shared, server, client,
     history
<1>15. CASE PeerFail
  BY <1>15, SMTT(15) DEF PeerFail, ILock, AtStep, Matches, shared, server, client,
     history
<1>16. CASE Crash
  BY <1>16, SMTT(15) DEF Crash, ILock, AtStep, Matches, shared, server, client, history
<1>17. CASE UNCHANGED <<file, peer, job>>
  BY <1>17 DEF ILock, AtStep, Matches
<1>q. QED
  <2>1. ASSUME
          OpenStore \/ RestoreSession \/ CloseSession \/ Refuse \/ DropUpload \/
          (\E d \in Drafts : Begin(d)) \/ Apply \/ Save \/ Reload \/ (\E t \in
          Texts : Edit(t)) \/ (\E t \in Texts : PeerSave(t))
        PROVE UNCHANGED <<file, peer, job>>
    BY <2>1, Zenon DEF OpenStore, RestoreSession, CloseSession, Refuse, DropUpload,
       Begin, Apply, Save, Reload, Edit, PeerSave, shared, server, client, history
  <2>q. QED
    BY <1>1, <1>2, <1>3, <1>4, <1>5, <1>6, <1>7, <1>8, <1>9, <1>10, <1>11, <1>12, <1>13,
       <1>14, <1>15, <1>16, <1>17, <2>1 DEF Next

\* An upload without a session is of the cached record.
LEMMA StepUpload ==
    ASSUME IServer, IUpload, IJob, Next
    PROVE  IUpload'
<1>1. CASE OpenStore
  BY <1>1, SMTT(15) DEF OpenStore, Free, IUpload, shared, server, client, history
<1>2. CASE CloseStore
  BY <1>2, SMTT(15) DEF CloseStore, IUpload, shared, server, client, history
<1>3. CASE RestoreSession
  <2>1. \A p \in Phases, n \in 0..MaxSerial : [phase |-> p, serial |-> n, version |-> 1] # None
    <3>1. \A p \in Phases, n \in 0..MaxSerial :
            [phase |-> p, serial |-> n, version |-> 1] \in Session
      BY BoundAssumption DEF Session, Version
    <3>q. QED BY <3>1, NoneAssumption
  <2>2. Pending => cache.intent.token \in 0..MaxSerial
    BY Fields DEF Pending, Stored
  <2>3. session' # None
    <3>1. CASE Pending
      BY <1>3, <2>1, <2>2, <3>1 DEF RestoreSession, Phases
    <3>2. CASE ~Pending
      BY <1>3, <2>1, <3>2, BoundAssumption DEF RestoreSession, Phases
    <3>q. QED BY <3>1, <3>2
  <2>q. QED BY <2>3 DEF IUpload
<1>4. CASE CloseSession
  BY <1>4, SMTT(15) DEF CloseSession, Free, IUpload, shared, server, client, history
<1>5. CASE Refuse
  <2>1. session' # None
    <3>1. session \in Session /\ session' = [session EXCEPT !.phase = "paused", !.version = 1]
      BY <1>5 DEF Refuse, InPhase, IServer
    <3>q. QED BY <3>1, PausedType
  <2>q. QED BY <2>1 DEF IUpload
<1>6. CASE Commit
  BY <1>6, SMTT(15) DEF Commit, IUpload, shared, server, client, history
<1>7. CASE DropUpload
  BY <1>7, SMTT(15) DEF DropUpload, Free, IUpload, shared, server, client, history
<1>8. ASSUME NEW d \in Drafts, Begin(d) PROVE IUpload'
  BY <1>8, SMTT(15) DEF Begin, Free, IUpload, shared, server, client, history
<1>9. CASE Install
  <2>1. job \in Job /\ job # None
    BY <1>9, Zenon DEF Install, Replace, AtStep, IJob
  <2>2. ASSUME upload' # None, session' = None PROVE FALSE
    <3>1. job.op # "remove" /\ upload # None
      BY <1>9, <2>2 DEF Install
    <3>2. job.op \in {"resume", "applied", "abort", "prepare"} /\ session \in Session
      BY <2>1, <3>1, JobFields DEF Ops, IJob, IServer
    <3>3. Advanced # None
      BY <2>1, <3>2, AdvancedSession
    <3>q. QED BY <1>9, <2>2, <3>3 DEF Install
  <2>q. QED BY <2>2 DEF IUpload
<1>10. CASE Crash
  BY <1>10, SMTT(15) DEF Crash, IUpload, shared, server, client, history
<1>11. CASE UNCHANGED <<cache, upload, session>>
  BY <1>11 DEF IUpload
<1>q. QED
  <2>1. ASSUME
          OpenSession \/ Resume \/ Prepare \/ Applied \/ Abort \/ Remove \/ Lock
          \/ Lose \/ Fail \/ PeerLock \/ PeerInstall \/ PeerFail \/ Apply \/
          Save \/ Reload \/ (\E t \in Texts : Edit(t)) \/ (\E t \in Texts :
          PeerSave(t))
        PROVE UNCHANGED <<cache, upload, session>>
    BY <2>1, Zenon DEF OpenSession, Resume, Prepare, Applied, Abort, Remove, Lock, Lose,
       Fail, PeerLock, PeerInstall, PeerFail, Apply, Save, Reload, Edit, PeerSave,
       shared, server, client, history
  <2>q. QED
    BY <1>1, <1>2, <1>3, <1>4, <1>5, <1>6, <1>7, <1>8, <1>9, <1>10, <1>11, <2>1 DEF Next

\* A publication may put in place only what its request stands for.
LEMMA StepJob ==
    ASSUME IFiles, IServer, IClient, ISession, IUpload, IJob, Next
    PROVE  IJob'
<1>1. CASE OpenStore
  BY <1>1, SMTT(15) DEF OpenStore, Free, IJob, shared, server, client, history
<1>2. CASE CloseStore
  BY <1>2, SMTT(15) DEF CloseStore, IJob, shared, server, client, history
<1>3. CASE OpenSession
  BY <1>3, Requests
<1>4. CASE RestoreSession
  BY <1>4, SMTT(15) DEF RestoreSession, Free, IJob, shared, server, client, history
<1>5. CASE CloseSession
  BY <1>5, SMTT(15) DEF CloseSession, Free, IJob, shared, server, client, history
<1>6. CASE Resume
  BY <1>6, Requests
<1>7. CASE Prepare
  BY <1>7, Requests
<1>8. CASE Refuse
  BY <1>8, SMTT(15) DEF Refuse, Verified, Asks, Free, IJob, shared, server, client,
     history
<1>9. CASE Applied
  BY <1>9, Requests
<1>10. CASE Abort
  BY <1>10, Requests
<1>11. CASE Remove
  BY <1>11, Requests
<1>12. CASE Commit
  BY <1>12, Requests
<1>13. CASE DropUpload
  BY <1>13, SMTT(15) DEF DropUpload, Free, IJob, shared, server, client, history
<1>14. ASSUME NEW d \in Drafts, Begin(d) PROVE IJob'
  BY <1>14, SMTT(15) DEF Begin, Free, IJob, shared, server, client, history
<1>15. CASE Lock
  <2>1. job \in Job /\ job # None /\ UNCHANGED <<cache, upload, session>>
    BY <1>15, Zenon DEF Lock, AtStep, IJob
  <2>2. /\ job' \in Job /\ job'.op = job.op /\ job'.seen = job.seen /\ job'.want = job.want
    BY <1>15, <2>1 DEF Lock, Job
  <2>q. QED BY <2>1, <2>2 DEF IJob
<1>16. CASE Install
  BY <1>16, SMTT(15) DEF Install, Replace, IJob, shared, server, client, history
<1>17. CASE Lose
  BY <1>17, SMTT(15) DEF Lose, Replace, IJob, shared, server, client, history
<1>18. CASE Fail
  BY <1>18, SMTT(15) DEF Fail, IJob, shared, server, client, history
<1>19. CASE Crash
  BY <1>19, SMTT(15) DEF Crash, IJob, shared, server, client, history
<1>20. CASE UNCHANGED <<cache, upload, session, job>>
  BY <1>20 DEF IJob
<1>q. QED
  <2>1. ASSUME
          PeerLock \/ PeerInstall \/ PeerFail \/ Apply \/ Save \/ Reload \/ (\E
          t \in Texts : Edit(t)) \/ (\E t \in Texts : PeerSave(t))
        PROVE UNCHANGED <<cache, upload, session, job>>
    BY <2>1, Zenon DEF PeerLock, PeerInstall, PeerFail, Apply, Save, Reload, Edit,
       PeerSave, shared, server, client, history
  <2>q. QED
    BY <1>1, <1>2, <1>3, <1>4, <1>5, <1>6, <1>7, <1>8, <1>9, <1>10, <1>11, <1>12, <1>13,
       <1>14, <1>15, <1>16, <1>17, <1>18, <1>19, <1>20, <2>1 DEF Next

\* The intent of a plan stays in the file until it is settled.
LEMMA StepCovers ==
    ASSUME IFiles, ILock, IJob, IntentCovers, Next
    PROVE  IntentCovers'
<1>1. CASE Install
  <2>1. job \in Job /\ job # None /\ Matches /\ file' = job.want
    BY <1>1, Zenon DEF Install, Replace, AtStep, IJob, ILock
  <2>2. CASE due' = None
    BY <2>2 DEF IntentCovers
  <2>3. CASE due' # None
    <3>1. job.op \notin Settling
      BY <1>1, <2>3 DEF Install, Settling
    <3>2. job.op \in {"open", "prepare", "commit"} /\ job.want # None /\ file = job.seen
      BY <2>1, <3>1, JobFields DEF Settling, Ops, IJob, Matches
    <3>q. QED BY <1>1, <2>1, <2>3, <3>2 DEF Install, IJob, IntentCovers
  <2>q. QED BY <2>2, <2>3
<1>2. CASE Lose
  <2>1. job \in Job /\ job # None /\ Matches /\ file' = job.want
    BY <1>2, Zenon DEF Lose, Replace, AtStep, IJob, ILock
  <2>2. CASE due' = None
    BY <2>2 DEF IntentCovers
  <2>3. CASE due' # None
    <3>1. job.op \notin Settling
      BY <1>2, <2>3 DEF Lose, Settling
    <3>2. job.op \in {"open", "prepare", "commit"} /\ job.want # None /\ file = job.seen
      BY <2>1, <3>1, JobFields DEF Settling, Ops, IJob, Matches
    <3>q. QED BY <1>2, <2>1, <2>3, <3>2 DEF Lose, IJob, IntentCovers
  <2>q. QED BY <2>2, <2>3
<1>3. CASE PeerInstall
  BY <1>3, SMTT(15) DEF PeerInstall, IntentCovers, shared, server, client, history
<1>4. CASE UNCHANGED <<file, due>>
  BY <1>4 DEF IntentCovers
<1>q. QED
  <2>1. ASSUME
          OpenStore \/ CloseStore \/ OpenSession \/ RestoreSession \/
          CloseSession \/ Resume \/ Prepare \/ Refuse \/ Applied \/ Abort \/
          Remove \/ Commit \/ DropUpload \/ (\E d \in Drafts : Begin(d)) \/ Lock
          \/ Fail \/ PeerLock \/ PeerFail \/ Apply \/ Save \/ Reload \/ Crash \/
          (\E t \in Texts : Edit(t)) \/ (\E t \in Texts : PeerSave(t))
        PROVE UNCHANGED <<file, due>>
    BY <2>1, Zenon DEF OpenStore, CloseStore, OpenSession, RestoreSession, CloseSession,
       Resume, Prepare, Refuse, Applied, Abort, Remove, Commit, DropUpload, Begin, Lock,
       Fail, PeerLock, PeerFail, Apply, Save, Reload, Crash, Edit, PeerSave, shared,
       server, client, history
  <2>q. QED
    BY <1>1, <1>2, <1>3, <1>4, <2>1 DEF Next
-----------------------------------------------------------------------------
(* The theorems.                                                           *)

\* A window that has opened nothing satisfies the invariant.
LEMMA InitInv == Init => IInv
<1> SUFFICES ASSUME Init PROVE IInv
  OBVIOUS
<1>1. IFiles /\ IServer /\ IDue
  BY TextAssumption DEF Init, IFiles, IServer, IDue
<1>2. IClient
  <2>1. alone \in BOOLEAN /\ FALSE \in BOOLEAN
    BY Zenon DEF Init
  <2>2. Loaded(FirstText) \in Buffer
    BY <2>1, TextAssumption, BoundAssumption DEF Loaded, Buffer, Version
  <2>q. QED BY <2>1, <2>2, BoundAssumption DEF Init, IClient
<1>3. ISession /\ ILock /\ IUpload /\ IJob /\ IntentCovers
  BY DEF Init, ISession, ILock, IUpload, IJob, IntentCovers, AtStep
<1>q. QED BY <1>1, <1>2, <1>3 DEF IInv

\* Every step keeps it.
LEMMA NextInv == IInv /\ [Next]_vars => IInv'
<1> SUFFICES ASSUME IInv, [Next]_vars PROVE IInv'
  OBVIOUS
<1>1. CASE UNCHANGED vars
  BY <1>1 DEF IInv, vars, shared, server, client, history, IFiles, IServer, IClient,
     IDue, ISession, ILock, IUpload, IJob, IntentCovers, Stored, Pending, InPhase,
     AtStep, Matches
<1>2. CASE Next
  BY <1>2, StepFiles, StepServer, StepClient, StepDue, StepSession, StepLock,
     StepUpload, StepJob, StepCovers DEF IInv
<1>q. QED BY <1>1, <1>2

\* The invariant holds in every reachable state.
THEOREM Inductive == Spec => []IInv
<1>q. QED
  BY InitInv, NextInv, PTL DEF Spec

\* Every variable keeps its type, and a session awaits a receipt exactly while its
\* checkpoint holds an intent.
THEOREM TypeCorrect == Spec => []TypeOK
<1>1. ASSUME IInv PROVE TypeOK
  <2>1. job \in Job \cup {None}
    BY <1>1 DEF IInv, IJob
  <2>q. QED
    BY <1>1, <2>1, Zenon DEF IInv, IFiles, IServer, IClient, IDue, ISession, TypeOK
<1>q. QED BY <1>1, Inductive, PTL

\* From the moment a plan is handed out until it is settled, the file holds its intent.
THEOREM IntentIsCovered == Spec => []IntentCovers
<1>1. IInv => IntentCovers BY DEF IInv
<1>q. QED BY <1>1, Inductive, PTL

\* The three ways the file of the checkpoint changes.
LEMMA Replacements ==
    ASSUME IInv, Next, file' # file
    PROVE  \/ peer = file /\ peer # Closed
           \/ /\ job # None /\ job \in Job /\ job.seen = file /\ file' = job.want
<1>1. CASE PeerInstall
  BY <1>1 DEF PeerInstall, IInv, ILock
<1>2. CASE Install \/ Lose
  <2>1. job # None /\ Matches /\ file' = job.want /\ job \in Job
    BY <1>2, Zenon DEF Install, Lose, Replace, AtStep, IInv, ILock, IJob
  <2>2. ASSUME job.op = "remove", file = None PROVE FALSE
    BY <2>1, <2>2 DEF IInv, IJob
  <2>q. QED BY <2>1, <2>2 DEF Matches
<1>3. ASSUME ~PeerInstall, ~Install, ~Lose PROVE FALSE
  <2>1. UNCHANGED file
    BY <1>3, Zenon DEF Next, OpenStore, CloseStore, OpenSession, RestoreSession,
       CloseSession, Resume, Prepare, Refuse, Applied, Abort, Remove, Commit,
       DropUpload, Begin, Lock, Fail, PeerLock, PeerFail, Apply, Save, Reload, Crash,
       Edit, PeerSave, shared
  <2>q. QED BY <2>1
<1>q. QED BY <1>1, <1>2, <1>3

\* A window replaces or removes only the checkpoint it has seen.
THEOREM ReplacesOnlyKnown == Spec => ReplacesKnown
<1> DEFINE Known == file' # file => (job # None /\ job.seen = file) \/ peer = file
<1>1. IInv /\ [Next]_vars => [Known]_vars
  <2> SUFFICES ASSUME IInv, Next, file' # file PROVE Known
    BY DEF vars
  <2>q. QED BY Replacements
<1>q. QED BY <1>1, Inductive, PTL DEF Spec, ReplacesKnown

\* Preparing, acknowledging, resuming or aborting never changes the stored draft.
THEOREM DraftIsKept == Spec => DraftKept
<1> DEFINE Kept == file # None /\ file' \notin {file, None} /\ file'.draft # file.draft
                     => peer = file \/ job.op = "commit"
<1>1. IInv /\ [Next]_vars => [Kept]_vars
  <2> SUFFICES ASSUME IInv, Next, file # None, file' \notin {file, None},
                      file'.draft # file.draft, peer # file
               PROVE  job.op = "commit"
    BY DEF vars
  <2>1. job # None /\ job \in Job /\ job.seen = file /\ file' = job.want
    BY Replacements
  <2>2. job.op \notin {"remove", "open", "resume", "prepare", "applied", "abort"}
    BY <2>1 DEF IInv, IJob
  <2>q. QED BY <2>1, <2>2, JobFields DEF Ops
<1>q. QED BY <1>1, Inductive, PTL DEF Spec, DraftKept

-----------------------------------------------------------------------------
(* That an interrupted application can be resumed.                         *)

\* A commit keeps the disk of the record; a preparation starts from the disk as
\* the record has it, unless somebody interfered, and nothing is due meanwhile.
IPrepare ==
    job # None =>
        /\ job.op = "commit" => job.want.disk = job.seen.disk
        /\ job.op = "prepare" =>
             /\ InPhase("ready") /\ due = None
             /\ alone /\ buffer.dirty => disk = job.want.disk

\* Until the plan is settled the file remembers the disk under an unsaved buffer,
\* and the client that has yet to apply the plan has the same one in mind.
IDisk ==
    due # None =>
        /\ alone /\ buffer.dirty => disk = file.disk
        /\ adapter = "planned" => Stored /\ cache.disk = file.disk

\* Only one process of a window asks for one thing at a time.
LEMMA StepPrepare ==
    ASSUME IInv, IPrepare, Next
    PROVE  IPrepare'
<1>1. CASE OpenSession \/ Resume \/ Applied \/ Abort \/ Remove
  <2>1. \E op \in {"open", "resume", "applied", "abort", "remove"} :
            \E seen, want : Publish(op, seen, want)
    BY <1>1, Zenon DEF OpenSession, Resume, Applied, Abort, Remove
  <2>2. job'.op \in {"open", "resume", "applied", "abort", "remove"}
    BY <2>1 DEF Publish
  <2>q. QED BY <2>1, <2>2 DEF IPrepare
<1>2. CASE Prepare
  <2>1. cache \in Record /\ cache.intent = None /\ file = cache
    BY <1>2 DEF Prepare, Verified, Asks, InPhase, IInv, ISession, Pending, Stored
  <2>2. due = None
    BY <2>1 DEF IInv, IntentCovers
  <2>3. buffer.dirty => disk = cache.disk
    BY <1>2 DEF Prepare, Checked
  <2>4. /\ job'.op = "prepare" /\ job'.want.disk = cache.disk
        /\ UNCHANGED <<disk, buffer, session, due>> /\ InPhase("ready")
    BY <1>2, <2>1 DEF Prepare, Publish, Record, shared, client
  <2>q. QED BY <2>2, <2>3, <2>4 DEF IPrepare, InPhase
<1>3. CASE Commit
  <2>1. upload.seen \in Record
    BY <1>3, Fields DEF Commit, IInv, IServer
  <2>2. job'.op = "commit" /\ job'.seen = upload.seen /\ job'.want = Drafted
    BY <1>3 DEF Commit, Publish
  <2>3. Drafted.disk = upload.seen.disk
    BY <2>1 DEF Drafted, Record
  <2>q. QED BY <2>2, <2>3 DEF IPrepare
<1>4. CASE Lock
  <2>1. job # None /\ job \in Job /\ UNCHANGED <<disk, buffer, session, due, alone>>
    BY <1>4, Zenon DEF Lock, AtStep, IInv, IJob, shared, client, history
  <2>2. job'.op = job.op /\ job'.seen = job.seen /\ job'.want = job.want
    BY <1>4, <2>1 DEF Lock, Job
  <2>q. QED BY <2>1, <2>2 DEF IPrepare, InPhase
<1>5. CASE job' = None
  BY <1>5 DEF IPrepare
<1>6. CASE PeerInstall
  <2>1. UNCHANGED <<disk, buffer, session, job, alone>> /\ (due' = due \/ due' = None)
    BY <1>6, Zenon DEF PeerInstall, server, client
  <2>q. QED BY <2>1 DEF IPrepare, InPhase
<1>7. CASE Apply \/ Save \/ Reload \/ \E t \in Texts : Edit(t) \/ PeerSave(t)
  <2>1. UNCHANGED <<job, session, due>>
    BY <1>7, Zenon DEF Apply, Save, Reload, Edit, PeerSave, server, history
  <2>2. ASSUME job # None, job.op = "prepare" PROVE ~alone' \/ ~buffer'.dirty
    <3>1. CASE Apply
      BY <2>2, <3>1 DEF IPrepare, Apply, InPhase
    <3>2. CASE Save
      <4>1. buffer \in Buffer /\ buffer' = [buffer EXCEPT !.dirty = FALSE]
        BY <3>2 DEF Save, IInv, IClient
      <4>q. QED BY <4>1 DEF Buffer
    <3>3. CASE Reload
      BY <3>3 DEF Reload, Show
    <3>4. CASE \E t \in Texts : Edit(t) \/ PeerSave(t)
      BY <3>4 DEF Edit, PeerSave
    <3>q. QED BY <1>7, <3>1, <3>2, <3>3, <3>4
  <2>q. QED BY <2>1, <2>2 DEF IPrepare, InPhase
<1>8. CASE UNCHANGED <<disk, buffer, session, job, due, alone>>
  BY <1>8 DEF IPrepare, InPhase
<1>q. QED
  <2>1. ASSUME OpenStore \/ CloseStore \/ RestoreSession \/ CloseSession \/ Refuse
               \/ DropUpload \/ (\E d \in Drafts : Begin(d)) \/ Install \/ Lose \/ Fail \/ Crash
        PROVE  job' = None
    BY <2>1, Zenon DEF OpenStore, CloseStore, RestoreSession, CloseSession, Refuse, DropUpload,
       Begin, Install, Lose, Fail, Crash, Replace, Free, Verified, Asks
  <2>2. ASSUME PeerLock \/ PeerFail PROVE UNCHANGED <<disk, buffer, session, job, due, alone>>
    BY <2>2, Zenon DEF PeerLock, PeerFail, shared, server, client, history
  <2>q. QED
    BY <1>1, <1>2, <1>3, <1>4, <1>5, <1>6, <1>7, <1>8, <2>1, <2>2 DEF Next

\* Nothing moves the disk of the record while its intent stays.
LEMMA StepDisk ==
    ASSUME IInv, IPrepare, IDisk, Next
    PROVE  IDisk'
<1>1. CASE Install \/ Lose
  <2>1. /\ job \in Job /\ job # None /\ Matches /\ file' = job.want
        /\ UNCHANGED <<disk, buffer, alone>>
    BY <1>1, Zenon DEF Install, Lose, Replace, AtStep, IInv, IJob, ILock, shared, client
  <2> SUFFICES ASSUME due' # None PROVE IDisk'
    BY DEF IDisk
  <2>2. job.op \in {"open", "prepare", "commit"}
    BY <1>1, <2>1, JobFields DEF Install, Lose, Settling, Ops
  <2>3. job.want # None /\ file = job.seen
    BY <2>1, <2>2 DEF IInv, IJob, Matches
  <2>4. CASE job.op = "prepare"
    <3>1. Install
      BY <1>1, <2>1, <2>4 DEF Lose, IPrepare, Settling
    <3>2. job.want \in Record /\ cache' = job.want
      BY <2>1, <2>3, <3>1, JobFields DEF Install
    <3>q. QED BY <2>1, <2>4, <3>2 DEF IPrepare, IDisk, Stored
  <2>5. CASE job.op = "open"
    <3>1. file = None /\ due' = due
      BY <1>1, <2>1, <2>3, <2>5 DEF Install, Lose, Settling, IInv, IJob
    <3>q. QED BY <3>1 DEF IInv, IntentCovers
  <2>6. CASE job.op = "commit"
    <3>1. due # None /\ file'.disk = file.disk
      BY <1>1, <2>1, <2>3, <2>6 DEF Install, Lose, Settling, IPrepare
    <3>2. adapter' = adapter /\ (cache' = file' \/ cache' = cache)
      BY <1>1, <2>1, <2>6 DEF Install, Lose, server, client
    <3>3. file' \in Record
      BY <2>1, <2>3, JobFields
    <3>q. QED BY <2>1, <3>1, <3>2, <3>3 DEF IDisk, Stored
  <2>q. QED BY <2>2, <2>4, <2>5, <2>6
<1>2. CASE PeerInstall
  <2> SUFFICES ASSUME due' # None PROVE IDisk'
    BY DEF IDisk
  <2>1. /\ due # None /\ file' # None /\ file'.intent = due
        /\ peer = file /\ file \in Record /\ file.intent = due
        /\ UNCHANGED <<disk, cache, adapter, buffer, alone>>
    BY <1>2 DEF PeerInstall, IInv, IFiles, IntentCovers, ILock, server, client
  <2>2. file' \in Rebindings(peer) \cup Preparations(peer) \cup Draftings(peer)
    BY <1>2, <2>1, Fields DEF PeerInstall
  <2>3. \A r \in Rebindings(peer) : r.intent = None
    <3> DEFINE owners == {peer.owner} \cup (IF peer.intent = None THEN {} ELSE {peer.intent.applied})
               rebound(t, d) == [peer EXCEPT !.owner = t, !.disk = d, !.intent = None]
    <3>1. \A t, d : rebound(t, d).intent = None
      BY <2>1 DEF Record
    <3>2. Rebindings(peer) = {rebound(t, d) : t \in owners, d \in {peer.disk, disk}}
      BY DEF Rebindings
    <3> HIDE DEF owners, rebound
    <3>q. QED BY <3>1, <3>2
  <2>4. Preparations(peer) = {}
    BY <2>1 DEF Preparations
  <2>5. \A r \in Draftings(peer) : r.disk = peer.disk
    BY <2>1 DEF Draftings, Record
  <2>6. file'.disk = file.disk
    BY <2>1, <2>2, <2>3, <2>4, <2>5
  <2>q. QED BY <2>1, <2>6 DEF IDisk, Stored
<1>3. CASE Apply
  <2>1. /\ UNCHANGED <<disk, file, cache, due>> /\ adapter = "planned" /\ adapter' = "applied"
        /\ alone' => disk = cache.disk
    BY <1>3 DEF Apply, shared, server
  <2>q. QED BY <2>1 DEF IDisk
<1>4. CASE Save \/ Reload \/ \E t \in Texts : Edit(t) \/ PeerSave(t)
  <2>1. UNCHANGED <<file, cache, adapter, due>>
    BY <1>4, Zenon DEF Save, Reload, Edit, PeerSave, shared, server, client, history
  <2>2. ~alone' \/ ~buffer'.dirty
    <3>1. CASE Save
      <4>1. buffer \in Buffer /\ buffer' = [buffer EXCEPT !.dirty = FALSE]
        BY <3>1 DEF Save, IInv, IClient
      <4>q. QED BY <4>1 DEF Buffer
    <3>2. CASE Reload
      BY <3>2 DEF Reload, Show
    <3>3. CASE \E t \in Texts : Edit(t) \/ PeerSave(t)
      BY <3>3 DEF Edit, PeerSave
    <3>q. QED BY <1>4, <3>1, <3>2, <3>3
  <2>q. QED BY <2>1, <2>2 DEF IDisk, Stored
<1>5. CASE Crash
  <2>1. UNCHANGED <<disk, file, due, alone>> /\ adapter' = "none"
    BY <1>5 DEF Crash, shared
  <2>2. buffer'.dirty => buffer.dirty
    BY <1>5 DEF Crash, Loaded, IInv, IClient, Buffer
  <2>q. QED BY <2>1, <2>2 DEF IDisk
<1>6. CASE OpenStore \/ CloseStore
  BY <1>6 DEF OpenStore, CloseStore, IDisk, shared, history
<1>7. CASE Prepare
  <2>1. cache \in Record /\ cache.intent = None /\ file = cache
    BY <1>7 DEF Prepare, Verified, Asks, InPhase, IInv, ISession, Pending, Stored
  <2>2. due' = None
    BY <1>7, <2>1 DEF Prepare, IInv, IntentCovers
  <2>q. QED BY <2>2 DEF IDisk
<1>8. CASE CloseSession
  BY <1>8 DEF CloseSession, IDisk, shared, history
<1>9. CASE UNCHANGED <<disk, file, cache, buffer, adapter, due, alone>>
  BY <1>9 DEF IDisk, Stored
<1>q. QED
  <2>1. ASSUME OpenSession \/ RestoreSession \/ Resume \/ Refuse \/ Applied \/ Abort \/ Remove
               \/ Commit \/ DropUpload \/ (\E d \in Drafts : Begin(d)) \/ Lock \/ Fail
               \/ PeerLock \/ PeerFail
        PROVE  UNCHANGED <<disk, file, cache, buffer, adapter, due, alone>>
    BY <2>1, Zenon DEF OpenSession, RestoreSession, Resume, Refuse, Applied, Abort, Remove,
       Commit, DropUpload, Begin, Lock, Fail, PeerLock, PeerFail, shared, server, client, history
  <2>q. QED
    BY <1>1, <1>2, <1>3, <1>4, <1>5, <1>6, <1>7, <1>8, <1>9, <2>1 DEF Next

\* An unsaved buffer never hides a change of the disk the record does not know.
THEOREM DiskIsRemembered == Spec => [](IPrepare /\ IDisk)
<1>1. Init => IPrepare /\ IDisk
  BY DEF Init, IPrepare, IDisk
<1>2. IInv /\ IPrepare /\ IDisk /\ [Next]_vars => IPrepare' /\ IDisk'
  <2>1. CASE UNCHANGED vars
    BY <2>1 DEF vars, shared, server, client, history, IPrepare, IDisk, InPhase, Stored
  <2>q. QED BY <2>1, StepPrepare, StepDisk
<1>q. QED BY <1>1, <1>2, Inductive, PTL DEF Spec

\* After a crash during an application that nobody disturbed, a restored session
\* can be resumed from the untouched source or from the exact output (resume,
\* acknowledge, checked_read_document).
THEOREM ApplicationsReconcile == Spec => []Reconcilable
<1>1. ASSUME IInv, IDisk PROVE Reconcilable
  <2> SUFFICES ASSUME InPhase("recovering"), file = cache, due = file.intent, alone,
                      buffer.text \in {cache.owner, cache.intent.applied},
                      ~buffer.dirty => buffer.text = disk
               PROVE  Resumable
    BY DEF Reconcilable
  <2>1. Pending
    BY <1>1 DEF IInv, ISession, InPhase
  <2>2. buffer.dirty => disk = cache.disk
    BY <1>1, <2>1 DEF IDisk, Pending
  <2>3. CASE Reconciles
    BY <2>2, <2>3 DEF Resumable, Reconciles, Acknowledges
  <2>4. CASE ~Reconciles
    BY <2>1, <2>2, <2>4 DEF Resumable, Reconciles, Checked
  <2>q. QED BY <2>3, <2>4
<1>q. QED BY <1>1, Inductive, DiskIsRemembered, PTL
=============================================================================
