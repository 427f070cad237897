----------------------------- MODULE IdeRuntime -----------------------------
(***************************************************************************)
(* The scheduler of the IDE server (eska-project/src/ide/runtime.rs): a    *)
(* reader that admits frames and marks cancellations out of band, a worker *)
(* that executes one item at a time, and a writer that owns stdout.  They  *)
(* share a bounded queue under a mutex, a channel with room for one frame, *)
(* atomics and the park token of the worker.                               *)
(*                                                                         *)
(* A frame is a sequence of items; <<f, i>> is item i of frame f.  What a  *)
(* method computes is reduced to what scheduling and cancellation can tell *)
(* apart.  The client reads its own replies, sends every frame at most     *)
(* once, and nothing after `exit`.                                         *)
(***************************************************************************)
EXTENDS Integers, FiniteSets, SequencesExt

CONSTANTS
    Frames,         \* frames the client may send
    Histories,      \* sets of frames a client may have sent so far
    Content,        \* Content[f]: the items of frame f
    Batches,        \* frames whose body is a JSON array
    MaxPending,     \* limit on queued jobs and on pending request IDs
    MaxBytes,       \* limit on queued bytes, one byte per item
    BatchLimit,     \* items a batch may hold
    Descriptors,    \* steps a complete search index takes
    Faults          \* what may end the connection: "eof", "truncated", "stdout"

Item == [kind: {"request", "notification", "malformed", "garbage"}, id: Nat, method: STRING]

ASSUME FrameAssumption ==
    /\ Batches \subseteq Frames /\ Histories \subseteq SUBSET Frames
    /\ \A f \in Frames : /\ Content[f] \in Seq(Item)
                         /\ f \notin Batches => Len(Content[f]) = 1
ASSUME LimitAssumption ==
    {MaxPending, MaxBytes, BatchLimit} \subseteq Nat \ {0} /\ Descriptors \in Nat

VARIABLES
    \* Queue, behind its mutex
    jobs,           \* frames admitted and not yet taken, oldest first
    pending,        \* requests admitted whose reply is not wholly written
    cancelled,      \* pending requests whose cancellation flag is set
    bytes,          \* size of the queued jobs
    overflow,       \* a file notification was refused
    \* atomics
    stop,           \* terminal code, or Running
    exit,           \* code asked for by `exit`, or Running
    ready,          \* shared.initialized
    published, written,   \* frames handed to the writer, frames written
    token,          \* park token of the worker thread
    \* threads
    reader, worker, writer,
    channel,        \* the bounded channel to the writer
    server,         \* Server: what the worker alone owns
    \* history
    sent,           \* frames read
    started,        \* requests whose execution was begun
    applied,        \* requests that changed lifecycle, source or retained state
    doomed,         \* requests cancelled before they were begun
    stale,          \* a file notification was lost since the last full read
    overrun,        \* requests begun after the connection was stopped
    announced,      \* refreshes whose metadata/changed event was written
    delivered       \* <<item, outcome>> of every answer written

queue   == <<jobs, pending, cancelled, bytes, overflow>>
atomics == <<stop, exit, ready, token>>
output  == <<writer, channel, published, written>>
history == <<sent, started, applied, doomed, stale, overrun, announced, delivered>>
vars    == <<queue, atomics, output, reader, worker, server, history>>

Running == -1

ItemAt(o) == Content[o[1]][o[2]]
RequestsOf(f) == {o \in {f} \X DOMAIN Content[f] : ItemAt(o).kind = "request"}
Requests == UNION {RequestsOf(f) : f \in Frames}
Id(o) == ItemAt(o).id
Outcomes(o) == {r[2] : r \in {d \in delivered : d[1] = o}}

\* A frame for the writer: replies, the requests it releases, and the
\* refreshes whose metadata/changed event it is.
Reply(replies, release) == [replies |-> replies, release |-> release, changed |-> {}]
Event(S) == [replies |-> {}, release |-> {}, changed |-> S]

FileEvent(item) == item.kind = "notification" /\ item.method = "workspace/didChangeFiles"
Exits(item) == item.kind = "notification" /\ item.method = "exit"
Cancels(item) == item.kind = "notification" /\ item.method = "$/cancelRequest"

Init ==
    /\ jobs = <<>> /\ pending = {} /\ cancelled = {} /\ bytes = 0 /\ overflow = FALSE
    /\ stop = Running /\ exit = Running /\ ready = FALSE /\ token = FALSE
    /\ published = 0 /\ written = 0 /\ channel = <<>>
    /\ reader = [pc |-> "check", frame |-> {}, reply |-> {}]
    /\ worker = [pc |-> "check", job |-> <<>>, item |-> 0, replies |-> {}, outcome |-> "none",
                 outbox |-> <<>>, next |-> "check", reset |-> FALSE, target |-> 0]
    /\ writer = [pc |-> "receive", message |-> <<>>]
    /\ server = [initialized |-> FALSE, closing |-> FALSE, session |-> FALSE,
                 refresh |-> FALSE, index |-> 0]
    /\ sent = {} /\ started = {} /\ applied = {} /\ doomed = {} /\ stale = FALSE /\ overrun = 0
    /\ announced = {} /\ delivered = {}

Ended == worker.pc = "done"

\* Mutant: the worker is not unparked.
StopSilently(code) == stop' = (IF stop = Running THEN code ELSE stop) /\ UNCHANGED token

\* stop(): the first code wins; the worker is unparked in any case.
Stop(code) == stop' = (IF stop = Running THEN code ELSE stop) /\ token' = TRUE
Unpark == token' = TRUE

-----------------------------------------------------------------------------
(* read_loop and enqueue.                                                  *)

ReaderGoto(pc) == reader' = [reader EXCEPT !.pc = pc]

\* Sending a reply: reader and worker poll the channel and watch for stop.
Room == stop = Running /\ writer.pc # "done" /\ Len(channel) < 1

ReaderCheck ==
    /\ reader.pc = "check"
    /\ ReaderGoto(IF stop = Running THEN "read" ELSE "done")
    /\ UNCHANGED <<queue, atomics, output, worker, server, history>>

Read(f) ==
    /\ f \notin sent
    /\ sent \cup {f} \in Histories
    /\ \A g \in sent : \A i \in DOMAIN Content[g] : ~Exits(Content[g][i])
    /\ sent' = sent \cup {f}
    /\ LET garbage == f \notin Batches /\ Content[f][1].kind = "garbage"
       IN  reader' = [pc    |-> IF garbage THEN "reply" ELSE "enqueue",
                      frame |-> {f},
                      reply |-> IF garbage THEN {<<<<f, 1>>, "invalid">>} ELSE {}]
    /\ UNCHANGED <<queue, atomics, output, worker, server,
                   started, applied, doomed, stale, overrun, announced, delivered>>

\* A clean end of input, and one inside a frame.
EndOfInput(fault, code) ==
    /\ reader.pc = "read" /\ fault \in Faults
    /\ Stop(code) /\ ReaderGoto("done")
    /\ UNCHANGED <<queue, exit, ready, output, worker, server, history>>

\* Mutant: of a batch, only the first item may cancel.
MarkedFirst(f, S) ==
    IF ready /\ Cancels(Content[f][1]) THEN {o \in S : Content[f][1].id = Id(o)} ELSE {}

\* Cancellation flags are looked up among the pending requests S.
Marked(f, S) ==
    IF ready THEN {o \in S : \E i \in DOMAIN Content[f] :
                                Cancels(Content[f][i]) /\ Content[f][i].id = Id(o)}
    ELSE {}

Oversized(f) == Len(Content[f]) > BatchLimit
Full(f) ==
    \/ Len(jobs) >= MaxPending
    \/ Cardinality(pending) + Cardinality(RequestsOf(f)) > MaxPending
    \/ bytes + Len(Content[f]) > MaxBytes
Duplicate(f) ==
    \E o \in RequestsOf(f), p \in pending \cup RequestsOf(f) : o # p /\ Id(o) = Id(p)

\* What the client knows it has cancelled: it has seen the answer to
\* `initialize`, and the request has not been begun.
Doomed(f) ==
    IF \E o \in started : ItemAt(o).method = "initialize" /\ "ok" \in Outcomes(o)
    THEN {o \in UNION {RequestsOf(g) : g \in sent} :
            /\ o \notin started /\ Outcomes(o) = {}
            /\ \E i \in DOMAIN Content[f] : Cancels(Content[f][i]) /\ Content[f][i].id = Id(o)}
    ELSE {}

EnqueueDuplicate(f) ==
    /\ reader.pc = "enqueue" /\ Duplicate(f)
    /\ Stop(2) /\ ReaderGoto("check")
    /\ UNCHANGED <<queue, exit, ready, output, worker, server, history>>

\* Refused frames still mark cancellations and never lose a file
\* notification silently, unless the batch is oversized.
EnqueueRefuse(f) ==
    /\ reader.pc = "enqueue" /\ ~Duplicate(f)
    /\ Oversized(f) \/ Full(f)
    /\ LET loses == \E i \in DOMAIN Content[f] : FileEvent(Content[f][i])
           replies == {<<o, "limit">> : o \in RequestsOf(f)} \cup
                      {<<o, "invalid">> : o \in {p \in {f} \X DOMAIN Content[f] :
                                                   ItemAt(p).kind = "malformed"}}
       IN  /\ reader' = [reader EXCEPT !.reply = replies,
                                       !.pc = IF replies = {} THEN "check" ELSE "reply"]
           /\ IF Oversized(f)
                THEN UNCHANGED <<cancelled, overflow, token, doomed, stale>>
                ELSE /\ cancelled' = cancelled \cup Marked(f, pending)
                     /\ doomed' = doomed \cup Doomed(f)
                     /\ overflow' = (overflow \/ loses)
                     /\ stale' = (stale \/ loses)
                     /\ token' = (token \/ loses)
    /\ UNCHANGED <<jobs, pending, bytes, stop, exit, ready, output, worker, server,
                   sent, started, applied, overrun, announced, delivered>>

EnqueueAdmit(f) ==
    /\ reader.pc = "enqueue"
    /\ ~Duplicate(f) /\ ~Oversized(f) /\ ~Full(f)
    /\ pending' = pending \cup RequestsOf(f)
    /\ cancelled' = cancelled \cup Marked(f, pending')
    /\ jobs' = Append(jobs, [frame |-> f, items |-> Content[f]])
    /\ bytes' = bytes + Len(Content[f])
    /\ doomed' = doomed \cup Doomed(f)
    /\ ReaderGoto("wake")
    /\ UNCHANGED <<overflow, atomics, output, worker, server,
                   sent, started, applied, stale, overrun, announced, delivered>>

\* Mutant: an unpark that a running thread does not keep.
WakeUnheard ==
    /\ reader.pc = "wake" /\ token' = (token \/ worker.pc = "park") /\ ReaderGoto("check")
    /\ UNCHANGED <<queue, stop, exit, ready, output, worker, server, history>>

\* The unpark that follows the release of the lock.
Wake ==
    /\ reader.pc = "wake" /\ Unpark /\ ReaderGoto("check")
    /\ UNCHANGED <<queue, stop, exit, ready, output, worker, server, history>>

ReaderSend ==
    /\ reader.pc = "reply"
    /\ \/ /\ Room
          /\ channel' = Append(channel, Reply(reader.reply, {}))
          /\ ReaderGoto("count")
          /\ UNCHANGED <<stop, token>>
       \/ /\ stop # Running \/ writer.pc = "done"
          /\ IF stop = Running THEN Stop(1) ELSE UNCHANGED <<stop, token>>
          /\ ReaderGoto("check")
          /\ UNCHANGED channel
    /\ UNCHANGED <<queue, exit, ready, writer, published, written, worker, server, history>>

ReaderCount ==
    /\ reader.pc = "count" /\ published' = published + 1 /\ ReaderGoto("check")
    /\ UNCHANGED <<queue, atomics, writer, channel, written, worker, server, history>>

-----------------------------------------------------------------------------
(* run: the worker.                                                        *)

Goto(pc) == worker' = [worker EXCEPT !.pc = pc]

\* Send the outbox of worker state w, then go on at `next`.
SendAll(w, next) ==
    [w EXCEPT !.next = next, !.pc = IF w.outbox = <<>> THEN next ELSE "send"]

Current == <<worker.job[1].frame, worker.item>>
CurrentItem == worker.job[1].items[worker.item]
Batch == worker.job[1].frame \in Batches

WorkerCheck ==
    /\ worker.pc = "check"
    /\ Goto(IF stop = Running THEN "pop" ELSE "done")
    /\ UNCHANGED <<queue, atomics, output, reader, server, history>>

\* Take the oldest job and the overflow; `lost` invalidates every open
\* project before the job runs.
PopWith(lost) ==
    /\ worker.pc = "pop"
    /\ LET job == IF jobs = <<>> THEN <<>> ELSE <<Head(jobs)>>
       IN  /\ jobs' = IF jobs = <<>> THEN <<>> ELSE Tail(jobs)
           /\ bytes' = bytes - (IF job = <<>> THEN 0 ELSE Len(job[1].items))
           /\ overflow' = FALSE
           /\ server' = [server EXCEPT !.refresh = @ \/ lost]
           /\ worker' = [worker EXCEPT !.job = job, !.item = 1, !.replies = {},
                                       !.reset = FALSE,
                                       !.outbox = IF lost THEN <<Event({})>> ELSE <<>>,
                                       !.pc = IF job = <<>> THEN "idle" ELSE "item"]
    /\ UNCHANGED <<pending, cancelled, atomics, output, reader, history>>

\* Mutant: an overflow is taken but only acted on when there is a job.
PopLosesOverflow == PopWith(overflow /\ server.session /\ jobs # <<>>)

\* A pending overflow is taken with or without a job.
Pop == PopWith(overflow /\ server.session)

Indexing == server.session /\ ~server.refresh /\ server.index > 0

\* index_step: one descriptor, whose progress event may be coalesced.
IndexThen(next) ==
    /\ worker.pc = "idle" /\ Indexing
    /\ server' = [server EXCEPT !.index = @ - 1]
    /\ \E progress \in {<<>>, <<Event({})>>} :
         worker' = SendAll([worker EXCEPT !.outbox = @ \o progress], next)
    /\ UNCHANGED <<queue, atomics, output, reader, history>>

\* Mutant: the worker parks after a step that left work to do.
IndexStepParks == IndexThen("park")

IndexStep == IndexThen("check")

Idle ==
    /\ worker.pc = "idle" /\ ~Indexing
    /\ worker' = SendAll(worker, "park")
    /\ UNCHANGED <<queue, atomics, output, reader, server, history>>

\* thread::park returns as soon as there is a token, and takes it.
Park ==
    /\ worker.pc = "park" /\ token
    /\ token' = FALSE /\ Goto("check")
    /\ UNCHANGED <<queue, stop, exit, ready, output, reader, server, history>>

-----------------------------------------------------------------------------
(* process and process_one.                                                *)

\* Answer an item; the events of a batch item are sent before the next one.
AnswerItem(answer, events) ==
    LET w == [worker EXCEPT !.replies = @ \cup answer, !.item = @ + 1, !.outbox = @ \o events]
    IN  worker' = IF Batch THEN SendAll(w, "item") ELSE [w EXCEPT !.pc = "item"]

\* Mutant: a batch runs on after the connection is stopped.
JobOverUnstopped ==
    worker.item > Len(worker.job[1].items) \/ (Batch /\ exit # Running)

JobOver ==
    \/ worker.item > Len(worker.job[1].items)
    \/ Batch /\ (stop # Running \/ exit # Running)

\* Send what the job has to say, then look for an exit.
Finish(outbox) ==
    /\ worker.pc = "item" /\ JobOver
    /\ ready' = server.initialized
    /\ worker' = SendAll([worker EXCEPT !.outbox = outbox], "finish")
    /\ UNCHANGED <<queue, stop, exit, token, output, reader, server, history>>

\* The aggregated replies of a job; an empty batch is an invalid request.
Result ==
    LET f == worker.job[1].frame
        replies == IF Content[f] = <<>> THEN {<<<<f, 1>>, "invalid">>} ELSE worker.replies
    IN  IF replies = {} THEN <<>> ELSE <<Reply(replies, RequestsOf(f))>>

\* Mutant: the result of a job goes out before its events.
FinishJobReplyFirst == Finish(Result \o worker.outbox)

\* The result goes out after the events, and after shared.initialized.
FinishJob == Finish(worker.outbox \o Result)

Malformed ==
    /\ worker.pc = "item" /\ ~JobOver /\ CurrentItem.kind \in {"malformed", "garbage"}
    /\ AnswerItem({<<Current, "invalid">>}, <<>>)
    /\ UNCHANGED <<queue, atomics, output, reader, server, history>>

\* A file notification is applied, or found invalid and turned into a demand
\* for a full refresh.
FilesChanged ==
    /\ worker.pc = "item" /\ ~JobOver /\ FileEvent(CurrentItem)
    /\ ~worker.reset /\ server.session
    /\ \/ /\ ~server.refresh
          /\ \E events \in {<<>>, <<Event({})>>} : AnswerItem({}, events)
          /\ UNCHANGED server
       \/ /\ server' = [server EXCEPT !.refresh = TRUE]
          /\ AnswerItem({}, <<Event({})>>)
    /\ UNCHANGED <<queue, atomics, output, reader, history>>

\* A reset earlier in the batch makes the later file notifications obsolete.
SkipFiles ==
    /\ worker.pc = "item" /\ ~JobOver /\ FileEvent(CurrentItem)
    /\ worker.reset \/ ~server.session
    /\ IF worker.reset THEN worker' = [worker EXCEPT !.item = @ + 1] ELSE AnswerItem({}, <<>>)
    /\ UNCHANGED <<queue, atomics, output, reader, server, history>>

ExitNotification ==
    /\ worker.pc = "item" /\ ~JobOver /\ Exits(CurrentItem)
    /\ exit' = (IF server.closing THEN 0 ELSE 1)
    /\ AnswerItem({}, <<>>)
    /\ UNCHANGED <<queue, stop, ready, token, output, reader, server, history>>

\* Cancellations were marked by the reader; anything else is ignored.
OtherNotification ==
    /\ worker.pc = "item" /\ ~JobOver /\ CurrentItem.kind = "notification"
    /\ ~FileEvent(CurrentItem) /\ ~Exits(CurrentItem)
    /\ AnswerItem({}, <<>>)
    /\ UNCHANGED <<queue, atomics, output, reader, server, history>>

\* The last look at the cancellation flag before a request is begun.
Begin ==
    /\ worker.pc = "item" /\ ~JobOver /\ CurrentItem.kind = "request"
    /\ IF Current \in cancelled
         THEN AnswerItem({<<Current, "cancelled">>}, <<>>) /\ UNCHANGED <<started, overrun>>
         ELSE /\ Goto("execute") /\ started' = started \cup {Current}
              /\ overrun' = overrun + (IF stop = Running THEN 0 ELSE 1)
    /\ UNCHANGED <<queue, atomics, output, reader, server,
                   sent, applied, doomed, stale, announced, delivered>>

\* Mutant: a method that writes a source file is missing.
CommitsStateShort == {"initialize", "workspace/open", "workspace/close", "shutdown",
                      "metadata/refresh", "metadata/index"}

\* Methods whose acknowledgement a late cancellation must not hide, of those
\* this module knows.
CommitsState == {"initialize", "workspace/open", "workspace/close", "shutdown",
                 "metadata/refresh", "metadata/index", "metadata/updateProperty"}

\* A queued file notification becomes one without effect.
Purged(item) == IF FileEvent(item) THEN [item EXCEPT !.method = "ignored"] ELSE item

Late ==
    /\ worker.pc = "late"
    /\ LET method == CurrentItem.method
           reset == method = "metadata/refresh" /\ worker.outcome = "ok"
           hidden == method \notin CommitsState /\ Current \in cancelled
           answer == {<<Current, IF hidden THEN "cancelled" ELSE worker.outcome>>}
           w == [worker EXCEPT !.replies = @ \cup answer, !.item = @ + 1, !.outcome = "none",
                               !.reset = @ \/ reset]
       IN  /\ jobs' = IF reset
                      THEN [j \in DOMAIN jobs |->
                              [jobs[j] EXCEPT !.items = [i \in DOMAIN @ |-> Purged(@[i])]]]
                      ELSE jobs
           /\ worker' = IF Batch THEN SendAll(w, "item") ELSE [w EXCEPT !.pc = "item"]
    /\ UNCHANGED <<pending, cancelled, bytes, overflow, atomics, output, reader, server, history>>

-----------------------------------------------------------------------------
(* Server::execute: one action per method, and the ways they fail.         *)

Executes(method) == worker.pc = "execute" /\ CurrentItem.method = method

\* The method answers `outcome` after its events, having changed state or not.
Return(outcome, events, changes) ==
    /\ worker' = [worker EXCEPT !.pc = "late", !.outcome = outcome, !.outbox = @ \o events]
    /\ applied' = IF changes THEN applied \cup {Current} ELSE applied
    /\ UNCHANGED <<queue, atomics, output, reader, sent, started, doomed, overrun, announced,
                   delivered>>

Serving == server.initialized /\ ~server.closing
Fresh == Serving /\ server.session /\ ~server.refresh
Changed == Event(IF CurrentItem.method = "metadata/refresh" THEN {Current} ELSE {})

\* Methods that may also fail when the state of the server allows them.
Fallible == {"workspace/open", "metadata/updateProperty", "query/constructorOpen"}
Allowed(method) ==
    CASE method = "initialize" -> ~server.initialized
      [] method = "shutdown" -> Serving
      [] method = "workspace/open" -> Serving /\ ~server.session
      [] method \in {"workspace/close", "metadata/refresh"} -> Serving /\ server.session
      [] OTHER -> Fresh

Fail ==
    /\ worker.pc = "execute"
    /\ ~Allowed(CurrentItem.method) \/ CurrentItem.method \in Fallible
    /\ Return("error", <<>>, FALSE)
    /\ UNCHANGED <<server, stale>>

Initialize ==
    /\ Executes("initialize") /\ Allowed("initialize")
    /\ server' = [server EXCEPT !.initialized = TRUE]
    /\ Return("ok", <<>>, TRUE) /\ UNCHANGED stale

\* Opening reads the whole source, so nothing lost before matters.
OpenWorkspace ==
    /\ Executes("workspace/open") /\ Allowed("workspace/open")
    /\ server' = [server EXCEPT !.session = TRUE, !.refresh = FALSE, !.index = 0]
    /\ stale' = FALSE
    /\ Return("ok", <<>>, TRUE)

CloseWorkspace ==
    /\ Executes("workspace/close") /\ Allowed("workspace/close")
    /\ server' = [server EXCEPT !.session = FALSE]
    /\ Return("ok", <<>>, TRUE) /\ UNCHANGED stale

Shutdown ==
    /\ Executes("shutdown") /\ Allowed("shutdown")
    /\ server' = [server EXCEPT !.session = FALSE, !.closing = TRUE]
    /\ Return("ok", <<>>, TRUE) /\ UNCHANGED stale

\* A full refresh with resetFileSequence; a failed one asks for another.
Refresh ==
    /\ Executes("metadata/refresh") /\ Allowed("metadata/refresh")
    /\ \E ok \in BOOLEAN :
         /\ server' = [server EXCEPT !.refresh = ~ok]
         /\ stale' = (stale /\ ~ok)
         /\ Return(IF ok THEN "ok" ELSE "error", <<Changed>>, TRUE)

StartIndex ==
    /\ Executes("metadata/index") /\ Allowed("metadata/index")
    /\ server' = [server EXCEPT !.index = Descriptors]
    /\ Return("ok", <<Event({})>>, TRUE) /\ UNCHANGED stale

\* A durable source write; when rereading what was written fails, the project
\* has to be refreshed.
UpdateProperty ==
    /\ Executes("metadata/updateProperty") /\ Allowed("metadata/updateProperty")
    /\ \E ok \in BOOLEAN :
         /\ server' = [server EXCEPT !.refresh = ~ok]
         /\ Return(IF ok THEN "ok" ELSE "error", <<Changed>>, TRUE)
    /\ UNCHANGED stale

\* A transition of a retained query draft.
OpenConstructor ==
    /\ Executes("query/constructorOpen") /\ Allowed("query/constructorOpen")
    /\ Return("ok", <<>>, TRUE) /\ UNCHANGED <<server, stale>>

ReadMetadata ==
    /\ Executes("metadata/children") /\ Allowed("metadata/children")
    /\ Return("ok", <<>>, FALSE) /\ UNCHANGED <<server, stale>>

Execute ==
    Fail \/ Initialize \/ OpenWorkspace \/ CloseWorkspace \/ Shutdown \/ Refresh \/ StartIndex
         \/ UpdateProperty \/ OpenConstructor \/ ReadMetadata

-----------------------------------------------------------------------------
(* send, and the end of a job.                                             *)

WorkerSend ==
    /\ worker.pc = "send"
    /\ \/ /\ Room
          /\ channel' = Append(channel, Head(worker.outbox))
          /\ Goto("count")
          /\ UNCHANGED <<stop, token>>
       \/ /\ stop # Running \/ writer.pc = "done"
          /\ IF stop = Running THEN Stop(1) ELSE UNCHANGED <<stop, token>>
          /\ worker' = [worker EXCEPT !.outbox = <<>>, !.pc = worker.next]
          /\ UNCHANGED channel
    /\ UNCHANGED <<queue, exit, ready, writer, published, written, reader, server, history>>

WorkerCount ==
    /\ worker.pc = "count"
    /\ published' = published + 1
    /\ worker' = SendAll([worker EXCEPT !.outbox = Tail(@)], worker.next)
    /\ UNCHANGED <<queue, atomics, writer, channel, written, reader, server, history>>

\* `exit` waits for everything published so far to be written.
JobDone ==
    /\ worker.pc = "finish"
    /\ worker' = IF exit = Running THEN [worker EXCEPT !.pc = "check"]
                 ELSE [worker EXCEPT !.pc = "flush", !.target = published]
    /\ UNCHANGED <<queue, atomics, output, reader, server, history>>

\* Mutant: the last frame published is not waited for.
FlushedButOne == written + 1 >= worker.target \/ stop # Running

Flushed == written >= worker.target \/ stop # Running

Flush ==
    /\ worker.pc = "flush" /\ Flushed
    /\ Stop(exit) /\ Goto("check")
    /\ UNCHANGED <<queue, exit, ready, output, reader, server, history>>

FlushPark ==
    /\ worker.pc = "flush" /\ ~Flushed
    /\ Goto("flushpark")
    /\ UNCHANGED <<queue, atomics, output, reader, server, history>>

FlushWake ==
    /\ worker.pc = "flushpark" /\ token
    /\ token' = FALSE /\ Goto("flush")
    /\ UNCHANGED <<queue, stop, exit, ready, output, reader, server, history>>

-----------------------------------------------------------------------------
(* write_loop.                                                             *)

WriterGoto(pc) == writer' = [writer EXCEPT !.pc = pc]

ReceiveWith(released) ==
    /\ writer.pc = "receive" /\ channel # <<>>
    /\ channel' = Tail(channel)
    /\ writer' = IF stop = Running THEN [pc |-> "write", message |-> <<Head(channel)>>]
                 ELSE [pc |-> "done", message |-> <<>>]
    /\ pending' = pending \ released /\ cancelled' = cancelled \ released
    /\ UNCHANGED <<jobs, bytes, overflow, atomics, published, written, reader, worker, server,
                   history>>

\* Mutant: the IDs of a frame are free before it is written.
ReceiveReleases == ReceiveWith(Head(channel).release)

Receive == ReceiveWith({})

\* A second answer to an item shows as the outcome "twice".
Written(replies) ==
    delivered \cup replies \cup
        {<<r[1], "twice">> : r \in {q \in replies : \/ Outcomes(q[1]) # {}
                                                  \/ \E p \in replies \ {q} : p[1] = q[1]}}

Write ==
    /\ writer.pc = "write"
    /\ LET message == writer.message[1]
       IN  /\ delivered' = Written(message.replies)
           /\ announced' = announced \cup message.changed
    /\ WriterGoto("release")
    /\ UNCHANGED <<queue, atomics, channel, published, written, reader, worker, server,
                   sent, started, applied, doomed, stale, overrun>>

WriteFails ==
    /\ writer.pc = "write" /\ "stdout" \in Faults
    /\ Stop(1) /\ writer' = [pc |-> "done", message |-> <<>>]
    /\ UNCHANGED <<queue, exit, ready, channel, published, written, reader, worker, server,
                   history>>

\* Pending IDs are released only now that the frame is wholly written.
ReleaseIds ==
    /\ writer.pc = "release"
    /\ pending' = pending \ writer.message[1].release
    /\ cancelled' = cancelled \ writer.message[1].release
    /\ WriterGoto("count")
    /\ UNCHANGED <<jobs, bytes, overflow, atomics, channel, published, written, reader, worker,
                   server, history>>

CountWritten ==
    /\ writer.pc = "count"
    /\ written' = written + 1 /\ Unpark
    /\ writer' = [pc |-> "receive", message |-> <<>>]
    /\ UNCHANGED <<queue, stop, exit, ready, channel, published, reader, worker, server, history>>

-----------------------------------------------------------------------------

Reader ==
    \/ ReaderCheck \/ Wake \/ ReaderSend \/ ReaderCount
    \/ \E f \in reader.frame : EnqueueDuplicate(f) \/ EnqueueRefuse(f) \/ EnqueueAdmit(f)

Worker ==
    \/ WorkerCheck \/ Pop \/ IndexStep \/ Idle \/ Park
    \/ FinishJob \/ Malformed \/ FilesChanged \/ SkipFiles \/ ExitNotification
    \/ OtherNotification \/ Begin \/ Execute \/ Late
    \/ WorkerSend \/ WorkerCount \/ JobDone \/ Flush \/ FlushPark \/ FlushWake

Writer == Receive \/ Write \/ ReleaseIds \/ CountWritten

Client == reader.pc = "read" /\ \E f \in Frames : Read(f)

Fault == EndOfInput("eof", 0) \/ EndOfInput("truncated", 2) \/ WriteFails

\* The process ends with the worker: run() returns on the main thread.
Next == ~Ended /\ (Reader \/ Worker \/ Writer \/ Client \/ Fault)

Spec == Init /\ [][Next]_vars

\* The threads of a live process keep running, and the client reads stdout.
FairSpec ==
    /\ Spec
    /\ WF_vars(~Ended /\ Reader) /\ WF_vars(~Ended /\ Worker) /\ WF_vars(~Ended /\ Writer)

-----------------------------------------------------------------------------

\* Types and limits: only pending requests are marked as cancelled, the queued
\* bytes keep their bound, and only what was begun can have changed something.
TypeOK ==
    /\ pending \subseteq Requests /\ cancelled \subseteq pending
    /\ bytes \in 0..MaxBytes /\ {overflow, ready, token, stale} \subseteq BOOLEAN
    /\ {stop, exit} \subseteq {Running, 0, 1, 2}
    /\ server \in [initialized: BOOLEAN, closing: BOOLEAN, session: BOOLEAN, refresh: BOOLEAN,
                   index: 0..Descriptors]
    /\ Len(channel) <= 1 /\ sent \subseteq Frames
    /\ applied \subseteq started /\ started \cup doomed \subseteq Requests

\* Requests whose reply is still to be made or to be written.
Queued == UNION {RequestsOf(jobs[j].frame) : j \in DOMAIN jobs}
InHand ==
    IF \/ worker.pc \in {"item", "execute", "late"}
       \/ worker.pc \in {"send", "count"} /\ worker.next = "item"
    THEN RequestsOf(worker.job[1].frame) ELSE {}
Messages ==
    ToSet(IF worker.pc = "count" THEN Tail(worker.outbox)
          ELSE IF worker.pc = "send" THEN worker.outbox ELSE <<>>)
      \cup ToSet(channel)
      \cup (IF writer.pc \in {"write", "release"} THEN ToSet(writer.message) ELSE {})
Outstanding == Queued \cup InHand \cup UNION {m.release : m \in Messages}

\* The queue is charged for exactly the requests whose reply is not wholly
\* written: none is released early, so that its ID could be taken twice, and
\* none is kept, so that the queue would fill up for good.  Both limits hold,
\* and no request is answered twice, whoever answers it: worker or reader.
Accounting ==
    /\ TypeOK
    /\ LET outstanding == Outstanding
       IN  /\ stop = Running /\ exit = Running => pending = outstanding
           /\ \A o, p \in outstanding : Id(o) = Id(p) => o = p
    /\ bytes = Cardinality(UNION {{j} \X DOMAIN jobs[j].items : j \in DOMAIN jobs})
    /\ Cardinality(pending) <= MaxPending /\ Len(jobs) <= MaxPending
    /\ \A d \in delivered : d[2] # "twice"

\* A client that has seen the answer to `initialize` and cancels a request
\* before the worker gets to it prevents its execution, also when the frame
\* of the cancellation is itself refused by a full queue.
CancelInTime == doomed \cap started = {}

\* "Once an operation commits lifecycle, source or retained state, its
\* acknowledgement cannot be hidden by late cancellation."
AcknowledgesEffects == \A o \in applied : "cancelled" \notin Outcomes(o)

\* The same for every operation but the constructor's.
AcknowledgesListed ==
    \A o \in applied : ItemAt(o).method # "query/constructorOpen" => "cancelled" \notin Outcomes(o)

\* A file notification refused by a full queue is never forgotten: until the
\* source is read in full the project asks for it, or is about to.
LossSeen == stale /\ server.session => overflow \/ server.refresh

\* The event that announces what a refresh changed is written before the
\* answer to the refresh, in a batch as well.
EventFirst ==
    \A o \in applied :
        ItemAt(o).method = "metadata/refresh" /\ Outcomes(o) # {} => o \in announced

\* A process that ends because of `exit` has written the answer to every
\* request it had read before.
Before(o) ==
    \A i \in DOMAIN Content[o[1]] : Exits(Content[o[1]][i]) => o[2] < i
ExitFlushes ==
    [][Flush /\ stop = Running =>
         \A f \in sent : \A o \in RequestsOf(f) : Before(o) => Outcomes(o) # {}]_vars

\* End of input, a broken pipe or a fatal frame cancels what is queued: at
\* most the one item the worker had already looked at is still begun.
StopsPromptly == overrun <= 1

\* Every request read is answered, unless the connection ends: the client
\* sends finitely many frames, so it is enough that there is always a later
\* moment at which no request is without an answer.
Answered ==
    []<>(stop # Running \/ \A f \in sent : \A o \in RequestsOf(f) : Outcomes(o) # {})

\* Once the connection is stopped the process ends, whatever the worker was
\* waiting for: input, room in the channel, or the writer.
Ends == stop # Running ~> Ended

\* An index under construction is completed without further requests.
Indexed == Indexing ~> ~Indexing \/ stop # Running

=============================================================================
