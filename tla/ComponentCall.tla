---------------------------- MODULE ComponentCall ----------------------------
(***************************************************************************)
(* One call of a component process: eska-tool-runtime's capture.rs (run,   *)
(* capture_input, receive), exchange.rs, the OwnedChild of process.rs and  *)
(* the reader of query.rs.  The caller polls a channel, two flags, a clock *)
(* and the child; reader threads drain the child's pipes, for `input` a    *)
(* writer thread feeds its stdin.  The child may do anything, and leave a  *)
(* descendant that keeps its ends of the pipes open.                       *)
(*                                                                         *)
(* Transports: `query` (no grace), `doctor` (a query with thirty seconds   *)
(* of grace), `probe` (capture with a native cleanup), `input` (the        *)
(* formatter) and `exchange` (interactive; no time limit of its own).      *)
(***************************************************************************)
EXTENDS Naturals

CONSTANTS
    Transports,     \* the kinds of call a run looks at
    Limit,          \* output_limit: the bytes a stream may have
    MaxOutput,      \* bound: the bytes a child writes on one stream
    Room,           \* the capacity of a pipe
    InputSize       \* the bytes of a request

ASSUME CallAssumption ==
    /\ Transports \subseteq {"query", "doctor", "probe", "input", "exchange"}
    /\ {Limit, MaxOutput, Room, InputSize} \subseteq Nat /\ Room > 0

VARIABLES
    way,        \* the transport
    pc,         \* where the caller is
    result,     \* what it will return
    ready,      \* streams whose bytes `receive` has accepted
    status,     \* what try_wait has answered
    stopping,   \* why the call is being given up, while the child has its grace
    channel,    \* messages of the readers: stream and verdict
    reader,     \* per stream: state and bytes read
    writer,     \* the input thread: state and bytes left
    child,      \* the process, or how it ended
    heir,       \* whether a descendant of it holds the pipes
    pipe,       \* bytes in each pipe
    flag,       \* a signal, or the editor's cancellation, has arrived
    elapsed,    \* the timeout has passed
    graceOver,  \* so has the grace
    hooked,     \* history: the native cleanup has run to its end
    produced    \* history: bytes written on each stream

caller == <<result, ready, status, stopping>>
threads == <<channel, reader, writer>>
outside == <<child, heir, pipe, produced>>
clock == <<flag, elapsed, graceOver>>
vars == <<way, pc, caller, threads, outside, clock, hooked>>

Outputs == {"out", "err"}
\* exchange leaves stderr attached to the terminal.
Piped == IF way = "exchange" THEN {"out"} ELSE Outputs
\* cancellation_grace is positive, or exchange's fixed thirty seconds.
Gentle == way \in {"doctor", "exchange"}
\* Someone can still write to the child's output or read its input.
Attached == child = "running" \/ heir

Init ==
    /\ way \in Transports
    /\ pc = "begin" /\ result = "none" /\ ready = {} /\ status = "none" /\ stopping = "no"
    /\ channel = {} /\ reader = [s \in Outputs |-> [state |-> "none", got |-> 0]]
    /\ writer = [state |-> "none", left |-> InputSize]
    /\ child = "none" /\ heir = FALSE /\ pipe = [s \in Outputs \cup {"in"} |-> 0]
    /\ flag = FALSE /\ elapsed = FALSE /\ graceOver = FALSE
    /\ hooked = FALSE /\ produced = [s \in Outputs |-> 0]

-----------------------------------------------------------------------------
(* The caller.                                                             *)

\* A call that is already cancelled starts nothing; spawn itself may fail.
Refuse ==
    /\ pc = "begin"
    /\ result' = IF flag THEN "cancelled" ELSE "process"
    /\ pc' = "returned"
    /\ UNCHANGED <<way, ready, status, stopping, threads, outside, clock, hooked>>

\* A thread that cannot be started fails the call with the child running.
Spawn ==
    /\ pc = "begin" /\ ~flag
    /\ child' = "running"
    /\ writer' = [writer EXCEPT !.state = IF way = "input" THEN "writing" ELSE "none"]
    /\ \/ /\ reader' = [s \in Outputs |->
              [state |-> IF s \in Piped THEN "reading" ELSE "none", got |-> 0]]
          /\ pc' = "drain" /\ UNCHANGED result
       \/ pc' = "hook" /\ result' = "process" /\ UNCHANGED reader
    /\ UNCHANGED <<way, ready, status, stopping, channel, heir, pipe, produced, clock, hooked>>

\* Everything that has arrived is taken; an oversized stream ends the call.
Drain ==
    /\ pc = "drain"
    /\ channel' = {}
    /\ IF \E m \in channel : m[2] = "large"
         THEN pc' = "hook" /\ result' = "too_large" /\ UNCHANGED ready
         ELSE /\ ready' = ready \cup {m[1] : m \in channel}
              /\ pc' = IF way = "exchange" THEN "wait" ELSE "look"
              /\ UNCHANGED result
    /\ UNCHANGED <<way, status, stopping, reader, writer, outside, clock, hooked>>

\* receive: cancellation goes before the timeout.  Without grace the call ends
\* here; with it the child is sent a signal, and the reason is remembered.
Look ==
    /\ pc = "look" /\ way # "exchange"
    /\ LET reason == IF flag THEN "cancelled" ELSE "timeout" IN
       IF stopping = "no" /\ (flag \/ elapsed)
         THEN IF Gentle
                THEN stopping' = reason /\ pc' = "wait" /\ UNCHANGED result
                ELSE result' = reason /\ pc' = "hook" /\ UNCHANGED stopping
         ELSE pc' = "wait" /\ UNCHANGED <<result, stopping>>
    /\ UNCHANGED <<way, ready, status, threads, outside, clock, hooked>>

\* What try_wait answers; an exit once seen is not asked for again.
Polled == IF status = "none" /\ child \in {"ok", "failed"} THEN child ELSE status
Complete == Polled # "none" /\ Piped \subseteq ready

\* Mutant: the grace ends with the signal.
GivesUpAtOnce == TRUE
\* The child has used its grace, or needs no more of it.
GivesUp == Polled # "none" \/ graceOver

\* receive, end of one round.
Wait ==
    /\ pc = "wait" /\ way # "exchange"
    /\ status' = Polled
    /\ IF stopping # "no"
         THEN IF GivesUp THEN result' = stopping /\ pc' = "hook"
                         ELSE pc' = "drain" /\ UNCHANGED result
         ELSE IF Complete THEN result' = "output" /\ pc' = "reap"
                          ELSE pc' = "drain" /\ UNCHANGED result
    /\ UNCHANGED <<way, ready, stopping, threads, outside, clock, hooked>>

\* exchange judges before it looks at the signal: a complete answer of a
\* cancelled scope is a cancellation.
ExchangeWait ==
    /\ pc = "wait" /\ way = "exchange"
    /\ status' = Polled
    /\ IF Complete THEN /\ result' = IF flag THEN "cancelled" ELSE "output"
                        /\ pc' = "reap"
                   ELSE pc' = "look" /\ UNCHANGED result
    /\ UNCHANGED <<way, ready, stopping, threads, outside, clock, hooked>>

ExchangeLook ==
    /\ pc = "look" /\ way = "exchange"
    /\ stopping' = IF flag THEN "cancelled" ELSE stopping
    /\ IF graceOver THEN result' = "cancelled" /\ pc' = "reap"
                    ELSE pc' = "drain" /\ UNCHANGED result
    /\ UNCHANGED <<way, ready, status, threads, outside, clock, hooked>>

\* try_wait or the signal fails.
PollFails ==
    /\ pc \in {"look", "wait"}
    /\ result' = "process" /\ pc' = "hook"
    /\ UNCHANGED <<way, ready, status, stopping, threads, outside, clock, hooked>>

\* run: a failed call of a probe whose child has not exited cleans up what that
\* started in its container; the other transports have nothing to clean up.
Hook ==
    /\ pc = "hook"
    /\ pc' = IF way = "probe" /\ child = "running" THEN "hooking" ELSE "reap"
    /\ UNCHANGED <<way, caller, threads, outside, clock, hooked>>

\* Mutant: capture_input waits for its writer while the child still lives.
ReapAfterJoin ==
    /\ pc = "reap" /\ (way = "input" => writer.state # "writing")
    /\ child' = IF child = "running" THEN "killed" ELSE child
    /\ pc' = IF way = "input" THEN "join" ELSE "returned"
    /\ UNCHANGED <<way, caller, threads, heir, pipe, produced, clock, hooked>>

\* OwnedChild::drop kills a child that still runs and waits for it.
Reap ==
    /\ pc = "reap"
    /\ child' = IF child = "running" THEN "killed" ELSE child
    /\ pc' = IF way = "input" THEN "join" ELSE "returned"
    /\ UNCHANGED <<way, caller, threads, heir, pipe, produced, clock, hooked>>

\* capture_input joins its writer; a successful child that did not take all
\* of the request is a failure.
Join ==
    /\ pc = "join" /\ writer.state \in {"done", "broken"}
    /\ result' = IF result = "output" /\ child = "ok" /\ writer.state = "broken"
                   THEN "process" ELSE result
    /\ pc' = "returned"
    /\ UNCHANGED <<way, ready, status, stopping, threads, outside, clock, hooked>>

Caller == \/ Refuse \/ Spawn \/ Drain \/ Look \/ Wait \/ ExchangeWait \/ ExchangeLook
          \/ PollFails \/ Hook \/ Reap \/ Join

\* terminate_distrobox_process waits for `distrobox enter ... kill`, another
\* process: it may end the descendant, achieve nothing, or never return, and
\* neither the time limit nor a cancellation is looked at meanwhile.
HookEnds ==
    /\ pc = "hooking"
    /\ hooked' = TRUE /\ heir' \in {heir, FALSE}
    /\ pc' = "reap"
    /\ UNCHANGED <<way, caller, threads, child, pipe, produced, clock>>

-----------------------------------------------------------------------------
(* The threads.                                                            *)

Read(s) ==
    /\ reader[s].state = "reading" /\ pipe[s] > 0 /\ reader[s].got <= Limit
    /\ pipe' = [pipe EXCEPT ![s] = @ - 1]
    /\ reader' = [reader EXCEPT ![s].got = @ + 1]
    /\ UNCHANGED <<way, pc, caller, channel, writer, child, heir, produced, clock, hooked>>

\* Mutant: a stream is cut at the limit, without the byte that would show it.
EnoughAtLimit(s) == reader[s].got = Limit
\* take(limit + 1): one byte more than allowed proves an overflow.
Enough(s) == reader[s].got = Limit + 1

\* read_to_end returns at the end of the stream or of what it may take.
ReadEnds(s) ==
    /\ reader[s].state = "reading"
    /\ Enough(s) \/ (pipe[s] = 0 /\ ~Attached)
    /\ channel' = channel \cup {<<s, IF reader[s].got > Limit THEN "large" ELSE "whole">>}
    /\ reader' = [reader EXCEPT ![s].state = "done"]
    /\ UNCHANGED <<way, pc, caller, writer, outside, clock, hooked>>

\* write_all goes on while someone can read, and fails when nobody can.
Write ==
    /\ writer.state = "writing"
    /\ \/ /\ writer.left > 0 /\ Attached /\ pipe["in"] < Room
          /\ writer' = [writer EXCEPT !.left = @ - 1]
          /\ pipe' = [pipe EXCEPT !["in"] = @ + 1]
       \/ /\ writer.left > 0 /\ ~Attached
          /\ writer' = [writer EXCEPT !.state = "broken"] /\ UNCHANGED pipe
       \/ /\ writer.left = 0
          /\ writer' = [writer EXCEPT !.state = "done"] /\ UNCHANGED pipe
    /\ UNCHANGED <<way, pc, caller, channel, reader, child, heir, produced, clock, hooked>>

-----------------------------------------------------------------------------
(* The child, its descendant, the user and the clock.                      *)

\* A process writes while the pipe has room; a reader that stopped takes no more.
Emit(s) ==
    /\ Attached /\ s \in Piped /\ produced[s] < MaxOutput /\ pipe[s] < Room
    /\ reader[s].state # "done"
    /\ pipe' = [pipe EXCEPT ![s] = @ + 1]
    /\ produced' = [produced EXCEPT ![s] = @ + 1]
    /\ UNCHANGED <<way, pc, caller, threads, child, heir, clock, hooked>>

Consume ==
    /\ Attached /\ pipe["in"] > 0
    /\ pipe' = [pipe EXCEPT !["in"] = @ - 1]
    /\ UNCHANGED <<way, pc, caller, threads, child, heir, produced, clock, hooked>>

Fork ==
    /\ child = "running" /\ ~heir
    /\ heir' = TRUE
    /\ UNCHANGED <<way, pc, caller, threads, child, pipe, produced, clock, hooked>>

HeirExits ==
    /\ heir
    /\ heir' = FALSE
    /\ UNCHANGED <<way, pc, caller, threads, child, pipe, produced, clock, hooked>>

\* A child ends when it likes, or because of the signal it was sent.
Exit ==
    /\ child = "running"
    /\ child' \in {"ok", "failed"}
    /\ UNCHANGED <<way, pc, caller, threads, heir, pipe, produced, clock, hooked>>

Cancel ==
    /\ ~flag /\ pc # "returned"
    /\ flag' = TRUE
    /\ UNCHANGED <<way, pc, caller, threads, outside, elapsed, graceOver, hooked>>

Tick ==
    /\ child # "none" /\ pc # "returned"
    /\ \/ ~elapsed /\ elapsed' = TRUE /\ UNCHANGED graceOver
       \/ stopping # "no" /\ ~graceOver /\ graceOver' = TRUE /\ UNCHANGED elapsed
    /\ UNCHANGED <<way, pc, caller, threads, outside, flag, hooked>>

Process == Consume \/ Fork \/ HeirExits \/ Exit \/ \E s \in Outputs : Emit(s)

Next ==
    \/ Caller \/ HookEnds
    \/ \E s \in Outputs : Read(s) \/ ReadEnds(s)
    \/ Write
    \/ Process
    \/ Cancel \/ Tick

Spec == Init /\ [][Next]_vars

\* The system schedules the caller and its threads, and time passes.  Nothing
\* is assumed of the child, its descendant, the hook's process or the user.
Fairness ==
    /\ WF_vars(Caller) /\ WF_vars(Write) /\ WF_vars(Tick)
    /\ \A s \in Outputs : WF_vars(Read(s)) /\ WF_vars(ReadEnds(s))
FairSpec == Spec /\ Fairness

-----------------------------------------------------------------------------

\* Types; a caller is past its loop exactly when it has a result.
TypeOK ==
    /\ way \in Transports
    /\ pc \in {"begin", "drain", "look", "wait", "hook", "hooking", "reap", "join", "returned"}
    /\ result \in {"none", "output", "cancelled", "timeout", "too_large", "process"}
    /\ ready \subseteq Outputs /\ status \in {"none", "ok", "failed"}
    /\ stopping \in {"no", "cancelled", "timeout"}
    /\ channel \subseteq Outputs \X {"whole", "large"}
    /\ reader \in [Outputs -> [state: {"none", "reading", "done"}, got: 0..Limit + 1]]
    /\ writer \in [state: {"none", "writing", "done", "broken"}, left: 0..InputSize]
    /\ child \in {"none", "running", "ok", "failed", "killed"}
    /\ heir \in BOOLEAN /\ flag \in BOOLEAN /\ hooked \in BOOLEAN
    /\ elapsed \in BOOLEAN /\ graceOver \in BOOLEAN
    /\ pipe \in [Outputs \cup {"in"} -> 0..Room] /\ produced \in [Outputs -> 0..MaxOutput]
    /\ pc \in {"hook", "hooking", "reap", "join", "returned"} <=> result # "none"

\* An answer is what happened: output is all that was ever written on both
\* streams, of a child that ended by itself, was not given up and, if it
\* succeeded, could take all of its input.  A cancellation or a timeout is
\* never an answer of a call that was not cancelled or late.
Truthful ==
    pc = "returned" =>
        /\ result = "output" =>
             /\ \A s \in Piped : reader[s].got = produced[s] /\ pipe[s] = 0
             /\ child \in {"ok", "failed"} /\ ~heir /\ stopping = "no"
             /\ way = "input" /\ child = "ok" => writer.state = "done"
        /\ result = "cancelled" => flag
        /\ result = "timeout" => elapsed

\* A child is killed only after what it was promised: where there is a grace,
\* all of it, unless the call failed otherwise; for a probe the cleanup of its
\* container, which needs the child's process.  None outlives its call.
GraceKept ==
    /\ child = "killed" => /\ Gentle => graceOver \/ result \in {"too_large", "process"}
                           /\ way = "probe" => hooked
    /\ pc = "returned" => child # "running"

\* The two waits of a caller that nothing limits: capture_input joins a writer
\* whose pipe a descendant keeps open and does not read, and a probe waits for
\* its hook.
Joining == pc = "join" /\ heir
Hooking == pc = "hooking"
Over == pc = "returned"

\* Every call but an exchange ends by itself, whatever the child does, and an
\* exchange that is cancelled does.  An `input` may be held up for ever by a
\* descendant and a probe by its hook, and no call by anything else.
Returns ==
    /\ way \in {"query", "doctor"} => <>Over
    /\ way = "input" => <>Over \/ <>[]Joining
    /\ way = "probe" => <>Over \/ <>[]Hooking
    /\ way = "exchange" /\ flag ~> Over
=============================================================================
