------------------------- MODULE ComponentCallProofs -------------------------
(***************************************************************************)
(* The safety properties of ComponentCall for every limit, pipe capacity   *)
(* and request size.                                                       *)
(*                                                                         *)
(* The argument is the end of a stream: once nobody is attached to the     *)
(* pipes nobody will be, so a reader that met the end has everything that  *)
(* was or will be written (IStream), and what the caller accepts was       *)
(* reported by such a reader (IReport).  The rest says what a result       *)
(* presupposes (IResult) and why a child may be killed (IKill).            *)
(***************************************************************************)
EXTENDS ComponentCall, TLAPS

\* Nothing is attached to a pipe before the child exists
IChild ==
    /\ pc = "begin" => /\ child = "none"
                      /\ \A s \in Outputs : reader[s] = [state |-> "none", got |-> 0]
    /\ child = "none" => pc \in {"begin", "returned"} /\ ~heir

\* No byte disappears, and a reader that stops below its limit has met the end
IStream ==
    \A s \in Outputs :
        /\ reader[s].got + pipe[s] = produced[s]
        /\ reader[s].state = "done" /\ reader[s].got <= Limit => ~Attached /\ pipe[s] = 0

\* What was sent to the caller, and what it has accepted
IReport ==
    /\ \A m \in channel : /\ reader[m[1]].state = "done"
                          /\ m[2] = "whole" => reader[m[1]].got <= Limit
    /\ \A s \in ready : reader[s].state = "done" /\ reader[s].got <= Limit

\* A result has its reason
IResult ==
    /\ status # "none" => child = status
    /\ stopping = "cancelled" => flag
    /\ stopping = "timeout" => elapsed /\ way # "exchange"
    /\ graceOver => stopping # "no"
    /\ result = "cancelled" => flag
    /\ result = "timeout" => elapsed
    /\ result = "output" => Piped \subseteq ready /\ child \in {"ok", "failed"} /\ stopping = "no"
    /\ pc = "returned" /\ result = "output" /\ way = "input" /\ child = "ok"
          => writer.state = "done"

\* Why a child that still runs may be killed by the next steps
IKill ==
    /\ result \in {"cancelled", "timeout"} /\ Gentle /\ child = "running" => graceOver
    /\ pc = "reap" /\ way = "probe" /\ child = "running" => hooked
    /\ pc \in {"join", "returned"} => child # "running"
    /\ child = "killed" => /\ Gentle => graceOver \/ result \in {"too_large", "process"}
                           /\ way = "probe" => hooked
    /\ pc = "join" => way = "input"

\* The inductive invariant
IInv == TypeOK /\ IChild /\ IStream /\ IReport /\ IResult /\ IKill

\* Every variable keeps its type.
LEMMA StepType ==
    ASSUME TypeOK, Next
    PROVE  TypeOK'
<1>1. CASE Refuse
  BY <1>1, CallAssumption, SMTT(15) DEF Refuse, TypeOK, Outputs, Piped, caller, threads,
     outside, clock
<1>2. CASE Spawn
  BY <1>2, CallAssumption, SMTT(15) DEF Spawn, Piped, TypeOK, Outputs, caller, threads,
     outside, clock
<1>3. CASE Drain
  <2>1. \A m \in channel : m[1] \in Outputs /\ m[2] \in {"whole", "large"}
    BY DEF TypeOK
  <2>2. \/ UNCHANGED ready
        \/ /\ ready' = ready \cup {m[1] : m \in channel}
           /\ \A m \in channel : m[2] # "large"
    BY <1>3 DEF Drain
  <2>3. UNCHANGED <<way, status, stopping, reader, writer, outside, clock, hooked>>
        /\ channel' = {} /\ pc' \in {"hook", "wait", "look"} /\ result' \in {"too_large", result}
        /\ (pc' = "hook" <=> result' = "too_large") /\ pc = "drain"
    BY <1>3 DEF Drain, TypeOK
  <2>4. ready' \subseteq Outputs
    BY <2>1, <2>2 DEF TypeOK
  <2>q. QED
    BY <2>3, <2>4 DEF TypeOK, outside, clock
<1>4. CASE Look
  BY <1>4, CallAssumption, SMTT(15) DEF Look, Gentle, TypeOK, Outputs, Piped, caller,
     threads, outside, clock
<1>5. CASE Wait
  BY <1>5, CallAssumption, SMTT(15) DEF Wait, Polled, Complete, GivesUp, TypeOK,
     Outputs, Piped, caller, threads, outside, clock
<1>6. CASE ExchangeWait
  BY <1>6, CallAssumption, SMTT(15) DEF ExchangeWait, Polled, Complete, TypeOK, Outputs,
     Piped, caller, threads, outside, clock
<1>7. CASE ExchangeLook
  BY <1>7, CallAssumption, SMTT(15) DEF ExchangeLook, TypeOK, Outputs, Piped, caller,
     threads, outside, clock
<1>8. CASE PollFails
  BY <1>8, CallAssumption, SMTT(15) DEF PollFails, TypeOK, Outputs, Piped, caller,
     threads, outside, clock
<1>9. CASE Hook
  BY <1>9, CallAssumption, SMTT(15) DEF Hook, TypeOK, Outputs, Piped, caller, threads,
     outside, clock
<1>22. CASE HookEnds
  <2>1. /\ heir' \in BOOLEAN /\ flag' \in BOOLEAN /\ hooked' \in BOOLEAN
        /\ elapsed' \in BOOLEAN /\ graceOver' \in BOOLEAN
    BY <1>22, Zenon DEF HookEnds, TypeOK, clock
  <2>q. QED
    BY <1>22, <2>1, CallAssumption, SMTT(15) DEF HookEnds, TypeOK, Outputs, caller, threads,
       outside, clock
<1>10. CASE Reap
  BY <1>10, CallAssumption, SMTT(15) DEF Reap, TypeOK, Outputs, Piped, caller, threads,
     outside, clock
<1>11. CASE Join
  BY <1>11, CallAssumption, SMTT(15) DEF Join, TypeOK, Outputs, Piped, caller, threads,
     outside, clock
<1>12. CASE Write
  BY <1>12, CallAssumption, SMTT(15) DEF Write, Attached, TypeOK, Outputs, Piped,
     caller, threads, outside, clock
<1>13. CASE Consume
  BY <1>13, CallAssumption, SMTT(15) DEF Consume, Attached, TypeOK, Outputs, Piped,
     caller, threads, outside, clock
<1>14. CASE Fork
  BY <1>14, CallAssumption, SMTT(15) DEF Fork, TypeOK, Outputs, Piped, caller, threads,
     outside, clock
<1>15. CASE HeirExits
  <2>1. /\ heir' \in BOOLEAN /\ flag' \in BOOLEAN /\ hooked' \in BOOLEAN
        /\ elapsed' \in BOOLEAN /\ graceOver' \in BOOLEAN
    BY <1>15, Zenon DEF HeirExits, TypeOK, clock, outside
  <2>q. QED
    BY <1>15, <2>1, CallAssumption, SMTT(15) DEF HeirExits, TypeOK, Outputs, caller,
       threads, outside, clock
<1>16. CASE Exit
  BY <1>16, CallAssumption, SMTT(15) DEF Exit, TypeOK, Outputs, Piped, caller, threads,
     outside, clock
<1>17. CASE Cancel
  BY <1>17, CallAssumption, SMTT(15) DEF Cancel, TypeOK, Outputs, Piped, caller,
     threads, outside, clock
<1>18. CASE Tick
  <2>1. /\ heir' \in BOOLEAN /\ flag' \in BOOLEAN /\ hooked' \in BOOLEAN
        /\ elapsed' \in BOOLEAN /\ graceOver' \in BOOLEAN
    BY <1>18, Zenon DEF Tick, TypeOK, clock, outside
  <2>q. QED
    BY <1>18, <2>1, CallAssumption, SMTT(15) DEF Tick, TypeOK, Outputs, caller, threads,
       outside, clock
<1>19. ASSUME NEW s \in Outputs, Read(s) PROVE TypeOK'
  BY <1>19, CallAssumption, SMTT(15) DEF Read, TypeOK, Outputs, Piped, caller, threads,
     outside, clock
<1>20. ASSUME NEW s \in Outputs, ReadEnds(s) PROVE TypeOK'
  BY <1>20, CallAssumption, SMTT(15) DEF ReadEnds, Enough, Attached, TypeOK, Outputs,
     Piped, caller, threads, outside, clock
<1>21. ASSUME NEW s \in Outputs, Emit(s) PROVE TypeOK'
  BY <1>21, CallAssumption, SMTT(15) DEF Emit, Attached, Piped, TypeOK, Outputs, caller,
     threads, outside, clock
<1>q. QED
  BY <1>1, <1>2, <1>3, <1>4, <1>5, <1>6, <1>7, <1>8, <1>9, <1>10, <1>11, <1>12, <1>13,
     <1>14, <1>15, <1>16, <1>17, <1>18, <1>19, <1>20, <1>21,
     <1>22 DEF Next, Caller, Process

\* A child exists from Spawn on.
LEMMA StepChild ==
    ASSUME TypeOK, IChild, Next
    PROVE  IChild'
<1>1. CASE Refuse
  BY <1>1, CallAssumption, SMTT(15) DEF Refuse, TypeOK, Outputs, IChild, caller,
     threads, outside, clock
<1>2. CASE Spawn
  BY <1>2, CallAssumption, SMTT(15) DEF Spawn, Piped, TypeOK, Outputs, IChild, caller,
     threads, outside, clock
<1>3. CASE Drain
  BY <1>3, CallAssumption, SMTT(15) DEF Drain, TypeOK, Outputs, IChild, caller, threads,
     outside, clock
<1>4. CASE Look
  BY <1>4, CallAssumption, SMTT(15) DEF Look, Gentle, TypeOK, Outputs, IChild, caller,
     threads, outside, clock
<1>5. CASE Wait
  BY <1>5, CallAssumption, SMTT(15) DEF Wait, Polled, Complete, GivesUp, TypeOK,
     Outputs, IChild, caller, threads, outside, clock
<1>6. CASE ExchangeWait
  BY <1>6, CallAssumption, SMTT(15) DEF ExchangeWait, Polled, Complete, TypeOK, Outputs,
     IChild, caller, threads, outside, clock
<1>7. CASE ExchangeLook
  BY <1>7, CallAssumption, SMTT(15) DEF ExchangeLook, TypeOK, Outputs, IChild, caller,
     threads, outside, clock
<1>8. CASE PollFails
  BY <1>8, CallAssumption, SMTT(15) DEF PollFails, TypeOK, Outputs, IChild, caller,
     threads, outside, clock
<1>9. CASE Hook
  BY <1>9, CallAssumption, SMTT(15) DEF Hook, TypeOK, Outputs, IChild, caller, threads,
     outside, clock
<1>22. CASE HookEnds
  BY <1>22, CallAssumption, SMTT(15) DEF HookEnds, TypeOK, Outputs, IChild, caller, threads,
     outside, clock
<1>10. CASE Reap
  BY <1>10, CallAssumption, SMTT(15) DEF Reap, TypeOK, Outputs, IChild, caller, threads,
     outside, clock
<1>11. CASE Join
  BY <1>11, CallAssumption, SMTT(15) DEF Join, TypeOK, Outputs, IChild, caller, threads,
     outside, clock
<1>12. CASE Write
  BY <1>12, CallAssumption, SMTT(15) DEF Write, Attached, TypeOK, Outputs, IChild,
     caller, threads, outside, clock
<1>13. CASE Consume
  BY <1>13, CallAssumption, SMTT(15) DEF Consume, Attached, TypeOK, Outputs, IChild,
     caller, threads, outside, clock
<1>14. CASE Fork
  BY <1>14, CallAssumption, SMTT(15) DEF Fork, TypeOK, Outputs, IChild, caller, threads,
     outside, clock
<1>15. CASE HeirExits
  BY <1>15, CallAssumption, SMTT(15) DEF HeirExits, TypeOK, Outputs, IChild, caller,
     threads, outside, clock
<1>16. CASE Exit
  BY <1>16, CallAssumption, SMTT(15) DEF Exit, TypeOK, Outputs, IChild, caller, threads,
     outside, clock
<1>17. CASE Cancel
  BY <1>17, CallAssumption, SMTT(15) DEF Cancel, TypeOK, Outputs, IChild, caller,
     threads, outside, clock
<1>18. CASE Tick
  BY <1>18, CallAssumption, SMTT(15) DEF Tick, TypeOK, Outputs, IChild, caller, threads,
     outside, clock
<1>19. ASSUME NEW s \in Outputs, Read(s) PROVE IChild'
  BY <1>19, CallAssumption, SMTT(15) DEF Read, TypeOK, Outputs, IChild, caller, threads,
     outside, clock
<1>20. ASSUME NEW s \in Outputs, ReadEnds(s) PROVE IChild'
  BY <1>20, CallAssumption, SMTT(15) DEF ReadEnds, Enough, Attached, TypeOK, Outputs,
     IChild, caller, threads, outside, clock
<1>21. ASSUME NEW s \in Outputs, Emit(s) PROVE IChild'
  BY <1>21, CallAssumption, SMTT(15) DEF Emit, Attached, Piped, TypeOK, Outputs, IChild,
     caller, threads, outside, clock
<1>q. QED
  BY <1>1, <1>2, <1>3, <1>4, <1>5, <1>6, <1>7, <1>8, <1>9, <1>10, <1>11, <1>12, <1>13,
     <1>14, <1>15, <1>16, <1>17, <1>18, <1>19, <1>20, <1>21,
     <1>22 DEF Next, Caller, Process

\* A byte is in its pipe or read, and nobody comes back to a pipe that was left.
LEMMA StepStream ==
    ASSUME TypeOK, IChild, IStream, Next
    PROVE  IStream'
<1>1. CASE Spawn
  BY <1>1, CallAssumption, SMTT(15) DEF Spawn, Piped, TypeOK, Outputs, IChild, IStream,
     Attached, caller, threads, outside, clock
<1>2. CASE HookEnds
  <2>1. UNCHANGED <<reader, pipe, produced, child>> /\ (heir' = heir \/ heir' = FALSE)
    BY <1>2, Zenon DEF HookEnds, threads
  <2>2. ~Attached => ~Attached'
    BY <2>1, Zenon DEF Attached
  <2>q. QED BY <2>1, <2>2 DEF IStream
<1>3. CASE Reap
  BY <1>3, CallAssumption, SMTT(15) DEF Reap, TypeOK, Outputs, IChild, IStream,
     Attached, caller, threads, outside, clock
<1>4. CASE Write
  BY <1>4, CallAssumption, SMTT(15) DEF Write, Attached, TypeOK, Outputs, IChild,
     IStream, caller, threads, outside, clock
<1>5. CASE Consume
  BY <1>5, CallAssumption, SMTT(15) DEF Consume, Attached, TypeOK, Outputs, IChild,
     IStream, caller, threads, outside, clock
<1>6. CASE Fork
  BY <1>6, CallAssumption, SMTT(15) DEF Fork, TypeOK, Outputs, IChild, IStream,
     Attached, caller, threads, outside, clock
<1>7. CASE HeirExits
  BY <1>7, CallAssumption, SMTT(15) DEF HeirExits, TypeOK, Outputs, IChild, IStream,
     Attached, caller, threads, outside, clock
<1>8. CASE Exit
  BY <1>8, CallAssumption, SMTT(15) DEF Exit, TypeOK, Outputs, IChild, IStream,
     Attached, caller, threads, outside, clock
<1>9. ASSUME NEW s \in Outputs, Read(s) PROVE IStream'
  BY <1>9, CallAssumption, SMTT(15) DEF Read, TypeOK, Outputs, IChild, IStream,
     Attached, caller, threads, outside, clock
<1>10. ASSUME NEW s \in Outputs, ReadEnds(s) PROVE IStream'
  BY <1>10, CallAssumption, SMTT(15) DEF ReadEnds, Enough, Attached, TypeOK, Outputs,
     IChild, IStream, caller, threads, outside, clock
<1>11. ASSUME NEW s \in Outputs, Emit(s) PROVE IStream'
  BY <1>11, CallAssumption, SMTT(15) DEF Emit, Attached, Piped, TypeOK, Outputs, IChild,
     IStream, caller, threads, outside, clock
<1>12. CASE UNCHANGED <<reader, pipe, produced, child, heir>>
  BY <1>12 DEF IStream, Attached
<1>q. QED
  <2>1. ASSUME
          Refuse \/ Drain \/ Look \/ Wait \/ ExchangeWait \/ ExchangeLook \/
          PollFails \/ Hook \/ Join \/ Cancel \/ Tick
        PROVE UNCHANGED <<reader, pipe, produced, child, heir>>
    BY <2>1, Zenon DEF Refuse, Drain, Look, Wait, ExchangeWait, ExchangeLook, PollFails,
       Hook, Join, Cancel, Tick, caller, threads, outside, clock
  <2>q. QED
    BY <1>1, <1>2, <1>3, <1>4, <1>5, <1>6, <1>7, <1>8, <1>9, <1>10, <1>11, <1>12, <2>1
       DEF Next, Caller, Process

\* Readers report once, and keep what they have read.
LEMMA StepReport ==
    ASSUME TypeOK, IChild, IReport, Next
    PROVE  IReport'
<1>1. CASE Spawn
  BY <1>1, CallAssumption, SMTT(15) DEF Spawn, Piped, TypeOK, Outputs, IChild, IReport,
     caller, threads, outside, clock
<1>2. CASE Drain
  <2>1. \A m \in channel : m[1] \in Outputs /\ m[2] \in {"whole", "large"}
    BY DEF TypeOK
  <2>2. \/ UNCHANGED ready
        \/ /\ ready' = ready \cup {m[1] : m \in channel}
           /\ \A m \in channel : m[2] # "large"
    BY <1>2 DEF Drain
  <2>3. UNCHANGED <<way, status, stopping, reader, writer, outside, clock, hooked>>
        /\ channel' = {} /\ pc' \in {"hook", "wait", "look"} /\ result' \in {"too_large", result}
        /\ (pc' = "hook" <=> result' = "too_large") /\ pc = "drain"
    BY <1>2 DEF Drain, TypeOK
  <2>4. ASSUME NEW s \in ready' PROVE reader[s].state = "done" /\ reader[s].got <= Limit
    BY <2>1, <2>2, <2>4 DEF IReport
  <2>q. QED
    BY <2>3, <2>4 DEF IReport
<1>3. ASSUME NEW s \in Outputs, Read(s) PROVE IReport'
  BY <1>3, CallAssumption, SMTT(15) DEF Read, TypeOK, Outputs, IChild, IReport, caller,
     threads, outside, clock
<1>4. ASSUME NEW s \in Outputs, ReadEnds(s) PROVE IReport'
  BY <1>4, CallAssumption, SMTT(15) DEF ReadEnds, Enough, Attached, TypeOK, Outputs,
     IChild, IReport, caller, threads, outside, clock
<1>5. CASE UNCHANGED <<channel, ready, reader>>
  BY <1>5 DEF IReport
<1>q. QED
  <2>1. ASSUME
          Refuse \/ Look \/ Wait \/ ExchangeWait \/ ExchangeLook \/ PollFails \/
          Hook \/ HookEnds \/ Reap \/ Join \/ Write \/ Consume \/ Fork \/ HeirExits \/ Exit
          \/ Cancel \/ Tick \/ (\E s \in Outputs : Emit(s))
        PROVE UNCHANGED <<channel, ready, reader>>
    BY <2>1, Zenon DEF Refuse, Look, Wait, ExchangeWait, ExchangeLook, PollFails, Hook,
       HookEnds, Reap, Join, Write, Consume, Fork, HeirExits, Exit, Cancel, Tick, Emit, caller,
       threads, outside, clock
  <2>q. QED
    BY <1>1, <1>2, <1>3, <1>4, <1>5, <2>1 DEF Next, Caller, Process

\* Results keep their reasons.
LEMMA StepResult ==
    ASSUME TypeOK, IChild, IResult, Next
    PROVE  IResult'
<1>1. CASE Refuse
  BY <1>1, SMTT(15) DEF Refuse, TypeOK, Outputs, IChild, IResult, Piped, caller,
     threads, outside, clock
<1>2. CASE Spawn
  BY <1>2, SMTT(15) DEF Spawn, Piped, TypeOK, Outputs, IChild, IResult, caller, threads,
     outside, clock
<1>3. CASE Drain
  BY <1>3, SMTT(15) DEF Drain, TypeOK, Outputs, IChild, IResult, Piped, caller, threads,
     outside, clock
<1>4. CASE Look
  BY <1>4, SMTT(15) DEF Look, Gentle, TypeOK, Outputs, IChild, IResult, Piped, caller,
     threads, outside, clock
<1>5. CASE Wait
  BY <1>5, SMTT(15) DEF Wait, Polled, Complete, GivesUp, TypeOK, Outputs, IChild,
     IResult, Piped, caller, threads, outside, clock
<1>6. CASE ExchangeWait
  <2>1. CASE flag
    BY <1>6, <2>1, SMTT(15) DEF ExchangeWait, Polled, Complete, TypeOK, Outputs, IChild,
       IResult, Piped, threads, outside, clock
  <2>2. CASE ~flag
    BY <1>6, <2>2, SMTT(15) DEF ExchangeWait, Polled, Complete, TypeOK, Outputs, IChild,
       IResult, Piped, threads, outside, clock
  <2>q. QED BY <2>1, <2>2
<1>7. CASE ExchangeLook
  <2>1. CASE flag
    BY <1>7, <2>1, SMTT(15) DEF ExchangeLook, TypeOK, Outputs, IChild, IResult, Piped,
       threads, outside, clock
  <2>2. CASE ~flag
    BY <1>7, <2>2, SMTT(15) DEF ExchangeLook, TypeOK, Outputs, IChild, IResult, Piped,
       threads, outside, clock
  <2>q. QED BY <2>1, <2>2
<1>8. CASE PollFails
  BY <1>8, SMTT(15) DEF PollFails, TypeOK, Outputs, IChild, IResult, Piped, caller,
     threads, outside, clock
<1>9. CASE Hook
  BY <1>9, SMTT(15) DEF Hook, TypeOK, Outputs, IChild, IResult, Piped, caller, threads,
     outside, clock
<1>17. CASE HookEnds
  BY <1>17, SMTT(15) DEF HookEnds, TypeOK, Outputs, IChild, IResult, Piped, caller,
     threads, outside, clock
<1>10. CASE Reap
  BY <1>10, SMTT(15) DEF Reap, TypeOK, Outputs, IChild, IResult, Piped, caller, threads,
     outside, clock
<1>11. CASE Join
  BY <1>11, SMTT(15) DEF Join, TypeOK, Outputs, IChild, IResult, Piped, caller, threads,
     outside, clock
<1>12. CASE Write
  BY <1>12, SMTT(15) DEF Write, Attached, TypeOK, Outputs, IChild, IResult, Piped,
     caller, threads, outside, clock
<1>13. CASE Exit
  BY <1>13, SMTT(15) DEF Exit, TypeOK, Outputs, IChild, IResult, Piped, caller, threads,
     outside, clock
<1>14. CASE Cancel
  BY <1>14, SMTT(15) DEF Cancel, TypeOK, Outputs, IChild, IResult, Piped, caller,
     threads, outside, clock
<1>15. CASE Tick
  BY <1>15, SMTT(15) DEF Tick, TypeOK, Outputs, IChild, IResult, Piped, caller, threads,
     outside, clock
<1>16. CASE UNCHANGED <<way, pc, result, ready, status, stopping, writer, child, flag, elapsed, graceOver>>
  BY <1>16 DEF IResult, Piped
<1>q. QED
  <2>1. ASSUME
          Consume \/ Fork \/ HeirExits \/ (\E s \in Outputs : Read(s)) \/ (\E s
          \in Outputs : ReadEnds(s)) \/ (\E s \in Outputs : Emit(s))
        PROVE UNCHANGED <<way, pc, result, ready, status, stopping, writer, child, flag, elapsed, graceOver>>
    BY <2>1, Zenon DEF Consume, Fork, HeirExits, Read, ReadEnds, Emit, caller, threads,
       outside, clock
  <2>q. QED
    BY <1>1, <1>2, <1>3, <1>4, <1>5, <1>6, <1>7, <1>8, <1>9, <1>10, <1>11, <1>12, <1>13,
       <1>14, <1>15, <1>16, <1>17, <2>1 DEF Next, Caller, Process

\* Nothing is killed before its time.
LEMMA StepKill ==
    ASSUME TypeOK, IChild, IResult, IKill, Next
    PROVE  IKill'
<1>1. CASE Refuse
  BY <1>1, SMTT(15) DEF Refuse, TypeOK, Outputs, IChild, IResult, IKill, Gentle, caller,
     threads, outside, clock
<1>2. CASE Spawn
  BY <1>2, SMTT(15) DEF Spawn, Piped, TypeOK, Outputs, IChild, IResult, IKill, Gentle,
     caller, threads, outside, clock
<1>3. CASE Drain
  BY <1>3, SMTT(15) DEF Drain, TypeOK, Outputs, IChild, IResult, IKill, Gentle, caller,
     threads, outside, clock
<1>4. CASE Look
  BY <1>4, SMTT(15) DEF Look, Gentle, TypeOK, Outputs, IChild, IResult, IKill, caller,
     threads, outside, clock
<1>5. CASE Wait
  BY <1>5, SMTT(15) DEF Wait, Polled, Complete, GivesUp, TypeOK, Outputs, IChild,
     IResult, IKill, Gentle, caller, threads, outside, clock
<1>6. CASE ExchangeWait
  BY <1>6, SMTT(15) DEF ExchangeWait, Polled, Complete, TypeOK, Outputs, IChild,
     IResult, IKill, Gentle, caller, threads, outside, clock
<1>7. CASE ExchangeLook
  BY <1>7, SMTT(15) DEF ExchangeLook, TypeOK, Outputs, IChild, IResult, IKill, Gentle,
     caller, threads, outside, clock
<1>8. CASE PollFails
  BY <1>8, SMTT(15) DEF PollFails, TypeOK, Outputs, IChild, IResult, IKill, Gentle,
     caller, threads, outside, clock
<1>9. CASE Hook
  BY <1>9, SMTT(15) DEF Hook, TypeOK, Outputs, IChild, IResult, IKill, Gentle, caller,
     threads, outside, clock
<1>15. CASE HookEnds
  BY <1>15, SMTT(15) DEF HookEnds, TypeOK, Outputs, IChild, IResult, IKill, Gentle,
     caller, threads, outside, clock
<1>10. CASE Reap
  BY <1>10, SMTT(15) DEF Reap, TypeOK, Outputs, IChild, IResult, IKill, Gentle, caller,
     threads, outside, clock
<1>11. CASE Join
  BY <1>11, SMTT(15) DEF Join, TypeOK, Outputs, IChild, IResult, IKill, Gentle, caller,
     threads, outside, clock
<1>12. CASE Exit
  BY <1>12, SMTT(15) DEF Exit, TypeOK, Outputs, IChild, IResult, IKill, Gentle, caller,
     threads, outside, clock
<1>13. CASE Tick
  BY <1>13, SMTT(15) DEF Tick, TypeOK, Outputs, IChild, IResult, IKill, Gentle, caller,
     threads, outside, clock
<1>14. CASE UNCHANGED <<way, pc, result, child, graceOver, hooked>>
  BY <1>14 DEF IKill, Gentle
<1>q. QED
  <2>1. ASSUME
          Write \/ Consume \/ Fork \/ HeirExits \/ Cancel \/ (\E s \in Outputs :
          Read(s)) \/ (\E s \in Outputs : ReadEnds(s)) \/ (\E s \in Outputs :
          Emit(s))
        PROVE UNCHANGED <<way, pc, result, child, graceOver, hooked>>
    BY <2>1, Zenon DEF Write, Consume, Fork, HeirExits, Cancel, Read, ReadEnds, Emit,
       caller, threads, outside, clock
  <2>q. QED
    BY <1>1, <1>2, <1>3, <1>4, <1>5, <1>6, <1>7, <1>8, <1>9, <1>10, <1>11, <1>12, <1>13,
       <1>14, <1>15, <2>1 DEF Next, Caller, Process
-----------------------------------------------------------------------------
(* The theorems.                                                           *)

\* A call that has not begun satisfies the invariant.
LEMMA InitInv == Init => IInv
<1> SUFFICES ASSUME Init PROVE IInv
  OBVIOUS
<1>1. TypeOK
  <2>1. \A s \in Outputs : reader[s] \in [state: {"none", "reading", "done"}, got: 0..Limit + 1]
    BY CallAssumption DEF Init, Outputs
  <2>2. /\ pipe \in [Outputs \cup {"in"} -> 0..Room] /\ produced \in [Outputs -> 0..MaxOutput]
        /\ writer \in [state: {"none", "writing", "done", "broken"}, left: 0..InputSize]
    BY CallAssumption DEF Init, Outputs
  <2>3. /\ heir \in BOOLEAN /\ flag \in BOOLEAN /\ hooked \in BOOLEAN
        /\ elapsed \in BOOLEAN /\ graceOver \in BOOLEAN
    BY Zenon DEF Init
  <2>4. reader \in [Outputs -> [state: {"none", "reading", "done"}, got: 0..Limit + 1]]
    BY <2>1 DEF Init
  <2>q. QED BY <2>2, <2>3, <2>4 DEF Init, TypeOK
<1>2. IChild /\ IStream
  BY DEF Init, IChild, IStream, Outputs, Attached
<1>3. IReport /\ IResult /\ IKill
  BY DEF Init, IReport, IResult, IKill
<1>q. QED BY <1>1, <1>2, <1>3 DEF IInv

\* Every step keeps it.
LEMMA NextInv == IInv /\ [Next]_vars => IInv'
<1> SUFFICES ASSUME IInv, [Next]_vars PROVE IInv'
  OBVIOUS
<1>1. CASE UNCHANGED vars
  BY <1>1 DEF IInv, vars, caller, threads, outside, clock, TypeOK, IChild, IStream,
     IReport, IResult, IKill, Piped, Attached, Gentle
<1>2. CASE Next
  BY <1>2, StepType, StepChild, StepStream, StepReport, StepResult, StepKill DEF IInv
<1>q. QED BY <1>1, <1>2

\* The invariant holds in every reachable state.
THEOREM Inductive == Spec => []IInv
<1>q. QED
  BY InitInv, NextInv, PTL DEF Spec

\* Every variable keeps its type: a pipe and what is kept of a stream are bounded.
THEOREM TypeCorrect == Spec => []TypeOK
<1>1. IInv => TypeOK BY DEF IInv
<1>q. QED BY <1>1, Inductive, PTL

\* An output is complete, and every other answer has its reason.
THEOREM AnswersAreTruthful == Spec => []Truthful
<1>1. ASSUME IInv PROVE Truthful
  <2>1. ASSUME pc = "returned", result = "output", NEW s \in Piped
        PROVE  reader[s].got = produced[s] /\ pipe[s] = 0 /\ ~heir
    <3>1. s \in Outputs /\ s \in ready
      BY <1>1, <2>1 DEF IInv, IResult, Piped, Outputs
    <3>2. ~Attached /\ pipe[s] = 0 /\ reader[s].got + pipe[s] = produced[s]
      BY <1>1, <3>1 DEF IInv, IReport, IStream
    <3>3. reader[s].got \in Nat
      BY <1>1, <3>1, CallAssumption DEF IInv, TypeOK
    <3>q. QED BY <3>2, <3>3 DEF Attached
  <2>2. "out" \in Piped
    BY DEF Piped, Outputs
  <2>q. QED BY <1>1, <2>1, <2>2 DEF IInv, IResult, Truthful
<1>q. QED BY <1>1, Inductive, PTL

\* No child is killed before its grace and its cleanup, and none outlives its call.
THEOREM GraceIsKept == Spec => []GraceKept
<1>1. IInv => GraceKept BY DEF IInv, IKill, GraceKept
<1>q. QED BY <1>1, Inductive, PTL
=============================================================================
