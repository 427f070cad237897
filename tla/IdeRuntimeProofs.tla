-------------------------- MODULE IdeRuntimeProofs --------------------------
(***************************************************************************)
(* What IdeRuntime promises, for any frames, any client, any limits and    *)
(* any faults.                                                             *)
(*                                                                         *)
(* The argument follows a frame.  From the moment it is read until the     *)
(* connection ends it is at exactly one place: with the reader, in the     *)
(* queue, with the worker, in the channel, with the writer, or written     *)
(* (IPlaces).  Each place has an account of the requests it still owes a   *)
(* reply to, and together they are what the queue is charged for           *)
(* (IPending); each place knows which answers it will still give and which *)
(* events it will still announce (IReady, IApplied, IEvents); and what is  *)
(* handed over is what is written and what lies in between (ICount), so    *)
(* that a worker that waits for the last of it waits for every answer      *)
(* (IExit, IComplete).                                                     *)
(*                                                                         *)
(* The steps of the three threads fall into twenty classes, each of them   *)
(* described by what it moves from which place to which (Handles, Takes,   *)
(* Ships, Receives and so on).  The first half of the module shows that    *)
(* every action belongs to one of them (Classes), the second that each     *)
(* part of the invariant is kept by all of them.                           *)
(***************************************************************************)
EXTENDS IdeRuntime, FiniteSetTheorems, FunctionTheorems, TLAPS

-----------------------------------------------------------------------------
(* Items and answers.                                                       *)

\* The outcomes of an answer ("twice" is none of them), answers to items, and
\* messages for the writer.
Outcome == {"ok", "error", "cancelled", "invalid", "limit"}
Answer == (Frames \X Nat) \X Outcome
Message == [replies : SUBSET Answer, release : SUBSET Requests, changed : SUBSET Requests]

\* Whether replies answer item o, answer nothing twice, and answer frame f only;
\* the frames they answer.
Has(replies, o) == \E r \in replies : r[1] = o
Single(replies) == \A r, q \in replies : r[1] = q[1] => r = q
About(replies, f) == \A r \in replies : r[1][1] = f
FramesOf(replies) == {r[1][1] : r \in replies}

\* A frame with an exit, and replies that answer all of it that precedes one.
HasExit(f) == \E i \in DOMAIN Content[f] : Exits(Content[f][i])
Complete(f, replies) == \A o \in RequestsOf(f) : Before(o) => Has(replies, o)

\* A request is an item of its frame.
LEMMA Items ==
    ASSUME NEW f \in Frames
    PROVE  /\ Content[f] \in Seq(Item) /\ Len(Content[f]) \in Nat
           /\ DOMAIN Content[f] = 1..Len(Content[f])
           /\ f \notin Batches => Len(Content[f]) = 1
           /\ \A i \in 1..Len(Content[f]) : Content[f][i] \in Item
           /\ \A i \in 1..Len(Content[f]) : <<f, i>> \in Frames \X Nat /\ ItemAt(<<f, i>>) = Content[f][i]
           /\ \A i : <<f, i>> \in RequestsOf(f) <=> i \in 1..Len(Content[f]) /\ Content[f][i].kind = "request"
           /\ \A o \in RequestsOf(f) : /\ o = <<f, o[2]>> /\ o[1] = f /\ o[2] \in 1..Len(Content[f])
                                       /\ o[2] \in Nat /\ ItemAt(o) = Content[f][o[2]]
                                       /\ ItemAt(o).kind = "request" /\ o \in Frames \X Nat
           /\ RequestsOf(f) \subseteq Requests
<1>1. Content[f] \in Seq(Item) /\ (f \notin Batches => Len(Content[f]) = 1)
  BY FrameAssumption
<1>2. Len(Content[f]) \in Nat /\ DOMAIN Content[f] = 1..Len(Content[f])
  BY <1>1
<1>3. \A i \in 1..Len(Content[f]) : Content[f][i] \in Item
  BY <1>1
<1>4. \A i \in 1..Len(Content[f]) : <<f, i>> \in Frames \X Nat /\ ItemAt(<<f, i>>) = Content[f][i]
  BY <1>2 DEF ItemAt
<1>5. \A i : <<f, i>> \in RequestsOf(f) <=> i \in 1..Len(Content[f]) /\ Content[f][i].kind = "request"
  BY <1>2 DEF RequestsOf, ItemAt
<1>6. ASSUME NEW o \in RequestsOf(f)
      PROVE  /\ o = <<f, o[2]>> /\ o[1] = f /\ o[2] \in 1..Len(Content[f])
             /\ o[2] \in Nat /\ ItemAt(o) = Content[f][o[2]]
             /\ ItemAt(o).kind = "request" /\ o \in Frames \X Nat
  <2>1. o \in {f} \X DOMAIN Content[f] /\ ItemAt(o).kind = "request"
    BY DEF RequestsOf
  <2>2. o = <<f, o[2]>> /\ o[1] = f /\ o[2] \in 1..Len(Content[f])
    BY <2>1, <1>2
  <2> QED BY <2>1, <2>2, <1>2 DEF ItemAt
<1>7. RequestsOf(f) \subseteq Requests
  BY DEF Requests
<1> QED BY <1>1, <1>2, <1>3, <1>4, <1>5, <1>6, <1>7

\* Every request is one of the frame it names.
LEMMA Owns ==
    \A o \in Requests : o[1] \in Frames /\ o \in RequestsOf(o[1]) /\ o \in Frames \X Nat
<1> TAKE o \in Requests
<1>1. PICK f \in Frames : o \in RequestsOf(f)
  BY DEF Requests
<1> QED BY <1>1, Items

\* Frames are finite.
LEMMA Countable ==
    ASSUME NEW f \in Frames
    PROVE  /\ IsFiniteSet(RequestsOf(f)) /\ Cardinality(RequestsOf(f)) \in Nat
           /\ IsFiniteSet(DOMAIN Content[f]) /\ Cardinality(DOMAIN Content[f]) = Len(Content[f])
<1>1. Len(Content[f]) \in Nat /\ DOMAIN Content[f] = 1..Len(Content[f])
  BY Items
<1>2. IsFiniteSet(1..Len(Content[f])) /\ Cardinality(1..Len(Content[f])) = Len(Content[f])
  BY <1>1, FS_Interval
<1>3. IsFiniteSet(RequestsOf(f))
  <2> DEFINE S == {i \in 1..Len(Content[f]) : Content[f][i].kind = "request"}
  <2> DEFINE g == [i \in S |-> <<f, i>>]
  <2>1. IsFiniteSet(S)
    BY <1>2, FS_Subset
  <2>2. \A o \in RequestsOf(f) : o[2] \in S /\ o = g[o[2]]
    BY Items
  <2>3. \A i \in S : g[i] \in RequestsOf(f)
    BY Items
  <2>4. g \in Surjection(S, RequestsOf(f))
    BY <2>2, <2>3 DEF Surjection
  <2> QED BY <2>1, <2>4, FS_Surjection
<1> QED BY <1>1, <1>2, <1>3, FS_CardinalityType

-----------------------------------------------------------------------------
(* Messages and sequences of them.                                          *)

\* A message with events only, and one that answers a frame.
Plain(m) == m.replies = {} /\ m.release = {}
Made(m, f) ==
    /\ m.replies # {} /\ About(m.replies, f) /\ Single(m.replies)
    /\ m.release \subseteq RequestsOf(f) /\ m.changed = {}

\* What the writer gets is one or the other.
Sane(m) == Plain(m) \/ \E f \in Frames : Made(m, f)

\* What a sequence of messages answers, releases, says and announces.
FramesIn(q) == UNION {FramesOf(m.replies) : m \in ToSet(q)}
ReleasedIn(q) == UNION {m.release : m \in ToSet(q)}
RepliesIn(q) == UNION {m.replies : m \in ToSet(q)}
ChangedIn(q) == UNION {m.changed : m \in ToSet(q)}

\* Events, and at the end perhaps the result of frame f.
Cargo(q, f, leaving) ==
    \A k \in 1..Len(q) :
        \/ Plain(q[k])
        \/ leaving /\ k = Len(q) /\ Made(q[k], f) /\ q[k].release = RequestsOf(f)

\* A sequence without elements.
LEMMA Empty ==
    ASSUME NEW S, NEW q \in Seq(S)
    PROVE  q = <<>> <=> Len(q) = 0
<1> QED OBVIOUS

\* The elements of a sequence.
LEMMA Elements ==
    ASSUME NEW S, NEW q \in Seq(S), NEW r \in Seq(S)
    PROVE  /\ ToSet(q) \subseteq S /\ ToSet(q) = {q[k] : k \in 1..Len(q)}
           /\ q = <<>> <=> ToSet(q) = {}
           /\ ToSet(q \o r) = ToSet(q) \cup ToSet(r)
           /\ q # <<>> => ToSet(q) = {Head(q)} \cup ToSet(Tail(q))
           /\ q # <<>> => q[Len(q)] \in ToSet(q) /\ Head(q) = q[1] /\ Head(q) \in S
           /\ q # <<>> /\ Tail(q) # <<>> => Tail(q)[Len(Tail(q))] = q[Len(q)]
           /\ q # <<>> => (Tail(q) = <<>> <=> Len(q) = 1)
<1>1. DOMAIN q = 1..Len(q) /\ Len(q) \in Nat /\ \A k \in 1..Len(q) : q[k] \in S
  OBVIOUS
<1>2. DOMAIN r = 1..Len(r) /\ Len(r) \in Nat
  OBVIOUS
<1>3. ToSet(q) = {q[k] : k \in 1..Len(q)} /\ ToSet(q) \subseteq S
  BY <1>1 DEF ToSet
<1>4. q = <<>> <=> ToSet(q) = {}
  <2>1. q # <<>> => 1 \in DOMAIN q
    BY <1>1
  <2>2. q = <<>> => DOMAIN q = {}
    BY <1>1
  <2> QED BY <2>1, <2>2 DEF ToSet
<1>5. ToSet(q \o r) = ToSet(q) \cup ToSet(r)
  <2>1. /\ q \o r \in Seq(S) /\ Len(q \o r) = Len(q) + Len(r) /\ DOMAIN (q \o r) = 1..Len(q \o r)
        /\ \A k \in 1..Len(q) : (q \o r)[k] = q[k]
        /\ \A k \in 1..Len(r) : (q \o r)[Len(q) + k] = r[k]
    OBVIOUS
  <2>2. \A k \in 1..Len(q \o r) : k \in 1..Len(q) \/ \E j \in 1..Len(r) : k = Len(q) + j
    <3>1. \A k \in 1..Len(q \o r) : k \notin 1..Len(q) => k - Len(q) \in 1..Len(r) /\ k = Len(q) + (k - Len(q))
      BY <2>1, <1>1, <1>2
    <3> QED BY <3>1
  <2>3. \A k \in 1..Len(r) : Len(q) + k \in 1..Len(q \o r)
    BY <2>1, <1>1, <1>2
  <2>4. \A k \in 1..Len(q) : k \in 1..Len(q \o r)
    BY <2>1, <1>1, <1>2
  <2>5. \A x \in ToSet(q \o r) : x \in ToSet(q) \cup ToSet(r)
    <3>1. \A k \in 1..Len(q) : (q \o r)[k] \in ToSet(q)
      BY <2>1, <1>1 DEF ToSet
    <3>2. \A k \in 1..Len(r) : (q \o r)[Len(q) + k] \in ToSet(r)
      BY <2>1, <1>2 DEF ToSet
    <3>3. \A k \in 1..Len(q \o r) : (q \o r)[k] \in ToSet(q) \cup ToSet(r)
      BY <2>2, <3>1, <3>2
    <3>4. ToSet(q \o r) = {(q \o r)[k] : k \in 1..Len(q \o r)}
      BY <2>1 DEF ToSet
    <3> QED BY <3>3, <3>4
  <2>6. \A x \in ToSet(q) \cup ToSet(r) : x \in ToSet(q \o r)
    <3>1. \A k \in 1..Len(q \o r) : (q \o r)[k] \in ToSet(q \o r)
      BY <2>1 DEF ToSet
    <3>2. \A k \in 1..Len(q) : q[k] \in ToSet(q \o r)
      BY <2>1, <2>4, <3>1
    <3>3. \A k \in 1..Len(r) : r[k] \in ToSet(q \o r)
      BY <2>1, <2>3, <3>1
    <3>4. ToSet(r) = {r[k] : k \in 1..Len(r)}
      BY <1>2 DEF ToSet
    <3> QED BY <1>3, <3>2, <3>3, <3>4
  <2> QED BY <2>5, <2>6
<1>6. ASSUME q # <<>>
      PROVE  /\ ToSet(q) = {Head(q)} \cup ToSet(Tail(q))
             /\ q[Len(q)] \in ToSet(q) /\ Head(q) = q[1] /\ Head(q) \in S
             /\ Tail(q) # <<>> => Tail(q)[Len(Tail(q))] = q[Len(q)]
             /\ Tail(q) = <<>> <=> Len(q) = 1
  <2>1. /\ Tail(q) \in Seq(S) /\ Len(Tail(q)) = Len(q) - 1 /\ DOMAIN Tail(q) = 1..Len(Tail(q))
        /\ \A k \in 1..Len(Tail(q)) : Tail(q)[k] = q[k + 1]
        /\ Head(q) = q[1] /\ Len(q) >= 1
    BY <1>6
  <2>2. \A k \in 1..Len(q) : k = 1 \/ (k - 1 \in 1..Len(Tail(q)) /\ q[k] = Tail(q)[k - 1])
    BY <2>1, <1>1
  <2>3. \A x \in ToSet(q) : x \in {Head(q)} \cup ToSet(Tail(q))
    <3>1. \A j \in 1..Len(Tail(q)) : Tail(q)[j] \in ToSet(Tail(q))
      BY <2>1 DEF ToSet
    <3>2. \A k \in 1..Len(q) : q[k] \in {Head(q)} \cup ToSet(Tail(q))
      BY <3>1, <2>1, <2>2
    <3> QED BY <3>2, <1>1 DEF ToSet
  <2>4. \A k \in 1..Len(Tail(q)) : k + 1 \in 1..Len(q)
    BY <2>1, <1>1
  <2>5. \A x \in {Head(q)} \cup ToSet(Tail(q)) : x \in ToSet(q)
    BY <2>1, <2>4, <1>1 DEF ToSet
  <2>6. q[Len(q)] \in ToSet(q) /\ q[1] \in S
    BY <2>1, <1>1 DEF ToSet
  <2>7. Tail(q) # <<>> => Len(Tail(q)) \in 1..Len(Tail(q))
    BY <2>1
  <2>8. Tail(q) = <<>> <=> Len(Tail(q)) = 0
    BY <2>1, Empty, Zenon
  <2>9. Tail(q) = <<>> <=> Len(q) = 1
    BY <2>1, <2>8
  <2> QED BY <2>1, <2>3, <2>5, <2>6, <2>7, <2>9
<1> QED BY <1>3, <1>4, <1>5, <1>6

\* What lies in a sequence of messages, part by part.
LEMMA Parts ==
    ASSUME NEW q \in Seq(Message), NEW r \in Seq(Message)
    PROVE  /\ FramesIn(<<>>) = {} /\ ReleasedIn(<<>>) = {} /\ RepliesIn(<<>>) = {} /\ ChangedIn(<<>>) = {}
           /\ FramesIn(q \o r) = FramesIn(q) \cup FramesIn(r)
           /\ ReleasedIn(q \o r) = ReleasedIn(q) \cup ReleasedIn(r)
           /\ RepliesIn(q \o r) = RepliesIn(q) \cup RepliesIn(r)
           /\ ChangedIn(q \o r) = ChangedIn(q) \cup ChangedIn(r)
           /\ q # <<>> =>
                /\ Head(q) \in Message
                /\ FramesIn(q) = FramesOf(Head(q).replies) \cup FramesIn(Tail(q))
                /\ ReleasedIn(q) = Head(q).release \cup ReleasedIn(Tail(q))
                /\ RepliesIn(q) = Head(q).replies \cup RepliesIn(Tail(q))
                /\ ChangedIn(q) = Head(q).changed \cup ChangedIn(Tail(q))
           /\ ReleasedIn(q) \subseteq Requests /\ RepliesIn(q) \subseteq Answer /\ ChangedIn(q) \subseteq Requests
           /\ FramesIn(q) = FramesOf(RepliesIn(q))
<1>1. ToSet(<<>>) = {}
  <2>1. <<>> \in Seq(Message)
    OBVIOUS
  <2> QED BY <2>1, Elements
<1>2. ToSet(q \o r) = ToSet(q) \cup ToSet(r) /\ ToSet(q) \subseteq Message
  BY Elements
<1>3. q # <<>> => ToSet(q) = {Head(q)} \cup ToSet(Tail(q)) /\ Head(q) \in Message
  BY Elements
<1>4. FramesIn(q) = FramesOf(RepliesIn(q))
  <2>1. \A f \in FramesIn(q) : \E m \in ToSet(q) : \E r0 \in m.replies : f = r0[1][1]
    BY DEF FramesIn, FramesOf
  <2>2. \A m \in ToSet(q) : \A r0 \in m.replies : r0 \in RepliesIn(q) /\ r0[1][1] \in FramesIn(q)
    BY DEF FramesIn, RepliesIn, FramesOf
  <2>3. \A r0 \in RepliesIn(q) : \E m \in ToSet(q) : r0 \in m.replies
    BY DEF RepliesIn
  <2> QED BY <2>1, <2>2, <2>3 DEF FramesOf
<1>5. ReleasedIn(q) \subseteq Requests /\ RepliesIn(q) \subseteq Answer /\ ChangedIn(q) \subseteq Requests
  <2>1. \A m \in ToSet(q) : m.release \subseteq Requests /\ m.replies \subseteq Answer /\ m.changed \subseteq Requests
    BY <1>2 DEF Message
  <2> QED BY <2>1 DEF ReleasedIn, RepliesIn, ChangedIn
<1>6. /\ FramesIn(<<>>) = {} /\ ReleasedIn(<<>>) = {} /\ RepliesIn(<<>>) = {} /\ ChangedIn(<<>>) = {}
  BY <1>1 DEF FramesIn, ReleasedIn, RepliesIn, ChangedIn
<1>7. /\ FramesIn(q \o r) = FramesIn(q) \cup FramesIn(r)
      /\ ReleasedIn(q \o r) = ReleasedIn(q) \cup ReleasedIn(r)
      /\ RepliesIn(q \o r) = RepliesIn(q) \cup RepliesIn(r)
      /\ ChangedIn(q \o r) = ChangedIn(q) \cup ChangedIn(r)
  BY <1>2 DEF FramesIn, ReleasedIn, RepliesIn, ChangedIn
<1>8. ASSUME q # <<>>
      PROVE  /\ FramesIn(q) = FramesOf(Head(q).replies) \cup FramesIn(Tail(q))
             /\ ReleasedIn(q) = Head(q).release \cup ReleasedIn(Tail(q))
             /\ RepliesIn(q) = Head(q).replies \cup RepliesIn(Tail(q))
             /\ ChangedIn(q) = Head(q).changed \cup ChangedIn(Tail(q))
  BY <1>3, <1>8 DEF FramesIn, ReleasedIn, RepliesIn, ChangedIn
<1> QED BY <1>3, <1>4, <1>5, <1>6, <1>7, <1>8

\* A cargo is unloaded from the front: what is not the end of it is an event.
LEMMA Unloading ==
    ASSUME NEW q \in Seq(Message), NEW f \in Frames, NEW leaving \in BOOLEAN, Cargo(q, f, leaving), q # <<>>
    PROVE  /\ Cargo(Tail(q), f, leaving)
           /\ Sane(Head(q))
           /\ Tail(q) # <<>> \/ ~leaving => Plain(Head(q))
           /\ Plain(Head(q)) \/ (Made(Head(q), f) /\ Head(q).release = RequestsOf(f))
<1>1. /\ Tail(q) \in Seq(Message) /\ Len(Tail(q)) = Len(q) - 1 /\ Len(q) \in Nat
      /\ \A k \in 1..Len(Tail(q)) : Tail(q)[k] = q[k + 1] /\ k + 1 \in 1..Len(q)
      /\ Head(q) = q[1] /\ Len(q) >= 1 /\ (Tail(q) # <<>> => Len(Tail(q)) >= 1)
  OBVIOUS
<1>2. Cargo(Tail(q), f, leaving)
  <2>1. ASSUME NEW k \in 1..Len(Tail(q)), k + 1 = Len(q) PROVE k = Len(Tail(q))
    BY <2>1, <1>1
  <2>2. \A j \in 1..Len(q) : \/ Plain(q[j])
                             \/ /\ leaving /\ j = Len(q) /\ Made(q[j], f)
                                /\ q[j].release = RequestsOf(f)
    BY DEF Cargo
  <2>3. ASSUME NEW k \in 1..Len(Tail(q))
        PROVE  \/ Plain(Tail(q)[k])
               \/ /\ leaving /\ k = Len(Tail(q)) /\ Made(Tail(q)[k], f)
                  /\ Tail(q)[k].release = RequestsOf(f)
    <3>1. Tail(q)[k] = q[k + 1] /\ k + 1 \in 1..Len(q)
      BY <1>1
    <3> QED BY <2>1, <2>2, <3>1
  <2> QED BY <2>3 DEF Cargo
<1>3. Plain(q[1]) \/ (leaving /\ 1 = Len(q) /\ Made(q[1], f) /\ q[1].release = RequestsOf(f))
  <2>1. 1 \in 1..Len(q)
    BY <1>1
  <2> QED BY <2>1 DEF Cargo
<1> QED BY <1>1, <1>2, <1>3 DEF Sane

\* Events can be loaded before a result, and nothing but an answer has replies.
LEMMA Loading ==
    ASSUME NEW q \in Seq(Message), NEW r \in Seq(Message), NEW f, NEW leaving \in BOOLEAN,
           Cargo(q, f, FALSE), Cargo(r, f, leaving)
    PROVE  /\ Cargo(q \o r, f, leaving) /\ (r = <<>> => Cargo(q \o r, f, FALSE))
           /\ RepliesIn(q) = {} /\ ReleasedIn(q) = {} /\ FramesIn(q) = {}
<1>1. /\ q \o r \in Seq(Message) /\ Len(q \o r) = Len(q) + Len(r) /\ Len(q) \in Nat /\ Len(r) \in Nat
      /\ \A k \in 1..Len(q) : (q \o r)[k] = q[k]
      /\ \A k \in 1..Len(r) : (q \o r)[Len(q) + k] = r[k]
  OBVIOUS
<1>2. \A k \in 1..Len(q) : Plain(q[k])
  BY DEF Cargo
<1>3. ASSUME NEW k \in 1..Len(q \o r), k \notin 1..Len(q)
      PROVE  k - Len(q) \in 1..Len(r) /\ k = Len(q) + (k - Len(q)) /\ (k - Len(q) = Len(r) => k = Len(q \o r))
  BY <1>1, <1>3
<1>4. Cargo(q \o r, f, leaving)
  <2>1. ASSUME NEW k \in 1..Len(q \o r)
        PROVE  \/ Plain((q \o r)[k])
               \/ /\ leaving /\ k = Len(q \o r) /\ Made((q \o r)[k], f)
                  /\ (q \o r)[k].release = RequestsOf(f)
    <3>1. CASE k \in 1..Len(q)
      BY <3>1, <1>1, <1>2
    <3>2. CASE k \notin 1..Len(q)
      <4>1. (q \o r)[k] = r[k - Len(q)]
        BY <1>1, <1>3, <3>2
      <4>2. k - Len(q) \in 1..Len(r) /\ (k - Len(q) = Len(r) => k = Len(q \o r))
        BY <1>3, <3>2
      <4> QED BY <4>1, <4>2 DEF Cargo
    <3> QED BY <3>1, <3>2
  <2> QED BY <2>1 DEF Cargo
<1>5. r = <<>> => Cargo(q \o r, f, FALSE)
  <2>1. r = <<>> => q \o r = q
    OBVIOUS
  <2> QED BY <2>1
<1>6. RepliesIn(q) = {} /\ ReleasedIn(q) = {} /\ FramesIn(q) = {}
  <2>1. \A m \in ToSet(q) : Plain(m)
    BY <1>2, Elements
  <2>2. RepliesIn(q) = {} /\ ReleasedIn(q) = {}
    BY <2>1 DEF Plain, RepliesIn, ReleasedIn
  <2> QED BY <2>2, Parts DEF FramesOf
<1> QED BY <1>4, <1>5, <1>6

-----------------------------------------------------------------------------
(* The worker, and what it has in hand.                                     *)

\* Items of a job, which may have been purged.
Entry == Item \cup {Purged(x) : x \in Item}

\* Items of a job, its frame, and the states of the worker.
Job == [frame : Frames, items : Seq(Entry)]
Workers == [pc : {"check", "pop", "idle", "park", "item", "execute", "late", "send", "count",
                  "finish", "flush", "flushpark", "done"},
            job : Seq(Job), item : Nat, replies : SUBSET Answer,
            outcome : {"none", "ok", "error"}, outbox : Seq(Message),
            next : {"check", "park", "item", "finish"}, reset : BOOLEAN, target : Nat]

\* A job is being processed, or its result is on the way out.
InHandOf(w) == w.pc \in {"item", "execute", "late"} \/ (w.pc \in {"send", "count"} /\ w.next = "item")
Leaving(w) == w.pc \in {"send", "count"} /\ w.next = "finish"

\* What the worker still has to send.
Box(w) == IF w.pc = "count" THEN Tail(w.outbox) ELSE w.outbox

\* What the worker still has to send, and the frame it is responsible for.
Holds(w) == InHandOf(w) \/ (Leaving(w) /\ Box(w) # <<>>)

\* That frame, the requests it has in hand, and the answers it has so far.
WorkerFrames(w) == IF Holds(w) THEN {w.job[1].frame} ELSE {}
Engaged(w) == IF InHandOf(w) THEN RequestsOf(w.job[1].frame) ELSE {}
Inside(w) == IF InHandOf(w) THEN w.replies ELSE {}

\* A job is its frame, but for file notifications that were purged.
Faithful(job) ==
    LET items == Content[job.frame]
    IN  /\ Len(job.items) = Len(items)
        /\ \A i \in 1..Len(items) :
            /\ job.items[i].kind = items[i].kind
            /\ items[i].kind = "request" => job.items[i] = items[i]
            /\ Exits(job.items[i]) => Exits(items[i])

\* The replies of a job answer its items one by one, and nothing is begun that
\* was answered.
Working(w, begun) ==
    LET f == w.job[1].frame
    IN  /\ w.item \in 1..(Len(Content[f]) + 1)
        /\ About(w.replies, f) /\ Single(w.replies)
        /\ \A r \in w.replies : r[1][2] < w.item
        /\ \A o \in RequestsOf(f) : o[2] < w.item => Has(w.replies, o)
        /\ \A o \in RequestsOf(f) \cap begun :
              o[2] < w.item \/ (o[2] = w.item /\ w.pc \in {"execute", "late"})
        /\ w.pc \in {"execute", "late"} => <<f, w.item>> \in RequestsOf(f) \cap begun

\* What the worker has at each of its steps.
Employed(w, begun) ==
    /\ w.pc \in {"check", "pop", "park", "finish", "flush", "flushpark", "done"} => w.outbox = <<>>
    /\ w.pc \in {"send", "count"} => w.outbox # <<>>
    /\ w.pc = "late" => w.outcome \in {"ok", "error"}
    /\ Holds(w) => Len(w.job) = 1 /\ Faithful(w.job[1])
    /\ InHandOf(w) => Working(w, begun)
    /\ Cargo(Box(w), w.job[1].frame, Leaving(w))

\* What the worker owes the queue, what it will still say, and the refreshes it
\* will still announce.
WorkerOwes(w) == Engaged(w) \cup ReleasedIn(Box(w))
WorkerSays(w) == RepliesIn(Box(w))
WorkerTells(w) == ChangedIn(Box(w))

\* The box is a sequence, and the job one of a frame.
LEMMA Boxes ==
    ASSUME NEW w \in Workers, NEW begun, Employed(w, begun)
    PROVE  /\ Box(w) \in Seq(Message) /\ InHandOf(w) \in BOOLEAN /\ Leaving(w) \in BOOLEAN
           /\ w.pc \in {"send", "count"} => Head(w.outbox) \in Message
           /\ Holds(w) => w.job[1] \in Job /\ w.job[1].frame \in Frames
           /\ ~Leaving(w) => Cargo(Box(w), w.job[1].frame, FALSE)
           /\ ~Leaving(w) => RepliesIn(Box(w)) = {} /\ ReleasedIn(Box(w)) = {}
           /\ ~Holds(w) => RepliesIn(Box(w)) = {} /\ ReleasedIn(Box(w)) = {}
<1>1. w.outbox \in Seq(Message)
  BY DEF Workers
<1>2. Box(w) \in Seq(Message) /\ (w.pc \in {"send", "count"} => Head(w.outbox) \in Message)
  BY <1>1 DEF Box, Employed
<1>3. InHandOf(w) \in BOOLEAN /\ Leaving(w) \in BOOLEAN
  BY DEF InHandOf, Leaving
<1>4. ASSUME Holds(w) PROVE w.job[1] \in Job /\ w.job[1].frame \in Frames
  <2>1. w.job \in Seq(Job) /\ Len(w.job) = 1
    BY <1>4 DEF Workers, Employed
  <2>2. w.job[1] \in Job
    BY <2>1
  <2> QED BY <2>2 DEF Job
<1>5. ASSUME ~Leaving(w)
      PROVE  Cargo(Box(w), w.job[1].frame, FALSE) /\ RepliesIn(Box(w)) = {} /\ ReleasedIn(Box(w)) = {}
  <2>1. Leaving(w) = FALSE
    BY <1>3, <1>5
  <2>2. Cargo(Box(w), w.job[1].frame, FALSE)
    BY <2>1 DEF Employed
  <2>3. \A k \in 1..Len(Box(w)) : Plain(Box(w)[k])
    BY <2>2 DEF Cargo
  <2>4. \A m \in ToSet(Box(w)) : Plain(m)
    BY <2>3, <1>2, Elements
  <2> QED BY <2>2, <2>4 DEF Plain, RepliesIn, ReleasedIn
<1>6. ASSUME ~Holds(w) PROVE RepliesIn(Box(w)) = {} /\ ReleasedIn(Box(w)) = {}
  <2>1. CASE Leaving(w)
    <3>1. Box(w) = <<>>
      BY <2>1, <1>6 DEF Holds
    <3> QED BY <3>1, <1>2, Parts
  <2> QED BY <2>1, <1>5
<1> QED BY <1>2, <1>3, <1>4, <1>5, <1>6

\* send_all of an outbox.
LEMMA Sending ==
    ASSUME NEW w \in Workers, NEW next \in {"check", "park", "item", "finish"}
    PROVE  LET v == SendAll(w, next)
           IN  /\ v \in Workers /\ v.next = next /\ v.outbox = w.outbox
               /\ v.pc = IF w.outbox = <<>> THEN next ELSE "send"
               /\ v.job = w.job /\ v.item = w.item /\ v.replies = w.replies
               /\ v.outcome = w.outcome /\ v.reset = w.reset /\ v.target = w.target
<1> QED BY DEF SendAll, Workers

\* An item of the job is done with: its answer is noted, its events are to be
\* sent.
Handled(w, v, answer, events) ==
    /\ v \in Workers /\ v.pc \in {"item", "send"}
    /\ v.pc = "send" => v.next = "item" /\ v.outbox # <<>>
    /\ v.job = w.job /\ v.item = w.item + 1 /\ v.replies = w.replies \cup answer
    /\ v.outbox = w.outbox \o events

\* The answer is one to this item, and a request gets one.
Answers(w, answer, events) ==
    LET f == w.job[1].frame
    IN  /\ w.item <= Len(Content[f]) /\ Cargo(events, f, FALSE)
        /\ answer = {} \/ \E x \in Outcome : answer = {<<<<f, w.item>>, x>>}
        /\ Content[f][w.item].kind = "request" => answer # {}

\* The job is in hand as before, with one answer more.
Proceeds(w, v, answer, events) ==
    /\ InHandOf(w) /\ InHandOf(v)
    /\ WorkerFrames(v) = WorkerFrames(w) /\ Engaged(v) = Engaged(w)
    /\ Inside(v) = Inside(w) \cup answer
    /\ WorkerOwes(v) = WorkerOwes(w) /\ WorkerSays(v) = {} /\ WorkerSays(w) = {}
    /\ WorkerTells(v) = WorkerTells(w) \cup ChangedIn(events)

\* What is done with an item leaves the rest of the job alone.
LEMMA Handling ==
    ASSUME NEW w \in Workers, NEW begun, Employed(w, begun), w.pc \in {"item", "late"},
           NEW v, NEW answer, NEW events \in Seq(Message), Handled(w, v, answer, events),
           Answers(w, answer, events)
    PROVE  Employed(v, begun) /\ Proceeds(w, v, answer, events)
<1> DEFINE f == w.job[1].frame
<1>0. /\ w.item <= Len(Content[f]) /\ Cargo(events, f, FALSE)
      /\ answer = {} \/ \E x \in Outcome : answer = {<<<<f, w.item>>, x>>}
      /\ Content[f][w.item].kind = "request" => answer # {}
  BY DEF Answers
<1>1. InHandOf(w) /\ InHandOf(v) /\ Holds(w) /\ Holds(v) /\ ~Leaving(w) /\ ~Leaving(v)
  BY DEF InHandOf, Holds, Leaving, Handled
<1>2. Box(w) = w.outbox /\ Box(v) = w.outbox \o events
  BY DEF Box, Handled
<1>3. Box(w) \in Seq(Message) /\ Cargo(Box(w), f, FALSE) /\ f \in Frames
      /\ RepliesIn(Box(w)) = {} /\ ReleasedIn(Box(w)) = {}
  BY <1>1, Boxes
<1>4. Cargo(Box(v), f, FALSE) /\ Box(v) \in Seq(Message)
  <2>1. FALSE \in BOOLEAN
    OBVIOUS
  <2>2. Cargo(events, f, FALSE)
    BY <1>0
  <2>3. Cargo(Box(w) \o events, f, FALSE)
    BY <1>3, <2>1, <2>2, Loading, Zenon
  <2>4. Box(w) \o events \in Seq(Message)
    BY <1>3
  <2> QED BY <1>2, <2>3, <2>4
<1>5. RepliesIn(Box(v)) = {} /\ ReleasedIn(Box(v)) = {} /\ ChangedIn(Box(v)) = ChangedIn(Box(w)) \cup ChangedIn(events)
  <2>1. RepliesIn(Box(v)) = {} /\ ReleasedIn(Box(v)) = {}
    BY <1>4, <1>3, Loading
  <2> QED BY <2>1, <1>2, <1>3, Parts
<1>6. v.job = w.job /\ v.item = w.item + 1 /\ v.replies = w.replies \cup answer /\ w.item \in Nat
  BY DEF Handled, Workers
<1>7. Working(v, begun)
  <2>1. Working(w, begun)
    BY <1>1 DEF Employed
  <2>2. w.item \in 1..Len(Content[f]) /\ v.item \in 1..(Len(Content[f]) + 1) /\ Len(Content[f]) \in Nat
    <3>1. w.item \in 1..(Len(Content[f]) + 1)
      BY <2>1 DEF Working
    <3>2. Len(Content[f]) \in Nat
      BY <1>3, Items
    <3>3. w.item <= Len(Content[f])
      BY <1>0
    <3> QED BY <1>6, <3>1, <3>2, <3>3
  <2>3. \A r \in answer : r[1] = <<f, w.item>> /\ r[1][1] = f /\ r[1][2] = w.item
    BY <1>0
  <2>4. \A r \in w.replies : r[1][1] = f /\ r[1][2] < w.item /\ r[1][2] \in Nat
    BY <2>1 DEF Working, About, Workers, Answer
  <2>5. About(v.replies, f)
    BY <2>3, <2>4, <1>6 DEF About
  <2>6. Single(v.replies)
    <3>1. \A r \in answer, q \in answer : r = q
      BY <1>0
    <3>2. \A r \in answer, q \in w.replies : r[1] # q[1]
      BY <2>3, <2>4, <1>6
    <3>3. Single(w.replies)
      BY <2>1 DEF Working
    <3> QED BY <3>1, <3>2, <3>3, <1>6 DEF Single
  <2>7. \A r \in v.replies : r[1][2] < v.item
    BY <2>3, <2>4, <1>6
  <2>8. \A o \in RequestsOf(f) : o[2] < v.item => Has(v.replies, o)
    <3> SUFFICES ASSUME NEW o \in RequestsOf(f), o[2] < v.item PROVE Has(v.replies, o)
      OBVIOUS
    <3>1. o = <<f, o[2]>> /\ o[2] \in Nat /\ Content[f][o[2]].kind = "request"
      BY <1>3, Items
    <3>2. CASE o[2] < w.item
      BY <3>2, <2>1, <1>6 DEF Working, Has
    <3>3. CASE o[2] = w.item
      BY <3>1, <3>3, <1>0, <1>6, <2>3 DEF Has
    <3> QED BY <3>1, <3>2, <3>3, <1>6
  <2>9. \A o \in RequestsOf(f) \cap begun : o[2] < v.item
    <3>1. \A o \in RequestsOf(f) : o[2] \in Nat
      BY <1>3, Items
    <3> QED BY <3>1, <2>1, <1>6 DEF Working
  <2>10. v.pc \notin {"execute", "late"} /\ v.job[1].frame = f
    BY <1>6 DEF Handled
  <2> QED BY <2>2, <2>5, <2>6, <2>7, <2>8, <2>9, <2>10 DEF Working
<1>8. Employed(v, begun)
  <2>1. Len(v.job) = 1 /\ Faithful(v.job[1]) /\ v.job[1].frame = f
    BY <1>1, <1>6 DEF Employed
  <2>2. Leaving(v) = FALSE
    BY <1>1 DEF Leaving
  <2>3. v.pc \in {"item", "send"} /\ (v.pc = "send" => v.outbox # <<>>)
    BY DEF Handled
  <2> QED BY <1>4, <1>7, <2>1, <2>2, <2>3 DEF Employed
<1>9. WorkerFrames(v) = WorkerFrames(w) /\ Engaged(v) = Engaged(w) /\ Inside(v) = Inside(w) \cup answer
  BY <1>1, <1>6 DEF WorkerFrames, Engaged, Inside
<1> QED BY <1>1, <1>3, <1>5, <1>8, <1>9 DEF Proceeds, WorkerOwes, WorkerSays, WorkerTells

\* A request is executed: its outcome and its events are at hand.
Executed(w, v, outcome, events) ==
    v = [w EXCEPT !.pc = "late", !.outcome = outcome, !.outbox = @ \o events]

\* The return of a method keeps the answers given so far and adds its events.
LEMMA Executing ==
    ASSUME NEW w \in Workers, NEW begun, Employed(w, begun), w.pc = "execute",
           NEW v, NEW outcome \in {"ok", "error"}, NEW events \in Seq(Message),
           Executed(w, v, outcome, events), Cargo(events, w.job[1].frame, FALSE)
    PROVE  /\ v \in Workers /\ Employed(v, begun) /\ Proceeds(w, v, {}, events)
           /\ v.pc = "late" /\ v.outcome = outcome /\ v.job = w.job /\ v.item = w.item
           /\ v.replies = w.replies
<1> DEFINE f == w.job[1].frame
<1>1. w.outbox \in Seq(Message) /\ w.outbox \o events \in Seq(Message)
  BY DEF Workers
<1>2. /\ v \in Workers /\ v.pc = "late" /\ v.outcome = outcome /\ v.job = w.job /\ v.item = w.item
      /\ v.replies = w.replies /\ v.outbox = w.outbox \o events
  BY <1>1 DEF Executed, Workers
<1>3. InHandOf(w) /\ InHandOf(v) /\ Holds(w) /\ Holds(v) /\ ~Leaving(w) /\ ~Leaving(v)
  BY <1>2 DEF InHandOf, Holds, Leaving
<1>4. Box(w) = w.outbox /\ Box(v) = w.outbox \o events
  BY <1>2 DEF Box
<1>5. Box(w) \in Seq(Message) /\ Cargo(Box(w), f, FALSE) /\ f \in Frames
      /\ RepliesIn(Box(w)) = {} /\ ReleasedIn(Box(w)) = {}
  BY <1>3, Boxes
<1>6. Cargo(Box(v), f, FALSE) /\ Box(v) \in Seq(Message)
  <2>1. FALSE \in BOOLEAN
    OBVIOUS
  <2>2. Cargo(events, f, FALSE)
    OBVIOUS
  <2>3. Cargo(Box(w) \o events, f, FALSE)
    BY <1>5, <2>1, <2>2, Loading, Zenon
  <2>4. Box(w) \o events \in Seq(Message)
    BY <1>5
  <2> QED BY <1>4, <2>3, <2>4
<1>7. RepliesIn(Box(v)) = {} /\ ReleasedIn(Box(v)) = {} /\ ChangedIn(Box(v)) = ChangedIn(Box(w)) \cup ChangedIn(events)
  <2>1. RepliesIn(Box(v)) = {} /\ ReleasedIn(Box(v)) = {}
    BY <1>6, <1>5, Loading
  <2> QED BY <2>1, <1>4, <1>5, Parts
<1>8. Working(v, begun)
  <2>1. Working(w, begun)
    BY <1>3 DEF Employed
  <2> QED BY <2>1, <1>2 DEF Working
<1>9. Employed(v, begun)
  <2>1. Len(v.job) = 1 /\ Faithful(v.job[1]) /\ v.job[1].frame = f
    BY <1>2, <1>3 DEF Employed
  <2>2. Leaving(v) = FALSE
    BY <1>3 DEF Leaving
  <2> QED BY <1>2, <1>6, <1>8, <2>1, <2>2 DEF Employed
<1>10. WorkerFrames(v) = WorkerFrames(w) /\ Engaged(v) = Engaged(w) /\ Inside(v) = Inside(w)
  BY <1>2, <1>3 DEF WorkerFrames, Engaged, Inside
<1> QED BY <1>2, <1>3, <1>5, <1>7, <1>9, <1>10 DEF Proceeds, WorkerOwes, WorkerSays, WorkerTells

\* A job is over: its result follows its events.
Finished(w, v, result) == v = SendAll([w EXCEPT !.outbox = w.outbox \o result], "finish")

\* The result of a job is one answer to its frame, or nothing.
Results(w, result) ==
    result = <<>> \/ /\ Len(result) = 1 /\ Made(result[1], w.job[1].frame)
                     /\ result[1].release = RequestsOf(w.job[1].frame)

\* Nothing is in hand, and what was is in the result.
Concludes(w, v, result) ==
    /\ InHandOf(w) /\ ~InHandOf(v)
    /\ v.pc \in {"send", "finish"} /\ (v.pc = "send" => v.next = "finish")
    /\ v.job = w.job
    /\ WorkerFrames(v) \subseteq WorkerFrames(w) /\ Engaged(v) = {} /\ Inside(v) = {}
    /\ WorkerOwes(v) = ReleasedIn(result) /\ WorkerSays(v) = RepliesIn(result)
    /\ WorkerSays(w) = {} /\ WorkerTells(v) = WorkerTells(w)
    /\ result # <<>> => WorkerFrames(v) = WorkerFrames(w)
    /\ Box(v) = w.outbox \o result
    /\ Box(v) # <<>> => Leaving(v) /\ Box(v)[Len(Box(v))].replies = RepliesIn(result)

\* The end of a job hands over all it has.
LEMMA Finishing ==
    ASSUME NEW w \in Workers, NEW begun, Employed(w, begun), w.pc = "item",
           NEW v, NEW result \in Seq(Message), Finished(w, v, result), Results(w, result)
    PROVE  v \in Workers /\ Employed(v, begun) /\ Concludes(w, v, result)
<1> DEFINE f == w.job[1].frame
           u == [w EXCEPT !.outbox = w.outbox \o result]
<1>1. w.outbox \in Seq(Message) /\ w.outbox \o result \in Seq(Message)
  BY DEF Workers
<1>2. /\ u \in Workers /\ u.outbox = w.outbox \o result /\ u.job = w.job /\ u.item = w.item /\ u.pc = w.pc
      /\ u.replies = w.replies /\ u.outcome = w.outcome
  BY <1>1 DEF Workers
<1>3. /\ v \in Workers /\ v.next = "finish" /\ v.outbox = w.outbox \o result /\ v.job = w.job
      /\ v.pc = IF w.outbox \o result = <<>> THEN "finish" ELSE "send"
  <2>1. v = SendAll(u, "finish")
    BY DEF Finished
  <2> HIDE DEF u
  <2> QED BY <1>2, <2>1, Sending
<1>4. InHandOf(w) /\ ~InHandOf(v) /\ Holds(w) /\ ~Leaving(w)
  BY <1>3 DEF InHandOf, Holds, Leaving
<1>5. Box(w) = w.outbox /\ Box(v) = w.outbox \o result
  BY <1>3 DEF Box
<1>6. Cargo(w.outbox, f, FALSE) /\ f \in Frames /\ RepliesIn(w.outbox) = {} /\ ReleasedIn(w.outbox) = {}
  BY <1>4, <1>5, Boxes
<1>7. Box(v) # <<>> <=> Leaving(v)
  BY <1>3, <1>5 DEF Leaving
<1>8. Cargo(result, f, TRUE)
  <2>1. result = <<>> => Len(result) = 0
    OBVIOUS
  <2>2. \A k \in 1..1 : k = 1
    OBVIOUS
  <2> QED BY <2>1, <2>2 DEF Results, Cargo
<1>9. Cargo(Box(v), f, TRUE)
  BY <1>1, <1>5, <1>6, <1>8, Loading
<1>10. Cargo(Box(v), f, Leaving(v))
  <2>1. CASE Leaving(v)
    <3>1. Leaving(v) = TRUE
      BY <2>1 DEF Leaving
    <3> QED BY <1>9, <3>1
  <2>2. CASE ~Leaving(v)
    <3>1. Len(Box(v)) = 0
      BY <2>2, <1>7
    <3> QED BY <3>1 DEF Cargo
  <2> QED BY <2>1, <2>2
<1>11. Employed(v, begun)
  <2>1. Len(v.job) = 1 /\ Faithful(v.job[1]) /\ v.job[1].frame = f
    BY <1>3, <1>4 DEF Employed
  <2>2. /\ v.pc \in {"send", "finish"} /\ (v.pc = "send" => v.outbox # <<>>)
        /\ (v.pc = "finish" => v.outbox = <<>>)
    BY <1>3
  <2> QED BY <1>4, <1>10, <2>1, <2>2 DEF Employed
<1>12. /\ RepliesIn(Box(v)) = RepliesIn(result) /\ ReleasedIn(Box(v)) = ReleasedIn(result)
       /\ ChangedIn(Box(v)) = ChangedIn(Box(w)) \cup ChangedIn(result)
  <2>1. /\ RepliesIn(w.outbox \o result) = RepliesIn(w.outbox) \cup RepliesIn(result)
        /\ ReleasedIn(w.outbox \o result) = ReleasedIn(w.outbox) \cup ReleasedIn(result)
        /\ ChangedIn(w.outbox \o result) = ChangedIn(w.outbox) \cup ChangedIn(result)
    BY <1>1, Parts
  <2> QED BY <1>5, <1>6, <2>1
<1>13. ChangedIn(result) = {} /\ (result # <<>> => RepliesIn(result) = result[1].replies)
  <2>1. CASE result = <<>>
    BY <2>1, Parts
  <2>2. CASE result # <<>>
    <3>1. ToSet(result) = {result[1]}
      <4>1. ToSet(result) = {result[k] : k \in 1..Len(result)} /\ Len(result) = 1
        BY <2>2, Elements DEF Results
      <4> QED BY <4>1
    <3>2. result[1].changed = {}
      BY <2>2 DEF Results, Made
    <3> QED BY <3>1, <3>2 DEF ChangedIn, RepliesIn
  <2> QED BY <2>1, <2>2
<1>14. ASSUME Box(v) # <<>>
       PROVE  Box(v)[Len(Box(v))].replies = RepliesIn(result)
  <2>1. CASE result = <<>>
    <3>1. Box(v) = w.outbox /\ Len(w.outbox) \in 1..Len(w.outbox)
      BY <1>1, <1>5, <1>14, <2>1
    <3>2. Plain(w.outbox[Len(w.outbox)])
      BY <3>1, <1>6 DEF Cargo
    <3> QED BY <3>1, <3>2, <2>1, Parts DEF Plain
  <2>2. CASE result # <<>>
    <3>1. Len(Box(v)) = Len(w.outbox) + 1 /\ Box(v)[Len(w.outbox) + 1] = result[1]
      <4>1. Len(result) = 1 /\ Len(w.outbox) \in Nat
        BY <1>1, <2>2 DEF Results
      <4>2. /\ Len(w.outbox \o result) = Len(w.outbox) + Len(result)
            /\ \A k \in 1..Len(result) : (w.outbox \o result)[Len(w.outbox) + k] = result[k]
        BY <1>1
      <4> QED BY <1>5, <4>1, <4>2
    <3> QED BY <3>1, <1>13, <2>2
  <2> QED BY <2>1, <2>2
<1>15. /\ WorkerFrames(v) \subseteq WorkerFrames(w) /\ Engaged(v) = {} /\ Inside(v) = {}
  BY <1>3, <1>4 DEF WorkerFrames, Engaged, Inside
<1>16. result # <<>> => WorkerFrames(v) = WorkerFrames(w)
  <2>1. result # <<>> => Box(v) # <<>>
    BY <1>1, <1>5
  <2> QED BY <1>3, <1>4, <1>7, <2>1 DEF WorkerFrames, Holds
<1>17. ReleasedIn(Box(w)) = {} /\ RepliesIn(Box(w)) = {}
  BY <1>5, <1>6
<1> QED BY <1>3, <1>4, <1>5, <1>7, <1>11, <1>12, <1>13, <1>14, <1>15, <1>16, <1>17
        DEF Concludes, WorkerOwes, WorkerSays, WorkerTells

\* A message leaves the box, and with the result the frame.
Detaches(w, v, m) ==
    /\ v.pc = "count" /\ v.next = w.next
    /\ InHandOf(v) = InHandOf(w) /\ Leaving(v) = Leaving(w)
    /\ m \in Message /\ Sane(m)
    /\ v.job = w.job /\ v.item = w.item /\ v.replies = w.replies
    /\ Box(w) = w.outbox /\ Box(v) = Tail(w.outbox) /\ Box(w) # <<>>
    /\ WorkerFrames(v) \subseteq WorkerFrames(w)
    /\ FramesOf(m.replies) \subseteq WorkerFrames(w) \ WorkerFrames(v)
    /\ Engaged(v) = Engaged(w) /\ Inside(v) = Inside(w)
    /\ WorkerOwes(w) = WorkerOwes(v) \cup m.release
    /\ WorkerSays(w) = WorkerSays(v) \cup m.replies
    /\ WorkerTells(w) = WorkerTells(v) \cup m.changed
    /\ Plain(m) \/ (Leaving(w) /\ Made(m, w.job[1].frame) /\ Box(v) = <<>>)
    /\ Box(v) # <<>> => Box(v)[Len(Box(v))] = Box(w)[Len(Box(w))]
    /\ Box(v) = <<>> => m = Box(w)[Len(Box(w))]

\* Handing over the first message moves what it holds out of the box.
LEMMA Shipping ==
    ASSUME NEW w \in Workers, NEW begun, Employed(w, begun), w.pc = "send",
           NEW v, v = [w EXCEPT !.pc = "count"]
    PROVE  v \in Workers /\ Employed(v, begun) /\ Detaches(w, v, Head(w.outbox))
<1> DEFINE f == w.job[1].frame
           m == Head(w.outbox)
<1>1. /\ v \in Workers /\ v.pc = "count" /\ v.next = w.next /\ v.outbox = w.outbox
      /\ v.job = w.job /\ v.item = w.item /\ v.replies = w.replies /\ v.outcome = w.outcome
  BY DEF Workers
<1>2. w.outbox \in Seq(Message) /\ w.outbox # <<>>
  BY DEF Workers, Employed
<1>3. Box(w) = w.outbox /\ Box(v) = Tail(w.outbox)
  BY <1>1 DEF Box
<1>4. (InHandOf(v) <=> InHandOf(w)) /\ (Leaving(v) <=> Leaving(w)) /\ (InHandOf(w) => ~Leaving(w))
  BY <1>1 DEF InHandOf, Leaving
<1>5. InHandOf(v) \in BOOLEAN /\ InHandOf(w) \in BOOLEAN /\ Leaving(v) \in BOOLEAN /\ Leaving(w) \in BOOLEAN
  BY DEF InHandOf, Leaving
<1>6. InHandOf(v) = InHandOf(w) /\ Leaving(v) = Leaving(w)
  BY <1>4, <1>5
<1>7. Cargo(w.outbox, f, Leaving(w))
  BY <1>3 DEF Employed
<1>8. /\ ToSet(w.outbox) = {m} \cup ToSet(Tail(w.outbox)) /\ m \in Message
      /\ Tail(w.outbox) # <<>> => Tail(w.outbox)[Len(Tail(w.outbox))] = w.outbox[Len(w.outbox)]
      /\ Tail(w.outbox) = <<>> => m = w.outbox[Len(w.outbox)]
      /\ Tail(w.outbox) \in Seq(Message)
  BY <1>2, Elements
<1>9. \A k \in 1..Len(w.outbox) :
        Plain(w.outbox[k]) \/ (Leaving(w) /\ k = Len(w.outbox) /\ Made(w.outbox[k], f)
                               /\ w.outbox[k].release = RequestsOf(f))
  BY <1>7 DEF Cargo
<1>10. Plain(m) \/ (Leaving(w) /\ Made(m, f) /\ Tail(w.outbox) = <<>>)
  <2>1. m = w.outbox[1] /\ 1 \in 1..Len(w.outbox) /\ (1 = Len(w.outbox) => Tail(w.outbox) = <<>>)
    <3>1. /\ Len(w.outbox) \in Nat /\ Len(w.outbox) >= 1
      BY <1>2
    <3>2. m = w.outbox[1] /\ (Tail(w.outbox) = <<>> <=> Len(w.outbox) = 1)
      BY <1>2, Elements
    <3> QED BY <3>1, <3>2
  <2> QED BY <2>1, <1>9
<1>11. Holds(w)
       => f \in Frames
  BY Boxes
<1>12. Sane(m)
  <2>1. Leaving(w) => Holds(w)
    BY <1>2, <1>3 DEF Holds
  <2> QED BY <1>10, <1>11, <2>1 DEF Sane
<1>13. Cargo(Tail(w.outbox), f, Leaving(w))
  <2>1. /\ Len(Tail(w.outbox)) = Len(w.outbox) - 1 /\ Len(w.outbox) \in Nat /\ Len(w.outbox) >= 1
        /\ \A k \in 1..Len(Tail(w.outbox)) : /\ Tail(w.outbox)[k] = w.outbox[k + 1]
                                             /\ k + 1 \in 1..Len(w.outbox)
                                             /\ k + 1 = Len(w.outbox) => k = Len(Tail(w.outbox))
    BY <1>2
  <2> QED BY <2>1, <1>9 DEF Cargo
<1>14. Employed(v, begun)
  <2>1. Holds(v) => Holds(w)
    BY <1>2, <1>3, <1>4 DEF Holds
  <2>2. Holds(v) => Len(v.job) = 1 /\ Faithful(v.job[1])
    BY <2>1, <1>1 DEF Employed
  <2>3. InHandOf(v) => Working(v, begun)
    <3>1. InHandOf(v) => Working(w, begun)
      BY <1>4 DEF Employed
    <3> QED BY <3>1, <1>1 DEF Working
  <2>4. Cargo(Box(v), v.job[1].frame, Leaving(v))
    BY <1>1, <1>3, <1>6, <1>13
  <2> QED BY <1>1, <1>2, <2>2, <2>3, <2>4 DEF Employed
<1>15. Engaged(v) = Engaged(w) /\ Inside(v) = Inside(w)
  BY <1>1, <1>4 DEF Engaged, Inside
<1>16. /\ ReleasedIn(Box(w)) = ReleasedIn(Box(v)) \cup m.release
       /\ RepliesIn(Box(w)) = RepliesIn(Box(v)) \cup m.replies
       /\ ChangedIn(Box(w)) = ChangedIn(Box(v)) \cup m.changed
  BY <1>3, <1>8 DEF ReleasedIn, RepliesIn, ChangedIn
<1>17. WorkerFrames(v) \subseteq WorkerFrames(w)
  BY <1>1, <1>2, <1>3, <1>4 DEF WorkerFrames, Holds
<1>18. FramesOf(m.replies) \subseteq WorkerFrames(w) \ WorkerFrames(v)
  <2>1. CASE Plain(m)
    BY <2>1 DEF Plain, FramesOf
  <2>2. CASE Leaving(w) /\ Made(m, f) /\ Tail(w.outbox) = <<>>
    <3>1. WorkerFrames(w) = {f}
      BY <2>2, <1>2, <1>3 DEF WorkerFrames, Holds
    <3>2. WorkerFrames(v) = {}
      BY <2>2, <1>3, <1>4 DEF WorkerFrames, Holds
    <3> QED BY <2>2, <3>1, <3>2 DEF Made, About, FramesOf
  <2> QED BY <2>1, <2>2, <1>10
<1> QED BY <1>1, <1>2, <1>3, <1>6, <1>8, <1>10, <1>12, <1>14, <1>15, <1>16, <1>17, <1>18
        DEF Detaches, WorkerOwes, WorkerSays, WorkerTells

\* A message that left is counted, and the worker goes on.
Advances(w, v) ==
    /\ v.next = w.next /\ v.pc = IF Box(w) = <<>> THEN w.next ELSE "send"
    /\ v.job = w.job /\ v.item = w.item /\ v.replies = w.replies
    /\ InHandOf(v) = InHandOf(w) /\ Box(v) = Box(w)
    /\ Box(v) # <<>> => Leaving(v) = Leaving(w)
    /\ Box(v) = <<>> => ~Leaving(v)
    /\ WorkerFrames(v) = WorkerFrames(w)
    /\ Engaged(v) = Engaged(w) /\ Inside(v) = Inside(w)
    /\ WorkerOwes(w) = WorkerOwes(v) /\ WorkerSays(w) = WorkerSays(v)
    /\ WorkerTells(w) = WorkerTells(v)

\* Counting it changes nothing of what is still to be sent.
LEMMA Counting ==
    ASSUME NEW w \in Workers, NEW begun, Employed(w, begun), w.pc = "count",
           NEW v, v = SendAll([w EXCEPT !.outbox = Tail(@)], w.next)
    PROVE  v \in Workers /\ Employed(v, begun) /\ Advances(w, v)
<1> DEFINE f == w.job[1].frame
           u == [w EXCEPT !.outbox = Tail(@)]
<1>1. w.outbox \in Seq(Message) /\ w.outbox # <<>> /\ Tail(w.outbox) \in Seq(Message)
  BY DEF Workers, Employed
<1>2. /\ u \in Workers /\ u.outbox = Tail(w.outbox) /\ u.job = w.job /\ u.item = w.item
      /\ u.replies = w.replies /\ u.outcome = w.outcome /\ w.next \in {"check", "park", "item", "finish"}
  BY <1>1 DEF Workers
<1>3. Box(w) = Tail(w.outbox)
  BY DEF Box
<1>4. /\ v \in Workers /\ v.next = w.next /\ v.outbox = Box(w) /\ v.job = w.job /\ v.item = w.item
      /\ v.replies = w.replies
      /\ v.pc = IF Box(w) = <<>> THEN w.next ELSE "send"
  <2>1. v = SendAll(u, w.next)
    OBVIOUS
  <2> HIDE DEF u
  <2>2. LET s == SendAll(u, w.next)
        IN  /\ s \in Workers /\ s.next = w.next /\ s.outbox = u.outbox
            /\ s.pc = IF u.outbox = <<>> THEN w.next ELSE "send"
            /\ s.job = u.job /\ s.item = u.item /\ s.replies = u.replies
    BY <1>2 DEF SendAll, Workers
  <2> QED BY <1>2, <1>3, <2>1, <2>2
<1>5. Box(v) = Box(w)
  BY <1>2, <1>4 DEF Box
<1>6. /\ InHandOf(v) <=> InHandOf(w)
      /\ Box(w) # <<>> => (Leaving(v) <=> Leaving(w))
      /\ Box(w) = <<>> => ~Leaving(v)
  BY <1>2, <1>4 DEF InHandOf, Leaving
<1>7. InHandOf(v) \in BOOLEAN /\ InHandOf(w) \in BOOLEAN /\ Leaving(v) \in BOOLEAN /\ Leaving(w) \in BOOLEAN
  BY DEF InHandOf, Leaving
<1>8. InHandOf(v) = InHandOf(w) /\ (Box(w) # <<>> => Leaving(v) = Leaving(w))
  BY <1>6, <1>7
<1>9. Holds(v) <=> Holds(w)
  BY <1>5, <1>6 DEF Holds
<1>10. Employed(v, begun)
  <2>1. Holds(v) => Len(v.job) = 1 /\ Faithful(v.job[1])
    BY <1>4, <1>9 DEF Employed
  <2>2. InHandOf(v) => Working(v, begun)
    <3>1. InHandOf(v) => Working(w, begun) /\ v.pc \notin {"execute", "late"}
      BY <1>2, <1>4, <1>6 DEF Employed
    <3> QED BY <3>1, <1>4 DEF Working
  <2>3. Cargo(Box(v), v.job[1].frame, Leaving(v))
    <3>1. Box(w) = <<>> => Len(Box(v)) = 0
      BY <1>5
    <3>2. Cargo(Box(w), f, Leaving(w))
      BY DEF Employed
    <3>3. Box(w) = <<>> => Cargo(Box(v), v.job[1].frame, Leaving(v))
      BY <3>1 DEF Cargo
    <3> QED BY <3>2, <3>3, <1>4, <1>5, <1>8
  <2>4. /\ v.pc # "late" /\ v.pc # "count"
        /\ (v.pc \in {"check", "pop", "park", "finish", "flush", "flushpark", "done"} => v.outbox = <<>>)
        /\ (v.pc = "send" => v.outbox # <<>>)
    BY <1>2, <1>4
  <2> QED BY <2>1, <2>2, <2>3, <2>4 DEF Employed
<1>11. WorkerFrames(v) = WorkerFrames(w) /\ Engaged(v) = Engaged(w) /\ Inside(v) = Inside(w)
  BY <1>4, <1>6, <1>9 DEF WorkerFrames, Engaged, Inside
<1> QED BY <1>4, <1>5, <1>6, <1>8, <1>10, <1>11 DEF Advances, WorkerOwes, WorkerSays, WorkerTells

\* Nobody reads any more, and the box is thrown away.
Abandons(w, v) ==
    /\ v.pc = w.next /\ v.next = w.next
    /\ v.job = w.job /\ v.item = w.item /\ v.replies = w.replies /\ Box(v) = <<>>
    /\ InHandOf(v) = InHandOf(w) /\ ~Leaving(v)
    /\ WorkerFrames(v) \subseteq WorkerFrames(w)
    /\ Engaged(v) = Engaged(w) /\ Inside(v) = Inside(w)
    /\ WorkerOwes(v) \subseteq WorkerOwes(w) /\ WorkerSays(v) = {}

\* Without a reader the box is emptied, and the rest of the worker is kept.
LEMMA Dropping ==
    ASSUME NEW w \in Workers, NEW begun, Employed(w, begun), w.pc = "send",
           NEW v, v = [w EXCEPT !.outbox = <<>>, !.pc = w.next]
    PROVE  v \in Workers /\ Employed(v, begun) /\ Abandons(w, v)
<1>1. /\ v \in Workers /\ v.pc = w.next /\ v.next = w.next /\ v.outbox = <<>> /\ v.outcome = w.outcome
      /\ v.job = w.job /\ v.item = w.item /\ v.replies = w.replies
      /\ w.next \in {"check", "park", "item", "finish"}
  <2>1. <<>> \in Seq(Message)
    OBVIOUS
  <2> QED BY <2>1 DEF Workers
<1>2. (InHandOf(v) <=> InHandOf(w)) /\ ~Leaving(v) /\ Box(v) = <<>>
  BY <1>1 DEF InHandOf, Leaving, Box
<1>3. InHandOf(v) = InHandOf(w)
  BY <1>2 DEF InHandOf
<1>4. Holds(v) => Holds(w) /\ InHandOf(v)
  BY <1>2 DEF Holds
<1>5. Employed(v, begun)
  <2>1. Holds(v) => Len(v.job) = 1 /\ Faithful(v.job[1])
    BY <1>1, <1>4 DEF Employed
  <2>2. InHandOf(v) => Working(v, begun)
    <3>1. InHandOf(v) => Working(w, begun)
      BY <1>2 DEF Employed
    <3> QED BY <3>1, <1>1 DEF Working
  <2>3. Cargo(Box(v), v.job[1].frame, Leaving(v))
    <3>1. Len(Box(v)) = 0
      BY <1>2
    <3> QED BY <3>1 DEF Cargo
  <2> QED BY <1>1, <2>1, <2>2, <2>3 DEF Employed
<1>6. WorkerFrames(v) \subseteq WorkerFrames(w) /\ Engaged(v) = Engaged(w) /\ Inside(v) = Inside(w)
  BY <1>1, <1>2, <1>4 DEF WorkerFrames, Engaged, Inside
<1>7. ReleasedIn(Box(v)) = {} /\ RepliesIn(Box(v)) = {}
  <2>1. <<>> \in Seq(Message)
    OBVIOUS
  <2> QED BY <1>2, <2>1, Parts
<1> QED BY <1>1, <1>2, <1>3, <1>5, <1>6, <1>7 DEF Abandons, WorkerOwes, WorkerSays

\* With nothing in hand, and nothing to answer.
Rested(v) ==
    /\ v \in Workers
    /\ v.pc \in {"check", "pop", "idle", "park", "send", "finish", "flush", "flushpark", "done"}
    /\ v.pc = "send" => v.next \in {"check", "park"} /\ v.outbox # <<>>
    /\ v.pc \notin {"idle", "send"} => v.outbox = <<>>
    /\ Cargo(v.outbox, v.job[1].frame, FALSE)

\* There is no job, and nothing that anybody waits for.
Jobless(v) ==
    /\ ~InHandOf(v) /\ ~Leaving(v) /\ ~Holds(v)
    /\ WorkerFrames(v) = {} /\ Engaged(v) = {} /\ Inside(v) = {}
    /\ WorkerOwes(v) = {} /\ WorkerSays(v) = {}

\* A worker at rest has no job.
LEMMA Resting ==
    ASSUME NEW v, NEW begun, Rested(v)
    PROVE  Employed(v, begun) /\ Jobless(v)
<1> USE DEF Rested
<1>1. ~InHandOf(v) /\ ~Leaving(v) /\ ~Holds(v) /\ Box(v) = v.outbox /\ v.pc # "late" /\ v.pc # "count"
  BY DEF InHandOf, Leaving, Holds, Box
<1>2. Leaving(v) = FALSE
  BY <1>1 DEF Leaving
<1>3. Employed(v, begun)
  BY <1>1, <1>2 DEF Employed
<1>4. RepliesIn(Box(v)) = {} /\ ReleasedIn(Box(v)) = {}
  BY <1>1, <1>3, Boxes
<1> QED BY <1>1, <1>3, <1>4 DEF Jobless, WorkerFrames, Engaged, Inside, WorkerOwes, WorkerSays

-----------------------------------------------------------------------------
(* The invariant.                                                           *)

\* States of the reader and of the writer.
Readers == [pc : {"check", "read", "enqueue", "wake", "reply", "count", "done"},
            frame : SUBSET Frames, reply : SUBSET Answer]
Writers == [pc : {"receive", "write", "release", "count", "done"}, message : Seq(Message)]

\* Where a frame is on its way: with the reader, in the queue, with the worker
\* (WorkerFrames), in the channel (FramesIn), with the writer, or written.
ReaderFrames(r) == IF r.pc \in {"enqueue", "reply"} THEN r.frame ELSE {}
QueueFrames(q) == {q[j].frame : j \in 1..Len(q)}
WriterFrames(o) == IF o.pc = "write" THEN FramesOf(o.message[1].replies) ELSE {}

\* Replies that are still to be written, and what their frames release.
ReaderSays(r) == IF r.pc = "reply" THEN r.reply ELSE {}
WriterSays(o) == IF o.pc = "write" THEN o.message[1].replies ELSE {}
WriterTells(o) == IF o.pc = "write" THEN o.message[1].changed ELSE {}
WriterOwes(o) == IF o.pc \in {"write", "release"} THEN o.message[1].release ELSE {}
QueueOwes(q) == UNION {RequestsOf(f) : f \in QueueFrames(q)}

\* Types.
IShape ==
    /\ jobs \in Seq(Job) /\ pending \subseteq Requests /\ cancelled \subseteq pending
    /\ bytes \in Int /\ overflow \in BOOLEAN
    /\ stop \in {Running, 0, 1, 2} /\ exit \in {Running, 0, 1, 2}
    /\ ready \in BOOLEAN /\ token \in BOOLEAN
    /\ published \in Nat /\ written \in Nat
    /\ reader \in Readers /\ worker \in Workers /\ writer \in Writers
    /\ channel \in Seq(Message) /\ Len(channel) <= 1
    /\ server \in [initialized : BOOLEAN, closing : BOOLEAN, session : BOOLEAN,
                   refresh : BOOLEAN, index : 0..Descriptors]
    /\ sent \subseteq Frames /\ started \subseteq Requests /\ applied \subseteq started
    /\ doomed \subseteq Requests /\ announced \subseteq Requests
    /\ stale \in BOOLEAN /\ overrun \in Nat

\* The worker holds what its step requires.
IWorker == Employed(worker, started)

\* The reader has one frame, and its reply to one it refuses.
IReader ==
    /\ reader.pc \in {"enqueue", "wake", "reply", "count"} => \E f \in Frames : reader.frame = {f}
    /\ reader.pc = "reply" =>
        /\ reader.reply # {} /\ Single(reader.reply)
        /\ \A r \in reader.reply : r[1][1] \in reader.frame /\ r[2] \in {"limit", "invalid"}

\* The channel holds events and answers, and the writer has one message.
IWriter ==
    /\ \A m \in ToSet(channel) : Sane(m)
    /\ writer.pc \in {"write", "release", "count"} => Len(writer.message) = 1 /\ Sane(writer.message[1])
    /\ writer.pc = "done" => stop # Running

\* No frame is at two places.
Apart(r, q, w, c, o, d) ==
    /\ r \cap (q \cup w \cup c \cup o \cup d) = {}
    /\ q \cap (w \cup c \cup o \cup d) = {}
    /\ w \cap (c \cup o \cup d) = {}
    /\ c \cap (o \cup d) = {}
    /\ o \cap d = {}

\* All frames that are somewhere.
Places(r, q, w, c, o, d) == r \cup q \cup w \cup c \cup o \cup d

\* A frame that was read is at one place at a time, in one job, and what was
\* begun has left the queue.  Nothing is answered twice.
IPlaces ==
    /\ Apart(ReaderFrames(reader), QueueFrames(jobs), WorkerFrames(worker), FramesIn(channel),
             WriterFrames(writer), FramesOf(delivered))
    /\ Places(ReaderFrames(reader), QueueFrames(jobs), WorkerFrames(worker), FramesIn(channel),
              WriterFrames(writer), FramesOf(delivered)) \subseteq sent
    /\ \A i, j \in 1..Len(jobs) : jobs[i].frame = jobs[j].frame => i = j
    /\ \A j \in 1..Len(jobs) : Faithful(jobs[j])
    /\ writer.pc = "release" => FramesOf(writer.message[1].replies) \subseteq FramesOf(delivered)
    /\ \A o \in started : o[1] \in sent \ (ReaderFrames(reader) \cup QueueFrames(jobs))
    /\ Single(delivered) /\ delivered \subseteq Answer

\* What the queue is charged for: every item of every job.
Charged(q) == UNION {{j} \X DOMAIN q[j].items : j \in DOMAIN q}

\* The bytes are those of the queued jobs, and both limits hold.
ILimits ==
    /\ IsFiniteSet(Charged(jobs)) /\ bytes = Cardinality(Charged(jobs)) /\ bytes \in 0..MaxBytes
    /\ IsFiniteSet(pending) /\ Cardinality(pending) <= MaxPending /\ Len(jobs) <= MaxPending

\* What the queue is charged for is what somebody still has to release.
Owed == QueueOwes(jobs) \cup WorkerOwes(worker) \cup ReleasedIn(channel) \cup WriterOwes(writer)
IPending ==
    /\ Owed \subseteq pending
    /\ stop = Running /\ exit = Running => pending \subseteq Owed
    /\ \A o, p \in pending : Id(o) = Id(p) => o = p

\* A request that was cancelled in time is marked for as long as it could begin.
IDoomed ==
    \A o \in doomed : /\ o \notin started /\ o[1] \in sent
                      /\ reader.pc = "enqueue" => o[1] \notin reader.frame
                      /\ o \in QueueOwes(jobs) \cup Engaged(worker) => o \in cancelled

\* Replies outside the job in hand.
Outside == WorkerSays(worker) \cup RepliesIn(channel) \cup WriterSays(writer)
             \cup ReaderSays(reader) \cup delivered

\* Who sees initialize answered finds the server initialized.
Welcomes(r) == r[2] = "ok" /\ ItemAt(r[1]).method = "initialize"
IReady ==
    /\ ready => server.initialized
    /\ \A r \in Inside(worker) : Welcomes(r) => server.initialized
    /\ \A r \in Outside : Welcomes(r) => ready
    /\ worker.pc = "late" /\ Welcomes(<<Current, worker.outcome>>) => server.initialized

\* An effect is only ever hidden by a cancellation in the constructor.
Hidden(r) == r[2] = "cancelled" /\ r[1] \in applied
IApplied ==
    /\ \A o \in applied : ItemAt(o).method \in CommitsState \cup {"query/constructorOpen"}
    /\ \A r \in Inside(worker) \cup Outside :
         Hidden(r) => ItemAt(r[1]).method = "query/constructorOpen"

\* The event of a refresh is ahead of its answer.
Refreshed == {o \in applied : ItemAt(o).method = "metadata/refresh"}
IEvents ==
    \A o \in Refreshed :
      /\ o[1] \in FramesOf(delivered) \cup WriterFrames(writer) => o \in announced
      /\ o[1] \in FramesIn(channel) /\ writer.pc # "done" => o \in announced \cup WriterTells(writer)
      /\ o[1] \in WorkerFrames(worker) /\ stop = Running =>
            o \in announced \cup WriterTells(writer) \cup ChangedIn(channel) \cup WorkerTells(worker)

\* After the connection is stopped the worker ends its job and looks up.
IStop ==
    overrun > 0 =>
        /\ overrun = 1 /\ stop # Running
        /\ worker.pc \notin {"pop", "idle", "park"}
        /\ worker.pc \in {"send", "count"} => worker.next \in {"item", "finish"}
        /\ InHandOf(worker) => \/ worker.job[1].frame \in Batches
                               \/ worker.pc \in {"execute", "late"}
                               \/ worker.item > Len(worker.job[1].items)

\* Nothing follows a frame with an exit, and the worker that meets one flushes.
IExit ==
    /\ \A f \in sent : HasExit(f) => reader.frame = {f}
    /\ \A j \in 1..Len(jobs) : HasExit(jobs[j].frame) => j = Len(jobs)
    /\ reader.pc = "count" => reader.frame \cap (QueueFrames(jobs) \cup WorkerFrames(worker)) = {}
    /\ (\E f \in WorkerFrames(worker) : HasExit(f)) \/ exit # Running =>
          jobs = <<>> /\ reader.pc \notin {"enqueue", "reply", "count"} /\ \E f \in sent : HasExit(f)
    /\ exit # Running /\ stop = Running =>
         \/ InHandOf(worker) /\ \E e \in DOMAIN Content[worker.job[1].frame] :
                e < worker.item /\ Exits(Content[worker.job[1].frame][e])
         \/ Leaving(worker) \/ worker.pc \in {"finish", "flush", "flushpark"}
    /\ worker.pc \in {"flush", "flushpark"} => exit # Running
    /\ worker.pc \in {"flush", "flushpark"} /\ stop = Running => worker.target = published

\* What was handed to the writer is what is written and what is in between.
One(b) == IF b THEN 1 ELSE 0
ICount ==
    stop = Running =>
        published + One(reader.pc = "count") + One(worker.pc = "count")
          = written + Len(channel) + One(writer.pc \in {"write", "release", "count"})

\* While the connection lasts a frame that is at no place was answered.
IComplete ==
    stop = Running =>
      /\ reader.pc = "reply" => \A f \in reader.frame : Complete(f, reader.reply)
      /\ Leaving(worker) /\ Box(worker) # <<>> =>
            Complete(worker.job[1].frame, Box(worker)[Len(Box(worker))].replies)
      /\ \A m \in ToSet(channel) : \A f \in FramesOf(m.replies) : Complete(f, m.replies)
      /\ writer.pc = "write" =>
            \A f \in FramesOf(writer.message[1].replies) : Complete(f, writer.message[1].replies)
      /\ \A f \in sent \ Places(ReaderFrames(reader), QueueFrames(jobs), WorkerFrames(worker),
                                FramesIn(channel), WriterFrames(writer), {}) : Complete(f, delivered)

\* The invariant.
IInv ==
    /\ IShape /\ IWorker /\ IReader /\ IWriter /\ IPlaces
    /\ ILimits /\ IPending /\ IDoomed /\ IReady /\ IApplied /\ IEvents
    /\ LossSeen /\ IStop /\ IExit /\ ICount /\ IComplete

-----------------------------------------------------------------------------
(* What the steps of the worker do.                                         *)

\* The item in hand is the one of the frame.
LEMMA InHand0 ==
    ASSUME IShape, IWorker, worker.pc \in {"item", "execute", "late"}
    PROVE  LET f == worker.job[1].frame
           IN  /\ f \in Frames /\ Current = <<f, worker.item>> /\ worker.item \in Nat
               /\ Len(worker.job[1].items) = Len(Content[f]) /\ Len(Content[f]) \in Nat
               /\ worker.item \in 1..(Len(Content[f]) + 1)
               /\ worker.item \in 1..Len(Content[f]) =>
                    /\ CurrentItem \in Entry /\ CurrentItem.kind = Content[f][worker.item].kind
                    /\ Exits(CurrentItem) => Exits(Content[f][worker.item])
                    /\ CurrentItem.kind = "request" =>
                         CurrentItem = ItemAt(Current) /\ Current \in RequestsOf(f)
               /\ worker.pc \in {"execute", "late"} =>
                    /\ worker.item \in 1..Len(Content[f]) /\ CurrentItem = ItemAt(Current)
                    /\ CurrentItem.kind = "request"
                    /\ Current \in RequestsOf(f) \cap started
               /\ worker.pc = "item" => Current \notin started
               /\ InHandOf(worker) /\ Holds(worker) /\ ~Leaving(worker) /\ WorkerFrames(worker) = {f}
<1> DEFINE f == worker.job[1].frame
<1>1. InHandOf(worker) /\ Holds(worker) /\ ~Leaving(worker) /\ WorkerFrames(worker) = {f}
  BY DEF InHandOf, Holds, Leaving, WorkerFrames
<1>2. worker \in Workers /\ Employed(worker, started)
  BY DEF IShape, IWorker
<1>3. /\ worker.job[1] \in Job /\ f \in Frames /\ Faithful(worker.job[1]) /\ Working(worker, started)
      /\ worker.item \in Nat
  BY <1>1, <1>2, Boxes DEF Employed, Workers
<1>4. /\ Len(worker.job[1].items) = Len(Content[f]) /\ Len(Content[f]) \in Nat
      /\ worker.item \in 1..(Len(Content[f]) + 1)
      /\ worker.job[1].items \in Seq(Entry)
  BY <1>3, Items DEF Faithful, Working, Job
<1>5. Current = <<f, worker.item>> /\ CurrentItem = worker.job[1].items[worker.item]
  BY DEF Current, CurrentItem
<1>6. ASSUME worker.item \in 1..Len(Content[f])
      PROVE  /\ CurrentItem \in Entry /\ CurrentItem.kind = Content[f][worker.item].kind
             /\ Exits(CurrentItem) => Exits(Content[f][worker.item])
             /\ CurrentItem.kind = "request" =>
                  CurrentItem = ItemAt(Current) /\ Current \in RequestsOf(f)
  <2>1. /\ CurrentItem \in Entry /\ CurrentItem.kind = Content[f][worker.item].kind
        /\ Exits(CurrentItem) => Exits(Content[f][worker.item])
        /\ Content[f][worker.item].kind = "request" => CurrentItem = Content[f][worker.item]
    <3>1. worker.job[1].items[worker.item] \in Entry
      BY <1>4, <1>6
    <3>2. /\ worker.job[1].items[worker.item].kind = Content[f][worker.item].kind
          /\ Content[f][worker.item].kind = "request" =>
               worker.job[1].items[worker.item] = Content[f][worker.item]
          /\ Exits(worker.job[1].items[worker.item]) => Exits(Content[f][worker.item])
      BY <1>3, <1>6, Zenon DEF Faithful
    <3> QED BY <3>1, <3>2, <1>5
  <2>2. ItemAt(<<f, worker.item>>) = Content[f][worker.item]
    BY <1>3, <1>6, Items
  <2>3. Content[f][worker.item].kind = "request" => <<f, worker.item>> \in RequestsOf(f)
    BY <1>3, <1>6, Items
  <2> QED BY <2>1, <2>2, <2>3, <1>5
<1>7. ASSUME worker.pc \in {"execute", "late"}
      PROVE  /\ worker.item \in 1..Len(Content[f]) /\ CurrentItem = ItemAt(Current)
             /\ CurrentItem.kind = "request"
             /\ Current \in RequestsOf(f) \cap started
  <2>1. <<f, worker.item>> \in RequestsOf(f) \cap started
    BY <1>3, <1>7 DEF Working
  <2>2. worker.item \in 1..Len(Content[f]) /\ Content[f][worker.item].kind = "request"
    BY <2>1, <1>3, Items
  <2> QED BY <2>1, <2>2, <1>5, <1>6
<1>8. ASSUME worker.pc = "item" PROVE Current \notin started
  <2>1. <<f, worker.item>> \in started => <<f, worker.item>> \in RequestsOf(f)
    <3>1. started \subseteq Requests
      BY DEF IShape
    <3>2. <<f, worker.item>> \in Requests => <<f, worker.item>> \in RequestsOf(<<f, worker.item>>[1])
      BY Owns
    <3> QED BY <3>1, <3>2
  <2>2. \A o \in RequestsOf(f) \cap started : o[2] < worker.item
    BY <1>3, <1>8 DEF Working
  <2>3. <<f, worker.item>>[2] = worker.item /\ ~(worker.item < worker.item)
    BY <1>3
  <2> QED BY <1>5, <2>1, <2>2, <2>3
<1> QED BY <1>1, <1>3, <1>4, <1>5, <1>6, <1>7, <1>8

\* The queue keeps its frames, whatever becomes of file notifications.
SameQueue ==
    /\ jobs' \in Seq(Job) /\ Len(jobs') = Len(jobs)
    /\ \A j \in 1..Len(jobs) : /\ jobs'[j].frame = jobs[j].frame
                               /\ DOMAIN jobs'[j].items = DOMAIN jobs[j].items
                               /\ Faithful(jobs[j]) => Faithful(jobs'[j])

\* An item is answered, or has no answer, and the worker turns to the next.
Handles ==
    /\ worker.pc \in {"item", "late"} /\ worker.item \in 1..Len(Content[worker.job[1].frame])
    /\ worker' \in Workers /\ Employed(worker', started')
    /\ InHandOf(worker') /\ worker'.pc \in {"item", "send"}
    /\ worker'.job = worker.job /\ worker'.item = worker.item + 1
    /\ WorkerFrames(worker') = WorkerFrames(worker) /\ Engaged(worker') = Engaged(worker)
    /\ Inside(worker) \subseteq Inside(worker')
    /\ \A r \in Inside(worker') \ Inside(worker) :
          /\ r[1] = Current
          /\ r[2] = "ok" => worker.pc = "late" /\ worker.outcome = "ok"
          /\ r[2] = "cancelled" => Current \notin started \/ ItemAt(Current).method \notin CommitsState
    /\ WorkerOwes(worker') = WorkerOwes(worker) /\ WorkerSays(worker') = {} /\ WorkerSays(worker) = {}
    /\ WorkerTells(worker) \subseteq WorkerTells(worker')
    /\ SameQueue /\ server'.initialized = server.initialized
    /\ UNCHANGED <<pending, cancelled, bytes, overflow, stop, ready, token, output, reader, history>>

\* AnswerItem notes the answer and takes the events along.
LEMMA Noting ==
    ASSUME IShape, worker.pc = "item", NEW answer \in SUBSET Answer, NEW events \in Seq(Message),
           AnswerItem(answer, events)
    PROVE  Handled(worker, worker', answer, events)
<1> DEFINE w == [worker EXCEPT !.replies = @ \cup answer, !.item = @ + 1, !.outbox = @ \o events]
<1>1. worker \in Workers
  BY DEF IShape
<1>2. /\ w \in Workers /\ w.pc = "item" /\ w.job = worker.job /\ w.item = worker.item + 1
      /\ w.replies = worker.replies \cup answer /\ w.outbox = worker.outbox \o events
  <2>1. worker.outbox \o events \in Seq(Message)
    BY <1>1 DEF Workers
  <2>2. worker.item + 1 \in Nat /\ worker.replies \cup answer \in SUBSET Answer
    BY <1>1 DEF Workers
  <2> QED BY <1>1, <2>1, <2>2 DEF Workers
<1>3. worker' = IF Batch THEN SendAll(w, "item") ELSE [w EXCEPT !.pc = "item"]
  BY DEF AnswerItem
<1> HIDE DEF w
<1>4. CASE Batch
  <2>1. LET s == SendAll(w, "item")
        IN  /\ s \in Workers /\ s.next = "item" /\ s.outbox = w.outbox
            /\ s.pc = IF w.outbox = <<>> THEN "item" ELSE "send"
            /\ s.job = w.job /\ s.item = w.item /\ s.replies = w.replies
    BY <1>2, Sending
  <2> QED BY <2>1, <1>2, <1>3, <1>4 DEF Handled
<1>5. CASE ~Batch
  <2>1. LET s == [w EXCEPT !.pc = "item"]
        IN  /\ s \in Workers /\ s.pc = "item" /\ s.outbox = w.outbox
            /\ s.job = w.job /\ s.item = w.item /\ s.replies = w.replies
    BY <1>2 DEF Workers
  <2> QED BY <2>1, <1>2, <1>3, <1>5 DEF Handled
<1> QED BY <1>4, <1>5

\* Events alone, and no event at all.
LEMMA Events ==
    ASSUME NEW f, NEW S \in SUBSET Requests
    PROVE  /\ <<>> \in Seq(Message) /\ Cargo(<<>>, f, FALSE) /\ ChangedIn(<<>>) = {}
           /\ Event(S) \in Message /\ <<Event(S)>> \in Seq(Message)
           /\ Cargo(<<Event(S)>>, f, FALSE) /\ ChangedIn(<<Event(S)>>) = S
<1>1. <<>> \in Seq(Message) /\ Len(<<>>) = 0
  OBVIOUS
<1>2. Cargo(<<>>, f, FALSE) /\ ChangedIn(<<>>) = {}
  <2>1. ToSet(<<>>) = {}
    BY <1>1, Elements
  <2> QED BY <1>1, <2>1 DEF Cargo, ChangedIn
<1>3. Event(S) \in Message /\ Plain(Event(S)) /\ Event(S).changed = S
  BY DEF Event, Message, Plain
<1>4. <<Event(S)>> \in Seq(Message) /\ Len(<<Event(S)>>) = 1 /\ <<Event(S)>>[1] = Event(S)
  BY <1>3
<1>5. Cargo(<<Event(S)>>, f, FALSE)
  <2>1. \A k \in 1..1 : k = 1
    OBVIOUS
  <2> QED BY <1>3, <1>4, <2>1 DEF Cargo
<1>6. ToSet(<<Event(S)>>) = {Event(S)}
  <2>1. ToSet(<<Event(S)>>) = {<<Event(S)>>[k] : k \in 1..Len(<<Event(S)>>)}
    BY <1>4, Elements, Zenon
  <2> QED BY <1>4, <2>1
<1>7. ChangedIn(<<Event(S)>>) = S
  BY <1>3, <1>6 DEF ChangedIn
<1> QED BY <1>1, <1>2, <1>3, <1>4, <1>5, <1>7

\* What the items of a job have in common.
LEMMA HandlesItem ==
    ASSUME IShape, IWorker, worker.pc \in {"item", "late"},
           worker.item \in 1..Len(Content[worker.job[1].frame]),
           NEW answer, NEW events \in Seq(Message), Cargo(events, worker.job[1].frame, FALSE),
           answer = {} \/ \E x \in Outcome : answer = {<<Current, x>>},
           CurrentItem.kind = "request" => answer # {},
           Handled(worker, worker', answer, events),
           \A r \in answer :
               /\ r[2] = "ok" => worker.pc = "late" /\ worker.outcome = "ok"
               /\ r[2] = "cancelled" => Current \notin started \/ ItemAt(Current).method \notin CommitsState,
           SameQueue, server'.initialized = server.initialized,
           UNCHANGED <<pending, cancelled, bytes, overflow, stop, ready, token, output, reader, history>>
    PROVE  Handles
<1> DEFINE f == worker.job[1].frame
<1>1. /\ f \in Frames /\ Current = <<f, worker.item>> /\ worker.item <= Len(Content[f])
      /\ CurrentItem.kind = Content[f][worker.item].kind
  BY InHand0
<1>2. worker \in Workers /\ Employed(worker, started) /\ started' = started
  BY DEF IShape, IWorker, history
<1>3. /\ Employed(worker', started) /\ InHandOf(worker) /\ InHandOf(worker')
      /\ WorkerFrames(worker') = WorkerFrames(worker) /\ Engaged(worker') = Engaged(worker)
      /\ Inside(worker') = Inside(worker) \cup answer
      /\ WorkerOwes(worker') = WorkerOwes(worker) /\ WorkerSays(worker') = {} /\ WorkerSays(worker) = {}
      /\ WorkerTells(worker') = WorkerTells(worker) \cup ChangedIn(events)
  <2>1. Answers(worker, answer, events)
    BY <1>1 DEF Answers
  <2>2. Employed(worker', started) /\ Proceeds(worker, worker', answer, events)
    BY <1>2, <2>1, Handling
  <2> QED BY <2>2 DEF Proceeds
<1>4. \A r \in Inside(worker') \ Inside(worker) :
          /\ r[1] = Current
          /\ r[2] = "ok" => worker.pc = "late" /\ worker.outcome = "ok"
          /\ r[2] = "cancelled" => Current \notin started \/ ItemAt(Current).method \notin CommitsState
  <2>1. \A r \in answer : r[1] = Current
    OBVIOUS
  <2> QED BY <1>3, <2>1
<1>5. /\ worker' \in Workers /\ worker'.pc \in {"item", "send"} /\ worker'.job = worker.job
      /\ worker'.item = worker.item + 1
  BY DEF Handled
<1> QED BY <1>2, <1>3, <1>4, <1>5 DEF Handles

\* Nothing happens to a queue that is left alone.
LEMMA StillQueue == ASSUME IShape, jobs' = jobs PROVE SameQueue
<1> QED BY DEF IShape, SameQueue

\* process_one of anything but a request that is begun.
LEMMA HandlesCases ==
    ASSUME IShape, IWorker,
           \/ Malformed \/ FilesChanged \/ SkipFiles \/ ExitNotification \/ OtherNotification
           \/ Begin /\ Current \in cancelled
    PROVE  Handles
<1> DEFINE f == worker.job[1].frame
<1>1. worker.pc = "item" /\ ~JobOver
  BY DEF Malformed, FilesChanged, SkipFiles, ExitNotification, OtherNotification, Begin
<1>2. /\ f \in Frames /\ worker.item \in 1..Len(Content[f]) /\ Current = <<f, worker.item>>
      /\ worker.item \in Nat /\ Current \notin started
  <2>1. /\ f \in Frames /\ worker.item \in 1..(Len(Content[f]) + 1) /\ Current = <<f, worker.item>>
        /\ worker.item \in Nat /\ Current \notin started
        /\ Len(worker.job[1].items) = Len(Content[f]) /\ Len(Content[f]) \in Nat
    BY <1>1, InHand0
  <2>2. ~(worker.item > Len(worker.job[1].items))
    BY <1>1 DEF JobOver
  <2> QED BY <2>1, <2>2
<1>3. \A x \in Outcome : {<<Current, x>>} \in SUBSET Answer
  BY <1>2 DEF Answer
<1>4. {} \in SUBSET Answer /\ {} \in SUBSET Requests
  OBVIOUS
<1>5. /\ <<>> \in Seq(Message) /\ Cargo(<<>>, f, FALSE)
      /\ <<Event({})>> \in Seq(Message) /\ Cargo(<<Event({})>>, f, FALSE)
  BY <1>4, Events
<1>6. "invalid" \in Outcome /\ "cancelled" \in Outcome
  BY DEF Outcome
<1>7. /\ server'.initialized = server.initialized /\ jobs' = jobs /\ SameQueue
      /\ UNCHANGED <<pending, cancelled, bytes, overflow, stop, ready, token, output, reader, history>>
  <2>1. /\ jobs' = jobs
        /\ UNCHANGED <<pending, cancelled, bytes, overflow, stop, ready, token, output, reader, history>>
    BY DEF Malformed, FilesChanged, SkipFiles, ExitNotification, OtherNotification, Begin,
           queue, atomics, history
  <2>2. server'.initialized = server.initialized
    BY DEF Malformed, FilesChanged, SkipFiles, ExitNotification, OtherNotification, Begin, IShape
  <2> QED BY <2>1, <2>2, StillQueue
<1>8. \E answer, events : /\ events \in Seq(Message) /\ Cargo(events, f, FALSE)
                          /\ Handled(worker, worker', answer, events)
                          /\ answer = {} \/ answer = {<<Current, "invalid">>} \/ answer = {<<Current, "cancelled">>}
                          /\ CurrentItem.kind = "request" => answer # {}
  <2>1. CASE Malformed
    <3>1. Handled(worker, worker', {<<Current, "invalid">>}, <<>>)
      BY <1>1, <1>3, <1>5, <1>6, <2>1, Noting DEF Malformed
    <3> QED BY <1>5, <3>1
  <2>2. CASE FilesChanged
    <3>1. PICK events \in {<<>>, <<Event({})>>} : AnswerItem({}, events)
      BY <2>2 DEF FilesChanged
    <3>2. Handled(worker, worker', {}, events)
      BY <1>1, <1>4, <1>5, <3>1, Noting
    <3>3. CurrentItem.kind # "request"
      BY <2>2 DEF FilesChanged, FileEvent
    <3> QED BY <1>5, <3>2, <3>3
  <2>3. CASE SkipFiles
    <3>1. Handled(worker, worker', {}, <<>>)
      <4>1. CASE AnswerItem({}, <<>>)
        BY <1>1, <1>4, <1>5, <4>1, Noting
      <4>2. CASE worker' = [worker EXCEPT !.item = @ + 1]
        <5>1. worker.outbox \in Seq(Message) /\ worker.item + 1 \in Nat
          BY <1>2 DEF IShape, Workers
        <5>2. worker.outbox \o <<>> = worker.outbox
          BY <5>1
        <5>3. /\ worker' \in Workers /\ worker'.pc = "item" /\ worker'.item = worker.item + 1
              /\ worker'.job = worker.job /\ worker'.replies = worker.replies
              /\ worker'.outbox = worker.outbox
          BY <1>1, <4>2, <5>1 DEF IShape, Workers
        <5> QED BY <5>2, <5>3 DEF Handled
      <4> QED BY <2>3, <4>1, <4>2 DEF SkipFiles
    <3>2. CurrentItem.kind # "request"
      BY <2>3 DEF SkipFiles, FileEvent
    <3> QED BY <1>5, <3>1, <3>2
  <2>4. CASE ExitNotification
    <3>1. Handled(worker, worker', {}, <<>>)
      BY <1>1, <1>4, <1>5, <2>4, Noting DEF ExitNotification
    <3>2. CurrentItem.kind # "request"
      BY <2>4 DEF ExitNotification, Exits
    <3> QED BY <1>5, <3>1, <3>2
  <2>5. CASE OtherNotification
    <3>1. Handled(worker, worker', {}, <<>>)
      BY <1>1, <1>4, <1>5, <2>5, Noting DEF OtherNotification
    <3>2. CurrentItem.kind # "request"
      BY <2>5 DEF OtherNotification
    <3> QED BY <1>5, <3>1, <3>2
  <2>6. CASE Begin /\ Current \in cancelled
    <3>1. Handled(worker, worker', {<<Current, "cancelled">>}, <<>>)
      BY <1>1, <1>3, <1>5, <1>6, <2>6, Noting DEF Begin
    <3> QED BY <1>5, <3>1
  <2> QED BY <2>1, <2>2, <2>3, <2>4, <2>5, <2>6
<1>9. PICK answer, events : /\ events \in Seq(Message) /\ Cargo(events, f, FALSE)
                            /\ Handled(worker, worker', answer, events)
                            /\ answer = {} \/ answer = {<<Current, "invalid">>} \/ answer = {<<Current, "cancelled">>}
                            /\ CurrentItem.kind = "request" => answer # {}
  BY <1>8
<1>10. /\ answer = {} \/ \E x \in Outcome : answer = {<<Current, x>>}
       /\ \A r \in answer :
              /\ r[2] = "ok" => worker.pc = "late" /\ worker.outcome = "ok"
              /\ r[2] = "cancelled" => Current \notin started \/ ItemAt(Current).method \notin CommitsState
  BY <1>2, <1>6, <1>9
<1> QED BY <1>1, <1>2, <1>7, <1>9, <1>10, HandlesItem

\* Purging keeps the queue, but for file notifications.
LEMMA Purging ==
    ASSUME IShape,
           jobs' = [j \in DOMAIN jobs |-> [jobs[j] EXCEPT !.items = [i \in DOMAIN @ |-> Purged(@[i])]]]
    PROVE  SameQueue
<1>1. ASSUME NEW x \in Entry
      PROVE  /\ Purged(x) \in Entry /\ Purged(x).kind = x.kind
             /\ x.kind = "request" => Purged(x) = x
             /\ Exits(Purged(x)) => Exits(x)
  <2>1. ASSUME NEW y \in Item, FileEvent(y)
        PROVE  Purged(y).kind = y.kind /\ Purged(y).method = "ignored" /\ y.kind = "notification"
    BY <2>1 DEF Item, Purged, FileEvent
  <2>2. ASSUME NEW y \in Item, ~FileEvent(y) PROVE Purged(y) = y
    BY <2>2 DEF Purged
  <2>3. CASE x \in Item
    BY <2>1, <2>2, <2>3 DEF Entry, Exits
  <2>4. ASSUME NEW y \in Item, x = Purged(y) PROVE Purged(x) = x
    <3>1. CASE FileEvent(y)
      BY <2>1, <2>4, <3>1 DEF Purged, FileEvent
    <3>2. CASE ~FileEvent(y)
      BY <2>2, <2>4, <3>2
    <3> QED BY <3>1, <3>2
  <2> QED BY <2>3, <2>4 DEF Entry
<1>2. /\ jobs \in Seq(Job) /\ Len(jobs) \in Nat /\ DOMAIN jobs = 1..Len(jobs)
      /\ \A j \in 1..Len(jobs) : jobs[j] \in Job
  BY DEF IShape
<1>3. ASSUME NEW j \in 1..Len(jobs)
      PROVE  /\ jobs'[j] \in Job /\ jobs'[j].frame = jobs[j].frame
             /\ DOMAIN jobs'[j].items = DOMAIN jobs[j].items
             /\ Faithful(jobs[j]) => Faithful(jobs'[j])
  <2>1. /\ jobs[j].items \in Seq(Entry) /\ jobs[j].frame \in Frames
        /\ DOMAIN jobs[j].items = 1..Len(jobs[j].items) /\ Len(jobs[j].items) \in Nat
        /\ \A i \in 1..Len(jobs[j].items) : jobs[j].items[i] \in Entry
    BY <1>2, <1>3 DEF Job
  <2> DEFINE g == [i \in 1..Len(jobs[j].items) |-> Purged(jobs[j].items[i])]
  <2>2. jobs'[j] = [jobs[j] EXCEPT !.items = g]
    BY <1>2, <1>3, <2>1
  <2>3. g \in Seq(Entry) /\ Len(g) = Len(jobs[j].items) /\ DOMAIN g = DOMAIN jobs[j].items
    BY <1>1, <2>1
  <2>4. \A i \in 1..Len(g) : g[i] = Purged(jobs[j].items[i])
    BY <2>1, <2>3
  <2> HIDE DEF g
  <2>5. jobs'[j] = [frame |-> jobs[j].frame, items |-> g]
    BY <1>2, <2>2 DEF Job
  <2>6. jobs'[j] \in Job /\ jobs'[j].frame = jobs[j].frame /\ jobs'[j].items = g
    <3>1. [frame |-> jobs[j].frame, items |-> g] \in Job
      BY <2>1, <2>3, Zenon DEF Job
    <3> QED BY <2>5, <3>1
  <2>7. Faithful(jobs[j]) => Faithful(jobs'[j])
    <3> SUFFICES ASSUME Faithful(jobs[j]) PROVE Faithful(jobs'[j])
      OBVIOUS
    <3>1. /\ Len(jobs[j].items) = Len(Content[jobs[j].frame])
          /\ \A i \in 1..Len(Content[jobs[j].frame]) :
                /\ jobs[j].items[i].kind = Content[jobs[j].frame][i].kind
                /\ Content[jobs[j].frame][i].kind = "request" =>
                     jobs[j].items[i] = Content[jobs[j].frame][i]
                /\ Exits(jobs[j].items[i]) => Exits(Content[jobs[j].frame][i])
      BY DEF Faithful
    <3>2. ASSUME NEW i \in 1..Len(Content[jobs[j].frame])
          PROVE  /\ g[i].kind = Content[jobs[j].frame][i].kind
                 /\ Content[jobs[j].frame][i].kind = "request" => g[i] = Content[jobs[j].frame][i]
                 /\ Exits(g[i]) => Exits(Content[jobs[j].frame][i])
      <4>1. jobs[j].items[i] \in Entry /\ g[i] = Purged(jobs[j].items[i])
        BY <2>1, <2>3, <2>4, <3>1, <3>2
      <4> QED BY <1>1, <3>1, <3>2, <4>1
    <3>3. Len(g) = Len(Content[jobs[j].frame])
      BY <2>3, <3>1
    <3> DEFINE job == jobs'[j]
    <3>4. job.frame = jobs[j].frame /\ job.items = g
      BY <2>6
    <3> HIDE DEF job
    <3>5. Faithful(job)
      BY <3>2, <3>3, <3>4, Zenon DEF Faithful
    <3> QED BY <3>5 DEF job
  <2> QED BY <2>3, <2>6, <2>7
<1>4. jobs' \in Seq(Job) /\ Len(jobs') = Len(jobs)
  <2> DEFINE e(j) == [jobs[j] EXCEPT !.items = [i \in DOMAIN @ |-> Purged(@[i])]]
  <2>1. jobs' = [j \in 1..Len(jobs) |-> e(j)]
    BY <1>2
  <2>2. \A j \in 1..Len(jobs) : e(j) \in Job
    BY <1>3, <2>1
  <2> HIDE DEF e
  <2>3. [j \in 1..Len(jobs) |-> e(j)] \in Seq(Job)
    BY <1>2, <2>2
  <2>4. Len([j \in 1..Len(jobs) |-> e(j)]) = Len(jobs)
    BY <1>2
  <2> QED BY <2>1, <2>3, <2>4
<1> QED BY <1>3, <1>4 DEF SameQueue

\* The answer of a request that was begun.
LEMMA HandlesLate == ASSUME IShape, IWorker, Late PROVE Handles
<1> DEFINE f == worker.job[1].frame
           method == CurrentItem.method
           reset == method = "metadata/refresh" /\ worker.outcome = "ok"
           hidden == method \notin CommitsState /\ Current \in cancelled
           answer == {<<Current, IF hidden THEN "cancelled" ELSE worker.outcome>>}
           w == [worker EXCEPT !.replies = @ \cup answer, !.item = @ + 1, !.outcome = "none",
                               !.reset = @ \/ reset]
<1>1. /\ worker.pc = "late"
      /\ jobs' = IF reset THEN [j \in DOMAIN jobs |->
                                 [jobs[j] EXCEPT !.items = [i \in DOMAIN @ |-> Purged(@[i])]]]
                 ELSE jobs
      /\ worker' = IF Batch THEN SendAll(w, "item") ELSE [w EXCEPT !.pc = "item"]
      /\ UNCHANGED <<pending, cancelled, bytes, overflow, atomics, output, reader, server, history>>
  BY DEF Late
<1>2. /\ f \in Frames /\ worker.item \in 1..Len(Content[f]) /\ Current = <<f, worker.item>>
      /\ worker.item \in Nat /\ CurrentItem = ItemAt(Current) /\ CurrentItem.kind = "request"
  BY <1>1, InHand0
<1>3. worker \in Workers /\ worker.outcome \in {"ok", "error"}
  BY <1>1 DEF IShape, IWorker, Employed
<1>4. /\ \E x \in Outcome : answer = {<<Current, x>>}
      /\ answer \in SUBSET Answer
      /\ \A r \in answer : /\ r[2] = "ok" => worker.outcome = "ok"
                           /\ r[2] = "cancelled" => ItemAt(Current).method \notin CommitsState
  <2>1. \/ hidden /\ answer = {<<Current, "cancelled">>}
        \/ answer = {<<Current, worker.outcome>>}
    OBVIOUS
  <2>2. hidden => ItemAt(Current).method \notin CommitsState
    BY <1>2
  <2>3. {"cancelled", "ok", "error"} \subseteq Outcome
    BY DEF Outcome
  <2>4. Current \in Frames \X Nat
    BY <1>2
  <2>5. answer \in SUBSET Answer /\ \E x \in Outcome : answer = {<<Current, x>>}
    BY <1>3, <2>1, <2>3, <2>4 DEF Answer
  <2>6. \A r \in answer : /\ r[2] = "ok" => worker.outcome = "ok"
                          /\ r[2] = "cancelled" => ItemAt(Current).method \notin CommitsState
    <3> HIDE DEF hidden, answer
    <3> QED BY <1>3, <2>1, <2>2
  <2> QED BY <2>5, <2>6
<1>5. SameQueue
  <2>1. CASE reset
    BY <1>1, <2>1, Purging
  <2>2. CASE ~reset
    BY <1>1, <2>2, StillQueue
  <2> QED BY <2>1, <2>2
<1> HIDE DEF answer, reset
<1>6. worker.outbox \in Seq(Message) /\ worker.outbox \o <<>> = worker.outbox
  BY <1>3 DEF Workers
<1>7. /\ w \in Workers /\ w.job = worker.job /\ w.item = worker.item + 1
      /\ w.replies = worker.replies \cup answer /\ w.outbox = worker.outbox
  <2>1. worker.item + 1 \in Nat /\ (worker.replies \cup answer) \in SUBSET Answer
    <3>1. worker.replies \in SUBSET Answer
      BY <1>3 DEF Workers
    <3> QED BY <1>2, <1>4, <3>1
  <2>2. (worker.reset \/ reset) \in BOOLEAN
    OBVIOUS
  <2> QED BY <1>3, <2>1, <2>2 DEF Workers
<1> HIDE DEF w
<1>8. Handled(worker, worker', answer, <<>>)
  <2>1. CASE Batch
    <3>1. LET s == SendAll(w, "item")
          IN  /\ s \in Workers /\ s.next = "item" /\ s.outbox = w.outbox
              /\ s.pc = IF w.outbox = <<>> THEN "item" ELSE "send"
              /\ s.job = w.job /\ s.item = w.item /\ s.replies = w.replies
      BY <1>7, Sending
    <3> QED BY <1>1, <1>6, <1>7, <2>1, <3>1 DEF Handled
  <2>2. CASE ~Batch
    <3>1. LET s == [w EXCEPT !.pc = "item"]
          IN  /\ s \in Workers /\ s.pc = "item" /\ s.outbox = w.outbox
              /\ s.job = w.job /\ s.item = w.item /\ s.replies = w.replies
      BY <1>7 DEF Workers
    <3> QED BY <1>1, <1>6, <1>7, <2>2, <3>1 DEF Handled
  <2> QED BY <2>1, <2>2
<1>9. <<>> \in Seq(Message) /\ Cargo(<<>>, f, FALSE)
  BY Events
<1>10. /\ server'.initialized = server.initialized
       /\ UNCHANGED <<pending, cancelled, bytes, overflow, stop, ready, token, output, reader, history>>
  BY <1>1 DEF atomics
<1> QED BY <1>1, <1>2, <1>4, <1>5, <1>8, <1>9, <1>10, HandlesItem

\* Nobody is left with a connection that was stopped.
Halts == stop' = stop \/ (stop = Running /\ stop' \in {0, 1, 2})

\* The worker has no job, before and after: it looks up, takes an overflow
\* without a job, indexes, parks, or waits for the writer before it exits.
Rests ==
    /\ worker.pc \in {"check", "pop", "idle", "park", "finish", "flush", "flushpark"}
    /\ worker'.pc \in {"check", "pop", "idle", "park", "send", "flush", "flushpark", "done"}
    /\ worker' \in Workers /\ Employed(worker', started)
    /\ Jobless(worker) /\ Jobless(worker')
    /\ Halts
    /\ stop # Running /\ worker.pc \notin {"pop", "idle", "park"} =>
         worker'.pc \in {"check", "flush", "flushpark", "done"}
    /\ worker.pc = "finish" => \/ exit = Running /\ worker'.pc = "check"
                               \/ exit # Running /\ worker'.pc = "flush" /\ worker'.target = published
    /\ worker.pc \in {"flush", "flushpark"} =>
         \/ worker'.pc \in {"flush", "flushpark"} /\ worker'.target = worker.target
         \/ stop' # Running /\ worker'.pc = "check"
    /\ worker.pc \notin {"finish", "flush", "flushpark"} => worker'.pc \notin {"flush", "flushpark"}
    /\ jobs' = jobs /\ bytes' = bytes /\ overflow' \in BOOLEAN /\ token' \in BOOLEAN
    /\ server' \in [initialized : BOOLEAN, closing : BOOLEAN, session : BOOLEAN,
                    refresh : BOOLEAN, index : 0..Descriptors]
    /\ server'.initialized = server.initialized
    /\ UNCHANGED <<pending, cancelled, exit, ready, output, reader, history>>

\* The steps between two jobs.
LEMMA RestsCases ==
    ASSUME IShape, IWorker, IExit,
           \/ WorkerCheck \/ (Pop /\ jobs = <<>>) \/ IndexStep \/ Idle \/ Park
           \/ JobDone \/ Flush \/ FlushPark \/ FlushWake
    PROVE  Rests
<1>1. worker \in Workers /\ Employed(worker, started) /\ worker.outbox \in Seq(Message)
  BY DEF IShape, IWorker, Workers
<1>2. worker.pc \in {"check", "pop", "idle", "park", "finish", "flush", "flushpark"}
  BY
     DEF WorkerCheck, Pop, PopWith, IndexStep, IndexThen, Idle, Park, JobDone, Flush, FlushPark, FlushWake
<1>3. /\ ~InHandOf(worker) /\ ~Leaving(worker) /\ ~Holds(worker) /\ Box(worker) = worker.outbox
      /\ worker.pc # "idle" => worker.outbox = <<>>
  BY <1>1, <1>2 DEF InHandOf, Leaving, Holds, Box, Employed
<1>4. Jobless(worker) /\ Cargo(worker.outbox, worker.job[1].frame, FALSE)
  <2>1. Cargo(Box(worker), worker.job[1].frame, FALSE) /\ RepliesIn(Box(worker)) = {} /\ ReleasedIn(Box(worker)) = {}
    BY <1>1, <1>3, Boxes
  <2> QED BY <1>3, <2>1 DEF Jobless, WorkerFrames, Engaged, Inside, WorkerOwes, WorkerSays
<1>5. <<>> \in Seq(Message) /\ \A f : Cargo(<<>>, f, FALSE)
  BY Events
<1>6. {} \in SUBSET Requests
  OBVIOUS
<1>7. <<Event({})>> \in Seq(Message) /\ \A f : Cargo(<<Event({})>>, f, FALSE)
  BY <1>6, Events
<1>8. Rested(worker') => Employed(worker', started) /\ Jobless(worker')
  BY Resting
<1> DEFINE Moves ==
             /\ Rested(worker') /\ worker'.pc \in {"check", "pop", "idle", "park", "send", "flush", "flushpark", "done"}
             /\ Halts
             /\ stop # Running /\ worker.pc \notin {"pop", "idle", "park"} =>
                  worker'.pc \in {"check", "flush", "flushpark", "done"}
             /\ worker.pc = "finish" =>
                  \/ exit = Running /\ worker'.pc = "check"
                  \/ exit # Running /\ worker'.pc = "flush" /\ worker'.target = published
             /\ worker.pc \in {"flush", "flushpark"} =>
                  \/ worker'.pc \in {"flush", "flushpark"} /\ worker'.target = worker.target
                  \/ stop' # Running /\ worker'.pc = "check"
             /\ worker.pc \notin {"finish", "flush", "flushpark"} => worker'.pc \notin {"flush", "flushpark"}
             /\ jobs' = jobs /\ bytes' = bytes /\ overflow' \in BOOLEAN /\ token' \in BOOLEAN
             /\ server' \in [initialized : BOOLEAN, closing : BOOLEAN, session : BOOLEAN,
                             refresh : BOOLEAN, index : 0..Descriptors]
             /\ server'.initialized = server.initialized
             /\ UNCHANGED <<pending, cancelled, exit, ready, output, reader, history>>
<1>20. Moves => Rests
  <2> SUFFICES ASSUME Moves PROVE Rests
    OBVIOUS
  <2>1. Employed(worker', started) /\ Jobless(worker')
    BY <1>8
  <2>2. worker' \in Workers
    BY DEF Rested
  <2> QED BY <1>2, <1>4, <2>1, <2>2 DEF Rests
<1> HIDE DEF Moves
<1>9. ASSUME NEW pc \in {"check", "pop", "park", "flush", "flushpark", "done"}, worker.pc # "idle",
             worker' = [worker EXCEPT !.pc = pc]
      PROVE  Rested(worker') /\ worker'.pc = pc /\ worker'.target = worker.target
  <2>1. /\ worker' \in Workers /\ worker'.pc = pc /\ worker'.outbox = <<>> /\ worker'.job = worker.job
        /\ worker'.target = worker.target
    BY <1>1, <1>3, <1>9 DEF Workers
  <2> QED BY <2>1, <1>5 DEF Rested
<1>10. CASE WorkerCheck
  <2>1. PICK pc \in {"pop", "done"} : /\ worker' = [worker EXCEPT !.pc = pc]
                                      /\ pc = "pop" => stop = Running
    BY <1>10 DEF WorkerCheck, Goto
  <2>2. Rested(worker') /\ worker'.pc = pc /\ worker.pc = "check"
    BY <1>9, <1>10, <2>1 DEF WorkerCheck
  <2>3. Moves
    BY <1>10, <2>1, <2>2 DEF Moves, WorkerCheck, queue, atomics, Halts, IShape
  <2> QED BY <1>20, <2>3
<1>11. CASE Pop /\ jobs = <<>>
  <2> DEFINE box == IF overflow /\ server.session THEN <<Event({})>> ELSE <<>>
  <2>1. /\ worker' = [worker EXCEPT !.job = <<>>, !.item = 1, !.replies = {}, !.reset = FALSE,
                                    !.outbox = box, !.pc = "idle"]
        /\ worker.pc = "pop" /\ jobs' = jobs /\ bytes' = bytes - 0 /\ overflow' = FALSE
        /\ server' = [server EXCEPT !.refresh = @ \/ (overflow /\ server.session)]
        /\ UNCHANGED <<pending, cancelled, atomics, output, reader, history>>
    BY <1>11 DEF Pop, PopWith
  <2>2. box \in Seq(Message) /\ \A f : Cargo(box, f, FALSE)
    BY <1>5, <1>7
  <2> HIDE DEF box
  <2>3. /\ worker' \in Workers /\ worker'.pc = "idle" /\ worker'.outbox = box
    <3>1. <<>> \in Seq(Job) /\ {} \in SUBSET Answer
      OBVIOUS
    <3> QED BY <1>1, <2>1, <2>2, <3>1 DEF Workers
  <2>4. Rested(worker')
    BY <2>2, <2>3 DEF Rested
  <2>5. server' \in [initialized : BOOLEAN, closing : BOOLEAN, session : BOOLEAN,
                     refresh : BOOLEAN, index : 0..Descriptors]
        /\ server'.initialized = server.initialized
    <3>1. (server.refresh \/ (overflow /\ server.session)) \in BOOLEAN
      OBVIOUS
    <3> QED BY <2>1, <3>1 DEF IShape
  <2>6. bytes' = bytes /\ overflow' \in BOOLEAN
    <3>1. bytes \in Int /\ bytes' = bytes - 0
      BY <2>1 DEF IShape
    <3>2. overflow' = FALSE
      BY <2>1
    <3>3. bytes' = bytes
      BY <3>1
    <3> QED BY <3>2, <3>3
  <2>7. /\ jobs' = jobs /\ stop' = stop /\ token' \in BOOLEAN
        /\ UNCHANGED <<pending, cancelled, exit, ready, output, reader, history>>
    BY <2>1 DEF atomics, IShape
  <2>8. Moves
    BY <2>1, <2>3, <2>4, <2>5, <2>6, <2>7 DEF Moves, Halts
  <2> QED BY <1>20, <2>8
<1>12. ASSUME NEW box \in Seq(Message), \A f : Cargo(box, f, FALSE), NEW next \in {"check", "park"},
              worker.pc = "idle", worker' = SendAll([worker EXCEPT !.outbox = @ \o box], next)
       PROVE  Rested(worker') /\ worker'.pc \in {"check", "park", "send"}
  <2> DEFINE w == [worker EXCEPT !.outbox = @ \o box]
  <2>1. worker.outbox \o box \in Seq(Message) /\ Cargo(worker.outbox \o box, worker.job[1].frame, FALSE)
    <3>1. FALSE \in BOOLEAN
      OBVIOUS
    <3>2. Cargo(box, worker.job[1].frame, FALSE)
      BY <1>12
    <3>3. Cargo(worker.outbox \o box, worker.job[1].frame, FALSE)
      BY <1>1, <1>4, <3>1, <3>2, Loading, Zenon
    <3>4. worker.outbox \o box \in Seq(Message)
      BY <1>1
    <3> QED BY <3>3, <3>4
  <2>2. w \in Workers /\ w.outbox = worker.outbox \o box /\ w.job = worker.job
    BY <1>1, <2>1 DEF Workers
  <2> HIDE DEF w
  <2>3. LET s == SendAll(w, next)
        IN  /\ s \in Workers /\ s.next = next /\ s.outbox = w.outbox /\ s.job = w.job
            /\ s.pc = IF w.outbox = <<>> THEN next ELSE "send"
    BY <2>2, Sending
  <2>4. worker' = SendAll(w, next)
    BY <1>12 DEF w
  <2> QED BY <2>1, <2>2, <2>3, <2>4 DEF Rested
<1>13. CASE IndexStep
  <2>1. PICK box \in {<<>>, <<Event({})>>} : worker' = SendAll([worker EXCEPT !.outbox = @ \o box], "check")
    BY <1>13 DEF IndexStep, IndexThen
  <2>2. box \in Seq(Message) /\ \A f : Cargo(box, f, FALSE)
    BY <1>5, <1>7
  <2>3. Rested(worker') /\ worker'.pc \in {"check", "park", "send"} /\ worker.pc = "idle"
    BY <1>12, <1>13, <2>1, <2>2 DEF IndexStep, IndexThen
  <2>4. server' \in [initialized : BOOLEAN, closing : BOOLEAN, session : BOOLEAN,
                     refresh : BOOLEAN, index : 0..Descriptors]
        /\ server'.initialized = server.initialized
    <3>1. server.index - 1 \in 0..Descriptors /\ server' = [server EXCEPT !.index = server.index - 1]
      BY <1>13, LimitAssumption DEF IndexStep, IndexThen, Indexing, IShape
    <3> QED BY <3>1 DEF IShape
  <2>5. Moves
    BY <1>13, <2>3, <2>4 DEF Moves, IndexStep, IndexThen, queue, atomics, Halts, IShape
  <2> QED BY <1>20, <2>5
<1>14. CASE Idle
  <2>1. worker' = SendAll([worker EXCEPT !.outbox = @ \o <<>>], "park") /\ worker.pc = "idle"
    <3>1. worker.outbox \o <<>> = worker.outbox
      BY <1>1
    <3>2. [worker EXCEPT !.outbox = worker.outbox] = worker
      BY <1>1 DEF Workers
    <3> QED BY <1>14, <3>1, <3>2 DEF Idle
  <2>2. Rested(worker') /\ worker'.pc \in {"check", "park", "send"}
    BY <1>5, <1>12, <2>1
  <2>3. Moves
    BY <1>14, <2>1, <2>2 DEF Moves, Idle, queue, atomics, Halts, IShape
  <2> QED BY <1>20, <2>3
<1>15. CASE Park
  <2>1. Rested(worker') /\ worker'.pc = "check" /\ worker.pc = "park"
    BY <1>9, <1>15 DEF Park, Goto
  <2>2. Moves
    BY <1>15, <2>1 DEF Moves, Park, queue, Halts, IShape
  <2> QED BY <1>20, <2>2
<1>16. CASE JobDone
  <2>1. CASE exit = Running
    <3>1. Rested(worker') /\ worker'.pc = "check" /\ worker.pc = "finish"
      BY <1>9, <1>16, <2>1 DEF JobDone
    <3>2. Moves
      BY <1>16, <2>1, <3>1 DEF Moves, JobDone, queue, atomics, Halts, IShape
    <3> QED BY <1>20, <3>2
  <2>2. CASE exit # Running
    <3>1. /\ worker' \in Workers /\ worker'.pc = "flush" /\ worker'.outbox = <<>> /\ worker.pc = "finish"
          /\ worker'.target = published
      BY <1>1, <1>3, <1>16, <2>2 DEF JobDone, Workers, IShape
    <3>2. Rested(worker')
      BY <1>5, <3>1 DEF Rested
    <3>3. Moves
      BY <1>16, <2>2, <3>1, <3>2 DEF Moves, JobDone, queue, atomics, Halts, IShape
    <3> QED BY <1>20, <3>3
  <2> QED BY <2>1, <2>2
<1>17. CASE Flush
  <2>1. Rested(worker') /\ worker'.pc = "check" /\ worker.pc = "flush"
    BY <1>9, <1>17 DEF Flush, Goto
  <2>2. exit \in {0, 1, 2}
    BY <2>1 DEF IExit, IShape
  <2>3. Halts /\ stop' # Running /\ token' \in BOOLEAN
    BY <1>17, <2>2 DEF Flush, Stop, Halts, Running
  <2>4. Moves
    BY <1>17, <2>1, <2>3 DEF Moves, Flush, queue, IShape
  <2> QED BY <1>20, <2>4
<1>18. CASE FlushPark
  <2>1. Rested(worker') /\ worker'.pc = "flushpark" /\ worker.pc = "flush" /\ worker'.target = worker.target
    BY <1>9, <1>18 DEF FlushPark, Goto
  <2>2. Moves
    BY <1>18, <2>1 DEF Moves, FlushPark, queue, atomics, Halts, IShape
  <2> QED BY <1>20, <2>2
<1>19. CASE FlushWake
  <2>1. Rested(worker') /\ worker'.pc = "flush" /\ worker.pc = "flushpark" /\ worker'.target = worker.target
    BY <1>9, <1>19 DEF FlushWake, Goto
  <2>2. Moves
    BY <1>19, <2>1 DEF Moves, FlushWake, queue, Halts, IShape
  <2> QED BY <1>20, <2>2
<1> QED BY <1>10, <1>11, <1>13, <1>14, <1>15, <1>16, <1>17, <1>18, <1>19

\* The oldest job is taken, with nothing of it begun.
Takes ==
    /\ worker.pc = "pop" /\ worker'.pc = "item" /\ Jobless(worker)
    /\ jobs # <<>> /\ jobs' = Tail(jobs) /\ bytes' = bytes - Len(Head(jobs).items)
    /\ worker' \in Workers /\ Employed(worker', started)
    /\ InHandOf(worker') /\ ~Leaving(worker')
    /\ worker'.job = <<Head(jobs)>> /\ worker'.item = 1
    /\ WorkerFrames(worker') = {Head(jobs).frame} /\ Inside(worker') = {}
    /\ Engaged(worker') = RequestsOf(Head(jobs).frame)
    /\ WorkerOwes(worker') = Engaged(worker') /\ WorkerSays(worker') = {}
    /\ overflow' \in BOOLEAN
    /\ server' \in [initialized : BOOLEAN, closing : BOOLEAN, session : BOOLEAN,
                    refresh : BOOLEAN, index : 0..Descriptors]
    /\ server'.initialized = server.initialized
    /\ UNCHANGED <<pending, cancelled, stop, exit, ready, token, output, reader, history>>

\* Taking a job.
LEMMA TakesCases == ASSUME IShape, IWorker, IPlaces, Pop, jobs # <<>> PROVE Takes
<1> DEFINE box == IF overflow /\ server.session THEN <<Event({})>> ELSE <<>>
           f == Head(jobs).frame
           v == worker'
<1>1. /\ worker' = [worker EXCEPT !.job = <<Head(jobs)>>, !.item = 1, !.replies = {}, !.reset = FALSE,
                                  !.outbox = box, !.pc = "item"]
      /\ worker.pc = "pop" /\ jobs' = Tail(jobs) /\ bytes' = bytes - Len(<<Head(jobs)>>[1].items)
      /\ overflow' = FALSE
      /\ server' = [server EXCEPT !.refresh = @ \/ (overflow /\ server.session)]
      /\ UNCHANGED <<pending, cancelled, atomics, output, reader, history>>
  BY DEF Pop, PopWith
<1>2. worker \in Workers /\ Employed(worker, started)
  BY DEF IShape, IWorker
<1>3. Jobless(worker)
  <2>1. worker.outbox = <<>> /\ \A g : Cargo(<<>>, g, FALSE)
    BY <1>1, <1>2, Events DEF Employed
  <2>2. Rested(worker)
    BY <1>1, <1>2, <2>1 DEF Rested
  <2> QED BY <2>2, Resting
<1>4. /\ Head(jobs) \in Job /\ f \in Frames /\ Faithful(Head(jobs))
      /\ f \in QueueFrames(jobs)
  <2>1. jobs \in Seq(Job) /\ 1 \in 1..Len(jobs) /\ Head(jobs) = jobs[1] /\ jobs[1] \in Job
    BY DEF IShape
  <2>2. Faithful(jobs[1])
    BY <2>1 DEF IPlaces
  <2> QED BY <2>1, <2>2 DEF Job, QueueFrames
<1>5. /\ Len(Content[f]) \in Nat
      /\ \A o \in RequestsOf(f) : o[1] = f /\ o[2] \in Nat /\ ~(o[2] < 1) /\ o \notin started
  <2>1. Len(Content[f]) \in Nat
    BY <1>4, Items
  <2>2. \A o \in RequestsOf(f) : o[1] = f /\ o[2] \in 1..Len(Content[f])
    BY <1>4, Items
  <2>3. \A o \in started : o[1] \notin QueueFrames(jobs)
    BY DEF IPlaces
  <2> QED BY <1>4, <2>1, <2>2, <2>3
<1>6. box \in Seq(Message) /\ Cargo(box, f, FALSE)
  <2>1. {} \in SUBSET Requests
    OBVIOUS
  <2> QED BY <2>1, Events
<1> HIDE DEF box
<1>7. /\ v \in Workers /\ v.pc = "item" /\ v.outbox = box /\ v.job = <<Head(jobs)>> /\ v.item = 1
      /\ v.replies = {}
  <2>1. <<Head(jobs)>> \in Seq(Job) /\ {} \in SUBSET Answer
    BY <1>4
  <2> QED BY <1>1, <1>2, <1>6, <2>1 DEF Workers
<1> HIDE DEF v
<1>8. Working(v, started)
  <2>1. v.job[1].frame = f /\ v.item \in 1..(Len(Content[f]) + 1)
    BY <1>5, <1>7
  <2>2. About({}, f) /\ Single({})
    BY DEF About, Single
  <2> QED BY <1>5, <1>7, <2>1, <2>2 DEF Working
<1>9. /\ InHandOf(v) /\ ~Leaving(v) /\ Holds(v) /\ Leaving(v) = FALSE /\ Box(v) = box
      /\ v.job[1] = Head(jobs) /\ Len(v.job) = 1
  BY <1>7 DEF InHandOf, Leaving, Holds, Box
<1>10. Employed(v, started)
  BY <1>4, <1>6, <1>7, <1>8, <1>9 DEF Employed
<1>11. /\ WorkerFrames(v) = {f} /\ Inside(v) = {} /\ Engaged(v) = RequestsOf(f)
       /\ WorkerOwes(v) = Engaged(v) /\ WorkerSays(v) = {}
  <2>1. RepliesIn(Box(v)) = {} /\ ReleasedIn(Box(v)) = {}
    BY <1>7, <1>9, <1>10, Boxes
  <2> QED BY <1>7, <1>9, <2>1 DEF WorkerFrames, Inside, Engaged, WorkerOwes, WorkerSays
<1>12. /\ server' \in [initialized : BOOLEAN, closing : BOOLEAN, session : BOOLEAN,
                       refresh : BOOLEAN, index : 0..Descriptors]
       /\ server'.initialized = server.initialized
  <2>1. (server.refresh \/ (overflow /\ server.session)) \in BOOLEAN
    OBVIOUS
  <2> QED BY <1>1, <2>1 DEF IShape
<1>13. overflow' \in BOOLEAN /\ bytes' = bytes - Len(Head(jobs).items)
  <2>1. overflow' = FALSE
    BY <1>1
  <2>2. bytes' = bytes - Len(Head(jobs).items)
    BY <1>1
  <2> QED BY <2>1, <2>2
<1>14. UNCHANGED <<pending, cancelled, stop, exit, ready, token, output, reader, history>>
  BY <1>1 DEF atomics
<1>15. worker.pc = "pop" /\ jobs' = Tail(jobs)
  BY <1>1
<1> QED BY <1>3, <1>7, <1>9, <1>10, <1>11, <1>12, <1>13, <1>14, <1>15 DEF v, Takes

\* A request that nobody cancelled is begun.
Begins ==
    /\ worker.pc = "item" /\ worker'.pc = "execute" /\ ~JobOver
    /\ Current \in Engaged(worker) /\ Current \notin cancelled
    /\ Current[1] \in WorkerFrames(worker) /\ Current \in Requests
    /\ worker' \in Workers /\ Employed(worker', started')
    /\ InHandOf(worker) /\ InHandOf(worker') /\ ~Leaving(worker) /\ ~Leaving(worker')
    /\ worker'.job = worker.job /\ worker'.item = worker.item
    /\ WorkerFrames(worker') = WorkerFrames(worker) /\ Engaged(worker') = Engaged(worker)
    /\ Inside(worker') = Inside(worker) /\ WorkerOwes(worker') = WorkerOwes(worker)
    /\ WorkerSays(worker') = {} /\ WorkerSays(worker) = {}
    /\ WorkerTells(worker') = WorkerTells(worker)
    /\ started' = started \cup {Current}
    /\ overrun' = overrun + (IF stop = Running THEN 0 ELSE 1)
    /\ UNCHANGED <<jobs, pending, cancelled, bytes, overflow, stop, exit, ready, token, output,
                   reader, server, sent, applied, doomed, stale, announced, delivered>>

\* Beginning a request.
LEMMA BeginsCases == ASSUME IShape, IWorker, Begin, Current \notin cancelled PROVE Begins
<1> DEFINE f == worker.job[1].frame
           v == worker'
<1>1. /\ worker.pc = "item" /\ ~JobOver /\ CurrentItem.kind = "request"
      /\ worker' = [worker EXCEPT !.pc = "execute"] /\ started' = started \cup {Current}
      /\ overrun' = overrun + (IF stop = Running THEN 0 ELSE 1)
      /\ UNCHANGED <<queue, atomics, output, reader, server,
                     sent, applied, doomed, stale, announced, delivered>>
  BY DEF Begin, Goto
<1>2. worker \in Workers /\ Employed(worker, started)
  BY DEF IShape, IWorker
<1>3. /\ f \in Frames /\ Current = <<f, worker.item>> /\ Current \in RequestsOf(f)
      /\ worker.item \in Nat /\ InHandOf(worker) /\ ~Leaving(worker) /\ Holds(worker)
  <2>1. /\ f \in Frames /\ Current = <<f, worker.item>> /\ worker.item \in Nat
        /\ InHandOf(worker) /\ ~Leaving(worker) /\ Holds(worker)
        /\ Len(worker.job[1].items) = Len(Content[f]) /\ Len(Content[f]) \in Nat
        /\ worker.item \in 1..(Len(Content[f]) + 1)
        /\ worker.item \in 1..Len(Content[f]) =>
             (CurrentItem.kind = "request" => Current \in RequestsOf(f))
    BY <1>1, InHand0
  <2>2. worker.item \in 1..Len(Content[f])
    BY <1>1, <2>1 DEF JobOver
  <2> QED BY <1>1, <2>1, <2>2
<1>4. /\ v \in Workers /\ v.pc = "execute" /\ v.job = worker.job /\ v.item = worker.item
      /\ v.replies = worker.replies /\ v.outbox = worker.outbox
  BY <1>1, <1>2 DEF Workers
<1> HIDE DEF v
<1>5. InHandOf(v) /\ ~Leaving(v) /\ Holds(v) /\ Box(v) = worker.outbox /\ Box(worker) = worker.outbox
  BY <1>1, <1>4 DEF InHandOf, Leaving, Holds, Box
<1>6. Leaving(v) = FALSE /\ Leaving(worker) = FALSE
  BY <1>3, <1>5 DEF Leaving
<1>7. Working(v, started')
  <2>1. Working(worker, started)
    BY <1>2, <1>3 DEF Employed
  <2>2. v.job[1].frame = f /\ <<f, v.item>> = Current /\ <<f, v.item>> \in RequestsOf(f) \cap started'
    BY <1>1, <1>3, <1>4
  <2>3. \A o \in RequestsOf(f) \cap started' : o[2] < v.item \/ o[2] = v.item
    <3>1. \A o \in RequestsOf(f) \cap started : o[2] < worker.item
      BY <1>1, <2>1 DEF Working
    <3>2. Current[2] = worker.item
      BY <1>3
    <3> QED BY <1>1, <1>4, <3>1, <3>2
  <2> QED BY <1>4, <2>1, <2>2, <2>3 DEF Working
<1>8. Employed(v, started')
  <2>1. Len(v.job) = 1 /\ Faithful(v.job[1])
    BY <1>2, <1>3, <1>4 DEF Employed
  <2>2. Cargo(Box(v), v.job[1].frame, Leaving(v))
    <3>1. Cargo(Box(worker), f, Leaving(worker))
      BY <1>2 DEF Employed
    <3> QED BY <1>4, <1>5, <1>6, <3>1
  <2> QED BY <1>4, <1>7, <2>1, <2>2 DEF Employed
<1>9. /\ WorkerFrames(v) = WorkerFrames(worker) /\ Engaged(v) = Engaged(worker)
      /\ Inside(v) = Inside(worker) /\ WorkerOwes(v) = WorkerOwes(worker)
      /\ WorkerTells(v) = WorkerTells(worker) /\ WorkerSays(v) = {} /\ WorkerSays(worker) = {}
      /\ f \in WorkerFrames(worker) /\ Engaged(worker) = RequestsOf(f)
  <2>1. RepliesIn(Box(worker)) = {}
    BY <1>2, <1>3, Boxes
  <2> QED BY <1>3, <1>4, <1>5, <2>1
             DEF WorkerFrames, Engaged, Inside, WorkerOwes, WorkerTells, WorkerSays
<1>10. Current \in Requests /\ Current[1] = f
  BY <1>3, Items
<1>11. UNCHANGED <<jobs, pending, cancelled, bytes, overflow, stop, exit, ready, token, output,
                   reader, server, sent, applied, doomed, stale, announced, delivered>>
  BY <1>1 DEF queue, atomics
<1> QED BY <1>1, <1>3, <1>4, <1>5, <1>8, <1>9, <1>10, <1>11 DEF v, Begins

\* A request is executed: what it changed is noted, and announced if it is a
\* refresh.
Acts ==
    /\ worker.pc = "execute" /\ worker'.pc = "late"
    /\ Current \in Engaged(worker) /\ Current \in started
    /\ Current[1] \in WorkerFrames(worker)
    /\ worker' \in Workers /\ Employed(worker', started)
    /\ InHandOf(worker) /\ InHandOf(worker') /\ ~Leaving(worker) /\ ~Leaving(worker')
    /\ worker'.job = worker.job /\ worker'.item = worker.item
    /\ WorkerFrames(worker') = WorkerFrames(worker) /\ Engaged(worker') = Engaged(worker)
    /\ Inside(worker') = Inside(worker) /\ WorkerOwes(worker') = WorkerOwes(worker)
    /\ WorkerSays(worker') = {} /\ WorkerSays(worker) = {}
    /\ WorkerTells(worker) \subseteq WorkerTells(worker')
    /\ applied' \subseteq applied \cup {Current} /\ applied \subseteq applied'
    /\ Current \in applied' \ applied => ItemAt(Current).method \in CommitsState \cup {"query/constructorOpen"}
    /\ Current \in applied' \ applied /\ ItemAt(Current).method = "metadata/refresh" =>
         Current \in WorkerTells(worker')
    /\ server.initialized => server'.initialized
    /\ worker'.outcome = "ok" /\ ItemAt(Current).method = "initialize" => server'.initialized
    /\ server' \in [initialized : BOOLEAN, closing : BOOLEAN, session : BOOLEAN,
                    refresh : BOOLEAN, index : 0..Descriptors]
    /\ stale' \in BOOLEAN
    /\ UNCHANGED <<jobs, pending, cancelled, bytes, overflow, stop, exit, ready, token, output,
                   reader, sent, started, doomed, overrun, announced, delivered>>

\* What the methods have in common.
Served(events, changes) ==
    /\ events \in Seq(Message) /\ Cargo(events, worker.job[1].frame, FALSE)
    /\ changes => CurrentItem.method \in CommitsState \cup {"query/constructorOpen"}
    /\ changes /\ CurrentItem.method = "metadata/refresh" => Current \in ChangedIn(events)
    /\ server.initialized => server'.initialized
    /\ server' \in [initialized : BOOLEAN, closing : BOOLEAN, session : BOOLEAN,
                    refresh : BOOLEAN, index : 0..Descriptors]
    /\ stale' \in BOOLEAN

\* A method that returns what it served.
LEMMA Returning ==
    ASSUME IShape, IWorker, worker.pc = "execute", NEW outcome \in {"ok", "error"}, NEW events,
           NEW changes \in BOOLEAN, Return(outcome, events, changes), Served(events, changes),
           outcome = "ok" /\ CurrentItem.method = "initialize" => server'.initialized
    PROVE  Acts
<1> DEFINE f == worker.job[1].frame
<1>1. worker \in Workers /\ Employed(worker, started)
  BY DEF IShape, IWorker
<1>2. /\ f \in Frames /\ Current = <<f, worker.item>> /\ CurrentItem = ItemAt(Current)
      /\ Current \in RequestsOf(f) /\ Current \in started /\ ~Leaving(worker) /\ WorkerFrames(worker) = {f}
  BY InHand0
<1>3. events \in Seq(Message) /\ Cargo(events, worker.job[1].frame, FALSE)
  BY DEF Served
<1>4. Executed(worker, worker', outcome, events)
  BY DEF Return, Executed
<1>5. /\ worker' \in Workers /\ Employed(worker', started) /\ InHandOf(worker) /\ InHandOf(worker')
      /\ worker'.pc = "late" /\ worker'.outcome = outcome /\ worker'.job = worker.job
      /\ worker'.item = worker.item
      /\ WorkerFrames(worker') = WorkerFrames(worker) /\ Engaged(worker') = Engaged(worker)
      /\ Inside(worker') = Inside(worker)
      /\ WorkerOwes(worker') = WorkerOwes(worker) /\ WorkerSays(worker') = {} /\ WorkerSays(worker) = {}
      /\ WorkerTells(worker') = WorkerTells(worker) \cup ChangedIn(events)
  <2>1. /\ worker' \in Workers /\ Employed(worker', started) /\ Proceeds(worker, worker', {}, events)
        /\ worker'.pc = "late" /\ worker'.outcome = outcome /\ worker'.job = worker.job
        /\ worker'.item = worker.item /\ worker'.replies = worker.replies
    BY <1>1, <1>3, <1>4, Executing, Zenon
  <2> QED BY <2>1 DEF Proceeds
<1>6. ~Leaving(worker') /\ Engaged(worker) = RequestsOf(f) /\ Current[1] = f
  BY <1>2, <1>5 DEF Leaving, Engaged
<1>7. /\ applied' = IF changes THEN applied \cup {Current} ELSE applied
      /\ UNCHANGED <<jobs, pending, cancelled, bytes, overflow, stop, exit, ready, token, output,
                     reader, sent, started, doomed, overrun, announced, delivered>>
  BY DEF Return, queue, atomics
<1>8. /\ changes => CurrentItem.method \in CommitsState \cup {"query/constructorOpen"}
      /\ changes /\ CurrentItem.method = "metadata/refresh" => Current \in ChangedIn(events)
      /\ server.initialized => server'.initialized
      /\ server' \in [initialized : BOOLEAN, closing : BOOLEAN, session : BOOLEAN,
                      refresh : BOOLEAN, index : 0..Descriptors]
      /\ stale' \in BOOLEAN
  BY DEF Served
<1>9. /\ applied' \subseteq applied \cup {Current} /\ applied \subseteq applied'
      /\ Current \in applied' \ applied => changes
  BY <1>7
<1> QED BY <1>2, <1>5, <1>6, <1>7, <1>8, <1>9 DEF Acts

\* Every method returns so.
LEMMA ActsCases == ASSUME IShape, IWorker, Execute PROVE Acts
<1> DEFINE f == worker.job[1].frame
           Servers == [initialized : BOOLEAN, closing : BOOLEAN, session : BOOLEAN,
                       refresh : BOOLEAN, index : 0..Descriptors]
<1>1. worker.pc = "execute"
  BY DEF Execute, Fail, Initialize, OpenWorkspace, CloseWorkspace, Shutdown, Refresh, StartIndex,
         UpdateProperty, OpenConstructor, ReadMetadata, Executes
<1>2. server \in Servers /\ stale \in BOOLEAN /\ 0 \in 0..Descriptors /\ Descriptors \in 0..Descriptors
  BY LimitAssumption DEF IShape
<1>3. Current \in Requests
  BY <1>1, InHand0 DEF IShape
<1>4. <<>> \in Seq(Message) /\ Cargo(<<>>, f, FALSE)
  BY Events
<1>5. ASSUME NEW S \in SUBSET Requests
      PROVE  <<Event(S)>> \in Seq(Message) /\ Cargo(<<Event(S)>>, f, FALSE) /\ ChangedIn(<<Event(S)>>) = S
  BY Events
<1>6. /\ <<Changed>> \in Seq(Message) /\ Cargo(<<Changed>>, f, FALSE)
      /\ CurrentItem.method = "metadata/refresh" => Current \in ChangedIn(<<Changed>>)
  <2> DEFINE S == IF CurrentItem.method = "metadata/refresh" THEN {Current} ELSE {}
  <2>1. S \in SUBSET Requests /\ Changed = Event(S)
    BY <1>3 DEF Changed
  <2>2. CurrentItem.method = "metadata/refresh" => Current \in S
    OBVIOUS
  <2> HIDE DEF S
  <2> QED BY <1>5, <2>1, <2>2
<1>7. /\ TRUE \in BOOLEAN /\ FALSE \in BOOLEAN /\ {} \in SUBSET Requests
      /\ "ok" \in {"ok", "error"} /\ "error" \in {"ok", "error"}
  OBVIOUS
<1>8. CASE Fail
  <2>1. Return("error", <<>>, FALSE) /\ UNCHANGED <<server, stale>>
    BY <1>8 DEF Fail
  <2>2. Served(<<>>, FALSE)
    BY <1>2, <1>4, <2>1 DEF Served
  <2> QED BY <1>1, <1>7, <2>1, <2>2, Returning
<1>9. CASE Initialize
  <2>1. /\ Return("ok", <<>>, TRUE) /\ CurrentItem.method = "initialize" /\ UNCHANGED stale
        /\ server' = [server EXCEPT !.initialized = TRUE]
    BY <1>9 DEF Initialize, Executes
  <2>2. server' \in Servers /\ server'.initialized
    BY <1>2, <2>1
  <2>3. Served(<<>>, TRUE)
    BY <1>2, <1>4, <2>1, <2>2 DEF Served, CommitsState
  <2> QED BY <1>1, <1>7, <2>1, <2>2, <2>3, Returning
<1>10. CASE OpenWorkspace
  <2>1. /\ Return("ok", <<>>, TRUE) /\ CurrentItem.method = "workspace/open" /\ stale' = FALSE
        /\ server' = [server EXCEPT !.session = TRUE, !.refresh = FALSE, !.index = 0]
    BY <1>10 DEF OpenWorkspace, Executes
  <2>2. server' \in Servers /\ server'.initialized = server.initialized
    BY <1>2, <2>1
  <2>3. Served(<<>>, TRUE)
    BY <1>2, <1>4, <2>1, <2>2 DEF Served, CommitsState
  <2> QED BY <1>1, <1>7, <2>1, <2>3, Returning
<1>11. CASE CloseWorkspace
  <2>1. /\ Return("ok", <<>>, TRUE) /\ CurrentItem.method = "workspace/close" /\ UNCHANGED stale
        /\ server' = [server EXCEPT !.session = FALSE]
    BY <1>11 DEF CloseWorkspace, Executes
  <2>2. server' \in Servers /\ server'.initialized = server.initialized
    BY <1>2, <2>1
  <2>3. Served(<<>>, TRUE)
    BY <1>2, <1>4, <2>1, <2>2 DEF Served, CommitsState
  <2> QED BY <1>1, <1>7, <2>1, <2>3, Returning
<1>12. CASE Shutdown
  <2>1. /\ Return("ok", <<>>, TRUE) /\ CurrentItem.method = "shutdown" /\ UNCHANGED stale
        /\ server' = [server EXCEPT !.session = FALSE, !.closing = TRUE]
    BY <1>12 DEF Shutdown, Executes
  <2>2. server' \in Servers /\ server'.initialized = server.initialized
    BY <1>2, <2>1
  <2>3. Served(<<>>, TRUE)
    BY <1>2, <1>4, <2>1, <2>2 DEF Served, CommitsState
  <2> QED BY <1>1, <1>7, <2>1, <2>3, Returning
<1>13. CASE Refresh
  <2>1. PICK ok \in BOOLEAN :
          /\ server' = [server EXCEPT !.refresh = ~ok] /\ stale' = (stale /\ ~ok)
          /\ Return(IF ok THEN "ok" ELSE "error", <<Changed>>, TRUE)
    BY <1>13 DEF Refresh
  <2>2. CurrentItem.method = "metadata/refresh"
    BY <1>13 DEF Refresh, Executes
  <2>3. server' \in Servers /\ server'.initialized = server.initialized /\ stale' \in BOOLEAN
    BY <1>2, <2>1
  <2>4. Served(<<Changed>>, TRUE)
    BY <1>6, <2>2, <2>3 DEF Served, CommitsState
  <2>5. (IF ok THEN "ok" ELSE "error") \in {"ok", "error"}
    OBVIOUS
  <2> QED BY <1>1, <1>7, <2>1, <2>2, <2>4, <2>5, Returning
<1>14. CASE StartIndex
  <2>1. /\ Return("ok", <<Event({})>>, TRUE) /\ CurrentItem.method = "metadata/index" /\ UNCHANGED stale
        /\ server' = [server EXCEPT !.index = Descriptors]
    BY <1>14 DEF StartIndex, Executes
  <2>2. server' \in Servers /\ server'.initialized = server.initialized
    BY <1>2, <2>1
  <2>3. <<Event({})>> \in Seq(Message) /\ Cargo(<<Event({})>>, f, FALSE)
    BY <1>5, <1>7
  <2>4. Served(<<Event({})>>, TRUE)
    BY <1>2, <2>1, <2>2, <2>3 DEF Served, CommitsState
  <2> QED BY <1>1, <1>7, <2>1, <2>4, Returning
<1>15. CASE UpdateProperty
  <2>1. PICK ok \in BOOLEAN :
          /\ server' = [server EXCEPT !.refresh = ~ok]
          /\ Return(IF ok THEN "ok" ELSE "error", <<Changed>>, TRUE)
    BY <1>15 DEF UpdateProperty
  <2>2. CurrentItem.method = "metadata/updateProperty" /\ UNCHANGED stale
    BY <1>15 DEF UpdateProperty, Executes
  <2>3. server' \in Servers /\ server'.initialized = server.initialized
    BY <1>2, <2>1
  <2>4. Served(<<Changed>>, TRUE)
    BY <1>2, <1>6, <2>2, <2>3 DEF Served, CommitsState
  <2>5. (IF ok THEN "ok" ELSE "error") \in {"ok", "error"}
    OBVIOUS
  <2> QED BY <1>1, <1>7, <2>1, <2>2, <2>4, <2>5, Returning
<1>16. CASE OpenConstructor
  <2>1. /\ Return("ok", <<>>, TRUE) /\ CurrentItem.method = "query/constructorOpen"
        /\ UNCHANGED <<server, stale>>
    BY <1>16 DEF OpenConstructor, Executes
  <2>2. Served(<<>>, TRUE)
    BY <1>2, <1>4, <2>1 DEF Served
  <2> QED BY <1>1, <1>7, <2>1, <2>2, Returning
<1>17. CASE ReadMetadata
  <2>1. /\ Return("ok", <<>>, FALSE) /\ CurrentItem.method = "metadata/children"
        /\ UNCHANGED <<server, stale>>
    BY <1>17 DEF ReadMetadata, Executes
  <2>2. Served(<<>>, FALSE)
    BY <1>2, <1>4, <2>1 DEF Served
  <2> QED BY <1>1, <1>7, <2>1, <2>2, Returning
<1> QED BY <1>8, <1>9, <1>10, <1>11, <1>12, <1>13, <1>14, <1>15, <1>16, <1>17 DEF Execute

\* A job is over, and what it answered is its result, which is complete unless
\* the connection was stopped.
Finishes ==
    LET f == worker.job[1].frame
        box == Box(worker')
    IN  /\ worker.pc = "item" /\ worker' \in Workers /\ Employed(worker', started)
        /\ InHandOf(worker) /\ ~InHandOf(worker') /\ ~Leaving(worker) /\ f \in Frames
        /\ worker'.pc \in {"send", "finish"} /\ (worker'.pc = "send" => worker'.next = "finish")
        /\ worker'.job = worker.job
        /\ WorkerFrames(worker) = {f} /\ WorkerFrames(worker') \subseteq {f}
        /\ Engaged(worker') = {} /\ Inside(worker') = {}
        /\ WorkerOwes(worker') \subseteq WorkerOwes(worker)
        /\ stop = Running /\ exit = Running => WorkerOwes(worker') = WorkerOwes(worker)
        /\ WorkerSays(worker) = {}
        /\ WorkerSays(worker') \subseteq Inside(worker) \cup {<<<<f, 1>>, "invalid">>}
        /\ WorkerTells(worker') = WorkerTells(worker)
        /\ box # <<>> => Leaving(worker') /\ WorkerFrames(worker') = {f}
        /\ box # <<>> /\ stop = Running => Complete(f, box[Len(box)].replies)
        /\ box = <<>> /\ stop = Running => Complete(f, {})
        /\ ready' = server.initialized
        /\ UNCHANGED <<jobs, pending, cancelled, bytes, overflow, stop, exit, token, output, reader,
                       server, history>>

\* The end of a job.
LEMMA FinishesCases == ASSUME IShape, IWorker, IExit, FinishJob PROVE Finishes
<1> DEFINE f == worker.job[1].frame
           invalid == {<<<<f, 1>>, "invalid">>}
           replies == IF Content[f] = <<>> THEN invalid ELSE worker.replies
           v == worker'
<1>1. /\ worker.pc = "item" /\ JobOver /\ ready' = server.initialized
      /\ worker' = SendAll([worker EXCEPT !.outbox = worker.outbox \o Result], "finish")
      /\ UNCHANGED <<jobs, pending, cancelled, bytes, overflow, stop, exit, token, output, reader,
                     server, history>>
  BY DEF FinishJob, Finish, queue
<1>2. worker \in Workers /\ Employed(worker, started)
  BY DEF IShape, IWorker
<1>3. /\ f \in Frames /\ worker.item \in Nat /\ InHandOf(worker) /\ Holds(worker) /\ ~Leaving(worker)
      /\ WorkerFrames(worker) = {f} /\ worker.item \in 1..(Len(Content[f]) + 1)
      /\ Len(worker.job[1].items) = Len(Content[f]) /\ Len(Content[f]) \in Nat
  BY <1>1, InHand0
<1>4. Working(worker, started) /\ Content[f] \in Seq(Item)
  BY <1>2, <1>3, Items DEF Employed
<1>5. Result = IF replies = {} THEN <<>> ELSE <<Reply(replies, RequestsOf(f))>>
  BY DEF Result
<1>6. \A o \in RequestsOf(f) : o[1] = f /\ o[2] \in Nat /\ o[2] <= Len(Content[f]) /\ o[2] >= 1
  <2>1. \A o \in RequestsOf(f) : o[1] = f /\ o[2] \in 1..Len(Content[f])
    BY <1>3, Items
  <2> QED BY <2>1, <1>3
<1>7. replies \in SUBSET Answer /\ About(replies, f) /\ Single(replies)
  <2>1. CASE Content[f] = <<>>
    <3>1. <<f, 1>> \in Frames \X Nat /\ "invalid" \in Outcome
      BY <1>3 DEF Outcome
    <3> QED BY <2>1, <3>1 DEF Answer, About, Single
  <2>2. CASE Content[f] # <<>>
    BY <2>2, <1>2, <1>4 DEF Working, Workers
  <2> QED BY <2>1, <2>2
<1>8. Content[f] = <<>> => RequestsOf(f) = {}
  <2>1. Content[f] = <<>> => Len(Content[f]) = 0
    OBVIOUS
  <2> QED BY <1>6, <2>1
<1>9. ASSUME NEW o \in RequestsOf(f), o[2] < worker.item PROVE Has(replies, o)
  <2>1. Content[f] # <<>>
    BY <1>8
  <2>2. Has(worker.replies, o)
    BY <1>4, <1>9 DEF Working
  <2> QED BY <2>1, <2>2
<1>10. ASSUME stop = Running PROVE Complete(f, replies)
  <2>1. CASE worker.item > Len(worker.job[1].items)
    <3>1. \A o \in RequestsOf(f) : o[2] < worker.item
      BY <1>3, <1>6, <2>1
    <3> QED BY <1>9, <3>1 DEF Complete
  <2>2. CASE exit # Running
    <3>1. PICK e \in DOMAIN Content[f] : e < worker.item /\ Exits(Content[f][e])
      BY <1>1, <1>3, <1>10, <2>2 DEF IExit
    <3>2. \A o \in RequestsOf(f) : Before(o) => o[2] < e
      BY <1>6, <3>1 DEF Before
    <3>3. e \in Nat
      BY <1>4, <3>1
    <3>4. \A o \in RequestsOf(f) : Before(o) => o[2] < worker.item
      BY <1>3, <1>6, <3>1, <3>2, <3>3
    <3> QED BY <1>9, <3>4 DEF Complete
  <2> QED BY <1>1, <1>10, <2>1, <2>2 DEF JobOver
<1>11. ASSUME stop = Running, exit = Running, replies = {} PROVE RequestsOf(f) = {}
  <2>1. worker.item > Len(worker.job[1].items)
    BY <1>1, <1>11 DEF JobOver
  <2>2. \A o \in RequestsOf(f) : o[2] < worker.item
    BY <1>3, <1>6, <2>1
  <2> QED BY <1>9, <1>11, <2>2 DEF Has
<1>12. /\ Result \in Seq(Message) /\ Results(worker, Result)
       /\ RepliesIn(Result) = replies /\ ReleasedIn(Result) \subseteq RequestsOf(f)
       /\ replies # {} => ReleasedIn(Result) = RequestsOf(f) /\ Result # <<>>
       /\ replies = {} => Result = <<>> /\ ReleasedIn(Result) = {}
  <2>1. CASE replies = {}
    <3>1. Result = <<>> /\ <<>> \in Seq(Message)
      BY <1>5, <2>1
    <3> QED BY <2>1, <3>1, Parts DEF Results
  <2>2. CASE replies # {}
    <3> DEFINE m == Reply(replies, RequestsOf(f))
    <3>1. RequestsOf(f) \in SUBSET Requests /\ {} \in SUBSET Requests
      BY <1>3, Items
    <3> HIDE DEF replies
    <3>2. /\ m \in Message /\ m.replies = replies /\ m.release = RequestsOf(f) /\ m.changed = {}
      BY <1>7, <3>1 DEF Reply, Message
    <3> HIDE DEF m
    <3>3. Result = <<m>>
      BY <1>5, <2>2 DEF m
    <3>4. Result \in Seq(Message) /\ Len(Result) = 1 /\ Result[1] = m /\ Result # <<>>
      BY <3>2, <3>3
    <3>5. ToSet(Result) = {m}
      <4>1. ToSet(Result) = {Result[k] : k \in 1..Len(Result)}
        BY <3>4, Elements
      <4> QED BY <3>4, <4>1
    <3>6. RepliesIn(Result) = replies /\ ReleasedIn(Result) = RequestsOf(f)
      BY <3>2, <3>5 DEF RepliesIn, ReleasedIn
    <3>7. Made(m, f)
      BY <1>7, <2>2, <3>2 DEF Made
    <3> QED BY <2>2, <3>2, <3>4, <3>6, <3>7 DEF Results
  <2> QED BY <2>1, <2>2
<1> HIDE DEF replies
<1>13. Finished(worker, worker', Result)
  BY <1>1 DEF Finished
<1>14. v \in Workers /\ Employed(v, started) /\ Concludes(worker, v, Result)
  BY <1>1, <1>2, <1>12, <1>13, Finishing
<1> HIDE DEF v
<1>15. /\ ~InHandOf(v) /\ v.pc \in {"send", "finish"} /\ (v.pc = "send" => v.next = "finish")
       /\ v.job = worker.job
       /\ WorkerFrames(v) \subseteq {f} /\ Engaged(v) = {} /\ Inside(v) = {}
       /\ WorkerOwes(v) = ReleasedIn(Result) /\ WorkerSays(v) = replies
       /\ WorkerSays(worker) = {} /\ WorkerTells(v) = WorkerTells(worker)
       /\ Result # <<>> => WorkerFrames(v) = {f}
       /\ Box(v) = worker.outbox \o Result
       /\ Box(v) # <<>> => Leaving(v) /\ Box(v)[Len(Box(v))].replies = replies
  BY <1>3, <1>12, <1>14 DEF Concludes
<1>16. WorkerOwes(worker) = RequestsOf(f) /\ Inside(worker) = worker.replies
  <2>1. ReleasedIn(Box(worker)) = {}
    BY <1>2, <1>3, Boxes
  <2> QED BY <1>3, <2>1 DEF WorkerOwes, Engaged, Inside
<1>17. Box(v) # <<>> => WorkerFrames(v) = {f}
  BY <1>15 DEF WorkerFrames, Holds
<1>18. replies \subseteq Inside(worker) \cup {<<<<f, 1>>, "invalid">>}
  BY <1>16 DEF replies
<1>19. Box(v) = <<>> => replies = {}
  <2>1. Result # <<>> => worker.outbox \o Result # <<>>
    BY <1>2, <1>12 DEF Workers
  <2> QED BY <1>12, <1>15, <2>1
<1>20. WorkerOwes(v) \subseteq WorkerOwes(worker)
       /\ (stop = Running /\ exit = Running => WorkerOwes(v) = WorkerOwes(worker))
  BY <1>11, <1>12, <1>15, <1>16
<1>21. /\ Box(v) # <<>> /\ stop = Running => Complete(f, Box(v)[Len(Box(v))].replies)
       /\ Box(v) = <<>> /\ stop = Running => Complete(f, {})
  BY <1>10, <1>15, <1>19
<1> QED BY <1>1, <1>3, <1>14, <1>15, <1>17, <1>18, <1>20, <1>21 DEF v, Finishes

\* One message in the channel.
Lone(m) ==
    /\ <<m>> \in Seq(Message) /\ Len(<<m>>) = 1 /\ ToSet(<<m>>) = {m}
    /\ FramesIn(<<m>>) = FramesOf(m.replies) /\ ReleasedIn(<<m>>) = m.release
    /\ RepliesIn(<<m>>) = m.replies /\ ChangedIn(<<m>>) = m.changed

\* A sequence of one message holds what the message holds.
LEMMA Alone == ASSUME NEW m \in Message PROVE Lone(m)
<1>1. <<m>> \in Seq(Message) /\ Len(<<m>>) = 1 /\ <<m>>[1] = m
  OBVIOUS
<1>2. ToSet(<<m>>) = {m}
  <2>1. ToSet(<<m>>) = {<<m>>[k] : k \in 1..Len(<<m>>)}
    BY <1>1, Elements, Zenon
  <2> QED BY <1>1, <2>1
<1> QED BY <1>1, <1>2 DEF Lone, FramesIn, ReleasedIn, RepliesIn, ChangedIn

\* An empty channel.
Silent(q) ==
    /\ q \in Seq(Message) /\ Len(q) = 0 /\ ToSet(q) = {}
    /\ FramesIn(q) = {} /\ ReleasedIn(q) = {} /\ RepliesIn(q) = {} /\ ChangedIn(q) = {}

\* The empty sequence holds nothing.
LEMMA Silence == Silent(<<>>)
<1>1. <<>> \in Seq(Message) /\ Len(<<>>) = 0
  OBVIOUS
<1>2. ToSet(<<>>) = {}
  BY <1>1, Elements
<1> QED BY <1>1, <1>2 DEF Silent, FramesIn, ReleasedIn, RepliesIn, ChangedIn

\* A message goes from the worker into the channel.
Ships ==
    \E m \in Message :
        /\ worker.pc = "send" /\ worker' \in Workers /\ Employed(worker', started)
        /\ Detaches(worker, worker', m)
        /\ stop = Running /\ writer.pc # "done"
        /\ Silent(channel) /\ channel' = <<m>> /\ Lone(m)
        /\ UNCHANGED <<jobs, pending, cancelled, bytes, overflow, stop, exit, ready, token,
                       writer, published, written, reader, server, history>>

\* The worker gives up a message because nobody reads any more.
Drops ==
    /\ worker.pc = "send" /\ worker' \in Workers /\ Employed(worker', started)
    /\ Abandons(worker, worker')
    /\ Halts /\ stop' # Running /\ token' \in BOOLEAN
    /\ UNCHANGED <<jobs, pending, cancelled, bytes, overflow, exit, ready, output, reader, server,
                   history>>

\* The worker counts a message it has handed over.
Counts ==
    /\ worker.pc = "count" /\ worker' \in Workers /\ Employed(worker', started)
    /\ Advances(worker, worker')
    /\ published' = published + 1
    /\ UNCHANGED <<jobs, pending, cancelled, bytes, overflow, stop, exit, ready, token,
                   writer, channel, written, reader, server, history>>

\* Sending from the outbox.
LEMMA SendsCases == ASSUME IShape, IWorker, WorkerSend PROVE Ships \/ Drops
<1>1. /\ worker.pc = "send" /\ worker \in Workers /\ Employed(worker, started)
      /\ UNCHANGED <<queue, exit, ready, writer, published, written, reader, server, history>>
  BY DEF IShape, IWorker, WorkerSend
<1>2. CASE /\ Room /\ channel' = Append(channel, Head(worker.outbox)) /\ Goto("count")
           /\ UNCHANGED <<stop, token>>
  <2> DEFINE m == Head(worker.outbox)
  <2>1. channel = <<>>
    <3>1. channel \in Seq(Message) /\ Len(channel) \in Nat /\ Len(channel) < 1
      BY <1>2 DEF IShape, Room
    <3>2. Len(channel) = 0
      BY <3>1
    <3> QED BY <3>1, <3>2, Empty, Zenon
  <2>2. channel' = <<m>>
    BY <1>2, <2>1
  <2>3. /\ worker' \in Workers /\ Employed(worker', started) /\ Detaches(worker, worker', m)
    <3>1. worker' = [worker EXCEPT !.pc = "count"]
      BY <1>2 DEF Goto
    <3> QED BY <1>1, <3>1, Shipping
  <2>4. m \in Message
    BY <2>3 DEF Detaches
  <2>5. Lone(m) /\ Silent(channel)
    BY <2>1, <2>4, Alone, Silence
  <2>6. stop = Running /\ writer.pc # "done"
    BY <1>2 DEF Room
  <2> HIDE DEF m
  <2> QED BY <1>1, <1>2, <2>2, <2>3, <2>4, <2>5, <2>6 DEF Ships, queue
<1>3. CASE /\ IF stop = Running THEN Stop(1) ELSE UNCHANGED <<stop, token>>
           /\ worker' = [worker EXCEPT !.outbox = <<>>, !.pc = worker.next]
           /\ UNCHANGED channel
  <2>1. worker' \in Workers /\ Employed(worker', started) /\ Abandons(worker, worker')
    BY <1>1, <1>3, Dropping
  <2>2. Halts /\ stop' # Running /\ token' \in BOOLEAN
    <3>1. CASE stop = Running
      <4>1. stop' = 1 /\ token' = TRUE
        BY <1>3, <3>1 DEF Stop
      <4> QED BY <3>1, <4>1 DEF Halts, Running
    <3>2. CASE stop # Running
      <4>1. stop' = stop /\ token' = token /\ token \in BOOLEAN
        BY <1>3, <3>2 DEF IShape
      <4> QED BY <3>2, <4>1 DEF Halts
    <3> QED BY <3>1, <3>2
  <2>3. UNCHANGED <<jobs, pending, cancelled, bytes, overflow, exit, ready, output, reader, server,
                    history>>
    BY <1>1, <1>3 DEF queue, output
  <2> QED BY <1>1, <2>1, <2>2, <2>3 DEF Drops
<1> QED BY <1>2, <1>3 DEF WorkerSend

\* Counting what was sent.
LEMMA CountsCases == ASSUME IShape, IWorker, WorkerCount PROVE Counts
<1>1. worker.pc = "count" /\ worker \in Workers /\ Employed(worker, started)
  BY DEF IShape, IWorker, WorkerCount
<1>2. worker' = SendAll([worker EXCEPT !.outbox = Tail(@)], worker.next)
  BY DEF WorkerCount
<1>3. worker' \in Workers /\ Employed(worker', started) /\ Advances(worker, worker')
  BY <1>1, <1>2, Counting
<1> QED BY <1>1, <1>3 DEF Counts, WorkerCount, queue, atomics

-----------------------------------------------------------------------------
(* What the steps of the reader do.                                         *)

\* The frame of a message that answers one.
LEMMA SaneFrames ==
    ASSUME NEW m \in Message, Sane(m)
    PROVE  /\ Single(m.replies) /\ m.replies \subseteq Answer /\ m.release \subseteq Requests
           /\ \/ m.replies = {} /\ m.release = {} /\ FramesOf(m.replies) = {}
              \/ \E f \in Frames : Made(m, f) /\ FramesOf(m.replies) = {f} /\ m.release \subseteq RequestsOf(f)
<1>1. m.replies \subseteq Answer /\ m.release \subseteq Requests
  BY DEF Message
<1>2. CASE Plain(m)
  BY <1>1, <1>2 DEF Plain, Single, FramesOf
<1>3. ASSUME NEW f \in Frames, Made(m, f) PROVE FramesOf(m.replies) = {f}
  BY <1>3 DEF Made, About, FramesOf
<1> QED BY <1>1, <1>2, <1>3 DEF Sane, Made

\* The reader looks up, wakes the worker, or gives up what it holds: a fatal
\* frame, the end of input, or a reply that nobody reads.
Pauses ==
    /\ reader.pc # "count" /\ reader'.pc \in {"check", "read", "done"}
    /\ reader' \in Readers /\ reader'.frame = reader.frame
    /\ reader.pc \in {"enqueue", "reply"} => stop' # Running
    /\ Halts /\ token' \in BOOLEAN
    /\ UNCHANGED <<jobs, pending, cancelled, bytes, overflow, exit, ready, output, worker, server,
                   history>>

\* The steps of the reader that move no frame forward.
LEMMA PausesCases ==
    ASSUME IShape,
           \/ ReaderCheck \/ Wake \/ \E f \in reader.frame : EnqueueDuplicate(f)
           \/ EndOfInput("eof", 0) \/ EndOfInput("truncated", 2)
           \/ /\ reader.pc = "reply"
              /\ IF stop = Running THEN Stop(1) ELSE UNCHANGED <<stop, token>>
              /\ ReaderGoto("check") /\ UNCHANGED channel
              /\ UNCHANGED <<queue, exit, ready, writer, published, written, worker, server, history>>
    PROVE  Pauses
<1> DEFINE Turned(pc) == reader' \in Readers /\ reader'.pc = pc /\ reader'.frame = reader.frame
<1>1. ASSUME NEW pc \in {"check", "read", "done"}, ReaderGoto(pc) PROVE Turned(pc)
  BY <1>1 DEF ReaderGoto, Readers, IShape
<1>2. stop \in {Running, 0, 1, 2} /\ token \in BOOLEAN
  BY DEF IShape
<1>3. ASSUME NEW code \in {0, 1, 2}, Stop(code)
      PROVE  Halts /\ stop' # Running /\ token' \in BOOLEAN
  BY <1>2, <1>3 DEF Stop, Halts, Running
<1>4. CASE ReaderCheck
  <2>1. PICK pc \in {"read", "done"} : ReaderGoto(pc)
    BY <1>4 DEF ReaderCheck
  <2>2. Turned(pc)
    BY <1>1, <2>1
  <2> QED BY <1>2, <1>4, <2>2 DEF ReaderCheck, Pauses, Halts, queue, atomics
<1>5. CASE Wake
  <2>1. Turned("check") /\ reader.pc = "wake" /\ token' = TRUE
    BY <1>1, <1>5 DEF Wake, Unpark
  <2> QED BY <1>5, <2>1 DEF Wake, Pauses, Halts, queue
<1>6. CASE \E f \in reader.frame : EnqueueDuplicate(f)
  <2>1. Turned("check") /\ reader.pc = "enqueue" /\ Halts /\ stop' # Running /\ token' \in BOOLEAN
    BY <1>1, <1>3, <1>6 DEF EnqueueDuplicate
  <2> QED BY <1>6, <2>1 DEF EnqueueDuplicate, Pauses, queue
<1>7. CASE EndOfInput("eof", 0) \/ EndOfInput("truncated", 2)
  <2>1. Turned("done") /\ reader.pc = "read" /\ Halts /\ stop' # Running /\ token' \in BOOLEAN
    BY <1>1, <1>3, <1>7 DEF EndOfInput
  <2> QED BY <1>7, <2>1 DEF EndOfInput, Pauses, queue
<1>8. CASE /\ reader.pc = "reply"
           /\ IF stop = Running THEN Stop(1) ELSE UNCHANGED <<stop, token>>
           /\ ReaderGoto("check") /\ UNCHANGED channel
           /\ UNCHANGED <<queue, exit, ready, writer, published, written, worker, server, history>>
  <2>1. Turned("check")
    BY <1>1, <1>8
  <2>2. Halts /\ stop' # Running /\ token' \in BOOLEAN
    <3>1. CASE stop = Running
      BY <1>3, <1>8, <3>1
    <3>2. CASE stop # Running
      BY <1>2, <1>8, <3>2 DEF Halts
    <3> QED BY <3>1, <3>2
  <2> QED BY <1>8, <2>1, <2>2 DEF Pauses, queue, output
<1> QED BY <1>4, <1>5, <1>6, <1>7, <1>8

\* A frame arrives: it is to be admitted, or it is not JSON.
Reads ==
    \E f \in Frames :
        /\ reader.pc = "read" /\ f \notin sent /\ sent' = sent \cup {f}
        /\ \A g \in sent : ~HasExit(g)
        /\ reader' \in Readers /\ reader'.frame = {f}
        /\ \/ reader'.pc = "enqueue"
           \/ reader'.pc = "reply" /\ reader'.reply = {<<<<f, 1>>, "invalid">>} /\ RequestsOf(f) = {}
        /\ UNCHANGED <<jobs, pending, cancelled, bytes, overflow, stop, exit, ready, token, output,
                       worker, server, started, applied, doomed, stale, overrun, announced,
                       delivered>>

\* Reading a frame.
LEMMA ReadsCases == ASSUME NEW f \in Frames, reader.pc = "read", Read(f) PROVE Reads
<1>1. /\ f \notin sent /\ sent' = sent \cup {f}
      /\ UNCHANGED <<jobs, pending, cancelled, bytes, overflow, stop, exit, ready, token, output,
                     worker, server, started, applied, doomed, stale, overrun, announced,
                     delivered>>
  BY DEF Read, queue, atomics
<1>2. \A g \in sent : ~HasExit(g)
  BY DEF Read, HasExit
<1>3. /\ {<<<<f, 1>>, "invalid">>} \in SUBSET Answer /\ {} \in SUBSET Answer /\ {f} \in SUBSET Frames
  BY DEF Answer, Outcome
<1>4. CASE f \notin Batches /\ Content[f][1].kind = "garbage"
  <2>1. reader' = [pc |-> "reply", frame |-> {f}, reply |-> {<<<<f, 1>>, "invalid">>}]
    BY <1>4 DEF Read
  <2>2. \A o \in RequestsOf(f) : o[2] \in 1..1 /\ Content[f][o[2]].kind = "request"
    BY <1>4, Items
  <2>3. RequestsOf(f) = {}
    BY <1>4, <2>2
  <2>4. reader' \in Readers /\ reader'.frame = {f} /\ reader'.pc = "reply"
        /\ reader'.reply = {<<<<f, 1>>, "invalid">>}
    BY <1>3, <2>1 DEF Readers
  <2> QED BY <1>1, <1>2, <2>3, <2>4 DEF Reads
<1>5. CASE ~(f \notin Batches /\ Content[f][1].kind = "garbage")
  <2>1. reader' = [pc |-> "enqueue", frame |-> {f}, reply |-> {}]
    BY <1>5 DEF Read
  <2>2. reader' \in Readers /\ reader'.frame = {f} /\ reader'.pc = "enqueue"
    BY <1>3, <2>1 DEF Readers
  <2> QED BY <1>1, <1>2, <2>2 DEF Reads
<1> QED BY <1>4, <1>5

\* The frame at hand marks cancellations among the requests in S, and the
\* client knows what it cancelled.
Marks(f, S) ==
    /\ cancelled \subseteq cancelled' /\ cancelled' \subseteq S
    /\ doomed \subseteq doomed' /\ doomed' \subseteq Requests
    /\ \A o \in doomed' \ doomed : /\ o \notin started /\ o[1] \in sent
                                   /\ o \in S => o \in cancelled'

\* A cancellation that the client counts on is marked: who has seen the answer
\* to `initialize` has `ready` set, and the request it names is pending.
LEMMA Marking ==
    ASSUME IShape, IReady, IPlaces, NEW f \in Frames, NEW S \in SUBSET Requests, cancelled \subseteq S,
           cancelled' = cancelled \cup Marked(f, S), doomed' = doomed \cup Doomed(f)
    PROVE  Marks(f, S)
<1>1. Marked(f, S) \subseteq S
  BY DEF Marked
<1>2. ASSUME NEW o \in Doomed(f)
      PROVE  /\ o \in Requests /\ o \notin started /\ o[1] \in sent
             /\ o \in S => o \in Marked(f, S)
  <2>1. PICK p \in started : ItemAt(p).method = "initialize" /\ "ok" \in Outcomes(p)
    BY DEF Doomed
  <2>2. /\ o \in UNION {RequestsOf(g) : g \in sent} /\ o \notin started
        /\ \E i \in DOMAIN Content[f] : Cancels(Content[f][i]) /\ Content[f][i].id = Id(o)
    BY <2>1 DEF Doomed
  <2>3. ready
    <3>1. PICK r \in delivered : r[1] = p /\ r[2] = "ok"
      BY <2>1 DEF Outcomes
    <3> QED BY <2>1, <3>1 DEF IReady, Outside, Welcomes
  <2>4. PICK g \in sent : o \in RequestsOf(g)
    BY <2>2
  <2>5. g \in Frames
    BY <2>4 DEF IShape
  <2>6. o[1] \in sent /\ o \in Requests
    BY <2>4, <2>5, Items
  <2> QED BY <2>2, <2>3, <2>6 DEF Marked
<1>3. cancelled \subseteq cancelled' /\ cancelled' \subseteq S
  BY <1>1
<1>4. doomed \subseteq doomed' /\ doomed' \subseteq Requests
  BY <1>2 DEF IShape
<1>5. \A o \in doomed' \ doomed : o \notin started /\ o[1] \in sent /\ (o \in S => o \in cancelled')
  BY <1>2
<1> QED BY <1>3, <1>4, <1>5 DEF Marks

\* A frame is refused: what it asks for is answered, what it cancels is marked.
Refuses ==
    \E f \in Frames :
        /\ reader.pc = "enqueue" /\ reader.frame = {f}
        /\ reader' \in Readers /\ reader'.frame = {f}
        /\ \/ reader'.pc = "check" /\ RequestsOf(f) = {}
           \/ /\ reader'.pc = "reply" /\ reader'.reply # {} /\ Single(reader'.reply)
              /\ \A r \in reader'.reply : r[1][1] = f /\ r[2] \in {"limit", "invalid"}
              /\ Complete(f, reader'.reply)
        /\ Marks(f, pending)
        /\ overflow' \in BOOLEAN /\ stale' \in BOOLEAN /\ token' \in BOOLEAN
        /\ UNCHANGED <<jobs, pending, bytes, stop, exit, ready, output, worker, server,
                       sent, started, applied, overrun, announced, delivered>>

\* Refusing a frame.
LEMMA RefusesCases ==
    ASSUME IShape, IReader, IReady, IPlaces, NEW f \in reader.frame, EnqueueRefuse(f)
    PROVE  Refuses
<1> DEFINE broken == {p \in {f} \X DOMAIN Content[f] : ItemAt(p).kind = "malformed"}
           replies == {<<o, "limit">> : o \in RequestsOf(f)} \cup {<<o, "invalid">> : o \in broken}
           loses == \E i \in DOMAIN Content[f] : FileEvent(Content[f][i])
<1>1. reader.pc = "enqueue" /\ reader.frame = {f} /\ f \in Frames /\ reader \in Readers
  <2>1. reader.pc = "enqueue" /\ reader \in Readers
    BY DEF EnqueueRefuse, IShape
  <2>2. \E g \in Frames : reader.frame = {g}
    BY <2>1 DEF IReader
  <2> QED BY <2>1, <2>2
<1>2. /\ reader' = [reader EXCEPT !.reply = replies, !.pc = IF replies = {} THEN "check" ELSE "reply"]
      /\ UNCHANGED <<jobs, pending, bytes, stop, exit, ready, output, worker, server,
                     sent, started, applied, overrun, announced, delivered>>
      /\ IF Oversized(f)
           THEN UNCHANGED <<cancelled, overflow, token, doomed, stale>>
           ELSE /\ cancelled' = cancelled \cup Marked(f, pending) /\ doomed' = doomed \cup Doomed(f)
                /\ overflow' = (overflow \/ loses) /\ stale' = (stale \/ loses)
                /\ token' = (token \/ loses)
  BY DEF EnqueueRefuse
<1>3. /\ \A o \in broken : o \in Frames \X Nat /\ o[1] = f /\ ItemAt(o).kind = "malformed"
      /\ \A o \in RequestsOf(f) : o \in Frames \X Nat /\ o[1] = f /\ ItemAt(o).kind = "request"
  BY <1>1, Items
<1>4. \A r \in replies : /\ r \in Answer /\ r[1][1] = f /\ r[2] \in {"limit", "invalid"}
                         /\ r[2] = "limit" => ItemAt(r[1]).kind = "request"
                         /\ r[2] = "invalid" => ItemAt(r[1]).kind = "malformed"
                         /\ r = <<r[1], r[2]>>
  <2>1. ASSUME NEW o \in RequestsOf(f)
        PROVE  <<o, "limit">> \in Answer /\ <<o, "limit">>[1] = o /\ <<o, "limit">>[2] = "limit"
    BY <1>3 DEF Answer, Outcome
  <2>2. ASSUME NEW o \in broken
        PROVE  <<o, "invalid">> \in Answer /\ <<o, "invalid">>[1] = o /\ <<o, "invalid">>[2] = "invalid"
    BY <1>3 DEF Answer, Outcome
  <2> HIDE DEF broken
  <2> QED BY <1>3, <2>1, <2>2
<1>5. \A o \in RequestsOf(f) : <<o, "limit">> \in replies
  OBVIOUS
<1> HIDE DEF replies, broken
<1>6. Complete(f, replies)
  BY <1>5 DEF Complete, Has
<1>7. Single(replies)
  <2>1. ASSUME NEW r \in replies, NEW q \in replies, r[1] = q[1] PROVE r = q
    <3>1. r[2] = q[2]
      BY <1>4, <2>1
    <3> QED BY <1>4, <2>1, <3>1
  <2> QED BY <2>1 DEF Single
<1>8. replies = {} => RequestsOf(f) = {}
  BY <1>5
<1>9. /\ reader' \in Readers /\ reader'.frame = {f} /\ reader'.reply = replies
      /\ reader'.pc = IF replies = {} THEN "check" ELSE "reply"
  <2>1. replies \in SUBSET Answer
    BY <1>4
  <2> QED BY <1>1, <1>2, <2>1 DEF Readers
<1>10. Marks(f, pending) /\ overflow' \in BOOLEAN /\ stale' \in BOOLEAN /\ token' \in BOOLEAN
  <2>1. CASE Oversized(f)
    <3>1. /\ cancelled' = cancelled /\ doomed' = doomed /\ overflow' = overflow
          /\ stale' = stale /\ token' = token
      BY <1>2, <2>1
    <3> QED BY <3>1 DEF Marks, IShape
  <2>2. CASE ~Oversized(f)
    <3>1. cancelled' = cancelled \cup Marked(f, pending) /\ doomed' = doomed \cup Doomed(f)
      BY <1>2, <2>2
    <3>2. pending \in SUBSET Requests /\ cancelled \subseteq pending
      BY DEF IShape
    <3>3. Marks(f, pending)
      BY <1>1, <3>1, <3>2, Marking
    <3>4. overflow' = (overflow \/ loses) /\ stale' = (stale \/ loses) /\ token' = (token \/ loses)
      BY <1>2, <2>2
    <3>5. overflow' \in BOOLEAN /\ stale' \in BOOLEAN /\ token' \in BOOLEAN
      BY <3>4
    <3> QED BY <3>3, <3>5
  <2> QED BY <2>1, <2>2
<1>11. \/ reader'.pc = "check" /\ RequestsOf(f) = {}
       \/ /\ reader'.pc = "reply" /\ reader'.reply # {} /\ Single(reader'.reply)
          /\ \A r \in reader'.reply : r[1][1] = f /\ r[2] \in {"limit", "invalid"}
          /\ Complete(f, reader'.reply)
  BY <1>4, <1>6, <1>7, <1>8, <1>9
<1> QED BY <1>1, <1>2, <1>9, <1>10, <1>11 DEF Refuses

\* A frame is admitted: its requests are pending from now on.
Admits ==
    \E f \in Frames :
        /\ reader.pc = "enqueue" /\ reader.frame = {f}
        /\ reader' \in Readers /\ reader'.pc = "wake" /\ reader'.frame = {f}
        /\ \A o \in RequestsOf(f), p \in pending \cup RequestsOf(f) : Id(o) = Id(p) => o = p
        /\ ~Full(f)
        /\ pending' = pending \cup RequestsOf(f)
        /\ Marks(f, pending')
        /\ jobs' = Append(jobs, [frame |-> f, items |-> Content[f]])
        /\ bytes' = bytes + Len(Content[f])
        /\ UNCHANGED <<overflow, stop, exit, ready, token, output, worker, server,
                       sent, started, applied, stale, overrun, announced, delivered>>

\* Admitting one.
LEMMA AdmitsCases ==
    ASSUME IShape, IReader, IReady, IPlaces, NEW f \in reader.frame, EnqueueAdmit(f)
    PROVE  Admits
<1>1. reader.pc = "enqueue" /\ reader.frame = {f} /\ f \in Frames /\ reader \in Readers
  <2>1. reader.pc = "enqueue" /\ reader \in Readers
    BY DEF EnqueueAdmit, IShape
  <2>2. \E g \in Frames : reader.frame = {g}
    BY <2>1 DEF IReader
  <2> QED BY <2>1, <2>2
<1>2. /\ ~Duplicate(f) /\ ~Full(f) /\ pending' = pending \cup RequestsOf(f)
      /\ cancelled' = cancelled \cup Marked(f, pending') /\ doomed' = doomed \cup Doomed(f)
      /\ jobs' = Append(jobs, [frame |-> f, items |-> Content[f]])
      /\ bytes' = bytes + Len(Content[f]) /\ reader' = [reader EXCEPT !.pc = "wake"]
      /\ UNCHANGED <<overflow, stop, exit, ready, token, output, worker, server,
                     sent, started, applied, stale, overrun, announced, delivered>>
  BY DEF EnqueueAdmit, ReaderGoto, atomics
<1>3. \A o \in RequestsOf(f), p \in pending \cup RequestsOf(f) : Id(o) = Id(p) => o = p
  BY <1>2 DEF Duplicate
<1>4. Marks(f, pending')
  <2>1. pending' \in SUBSET Requests /\ cancelled \subseteq pending'
    <3>1. RequestsOf(f) \subseteq Requests
      BY <1>1, Items
    <3> QED BY <1>2, <3>1 DEF IShape
  <2> DEFINE S == pending'
  <2>2. S \in SUBSET Requests /\ cancelled \subseteq S /\ cancelled' = cancelled \cup Marked(f, S)
    BY <1>2, <2>1
  <2> HIDE DEF S
  <2>3. Marks(f, S)
    BY <1>1, <1>2, <2>2, Marking
  <2> QED BY <2>3 DEF S
<1>5. reader' \in Readers /\ reader'.pc = "wake" /\ reader'.frame = {f}
  BY <1>1, <1>2 DEF Readers
<1> QED BY <1>1, <1>2, <1>3, <1>4, <1>5 DEF Admits

\* A reply of the reader goes into the channel.
Replies ==
    \E m \in Message, f \in Frames :
        /\ reader.pc = "reply" /\ reader.frame = {f}
        /\ reader' \in Readers /\ reader'.pc = "count" /\ reader'.frame = reader.frame
        /\ stop = Running /\ writer.pc # "done"
        /\ Silent(channel) /\ channel' = <<m>> /\ Lone(m)
        /\ Made(m, f) /\ m.replies = reader.reply /\ m.release = {}
        /\ UNCHANGED <<jobs, pending, cancelled, bytes, overflow, stop, exit, ready, token,
                       writer, published, written, worker, server, history>>

\* The reader counts a reply it has handed over.
Tallies ==
    /\ reader.pc = "count" /\ reader' \in Readers /\ reader'.pc = "check" /\ reader'.frame = reader.frame
    /\ published' = published + 1
    /\ UNCHANGED <<jobs, pending, cancelled, bytes, overflow, stop, exit, ready, token,
                   writer, channel, written, worker, server, history>>

\* Sending a reply of the reader, or giving it up.
LEMMA RepliesCases == ASSUME IShape, IReader, ReaderSend PROVE Replies \/ Pauses
<1>1. /\ reader.pc = "reply" /\ reader \in Readers
      /\ UNCHANGED <<queue, exit, ready, writer, published, written, worker, server, history>>
  BY DEF ReaderSend, IShape
<1>2. PICK f \in Frames : reader.frame = {f}
  BY <1>1 DEF IReader
<1>3. /\ reader.reply \in SUBSET Answer /\ reader.reply # {} /\ Single(reader.reply)
      /\ About(reader.reply, f)
  BY <1>1, <1>2 DEF IReader, Readers, About
<1>4. CASE /\ Room /\ channel' = Append(channel, Reply(reader.reply, {})) /\ ReaderGoto("count")
           /\ UNCHANGED <<stop, token>>
  <2> DEFINE m == Reply(reader.reply, {})
  <2>1. channel = <<>>
    <3>1. channel \in Seq(Message) /\ Len(channel) \in Nat /\ Len(channel) < 1
      BY <1>4 DEF IShape, Room
    <3>2. Len(channel) = 0
      BY <3>1
    <3> QED BY <3>1, <3>2, Empty, Zenon
  <2>2. channel' = <<m>>
    BY <1>4, <2>1
  <2>3. m \in Message /\ m.replies = reader.reply /\ m.release = {} /\ m.changed = {}
    BY <1>3 DEF Reply, Message
  <2> HIDE DEF m
  <2>4. Made(m, f)
    BY <1>3, <2>3 DEF Made
  <2>5. Lone(m) /\ Silent(channel)
    BY <2>1, <2>3, Alone, Silence
  <2>6. reader' \in Readers /\ reader'.pc = "count" /\ reader'.frame = reader.frame
    BY <1>1, <1>4 DEF ReaderGoto, Readers
  <2>7. stop = Running /\ writer.pc # "done"
    BY <1>4 DEF Room
  <2>8. UNCHANGED <<jobs, pending, cancelled, bytes, overflow, stop, exit, ready, token,
                    writer, published, written, worker, server, history>>
    BY <1>1, <1>4 DEF queue
  <2> QED BY <1>1, <1>2, <2>2, <2>3, <2>4, <2>5, <2>6, <2>7, <2>8 DEF Replies
<1>5. CASE /\ IF stop = Running THEN Stop(1) ELSE UNCHANGED <<stop, token>>
           /\ ReaderGoto("check") /\ UNCHANGED channel
  BY <1>1, <1>5, PausesCases
<1> QED BY <1>4, <1>5 DEF ReaderSend

\* Counting it.
LEMMA TalliesCases == ASSUME IShape, ReaderCount PROVE Tallies
<1>1. reader' \in Readers /\ reader'.pc = "check" /\ reader'.frame = reader.frame
  BY DEF ReaderCount, ReaderGoto, Readers, IShape
<1> QED BY <1>1 DEF ReaderCount, Tallies, queue, atomics

-----------------------------------------------------------------------------
(* What the steps of the writer do.                                         *)

\* The writer is gone: the connection is stopped, or it breaks.
Quits ==
    /\ writer.pc \in {"receive", "write"} /\ writer'.pc = "done" /\ writer' \in Writers
    /\ stop' # Running /\ Halts /\ token' \in BOOLEAN
    /\ channel' \in Seq(Message) /\ Len(channel') <= 1 /\ ToSet(channel') \subseteq ToSet(channel)
    /\ UNCHANGED <<jobs, exit, ready, pending, cancelled, bytes, overflow, published, written,
                   reader, worker, server, history>>

\* The writer takes a message.
Receives ==
    \E m \in Message :
        /\ writer.pc = "receive" /\ writer'.pc = "write" /\ writer' \in Writers
        /\ writer'.message = <<m>> /\ Sane(m) /\ stop = Running
        /\ channel = <<m>> /\ Lone(m) /\ Silent(channel')
        /\ UNCHANGED <<jobs, pending, cancelled, bytes, overflow, stop, exit, ready, token,
                       published, written, reader, worker, server, history>>

\* It is written, and answers what was not answered before.
Writes ==
    \E m \in Message :
        /\ writer.pc = "write" /\ writer'.pc = "release" /\ writer' \in Writers
        /\ writer.message[1] = m /\ writer'.message = writer.message /\ Sane(m)
        /\ delivered' = delivered \cup m.replies
        /\ announced' = announced \cup m.changed
        /\ UNCHANGED <<jobs, pending, cancelled, bytes, overflow, stop, exit, ready, token, channel,
                       published, written, reader, worker, server, sent, started, applied, doomed,
                       stale, overrun>>

\* What it releases is no longer pending.
Releases ==
    \E m \in Message :
        /\ writer.pc = "release" /\ writer'.pc = "count" /\ writer' \in Writers
        /\ writer.message[1] = m /\ writer'.message = writer.message /\ Sane(m)
        /\ pending' = pending \ m.release /\ cancelled' = cancelled \ m.release
        /\ UNCHANGED <<jobs, bytes, overflow, stop, exit, ready, token, channel, published, written,
                       reader, worker, server, history>>

\* It is counted.
Closes ==
    /\ writer.pc = "count" /\ writer'.pc = "receive" /\ writer' \in Writers
    /\ written' = written + 1 /\ token' \in BOOLEAN
    /\ UNCHANGED <<jobs, pending, cancelled, bytes, overflow, stop, exit, ready, channel, published,
                   reader, worker, server, history>>

\* Taking a message from the channel, or stopping.
LEMMA ReceiveCases == ASSUME IShape, IWriter, Receive PROVE Receives \/ Quits
<1>1. /\ writer.pc = "receive" /\ channel # <<>> /\ channel' = Tail(channel)
      /\ writer' = IF stop = Running THEN [pc |-> "write", message |-> <<Head(channel)>>]
                   ELSE [pc |-> "done", message |-> <<>>]
      /\ pending' = pending /\ cancelled' = cancelled
      /\ UNCHANGED <<jobs, bytes, overflow, stop, exit, ready, token, published, written, reader,
                     worker, server, history>>
  BY DEF Receive, ReceiveWith, atomics
<1>2. /\ channel \in Seq(Message) /\ Len(channel) = 1 /\ Head(channel) = channel[1]
      /\ channel[1] \in Message /\ Tail(channel) \in Seq(Message) /\ channel = <<channel[1]>>
  <2>1. channel \in Seq(Message) /\ Len(channel) <= 1 /\ Len(channel) \in Nat
    BY DEF IShape
  <2>2. Len(channel) # 0
    BY <1>1, <2>1, Empty, Zenon
  <2>3. Len(channel) = 1
    <3>1. \A n \in Nat : n <= 1 /\ n # 0 => n = 1
      OBVIOUS
    <3> QED BY <2>1, <2>2, <3>1, Zenon
  <2>4. Head(channel) = channel[1] /\ channel[1] \in Message /\ Tail(channel) \in Seq(Message)
    BY <1>1, <2>1, <2>3
  <2>5. channel = <<channel[1]>>
    BY <2>1, <2>3
  <2> QED BY <2>1, <2>3, <2>4, <2>5
<1>3. Tail(channel) = <<>>
  BY <1>1, <1>2, Elements
<1>4. Silent(channel')
  BY <1>1, <1>3, Silence
<1>5. CASE stop = Running
  <2>1. /\ writer' = [pc |-> "write", message |-> <<channel[1]>>]
    BY <1>1, <1>2, <1>5
  <2>2. writer' \in Writers /\ writer'.pc = "write" /\ writer'.message = <<channel[1]>>
    <3>1. <<channel[1]>> \in Seq(Message)
      BY <1>2
    <3> QED BY <2>1, <3>1 DEF Writers
  <2>3. Lone(channel[1]) /\ Sane(channel[1])
    <3>1. channel[1] \in ToSet(channel)
      BY <1>2, Elements
    <3> QED BY <1>2, <3>1, Alone DEF IWriter
  <2> DEFINE m == channel[1]
  <2>4. m \in Message /\ channel = <<m>> /\ writer'.message = <<m>> /\ Lone(m) /\ Sane(m)
    BY <1>2, <2>2, <2>3
  <2> HIDE DEF m
  <2> QED BY <1>1, <1>4, <1>5, <2>2, <2>4 DEF Receives
<1>6. CASE stop # Running
  <2>1. writer' = [pc |-> "done", message |-> <<>>]
    BY <1>1, <1>6
  <2>2. writer' \in Writers /\ writer'.pc = "done"
    <3>1. <<>> \in Seq(Message)
      OBVIOUS
    <3> QED BY <2>1, <3>1 DEF Writers
  <2>3. channel' \in Seq(Message) /\ Len(channel') <= 1 /\ ToSet(channel') \subseteq ToSet(channel)
    BY <1>4 DEF Silent
  <2> QED BY <1>1, <1>6, <2>2, <2>3 DEF Quits, Halts, IShape
<1> QED BY <1>5, <1>6

\* A write that fails.
LEMMA QuitsCases == ASSUME IShape, WriteFails PROVE Quits
<1>1. /\ writer.pc = "write" /\ writer' = [pc |-> "done", message |-> <<>>]
      /\ Stop(1) /\ channel' = channel
      /\ UNCHANGED <<jobs, exit, ready, pending, cancelled, bytes, overflow, published, written,
                     reader, worker, server, history>>
  BY DEF WriteFails, queue
<1>2. writer' \in Writers /\ writer'.pc = "done"
  <2>1. <<>> \in Seq(Message)
    OBVIOUS
  <2> QED BY <1>1, <2>1 DEF Writers
<1>3. Halts /\ stop' # Running /\ token' \in BOOLEAN
  <2>1. stop \in {Running, 0, 1, 2}
    BY DEF IShape
  <2> QED BY <1>1, <2>1 DEF Halts, Stop, Running
<1>4. channel' \in Seq(Message) /\ Len(channel') <= 1
  BY <1>1 DEF IShape
<1> QED BY <1>1, <1>2, <1>3, <1>4 DEF Quits

\* What the writer has.
LEMMA Writing ==
    ASSUME IShape, IWriter, writer.pc \in {"write", "release", "count"}
    PROVE  writer.message[1] \in Message /\ Sane(writer.message[1]) /\ writer \in Writers
<1>1. writer \in Writers /\ Len(writer.message) = 1 /\ Sane(writer.message[1])
  BY DEF IShape, IWriter
<1>2. writer.message \in Seq(Message)
  BY <1>1 DEF Writers
<1> QED BY <1>1, <1>2

\* A write.
LEMMA WritesCases == ASSUME IShape, IWriter, IPlaces, Write PROVE Writes
<1> DEFINE m == writer.message[1]
<1>1. /\ writer.pc = "write" /\ writer' = [writer EXCEPT !.pc = "release"]
      /\ delivered' = Written(m.replies) /\ announced' = announced \cup m.changed
      /\ UNCHANGED <<jobs, pending, cancelled, bytes, overflow, stop, exit, ready, token, channel,
                     published, written, reader, worker, server, sent, started, applied, doomed,
                     stale, overrun>>
  BY DEF Write, WriterGoto, queue, atomics
<1>2. m \in Message /\ Sane(m) /\ writer \in Writers
  BY <1>1, Writing
<1>3. writer' \in Writers /\ writer'.pc = "release" /\ writer'.message = writer.message
  BY <1>1, <1>2 DEF Writers
<1>4. FramesOf(m.replies) \cap FramesOf(delivered) = {}
  BY <1>1 DEF IPlaces, Apart, WriterFrames
<1> HIDE DEF m
<1>5. Single(m.replies)
  BY <1>2, SaneFrames
<1>6. \A q \in m.replies : Outcomes(q[1]) = {} /\ \A p \in m.replies \ {q} : p[1] # q[1]
  <2>1. ASSUME NEW q \in m.replies, NEW d \in delivered PROVE d[1] # q[1]
    <3>1. q[1][1] \in FramesOf(m.replies) /\ d[1][1] \in FramesOf(delivered)
      BY DEF FramesOf
    <3> QED BY <1>4, <3>1
  <2>2. \A q \in m.replies : Outcomes(q[1]) = {}
    BY <2>1 DEF Outcomes
  <2>3. \A q \in m.replies : \A p \in m.replies \ {q} : p[1] # q[1]
    BY <1>5 DEF Single
  <2> QED BY <2>2, <2>3
<1>7. delivered' = delivered \cup m.replies
  <2>1. {q \in m.replies : Outcomes(q[1]) # {} \/ \E p \in m.replies \ {q} : p[1] = q[1]} = {}
    BY <1>6
  <2> QED BY <1>1, <2>1 DEF Written
<1> QED BY <1>1, <1>2, <1>3, <1>7 DEF m, Writes

\* The release of what it answered.
LEMMA ReleasesCases == ASSUME IShape, IWriter, ReleaseIds PROVE Releases
<1> DEFINE m == writer.message[1]
<1>1. /\ writer.pc = "release" /\ writer' = [writer EXCEPT !.pc = "count"]
      /\ pending' = pending \ m.release /\ cancelled' = cancelled \ m.release
      /\ UNCHANGED <<jobs, bytes, overflow, stop, exit, ready, token, channel, published, written,
                     reader, worker, server, history>>
  BY DEF ReleaseIds, WriterGoto, atomics
<1>2. m \in Message /\ Sane(m) /\ writer \in Writers
  BY <1>1, Writing
<1>3. writer' \in Writers /\ writer'.pc = "count" /\ writer'.message = writer.message
  BY <1>1, <1>2 DEF Writers
<1> QED BY <1>1, <1>2, <1>3 DEF Releases

\* The end of a write.
LEMMA ClosesCases == ASSUME IShape, CountWritten PROVE Closes
<1>1. /\ writer.pc = "count" /\ writer' = [pc |-> "receive", message |-> <<>>]
      /\ written' = written + 1 /\ token' = TRUE
      /\ UNCHANGED <<jobs, pending, cancelled, bytes, overflow, stop, exit, ready, channel, published,
                     reader, worker, server, history>>
  BY DEF CountWritten, Unpark, queue
<1>2. writer' \in Writers /\ writer'.pc = "receive"
  <2>1. <<>> \in Seq(Message)
    OBVIOUS
  <2> QED BY <1>1, <2>1 DEF Writers
<1> QED BY <1>1, <1>2 DEF Closes

-----------------------------------------------------------------------------
(* Every step is one of these.                                              *)

\* What an item may ask of the server: the end, when it is the exit of its
\* frame, and never a server that is not initialized.
Asks ==
    /\ \/ exit' = exit
       \/ exit' \in {0, 1} /\ Exits(Content[worker.job[1].frame][worker.item])
    /\ server' \in [initialized : BOOLEAN, closing : BOOLEAN, session : BOOLEAN,
                    refresh : BOOLEAN, index : 0..Descriptors]

\* Only an exit asks for the end.
LEMMA AsksCases ==
    ASSUME IShape, IWorker,
           \/ Malformed \/ FilesChanged \/ SkipFiles \/ ExitNotification \/ OtherNotification
           \/ Begin /\ Current \in cancelled
           \/ Late
    PROVE  Asks
<1>1. CASE ExitNotification
  <2>1. /\ worker.pc = "item" /\ ~JobOver /\ Exits(CurrentItem) /\ exit' = (IF server.closing THEN 0 ELSE 1)
        /\ server' = server
    BY <1>1 DEF ExitNotification
  <2>2. Exits(Content[worker.job[1].frame][worker.item])
    <3>1. LET f == worker.job[1].frame
          IN  /\ worker.item \in Nat /\ worker.item \in 1..(Len(Content[f]) + 1)
              /\ Len(worker.job[1].items) = Len(Content[f]) /\ Len(Content[f]) \in Nat
              /\ worker.item \in 1..Len(Content[f]) =>
                    (Exits(CurrentItem) => Exits(Content[f][worker.item]))
      BY <2>1, InHand0
    <3>2. ~(worker.item > Len(worker.job[1].items))
      BY <2>1 DEF JobOver
    <3>3. worker.item \in 1..Len(Content[worker.job[1].frame])
      BY <3>1, <3>2
    <3> QED BY <2>1, <3>1, <3>3
  <2> QED BY <2>1, <2>2 DEF Asks, IShape
<1>2. CASE \/ Malformed \/ SkipFiles \/ OtherNotification
           \/ Begin /\ Current \in cancelled
           \/ Late
  BY <1>2 DEF Malformed, SkipFiles, OtherNotification, Begin, Late, Asks, IShape, atomics
<1>3. CASE FilesChanged
  BY <1>3 DEF FilesChanged, Asks, IShape, atomics
<1> QED BY <1>1, <1>2, <1>3

\* What the worker does about jobs, what it does about messages, what the reader
\* does, and what the writer does.
Processes == Rests \/ Takes \/ (Handles /\ Asks) \/ Begins \/ Acts \/ Finishes
Transfers == Ships \/ Drops \/ Counts
Listens == Pauses \/ Reads \/ Refuses \/ Admits \/ Replies \/ Tallies
Prints == Receives \/ Quits \/ Writes \/ Releases \/ Closes

\* One of these.
Steps == Processes \/ Transfers \/ Listens \/ Prints

\* Every action of the model is in one of the classes.
LEMMA Classes == ASSUME IInv, Next PROVE Steps
<1>1. IShape /\ IWorker /\ IReader /\ IWriter /\ IPlaces /\ IReady /\ IExit
  BY DEF IInv
<1>2. ASSUME Reader PROVE Listens
  <2>1. CASE ReaderCheck \/ Wake
    BY <1>1, <2>1, PausesCases DEF Listens
  <2>2. CASE ReaderSend
    BY <1>1, <2>2, RepliesCases DEF Listens
  <2>3. CASE ReaderCount
    BY <1>1, <2>3, TalliesCases DEF Listens
  <2>4. ASSUME NEW f \in reader.frame, EnqueueDuplicate(f) PROVE Listens
    BY <1>1, <2>4, PausesCases DEF Listens
  <2>5. ASSUME NEW f \in reader.frame, EnqueueRefuse(f) PROVE Listens
    BY <1>1, <2>5, RefusesCases DEF Listens
  <2>6. ASSUME NEW f \in reader.frame, EnqueueAdmit(f) PROVE Listens
    BY <1>1, <2>6, AdmitsCases DEF Listens
  <2> QED BY <1>2, <2>1, <2>2, <2>3, <2>4, <2>5, <2>6 DEF Reader
<1>3. ASSUME Worker PROVE Processes \/ Transfers
  <2>1. CASE WorkerCheck \/ IndexStep \/ Idle \/ Park \/ JobDone \/ Flush \/ FlushPark \/ FlushWake
    BY <1>1, <2>1, RestsCases DEF Processes
  <2>2. CASE Pop
    <3>1. CASE jobs = <<>>
      BY <1>1, <2>2, <3>1, RestsCases DEF Processes
    <3>2. CASE jobs # <<>>
      BY <1>1, <2>2, <3>2, TakesCases DEF Processes
    <3> QED BY <3>1, <3>2
  <2>3. CASE FinishJob
    BY <1>1, <2>3, FinishesCases DEF Processes
  <2>4. CASE Malformed \/ FilesChanged \/ SkipFiles \/ ExitNotification \/ OtherNotification
    BY <1>1, <2>4, HandlesCases, AsksCases DEF Processes
  <2>5. CASE Begin
    <3>1. CASE Current \in cancelled
      BY <1>1, <2>5, <3>1, HandlesCases, AsksCases DEF Processes
    <3>2. CASE Current \notin cancelled
      BY <1>1, <2>5, <3>2, BeginsCases DEF Processes
    <3> QED BY <3>1, <3>2
  <2>6. CASE Execute
    BY <1>1, <2>6, ActsCases DEF Processes
  <2>7. CASE Late
    BY <1>1, <2>7, HandlesLate, AsksCases DEF Processes
  <2>8. CASE WorkerSend
    BY <1>1, <2>8, SendsCases DEF Transfers
  <2>9. CASE WorkerCount
    BY <1>1, <2>9, CountsCases DEF Transfers
  <2> QED BY <1>3, <2>1, <2>2, <2>3, <2>4, <2>5, <2>6, <2>7, <2>8, <2>9 DEF Worker
<1>4. ASSUME Writer PROVE Prints
  <2>1. CASE Receive
    BY <1>1, <2>1, ReceiveCases DEF Prints
  <2>2. CASE Write
    BY <1>1, <2>2, WritesCases DEF Prints
  <2>3. CASE ReleaseIds
    BY <1>1, <2>3, ReleasesCases DEF Prints
  <2>4. CASE CountWritten
    BY <1>1, <2>4, ClosesCases DEF Prints
  <2> QED BY <1>4, <2>1, <2>2, <2>3, <2>4 DEF Writer
<1>5. ASSUME Client PROVE Listens
  BY <1>5, ReadsCases DEF Client, Listens
<1>6. ASSUME Fault PROVE Listens \/ Prints
  <2>1. CASE EndOfInput("eof", 0) \/ EndOfInput("truncated", 2)
    BY <1>1, <2>1, PausesCases DEF Listens
  <2>2. CASE WriteFails
    BY <1>1, <2>2, QuitsCases DEF Prints
  <2> QED BY <1>6, <2>1, <2>2 DEF Fault
<1> QED BY <1>2, <1>3, <1>4, <1>5, <1>6 DEF Next, Steps

-----------------------------------------------------------------------------
(* Each part of the invariant is kept by every step.                        *)

\* Everything keeps its type.
LEMMA ShapeStep == ASSUME IInv, Steps PROVE IShape'
<1>1. IShape /\ IWorker
  BY DEF IInv
<1>2. stop \in {Running, 0, 1, 2} /\ (Halts => stop' \in {Running, 0, 1, 2})
  BY <1>1 DEF IShape, Halts
<1>3. CASE Rests
  BY <1>1, <1>2, <1>3 DEF Rests, IShape, output, history
<1>4. CASE Takes
  <2>1. jobs' \in Seq(Job) /\ bytes' \in Int
    <3>1. jobs \in Seq(Job) /\ jobs # <<>> /\ jobs' = Tail(jobs) /\ bytes' = bytes - Len(Head(jobs).items)
      BY <1>1, <1>4 DEF Takes, IShape
    <3>2. Head(jobs) \in Job
      BY <3>1
    <3>3. Head(jobs).items \in Seq(Entry)
      BY <3>2 DEF Job
    <3> QED BY <1>1, <3>1, <3>3 DEF IShape
  <2> QED BY <1>1, <1>4, <2>1 DEF Takes, IShape, output, history
<1>5. CASE Handles /\ Asks
  <2>1. exit' \in {Running, 0, 1, 2}
    BY <1>1, <1>5 DEF Asks, IShape
  <2>2. server' \in [initialized : BOOLEAN, closing : BOOLEAN, session : BOOLEAN,
                    refresh : BOOLEAN, index : 0..Descriptors]
    BY <1>5 DEF Asks
  <2> QED BY <1>1, <1>5, <2>1, <2>2 DEF Handles, SameQueue, IShape, output, history
<1>6. CASE Begins
  BY <1>1, <1>6 DEF Begins, IShape, output
<1>7. CASE Acts
  BY <1>1, <1>7 DEF Acts, IShape, output
<1>8. CASE Finishes
  BY <1>1, <1>8 DEF Finishes, IShape, output, history
<1>9. CASE Ships
  BY <1>1, <1>9 DEF Ships, Lone, IShape, history
<1>10. CASE Drops
  BY <1>1, <1>2, <1>10 DEF Drops, IShape, output, history
<1>11. CASE Counts
  BY <1>1, <1>11 DEF Counts, IShape, history
<1>12. CASE Pauses
  BY <1>1, <1>2, <1>12 DEF Pauses, IShape, output, history
<1>13. CASE Reads
  BY <1>1, <1>13 DEF Reads, IShape, output
<1>14. CASE Refuses
  BY <1>1, <1>14 DEF Refuses, Marks, IShape, output
<1>15. CASE Admits
  <2>1. PICK f \in Frames :
          /\ jobs' = Append(jobs, [frame |-> f, items |-> Content[f]])
          /\ bytes' = bytes + Len(Content[f])
          /\ pending' = pending \cup RequestsOf(f)
          /\ Marks(f, pending') /\ reader' \in Readers
          /\ UNCHANGED <<overflow, stop, exit, ready, token, output, worker, server,
                         sent, started, applied, stale, overrun, announced, delivered>>
    BY <1>15 DEF Admits
  <2>2. Content[f] \in Seq(Item) /\ Len(Content[f]) \in Nat /\ RequestsOf(f) \subseteq Requests
    BY Items
  <2>3. Content[f] \in Seq(Entry)
    BY <2>2 DEF Entry
  <2>4. jobs' \in Seq(Job)
    BY <1>1, <2>1, <2>3 DEF IShape, Job
  <2> QED BY <1>1, <2>1, <2>2, <2>4 DEF Marks, IShape, output
<1>16. CASE Replies
  BY <1>1, <1>16 DEF Replies, Lone, IShape, history
<1>17. CASE Tallies
  BY <1>1, <1>17 DEF Tallies, IShape, history
<1>18. CASE Receives
  BY <1>1, <1>18 DEF Receives, Silent, IShape, history
<1>19. CASE Quits
  BY <1>1, <1>2, <1>19 DEF Quits, IShape, history
<1>20. CASE Writes
  <2>1. PICK m \in Message : Sane(m) /\ announced' = announced \cup m.changed
    BY <1>20 DEF Writes
  <2>2. announced' \subseteq Requests
    BY <1>1, <2>1 DEF IShape, Message
  <2> QED BY <1>1, <1>20, <2>2 DEF Writes, IShape
<1>21. CASE Releases
  BY <1>1, <1>21 DEF Releases, IShape, history
<1>22. CASE Closes
  BY <1>1, <1>22 DEF Closes, IShape, history
<1> QED BY <1>3, <1>4, <1>5, <1>6, <1>7, <1>8, <1>9, <1>10, <1>11, <1>12, <1>13, <1>14, <1>15,
           <1>16, <1>17, <1>18, <1>19, <1>20, <1>21, <1>22
        DEF Steps, Processes, Transfers, Listens, Prints

\* The worker's own part is kept by what the worker does.
LEMMA WorkerStep == ASSUME IInv, Steps PROVE IWorker'
<1>1. IWorker
  BY DEF IInv
<1>2. CASE Processes
  <2>1. CASE Rests \/ Takes \/ Acts \/ Finishes
    BY <2>1 DEF Rests, Takes, Acts, Finishes, IWorker, history
  <2>2. CASE Handles \/ Begins
    BY <2>2 DEF Handles, Begins, IWorker
  <2> QED BY <1>2, <2>1, <2>2 DEF Processes
<1>3. CASE Transfers
  BY <1>3 DEF Transfers, Ships, Drops, Counts, IWorker, history
<1>4. CASE Listens
  BY <1>1, <1>4 DEF Listens, Pauses, Reads, Refuses, Admits, Replies, Tallies, IWorker, history
<1>5. CASE Prints
  BY <1>1, <1>5 DEF Prints, Receives, Quits, Writes, Releases, Closes, IWorker, history
<1> QED BY <1>2, <1>3, <1>4, <1>5 DEF Steps

\* The reader's part.
LEMMA ReaderStep == ASSUME IInv, Steps PROVE IReader'
<1>1. IReader
  BY DEF IInv
<1>2. CASE Processes
  BY <1>1, <1>2 DEF Processes, Rests, Takes, Handles, Begins, Acts, Finishes, IReader
<1>3. CASE Transfers
  BY <1>1, <1>3 DEF Transfers, Ships, Drops, Counts, IReader
<1>4. CASE Pauses
  BY <1>1, <1>4 DEF Pauses, IReader
<1>5. CASE Reads
  <2>1. PICK f \in Frames :
            /\ reader'.frame = {f}
            /\ \/ reader'.pc = "enqueue"
               \/ reader'.pc = "reply" /\ reader'.reply = {<<<<f, 1>>, "invalid">>}
    BY <1>5 DEF Reads
  <2>2. CASE reader'.pc = "enqueue"
    BY <2>1, <2>2 DEF IReader
  <2>3. CASE reader'.pc = "reply" /\ reader'.reply = {<<<<f, 1>>, "invalid">>}
    <3>1. Single(reader'.reply)
      BY <2>3 DEF Single
    <3> QED BY <2>1, <2>3, <3>1 DEF IReader
  <2> QED BY <2>1, <2>2, <2>3
<1>6. CASE Refuses
  BY <1>6 DEF Refuses, IReader
<1>7. CASE Admits
  BY <1>7 DEF Admits, IReader
<1>8. CASE Replies
  BY <1>8 DEF Replies, IReader
<1>9. CASE Tallies
  BY <1>9 DEF Tallies, IReader
<1>10. CASE Prints
  BY <1>1, <1>10 DEF Prints, Receives, Quits, Writes, Releases, Closes, IReader
<1> QED BY <1>2, <1>3, <1>4, <1>5, <1>6, <1>7, <1>8, <1>9, <1>10 DEF Steps, Listens

\* The writer's part.
LEMMA WriterStep == ASSUME IInv, Steps PROVE IWriter'
<1>1. IWriter /\ IShape
  BY DEF IInv
<1>2. stop # Running /\ Halts => stop' # Running
  BY DEF Halts
<1>3. CASE Processes
  BY <1>1, <1>2, <1>3
     DEF Processes, Rests, Takes, Handles, Begins, Acts, Finishes, IWriter, output
<1>4. CASE Ships
  <2>1. PICK m \in Message : /\ Detaches(worker, worker', m) /\ channel' = <<m>> /\ Lone(m)
                             /\ UNCHANGED <<writer, stop>>
    BY <1>4 DEF Ships
  <2>2. Sane(m) /\ ToSet(channel') = {m}
    BY <2>1 DEF Detaches, Lone
  <2> QED BY <1>1, <2>1, <2>2 DEF IWriter
<1>5. CASE Drops \/ Counts
  BY <1>1, <1>2, <1>5 DEF Drops, Counts, IWriter, output
<1>6. CASE Replies
  <2>1. PICK m \in Message, f \in Frames : /\ Made(m, f) /\ channel' = <<m>> /\ Lone(m)
                                           /\ UNCHANGED <<writer, stop>>
    BY <1>6 DEF Replies
  <2>2. Sane(m) /\ ToSet(channel') = {m}
    BY <2>1 DEF Sane, Lone
  <2> QED BY <1>1, <2>1, <2>2 DEF IWriter
<1>7. CASE Pauses \/ Reads \/ Refuses \/ Admits \/ Tallies
  BY <1>1, <1>2, <1>7 DEF Pauses, Reads, Refuses, Admits, Tallies, IWriter, output
<1>8. CASE Receives
  <2>1. PICK m \in Message : /\ writer'.pc = "write" /\ writer'.message = <<m>> /\ Sane(m)
                             /\ Silent(channel')
    BY <1>8 DEF Receives
  <2> QED BY <2>1 DEF IWriter, Silent
<1>9. CASE Quits
  BY <1>1, <1>9 DEF Quits, IWriter
<1>10. CASE Writes \/ Releases \/ Closes
  BY <1>1, <1>10 DEF Writes, Releases, Closes, IWriter
<1> QED BY <1>3, <1>4, <1>5, <1>6, <1>7, <1>8, <1>9, <1>10 DEF Steps, Transfers, Listens, Prints

\* Frames handed over are counted once, whatever is in between.
LEMMA CountStep == ASSUME IInv, Steps PROVE ICount'
<1>1. ICount /\ IShape /\ published \in Nat /\ written \in Nat /\ IReader /\ IWriter
  BY DEF IInv, IShape
<1>2. Halts /\ stop' = Running => stop = Running
  BY DEF Halts
<1> SUFFICES ASSUME stop' = Running
             PROVE  published' + One(reader'.pc = "count") + One(worker'.pc = "count")
                    = written' + Len(channel') + One(writer'.pc \in {"write", "release", "count"})
  BY DEF ICount
<1>3. stop = Running =>
        published + One(reader.pc = "count") + One(worker.pc = "count")
        = written + Len(channel) + One(writer.pc \in {"write", "release", "count"})
  BY <1>1 DEF ICount
<1>4. CASE Processes
  <2>1. CASE Handles \/ Takes \/ Begins \/ Acts \/ Finishes
    <3>1. /\ stop = Running /\ UNCHANGED <<published, written, channel, writer, reader>>
          /\ worker.pc # "count" /\ worker'.pc # "count"
      BY <2>1 DEF Handles, Takes, Begins, Acts, Finishes, output
    <3> QED BY <1>3, <3>1 DEF One
  <2>2. CASE Rests
    <3>1. /\ stop = Running /\ UNCHANGED <<published, written, channel, writer, reader>>
          /\ worker.pc # "count" /\ worker'.pc # "count"
      BY <1>2, <2>2 DEF Rests, output
    <3> QED BY <1>3, <3>1 DEF One
  <2> QED BY <1>4, <2>1, <2>2 DEF Processes
<1>5. CASE Ships
  <2>1. /\ stop = Running /\ UNCHANGED <<published, written, writer, reader>>
        /\ worker.pc # "count" /\ worker'.pc = "count" /\ Len(channel) = 0 /\ Len(channel') = 1
    BY <1>5 DEF Ships, Detaches, Silent, Lone
  <2> QED BY <1>1, <1>3, <2>1 DEF One
<1>6. CASE Drops
  BY <1>6 DEF Drops
<1>7. CASE Counts
  <2>1. /\ stop = Running /\ UNCHANGED <<written, channel, writer, reader>>
        /\ worker.pc = "count" /\ worker'.pc # "count" /\ published' = published + 1
    <3>1. worker.next # "count"
      BY <1>1 DEF IShape, Workers
    <3> QED BY <1>7, <3>1 DEF Counts, Advances
  <2> QED BY <1>1, <1>3, <2>1 DEF One
<1>8. CASE Pauses
  <2>1. /\ stop = Running /\ UNCHANGED <<published, written, channel, writer, worker>>
        /\ reader.pc # "count" /\ reader'.pc # "count"
    BY <1>2, <1>8 DEF Pauses, output
  <2> QED BY <1>3, <2>1 DEF One
<1>9. CASE Reads \/ Refuses \/ Admits
  <2>1. /\ stop = Running /\ UNCHANGED <<published, written, channel, writer, worker>>
        /\ reader.pc # "count" /\ reader'.pc # "count"
    BY <1>9 DEF Reads, Refuses, Admits, output
  <2> QED BY <1>3, <2>1 DEF One
<1>10. CASE Replies
  <2>1. /\ stop = Running /\ UNCHANGED <<published, written, writer, worker>>
        /\ reader.pc # "count" /\ reader'.pc = "count" /\ Len(channel) = 0 /\ Len(channel') = 1
    BY <1>10 DEF Replies, Silent, Lone
  <2> QED BY <1>1, <1>3, <2>1 DEF One
<1>11. CASE Tallies
  <2>1. /\ stop = Running /\ UNCHANGED <<written, channel, writer, worker>>
        /\ reader.pc = "count" /\ reader'.pc # "count" /\ published' = published + 1
    BY <1>11 DEF Tallies
  <2> QED BY <1>1, <1>3, <2>1 DEF One
<1>12. CASE Receives
  <2>1. /\ stop = Running /\ UNCHANGED <<published, written, reader, worker>>
        /\ writer.pc = "receive" /\ writer'.pc = "write" /\ Len(channel) = 1 /\ Len(channel') = 0
    BY <1>12 DEF Receives, Silent, Lone
  <2> QED BY <1>1, <1>3, <2>1 DEF One
<1>13. CASE Quits
  BY <1>13 DEF Quits
<1>14. CASE Writes \/ Releases
  <2>1. /\ stop = Running /\ UNCHANGED <<published, written, channel, reader, worker>>
        /\ writer.pc \in {"write", "release"} /\ writer'.pc \in {"release", "count"}
    BY <1>14 DEF Writes, Releases
  <2> QED BY <1>3, <2>1 DEF One
<1>15. CASE Closes
  <2>1. /\ stop = Running /\ UNCHANGED <<published, channel, reader, worker>>
        /\ writer.pc = "count" /\ writer'.pc = "receive" /\ written' = written + 1
        /\ Len(channel) \in Nat
    BY <1>1, <1>15 DEF Closes, IShape
  <2> QED BY <1>1, <1>3, <2>1 DEF One
<1> QED BY <1>4, <1>5, <1>6, <1>7, <1>8, <1>9, <1>10, <1>11, <1>12, <1>13, <1>14, <1>15
        DEF Steps, Transfers, Listens, Prints

\* At most one request is begun after the connection is stopped.
LEMMA StopStep == ASSUME IInv, Steps PROVE IStop'
<1>1. IStop /\ IShape /\ IWorker /\ overrun \in Nat
  BY DEF IInv, IShape
<1>2. stop # Running /\ Halts => stop' = stop
  BY DEF Halts
<1>3. CASE Rests
  BY <1>1, <1>2, <1>3 DEF Rests, Jobless, IStop, history
<1>4. CASE Takes
  BY <1>1, <1>4 DEF Takes, IStop, history
<1>5. CASE Handles
  <2> SUFFICES ASSUME overrun' > 0 PROVE IStop'
    BY DEF IStop
  <2> DEFINE f == worker.job[1].frame
  <2>1. /\ overrun > 0 /\ overrun = 1 /\ stop' # Running /\ overrun' = overrun
        /\ InHandOf(worker) /\ worker.pc \in {"item", "late"}
        /\ \/ f \in Batches \/ worker.pc \in {"execute", "late"}
           \/ worker.item > Len(worker.job[1].items)
    BY <1>1, <1>5 DEF Handles, IStop, history, InHandOf
  <2>2. /\ Len(worker.job[1].items) = Len(Content[f]) /\ f \in Frames
    BY <1>1, <2>1, InHand0
  <2>3. /\ worker.item \in 1..Len(Content[f]) /\ worker'.item = worker.item + 1
        /\ worker'.job = worker.job /\ InHandOf(worker') /\ worker'.pc \in {"item", "send"}
    BY <1>5 DEF Handles
  <2>4. f \in Batches \/ worker'.item > Len(worker'.job[1].items)
    <3>1. \A g \in Frames : g \notin Batches => Len(Content[g]) = 1
      BY Items
    <3>2. CASE f \notin Batches
      <4>1. worker.item \in 1..1 /\ Len(worker'.job[1].items) = 1
        BY <2>2, <2>3, <3>1, <3>2
      <4> QED BY <2>3, <4>1
    <3> QED BY <3>2
  <2>5. worker'.pc = "send" => worker'.next = "item"
    BY <2>3 DEF InHandOf
  <2> QED BY <2>1, <2>3, <2>4, <2>5 DEF IStop
<1>6. CASE Begins
  <2>1. stop # Running => overrun = 0
    <3> SUFFICES ASSUME stop # Running, overrun > 0 PROVE FALSE
      BY <1>1
    <3>1. \/ worker.job[1].frame \in Batches \/ worker.pc \in {"execute", "late"}
          \/ worker.item > Len(worker.job[1].items)
      BY <1>1, <1>6 DEF IStop, Begins
    <3> QED BY <1>6, <3>1 DEF Begins, JobOver, Batch
  <2>2. stop = Running => overrun = 0
    BY <1>1 DEF IStop
  <2>3. overrun' = (IF stop = Running THEN 0 ELSE 1) /\ stop' = stop /\ worker'.pc = "execute"
    BY <1>6, <2>1, <2>2 DEF Begins
  <2> QED BY <2>3 DEF IStop
<1>7. CASE Acts
  BY <1>1, <1>7 DEF Acts, IStop
<1>8. CASE Finishes
  BY <1>1, <1>8 DEF Finishes, IStop, history
<1>9. CASE Ships
  BY <1>9, <1>1 DEF Ships, IStop, history
<1>10. CASE Drops
  <2> SUFFICES ASSUME overrun' > 0 PROVE IStop'
    BY DEF IStop
  <2>1. /\ overrun' = overrun /\ overrun > 0 /\ overrun = 1 /\ stop' # Running /\ worker.pc = "send"
        /\ worker.next \in {"item", "finish"} /\ worker'.pc = worker.next /\ worker'.next = worker.next
        /\ InHandOf(worker') = InHandOf(worker) /\ worker'.job = worker.job /\ worker'.item = worker.item
    BY <1>1, <1>10 DEF Drops, Abandons, IStop, history
  <2>2. InHandOf(worker') => \/ worker'.job[1].frame \in Batches
                             \/ worker'.item > Len(worker'.job[1].items)
    BY <1>1, <2>1 DEF IStop
  <2> QED BY <2>1, <2>2 DEF IStop
<1>11. CASE Counts
  <2> SUFFICES ASSUME overrun' > 0 PROVE IStop'
    BY DEF IStop
  <2>1. /\ overrun' = overrun /\ overrun > 0 /\ overrun = 1 /\ stop' # Running /\ worker.pc = "count"
        /\ worker.next \in {"item", "finish"} /\ worker'.pc \in {worker.next, "send"}
        /\ worker'.next = worker.next
        /\ InHandOf(worker') = InHandOf(worker) /\ worker'.job = worker.job /\ worker'.item = worker.item
    BY <1>1, <1>11 DEF Counts, Advances, IStop, history
  <2>2. InHandOf(worker') => \/ worker'.job[1].frame \in Batches
                             \/ worker'.item > Len(worker'.job[1].items)
    BY <1>1, <2>1 DEF IStop
  <2> QED BY <2>1, <2>2 DEF IStop
<1>12. CASE Listens
  BY <1>1, <1>2, <1>12
     DEF Listens, Pauses, Reads, Refuses, Admits, Replies, Tallies, IStop, history
<1>13. CASE Prints
  BY <1>1, <1>2, <1>13 DEF Prints, Receives, Quits, Writes, Releases, Closes, IStop, history
<1> QED BY <1>3, <1>4, <1>5, <1>6, <1>7, <1>8, <1>9, <1>10, <1>11, <1>12, <1>13
        DEF Steps, Processes, Transfers

\* What the rest of a queue is charged for, and what its head was charged for.
LEMMA ChargedLess ==
    ASSUME NEW q \in Seq(Job), q # <<>>, IsFiniteSet(Charged(q))
    PROVE  /\ IsFiniteSet(Charged(Tail(q))) /\ Cardinality(Charged(Tail(q))) \in Nat
           /\ Cardinality(Charged(q)) = Cardinality(Charged(Tail(q))) + Len(Head(q).items)
<1> DEFINE n == Len(q)
           r == Tail(q)
           P == {1} \X DOMAIN q[1].items
           R == UNION {{j} \X DOMAIN q[j].items : j \in 2..n}
<1>1. /\ n \in Nat /\ n >= 1 /\ DOMAIN q = 1..n /\ r \in Seq(Job) /\ Len(r) = n - 1 /\ DOMAIN r = 1..(n - 1)
      /\ \A j \in 1..(n - 1) : r[j] = q[j + 1]
      /\ Head(q) = q[1] /\ q[1] \in Job
  <2>1. Len(q) \in Nat
    OBVIOUS
  <2>2. Len(q) # 0
    BY Empty, Zenon
  <2> QED BY <2>1, <2>2
<1>2. /\ q[1].items \in Seq(Entry) /\ Len(q[1].items) \in Nat
      /\ DOMAIN q[1].items = 1..Len(q[1].items)
  BY <1>1 DEF Job
<1> HIDE DEF n, r
<1>3. Charged(q) = P \cup R /\ P \cap R = {}
  <2>1. Charged(q) = P \cup R
    <3>1. 1..n = {1} \cup (2..n)
      BY <1>1
    <3> QED BY <1>1, <3>1 DEF Charged
  <2>2. P \cap R = {}
    BY <1>1
  <2> QED BY <2>1, <2>2
<1>4. IsFiniteSet(P) /\ Cardinality(P) = Len(q[1].items) /\ IsFiniteSet(R)
  <2>1. IsFiniteSet({1}) /\ Cardinality({1}) = 1
    BY FS_Singleton
  <2>2. IsFiniteSet(DOMAIN q[1].items) /\ Cardinality(DOMAIN q[1].items) = Len(q[1].items)
    <3>1. Len(q[1].items) \in Int /\ 1 \in Int
      BY <1>2
    <3> DEFINE m == Len(q[1].items)
    <3> HIDE DEF m
    <3>2. m \in Nat /\ m \in Int
      BY <1>2 DEF m
    <3>3. IsFiniteSet(1..m) /\ Cardinality(1..m) = m
      BY <3>1, <3>2, FS_Interval
    <3> QED BY <1>2, <3>3 DEF m
  <2>3. IsFiniteSet(P) /\ Cardinality(P) = Cardinality({1}) * Cardinality(DOMAIN q[1].items)
    BY <2>1, <2>2, FS_Product
  <2>4. IsFiniteSet(R)
    BY <1>3, FS_Subset
  <2> QED BY <1>2, <2>1, <2>2, <2>3, <2>4
<1>5. Cardinality(Charged(q)) = Cardinality(P) + Cardinality(R) /\ Cardinality(R) \in Nat
  <2>1. Cardinality(P \cup R) = Cardinality(P) + Cardinality(R) - Cardinality(P \cap R)
    BY <1>4, FS_Union
  <2>2. Cardinality(P \cap R) = 0
    BY <1>3, FS_EmptySet
  <2>3. Cardinality(R) \in Nat /\ Cardinality(P) \in Nat
    BY <1>4, FS_CardinalityType
  <2> QED BY <1>3, <2>1, <2>2, <2>3
<1>6. IsFiniteSet(Charged(r)) /\ Cardinality(Charged(r)) = Cardinality(R)
  <2> DEFINE g == [x \in Charged(r) |-> <<x[1] + 1, x[2]>>]
  <2>1. \A x : x \in Charged(r) <=>
           \E j \in 1..(n - 1) : \E i \in DOMAIN q[j + 1].items : x = <<j, i>>
    BY <1>1 DEF Charged
  <2>2. \A x : x \in R <=> \E j \in 2..n : \E i \in DOMAIN q[j].items : x = <<j, i>>
    BY <1>1
  <2> HIDE DEF R
  <2>3. g \in [Charged(r) -> R]
    <3>1. ASSUME NEW x \in Charged(r) PROVE <<x[1] + 1, x[2]>> \in R
      <4>0. PICK j \in 1..(n - 1) : \E i \in DOMAIN q[j + 1].items : x = <<j, i>>
        BY <2>1
      <4>1. PICK i \in DOMAIN q[j + 1].items : x = <<j, i>>
        BY <4>0
      <4>2. x[1] = j /\ x[2] = i /\ j + 1 \in 2..n
        BY <1>1, <4>1
      <4> QED BY <2>2, <4>2
    <3> QED BY <3>1
  <2>4. ASSUME NEW x \in Charged(r), NEW y \in Charged(r), g[x] = g[y] PROVE x = y
    <3>a. PICK j \in 1..(n - 1) : \E i \in DOMAIN q[j + 1].items : x = <<j, i>>
      BY <2>1
    <3>1. PICK i \in DOMAIN q[j + 1].items : x = <<j, i>>
      BY <3>a
    <3>b. PICK k \in 1..(n - 1) : \E l \in DOMAIN q[k + 1].items : y = <<k, l>>
      BY <2>1
    <3>2. PICK l \in DOMAIN q[k + 1].items : y = <<k, l>>
      BY <3>b
    <3>3. g[x] = <<j + 1, i>> /\ g[y] = <<k + 1, l>>
      BY <3>1, <3>2
    <3>4. j + 1 = k + 1 /\ i = l
      BY <2>4, <3>3
    <3>5. j = k
      BY <1>1, <3>4
    <3> QED BY <3>1, <3>2, <3>4, <3>5
  <2>5. ASSUME NEW y \in R PROVE \E x \in Charged(r) : g[x] = y
    <3>a. PICK j \in 2..n : \E i \in DOMAIN q[j].items : y = <<j, i>>
      BY <2>2
    <3>1. PICK i \in DOMAIN q[j].items : y = <<j, i>>
      BY <3>a
    <3>2. j - 1 \in 1..(n - 1) /\ (j - 1) + 1 = j
      BY <1>1
    <3>3. <<j - 1, i>> \in Charged(r)
      BY <2>1, <3>1, <3>2
    <3>4. g[<<j - 1, i>>] = <<(j - 1) + 1, i>>
      BY <3>3
    <3> QED BY <3>1, <3>2, <3>3, <3>4
  <2> HIDE DEF g
  <2>6. g \in Injection(Charged(r), R) /\ g \in Surjection(Charged(r), R)
    BY <2>3, <2>4, <2>5, Fun_IsInj, Fun_IsSurj
  <2> QED BY <1>4, <2>6, FS_Injection
<1> QED BY <1>1, <1>2, <1>4, <1>5, <1>6 DEF r

\* A frame more.
LEMMA ChargedMore ==
    ASSUME NEW q \in Seq(Job), NEW job \in Job, IsFiniteSet(Charged(q))
    PROVE  /\ IsFiniteSet(Charged(Append(q, job)))
           /\ Cardinality(Charged(Append(q, job))) = Cardinality(Charged(q)) + Len(job.items)
<1> DEFINE n == Len(q)
           r == Append(q, job)
           P == {n + 1} \X DOMAIN job.items
<1>1. /\ n \in Nat /\ DOMAIN q = 1..n /\ Len(r) = n + 1 /\ DOMAIN r = 1..(n + 1)
      /\ \A j \in 1..n : r[j] = q[j]
      /\ r[n + 1] = job
  OBVIOUS
<1>2. job.items \in Seq(Entry) /\ Len(job.items) \in Nat /\ DOMAIN job.items = 1..Len(job.items)
  BY DEF Job
<1> HIDE DEF n, r
<1>3. Charged(r) = Charged(q) \cup P /\ Charged(q) \cap P = {}
  <2>1. 1..(n + 1) = (1..n) \cup {n + 1} /\ n + 1 \notin 1..n
    BY <1>1
  <2>2. Charged(q) = UNION {{j} \X DOMAIN q[j].items : j \in 1..n}
    BY <1>1 DEF Charged
  <2>3. Charged(r) = UNION {{j} \X DOMAIN r[j].items : j \in 1..(n + 1)}
    BY <1>1 DEF Charged
  <2> QED BY <1>1, <2>1, <2>2, <2>3
<1>4. IsFiniteSet(P) /\ Cardinality(P) = Len(job.items)
  <2>1. IsFiniteSet({n + 1}) /\ Cardinality({n + 1}) = 1
    BY FS_Singleton
  <2>2. IsFiniteSet(DOMAIN job.items) /\ Cardinality(DOMAIN job.items) = Len(job.items)
    <3>1. Len(job.items) \in Int /\ 1 \in Int
      BY <1>2
    <3>2. IsFiniteSet(1..Len(job.items)) /\ Cardinality(1..Len(job.items)) = Len(job.items)
      BY <1>2, <3>1, FS_Interval
    <3> QED BY <1>2, <3>2
  <2>3. IsFiniteSet(P) /\ Cardinality(P) = Cardinality({n + 1}) * Cardinality(DOMAIN job.items)
    BY <2>1, <2>2, FS_Product
  <2> QED BY <1>2, <2>1, <2>2, <2>3
<1> HIDE DEF P
<1>5. IsFiniteSet(Charged(r)) /\ Cardinality(Charged(r)) = Cardinality(Charged(q)) + Len(job.items)
  <2>1. /\ IsFiniteSet(Charged(q) \cup P)
        /\ Cardinality(Charged(q) \cup P) = Cardinality(Charged(q)) + Cardinality(P) - Cardinality(Charged(q) \cap P)
    BY <1>4, FS_Union
  <2>2. Cardinality(Charged(q) \cap P) = 0
    BY <1>3, FS_EmptySet
  <2>3. Cardinality(Charged(q)) \in Nat
    BY FS_CardinalityType
  <2> QED BY <1>2, <1>3, <1>4, <2>1, <2>2, <2>3
<1> QED BY <1>5 DEF r

\* The queue keeps its limits.
LEMMA LimitsStep == ASSUME IInv, Steps PROVE ILimits'
<1>1. ILimits /\ IShape /\ Len(jobs) \in Nat
  BY DEF IInv, IShape
<1>2. ASSUME UNCHANGED <<jobs, bytes, pending>> PROVE ILimits'
  BY <1>1, <1>2 DEF ILimits
<1>3. CASE Rests \/ Begins \/ Acts \/ Finishes \/ Transfers
  BY <1>2, <1>3 DEF Rests, Begins, Acts, Finishes, Transfers, Ships, Drops, Counts
<1>4. CASE Pauses \/ Reads \/ Refuses \/ Replies \/ Tallies
  BY <1>2, <1>4 DEF Pauses, Reads, Refuses, Replies, Tallies
<1>5. CASE Receives \/ Quits \/ Writes \/ Closes
  BY <1>2, <1>5 DEF Receives, Quits, Writes, Closes
<1>6. CASE Handles
  <2>1. SameQueue /\ bytes' = bytes /\ pending' = pending
    BY <1>6 DEF Handles
  <2>2. /\ DOMAIN jobs = 1..Len(jobs) /\ DOMAIN jobs' = 1..Len(jobs) /\ Len(jobs') = Len(jobs)
        /\ \A j \in 1..Len(jobs) : DOMAIN jobs'[j].items = DOMAIN jobs[j].items
    BY <1>1, <2>1 DEF SameQueue, IShape
  <2>3. Charged(jobs') = Charged(jobs)
    BY <2>2 DEF Charged
  <2> QED BY <1>1, <2>1, <2>2, <2>3 DEF ILimits
<1>7. CASE Takes
  <2>1. /\ jobs # <<>> /\ jobs' = Tail(jobs) /\ bytes' = bytes - Len(Head(jobs).items) /\ pending' = pending
        /\ jobs \in Seq(Job)
    BY <1>1, <1>7 DEF Takes, IShape
  <2>2. /\ IsFiniteSet(Charged(Tail(jobs))) /\ Cardinality(Charged(Tail(jobs))) \in Nat
        /\ Cardinality(Charged(jobs)) = Cardinality(Charged(Tail(jobs))) + Len(Head(jobs).items)
    BY <1>1, <2>1, ChargedLess DEF ILimits
  <2>3. Len(Head(jobs).items) \in Nat /\ Len(jobs') <= Len(jobs) /\ Len(jobs') \in Nat
    <3>1. Head(jobs) \in Job
      BY <2>1
    <3>2. Head(jobs).items \in Seq(Entry)
      BY <3>1 DEF Job
    <3>3. Len(jobs') = Len(jobs) - 1 /\ Len(jobs') \in Nat
      BY <2>1
    <3> QED BY <1>1, <3>2, <3>3
  <2>4. bytes = Cardinality(Charged(jobs)) /\ bytes \in 0..MaxBytes /\ Len(jobs) <= MaxPending
    BY <1>1 DEF ILimits
  <2>5. bytes' = Cardinality(Charged(jobs'))
    <3> DEFINE rest == Cardinality(Charged(Tail(jobs)))
               size == Len(Head(jobs).items)
    <3>1. rest \in Nat /\ size \in Nat /\ bytes = rest + size /\ bytes' = bytes - size
      BY <2>1, <2>2, <2>3, <2>4, Zenon
    <3> HIDE DEF rest, size
    <3>2. bytes' = rest
      BY <3>1
    <3> QED BY <2>1, <3>2 DEF rest
  <2>6. bytes' \in 0..MaxBytes /\ Len(jobs') <= MaxPending
    <3>1. bytes' <= bytes /\ bytes' \in Nat
      BY <2>1, <2>2, <2>3, <2>4
    <3>2. MaxBytes \in Nat /\ MaxPending \in Nat /\ Len(jobs) \in Nat
      BY <2>1, LimitAssumption
    <3> QED BY <2>3, <2>4, <3>1, <3>2
  <2> QED BY <1>1, <2>1, <2>2, <2>5, <2>6 DEF ILimits
<1>8. CASE Admits
  <2>1. PICK f \in Frames :
          /\ ~Full(f) /\ pending' = pending \cup RequestsOf(f)
          /\ jobs' = Append(jobs, [frame |-> f, items |-> Content[f]])
          /\ bytes' = bytes + Len(Content[f])
    BY <1>8 DEF Admits
  <2>2. Content[f] \in Seq(Item) /\ Len(Content[f]) \in Nat
    BY Items
  <2>3. IsFiniteSet(RequestsOf(f)) /\ Cardinality(RequestsOf(f)) \in Nat
    BY Countable
  <2>4. /\ ~(Len(jobs) >= MaxPending) /\ ~(bytes + Len(Content[f]) > MaxBytes)
        /\ ~(Cardinality(pending) + Cardinality(RequestsOf(f)) > MaxPending)
    BY <2>1 DEF Full
  <2> DEFINE job == [frame |-> f, items |-> Content[f]]
  <2>5. job \in Job /\ job.items = Content[f] /\ jobs \in Seq(Job)
    <3>1. Content[f] \in Seq(Entry)
      BY <2>2 DEF Entry
    <3> QED BY <1>1, <3>1 DEF Job, IShape
  <2>6. jobs' = Append(jobs, job)
    BY <2>1
  <2> HIDE DEF job
  <2>7. /\ IsFiniteSet(Charged(jobs'))
        /\ Cardinality(Charged(jobs')) = Cardinality(Charged(jobs)) + Len(Content[f])
    <3>1. IsFiniteSet(Charged(jobs))
      BY <1>1 DEF ILimits
    <3>2. /\ IsFiniteSet(Charged(Append(jobs, job)))
          /\ Cardinality(Charged(Append(jobs, job))) = Cardinality(Charged(jobs)) + Len(job.items)
      BY <2>5, <3>1, ChargedMore
    <3> QED BY <2>5, <2>6, <3>2
  <2>8. bytes' = Cardinality(Charged(jobs')) /\ bytes' \in 0..MaxBytes
    <3>1. bytes = Cardinality(Charged(jobs)) /\ bytes \in 0..MaxBytes /\ MaxBytes \in Nat
      BY <1>1, LimitAssumption DEF ILimits
    <3> QED BY <2>1, <2>2, <2>4, <2>7, <3>1
  <2>9. Len(jobs') <= MaxPending
    <3>1. Len(jobs') = Len(jobs) + 1 /\ MaxPending \in Nat
      BY <2>5, <2>6, LimitAssumption
    <3> QED BY <1>1, <2>4, <3>1
  <2>10. IsFiniteSet(pending') /\ Cardinality(pending') <= MaxPending
    <3>1. IsFiniteSet(pending) /\ MaxPending \in Nat
      BY <1>1, LimitAssumption DEF ILimits
    <3>2. /\ IsFiniteSet(pending \cup RequestsOf(f))
          /\ Cardinality(pending \cup RequestsOf(f)) =
               Cardinality(pending) + Cardinality(RequestsOf(f)) - Cardinality(pending \cap RequestsOf(f))
      BY <2>3, <3>1, FS_Union
    <3>3. Cardinality(pending) \in Nat
      BY <3>1, FS_CardinalityType
    <3>4. IsFiniteSet(pending \cap RequestsOf(f))
      BY <3>1, FS_Intersection
    <3>5. Cardinality(pending \cap RequestsOf(f)) \in Nat
      BY <3>4, FS_CardinalityType
    <3> QED BY <2>1, <2>3, <2>4, <3>1, <3>2, <3>3, <3>5
  <2> QED BY <2>7, <2>8, <2>9, <2>10 DEF ILimits
<1>9. CASE Releases
  <2>1. PICK m \in Message : pending' = pending \ m.release /\ UNCHANGED <<jobs, bytes>>
    BY <1>9 DEF Releases
  <2>2. IsFiniteSet(pending) /\ Cardinality(pending) <= MaxPending /\ pending' \subseteq pending
    BY <1>1, <2>1 DEF ILimits
  <2>3. IsFiniteSet(pending') /\ Cardinality(pending') <= Cardinality(pending)
    BY <2>2, FS_Subset
  <2>4. Cardinality(pending') \in Nat /\ Cardinality(pending) \in Nat /\ MaxPending \in Nat
    BY <2>2, <2>3, FS_CardinalityType, LimitAssumption
  <2>5. Cardinality(pending') <= MaxPending
    BY <2>2, <2>3, <2>4
  <2> QED BY <1>1, <2>1, <2>3, <2>5 DEF ILimits
<1> QED BY <1>3, <1>4, <1>5, <1>6, <1>7, <1>8, <1>9 DEF Steps, Processes, Listens, Prints

\* Frames of a queue that is shortened, prolonged, or purged.
LEMMA Queues ==
    ASSUME NEW q \in Seq(Job), NEW job \in Job
    PROVE  /\ q # <<>> => /\ QueueFrames(q) = {Head(q).frame} \cup QueueFrames(Tail(q))
                          /\ QueueOwes(q) = RequestsOf(Head(q).frame) \cup QueueOwes(Tail(q))
                          /\ Head(q) \in Job
           /\ QueueFrames(Append(q, job)) = QueueFrames(q) \cup {job.frame}
           /\ QueueOwes(Append(q, job)) = QueueOwes(q) \cup RequestsOf(job.frame)
           /\ \A o \in QueueOwes(q) : o[1] \in QueueFrames(q)
           /\ QueueFrames(q) \subseteq Frames
<1>1. ASSUME q # <<>>
      PROVE  QueueFrames(q) = {Head(q).frame} \cup QueueFrames(Tail(q)) /\ Head(q) \in Job
  <2> DEFINE n == Len(q)
  <2>1. n \in Nat /\ n # 0
    <3>1. Len(q) \in Nat
      OBVIOUS
    <3>2. Len(q) # 0
      BY <1>1, Empty, Zenon
    <3> QED BY <3>1, <3>2
  <2>2. /\ Len(Tail(q)) = n - 1 /\ \A j \in 1..(n - 1) : Tail(q)[j] = q[j + 1]
        /\ Head(q) = q[1] /\ q[1] \in Job
    BY <1>1, <2>1
  <2> HIDE DEF n
  <2>3. ASSUME NEW x \in {q[j].frame : j \in 1..n} PROVE x \in {q[1].frame} \cup {q[j + 1].frame : j \in 1..(n - 1)}
    <3>1. PICK j \in 1..n : x = q[j].frame
      OBVIOUS
    <3>2. j = 1 \/ (j - 1 \in 1..(n - 1) /\ (j - 1) + 1 = j)
      BY <2>1
    <3> QED BY <3>1, <3>2
  <2>4. {q[j + 1].frame : j \in 1..(n - 1)} \cup {q[1].frame} \subseteq {q[j].frame : j \in 1..n}
    <3>1. \A j \in 1..(n - 1) : j + 1 \in 1..n
      BY <2>1
    <3>2. 1 \in 1..n
      BY <2>1
    <3> QED BY <3>1, <3>2
  <2>5. QueueFrames(q) = {q[j].frame : j \in 1..n}
    BY DEF QueueFrames, n
  <2>6. QueueFrames(Tail(q)) = {q[j + 1].frame : j \in 1..(n - 1)}
    <3>1. \A j \in 1..(n - 1) : Tail(q)[j].frame = q[j + 1].frame
      BY <2>2
    <3>2. QueueFrames(Tail(q)) = {Tail(q)[j].frame : j \in 1..(n - 1)}
      BY <2>2 DEF QueueFrames
    <3> QED BY <3>1, <3>2
  <2> QED BY <2>2, <2>3, <2>4, <2>5, <2>6
<1>2. QueueFrames(Append(q, job)) = QueueFrames(q) \cup {job.frame}
  <2> DEFINE n == Len(q)
  <2>1. n \in Nat /\ Len(Append(q, job)) = n + 1 /\ (\A j \in 1..n : Append(q, job)[j] = q[j])
        /\ Append(q, job)[n + 1] = job
    OBVIOUS
  <2>2. 1..(n + 1) = (1..n) \cup {n + 1}
    BY <2>1
  <2> QED BY <2>1, <2>2 DEF QueueFrames
<1>3. q # <<>> => QueueOwes(q) = RequestsOf(Head(q).frame) \cup QueueOwes(Tail(q))
  BY <1>1 DEF QueueOwes
<1>4. QueueOwes(Append(q, job)) = QueueOwes(q) \cup RequestsOf(job.frame)
  BY <1>2 DEF QueueOwes
<1>5. QueueFrames(q) \subseteq Frames
  <2>1. \A j \in 1..Len(q) : q[j] \in Job
    OBVIOUS
  <2>2. \A j \in 1..Len(q) : q[j].frame \in Frames
    BY <2>1 DEF Job
  <2> QED BY <2>2 DEF QueueFrames
<1>6. \A o \in QueueOwes(q) : o[1] \in QueueFrames(q)
  BY <1>5, Items DEF QueueOwes
<1> QED BY <1>1, <1>2, <1>3, <1>4, <1>5, <1>6

\* A queue that keeps its frames.
LEMMA SameFrames ==
    ASSUME SameQueue
    PROVE  QueueFrames(jobs') = QueueFrames(jobs) /\ QueueOwes(jobs') = QueueOwes(jobs)
<1>1. QueueFrames(jobs') = QueueFrames(jobs)
  BY DEF SameQueue, QueueFrames
<1> QED BY <1>1 DEF QueueOwes

\* Whoever owes the queue a request has its frame.
LEMMA OwnersHold ==
    ASSUME IShape, IWorker, IWriter
    PROVE  /\ \A o \in QueueOwes(jobs) : o[1] \in QueueFrames(jobs)
           /\ \A o \in WorkerOwes(worker) : o[1] \in WorkerFrames(worker)
           /\ \A o \in ReleasedIn(channel) : o[1] \in FramesIn(channel)
           /\ writer.pc \in {"write", "release"} =>
                \A o \in writer.message[1].release : o[1] \in FramesOf(writer.message[1].replies)
<1>1. ASSUME NEW m \in Message, Sane(m), NEW o \in m.release PROVE o[1] \in FramesOf(m.replies)
  <2>1. PICK f \in Frames : Made(m, f) /\ FramesOf(m.replies) = {f} /\ m.release \subseteq RequestsOf(f)
    BY <1>1, SaneFrames
  <2> QED BY <2>1, Items
<1>2. \A o \in QueueOwes(jobs) : o[1] \in QueueFrames(jobs)
  <2>1. \A f \in QueueFrames(jobs) : f \in Frames
    <3>1. jobs \in Seq(Job)
      BY DEF IShape
    <3>2. \A j \in 1..Len(jobs) : jobs[j] \in Job
      BY <3>1
    <3>3. \A j \in 1..Len(jobs) : jobs[j].frame \in Frames
      BY <3>2 DEF Job
    <3> QED BY <3>3 DEF QueueFrames
  <2> QED BY <2>1, Items DEF QueueOwes
<1>3. \A o \in ReleasedIn(channel) : o[1] \in FramesIn(channel)
  <2>1. ToSet(channel) \subseteq Message
    BY Elements DEF IShape
  <2> QED BY <1>1, <2>1 DEF ReleasedIn, FramesIn, IWriter
<1>4. writer.pc \in {"write", "release"} =>
         \A o \in writer.message[1].release : o[1] \in FramesOf(writer.message[1].replies)
  BY <1>1, Writing
<1>5. \A o \in WorkerOwes(worker) : o[1] \in WorkerFrames(worker)
  <2>1. /\ Box(worker) \in Seq(Message) /\ (Holds(worker) => worker.job[1].frame \in Frames)
        /\ (~Holds(worker) => ReleasedIn(Box(worker)) = {})
        /\ Cargo(Box(worker), worker.job[1].frame, Leaving(worker))
    BY Boxes DEF IShape, IWorker, Employed
  <2>2. ASSUME NEW o \in Engaged(worker) PROVE o[1] \in WorkerFrames(worker)
    BY <2>1, <2>2, Items DEF Engaged, WorkerFrames, Holds
  <2>3. ASSUME NEW o \in ReleasedIn(Box(worker)) PROVE o[1] \in WorkerFrames(worker)
    <3>1. Holds(worker)
      BY <2>1, <2>3
    <3>2. PICK k \in 1..Len(Box(worker)) : o \in Box(worker)[k].release
      <4>1. ToSet(Box(worker)) = {Box(worker)[k] : k \in 1..Len(Box(worker))}
        BY <2>1, Elements
      <4> QED BY <2>3, <4>1 DEF ReleasedIn
    <3>3. o \in RequestsOf(worker.job[1].frame)
      BY <2>1, <3>2 DEF Cargo, Plain
    <3> QED BY <2>1, <3>1, <3>3, Items DEF WorkerFrames
  <2> QED BY <2>2, <2>3 DEF WorkerOwes
<1> QED BY <1>2, <1>3, <1>4, <1>5

\* What is charged is what somebody owes, and IDs stay distinct.
LEMMA PendingStep == ASSUME IInv, Steps PROVE IPending'
<1>1. IPending /\ IShape /\ IWorker /\ IWriter /\ IPlaces
  BY DEF IInv
<1>2. Halts /\ stop' = Running => stop = Running
  BY DEF Halts
<1>3. /\ Owed \subseteq pending
      /\ stop = Running /\ exit = Running => pending \subseteq Owed
      /\ \A o, p \in pending : Id(o) = Id(p) => o = p
  BY <1>1 DEF IPending
<1>4. ASSUME pending' = pending, Owed' \subseteq Owed,
             stop' = Running /\ exit' = Running => stop = Running /\ exit = Running /\ Owed \subseteq Owed'
      PROVE  IPending'
  BY <1>3, <1>4 DEF IPending
<1>5. CASE Rests
  <2>1. Owed' = Owed /\ pending' = pending /\ exit' = exit /\ Halts
    BY <1>5 DEF Rests, Jobless, Owed, output
  <2> QED BY <1>2, <1>4, <2>1
<1>6. CASE Takes
  <2>1. QueueOwes(jobs) = RequestsOf(Head(jobs).frame) \cup QueueOwes(Tail(jobs))
    <3>1. jobs \in Seq(Job) /\ jobs # <<>> /\ Head(jobs) \in Job
      BY <1>1, <1>6 DEF IShape, Takes
    <3> QED BY <3>1, Queues
  <2>2. /\ QueueOwes(jobs') = QueueOwes(Tail(jobs)) /\ WorkerOwes(worker) = {}
        /\ WorkerOwes(worker') = RequestsOf(Head(jobs).frame)
        /\ UNCHANGED <<channel, writer, pending, stop, exit>>
    BY <1>6 DEF Takes, Jobless, output
  <2>3. Owed' = Owed
    BY <2>1, <2>2 DEF Owed
  <2> QED BY <1>4, <2>2, <2>3
<1>7. CASE Handles /\ Asks
  <2>1. /\ QueueOwes(jobs') = QueueOwes(jobs) /\ WorkerOwes(worker') = WorkerOwes(worker)
        /\ UNCHANGED <<channel, writer, pending, stop>>
    BY <1>7, SameFrames DEF Handles, output
  <2>2. exit' = Running => exit = Running
    BY <1>7 DEF Asks, Running
  <2>3. Owed' = Owed
    BY <2>1 DEF Owed
  <2> QED BY <1>4, <2>1, <2>2, <2>3
<1>8. CASE Begins
  <2>1. Owed' = Owed /\ UNCHANGED <<pending, stop, exit>>
    BY <1>8 DEF Begins, Owed, output
  <2> QED BY <1>4, <2>1
<1>9. CASE Acts
  <2>1. Owed' = Owed /\ UNCHANGED <<pending, stop, exit>>
    BY <1>9 DEF Acts, Owed, output
  <2> QED BY <1>4, <2>1
<1>10. CASE Finishes
  <2>1. /\ WorkerOwes(worker') \subseteq WorkerOwes(worker)
        /\ stop = Running /\ exit = Running => WorkerOwes(worker') = WorkerOwes(worker)
        /\ UNCHANGED <<jobs, channel, writer, pending, stop, exit>>
    BY <1>10 DEF Finishes, output
  <2>2. Owed' \subseteq Owed /\ (stop = Running /\ exit = Running => Owed \subseteq Owed')
    BY <2>1 DEF Owed
  <2> QED BY <1>4, <2>1, <2>2
<1>11. CASE Ships
  <2>1. PICK m \in Message : /\ Detaches(worker, worker', m) /\ Silent(channel) /\ channel' = <<m>> /\ Lone(m)
                             /\ UNCHANGED <<jobs, writer, pending, stop, exit>>
    BY <1>11 DEF Ships
  <2>2. /\ WorkerOwes(worker) = WorkerOwes(worker') \cup m.release
        /\ ReleasedIn(channel) = {} /\ ReleasedIn(channel') = m.release
    BY <2>1 DEF Detaches, Silent, Lone
  <2>3. Owed' = Owed
    BY <2>1, <2>2 DEF Owed
  <2> QED BY <1>4, <2>1, <2>3
<1>12. CASE Drops
  <2>1. Owed' \subseteq Owed /\ UNCHANGED pending /\ stop' # Running
    BY <1>12 DEF Drops, Abandons, Owed, output
  <2> QED BY <1>4, <2>1
<1>13. CASE Counts
  <2>1. Owed' = Owed /\ UNCHANGED <<pending, stop, exit>>
    BY <1>13 DEF Counts, Advances, Owed
  <2> QED BY <1>4, <2>1
<1>14. CASE Pauses
  <2>1. Owed' = Owed /\ UNCHANGED <<pending, exit>> /\ Halts
    BY <1>14 DEF Pauses, Owed, output
  <2> QED BY <1>2, <1>4, <2>1
<1>15. CASE Reads \/ Refuses
  <2>1. Owed' = Owed /\ UNCHANGED <<pending, stop, exit>>
    BY <1>15 DEF Reads, Refuses, Owed, output
  <2> QED BY <1>4, <2>1
<1>16. CASE Admits
  <2>1. PICK f \in Frames :
          /\ \A o \in RequestsOf(f), p \in pending \cup RequestsOf(f) : Id(o) = Id(p) => o = p
          /\ pending' = pending \cup RequestsOf(f)
          /\ jobs' = Append(jobs, [frame |-> f, items |-> Content[f]])
          /\ UNCHANGED <<stop, exit, channel, writer, worker>>
    BY <1>16 DEF Admits, output
  <2> DEFINE job == [frame |-> f, items |-> Content[f]]
  <2>2. job \in Job /\ job.frame = f /\ jobs \in Seq(Job)
    <3>1. Content[f] \in Seq(Item)
      BY Items
    <3>2. Content[f] \in Seq(Entry)
      BY <3>1 DEF Entry
    <3> QED BY <1>1, <3>2 DEF Job, IShape
  <2>3. jobs' = Append(jobs, job)
    BY <2>1
  <2> HIDE DEF job
  <2>4. QueueOwes(jobs') = QueueOwes(jobs) \cup RequestsOf(f)
    BY <2>2, <2>3, Queues
  <2>5. Owed' = Owed \cup RequestsOf(f)
    BY <2>1, <2>4 DEF Owed
  <2>6. \A o, p \in pending' : Id(o) = Id(p) => o = p
    BY <1>3, <2>1
  <2>7. /\ Owed' \subseteq pending'
        /\ stop' = Running /\ exit' = Running => pending' \subseteq Owed'
    BY <1>3, <2>1, <2>5
  <2> QED BY <2>6, <2>7 DEF IPending
<1>17. CASE Replies
  <2>1. PICK m \in Message : /\ m.release = {} /\ Silent(channel) /\ channel' = <<m>> /\ Lone(m)
                             /\ UNCHANGED <<jobs, worker, writer, pending, stop, exit>>
    BY <1>17 DEF Replies
  <2>2. ReleasedIn(channel) = {} /\ ReleasedIn(channel') = {}
    BY <2>1 DEF Silent, Lone
  <2>3. Owed' = Owed
    BY <2>1, <2>2 DEF Owed
  <2> QED BY <1>4, <2>1, <2>3
<1>18. CASE Tallies
  <2>1. Owed' = Owed /\ UNCHANGED <<pending, stop, exit>>
    BY <1>18 DEF Tallies, Owed
  <2> QED BY <1>4, <2>1
<1>19. CASE Receives
  <2>1. PICK m \in Message : /\ channel = <<m>> /\ Lone(m) /\ Silent(channel') /\ writer'.message = <<m>>
                             /\ writer.pc = "receive" /\ writer'.pc = "write"
                             /\ UNCHANGED <<jobs, worker, pending, stop, exit>>
    BY <1>19 DEF Receives
  <2>2. /\ ReleasedIn(channel) = m.release /\ ReleasedIn(channel') = {}
        /\ WriterOwes(writer) = {} /\ WriterOwes(writer') = m.release
    BY <2>1 DEF Silent, Lone, WriterOwes
  <2>3. Owed' = Owed
    BY <2>1, <2>2 DEF Owed
  <2> QED BY <1>4, <2>1, <2>3
<1>20. CASE Quits
  <2>1. /\ WriterOwes(writer') = {} /\ ToSet(channel') \subseteq ToSet(channel)
        /\ UNCHANGED <<jobs, worker, pending>> /\ stop' # Running
    BY <1>20 DEF Quits, WriterOwes
  <2>2. Owed' \subseteq Owed
    BY <2>1 DEF Owed, ReleasedIn
  <2> QED BY <1>4, <2>1, <2>2
<1>21. CASE Writes
  <2>1. /\ WriterOwes(writer') = WriterOwes(writer)
        /\ UNCHANGED <<jobs, worker, channel, pending, stop, exit>>
    BY <1>21 DEF Writes, WriterOwes
  <2>2. Owed' = Owed
    BY <2>1 DEF Owed
  <2> QED BY <1>4, <2>1, <2>2
<1>22. CASE Releases
  <2>1. PICK m \in Message :
          /\ writer.pc = "release" /\ writer'.pc = "count" /\ writer.message[1] = m
          /\ pending' = pending \ m.release
          /\ UNCHANGED <<jobs, worker, channel, stop, exit>>
    BY <1>22 DEF Releases
  <2>2. WriterOwes(writer) = m.release /\ WriterOwes(writer') = {}
    BY <2>1 DEF WriterOwes
  <2>3. \A o \in QueueOwes(jobs) \cup WorkerOwes(worker) \cup ReleasedIn(channel) : o \notin m.release
    <3>1. /\ \A o \in QueueOwes(jobs) : o[1] \in QueueFrames(jobs)
          /\ \A o \in WorkerOwes(worker) : o[1] \in WorkerFrames(worker)
          /\ \A o \in ReleasedIn(channel) : o[1] \in FramesIn(channel)
          /\ \A o \in m.release : o[1] \in FramesOf(m.replies)
      BY <1>1, <2>1, OwnersHold
    <3>2. /\ FramesOf(m.replies) \subseteq FramesOf(delivered)
          /\ FramesOf(delivered) \cap (QueueFrames(jobs) \cup WorkerFrames(worker) \cup FramesIn(channel)) = {}
      BY <1>1, <2>1 DEF IPlaces, Apart
    <3> QED BY <3>1, <3>2
  <2>4. Owed = Owed' \cup m.release /\ Owed' \cap m.release = {}
    BY <2>1, <2>2, <2>3 DEF Owed
  <2> QED BY <1>3, <2>1, <2>4 DEF IPending
<1>23. CASE Closes
  <2>1. Owed' = Owed /\ UNCHANGED <<pending, stop, exit>>
    BY <1>23 DEF Closes, Owed, WriterOwes
  <2> QED BY <1>4, <2>1
<1> QED BY <1>5, <1>6, <1>7, <1>8, <1>9, <1>10, <1>11, <1>12, <1>13, <1>14, <1>15, <1>16, <1>17, <1>18,
           <1>19, <1>20, <1>21, <1>22, <1>23
        DEF Steps, Processes, Transfers, Listens, Prints

\* Frames of a message, and those of a written set of answers.
LEMMA FramesOfUnion ==
    ASSUME NEW S, NEW T
    PROVE  FramesOf(S \cup T) = FramesOf(S) \cup FramesOf(T) /\ FramesOf({}) = {}
<1> QED BY DEF FramesOf

\* A frame is at one place at a time.
LEMMA PlacesStep == ASSUME IInv, Steps PROVE IPlaces'
<1> DEFINE R == ReaderFrames(reader)
           Q == QueueFrames(jobs)
           W == WorkerFrames(worker)
           C == FramesIn(channel)
           O == WriterFrames(writer)
           D == FramesOf(delivered)
<1>1. IShape /\ IWorker /\ IReader /\ IWriter
  BY DEF IInv
<1>2. Apart(R, Q, W, C, O, D) /\ Places(R, Q, W, C, O, D) \subseteq sent
  BY DEF IInv, IPlaces
<1>3. /\ \A i, j \in 1..Len(jobs) : jobs[i].frame = jobs[j].frame => i = j
      /\ \A j \in 1..Len(jobs) : Faithful(jobs[j])
  BY DEF IInv, IPlaces
<1>4. writer.pc = "release" => FramesOf(writer.message[1].replies) \subseteq FramesOf(delivered)
  BY DEF IInv, IPlaces
<1>5. \A o \in started : o[1] \in sent \ (R \cup Q)
  BY DEF IInv, IPlaces
<1>6. Single(delivered) /\ delivered \subseteq Answer
  BY DEF IInv, IPlaces
<1>7. ASSUME Apart(R, Q, W, C, O, D)', Places(R, Q, W, C, O, D)' \subseteq sent',
             UNCHANGED <<jobs, delivered>>, writer'.pc # "release" \/ writer' = writer,
             \A o \in started' : o[1] \in sent' \ (R' \cup Q')
      PROVE  IPlaces'
  BY <1>3, <1>4, <1>6, <1>7 DEF IPlaces
<1>8. ASSUME R' \subseteq R, Q' \subseteq Q, W' \subseteq W, C' \subseteq C, O' \subseteq O, D' \subseteq D, sent' = sent
      PROVE  Apart(R, Q, W, C, O, D)' /\ Places(R, Q, W, C, O, D)' \subseteq sent'
  <2> HIDE DEF R, Q, W, C, O, D
  <2> QED BY <1>2, <1>8 DEF Apart, Places
<1>9. ASSUME UNCHANGED <<jobs, channel, delivered, sent, started>>, R' \subseteq R, W' \subseteq W, O' \subseteq O,
             writer'.pc # "release" \/ writer' = writer
      PROVE  IPlaces'
  <2>1. Q' = Q /\ C' = C /\ D' = D
    BY <1>9
  <2>2. Apart(R, Q, W, C, O, D)' /\ Places(R, Q, W, C, O, D)' \subseteq sent'
    BY <1>8, <1>9, <2>1
  <2>3. \A o \in started' : o[1] \in sent' \ (R' \cup Q')
    BY <1>5, <1>9, <2>1
  <2> QED BY <1>7, <1>9, <2>2, <2>3
<1>10. CASE Rests \/ Finishes \/ Drops \/ Acts
  <2>1. UNCHANGED <<jobs, channel, delivered, sent, started, reader, writer>>
    BY <1>10 DEF Rests, Finishes, Drops, Acts, output, history
  <2>2. W' \subseteq W
    BY <1>10 DEF Rests, Jobless, Finishes, Drops, Abandons, Acts
  <2> QED BY <1>9, <2>1, <2>2
<1>11. CASE Counts
  <2>1. UNCHANGED <<jobs, channel, delivered, sent, started, reader, writer>> /\ W' = W
    BY <1>11 DEF Counts, Advances, history
  <2> QED BY <1>9, <2>1
<1>12. CASE Pauses \/ Tallies
  <2>1. UNCHANGED <<jobs, channel, delivered, sent, started, worker, writer>>
    BY <1>12 DEF Pauses, Tallies, output, history
  <2>2. R' = {}
    BY <1>12 DEF Pauses, Tallies, ReaderFrames
  <2> QED BY <1>9, <2>1, <2>2
<1>13. CASE Refuses
  <2>1. UNCHANGED <<jobs, channel, delivered, sent, started, worker, writer>>
    BY <1>13 DEF Refuses, output
  <2>2. R' \subseteq R
    BY <1>13 DEF Refuses, ReaderFrames
  <2> QED BY <1>9, <2>1, <2>2
<1>14. CASE Takes
  <2>1. /\ jobs # <<>> /\ jobs' = Tail(jobs) /\ W = {} /\ W' = {Head(jobs).frame}
        /\ UNCHANGED <<channel, delivered, sent, started, reader, writer>> /\ jobs \in Seq(Job)
    BY <1>1, <1>14 DEF Takes, Jobless, IShape, output, history
  <2> DEFINE n == Len(jobs)
  <2>2. n \in Nat /\ n >= 1
    <3>1. Len(jobs) # 0
      BY <2>1, Empty, Zenon
    <3> QED BY <2>1, <3>1
  <2>3. /\ Len(jobs') = n - 1 /\ \A j \in 1..(n - 1) : jobs'[j] = jobs[j + 1]
        /\ Head(jobs) = jobs[1]
    BY <2>1, <2>2
  <2> HIDE DEF n
  <2>4. /\ \A i, j \in 1..Len(jobs') : jobs'[i].frame = jobs'[j].frame => i = j
        /\ \A j \in 1..Len(jobs') : Faithful(jobs'[j])
        /\ \A j \in 1..Len(jobs') : jobs'[j].frame # jobs[1].frame
    <3>1. \A j \in 1..(n - 1) : j + 1 \in 1..n /\ j + 1 # 1
      BY <2>2
    <3>2. 1 \in 1..n
      BY <2>2
    <3>3. \A i, j \in 1..n : jobs[i].frame = jobs[j].frame => i = j
      BY <1>3 DEF n
    <3>4. \A i, j \in 1..(n - 1) : jobs'[i].frame = jobs'[j].frame => i = j
      <4>1. ASSUME NEW i \in 1..(n - 1), NEW j \in 1..(n - 1), jobs'[i].frame = jobs'[j].frame PROVE i = j
        <5>1. jobs[i + 1].frame = jobs[j + 1].frame /\ i + 1 \in 1..n /\ j + 1 \in 1..n
          BY <2>3, <3>1, <4>1
        <5>2. i + 1 = j + 1
          BY <3>3, <5>1
        <5> QED BY <2>2, <5>2
      <4> QED BY <4>1
    <3>5. \A j \in 1..(n - 1) : Faithful(jobs'[j])
      <4>1. \A j \in 1..n : Faithful(jobs[j])
        BY <1>3 DEF n
      <4> QED BY <2>3, <3>1, <4>1
    <3>6. \A j \in 1..(n - 1) : jobs'[j].frame # jobs[1].frame
      <4>1. ASSUME NEW j \in 1..(n - 1), jobs'[j].frame = jobs[1].frame PROVE FALSE
        <5>1. jobs[j + 1].frame = jobs[1].frame /\ j + 1 \in 1..n /\ j + 1 # 1
          BY <2>3, <3>1, <4>1
        <5> QED BY <3>2, <3>3, <5>1
      <4> QED BY <4>1
    <3> QED BY <2>3, <3>4, <3>5, <3>6
  <2>5. Q = {Head(jobs).frame} \cup Q' /\ Head(jobs).frame \notin Q'
    <3>1. Head(jobs) \in Job
      BY <2>1
    <3>2. QueueFrames(jobs) = {Head(jobs).frame} \cup QueueFrames(Tail(jobs))
      BY <2>1, <3>1, Queues
    <3>3. Head(jobs).frame \notin QueueFrames(jobs')
      BY <2>3, <2>4 DEF QueueFrames
    <3> QED BY <2>1, <3>2, <3>3
  <2>6. R' = R /\ C' = C /\ O' = O /\ D' = D
    BY <2>1
  <2>7. Apart(R, Q, W, C, O, D)' /\ Places(R, Q, W, C, O, D)' \subseteq sent'
    <3> HIDE DEF R, Q, W, C, O, D
    <3> QED BY <1>2, <2>1, <2>5, <2>6 DEF Apart, Places
  <2>8. \A o \in started' : o[1] \in sent' \ (R' \cup Q')
    <3> HIDE DEF R, Q, W, C, O, D
    <3> QED BY <1>5, <2>1, <2>5, <2>6
  <2> QED BY <1>4, <1>6, <2>1, <2>4, <2>7, <2>8 DEF IPlaces
<1>15. CASE Handles
  <2>1. /\ SameQueue /\ W' = W
        /\ UNCHANGED <<channel, delivered, sent, started, reader, writer>>
    BY <1>15 DEF Handles, output, history
  <2>2. Q' = Q /\ R' = R /\ C' = C /\ O' = O /\ D' = D
    BY <2>1, SameFrames
  <2>3. Apart(R, Q, W, C, O, D)' /\ Places(R, Q, W, C, O, D)' \subseteq sent'
    BY <1>8, <2>1, <2>2
  <2>4. \A o \in started' : o[1] \in sent' \ (R' \cup Q')
    BY <1>5, <2>1, <2>2
  <2>5. /\ \A i, j \in 1..Len(jobs') : jobs'[i].frame = jobs'[j].frame => i = j
        /\ \A j \in 1..Len(jobs') : Faithful(jobs'[j])
    BY <1>3, <2>1 DEF SameQueue
  <2> QED BY <1>4, <1>6, <2>1, <2>3, <2>4, <2>5 DEF IPlaces
<1>16. CASE Begins
  <2>1. /\ W' = W /\ Current[1] \in W /\ started' = started \cup {Current}
        /\ UNCHANGED <<jobs, channel, delivered, sent, reader, writer>>
    BY <1>16 DEF Begins, output
  <2>2. Q' = Q /\ R' = R /\ C' = C /\ O' = O /\ D' = D
    BY <2>1
  <2>3. Apart(R, Q, W, C, O, D)' /\ Places(R, Q, W, C, O, D)' \subseteq sent'
    BY <1>8, <2>1, <2>2
  <2>4. Current[1] \in sent \ (R \cup Q)
    <3> HIDE DEF R, Q, W, C, O, D
    <3> QED BY <1>2, <2>1 DEF Apart, Places
  <2>5. \A o \in started' : o[1] \in sent' \ (R' \cup Q')
    <3> HIDE DEF R, Q, W, C, O, D
    <3> QED BY <1>5, <2>1, <2>2, <2>4
  <2> QED BY <1>7, <2>1, <2>3, <2>5
<1>17. CASE Ships
  <2>1. PICK m \in Message : /\ Detaches(worker, worker', m) /\ Silent(channel) /\ channel' = <<m>> /\ Lone(m)
                             /\ UNCHANGED <<jobs, delivered, sent, started, reader, writer>>
    BY <1>17 DEF Ships, history
  <2>2. /\ W' \subseteq W /\ FramesOf(m.replies) \subseteq W \ W' /\ C = {} /\ C' = FramesOf(m.replies)
        /\ R' = R /\ Q' = Q /\ O' = O /\ D' = D
    BY <2>1 DEF Detaches, Silent, Lone
  <2>3. Apart(R, Q, W, C, O, D)' /\ Places(R, Q, W, C, O, D)' \subseteq sent'
    <3> HIDE DEF R, Q, W, C, O, D
    <3> QED BY <1>2, <2>1, <2>2 DEF Apart, Places
  <2>4. \A o \in started' : o[1] \in sent' \ (R' \cup Q')
    <3> HIDE DEF R, Q, W, C, O, D
    <3> QED BY <1>5, <2>1, <2>2
  <2> QED BY <1>7, <2>1, <2>3, <2>4
<1>18. CASE Reads
  <2>1. PICK f \in Frames : /\ reader.pc = "read" /\ f \notin sent /\ sent' = sent \cup {f}
                            /\ reader'.frame = {f} /\ reader'.pc \in {"enqueue", "reply"}
                            /\ UNCHANGED <<jobs, channel, delivered, started, worker, writer>>
    BY <1>18 DEF Reads, output
  <2>2. R = {} /\ R' = {f} /\ Q' = Q /\ W' = W /\ C' = C /\ O' = O /\ D' = D
    BY <2>1 DEF ReaderFrames
  <2>3. Apart(R, Q, W, C, O, D)' /\ Places(R, Q, W, C, O, D)' \subseteq sent'
    <3> HIDE DEF R, Q, W, C, O, D
    <3> QED BY <1>2, <2>1, <2>2 DEF Apart, Places
  <2>4. \A o \in started' : o[1] \in sent' \ (R' \cup Q')
    <3> HIDE DEF R, Q, W, C, O, D
    <3> QED BY <1>5, <2>1, <2>2
  <2> QED BY <1>7, <2>1, <2>3, <2>4
<1>19. CASE Admits
  <2>1. PICK f \in Frames :
          /\ reader.pc = "enqueue" /\ reader.frame = {f} /\ reader'.pc = "wake"
          /\ jobs' = Append(jobs, [frame |-> f, items |-> Content[f]])
          /\ UNCHANGED <<channel, delivered, sent, started, worker, writer>>
    BY <1>19 DEF Admits, output
  <2> DEFINE job == [frame |-> f, items |-> Content[f]]
             n == Len(jobs)
  <2>2. /\ job \in Job /\ job.frame = f /\ job.items = Content[f] /\ jobs \in Seq(Job)
    <3>1. Content[f] \in Seq(Item)
      BY Items
    <3>2. Content[f] \in Seq(Entry)
      BY <3>1 DEF Entry
    <3> QED BY <1>1, <3>2 DEF Job, IShape
  <2>3. jobs' = Append(jobs, job) /\ n \in Nat
    BY <2>1, <2>2
  <2>4. Faithful(job)
    BY <2>2 DEF Faithful
  <2> HIDE DEF job
  <2>5. /\ Len(jobs') = n + 1 /\ (\A j \in 1..n : jobs'[j] = jobs[j]) /\ jobs'[n + 1] = job
    BY <2>2, <2>3
  <2>6. Q' = Q \cup {f}
    BY <2>2, <2>3, Queues
  <2>7. R = {f} /\ R' = {} /\ W' = W /\ C' = C /\ O' = O /\ D' = D
    BY <2>1 DEF ReaderFrames
  <2>8. f \notin QueueFrames(jobs)
    <3> HIDE DEF R, W, C, O, D
    <3> QED BY <1>2, <2>7 DEF Apart
  <2>9. \A j \in 1..n : jobs[j].frame # f
    BY <2>8 DEF QueueFrames
  <2> HIDE DEF n
  <2>10. 1..(n + 1) = (1..n) \cup {n + 1}
    BY <2>3
  <2>11. /\ \A i, j \in 1..Len(jobs') : jobs'[i].frame = jobs'[j].frame => i = j
         /\ \A j \in 1..Len(jobs') : Faithful(jobs'[j])
    <3>1. /\ \A i, j \in 1..n : jobs[i].frame = jobs[j].frame => i = j
          /\ \A j \in 1..n : Faithful(jobs[j])
      BY <1>3 DEF n
    <3>2. \A i, j \in (1..n) \cup {n + 1} : jobs'[i].frame = jobs'[j].frame => i = j
      BY <2>2, <2>5, <2>9, <3>1
    <3>3. \A j \in (1..n) \cup {n + 1} : Faithful(jobs'[j])
      BY <2>4, <2>5, <3>1
    <3> QED BY <2>5, <2>10, <3>2, <3>3
  <2>12. Apart(R, Q, W, C, O, D)' /\ Places(R, Q, W, C, O, D)' \subseteq sent'
    <3> HIDE DEF R, Q, W, C, O, D
    <3> QED BY <1>2, <2>1, <2>6, <2>7 DEF Apart, Places
  <2>13. \A o \in started' : o[1] \in sent' \ (R' \cup Q')
    <3> HIDE DEF R, Q, W, C, O, D
    <3> QED BY <1>5, <2>1, <2>6, <2>7
  <2> QED BY <1>4, <1>6, <2>1, <2>11, <2>12, <2>13 DEF IPlaces
<1>20. CASE Replies
  <2>1. PICK m \in Message, f \in Frames :
          /\ reader.pc = "reply" /\ reader.frame = {f} /\ reader'.pc = "count"
          /\ Silent(channel) /\ channel' = <<m>> /\ Lone(m) /\ Made(m, f)
          /\ UNCHANGED <<jobs, delivered, sent, started, worker, writer>>
    BY <1>20 DEF Replies, history
  <2>2. /\ R = {f} /\ R' = {} /\ C = {} /\ C' = FramesOf(m.replies)
        /\ Q' = Q /\ W' = W /\ O' = O /\ D' = D
    BY <2>1 DEF ReaderFrames, Silent, Lone
  <2>3. FramesOf(m.replies) \subseteq {f}
    BY <2>1 DEF Made, About, FramesOf
  <2>4. Apart(R, Q, W, C, O, D)' /\ Places(R, Q, W, C, O, D)' \subseteq sent'
    <3> HIDE DEF R, Q, W, C, O, D
    <3> QED BY <1>2, <2>1, <2>2, <2>3 DEF Apart, Places
  <2>5. \A o \in started' : o[1] \in sent' \ (R' \cup Q')
    <3> HIDE DEF R, Q, W, C, O, D
    <3> QED BY <1>5, <2>1, <2>2
  <2> QED BY <1>7, <2>1, <2>4, <2>5
<1>21. CASE Receives
  <2>1. PICK m \in Message : /\ channel = <<m>> /\ Lone(m) /\ Silent(channel') /\ writer'.message = <<m>>
                             /\ writer.pc = "receive" /\ writer'.pc = "write"
                             /\ UNCHANGED <<jobs, delivered, sent, started, worker, reader>>
    BY <1>21 DEF Receives, history
  <2>2. /\ C = FramesOf(m.replies) /\ C' = {} /\ O = {} /\ O' = FramesOf(m.replies)
        /\ R' = R /\ Q' = Q /\ W' = W /\ D' = D
    BY <2>1 DEF Silent, Lone, WriterFrames
  <2>3. Apart(R, Q, W, C, O, D)' /\ Places(R, Q, W, C, O, D)' \subseteq sent'
    <3> HIDE DEF R, Q, W, C, O, D
    <3> QED BY <1>2, <2>1, <2>2 DEF Apart, Places
  <2>4. \A o \in started' : o[1] \in sent' \ (R' \cup Q')
    <3> HIDE DEF R, Q, W, C, O, D
    <3> QED BY <1>5, <2>1, <2>2
  <2> QED BY <1>7, <2>1, <2>3, <2>4
<1>22. CASE Quits
  <2>1. /\ ToSet(channel') \subseteq ToSet(channel) /\ writer'.pc = "done"
        /\ UNCHANGED <<jobs, delivered, sent, started, worker, reader>>
    BY <1>22 DEF Quits, history
  <2>2. /\ C' \subseteq C /\ O' = {} /\ R' = R /\ Q' = Q /\ W' = W /\ D' = D
    BY <2>1 DEF FramesIn, WriterFrames
  <2>3. Apart(R, Q, W, C, O, D)' /\ Places(R, Q, W, C, O, D)' \subseteq sent'
    BY <1>8, <2>1, <2>2
  <2>4. \A o \in started' : o[1] \in sent' \ (R' \cup Q')
    BY <1>5, <2>1, <2>2
  <2> QED BY <1>7, <2>1, <2>3, <2>4
<1>23. CASE Writes
  <2>1. PICK m \in Message :
          /\ writer.pc = "write" /\ writer'.pc = "release" /\ writer.message[1] = m
          /\ writer'.message = writer.message /\ Sane(m) /\ delivered' = delivered \cup m.replies
          /\ UNCHANGED <<jobs, channel, sent, started, worker, reader>>
    BY <1>23 DEF Writes
  <2>2. /\ O = FramesOf(m.replies) /\ O' = {} /\ D' = D \cup FramesOf(m.replies)
        /\ R' = R /\ Q' = Q /\ W' = W /\ C' = C
    BY <2>1, FramesOfUnion DEF WriterFrames
  <2>3. Apart(R, Q, W, C, O, D)' /\ Places(R, Q, W, C, O, D)' \subseteq sent'
    <3> HIDE DEF R, Q, W, C, O, D
    <3> QED BY <1>2, <2>1, <2>2 DEF Apart, Places
  <2>4. \A o \in started' : o[1] \in sent' \ (R' \cup Q')
    <3> HIDE DEF R, Q, W, C, O, D
    <3> QED BY <1>5, <2>1, <2>2
  <2>5. Single(delivered') /\ delivered' \subseteq Answer
    <3>1. Single(m.replies) /\ m.replies \subseteq Answer
      BY <2>1, SaneFrames
    <3>2. FramesOf(m.replies) \cap FramesOf(delivered) = {}
      <4>1. O \cap D = {}
        <5> HIDE DEF R, Q, W, C, O, D
        <5> QED BY <1>2 DEF Apart
      <4> QED BY <2>2, <4>1
    <3>3. \A r \in m.replies, d \in delivered : r[1] # d[1]
      BY <3>2 DEF FramesOf
    <3> QED BY <1>6, <2>1, <3>1, <3>3 DEF Single
  <2>6. FramesOf(writer'.message[1].replies) \subseteq FramesOf(delivered')
    BY <2>1, <2>2
  <2> QED BY <1>3, <2>1, <2>3, <2>4, <2>5, <2>6 DEF IPlaces
<1>24. CASE Releases \/ Closes
  <2>1. /\ UNCHANGED <<jobs, channel, delivered, sent, started, worker, reader>>
        /\ writer'.pc \in {"count", "receive"}
    BY <1>24 DEF Releases, Closes, history
  <2>2. O' = {}
    BY <2>1 DEF WriterFrames
  <2> QED BY <1>9, <2>1, <2>2
<1> QED BY <1>10, <1>11, <1>12, <1>13, <1>14, <1>15, <1>16, <1>17, <1>18, <1>19, <1>20, <1>21, <1>22,
           <1>23, <1>24
        DEF Steps, Processes, Transfers, Listens, Prints

\* A request that was cancelled in time stays marked while it could be begun.
LEMMA DoomedStep == ASSUME IInv, Steps PROVE IDoomed'
<1>1. IShape /\ IWorker /\ IWriter /\ IPlaces /\ IPending
  BY DEF IInv
<1>2. \A o \in doomed : /\ o \notin started /\ o[1] \in sent
                        /\ reader.pc = "enqueue" => o[1] \notin reader.frame
                        /\ o \in QueueOwes(jobs) \cup Engaged(worker) => o \in cancelled
  BY DEF IInv, IDoomed
<1>3. ASSUME UNCHANGED <<doomed, started, sent, cancelled>>, reader' = reader \/ reader'.pc # "enqueue",
             QueueOwes(jobs') \cup Engaged(worker') \subseteq QueueOwes(jobs) \cup Engaged(worker)
      PROVE  IDoomed'
  BY <1>2, <1>3 DEF IDoomed
<1>4. CASE Rests
  <2>1. UNCHANGED <<doomed, started, sent, cancelled, reader, jobs>> /\ Engaged(worker') = {}
    BY <1>4 DEF Rests, Jobless, history
  <2> QED BY <1>3, <2>1
<1>5. CASE Takes
  <2>1. /\ UNCHANGED <<doomed, started, sent, cancelled, reader>> /\ jobs # <<>> /\ jobs' = Tail(jobs)
        /\ Engaged(worker') = RequestsOf(Head(jobs).frame) /\ jobs \in Seq(Job)
    BY <1>1, <1>5 DEF Takes, IShape, history
  <2>2. QueueOwes(jobs) = RequestsOf(Head(jobs).frame) \cup QueueOwes(Tail(jobs))
    <3>1. Head(jobs) \in Job
      BY <2>1
    <3> QED BY <2>1, <3>1, Queues
  <2> QED BY <1>3, <2>1, <2>2
<1>6. CASE Handles
  <2>1. /\ UNCHANGED <<doomed, started, sent, cancelled, reader>> /\ SameQueue
        /\ Engaged(worker') = Engaged(worker)
    BY <1>6 DEF Handles, history
  <2> QED BY <1>3, <2>1, SameFrames
<1>7. CASE Begins
  <2>1. /\ UNCHANGED <<doomed, sent, cancelled, reader, jobs>> /\ Engaged(worker') = Engaged(worker)
        /\ started' = started \cup {Current} /\ Current \in Engaged(worker) /\ Current \notin cancelled
    BY <1>7 DEF Begins
  <2> QED BY <1>2, <2>1 DEF IDoomed
<1>8. CASE Acts
  <2>1. /\ UNCHANGED <<doomed, started, sent, cancelled, reader, jobs>> /\ Engaged(worker') = Engaged(worker)
    BY <1>8 DEF Acts
  <2> QED BY <1>3, <2>1
<1>9. CASE Finishes
  <2>1. /\ UNCHANGED <<doomed, started, sent, cancelled, reader, jobs>> /\ Engaged(worker') = {}
    BY <1>9 DEF Finishes, history
  <2> QED BY <1>3, <2>1
<1>10. CASE Transfers
  <2>1. /\ UNCHANGED <<doomed, started, sent, cancelled, reader, jobs>> /\ Engaged(worker') = Engaged(worker)
    BY <1>10 DEF Transfers, Ships, Drops, Counts, Detaches, Abandons, Advances, history
  <2> QED BY <1>3, <2>1
<1>11. CASE Pauses \/ Replies \/ Tallies
  <2>1. /\ UNCHANGED <<doomed, started, sent, cancelled, worker, jobs>> /\ reader'.pc # "enqueue"
    BY <1>11 DEF Pauses, Replies, Tallies, history
  <2> QED BY <1>3, <2>1
<1>12. CASE Reads
  <2>1. PICK f \in Frames : /\ f \notin sent /\ sent' = sent \cup {f} /\ reader'.frame = {f}
                            /\ UNCHANGED <<doomed, started, cancelled, worker, jobs>>
    BY <1>12 DEF Reads
  <2> QED BY <1>2, <2>1 DEF IDoomed
<1>13. CASE Refuses
  <2>1. /\ Marks(reader.frame, pending) /\ reader'.pc # "enqueue"
        /\ UNCHANGED <<sent, started, worker, jobs>>
    BY <1>13 DEF Refuses, Marks
  <2>2. QueueOwes(jobs) \cup Engaged(worker) \subseteq pending
    BY <1>1 DEF IPending, Owed, WorkerOwes
  <2> QED BY <1>2, <2>1, <2>2 DEF Marks, IDoomed
<1>14. CASE Admits
  <2>1. PICK f \in Frames :
          /\ reader.pc = "enqueue" /\ reader.frame = {f} /\ reader'.pc = "wake"
          /\ pending' = pending \cup RequestsOf(f) /\ Marks(f, pending')
          /\ jobs' = Append(jobs, [frame |-> f, items |-> Content[f]])
          /\ UNCHANGED <<sent, started, worker>>
    BY <1>14 DEF Admits
  <2> DEFINE job == [frame |-> f, items |-> Content[f]]
  <2>2. job \in Job /\ job.frame = f /\ jobs \in Seq(Job) /\ jobs' = Append(jobs, job)
    <3>1. Content[f] \in Seq(Item)
      BY Items
    <3>2. Content[f] \in Seq(Entry)
      BY <3>1 DEF Entry
    <3> QED BY <1>1, <2>1, <3>2 DEF Job, IShape
  <2> HIDE DEF job
  <2>3. QueueOwes(jobs') = QueueOwes(jobs) \cup RequestsOf(f)
    BY <2>2, Queues
  <2>4. QueueOwes(jobs) \cup Engaged(worker) \subseteq pending
    BY <1>1 DEF IPending, Owed, WorkerOwes
  <2>5. QueueOwes(jobs') \cup Engaged(worker') \subseteq pending'
    BY <2>1, <2>3, <2>4
  <2>6. \A o \in RequestsOf(f) : o[1] \in reader.frame
    BY <2>1, Items
  <2>7. ASSUME NEW o \in doomed
        PROVE  o \in QueueOwes(jobs') \cup Engaged(worker') => o \in cancelled'
    BY <1>2, <2>1, <2>3, <2>6, <2>7 DEF Marks
  <2>8. ASSUME NEW o \in doomed' \ doomed
        PROVE  /\ o \notin started /\ o[1] \in sent
               /\ o \in QueueOwes(jobs') \cup Engaged(worker') => o \in cancelled'
    BY <2>1, <2>5, <2>8 DEF Marks
  <2> QED BY <1>2, <2>1, <2>7, <2>8 DEF IDoomed
<1>15. CASE Receives \/ Quits \/ Writes \/ Closes
  <2>1. /\ UNCHANGED <<doomed, started, sent, cancelled, reader, worker, jobs>>
    BY <1>15 DEF Receives, Quits, Writes, Closes, history
  <2> QED BY <1>3, <2>1
<1>16. CASE Releases
  <2>1. PICK m \in Message :
          /\ writer.pc = "release" /\ writer.message[1] = m
          /\ cancelled' = cancelled \ m.release
          /\ UNCHANGED <<jobs, worker, reader, doomed, started, sent>>
    BY <1>16 DEF Releases, history
  <2>2. \A o \in QueueOwes(jobs) \cup Engaged(worker) : o \notin m.release
    <3>1. /\ \A o \in QueueOwes(jobs) : o[1] \in QueueFrames(jobs)
          /\ \A o \in WorkerOwes(worker) : o[1] \in WorkerFrames(worker)
          /\ \A o \in m.release : o[1] \in FramesOf(m.replies)
      BY <1>1, <2>1, OwnersHold
    <3>2. /\ FramesOf(m.replies) \subseteq FramesOf(delivered)
          /\ FramesOf(delivered) \cap (QueueFrames(jobs) \cup WorkerFrames(worker)) = {}
      BY <1>1, <2>1 DEF IPlaces, Apart
    <3>3. Engaged(worker) \subseteq WorkerOwes(worker)
      BY DEF WorkerOwes
    <3> QED BY <3>1, <3>2, <3>3
  <2> QED BY <1>2, <2>1, <2>2 DEF IDoomed
<1> QED BY <1>4, <1>5, <1>6, <1>7, <1>8, <1>9, <1>10, <1>11, <1>12, <1>13, <1>14, <1>15, <1>16
        DEF Steps, Processes, Listens, Prints

\* What somebody will say was there before, but for refusals.
LEMMA Sayings ==
    ASSUME IInv, Steps
    PROVE  /\ \A r \in Outside' : r \in Outside \/ r[2] \in {"limit", "invalid"} \/ (Finishes /\ r \in Inside(worker))
           /\ \A r \in Inside(worker') : r \in Inside(worker) \/ Handles
<1>1. IShape /\ IReader
  BY DEF IInv
<1>2. CASE Rests \/ Takes
  <2>1. /\ WorkerSays(worker') = {} /\ Inside(worker') = {}
        /\ UNCHANGED <<channel, writer, reader, delivered>>
    BY <1>2 DEF Rests, Takes, Jobless, output, history
  <2> QED BY <2>1 DEF Outside
<1>3. CASE Handles \/ Begins \/ Acts
  <2>1. /\ WorkerSays(worker') = {} /\ (Handles \/ Inside(worker') = Inside(worker))
        /\ UNCHANGED <<channel, writer, reader, delivered>>
    BY <1>3 DEF Handles, Begins, Acts, output, history
  <2> QED BY <2>1 DEF Outside
<1>4. CASE Finishes
  <2>1. /\ \A r \in WorkerSays(worker') : r \in Inside(worker) \/ r[2] = "invalid"
        /\ Inside(worker') = {}
        /\ UNCHANGED <<channel, writer, reader, delivered>>
    BY <1>4 DEF Finishes, output, history
  <2> QED BY <1>4, <2>1 DEF Outside
<1>5. CASE Ships
  <2>1. PICK m \in Message : /\ Detaches(worker, worker', m) /\ channel' = <<m>> /\ Lone(m)
                             /\ UNCHANGED <<writer, reader, delivered>>
    BY <1>5 DEF Ships, history
  <2>2. /\ RepliesIn(channel') = m.replies /\ WorkerSays(worker) = WorkerSays(worker') \cup m.replies
        /\ Inside(worker') = Inside(worker)
    BY <2>1 DEF Detaches, Lone
  <2> QED BY <2>1, <2>2 DEF Outside
<1>6. CASE Drops
  <2>1. /\ WorkerSays(worker') = {} /\ Inside(worker') = Inside(worker)
        /\ UNCHANGED <<channel, writer, reader, delivered>>
    BY <1>6 DEF Drops, Abandons, output, history
  <2> QED BY <2>1 DEF Outside
<1>7. CASE Counts
  <2>1. /\ WorkerSays(worker') = WorkerSays(worker) /\ Inside(worker') = Inside(worker)
        /\ UNCHANGED <<channel, writer, reader, delivered>>
    BY <1>7 DEF Counts, Advances, history
  <2> QED BY <2>1 DEF Outside
<1>8. CASE Pauses \/ Admits \/ Tallies
  <2>1. ReaderSays(reader') = {} /\ UNCHANGED <<channel, writer, worker, delivered>>
    BY <1>8 DEF Pauses, Admits, Tallies, ReaderSays, output, history
  <2> QED BY <2>1 DEF Outside
<1>9. CASE Reads
  <2>1. /\ \A r \in ReaderSays(reader') : r[2] = "invalid"
        /\ UNCHANGED <<channel, writer, worker, delivered>>
    BY <1>9 DEF Reads, ReaderSays, output
  <2> QED BY <2>1 DEF Outside
<1>10. CASE Refuses
  <2>1. /\ \A r \in ReaderSays(reader') : r[2] \in {"limit", "invalid"}
        /\ UNCHANGED <<channel, writer, worker, delivered>>
    BY <1>10 DEF Refuses, ReaderSays, output
  <2> QED BY <2>1 DEF Outside
<1>11. CASE Replies
  <2>1. PICK m \in Message : /\ reader.pc = "reply" /\ m.replies = reader.reply /\ channel' = <<m>> /\ Lone(m)
                             /\ reader'.pc = "count" /\ UNCHANGED <<writer, worker, delivered>>
    BY <1>11 DEF Replies, history
  <2>2. RepliesIn(channel') = ReaderSays(reader) /\ ReaderSays(reader') = {}
    BY <2>1 DEF ReaderSays, Lone
  <2> QED BY <2>1, <2>2 DEF Outside
<1>12. CASE Receives
  <2>1. PICK m \in Message : /\ channel = <<m>> /\ Lone(m) /\ Silent(channel') /\ writer'.message = <<m>>
                             /\ UNCHANGED <<reader, worker, delivered>>
    BY <1>12 DEF Receives, history
  <2>2. RepliesIn(channel) = m.replies /\ RepliesIn(channel') = {} /\ WriterSays(writer') \subseteq m.replies
    BY <2>1 DEF WriterSays, Silent, Lone
  <2> QED BY <2>1, <2>2 DEF Outside
<1>13. CASE Quits
  <2>1. /\ ToSet(channel') \subseteq ToSet(channel) /\ WriterSays(writer') = {}
        /\ UNCHANGED <<reader, worker, delivered>>
    BY <1>13 DEF Quits, WriterSays, history
  <2>2. RepliesIn(channel') \subseteq RepliesIn(channel)
    BY <2>1 DEF RepliesIn
  <2> QED BY <2>1, <2>2 DEF Outside
<1>14. CASE Writes
  <2>1. PICK m \in Message : /\ writer.pc = "write" /\ writer'.pc = "release" /\ writer.message[1] = m
                             /\ delivered' = delivered \cup m.replies
                             /\ UNCHANGED <<channel, reader, worker>>
    BY <1>14 DEF Writes
  <2>2. WriterSays(writer) = m.replies /\ WriterSays(writer') = {}
    BY <2>1 DEF WriterSays
  <2> QED BY <2>1, <2>2 DEF Outside
<1>15. CASE Releases \/ Closes
  <2>1. WriterSays(writer') = {} /\ UNCHANGED <<channel, reader, worker, delivered>>
    BY <1>15 DEF Releases, Closes, WriterSays, history
  <2> QED BY <2>1 DEF Outside
<1> QED BY <1>2, <1>3, <1>4, <1>5, <1>6, <1>7, <1>8, <1>9, <1>10, <1>11, <1>12, <1>13, <1>14, <1>15
        DEF Steps, Processes, Transfers, Listens, Prints

\* Whoever sees initialize answered finds the server initialized.
LEMMA ReadyStep == ASSUME IInv, Steps PROVE IReady'
<1>1. IShape /\ IWorker
  BY DEF IInv
<1>2. /\ ready => server.initialized
      /\ \A r \in Inside(worker) : Welcomes(r) => server.initialized
      /\ \A r \in Outside : Welcomes(r) => ready
      /\ worker.pc = "late" /\ Welcomes(<<Current, worker.outcome>>) => server.initialized
  BY DEF IInv, IReady
<1>3. /\ \A r \in Outside' : r \in Outside \/ ~Welcomes(r) \/ (Finishes /\ r \in Inside(worker))
      /\ \A r \in Inside(worker') : r \in Inside(worker) \/ Handles
  BY Sayings DEF Welcomes
<1>4. CASE Finishes
  <2>1. ready' = server.initialized /\ server' = server /\ Inside(worker') = {} /\ worker'.pc # "late"
    BY <1>4 DEF Finishes
  <2> QED BY <1>2, <1>3, <2>1 DEF IReady
<1>5. CASE Handles
  <2>1. /\ ready' = ready /\ server'.initialized = server.initialized /\ worker'.pc # "late"
        /\ \A r \in Inside(worker') \ Inside(worker) :
              /\ r[1] = Current
              /\ r[2] = "ok" => worker.pc = "late" /\ worker.outcome = "ok"
    BY <1>5 DEF Handles
  <2>2. ~Finishes
    BY <2>1, <1>5 DEF Handles, Finishes
  <2>3. \A r \in Inside(worker') : Welcomes(r) => server.initialized
    <3>1. ASSUME NEW r \in Inside(worker') \ Inside(worker), Welcomes(r) PROVE server.initialized
      <4>1. r[1] = Current /\ r[2] = "ok" /\ worker.pc = "late" /\ worker.outcome = "ok"
        BY <2>1, <3>1 DEF Welcomes
      <4>2. Welcomes(<<Current, worker.outcome>>)
        BY <3>1, <4>1 DEF Welcomes
      <4> QED BY <1>2, <4>1, <4>2
    <3> QED BY <1>2, <3>1
  <2> QED BY <1>2, <1>3, <2>1, <2>2, <2>3 DEF IReady
<1>6. CASE Acts
  <2>1. /\ ready' = ready /\ (server.initialized => server'.initialized)
        /\ worker'.job = worker.job /\ worker'.item = worker.item
        /\ worker'.outcome = "ok" /\ ItemAt(Current).method = "initialize" => server'.initialized
        /\ worker.pc = "execute" /\ worker'.pc = "late" /\ Inside(worker') = Inside(worker)
    BY <1>6 DEF Acts
  <2>2. ~Finishes /\ ~Handles
    BY <2>1 DEF Handles, Finishes
  <2>3. Welcomes(<<Current, worker.outcome>>)' => server'.initialized
    BY <2>1 DEF Welcomes, Current
  <2> QED BY <1>2, <1>3, <2>1, <2>2, <2>3 DEF IReady
<1>7. ASSUME ready' = ready, server'.initialized = server.initialized, worker' = worker \/ worker'.pc # "late",
             ~Finishes, ~Handles
      PROVE  IReady'
  <2>1. worker'.pc = "late" /\ Welcomes(<<Current, worker.outcome>>)' => server.initialized
    BY <1>2, <1>7 DEF Welcomes, Current
  <2> QED BY <1>2, <1>3, <1>7, <2>1 DEF IReady
<1>8. CASE Rests \/ Takes \/ Begins
  BY <1>4, <1>5, <1>7, <1>8 DEF Rests, Takes, Begins
<1>9. CASE Transfers
  <2>1. worker.next # "late"
    BY <1>1 DEF IShape, Workers
  <2>2. worker'.pc # "late" /\ ready' = ready /\ server' = server
    BY <1>9, <2>1 DEF Transfers, Ships, Drops, Counts, Detaches, Abandons, Advances
  <2> QED BY <1>4, <1>5, <1>7, <2>2
<1>10. CASE Listens \/ Prints
  <2>1. worker' = worker /\ ready' = ready /\ server' = server
    BY <1>10
       DEF Listens, Prints, Pauses, Reads, Refuses, Admits, Replies, Tallies, Receives, Quits, Writes,
                 Releases, Closes
  <2> QED BY <1>4, <1>5, <1>7, <2>1
<1> QED BY <1>4, <1>5, <1>6, <1>8, <1>9, <1>10 DEF Steps, Processes

\* What the request in hand will change, nobody has answered.
LEMMA Unanswered ==
    ASSUME IInv, worker.pc = "execute"
    PROVE  \A r \in Inside(worker) \cup Outside : r[1] # Current
<1>1. IShape /\ IWorker /\ IReader /\ IWriter
  BY DEF IInv
<1>2. Apart(ReaderFrames(reader), QueueFrames(jobs), WorkerFrames(worker), FramesIn(channel),
            WriterFrames(writer), FramesOf(delivered))
  BY DEF IInv, IPlaces
<1>3. /\ Current = <<worker.job[1].frame, worker.item>> /\ Current[1] \in WorkerFrames(worker)
      /\ Current[2] = worker.item /\ worker.item \in Nat /\ InHandOf(worker) /\ ~Leaving(worker)
  BY <1>1, InHand0
<1>4. \A r \in Inside(worker) : r[1] # Current
  <2>1. \A r \in worker.replies : r[1][2] < worker.item
    BY <1>1, <1>3 DEF IWorker, Employed, Working
  <2> QED BY <1>3, <2>1 DEF Inside
<1>5. WorkerSays(worker) = {}
  <2>1. ~Leaving(worker) => RepliesIn(Box(worker)) = {}
    BY <1>1, Boxes DEF IShape, IWorker
  <2> QED BY <1>3, <2>1 DEF WorkerSays
<1>6. \A r \in RepliesIn(channel) : r[1][1] \in FramesIn(channel)
  BY DEF RepliesIn, FramesIn, FramesOf
<1>7. \A r \in WriterSays(writer) : r[1][1] \in WriterFrames(writer)
  BY DEF WriterSays, WriterFrames, FramesOf
<1>8. \A r \in ReaderSays(reader) : r[1][1] \in ReaderFrames(reader)
  BY <1>1 DEF ReaderSays, ReaderFrames, IReader
<1>9. \A r \in delivered : r[1][1] \in FramesOf(delivered)
  BY DEF FramesOf
<1>10. \A r \in Outside : r[1][1] # Current[1]
  BY <1>2, <1>3, <1>5, <1>6, <1>7, <1>8, <1>9 DEF Outside, Apart
<1> QED BY <1>4, <1>10

\* An effect is hidden by a cancellation in the constructor only.
LEMMA AppliedStep == ASSUME IInv, Steps PROVE IApplied'
<1>1. IShape /\ IWorker
  BY DEF IInv
<1>2. /\ \A o \in applied : ItemAt(o).method \in CommitsState \cup {"query/constructorOpen"}
      /\ \A r \in Inside(worker) \cup Outside :
           r[2] = "cancelled" /\ r[1] \in applied => ItemAt(r[1]).method = "query/constructorOpen"
  BY DEF IInv, IApplied, Hidden
<1>3. /\ \A r \in Outside' : r \in Inside(worker) \cup Outside \/ r[2] # "cancelled"
      /\ \A r \in Inside(worker') : r \in Inside(worker) \/ Handles
  BY Sayings
<1>4. CASE Handles
  <2>1. /\ applied' = applied
        /\ \A r \in Inside(worker') \ Inside(worker) :
              /\ r[1] = Current
              /\ r[2] = "cancelled" => Current \notin started \/ ItemAt(Current).method \notin CommitsState
    BY <1>4 DEF Handles, history
  <2>2. applied \subseteq started
    BY <1>1 DEF IShape
  <2> QED BY <1>2, <1>3, <2>1, <2>2 DEF IApplied, Hidden
<1>5. CASE Acts
  <2>1. /\ applied' \subseteq applied \cup {Current} /\ applied \subseteq applied'
        /\ Current \in applied' \ applied => ItemAt(Current).method \in CommitsState \cup {"query/constructorOpen"}
        /\ worker.pc = "execute" /\ ~Handles
    BY <1>5 DEF Acts, Handles
  <2>2. \A r \in Inside(worker) \cup Outside : r[1] # Current
    BY <2>1, Unanswered
  <2> QED BY <1>2, <1>3, <2>1, <2>2 DEF IApplied, Hidden
<1>6. ASSUME applied' = applied, ~Handles PROVE IApplied'
  BY <1>2, <1>3, <1>6 DEF IApplied, Hidden
<1>7. CASE Rests \/ Takes \/ Begins \/ Finishes \/ Transfers
  <2>1. applied' = applied
    BY <1>7 DEF Rests, Takes, Begins, Finishes, Transfers, Ships, Drops, Counts, history
  <2> QED BY <1>4, <1>6, <2>1
<1>8. CASE Listens \/ Prints
  <2>1. applied' = applied
    BY <1>8
       DEF Listens, Prints, Pauses, Reads, Refuses, Admits, Replies, Tallies, Receives, Quits, Writes,
                 Releases, Closes, history
  <2> QED BY <1>4, <1>6, <2>1
<1> QED BY <1>4, <1>5, <1>7, <1>8 DEF Steps, Processes

\* The event of a refresh stays ahead of its answer.
LEMMA EventsStep == ASSUME IInv, Steps PROVE IEvents'
<1> DEFINE Q == QueueFrames(jobs)
           W == WorkerFrames(worker)
           C == FramesIn(channel)
           O == WriterFrames(writer)
           D == FramesOf(delivered)
           T == WriterTells(writer)
           V == ChangedIn(channel)
           U == WorkerTells(worker)
<1>1. IShape /\ IWorker /\ IReader /\ IWriter
  BY DEF IInv
<1>2. Apart(ReaderFrames(reader), Q, W, C, O, D)
  BY DEF IInv, IPlaces
<1>3. \A o \in started : o[1] \in sent \ (ReaderFrames(reader) \cup Q)
  BY DEF IInv, IPlaces
<1>4. \A o \in Refreshed :
        /\ o[1] \in D \cup O => o \in announced
        /\ o[1] \in C /\ writer.pc # "done" => o \in announced \cup T
        /\ o[1] \in W /\ stop = Running => o \in announced \cup T \cup V \cup U
  BY DEF IInv, IEvents
<1>5. Refreshed \subseteq started
  BY <1>1 DEF IShape, Refreshed
<1>6. ASSUME \A o \in Refreshed' :
                /\ o[1] \in (D \cup O)' => o \in announced'
                /\ o[1] \in C' /\ writer'.pc # "done" => o \in (announced \cup T)'
                /\ o[1] \in W' /\ stop' = Running => o \in (announced \cup T \cup V \cup U)'
      PROVE  IEvents'
  BY <1>6 DEF IEvents
<1>7. ASSUME UNCHANGED <<applied, announced, channel, writer, delivered>>,
             W' \subseteq W, stop' = Running => stop = Running /\ U \subseteq U'
      PROVE  IEvents'
  <2>1. Refreshed' = Refreshed /\ C' = C /\ O' = O /\ D' = D /\ T' = T /\ V' = V
    BY <1>7 DEF Refreshed
  <2> HIDE DEF Q, W, C, O, D, T, V, U
  <2> QED BY <1>4, <1>6, <1>7, <2>1
<1>8. Halts /\ stop' = Running => stop = Running
  BY DEF Halts
<1>9. CASE Rests
  <2>1. UNCHANGED <<applied, announced, channel, writer, delivered>> /\ W' = {}
    BY <1>9 DEF Rests, Jobless, output, history
  <2>2. Refreshed' = Refreshed /\ C' = C /\ O' = O /\ D' = D /\ T' = T
    BY <2>1 DEF Refreshed
  <2> HIDE DEF Q, W, C, O, D, T, V, U
  <2> QED BY <1>4, <1>6, <2>1, <2>2
<1>10. CASE Takes
  <2>1. /\ UNCHANGED <<applied, announced, channel, writer, delivered>> /\ W' = {Head(jobs).frame}
        /\ jobs \in Seq(Job) /\ jobs # <<>>
    BY <1>1, <1>10 DEF Takes, IShape, output, history
  <2>2. Refreshed' = Refreshed /\ C' = C /\ O' = O /\ D' = D /\ T' = T
    BY <2>1 DEF Refreshed
  <2>3. Head(jobs).frame \in Q
    <3>1. Head(jobs) \in Job
      BY <2>1
    <3>2. QueueFrames(jobs) = {Head(jobs).frame} \cup QueueFrames(Tail(jobs))
      BY <2>1, <3>1, Queues
    <3> QED BY <3>2
  <2> HIDE DEF Q, W, C, O, D, T, V, U
  <2> QED BY <1>3, <1>4, <1>5, <1>6, <2>1, <2>2, <2>3
<1>11. CASE Handles \/ Begins
  <2>1. /\ UNCHANGED <<applied, announced, channel, writer, delivered, stop>> /\ W' = W /\ U \subseteq U'
    BY <1>11 DEF Handles, Begins, output, history
  <2> QED BY <1>7, <2>1
<1>12. CASE Finishes
  <2>1. /\ UNCHANGED <<applied, announced, channel, writer, delivered, stop>> /\ W' \subseteq W /\ U' = U
    BY <1>12 DEF Finishes, output, history
  <2> QED BY <1>7, <2>1
<1>13. CASE Acts
  <2>1. /\ UNCHANGED <<announced, channel, writer, delivered, stop>> /\ W' = W /\ U \subseteq U'
        /\ Current[1] \in W
        /\ \A o \in Refreshed' : o \in Refreshed \/ (o = Current /\ o \in U')
    BY <1>13 DEF Acts, Refreshed, output
  <2>2. C' = C /\ O' = O /\ D' = D /\ T' = T /\ V' = V
    BY <2>1
  <2>3. Current[1] \notin D \cup O \cup C
    <3> HIDE DEF Q, W, C, O, D, T, V, U
    <3> QED BY <1>2, <2>1 DEF Apart
  <2> HIDE DEF Q, W, C, O, D, T, V, U
  <2> QED BY <1>4, <1>6, <2>1, <2>2, <2>3
<1>14. CASE Ships
  <2>1. PICK m \in Message : /\ Detaches(worker, worker', m) /\ Silent(channel) /\ channel' = <<m>> /\ Lone(m)
                             /\ stop = Running
                             /\ UNCHANGED <<applied, announced, delivered, writer, stop>>
    BY <1>14 DEF Ships, history
  <2>2. /\ W' \subseteq W /\ FramesOf(m.replies) \subseteq W /\ V = {} /\ V' = m.changed
        /\ C' = FramesOf(m.replies) /\ U = U' \cup m.changed
        /\ O' = O /\ D' = D /\ T' = T /\ Refreshed' = Refreshed
    BY <2>1 DEF Detaches, Silent, Lone, Refreshed
  <2>3. FramesOf(m.replies) = {} \/ U = {}
    <3>1. Plain(m) \/ (Made(m, worker.job[1].frame) /\ Box(worker') = <<>>)
      BY <2>1 DEF Detaches
    <3>2. Plain(m) => FramesOf(m.replies) = {}
      BY DEF Plain, FramesOf
    <3>3. Made(m, worker.job[1].frame) /\ Box(worker') = <<>> => U = {}
      <4>1. ChangedIn(<<>>) = {}
        BY Silence DEF Silent
      <4> QED BY <2>2, <4>1 DEF WorkerTells, Made
    <3> QED BY <3>1, <3>2, <3>3
  <2> HIDE DEF Q, W, C, O, D, T, V, U
  <2> QED BY <1>4, <1>6, <2>1, <2>2, <2>3
<1>15. CASE Drops
  <2>1. /\ UNCHANGED <<applied, announced, channel, writer, delivered>> /\ W' \subseteq W /\ stop' # Running
    BY <1>15 DEF Drops, Abandons, output, history
  <2> QED BY <1>7, <2>1
<1>16. CASE Counts
  <2>1. /\ UNCHANGED <<applied, announced, channel, writer, delivered, stop>> /\ W' = W /\ U' = U
    BY <1>16 DEF Counts, Advances, history
  <2> QED BY <1>7, <2>1
<1>17. CASE Pauses \/ Reads \/ Refuses \/ Admits \/ Tallies
  <2>1. /\ UNCHANGED <<applied, announced, channel, writer, delivered, worker>> /\ (stop' = stop \/ Halts)
    BY <1>17 DEF Pauses, Reads, Refuses, Admits, Tallies, output, history
  <2> QED BY <1>7, <1>8, <2>1
<1>18. CASE Replies
  <2>1. PICK m \in Message, f \in Frames :
          /\ reader.pc = "reply" /\ reader.frame = {f} /\ Silent(channel) /\ channel' = <<m>> /\ Lone(m)
          /\ Made(m, f) /\ UNCHANGED <<applied, announced, delivered, worker, writer, stop>>
    BY <1>18 DEF Replies, history
  <2>2. /\ C' = FramesOf(m.replies) /\ V = {}
        /\ W' = W /\ O' = O /\ D' = D /\ T' = T /\ U' = U /\ Refreshed' = Refreshed
    BY <2>1 DEF Silent, Lone, Refreshed
  <2>3. FramesOf(m.replies) \subseteq ReaderFrames(reader)
    BY <2>1 DEF Made, About, FramesOf, ReaderFrames
  <2> HIDE DEF Q, W, C, O, D, T, V, U
  <2> QED BY <1>3, <1>4, <1>5, <1>6, <2>1, <2>2, <2>3
<1>19. CASE Receives
  <2>1. PICK m \in Message : /\ channel = <<m>> /\ Lone(m) /\ Silent(channel') /\ writer'.message = <<m>>
                             /\ writer.pc = "receive" /\ writer'.pc = "write"
                             /\ UNCHANGED <<applied, announced, delivered, worker, stop>>
    BY <1>19 DEF Receives, history
  <2>2. /\ C = FramesOf(m.replies) /\ C' = {} /\ V = m.changed /\ V' = {}
        /\ O' = FramesOf(m.replies) /\ T = {} /\ T' = m.changed
        /\ W' = W /\ D' = D /\ U' = U /\ Refreshed' = Refreshed
    BY <2>1 DEF Silent, Lone, Refreshed, WriterFrames, WriterTells
  <2> HIDE DEF Q, W, C, O, D, T, V, U
  <2> QED BY <1>4, <1>6, <2>1, <2>2
<1>20. CASE Quits
  <2>1. /\ writer'.pc = "done" /\ stop' # Running
        /\ UNCHANGED <<applied, announced, delivered, worker>>
    BY <1>20 DEF Quits, history
  <2>2. O' = {} /\ D' = D /\ Refreshed' = Refreshed
    BY <2>1 DEF Refreshed, WriterFrames
  <2> HIDE DEF Q, W, C, O, D, T, V, U
  <2> QED BY <1>4, <1>6, <2>1, <2>2
<1>21. CASE Writes
  <2>1. PICK m \in Message :
          /\ writer.pc = "write" /\ writer'.pc = "release" /\ writer.message[1] = m
          /\ delivered' = delivered \cup m.replies /\ announced' = announced \cup m.changed
          /\ UNCHANGED <<applied, channel, worker, stop>>
    BY <1>21 DEF Writes
  <2>2. /\ O = FramesOf(m.replies) /\ O' = {} /\ D' = D \cup FramesOf(m.replies)
        /\ T = m.changed /\ T' = {}
        /\ W' = W /\ C' = C /\ V' = V /\ U' = U /\ Refreshed' = Refreshed
    BY <2>1, FramesOfUnion DEF WriterFrames, WriterTells, Refreshed
  <2> HIDE DEF Q, W, C, O, D, T, V, U
  <2> QED BY <1>4, <1>6, <2>1, <2>2
<1>22. CASE Releases \/ Closes
  <2>1. /\ writer.pc \in {"release", "count"} /\ writer'.pc \in {"count", "receive"}
        /\ UNCHANGED <<applied, announced, delivered, channel, worker, stop>>
    BY <1>22 DEF Releases, Closes, history
  <2>2. /\ O' = {} /\ D' = D /\ T = {} /\ T' = {}
        /\ W' = W /\ C' = C /\ V' = V /\ U' = U /\ Refreshed' = Refreshed
    BY <2>1 DEF WriterFrames, WriterTells, Refreshed
  <2> HIDE DEF Q, W, C, O, D, T, V, U
  <2> QED BY <1>4, <1>6, <2>1, <2>2
<1> QED BY <1>9, <1>10, <1>11, <1>12, <1>13, <1>14, <1>15, <1>16, <1>17, <1>18, <1>19, <1>20, <1>21, <1>22
        DEF Steps, Processes, Transfers, Listens, Prints

\* An exit is the last thing that happens to a connection that lasts.
LEMMA ExitStep == ASSUME IInv, Steps PROVE IExit'
<1> DEFINE Q == QueueFrames(jobs)
           W == WorkerFrames(worker)
           Met(w) == InHandOf(w) /\ \E e \in DOMAIN Content[w.job[1].frame] :
                                       e < w.item /\ Exits(Content[w.job[1].frame][e])
           Ending(w) == Leaving(w) \/ w.pc \in {"finish", "flush", "flushpark"}
           Waiting(w) == w.pc \in {"flush", "flushpark"}
<1>1. IShape /\ IWorker /\ IReader /\ IWriter
  BY DEF IInv
<1>2. /\ ReaderFrames(reader) \cap (Q \cup W) = {} /\ Q \cap W = {}
      /\ Q \cup W \subseteq sent
  BY DEF IInv, IPlaces, Apart, Places
<1>3. /\ \A f \in sent : HasExit(f) => reader.frame = {f}
      /\ \A j \in 1..Len(jobs) : HasExit(jobs[j].frame) => j = Len(jobs)
      /\ reader.pc = "count" => reader.frame \cap (Q \cup W) = {}
  BY DEF IInv, IExit
<1>4. (\E f \in W : HasExit(f)) \/ exit # Running =>
          jobs = <<>> /\ reader.pc \notin {"enqueue", "reply", "count"} /\ \E f \in sent : HasExit(f)
  BY DEF IInv, IExit
<1>5. /\ exit # Running /\ stop = Running => Met(worker) \/ Ending(worker)
      /\ Waiting(worker) => exit # Running
      /\ Waiting(worker) /\ stop = Running => worker.target = published
  BY DEF IInv, IExit
<1>6. ASSUME /\ \A f \in sent' : HasExit(f) => reader'.frame = {f}
             /\ \A j \in 1..Len(jobs') : HasExit(jobs'[j].frame) => j = Len(jobs')
             /\ reader'.pc = "count" => reader'.frame \cap (Q \cup W)' = {},
             (\E f \in W' : HasExit(f)) \/ exit' # Running =>
                jobs' = <<>> /\ reader'.pc \notin {"enqueue", "reply", "count"} /\ \E f \in sent' : HasExit(f),
             exit' # Running /\ stop' = Running => Met(worker') \/ Ending(worker'),
             Waiting(worker') => exit' # Running,
             Waiting(worker') /\ stop' = Running => worker'.target = published'
      PROVE  IExit'
  BY <1>6 DEF IExit
\* What is in hand changes, and nothing before it or after it.
<1>7. ASSUME UNCHANGED <<jobs, reader, sent>>, exit' = exit, W' \subseteq W,
             exit' # Running /\ stop' = Running => Met(worker') \/ Ending(worker'),
             Waiting(worker') => exit' # Running,
             Waiting(worker') /\ stop' = Running => worker'.target = published'
      PROVE  IExit'
  <2>1. Q' = Q
    BY <1>7
  <2> HIDE DEF Met, Ending, Waiting, Q, W
  <2> QED BY <1>3, <1>4, <1>6, <1>7, <2>1
\* The worker goes on where it was.
<1>8. ASSUME worker' = worker, exit' = exit, published' = published \/ ~Waiting(worker),
             stop' = Running => stop = Running
      PROVE  /\ exit' # Running /\ stop' = Running => Met(worker') \/ Ending(worker')
             /\ Waiting(worker') => exit' # Running
             /\ Waiting(worker') /\ stop' = Running => worker'.target = published'
  <2> HIDE DEF Met, Ending, Waiting
  <2> QED BY <1>5, <1>8
<1>9. Halts /\ stop' = Running => stop = Running
  BY DEF Halts
<1>10. CASE Rests
  <2>1. /\ UNCHANGED <<jobs, reader, sent, exit, published>> /\ W' = {} /\ Halts
        /\ ~InHandOf(worker) /\ ~Leaving(worker)
        /\ worker.pc = "finish" => \/ exit = Running /\ worker'.pc = "check"
                                   \/ exit # Running /\ worker'.pc = "flush" /\ worker'.target = published
        /\ worker.pc \in {"flush", "flushpark"} =>
             \/ worker'.pc \in {"flush", "flushpark"} /\ worker'.target = worker.target
             \/ stop' # Running /\ worker'.pc = "check"
        /\ worker.pc \notin {"finish", "flush", "flushpark"} => worker'.pc \notin {"flush", "flushpark"}
    BY <1>10 DEF Rests, Jobless, output, history
  <2>2. stop' = Running => stop = Running
    BY <1>9, <2>1
  <2>3. exit' # Running /\ stop' = Running => Ending(worker')
    BY <1>5, <2>1, <2>2
  <2>4. Waiting(worker') => exit' # Running
    BY <1>5, <2>1
  <2>5. Waiting(worker') /\ stop' = Running => worker'.target = published'
    BY <1>5, <2>1, <2>2
  <2> HIDE DEF Met, Ending, Waiting
  <2> QED BY <1>7, <2>1, <2>3, <2>4, <2>5
<1>11. CASE Takes
  <2>1. /\ jobs # <<>> /\ jobs' = Tail(jobs) /\ W' = {Head(jobs).frame} /\ jobs \in Seq(Job)
        /\ worker.pc = "pop" /\ worker'.pc = "item" /\ ~InHandOf(worker) /\ ~Leaving(worker)
        /\ UNCHANGED <<sent, reader, exit, stop>>
    BY <1>1, <1>11 DEF Takes, Jobless, IShape, output, history
  <2> DEFINE n == Len(jobs)
  <2>2. n \in Nat /\ n >= 1
    <3>1. Len(jobs) # 0
      BY <2>1, Empty, Zenon
    <3> QED BY <2>1, <3>1
  <2>3. /\ Len(jobs') = n - 1 /\ (\A j \in 1..(n - 1) : jobs'[j] = jobs[j + 1])
        /\ Head(jobs) = jobs[1] /\ jobs' \in Seq(Job)
    BY <2>1, <2>2
  <2>4. Q = {Head(jobs).frame} \cup Q'
    <3>1. Head(jobs) \in Job
      BY <2>1
    <3>2. QueueFrames(jobs) = {Head(jobs).frame} \cup QueueFrames(Tail(jobs))
      BY <2>1, <3>1, Queues
    <3> QED BY <2>1, <3>2
  <2>5. exit = Running
    BY <1>4, <2>1
  <2>6. HasExit(Head(jobs).frame) =>
          jobs' = <<>> /\ reader.pc \notin {"enqueue", "reply", "count"} /\ Head(jobs).frame \in sent
    <3> SUFFICES ASSUME HasExit(Head(jobs).frame)
                 PROVE  jobs' = <<>> /\ reader.pc \notin {"enqueue", "reply", "count"} /\ Head(jobs).frame \in sent
      OBVIOUS
    <3>1. n = 1
      <4>1. 1 \in 1..n /\ HasExit(jobs[1].frame)
        BY <2>2, <2>3
      <4> QED BY <1>3, <4>1
    <3>2. Len(jobs') = 0
      BY <2>2, <2>3, <3>1
    <3>3. jobs' = <<>>
      BY <2>3, <3>2, Empty, Zenon
    <3>4. Head(jobs).frame \in sent /\ Head(jobs).frame \in Q
      <4> HIDE DEF W
      <4> QED BY <1>2, <2>4
    <3>5. reader.frame = {Head(jobs).frame}
      BY <1>3, <3>4
    <3>6. Head(jobs).frame \notin ReaderFrames(reader)
      <4> HIDE DEF Q, W
      <4> QED BY <1>2, <3>4
    <3>7. reader.pc \notin {"enqueue", "reply"}
      BY <3>5, <3>6 DEF ReaderFrames
    <3>8. reader.pc # "count"
      <4> HIDE DEF Q, W
      <4> QED BY <1>3, <3>4, <3>5
    <3> QED BY <3>3, <3>4, <3>7, <3>8
  <2>7. \A j \in 1..Len(jobs') : HasExit(jobs'[j].frame) => j = Len(jobs')
    <3>1. ASSUME NEW j \in 1..(n - 1), HasExit(jobs'[j].frame) PROVE j = n - 1
      <4>1. j + 1 \in 1..n /\ HasExit(jobs[j + 1].frame)
        BY <2>2, <2>3, <3>1
      <4>2. j + 1 = n
        BY <1>3, <4>1
      <4> QED BY <2>2, <4>2
    <3> QED BY <2>3, <3>1
  <2>8. ~Waiting(worker')
    BY <2>1
  <2>9. reader'.pc = "count" => reader'.frame \cap (Q \cup W)' = {}
    <3> HIDE DEF Q, W
    <3> QED BY <1>3, <2>1, <2>4
  <2>10. (\E f \in W' : HasExit(f)) \/ exit' # Running =>
            jobs' = <<>> /\ reader'.pc \notin {"enqueue", "reply", "count"} /\ \E f \in sent' : HasExit(f)
    <3> HIDE DEF W
    <3> QED BY <2>1, <2>5, <2>6
  <2>11. \A f \in sent' : HasExit(f) => reader'.frame = {f}
    BY <1>3, <2>1
  <2> HIDE DEF Met, Ending, Waiting, Q, W, n
  <2> QED BY <1>6, <2>1, <2>5, <2>7, <2>8, <2>9, <2>10, <2>11
<1>12. CASE Handles /\ Asks
  <2> DEFINE f == worker.job[1].frame
  <2>1. /\ SameQueue /\ W' = W /\ UNCHANGED <<sent, reader, stop>>
        /\ worker.pc \in {"item", "late"} /\ worker'.pc \in {"item", "send"}
        /\ worker.item \in 1..Len(Content[f]) /\ worker'.item = worker.item + 1
        /\ worker'.job = worker.job /\ InHandOf(worker')
        /\ \/ exit' = exit
           \/ exit' \in {0, 1} /\ Exits(Content[f][worker.item])
    BY <1>12 DEF Handles, Asks, output, history
  <2>2. /\ f \in Frames /\ W = {f} /\ ~Leaving(worker)
        /\ DOMAIN Content[f] = 1..Len(Content[f])
    <3>1. f \in Frames /\ WorkerFrames(worker) = {f} /\ ~Leaving(worker)
      BY <1>1, <2>1, InHand0
    <3>2. \A g \in Frames : DOMAIN Content[g] = 1..Len(Content[g])
      BY Items
    <3> QED BY <3>1, <3>2
  <2>3. Q' = Q
    BY <2>1, SameFrames
  <2>4. exit' # Running => exit # Running \/ HasExit(f)
    BY <2>1, <2>2 DEF HasExit
  <2>5. exit' # Running /\ stop' = Running => Met(worker')
    <3> SUFFICES ASSUME exit' # Running, stop' = Running
                 PROVE  \E e \in DOMAIN Content[f] : e < worker.item + 1 /\ Exits(Content[f][e])
      BY <2>1
    <3>1. CASE exit' = exit
      <4>1. Met(worker)
        <5>1. ~Ending(worker)
          BY <2>1, <2>2
        <5> HIDE DEF Met, Ending
        <5> QED BY <1>5, <2>1, <3>1, <5>1
      <4>2. PICK e \in DOMAIN Content[f] : e < worker.item /\ Exits(Content[f][e])
        BY <4>1
      <4>3. e \in Nat /\ worker.item \in Nat
        BY <2>1, <2>2
      <4>4. e < worker.item + 1
        BY <4>2, <4>3
      <4> QED BY <4>2, <4>4
    <3>2. CASE Exits(Content[f][worker.item])
      <4>1. worker.item \in DOMAIN Content[f] /\ worker.item < worker.item + 1
        BY <2>1, <2>2
      <4> QED BY <3>2, <4>1
    <3> QED BY <2>1, <3>1, <3>2
  <2>6. (\E g \in W' : HasExit(g)) \/ exit' # Running =>
            jobs' = <<>> /\ reader'.pc \notin {"enqueue", "reply", "count"} /\ \E g \in sent' : HasExit(g)
    <3>1. jobs = <<>> => jobs' = <<>>
      <4>1. jobs' \in Seq(Job) /\ Len(jobs') = Len(jobs)
        BY <2>1 DEF SameQueue
      <4>2. jobs = <<>> => Len(jobs') = 0
        BY <4>1
      <4> QED BY <4>1, <4>2, Empty, Zenon
    <3>2. (\E g \in W' : HasExit(g)) \/ exit' # Running => (\E g \in W : HasExit(g)) \/ exit # Running
      <4> HIDE DEF f
      <4> QED BY <2>1, <2>2, <2>4
    <3> HIDE DEF W
    <3> QED BY <1>4, <2>1, <3>1, <3>2
  <2>7. \A j \in 1..Len(jobs') : HasExit(jobs'[j].frame) => j = Len(jobs')
    BY <1>3, <2>1 DEF SameQueue
  <2>8. reader'.pc = "count" => reader'.frame \cap (Q \cup W)' = {}
    <3> HIDE DEF Q, W
    <3> QED BY <1>3, <2>1, <2>3
  <2>9. ~Waiting(worker')
    BY <2>1
  <2>10. \A g \in sent' : HasExit(g) => reader'.frame = {g}
    BY <1>3, <2>1
  <2> HIDE DEF Met, Ending, Waiting, Q, W, f
  <2> QED BY <1>6, <2>5, <2>6, <2>7, <2>8, <2>9, <2>10
<1>13. CASE Begins \/ Acts
  <2>1. /\ UNCHANGED <<jobs, reader, sent, exit, stop>> /\ W' = W
        /\ InHandOf(worker) /\ ~Leaving(worker) /\ InHandOf(worker')
        /\ worker.pc \in {"item", "execute"} /\ worker'.pc \in {"execute", "late"}
        /\ worker'.job = worker.job /\ worker'.item = worker.item
    BY <1>13 DEF Begins, Acts
  <2>2. Met(worker) => Met(worker')
    BY <2>1
  <2>3. ~Ending(worker) /\ ~Waiting(worker')
    BY <2>1
  <2> HIDE DEF Met, Ending, Waiting, W
  <2> QED BY <1>5, <1>7, <2>1, <2>2, <2>3
<1>14. CASE Finishes
  <2>1. /\ UNCHANGED <<jobs, reader, sent, exit>> /\ W' \subseteq W
        /\ worker'.pc \in {"send", "finish"} /\ (worker'.pc = "send" => worker'.next = "finish")
    BY <1>14 DEF Finishes, output, history
  <2>2. Ending(worker') /\ ~Waiting(worker')
    BY <2>1 DEF Leaving
  <2> HIDE DEF Met, Ending, Waiting, W
  <2> QED BY <1>7, <2>1, <2>2
<1>15. CASE Ships
  <2>1. /\ UNCHANGED <<jobs, reader, sent, exit, stop>> /\ W' \subseteq W
        /\ InHandOf(worker') = InHandOf(worker) /\ Leaving(worker') = Leaving(worker)
        /\ worker'.job = worker.job /\ worker'.item = worker.item
        /\ worker.pc = "send" /\ worker'.pc = "count"
    BY <1>15 DEF Ships, Detaches, history
  <2>2. Met(worker) => Met(worker')
    BY <2>1
  <2>3. (Ending(worker) => Ending(worker')) /\ ~Waiting(worker')
    BY <2>1
  <2> HIDE DEF Met, Ending, Waiting, W
  <2> QED BY <1>5, <1>7, <2>1, <2>2, <2>3
<1>16. CASE Drops
  <2>1. /\ UNCHANGED <<jobs, reader, sent, exit>> /\ W' \subseteq W /\ stop' # Running
        /\ worker'.pc = worker.next
    BY <1>16 DEF Drops, Abandons, output, history
  <2>2. worker.next \notin {"flush", "flushpark"}
    BY <1>1 DEF IShape, Workers
  <2>3. ~Waiting(worker')
    BY <2>1, <2>2
  <2> HIDE DEF Met, Ending, Waiting, W
  <2> QED BY <1>7, <2>1, <2>3
<1>17. CASE Counts
  <2>1. /\ UNCHANGED <<jobs, reader, sent, exit, stop>> /\ W' = W
        /\ InHandOf(worker') = InHandOf(worker)
        /\ worker'.job = worker.job /\ worker'.item = worker.item
        /\ worker.pc = "count" /\ worker'.next = worker.next
        /\ worker'.pc \in {"send", worker.next}
    BY <1>17 DEF Counts, Advances, history
  <2>2. worker.next \notin {"flush", "flushpark"}
    BY <1>1 DEF IShape, Workers
  <2>3. Met(worker) => Met(worker')
    BY <2>1
  <2>4. (Ending(worker) => Ending(worker')) /\ ~Waiting(worker')
    BY <2>1, <2>2 DEF Leaving
  <2> HIDE DEF Met, Ending, Waiting, W
  <2> QED BY <1>5, <1>7, <2>1, <2>3, <2>4
<1>18. CASE Pauses \/ Tallies
  <2>1. /\ UNCHANGED <<jobs, worker, sent, exit>> /\ (stop' = stop \/ Halts)
        /\ reader'.pc \in {"check", "read", "done"} /\ reader'.frame = reader.frame
        /\ published' = published \/ reader.pc = "count"
    BY <1>18 DEF Pauses, Tallies, output, history
  <2>2. published' = published \/ ~Waiting(worker)
    <3> HIDE DEF Waiting
    <3> QED BY <1>4, <1>5, <2>1
  <2>3. stop' = Running => stop = Running
    BY <1>9, <2>1
  <2>4. /\ exit' # Running /\ stop' = Running => Met(worker') \/ Ending(worker')
        /\ Waiting(worker') => exit' # Running
        /\ Waiting(worker') /\ stop' = Running => worker'.target = published'
    <3> HIDE DEF Met, Ending, Waiting
    <3> QED BY <1>8, <2>1, <2>2, <2>3
  <2>5. W' = W
    BY <2>1
  <2> HIDE DEF Met, Ending, Waiting, Q, W
  <2> QED BY <1>3, <1>4, <1>6, <2>1, <2>4, <2>5
<1>19. CASE Reads
  <2>1. PICK f \in Frames :
          /\ sent' = sent \cup {f} /\ reader'.frame = {f} /\ reader'.pc # "count"
          /\ \A g \in sent : ~HasExit(g)
          /\ UNCHANGED <<jobs, worker, exit, stop, published>>
    BY <1>19 DEF Reads, output
  <2>2. W' = W /\ exit = Running /\ \A g \in W : ~HasExit(g)
    <3>1. W' = W
      BY <2>1
    <3> HIDE DEF Q, W
    <3> QED BY <1>2, <1>4, <2>1, <3>1
  <2>3. \A j \in 1..Len(jobs') : HasExit(jobs'[j].frame) => j = Len(jobs')
    BY <1>3, <2>1
  <2>4. Waiting(worker') => exit' # Running
    BY <1>5, <2>1
  <2>5. Waiting(worker') /\ stop' = Running => worker'.target = published'
    BY <1>5, <2>1
  <2> HIDE DEF Met, Ending, Waiting, Q, W
  <2> QED BY <1>6, <2>1, <2>2, <2>3, <2>4, <2>5
<1>20. CASE Refuses
  <2>1. /\ UNCHANGED <<jobs, worker, sent, exit, stop, published>>
        /\ reader.pc = "enqueue" /\ reader'.pc # "count" /\ reader'.frame = reader.frame
    BY <1>20 DEF Refuses, output
  <2>2. W' = W
    BY <2>1
  <2>3. /\ exit' # Running /\ stop' = Running => Met(worker') \/ Ending(worker')
        /\ Waiting(worker') => exit' # Running
        /\ Waiting(worker') /\ stop' = Running => worker'.target = published'
    <3> HIDE DEF Met, Ending, Waiting
    <3> QED BY <1>8, <2>1
  <2> HIDE DEF Met, Ending, Waiting, Q, W
  <2> QED BY <1>3, <1>4, <1>6, <2>1, <2>2, <2>3
<1>21. CASE Admits
  <2>1. PICK f \in Frames :
          /\ jobs' = Append(jobs, [frame |-> f, items |-> Content[f]])
          /\ UNCHANGED <<worker, sent, exit, stop, published>>
          /\ reader.pc = "enqueue" /\ reader.frame = {f} /\ reader'.pc = "wake" /\ reader'.frame = {f}
    BY <1>21 DEF Admits, output
  <2>2. W' = W
    BY <2>1
  <2>3. /\ exit' # Running /\ stop' = Running => Met(worker') \/ Ending(worker')
        /\ Waiting(worker') => exit' # Running
        /\ Waiting(worker') /\ stop' = Running => worker'.target = published'
    <3> HIDE DEF Met, Ending, Waiting
    <3> QED BY <1>8, <2>1
  <2> DEFINE n == Len(jobs)
  <2>4. n \in Nat /\ Len(jobs') = n + 1 /\ \A j \in 1..n : jobs'[j] = jobs[j]
    <3>1. jobs \in Seq(Job)
      BY <1>1 DEF IShape
    <3> QED BY <2>1, <3>1
  <2>5. \A j \in 1..n : ~HasExit(jobs[j].frame)
    <3>1. ASSUME NEW j \in 1..n, HasExit(jobs[j].frame) PROVE FALSE
      <4>1. jobs[j].frame \in Q
        BY DEF QueueFrames
      <4>2. jobs[j].frame \in sent
        <5> HIDE DEF Q, W
        <5> QED BY <1>2, <4>1
      <4>3. reader.frame = {jobs[j].frame}
        BY <1>3, <3>1, <4>2
      <4>4. jobs[j].frame \in ReaderFrames(reader)
        BY <2>1, <4>3 DEF ReaderFrames
      <4> HIDE DEF Q, W
      <4> QED BY <1>2, <4>1, <4>4
    <3> QED BY <3>1
  <2> HIDE DEF n
  <2>6. \A j \in 1..Len(jobs') : HasExit(jobs'[j].frame) => j = Len(jobs')
    <3>1. 1..(n + 1) = (1..n) \cup {n + 1}
      BY <2>4
    <3> QED BY <2>4, <2>5, <3>1
  <2>7. ~(\E g \in W : HasExit(g)) /\ exit = Running
    <3> HIDE DEF W
    <3> QED BY <1>4, <2>1
  <2>8. \A g \in sent' : HasExit(g) => reader'.frame = {g}
    BY <1>3, <2>1
  <2>9. reader'.pc # "count"
    BY <2>1
  <2> HIDE DEF Met, Ending, Waiting, Q, W
  <2> QED BY <1>6, <2>1, <2>2, <2>3, <2>6, <2>7, <2>8, <2>9
<1>22. CASE Replies
  <2>1. PICK f \in Frames :
          /\ UNCHANGED <<jobs, worker, sent, exit, stop, published>>
          /\ reader.pc = "reply" /\ reader.frame = {f} /\ reader'.pc = "count" /\ reader'.frame = reader.frame
    BY <1>22 DEF Replies, history
  <2>2. W' = W /\ Q' = Q
    BY <2>1
  <2>3. /\ exit' # Running /\ stop' = Running => Met(worker') \/ Ending(worker')
        /\ Waiting(worker') => exit' # Running
        /\ Waiting(worker') /\ stop' = Running => worker'.target = published'
    <3> HIDE DEF Met, Ending, Waiting
    <3> QED BY <1>8, <2>1
  <2>4. reader'.frame \cap (Q \cup W)' = {}
    <3>1. reader'.frame = ReaderFrames(reader)
      BY <2>1 DEF ReaderFrames
    <3> HIDE DEF Q, W
    <3> QED BY <1>2, <2>2, <3>1
  <2>5. ~(\E g \in W : HasExit(g)) /\ exit = Running
    <3> HIDE DEF W
    <3> QED BY <1>4, <2>1
  <2>6. \A j \in 1..Len(jobs') : HasExit(jobs'[j].frame) => j = Len(jobs')
    BY <1>3, <2>1
  <2> HIDE DEF Met, Ending, Waiting, Q, W
  <2> QED BY <1>3, <1>6, <2>1, <2>2, <2>3, <2>4, <2>5, <2>6
<1>23. CASE Prints
  <2>1. /\ UNCHANGED <<jobs, worker, reader, sent, exit, published>> /\ (stop' = stop \/ Halts)
    BY <1>23 DEF Prints, Receives, Quits, Writes, Releases, Closes, history
  <2>2. stop' = Running => stop = Running
    BY <1>9, <2>1
  <2>3. /\ exit' # Running /\ stop' = Running => Met(worker') \/ Ending(worker')
        /\ Waiting(worker') => exit' # Running
        /\ Waiting(worker') /\ stop' = Running => worker'.target = published'
    <3> HIDE DEF Met, Ending, Waiting
    <3> QED BY <1>8, <2>1, <2>2
  <2>4. W' = W
    BY <2>1
  <2> HIDE DEF Met, Ending, Waiting, W
  <2> QED BY <1>7, <2>1, <2>3, <2>4
<1> QED BY <1>10, <1>11, <1>12, <1>13, <1>14, <1>15, <1>16, <1>17, <1>18, <1>19, <1>20, <1>21, <1>22, <1>23
        DEF Steps, Processes, Transfers, Listens

\* While the connection lasts no frame disappears without its answers.
LEMMA CompleteStep == ASSUME IInv, Steps PROVE IComplete'
<1> DEFINE R == ReaderFrames(reader)
           Q == QueueFrames(jobs)
           W == WorkerFrames(worker)
           C == FramesIn(channel)
           O == WriterFrames(writer)
           Gone == sent \ (R \cup Q \cup W \cup C \cup O)
           AtReader == reader.pc = "reply" => \A f \in reader.frame : Complete(f, reader.reply)
           AtWorker == Leaving(worker) /\ Box(worker) # <<>> =>
                         Complete(worker.job[1].frame, Box(worker)[Len(Box(worker))].replies)
           AtChannel == \A m \in ToSet(channel) : \A f \in FramesOf(m.replies) : Complete(f, m.replies)
           AtWriter == writer.pc = "write" =>
                         \A f \in FramesOf(writer.message[1].replies) : Complete(f, writer.message[1].replies)
           Done == \A f \in Gone : Complete(f, delivered)
<1> SUFFICES ASSUME stop' = Running
             PROVE  AtReader' /\ AtWorker' /\ AtChannel' /\ AtWriter' /\ Done'
  BY DEF IComplete, Places
<1>1. IShape /\ IWorker /\ IReader /\ IWriter
  BY DEF IInv
<1>2. stop = Running => AtReader /\ AtWorker /\ AtChannel /\ AtWriter /\ Done
  BY DEF IInv, IComplete, Places
<1>3. Halts => stop = Running
  BY DEF Halts
<1>4. \A f, S, T : S \subseteq T /\ Complete(f, S) => Complete(f, T)
  BY DEF Complete, Has
<1>5. \A f, S : RequestsOf(f) = {} => Complete(f, S)
  BY DEF Complete
<1>6. Apart(R, Q, W, C, O, FramesOf(delivered))
  BY DEF IInv, IPlaces
<1>7. ASSUME stop = Running, UNCHANGED <<reader, jobs, channel, writer, sent, delivered>>,
             AtWorker', \A f \in W \ W' : Complete(f, delivered)
      PROVE  AtReader' /\ AtWorker' /\ AtChannel' /\ AtWriter' /\ Done'
  <2>1. AtReader' /\ AtChannel' /\ AtWriter'
    BY <1>2, <1>7
  <2>2. Done'
    <3>1. R' = R /\ Q' = Q /\ C' = C /\ O' = O
      BY <1>7
    <3> HIDE DEF R, Q, W, C, O
    <3> QED BY <1>2, <1>7, <3>1
  <2> HIDE DEF AtReader, AtWorker, AtChannel, AtWriter, Done
  <2> QED BY <1>7, <2>1, <2>2
<1>8. CASE Rests
  <2>1. /\ UNCHANGED <<reader, jobs, channel, writer, sent, delivered>> /\ Halts
        /\ ~Leaving(worker') /\ W = {}
    BY <1>8 DEF Rests, Jobless, output, history
  <2>2. AtWorker'
    BY <2>1
  <2> HIDE DEF AtReader, AtWorker, AtChannel, AtWriter, Done, W
  <2> QED BY <1>3, <1>7, <2>1, <2>2
<1>9. CASE Takes
  <2>1. /\ UNCHANGED <<reader, channel, writer, sent, delivered, stop>> /\ jobs' = Tail(jobs) /\ jobs # <<>>
        /\ ~Leaving(worker') /\ W = {} /\ W' = {Head(jobs).frame} /\ jobs \in Seq(Job)
    BY <1>1, <1>9 DEF Takes, Jobless, IShape, output, history
  <2>2. Q = {Head(jobs).frame} \cup Q'
    <3>1. Head(jobs) \in Job
      BY <2>1
    <3>2. QueueFrames(jobs) = {Head(jobs).frame} \cup QueueFrames(Tail(jobs))
      BY <2>1, <3>1, Queues
    <3> QED BY <2>1, <3>2
  <2>3. AtReader' /\ AtWorker' /\ AtChannel' /\ AtWriter'
    BY <1>2, <2>1
  <2>4. Done'
    <3>1. R' = R /\ C' = C /\ O' = O
      BY <2>1
    <3> HIDE DEF R, Q, W, C, O
    <3> QED BY <1>2, <2>1, <2>2, <3>1
  <2> HIDE DEF AtReader, AtWorker, AtChannel, AtWriter, Done
  <2> QED BY <2>3, <2>4
<1>10. CASE Handles
  <2>1. /\ UNCHANGED <<reader, channel, writer, sent, delivered, stop>> /\ SameQueue
        /\ ~Leaving(worker') /\ W = W'
    <3>1. InHandOf(worker') => ~Leaving(worker')
      BY DEF InHandOf, Leaving
    <3> QED BY <1>10, <3>1 DEF Handles, output, history
  <2>2. AtReader' /\ AtWorker' /\ AtChannel' /\ AtWriter'
    BY <1>2, <2>1
  <2>3. Done'
    <3>1. R' = R /\ Q' = Q /\ C' = C /\ O' = O
      BY <2>1, SameFrames
    <3> HIDE DEF R, Q, W, C, O
    <3> QED BY <1>2, <2>1, <3>1
  <2> HIDE DEF AtReader, AtWorker, AtChannel, AtWriter, Done
  <2> QED BY <2>2, <2>3
<1>11. CASE Begins \/ Acts
  <2>1. /\ UNCHANGED <<reader, jobs, channel, writer, sent, delivered, stop>>
        /\ ~Leaving(worker') /\ W' = W
    BY <1>11 DEF Begins, Acts, output
  <2>2. AtWorker' /\ W \ W' = {}
    BY <2>1
  <2> HIDE DEF AtReader, AtWorker, AtChannel, AtWriter, Done, W
  <2> QED BY <1>7, <2>1, <2>2
<1>12. CASE Finishes
  <2> DEFINE f == worker.job[1].frame
             box == Box(worker')
  <2>1. /\ UNCHANGED <<reader, jobs, channel, writer, sent, delivered, stop>>
        /\ W = {f} /\ worker'.job = worker.job
        /\ box # <<>> => W' = {f}
        /\ box # <<>> /\ stop = Running => Complete(f, box[Len(box)].replies)
        /\ box = <<>> /\ stop = Running => Complete(f, {})
    BY <1>12 DEF Finishes, output, history
  <2>2. AtWorker'
    BY <2>1
  <2>3. \A g \in W \ W' : Complete(g, delivered)
    <3>1. Complete(f, {}) => Complete(f, delivered)
      BY <1>4
    <3> HIDE DEF f, box, W
    <3> QED BY <2>1, <3>1
  <2> HIDE DEF AtReader, AtWorker, AtChannel, AtWriter, Done, W, f, box
  <2> QED BY <1>7, <2>1, <2>2, <2>3
<1>13. CASE Ships
  <2>1. PICK m \in Message : /\ Detaches(worker, worker', m) /\ channel' = <<m>> /\ Lone(m) /\ Silent(channel)
                             /\ stop = Running
                             /\ UNCHANGED <<reader, jobs, writer, sent, delivered>>
    BY <1>13 DEF Ships, history
  <2> DEFINE f == worker.job[1].frame
             F == FramesOf(m.replies)
  <2>2. /\ InHandOf(worker') = InHandOf(worker) /\ Leaving(worker') = Leaving(worker)
        /\ worker'.job = worker.job
        /\ Plain(m) \/ (Leaving(worker) /\ Made(m, f) /\ Box(worker') = <<>>)
        /\ Box(worker') # <<>> => Box(worker')[Len(Box(worker'))] = Box(worker)[Len(Box(worker))]
        /\ Box(worker') = <<>> => m = Box(worker)[Len(Box(worker))]
        /\ Box(worker) # <<>>
    BY <2>1 DEF Detaches
  <2>3. C = {} /\ C' = F /\ ToSet(channel') = {m}
    BY <2>1 DEF Silent, Lone
  <2>4. (Plain(m) => m.replies = {} /\ F = {}) /\ (Made(m, f) => F = {f})
    BY DEF Plain, Made, About, FramesOf
  <2>5. AtWorker'
    BY <1>2, <2>1, <2>2
  <2>6. Leaving(worker) /\ Box(worker') = <<>> => Complete(f, m.replies)
    BY <1>2, <2>1, <2>2
  <2>7. AtChannel'
    <3> HIDE DEF f, F
    <3>1. \A g \in F : Complete(g, m.replies)
      BY <2>2, <2>4, <2>6
    <3> QED BY <2>3, <3>1 DEF F
  <2>8. \A g \in W : g \in W' \/ g \in C' \/ Complete(g, delivered)
    <3> SUFFICES ASSUME NEW g \in W, g \notin W', g \notin C' PROVE Complete(g, delivered)
      OBVIOUS
    <3>1. g = f /\ Holds(worker) /\ ~Holds(worker')
      BY <2>2 DEF WorkerFrames
    <3>2. Leaving(worker) /\ Box(worker') = <<>>
      BY <2>2, <3>1 DEF Holds
    <3>3. Complete(f, m.replies)
      BY <2>6, <3>2
    <3>4. Plain(m)
      <4> HIDE DEF f, F, W, C
      <4> QED BY <2>2, <2>3, <2>4, <3>1
    <3>5. m.replies \subseteq delivered
      BY <2>4, <3>4
    <3> HIDE DEF f, F
    <3> QED BY <1>4, <3>1, <3>3, <3>5
  <2>9. AtReader' /\ AtWriter'
    BY <1>2, <2>1
  <2>10. Done'
    <3>1. R' = R /\ Q' = Q /\ O' = O
      BY <2>1
    <3> HIDE DEF R, Q, W, C, O, f, F
    <3> QED BY <1>2, <2>1, <2>3, <2>8, <3>1
  <2> HIDE DEF AtReader, AtWorker, AtChannel, AtWriter, Done
  <2> QED BY <2>5, <2>7, <2>9, <2>10
<1>14. CASE Drops
  BY <1>14 DEF Drops
<1>15. CASE Counts
  <2>1. /\ UNCHANGED <<reader, jobs, channel, writer, sent, delivered, stop>>
        /\ W' = W /\ Box(worker') = Box(worker) /\ worker'.job = worker.job
        /\ Box(worker') # <<>> => Leaving(worker') = Leaving(worker)
    BY <1>15 DEF Counts, Advances, history
  <2>2. AtWorker' /\ W \ W' = {}
    BY <1>2, <2>1
  <2> HIDE DEF AtReader, AtWorker, AtChannel, AtWriter, Done, W
  <2> QED BY <1>7, <2>1, <2>2
<1>16. CASE Pauses \/ Tallies
  <2>1. /\ UNCHANGED <<jobs, worker, channel, writer, sent, delivered>> /\ stop = Running
        /\ reader.pc \notin {"enqueue", "reply"} /\ reader'.pc \notin {"enqueue", "reply"}
    BY <1>3, <1>16 DEF Pauses, Tallies, output, history
  <2>2. AtReader' /\ AtWorker' /\ AtChannel' /\ AtWriter'
    BY <1>2, <2>1
  <2>3. Done'
    <3>1. R' = {} /\ R = {} /\ Q' = Q /\ W' = W /\ C' = C /\ O' = O
      BY <2>1 DEF ReaderFrames
    <3> HIDE DEF R, Q, W, C, O
    <3> QED BY <1>2, <2>1, <3>1
  <2> HIDE DEF AtReader, AtWorker, AtChannel, AtWriter, Done
  <2> QED BY <2>2, <2>3
<1>17. CASE Reads
  <2>1. PICK f \in Frames :
          /\ sent' = sent \cup {f} /\ reader.pc = "read" /\ reader'.frame = {f}
          /\ \/ reader'.pc = "enqueue"
             \/ reader'.pc = "reply" /\ RequestsOf(f) = {}
          /\ UNCHANGED <<jobs, worker, channel, writer, delivered, stop>>
    BY <1>17 DEF Reads, output
  <2>2. AtReader'
    BY <1>5, <2>1
  <2>3. AtWorker' /\ AtChannel' /\ AtWriter'
    BY <1>2, <2>1
  <2>4. Done'
    <3>1. R' = {f} /\ R = {} /\ Q' = Q /\ W' = W /\ C' = C /\ O' = O
      BY <2>1 DEF ReaderFrames
    <3> HIDE DEF R, Q, W, C, O
    <3> QED BY <1>2, <2>1, <3>1
  <2> HIDE DEF AtReader, AtWorker, AtChannel, AtWriter, Done
  <2> QED BY <2>2, <2>3, <2>4
<1>18. CASE Refuses
  <2>1. PICK f \in Frames :
          /\ reader.pc = "enqueue" /\ reader.frame = {f} /\ reader'.frame = {f}
          /\ \/ reader'.pc = "check" /\ RequestsOf(f) = {}
             \/ reader'.pc = "reply" /\ Complete(f, reader'.reply)
          /\ UNCHANGED <<jobs, worker, channel, writer, sent, delivered, stop>>
    BY <1>18 DEF Refuses, output
  <2>2. AtReader'
    BY <2>1
  <2>3. AtWorker' /\ AtChannel' /\ AtWriter'
    BY <1>2, <2>1
  <2>4. Done'
    <3>1. /\ R = {f} /\ Q' = Q /\ W' = W /\ C' = C /\ O' = O
          /\ R' = {f} \/ RequestsOf(f) = {}
      BY <2>1 DEF ReaderFrames
    <3> HIDE DEF R, Q, W, C, O
    <3> QED BY <1>2, <1>5, <2>1, <3>1
  <2> HIDE DEF AtReader, AtWorker, AtChannel, AtWriter, Done
  <2> QED BY <2>2, <2>3, <2>4
<1>19. CASE Admits
  <2>1. PICK f \in Frames :
          /\ reader.pc = "enqueue" /\ reader.frame = {f} /\ reader'.pc = "wake"
          /\ jobs' = Append(jobs, [frame |-> f, items |-> Content[f]])
          /\ UNCHANGED <<worker, channel, writer, sent, delivered, stop>>
    BY <1>19 DEF Admits, output
  <2> DEFINE job == [frame |-> f, items |-> Content[f]]
  <2>2. job \in Job /\ job.frame = f /\ jobs \in Seq(Job) /\ jobs' = Append(jobs, job)
    <3>1. Content[f] \in Seq(Item)
      BY Items
    <3>2. Content[f] \in Seq(Entry)
      BY <3>1 DEF Entry
    <3> QED BY <1>1, <2>1, <3>2 DEF Job, IShape
  <2> HIDE DEF job
  <2>3. Q' = Q \cup {f}
    BY <2>2, Queues
  <2>4. AtReader' /\ AtWorker' /\ AtChannel' /\ AtWriter'
    BY <1>2, <2>1
  <2>5. Done'
    <3>1. R = {f} /\ R' = {} /\ W' = W /\ C' = C /\ O' = O
      BY <2>1 DEF ReaderFrames
    <3> HIDE DEF R, Q, W, C, O
    <3> QED BY <1>2, <2>1, <2>3, <3>1
  <2> HIDE DEF AtReader, AtWorker, AtChannel, AtWriter, Done
  <2> QED BY <2>4, <2>5
<1>20. CASE Replies
  <2>1. PICK m \in Message, f \in Frames :
          /\ reader.pc = "reply" /\ reader.frame = {f} /\ reader'.pc = "count" /\ reader'.frame = {f}
          /\ stop = Running /\ channel' = <<m>> /\ Lone(m) /\ Silent(channel) /\ Made(m, f)
          /\ m.replies = reader.reply
          /\ UNCHANGED <<jobs, worker, writer, sent, delivered>>
    BY <1>20 DEF Replies, history
  <2> DEFINE F == FramesOf(m.replies)
  <2>2. C = {} /\ C' = F /\ ToSet(channel') = {m} /\ F = {f}
    BY <2>1 DEF Silent, Lone, Made, About, FramesOf
  <2>3. AtChannel'
    <3>1. Complete(f, m.replies)
      BY <1>2, <2>1
    <3> QED BY <2>2, <3>1
  <2>4. AtReader' /\ AtWorker' /\ AtWriter'
    BY <1>2, <2>1
  <2>5. Done'
    <3>1. R = {f} /\ R' = {} /\ Q' = Q /\ W' = W /\ O' = O
      BY <2>1 DEF ReaderFrames
    <3> HIDE DEF R, Q, W, C, O, F
    <3> QED BY <1>2, <2>1, <2>2, <3>1
  <2> HIDE DEF AtReader, AtWorker, AtChannel, AtWriter, Done
  <2> QED BY <2>3, <2>4, <2>5
<1>21. CASE Receives
  <2>1. PICK m \in Message : /\ channel = <<m>> /\ Lone(m) /\ Silent(channel') /\ writer'.message = <<m>>
                             /\ writer.pc = "receive" /\ writer'.pc = "write" /\ stop = Running
                             /\ UNCHANGED <<jobs, worker, reader, sent, delivered>>
    BY <1>21 DEF Receives, history
  <2>2. /\ C = FramesOf(m.replies) /\ C' = {} /\ O = {} /\ O' = FramesOf(m.replies)
        /\ ToSet(channel) = {m} /\ ToSet(channel') = {} /\ writer'.message[1] = m
    BY <2>1 DEF Silent, Lone, WriterFrames
  <2>3. AtReader' /\ AtWorker' /\ AtChannel' /\ AtWriter'
    BY <1>2, <2>1, <2>2
  <2>4. Done'
    <3>1. R' = R /\ Q' = Q /\ W' = W
      BY <2>1
    <3> HIDE DEF R, Q, W, C, O
    <3> QED BY <1>2, <2>1, <2>2, <3>1
  <2> HIDE DEF AtReader, AtWorker, AtChannel, AtWriter, Done
  <2> QED BY <2>3, <2>4
<1>22. CASE Quits
  BY <1>22 DEF Quits
<1>23. CASE Writes
  <2>1. PICK m \in Message :
          /\ writer.pc = "write" /\ writer'.pc = "release" /\ writer.message[1] = m
          /\ delivered' = delivered \cup m.replies
          /\ UNCHANGED <<jobs, channel, worker, reader, sent, stop>>
    BY <1>23 DEF Writes
  <2>2. O = FramesOf(m.replies) /\ O' = {}
    BY <2>1 DEF WriterFrames
  <2>3. AtReader' /\ AtWorker' /\ AtChannel' /\ AtWriter'
    BY <1>2, <2>1
  <2>4. Done'
    <3>1. R' = R /\ Q' = Q /\ W' = W /\ C' = C
      BY <2>1
    <3>2. \A f \in O : Complete(f, m.replies)
      BY <1>2, <2>1, <2>2
    <3>3. \A f \in Gone : Complete(f, delivered)
      BY <1>2, <2>1
    <3>4. Gone' \subseteq Gone \cup O
      <4> HIDE DEF R, Q, W, C, O
      <4> QED BY <2>1, <2>2, <3>1
    <3> HIDE DEF Gone, O
    <3> QED BY <1>4, <2>1, <3>2, <3>3, <3>4
  <2> HIDE DEF AtReader, AtWorker, AtChannel, AtWriter, Done
  <2> QED BY <2>3, <2>4
<1>24. CASE Releases \/ Closes
  <2>1. /\ UNCHANGED <<jobs, channel, delivered, sent, worker, reader, stop>>
        /\ writer.pc \in {"release", "count"} /\ writer'.pc \in {"count", "receive"}
    BY <1>24 DEF Releases, Closes, history
  <2>2. AtReader' /\ AtWorker' /\ AtChannel' /\ AtWriter'
    BY <1>2, <2>1
  <2>3. Done'
    <3>1. R' = R /\ Q' = Q /\ W' = W /\ C' = C /\ O = {} /\ O' = {}
      BY <2>1 DEF WriterFrames
    <3> HIDE DEF R, Q, W, C, O
    <3> QED BY <1>2, <2>1, <3>1
  <2> HIDE DEF AtReader, AtWorker, AtChannel, AtWriter, Done
  <2> QED BY <2>2, <2>3
<1> HIDE DEF AtReader, AtWorker, AtChannel, AtWriter, Done
<1> QED BY <1>8, <1>9, <1>10, <1>11, <1>12, <1>13, <1>14, <1>15, <1>16, <1>17, <1>18, <1>19, <1>20, <1>21,
           <1>22, <1>23, <1>24
        DEF Steps, Processes, Transfers, Listens, Prints

\* A loss stays in sight.
LEMMA LossStep == ASSUME IShape, LossSeen, Next PROVE LossSeen'
<1>1. /\ server \in [initialized : BOOLEAN, closing : BOOLEAN, session : BOOLEAN,
                     refresh : BOOLEAN, index : 0..Descriptors]
      /\ stale \in BOOLEAN /\ overflow \in BOOLEAN
  BY DEF IShape
<1>2. stale /\ server.session => overflow \/ server.refresh
  BY DEF LossSeen
<1>3. ASSUME UNCHANGED <<stale, overflow, server>> PROVE LossSeen'
  BY <1>2, <1>3 DEF LossSeen
<1>4. CASE Reader
  <2>1. CASE ReaderCheck \/ Wake \/ ReaderSend \/ ReaderCount
    BY <1>3, <2>1 DEF ReaderCheck, Wake, ReaderSend, ReaderCount, queue, history
  <2>2. ASSUME NEW f \in reader.frame, EnqueueDuplicate(f) \/ EnqueueAdmit(f) PROVE LossSeen'
    BY <1>3, <2>2 DEF EnqueueDuplicate, EnqueueAdmit, queue, history
  <2>3. ASSUME NEW f \in reader.frame, EnqueueRefuse(f) PROVE LossSeen'
    <3>1. CASE UNCHANGED <<overflow, stale>>
      BY <1>3, <2>3, <3>1 DEF EnqueueRefuse
    <3>2. CASE \E b \in BOOLEAN : overflow' = (overflow \/ b) /\ stale' = (stale \/ b)
      <4>1. server' = server
        BY <2>3 DEF EnqueueRefuse
      <4> QED BY <1>1, <1>2, <3>2, <4>1 DEF LossSeen
    <3>3. \/ UNCHANGED <<overflow, stale>>
          \/ \E b \in BOOLEAN : overflow' = (overflow \/ b) /\ stale' = (stale \/ b)
      <4> DEFINE loses == \E i \in DOMAIN Content[f] : FileEvent(Content[f][i])
      <4>1. \/ UNCHANGED <<overflow, stale>>
            \/ overflow' = (overflow \/ loses) /\ stale' = (stale \/ loses)
        BY <2>3 DEF EnqueueRefuse
      <4>2. loses \in BOOLEAN
        OBVIOUS
      <4> HIDE DEF loses
      <4> QED BY <4>1, <4>2
    <3> QED BY <3>1, <3>2, <3>3
  <2> QED BY <1>4, <2>1, <2>2, <2>3 DEF Reader
<1>5. CASE Writer \/ Client \/ Fault
  <2>1. UNCHANGED <<stale, overflow, server>>
    BY <1>5
       DEF Writer, Client, Fault, Receive, ReceiveWith, Write, ReleaseIds, CountWritten, Read,
                EndOfInput, WriteFails, queue, history
  <2> QED BY <1>3, <2>1
<1>6. CASE Worker
  <2>1. CASE Pop
    <3>1. /\ overflow' = FALSE /\ server' = [server EXCEPT !.refresh = @ \/ (overflow /\ server.session)]
          /\ stale' = stale
      BY <2>1 DEF Pop, PopWith, history
    <3>2. /\ server'.refresh = (server.refresh \/ (overflow /\ server.session))
          /\ server'.session = server.session
      BY <1>1, <3>1
    <3> QED BY <1>1, <1>2, <3>1, <3>2 DEF LossSeen
  <2>2. CASE IndexStep
    <3>1. /\ overflow' = overflow /\ server' = [server EXCEPT !.index = @ - 1] /\ stale' = stale
      BY <2>2 DEF IndexStep, IndexThen, queue, history
    <3>2. server'.refresh = server.refresh /\ server'.session = server.session
      BY <1>1, <3>1
    <3> QED BY <1>2, <3>1, <3>2 DEF LossSeen
  <2>3. CASE FilesChanged
    <3>1. /\ overflow' = overflow /\ stale' = stale
          /\ server' = server \/ server' = [server EXCEPT !.refresh = TRUE]
      BY <2>3 DEF FilesChanged, queue, history
    <3>2. /\ server'.refresh \/ server'.refresh = server.refresh
          /\ server'.session = server.session
      BY <1>1, <3>1
    <3> QED BY <1>1, <1>2, <3>1, <3>2 DEF LossSeen
  <2>4. CASE Execute
    <3>1. overflow' = overflow
      BY <2>4
         DEF Execute, Fail, Initialize, OpenWorkspace, CloseWorkspace, Shutdown, Refresh, StartIndex,
                  UpdateProperty, OpenConstructor, ReadMetadata, Return, queue
    <3>2. CASE Fail \/ OpenConstructor \/ ReadMetadata
      BY <1>3, <3>1, <3>2 DEF Fail, OpenConstructor, ReadMetadata
    <3>3. CASE Initialize
      <4>1. server' = [server EXCEPT !.initialized = TRUE] /\ stale' = stale
        BY <3>3 DEF Initialize
      <4>2. server'.refresh = server.refresh /\ server'.session = server.session
        BY <1>1, <4>1
      <4> QED BY <1>2, <3>1, <4>1, <4>2 DEF LossSeen
    <3>4. CASE OpenWorkspace
      BY <3>4 DEF OpenWorkspace, LossSeen
    <3>5. CASE CloseWorkspace \/ Shutdown
      <4>1. server'.session = FALSE
        BY <1>1, <3>5 DEF CloseWorkspace, Shutdown
      <4> QED BY <4>1 DEF LossSeen
    <3>6. CASE Refresh
      <4>1. PICK ok \in BOOLEAN : server' = [server EXCEPT !.refresh = ~ok] /\ stale' = (stale /\ ~ok)
        BY <3>6 DEF Refresh
      <4>2. server'.refresh = ~ok
        BY <1>1, <4>1
      <4> QED BY <4>1, <4>2 DEF LossSeen
    <3>7. CASE StartIndex
      <4>1. server' = [server EXCEPT !.index = Descriptors] /\ stale' = stale
        BY <3>7 DEF StartIndex
      <4>2. server'.refresh = server.refresh /\ server'.session = server.session
        BY <1>1, <4>1
      <4> QED BY <1>2, <3>1, <4>1, <4>2 DEF LossSeen
    <3>8. CASE UpdateProperty
      <4>1. PICK ok \in BOOLEAN : server' = [server EXCEPT !.refresh = ~ok]
        BY <3>8 DEF UpdateProperty
      <4>2. stale' = stale /\ Allowed("metadata/updateProperty")
        BY <3>8 DEF UpdateProperty
      <4>3. ~server.refresh
        BY <4>2 DEF Allowed, Fresh
      <4>4. server'.session = server.session
        BY <1>1, <4>1
      <4> QED BY <1>2, <3>1, <4>2, <4>3, <4>4 DEF LossSeen
    <3> QED BY <2>4, <3>2, <3>3, <3>4, <3>5, <3>6, <3>7, <3>8 DEF Execute
  <2>5. CASE WorkerCheck \/ Idle \/ Park \/ FinishJob \/ Malformed \/ SkipFiles \/ ExitNotification
    <3>1. UNCHANGED <<stale, overflow, server>>
      BY <2>5
         DEF WorkerCheck, Idle, Park, FinishJob, Finish, Malformed, SkipFiles, ExitNotification,
                  queue, history
    <3> QED BY <1>3, <3>1
  <2>6. CASE OtherNotification \/ Begin \/ Late \/ WorkerSend \/ WorkerCount
    <3>1. UNCHANGED <<stale, overflow, server>>
      BY <2>6 DEF OtherNotification, Begin, Late, WorkerSend, WorkerCount, queue, history
    <3> QED BY <1>3, <3>1
  <2>7. CASE JobDone \/ Flush \/ FlushPark \/ FlushWake
    <3>1. UNCHANGED <<stale, overflow, server>>
      BY <2>7 DEF JobDone, Flush, FlushPark, FlushWake, queue, history
    <3> QED BY <1>3, <3>1
  <2> QED BY <1>6, <2>1, <2>2, <2>3, <2>4, <2>5, <2>6, <2>7 DEF Worker
<1> QED BY <1>4, <1>5, <1>6 DEF Next

-----------------------------------------------------------------------------
(* The invariant holds of every reachable state.                            *)

\* The reader waits, nothing is queued, in hand or on its way.
LEMMA InitHolds == ASSUME Init PROVE IInv
<1> USE DEF Init
<1>1. Rested(worker)
  <2>1. worker \in Workers /\ worker.pc = "check" /\ worker.outbox = <<>>
    BY Silence DEF Workers, Silent
  <2>2. Cargo(<<>>, worker.job[1].frame, FALSE)
    BY Silence DEF Cargo, Silent
  <2> QED BY <2>1, <2>2 DEF Rested
<1>2. IWorker /\ Jobless(worker)
  BY <1>1, Resting DEF IWorker
<1>3. WorkerTells(worker) = {}
  BY Silence DEF WorkerTells, Box, Silent
<1>4. /\ QueueFrames(jobs) = {} /\ QueueOwes(jobs) = {} /\ Len(jobs) = 0
      /\ Charged(jobs) = {} /\ IsFiniteSet(Charged(jobs)) /\ Cardinality(Charged(jobs)) = 0
  <2>1. jobs = <<>> /\ Len(<<>>) = 0 /\ DOMAIN <<>> = {}
    OBVIOUS
  <2>2. QueueFrames(jobs) = {} /\ Charged(jobs) = {}
    BY <2>1 DEF QueueFrames, Charged
  <2> QED BY <2>1, <2>2, FS_EmptySet DEF QueueOwes
<1>5. /\ channel \in Seq(Message) /\ Len(channel) = 0 /\ ToSet(channel) = {}
      /\ FramesIn(channel) = {} /\ ReleasedIn(channel) = {} /\ RepliesIn(channel) = {}
  BY Silence DEF Silent
<1>6. /\ ReaderFrames(reader) = {} /\ WriterFrames(writer) = {} /\ FramesOf(delivered) = {}
      /\ ReaderSays(reader) = {} /\ WriterSays(writer) = {} /\ WriterOwes(writer) = {}
  BY DEF ReaderFrames, WriterFrames, FramesOf, ReaderSays, WriterSays, WriterOwes
<1>7. IShape
  <2>1. jobs \in Seq(Job) /\ writer.message \in Seq(Message)
    OBVIOUS
  <2>2. worker \in Workers
    BY <1>1 DEF Rested
  <2>3. 0 \in 0..Descriptors
    BY LimitAssumption
  <2>4. reader \in Readers /\ writer \in Writers
    BY <2>1 DEF Readers, Writers
  <2>5. /\ jobs \in Seq(Job) /\ pending \subseteq Requests /\ cancelled \subseteq pending
        /\ bytes \in Int /\ published \in Nat /\ written \in Nat
        /\ stop \in {Running, 0, 1, 2} /\ exit \in {Running, 0, 1, 2}
    BY <2>1
  <2>6. server \in [initialized : BOOLEAN, closing : BOOLEAN, session : BOOLEAN,
                   refresh : BOOLEAN, index : 0..Descriptors]
    BY <2>3
  <2>7. /\ sent \subseteq Frames /\ started \subseteq Requests /\ applied \subseteq started
        /\ doomed \subseteq Requests /\ announced \subseteq Requests /\ overrun \in Nat
    OBVIOUS
  <2>8. channel \in Seq(Message) /\ Len(channel) <= 1
    BY <1>5
  <2>9. overflow \in BOOLEAN /\ ready \in BOOLEAN /\ token \in BOOLEAN /\ stale \in BOOLEAN
    OBVIOUS
  <2> HIDE DEF Init
  <2> QED BY <2>2, <2>4, <2>5, <2>6, <2>7, <2>8, <2>9 DEF IShape
<1>8. IReader /\ IWriter
  BY <1>5 DEF IReader, IWriter
<1>9. IPlaces
  <2>1. WorkerFrames(worker) = {}
    BY <1>2 DEF Jobless
  <2> QED BY <1>4, <1>5, <1>6, <2>1 DEF IPlaces, Apart, Places, Single
<1>10. ILimits
  <2>1. IsFiniteSet({}) /\ Cardinality({}) = 0
    BY FS_EmptySet
  <2> QED BY <1>4, <2>1, LimitAssumption DEF ILimits
<1>11. IPending /\ IDoomed
  <2>1. WorkerOwes(worker) = {}
    BY <1>2 DEF Jobless
  <2> QED BY <1>4, <1>5, <1>6, <2>1 DEF IPending, IDoomed, Owed
<1>12. IReady /\ IApplied /\ IEvents
  <2>1. Inside(worker) = {} /\ WorkerSays(worker) = {}
    BY <1>2 DEF Jobless
  <2>2. Outside = {}
    BY <1>5, <1>6, <2>1 DEF Outside
  <2>3. worker.pc # "late"
    OBVIOUS
  <2> QED BY <2>1, <2>2, <2>3 DEF IReady, IApplied, IEvents, Refreshed
<1>13. LossSeen /\ IStop
  BY DEF LossSeen, IStop
<1>14. IExit
  <2>1. WorkerFrames(worker) = {}
    BY <1>2 DEF Jobless
  <2> QED BY <1>4, <2>1 DEF IExit
<1>15. ICount
  BY <1>5 DEF ICount, One
<1>16. IComplete
  <2>1. ~Leaving(worker)
    BY <1>2 DEF Jobless
  <2> QED BY <1>5, <2>1 DEF IComplete
<1> QED BY <1>2, <1>7, <1>8, <1>9, <1>10, <1>11, <1>12, <1>13, <1>14, <1>15, <1>16 DEF IInv

\* Every step keeps it.
LEMMA NextHolds == ASSUME IInv, Next PROVE IInv'
<1>1. Steps
  BY Classes
<1>2. IShape' /\ IWorker' /\ IReader' /\ IWriter' /\ IPlaces'
  BY <1>1, ShapeStep, WorkerStep, ReaderStep, WriterStep, PlacesStep
<1>3. ILimits' /\ IPending' /\ IDoomed' /\ IReady' /\ IApplied' /\ IEvents'
  BY <1>1, LimitsStep, PendingStep, DoomedStep, ReadyStep, AppliedStep, EventsStep
<1>4. LossSeen'
  BY LossStep DEF IInv
<1>5. IStop' /\ IExit' /\ ICount' /\ IComplete'
  BY <1>1, StopStep, ExitStep, CountStep, CompleteStep
<1> QED BY <1>2, <1>3, <1>4, <1>5 DEF IInv

\* It speaks of the variables only.
LEMMA StutterHolds == ASSUME IInv, UNCHANGED vars PROVE IInv'
<1> USE DEF vars, queue, atomics, output, history
<1>1. IShape' /\ IWorker' /\ IReader' /\ IWriter'
  BY DEF IInv, IShape, IWorker, IReader, IWriter
<1>2. IPlaces' /\ ILimits'
  BY DEF IInv, IPlaces, ILimits
<1>3. IPending' /\ IDoomed'
  BY DEF IInv, IPending, IDoomed, Owed
<1>4. IReady'
  BY DEF IInv, IReady, Outside, Current
<1>5. IApplied'
  BY DEF IInv, IApplied, Outside, Hidden
<1>6. IEvents' /\ LossSeen' /\ IStop'
  BY DEF IInv, IEvents, Refreshed, LossSeen, IStop
<1>7. IExit'
  BY DEF IInv, IExit
<1>8. ICount' /\ IComplete'
  BY DEF IInv, ICount, IComplete
<1> QED BY <1>1, <1>2, <1>3, <1>4, <1>5, <1>6, <1>7, <1>8 DEF IInv

\* The invariant of the server: a frame that was read is at one place at a
\* time, the queue is charged for what somebody still owes, and what the
\* threads assume of each other holds.
THEOREM Inductive == Spec => []IInv
<1>1. IInv /\ [Next]_vars => IInv'
  BY NextHolds, StutterHolds
<1> QED BY <1>1, InitHolds, PTL DEF Spec

-----------------------------------------------------------------------------
(* What follows from it.                                                    *)

\* The requests without a reply are those somebody owes.
LEMMA OutstandingIsOwed == ASSUME IShape, IWorker, IWriter PROVE Outstanding = Owed
<1>1. Queued = QueueOwes(jobs)
  <2>1. DOMAIN jobs = 1..Len(jobs)
    BY DEF IShape
  <2> QED BY <2>1 DEF Queued, QueueOwes, QueueFrames
<1>2. InHand = Engaged(worker)
  BY DEF InHand, Engaged, InHandOf
<1> DEFINE box == ToSet(IF worker.pc = "count" THEN Tail(worker.outbox)
                        ELSE IF worker.pc = "send" THEN worker.outbox ELSE <<>>)
<1> DEFINE message == IF writer.pc \in {"write", "release"} THEN ToSet(writer.message) ELSE {}
<1>3. UNION {m.release : m \in box} = ReleasedIn(Box(worker))
  <2>1. CASE worker.pc \in {"send", "count"}
    BY <2>1 DEF ReleasedIn, Box
  <2>2. CASE worker.pc \notin {"send", "count"}
    <3>1. box = {}
      BY <2>2, Silence DEF Silent
    <3>2. ReleasedIn(Box(worker)) = {}
      <4>1. ~Leaving(worker)
        BY <2>2 DEF Leaving
      <4>2. worker \in Workers /\ Employed(worker, started)
        BY DEF IShape, IWorker
      <4> QED BY <4>1, <4>2, Boxes
    <3> HIDE DEF box
    <3> QED BY <3>1, <3>2
  <2> QED BY <2>1, <2>2
<1>4. UNION {m.release : m \in message} = WriterOwes(writer)
  <2>1. CASE writer.pc \in {"write", "release"}
    <3>1. writer.message \in Seq(Message) /\ Len(writer.message) = 1
      BY <2>1 DEF IShape, IWriter, Writers
    <3>2. ToSet(writer.message) = {writer.message[1]}
      BY <3>1 DEF ToSet
    <3> QED BY <2>1, <3>2 DEF WriterOwes
  <2>2. CASE writer.pc \notin {"write", "release"}
    BY <2>2 DEF WriterOwes
  <2> QED BY <2>1, <2>2
<1>5. Messages = box \cup ToSet(channel) \cup message
  BY DEF Messages
<1> HIDE DEF box, message
<1>6. UNION {m.release : m \in Messages}
        = ReleasedIn(Box(worker)) \cup ReleasedIn(channel) \cup WriterOwes(writer)
  <2>1. \A o : o \in UNION {m.release : m \in Messages} <=> \E m \in Messages : o \in m.release
    OBVIOUS
  <2>2. \A o : o \in UNION {m.release : m \in box} <=> \E m \in box : o \in m.release
    OBVIOUS
  <2>3. \A o : o \in ReleasedIn(channel) <=> \E m \in ToSet(channel) : o \in m.release
    BY DEF ReleasedIn
  <2>4. \A o : o \in UNION {m.release : m \in message} <=> \E m \in message : o \in m.release
    OBVIOUS
  <2>5. \A o : o \in UNION {m.release : m \in Messages}
                <=> o \in UNION {m.release : m \in box} \/ o \in ReleasedIn(channel)
                      \/ o \in UNION {m.release : m \in message}
    BY <1>5, <2>1, <2>2, <2>3, <2>4
  <2> QED BY <1>3, <1>4, <2>5
<1> QED BY <1>1, <1>2, <1>6 DEF Outstanding, Owed, WorkerOwes

\* The queue is charged for exactly the requests whose reply is not wholly
\* written, both its limits hold, and nothing is answered twice.
THEOREM ChargedForWhatIsOwed == Spec => []Accounting
<1>1. ASSUME IInv PROVE Accounting
  <2>1. IShape /\ IWorker /\ IWriter /\ IPlaces /\ ILimits /\ IPending
    BY <1>1 DEF IInv
  <2>2. TypeOK
    <3>1. applied \subseteq started /\ started \cup doomed \subseteq Requests /\ sent \subseteq Frames
      BY <2>1 DEF IShape
    <3>2. bytes \in 0..MaxBytes
      BY <2>1 DEF ILimits
    <3> QED BY <2>1, <3>1, <3>2 DEF TypeOK, IShape
  <2>3. Outstanding = Owed
    BY <2>1, OutstandingIsOwed
  <2>4. stop = Running /\ exit = Running => pending = Owed
    BY <2>1 DEF IPending
  <2>5. \A o, p \in Owed : Id(o) = Id(p) => o = p
    BY <2>1 DEF IPending
  <2>6. bytes = Cardinality(UNION {{j} \X DOMAIN jobs[j].items : j \in DOMAIN jobs})
    BY <2>1 DEF ILimits, Charged
  <2>7. \A d \in delivered : d[2] # "twice"
    BY <2>1 DEF IPlaces, Answer, Outcome
  <2>8. Cardinality(pending) <= MaxPending /\ Len(jobs) <= MaxPending
    BY <2>1 DEF ILimits
  <2> QED BY <2>2, <2>3, <2>4, <2>5, <2>6, <2>7, <2>8 DEF Accounting
<1> QED BY <1>1, Inductive, PTL

\* A request that the client cancelled in time is never begun.
THEOREM CancelledInTime == Spec => []CancelInTime
<1>1. IInv => CancelInTime
  BY DEF IInv, IDoomed, CancelInTime
<1> QED BY <1>1, Inductive, PTL

\* No effect is answered with "cancelled", but the constructor's.
THEOREM EffectsAcknowledged == Spec => []AcknowledgesListed
<1>1. ASSUME IInv PROVE AcknowledgesListed
  <2>1. \A r \in delivered : Hidden(r) => ItemAt(r[1]).method = "query/constructorOpen"
    BY <1>1 DEF IInv, IApplied, Outside
  <2> QED BY <2>1 DEF AcknowledgesListed, Outcomes, Hidden
<1> QED BY <1>1, Inductive, PTL

\* A lost file notification leaves the overflow or the request for a refresh.
THEOREM NoLossForgotten == Spec => []LossSeen
<1>1. IInv => LossSeen
  BY DEF IInv
<1> QED BY <1>1, Inductive, PTL

\* The event of a refresh is written before its answer.
THEOREM EventsComeFirst == Spec => []EventFirst
<1>1. ASSUME IInv PROVE EventFirst
  <2>1. \A o \in Refreshed : o[1] \in FramesOf(delivered) => o \in announced
    BY <1>1 DEF IInv, IEvents
  <2>2. \A o : Outcomes(o) # {} => o[1] \in FramesOf(delivered)
    BY DEF Outcomes, FramesOf
  <2> QED BY <2>1, <2>2 DEF EventFirst, Refreshed
<1> QED BY <1>1, Inductive, PTL

\* After the connection is stopped at most one request is still begun.
THEOREM StopIsPrompt == Spec => []StopsPromptly
<1>1. ASSUME IInv PROVE StopsPromptly
  <2>1. overrun \in Nat /\ (overrun > 0 => overrun = 1)
    BY <1>1 DEF IInv, IShape, IStop
  <2> QED BY <2>1 DEF StopsPromptly
<1> QED BY <1>1, Inductive, PTL

\* When the flush ends, nothing is on its way to the client.
LEMMA Flushing ==
    ASSUME IInv, Flush, stop = Running
    PROVE  \A f \in sent : Complete(f, delivered)
<1>1. IShape /\ IWorker /\ IExit /\ ICount /\ IComplete
  BY DEF IInv
<1>2. worker.pc = "flush" /\ written >= worker.target /\ worker.target = published
  BY <1>1 DEF Flush, Flushed, IExit
<1>3. jobs = <<>> /\ reader.pc \notin {"enqueue", "reply", "count"}
  BY <1>1, <1>2 DEF IExit
<1>4. Len(channel) = 0 /\ writer.pc \notin {"write", "release", "count"}
  <2>1. published \in Nat /\ written \in Nat /\ Len(channel) \in Nat
    BY <1>1 DEF IShape
  <2>2. published + 0 + 0 = written + Len(channel) + One(writer.pc \in {"write", "release", "count"})
    BY <1>1, <1>2, <1>3 DEF ICount, One
  <2> QED BY <1>2, <2>1, <2>2 DEF One
<1>5. FramesIn(channel) = {}
  <2>1. channel \in Seq(Message)
    BY <1>1 DEF IShape
  <2>2. channel = <<>>
    BY <1>4, <2>1, Empty, Zenon
  <2> QED BY <2>2, Silence DEF Silent
<1>6. QueueFrames(jobs) = {}
  <2>1. Len(<<>>) = 0
    OBVIOUS
  <2> QED BY <1>3, <2>1 DEF QueueFrames
<1>7. ReaderFrames(reader) = {} /\ WorkerFrames(worker) = {} /\ WriterFrames(writer) = {}
  BY <1>2, <1>3, <1>4 DEF ReaderFrames, WorkerFrames, WriterFrames, Holds, InHandOf, Leaving
<1>8. sent \ Places(ReaderFrames(reader), QueueFrames(jobs), WorkerFrames(worker),
                    FramesIn(channel), WriterFrames(writer), {}) = sent
  BY <1>5, <1>6, <1>7 DEF Places
<1> QED BY <1>1, <1>8 DEF IComplete

\* Before a process ends because of `exit`, every request read before it is
\* answered.
THEOREM ExitIsFlushed == Spec => ExitFlushes
<1>1. ASSUME IInv, Flush, stop = Running
      PROVE  \A f \in sent : \A o \in RequestsOf(f) : Before(o) => Outcomes(o) # {}
  <2>1. ASSUME NEW f \in sent, NEW o \in RequestsOf(f), Before(o) PROVE Has(delivered, o)
    BY <1>1, <2>1, Flushing DEF Complete
  <2>2. \A o : Has(delivered, o) => Outcomes(o) # {}
    BY DEF Has, Outcomes
  <2> QED BY <2>1, <2>2
<1>2. IInv => [Flush /\ stop = Running =>
                  \A f \in sent : \A o \in RequestsOf(f) : Before(o) => Outcomes(o) # {}]_vars
  BY <1>1
<1> QED BY <1>2, Inductive, PTL DEF ExitFlushes

=============================================================================
