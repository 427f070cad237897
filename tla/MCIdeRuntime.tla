---------------------------- MODULE MCIdeRuntime ----------------------------
(* Small instances of IdeRuntime: what the clients of each run may send.   *)
(* Content lists every frame of the runs, a connection is some of them.    *)
EXTENDS IdeRuntime

Request(id, method) == [kind |-> "request", id |-> id, method |-> method]
Notify(method) == [kind |-> "notification", id |-> 0, method |-> method]
Cancel(id) == [kind |-> "notification", id |-> id, method |-> "$/cancelRequest"]
Broken(kind) == [kind |-> kind, id |-> 0, method |-> "none"]

Script == <<
    \* 1: a batch that opens the workspace
    <<Request(1, "initialize"), Request(2, "workspace/open")>>,
    \* 2-4: a write, a read and a batch that cancels both
    <<Request(3, "metadata/updateProperty")>>,
    <<Request(4, "metadata/children")>>,
    <<Cancel(3), Cancel(4)>>,
    \* 5-7: the ID of frame 3 once more, and what is not a request
    <<Request(4, "workspace/close")>>,
    <<Request(3, "metadata/children"), Broken("malformed")>>,
    <<Broken("garbage")>>,
    \* 8-10: file notifications before, with and after a reset of their sequence
    <<Notify("workspace/didChangeFiles")>>,
    <<Request(3, "metadata/refresh"), Notify("workspace/didChangeFiles")>>,
    <<Request(4, "metadata/refresh")>>,
    \* 11-12: a read, and an exit between two requests of a batch
    <<Request(5, "metadata/children")>>,
    <<Request(6, "shutdown"), Notify("exit"), Request(7, "metadata/children")>>,
    \* 13: background work
    <<Request(3, "metadata/index")>>,
    \* 14-15: the retained draft of a visual constructor, and its cancellation
    <<Request(3, "query/constructorOpen")>>,
    <<Cancel(3)>>,
    \* 16: a batch over the limit of a run
    <<Request(4, "metadata/children"), Broken("malformed"), Cancel(3)>> >>


\* The client sends frames in a fixed order and stops anywhere, or opens its
\* workspace and then sends in any order.
InOrder(frames) == {ToSet(SubSeq(frames, 1, n)) : n \in 0..Len(frames)}
OpenFirst(frames) == {S \in SUBSET frames : S # {} => 1 \in S}

SafetyHistories ==
    InOrder(<<1, 2, 3, 4>>) \cup InOrder(<<1, 2, 16>>)
        \cup InOrder(<<1, 3, 5, 7>>) \cup InOrder(<<1, 3, 6>>)
        \cup InOrder(<<1, 8, 9, 10>>) \cup InOrder(<<1, 8, 10>>)
EndingHistories == OpenFirst({1, 11, 12}) \cup OpenFirst({1, 3, 13})
ConstructorHistories == InOrder(<<1, 14, 15>>)

=============================================================================
