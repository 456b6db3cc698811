-------------------------------- MODULE Fifo --------------------------------
(***************************************************************************)
(* What a buffer of elements promises: elements come out in the order they  *)
(* went in, each once, and a request is refused only when there is no room  *)
(* for it or not enough to satisfy it.                                      *)
(***************************************************************************)
EXTENDS Naturals, Sequences

CONSTANTS
    Chunk,     \* the sequences a caller may write
    Capacity   \* how many elements are accepted

VARIABLES
    queue,     \* the elements accepted and not yet removed
    last       \* the last call and what it returned

Result(op, ok, data) == [op |-> op, ok |-> ok, data |-> data]

Init == queue = <<>> /\ last = Result("new", TRUE, <<>>)

Put(s) ==
    \/ /\ Len(queue) + Len(s) <= Capacity
       /\ queue' = queue \o s
       /\ last' = Result("write", TRUE, s)
    \/ /\ Len(queue) + Len(s) > Capacity
       /\ last' = Result("write", FALSE, s)
       /\ UNCHANGED queue

Peek(count) ==
    /\ \/ /\ count <= Len(queue)
          /\ last' = Result("peek", TRUE, SubSeq(queue, 1, count))
       \/ /\ count > Len(queue)
          /\ last' = Result("peek", FALSE, <<>>)
    /\ UNCHANGED queue

Get(count) ==
    \/ /\ count <= Len(queue)
       /\ queue' = SubSeq(queue, count + 1, Len(queue))
       /\ last' = Result("read", TRUE, SubSeq(queue, 1, count))
    \/ /\ count > Len(queue)
       /\ last' = Result("read", FALSE, <<>>)
       /\ UNCHANGED queue

Drop(count) ==
    /\ count <= Len(queue)
    /\ queue' = SubSeq(queue, count + 1, Len(queue))
    /\ last' = Result("remove", TRUE, <<>>)

Clear == queue' = <<>> /\ last' = Result("reset", TRUE, <<>>)

\* Asking for the oldest, or for the newest, element.
Look(op, k) ==
    /\ \/ queue = <<>> /\ last' = Result(op, FALSE, <<>>)
       \/ queue # <<>> /\ last' = Result(op, TRUE, <<queue[k]>>)
    /\ UNCHANGED queue

Next ==
    \/ \E s \in Chunk : Put(s)
    \/ \E count \in {Len(s) : s \in Chunk} : Peek(count) \/ Get(count) \/ Drop(count)
    \/ Clear
    \/ Look("front", 1)
    \/ Look("back", Len(queue))

Spec == Init /\ [][Next]_<<queue, last>>
=============================================================================
