--------------------------- MODULE CircularBuffer ---------------------------
(***************************************************************************)
(* jive::CircularBuffer, jive::AsPointer (jive/circular_buffer.h) and       *)
(* jive::CircularIndex (jive/circular_index.h).                             *)
(*                                                                         *)
(* Two indexes that wrap at N delimit the elements that were written and    *)
(* not yet read.  Equal indexes mean an empty buffer, so N elements cannot  *)
(* be told from none.  AsPointer lends the space after writeIndex_ to a     *)
(* function, as recv, that wants an address to fill.                        *)
(***************************************************************************)
EXTENDS Integers, Sequences

CONSTANTS
    N,          \* the template argument: elements_ has N places
    Value,      \* what may be written
    NoValue,    \* what elements_ holds before the first write
    MaxCount,   \* bound: the longest write, read or removal
    MayFill     \* may a caller ask for exactly the space GetAvailable() gives?

ASSUME SizeAssumption == N \in Nat \ {0}
ASSUME ValueAssumption == NoValue \notin Value /\ Value # {}
ASSUME BoundAssumption == MaxCount \in Nat /\ MayFill \in BOOLEAN

VARIABLES
    writeIndex,   \* writeIndex_
    readIndex,    \* readIndex_
    elements,     \* elements_
    pointer,      \* the AsPointer, and what was stored through it
    last          \* the last call and what it returned

vars == <<writeIndex, readIndex, elements, pointer, last>>

Index == 0 .. N - 1
Count == 0 .. MaxCount
Chunk == UNION {[1 .. n -> Value] : n \in Count}

Result(op, ok, data) == [op |-> op, ok |-> ok, data |-> data]

NoPointer == [open |-> FALSE, data |-> <<>>, count |-> 0, writeCount |-> 0]

TypeOK ==
    /\ writeIndex \in Index
    /\ readIndex \in Index
    /\ elements \in [Index -> Value \cup {NoValue}]
    /\ pointer \in [open : BOOLEAN, data : Chunk, count : Count,
                    writeCount : Index]
    /\ pointer.count <= Len(pointer.data)
    /\ pointer.open \/ pointer = NoPointer
    /\ last \in [op : {"new", "write", "peek", "read", "remove", "reset", "front",
                      "back"},
                ok : BOOLEAN,
                data : Chunk \cup [1 .. 1 -> Value]]

-----------------------------------------------------------------------------
(* CircularIndex *)

\* CircularIndex(count)
Wrap(count) == count % N

\* operator+=, of a count that the constructor wraps first.
Plus(index, count) == (index + Wrap(count)) % N

\* operator-
Minus(left, right) == (left + N - right) % N

-----------------------------------------------------------------------------
(* CircularBuffer: the const functions *)

Least(a, b) == IF a < b THEN a ELSE b

IsEmpty == readIndex = writeIndex

GetSize == Minus(writeIndex, readIndex)

GetAvailable == N - GetSize

\* Mutant of GetWritableSize: the read index is ignored.
WritablePastRead == N - writeIndex

\* AsPointer::GetWritableSize
GetWritableSize == Least(GetAvailable, N - writeIndex)

FrontElement == elements[readIndex]

BackElement == elements[Minus(writeIndex, Wrap(1))]

\* The elements PrintElements goes through.
Contents == [k \in 1 .. GetSize |-> elements[Plus(readIndex, k - 1)]]

\* Mutant of Stored: the second part starts again at the first element.
StoredTwice(source) ==
    LET tailCount == Least(Len(source), N - writeIndex)
    IN  [i \in Index |->
           IF i \in writeIndex .. writeIndex + tailCount - 1
             THEN source[i - writeIndex + 1]
           ELSE IF i < Len(source) - tailCount
             THEN source[i + 1]
           ELSE elements[i]]

\* elements_ after the two memcpy of Write: up to the end, then from the start.
Stored(source) ==
    LET tailCount == Least(Len(source), N - writeIndex)
    IN  [i \in Index |->
           IF i \in writeIndex .. writeIndex + tailCount - 1
             THEN source[i - writeIndex + 1]
           ELSE IF i < Len(source) - tailCount
             THEN source[tailCount + i + 1]
           ELSE elements[i]]

\* The target after the two memcpy of Peek.
Loaded(count) ==
    LET tailCount == Least(count, N - readIndex)
    IN  [k \in 1 .. count |->
           elements[IF k <= tailCount THEN readIndex + k - 1
                    ELSE k - tailCount - 1]]

\* A caller that was told there is room for count leaves one place free.
LeavesRoom(count) == MayFill \/ count # GetAvailable

-----------------------------------------------------------------------------
(* CircularBuffer: the operations *)

WriteRefused(source) ==
    /\ Len(source) > GetAvailable
    /\ last' = Result("write", FALSE, source)
    /\ UNCHANGED <<writeIndex, elements>>

WriteAccepted(source) ==
    /\ Len(source) <= GetAvailable
    /\ LeavesRoom(Len(source))
    /\ elements' = Stored(source)
    /\ writeIndex' = Plus(writeIndex, Len(source))
    /\ last' = Result("write", TRUE, source)

Write(source) ==
    /\ ~pointer.open
    /\ WriteRefused(source) \/ WriteAccepted(source)
    /\ UNCHANGED <<readIndex, pointer>>

Peek(count) ==
    /\ \/ count > GetSize /\ last' = Result("peek", FALSE, <<>>)
       \/ count <= GetSize /\ last' = Result("peek", TRUE, Loaded(count))
    /\ UNCHANGED <<writeIndex, readIndex, elements, pointer>>

Read(count) ==
    /\ \/ /\ count > GetSize
          /\ last' = Result("read", FALSE, <<>>)
          /\ UNCHANGED readIndex
       \/ /\ count <= GetSize
          /\ last' = Result("read", TRUE, Loaded(count))
          /\ readIndex' = Plus(readIndex, count)
    /\ UNCHANGED <<writeIndex, elements, pointer>>

\* Remove looks at nothing; its caller must have seen that much.
Remove(count) ==
    /\ count <= GetSize
    /\ readIndex' = Plus(readIndex, count)
    /\ last' = Result("remove", TRUE, <<>>)
    /\ UNCHANGED <<writeIndex, elements, pointer>>

Reset ==
    /\ ~pointer.open
    /\ writeIndex' = 0
    /\ readIndex' = 0
    /\ last' = Result("reset", TRUE, <<>>)
    /\ UNCHANGED <<elements, pointer>>

\* FrontElement and BackElement throw when there is none.
Look(op, element) ==
    /\ \/ IsEmpty /\ last' = Result(op, FALSE, <<>>)
       \/ ~IsEmpty /\ last' = Result(op, TRUE, <<element>>)
    /\ UNCHANGED <<writeIndex, readIndex, elements, pointer>>

-----------------------------------------------------------------------------
(* AsPointer *)

MakePointer ==
    /\ ~pointer.open
    /\ pointer' = [NoPointer EXCEPT !.open = TRUE]
    /\ UNCHANGED <<writeIndex, readIndex, elements, last>>

\* The caller stores as much as GetWritableSize() allows at the address that
\* Get() returns.
FillPointer(source) ==
    /\ pointer.open
    /\ pointer.count = 0
    /\ Len(source) <= GetWritableSize
    /\ LeavesRoom(Len(source))
    /\ elements' = [i \in Index |->
                      IF i \in writeIndex .. writeIndex + Len(source) - 1
                        THEN source[i - writeIndex + 1]
                        ELSE elements[i]]
    /\ pointer' = [pointer EXCEPT !.data = source]
    /\ UNCHANGED <<writeIndex, readIndex, last>>

SetWriteCount(count) ==
    /\ pointer.open
    /\ count <= Len(pointer.data)
    /\ pointer' = [pointer EXCEPT !.count = count, !.writeCount = Wrap(count)]
    /\ UNCHANGED <<writeIndex, readIndex, elements, last>>

\* ~AsPointer, when it was told of a count.
CommitPointer ==
    /\ writeIndex' = IF pointer.writeCount > 0
                       THEN Plus(writeIndex, pointer.writeCount)
                       ELSE writeIndex
    /\ last' = Result("write", TRUE, SubSeq(pointer.data, 1, pointer.count))

\* ~AsPointer, also when the caller threw before SetWriteCount.
DestroyPointer ==
    /\ pointer.open
    /\ CommitPointer
    /\ pointer' = NoPointer
    /\ UNCHANGED <<readIndex, elements>>

-----------------------------------------------------------------------------
Init ==
    /\ writeIndex = 0
    /\ readIndex = 0
    /\ elements = [i \in Index |-> NoValue]
    /\ pointer = NoPointer
    /\ last = Result("new", TRUE, <<>>)

Next ==
    \/ \E source \in Chunk : Write(source) \/ FillPointer(source)
    \/ \E count \in Count : Peek(count) \/ Read(count) \/ Remove(count)
    \/ Reset
    \/ Look("front", FrontElement)
    \/ Look("back", BackElement)
    \/ MakePointer
    \/ \E count \in Count : SetWriteCount(count)
    \/ DestroyPointer

Spec == Init /\ [][Next]_vars
-----------------------------------------------------------------------------
(* Properties *)

\* To callers that never fill the last place the buffer is a FIFO of N elements:
\* whatever the indexes, wrapped or not, every element accepted by Write or
\* through AsPointer is read once, in order, and no request is refused wrongly.
Queue == INSTANCE Fifo WITH queue <- Contents, Capacity <- N

ImplementsFifo == Queue!Spec

\* What AsPointer lends stays the caller's until it is committed: what was stored
\* lies between the write index and the end of the array, untouched by reads and
\* clear of what is still to be read.
PointerKept ==
    /\ writeIndex + Len(pointer.data) <= N
    /\ GetSize + Len(pointer.data) < N
    /\ \A k \in 1 .. Len(pointer.data) :
         elements[writeIndex + k - 1] = pointer.data[k]
    /\ pointer.writeCount = pointer.count

\* No reader ever meets an element that nobody wrote.
Written == \A k \in 1 .. GetSize : Contents[k] \in Value

\* The inductive invariant the refinement rests on.
BufferOK == TypeOK /\ PointerKept /\ Written
=============================================================================
