------------------------------- MODULE Buffer -------------------------------
(***************************************************************************)
(* jive/buffer.h.  A Buffer owns a block of memory of a size rounded up to *)
(* its alignment.  The move constructor hands the block over; it leaves    *)
(* byteCount_ of the new object unwritten, so that it is whatever the      *)
(* memory of the object held before.                                       *)
(***************************************************************************)
EXTENDS Integers

CONSTANTS
    Object,         \* places for Buffer objects
    Block, Null,    \* addresses that operator new returns; nullptr
    Count,          \* element counts that callers ask for
    sizeof_T, align,
    SIZE_MAX        \* the largest size_t

VARIABLES
    live,       \* objects that are constructed
    data_, elementCount_, byteCount_,   \* the members, by object
    allocated,  \* what operator new gave out: the size of each block
    corrupted   \* history: a block was deleted that was not allocated

vars == <<live, data_, elementCount_, byteCount_, allocated, corrupted>>

\* size_t wraps.
Wrapped(size) == size % (SIZE_MAX + 1)

GetAlignedByteCount(count) ==
    LET byteCount == Wrapped(count * sizeof_T)
        error == byteCount % align
    IN  IF error = 0 THEN byteCount ELSE Wrapped(byteCount + (align - error))

Sizes == {GetAlignedByteCount(n) : n \in Count}
Free == -1

Init ==
    /\ live = {}
    /\ data_ = [o \in Object |-> Null]
    /\ elementCount_ = [o \in Object |-> 0]
    /\ byteCount_ = [o \in Object |-> 0]
    /\ allocated = [b \in Block |-> Free]
    /\ corrupted = FALSE

\* The constructor.
Construct(o, count) ==
    /\ o \notin live
    /\ \E b \in Block :
        /\ allocated[b] = Free
        /\ allocated' = [allocated EXCEPT ![b] = GetAlignedByteCount(count)]
        /\ data_' = [data_ EXCEPT ![o] = b]
    /\ elementCount_' = [elementCount_ EXCEPT ![o] = count]
    /\ byteCount_' = [byteCount_ EXCEPT ![o] = GetAlignedByteCount(count)]
    /\ live' = live \cup {o}
    /\ UNCHANGED corrupted

\* What the move constructor leaves in the other's data_.
StillOwned(data) == data    \* mutant: not reset
HandedOver(data) == Null

Move(o, other) ==
    /\ o \notin live /\ other \in live
    /\ data_' = [data_ EXCEPT ![o] = data_[other],
                             ![other] = HandedOver(data_[other])]
    /\ elementCount_' = [elementCount_ EXCEPT ![o] = elementCount_[other]]
    /\ \E unwritten \in Sizes \cup {0} :
        byteCount_' = [byteCount_ EXCEPT ![o] = unwritten]
    /\ live' = live \cup {o}
    /\ UNCHANGED <<allocated, corrupted>>

\* The destructor; operator delete (which in the default build takes the size
\* but does not look at it) gives the block back.
Destroy(o) ==
    /\ o \in live
    /\ live' = live \ {o}
    /\ LET b == data_[o] IN
        IF b = Null THEN UNCHANGED <<allocated, corrupted>>
        ELSE /\ corrupted' = (corrupted \/ allocated[b] = Free)
             /\ allocated' = [allocated EXCEPT ![b] = Free]
    /\ UNCHANGED <<data_, elementCount_, byteCount_>>

Next ==
    \E o \in Object :
        \/ \E count \in Count : Construct(o, count)
        \/ \E other \in Object : Move(o, other)
        \/ Destroy(o)

Spec == Init /\ [][Next]_vars

-----------------------------------------------------------------------------
Owners(b) == {o \in live : data_[o] = b}

\* The elements and what they are padded with fit into a size_t.
Fits(count) == count * sizeof_T + align <= SIZE_MAX + 1

\* Through constructions, moves and destructions in any order each block that
\* is allocated has one owner, which holds as many elements as it says while
\* their size fits into a size_t, and each is deleted once.
BlocksOwned ==
    /\ \A b \in Block :
        IF allocated[b] = Free THEN Owners(b) = {}
        ELSE \E o \in live :
                /\ Owners(b) = {o}
                /\ Fits(elementCount_[o]) =>
                        elementCount_[o] * sizeof_T <= allocated[b]
    /\ ~corrupted
=============================================================================
