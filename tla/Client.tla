------------------------------- MODULE Client -------------------------------
(***************************************************************************)
(* The reading side of jive::Client (jive/socket/client.h): objects of     *)
(* several sizes are read through readBuffer_, a CircularBuffer that       *)
(* DrainSocket_ fills through an AsPointer, while Read(void *, size_t) and *)
(* Flush take from the socket directly.                                    *)
(*                                                                         *)
(* The peer and the kernel are the stream of bytes 1, 2, 3, ... that the   *)
(* peer sends until it closes the connection.  The client is one thread;   *)
(* the peer goes on while it is inside a call.                             *)
(***************************************************************************)
EXTENDS Integers, Sequences

CONSTANTS
    BufferSize,   \* the template argument
    NoByte,       \* what the buffer holds before the first byte
    Sizes,        \* sizeof(T) of the objects that are read, and byteCounts
    MaxSent,      \* bound: bytes that the peer sends
    HasTimeOut,   \* was SetReceiveTimeOut called?
    MayRead       \* may Read(void *, size_t) be called?

\* The static_assert of Read<T>, Peek<T> and FillReadBuffer_.
ASSUME SizesAssumption ==
    BufferSize \in Nat \ {0} /\ Sizes \subseteq 1 .. BufferSize
ASSUME StreamAssumption == MaxSent \in Nat \ {0} /\ NoByte \notin 1 .. MaxSent
ASSUME FlagAssumption == {HasTimeOut, MayRead} \subseteq BOOLEAN

VARIABLES
    writeIndex, readIndex, elements, pointer, last,   \* readBuffer_
    sent,       \* how many bytes the peer has sent
    peerOpen,   \* has the peer not closed the connection?
    arrived,    \* bytes the kernel holds for recv
    call,       \* the call the client is in
    consumed    \* bytes that callers were given or discarded (history)

bufferVars == <<writeIndex, readIndex, elements, pointer, last>>
peerVars   == <<sent, peerOpen>>
vars       == <<bufferVars, peerVars, arrived, call, consumed>>

Byte == 1 .. MaxSent

Buffer ==
    INSTANCE CircularBuffer WITH
        N <- BufferSize, Value <- Byte, NoValue <- NoByte,
        MaxCount <- BufferSize, MayFill <- TRUE

Idle == [op |-> "none", size |-> 0, pc |-> "idle"]

TypeOK ==
    /\ Buffer!TypeOK
    /\ sent \in 0 .. MaxSent
    /\ peerOpen \in BOOLEAN
    /\ arrived \in Seq(Byte)
    /\ call \in [op : {"none", "read", "peek", "raw", "flush"},
                 size : 0 .. BufferSize,
                 pc : {"idle", "fill", "receive", "set", "release", "discard"}]
    /\ call.pc = "idle" => call = Idle
    /\ consumed \in Seq(Byte)

First(k) == SubSeq(arrived, 1, k)
Rest(k) == SubSeq(arrived, k + 1, Len(arrived))

\* recv has nothing and will have nothing.
Closed == arrived = <<>> /\ ~peerOpen

-----------------------------------------------------------------------------
(* The peer *)

PeerSends ==
    /\ peerOpen
    /\ sent < MaxSent
    /\ sent' = sent + 1
    /\ arrived' = Append(arrived, sent + 1)
    /\ UNCHANGED <<peerOpen, bufferVars, call, consumed>>

PeerCloses ==
    /\ peerOpen
    /\ peerOpen' = FALSE
    /\ UNCHANGED <<sent, arrived, bufferVars, call, consumed>>

-----------------------------------------------------------------------------
(* Read<T>, Peek<T>, DiscardBuffer *)

\* Read<T>() or Peek<T>(), sizeof(T) = size
StartCall(op, size) ==
    /\ call = Idle
    /\ call' = [op |-> op, size |-> size, pc |-> "fill"]
    /\ UNCHANGED <<bufferVars, peerVars, arrived, consumed>>

\* Mutant of NeedsMore: one turn of the loop too many.
NeedsOneMore == Buffer!GetSize <= call.size

\* The condition of the loop in FillReadBuffer_.
NeedsMore == Buffer!GetSize < call.size

\* DrainSocket_ begins.
StartDrain ==
    /\ call.pc = "fill"
    /\ NeedsMore
    /\ Buffer!MakePointer
    /\ call' = [call EXCEPT !.pc = "receive"]
    /\ UNCHANGED <<peerVars, arrived, consumed>>

\* Mutant of Wanted: whatever fits.
WantedAll == Buffer!GetWritableSize

\* How much DrainSocket_ asks of recv.
Wanted ==
    LET byteCount == call.size - Buffer!GetSize
    IN  IF Buffer!GetWritableSize < byteCount
          THEN Buffer!GetWritableSize
          ELSE byteCount

\* recv gives some of what it was asked for.
Receive(k) ==
    /\ call.pc = "receive"
    /\ call.op # "raw"
    /\ k \in 1 .. Wanted
    /\ k <= Len(arrived)
    /\ Buffer!FillPointer(First(k))
    /\ arrived' = Rest(k)
    /\ call' = [call EXCEPT !.pc = "set"]
    /\ UNCHANGED <<peerVars, consumed>>

\* Mutant of ReceiveThrows: a time-out starts the loop over.
ReceiveRetries ==
    /\ call.pc = "receive"
    /\ call.op # "raw"
    /\ arrived = <<>>
    /\ HasTimeOut \/ Closed
    /\ Buffer!DestroyPointer
    /\ call' = [call EXCEPT !.pc = "fill"]
    /\ UNCHANGED <<peerVars, arrived, consumed>>

\* recv timed out (or was interrupted, which looks the same from here), or the
\* peer disconnected: DrainSocket_ throws, ~AsPointer runs, and what readBuffer_
\* holds stays for the next call.
ReceiveThrows ==
    /\ call.pc = "receive"
    /\ call.op # "raw"
    /\ arrived = <<>>
    /\ HasTimeOut \/ Closed
    /\ Buffer!DestroyPointer
    /\ call' = Idle
    /\ UNCHANGED <<peerVars, arrived, consumed>>

\* Mutant of SetCount: the last byte is left out.
SetCountShort ==
    /\ call.pc = "set"
    /\ Buffer!SetWriteCount(Len(pointer.data) - 1)
    /\ call' = [call EXCEPT !.pc = "release"]
    /\ UNCHANGED <<peerVars, arrived, consumed>>

SetCount ==
    /\ call.pc = "set"
    /\ Buffer!SetWriteCount(Len(pointer.data))
    /\ call' = [call EXCEPT !.pc = "release"]
    /\ UNCHANGED <<peerVars, arrived, consumed>>

\* DrainSocket_ returns.
EndDrain ==
    /\ call.pc = "release"
    /\ Buffer!DestroyPointer
    /\ call' = [call EXCEPT !.pc = "fill"]
    /\ UNCHANGED <<peerVars, arrived, consumed>>

\* The object is complete; Peek leaves it in the buffer.
EndCall ==
    /\ call.pc = "fill"
    /\ ~NeedsMore
    /\ \/ /\ call.op = "read"
          /\ Buffer!Read(call.size)
          /\ consumed' = consumed \o last'.data
       \/ /\ call.op = "peek"
          /\ Buffer!Peek(call.size)
          /\ UNCHANGED consumed
    /\ call' = Idle
    /\ UNCHANGED <<peerVars, arrived>>

DiscardBuffer ==
    /\ call = Idle
    /\ Buffer!Reset
    /\ consumed' = consumed \o Buffer!Contents
    /\ UNCHANGED <<peerVars, arrived, call>>

-----------------------------------------------------------------------------
(* Read(void *target, size_t byteCount) *)

\* The caller did not leave bytes in readBuffer_, which this Read ignores.
StartRead(byteCount) ==
    /\ MayRead
    /\ Buffer!IsEmpty
    /\ call = Idle
    /\ call' = [op |-> "raw", size |-> byteCount, pc |-> "receive"]
    /\ UNCHANGED <<bufferVars, peerVars, arrived, consumed>>

\* recv stores some bytes; call.size is byteCount - receivedCount.
ReadSome(k) ==
    /\ call.pc = "receive"
    /\ call.op = "raw"
    /\ k \in 1 .. call.size
    /\ k <= Len(arrived)
    /\ arrived' = Rest(k)
    /\ consumed' = consumed \o First(k)
    /\ call' = IF k < call.size THEN [call EXCEPT !.size = @ - k] ELSE Idle
    /\ UNCHANGED <<bufferVars, peerVars>>

\* Only a time-out throws.  When the peer has disconnected recv returns 0, and
\* the loop goes round with nothing changed.
ReadThrows ==
    /\ call.pc = "receive"
    /\ call.op = "raw"
    /\ arrived = <<>>
    /\ HasTimeOut
    /\ peerOpen
    /\ call' = Idle
    /\ UNCHANGED <<bufferVars, peerVars, arrived, consumed>>

ReadSpins ==
    /\ call.pc = "receive"
    /\ call.op = "raw"
    /\ Closed
    /\ UNCHANGED vars

-----------------------------------------------------------------------------
(* Flush, whose recv does not wait *)

\* The caller did not leave bytes in readBuffer_: Flush does not discard them.
StartFlush ==
    /\ MayRead
    /\ Buffer!IsEmpty
    /\ call = Idle
    /\ call' = [op |-> "flush", size |-> 0, pc |-> "discard"]
    /\ UNCHANGED <<bufferVars, peerVars, arrived, consumed>>

Discard(k) ==
    /\ call.pc = "discard"
    /\ k <= Len(arrived)
    /\ arrived' = Rest(k)
    /\ consumed' = consumed \o First(k)
    /\ UNCHANGED <<bufferVars, peerVars, call>>

\* Nothing is there now, or ever.
EndFlush ==
    /\ call.pc = "discard"
    /\ arrived = <<>>
    /\ call' = Idle
    /\ UNCHANGED <<bufferVars, peerVars, arrived, consumed>>

-----------------------------------------------------------------------------
Init ==
    /\ Buffer!Init
    /\ sent = 0
    /\ peerOpen = TRUE
    /\ arrived = <<>>
    /\ call = Idle
    /\ consumed = <<>>

\* The steps of the client inside a call.
ClientStep ==
    \/ StartDrain
    \/ \E k \in 1 .. BufferSize : Receive(k) \/ ReadSome(k) \/ Discard(k)
    \/ ReceiveThrows
    \/ SetCount
    \/ EndDrain
    \/ EndCall
    \/ ReadThrows
    \/ ReadSpins
    \/ EndFlush

Next ==
    \/ PeerSends
    \/ PeerCloses
    \/ \E op \in {"read", "peek"}, size \in Sizes : StartCall(op, size)
    \/ \E byteCount \in Sizes : StartRead(byteCount)
    \/ DiscardBuffer
    \/ StartFlush
    \/ ClientStep

Spec == Init /\ [][Next]_vars

\* The client's thread runs; the peer need not do anything.
FairSpec == Spec /\ WF_vars(ClientStep)
-----------------------------------------------------------------------------
(* Properties *)

\* No byte of the stream is lost, repeated or moved: what callers got, what
\* readBuffer_ holds, what recv just stored in it and what the kernel holds are
\* together what the peer sent.
StreamIntact ==
    consumed \o Buffer!Contents \o pointer.data \o arrived
        = [i \in 1 .. sent |-> i]

\* DrainSocket_ never asks recv for nothing, whose answer 0 would be taken for a
\* disconnection, and so never finds readBuffer_ full either.
AsksForSomething ==
    call.pc = "receive" /\ call.op # "raw" =>
        Wanted > 0 /\ Wanted <= Buffer!GetWritableSize

\* The client uses readBuffer_ as CircularBuffer demands it, never filling its
\* last place, so that readBuffer_ is a FIFO.
Careful ==
    INSTANCE CircularBuffer WITH
        N <- BufferSize, Value <- Byte, NoValue <- NoByte,
        MaxCount <- BufferSize, MayFill <- FALSE

LeavesRoomInBuffer == Careful!Spec

\* With a receive time-out a read of an object always ends, and so does a Flush
\* of a peer that pauses; a direct Read does unless the peer disconnects.
EveryReadEnds ==
    /\ call.op \in {"read", "peek", "flush"} ~> call = Idle
    /\ call.op = "raw" ~> call = Idle \/ Closed
=============================================================================
