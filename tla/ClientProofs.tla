---------------------------- MODULE ClientProofs ----------------------------
(***************************************************************************)
(* A Client whose objects are all smaller than its readBuffer_ loses no     *)
(* byte of the stream, whatever the sizes, the amounts recv gives and the    *)
(* moments at which it times out.  What is known of CircularBuffer is cited: *)
(* P names its lemmas for a buffer whose last place is never filled.         *)
(***************************************************************************)
EXTENDS Client, SequenceTheorems, TLAPS

P == INSTANCE CircularBufferProofs WITH
         N <- BufferSize, Value <- Byte, NoValue <- NoByte,
         MaxCount <- BufferSize, MayFill <- FALSE

\* The objects the static_asserts allow, but for one as large as readBuffer_,
\* with which the last place would be filled (client_full).
SmallObjects == \A size \in Sizes : size < BufferSize

-----------------------------------------------------------------------------
(* The inductive invariant *)

\* An object is being read or looked at, and the call has got to pc.
ObjectCall(pc) == call \in [op : {"read", "peek"}, size : Sizes, pc : {pc}]

\* What the progress of a call says of readBuffer_ and its AsPointer.
CallOK ==
    \/ call = Idle /\ ~pointer.open
    \/ ObjectCall("fill") /\ ~pointer.open
    \/ /\ ObjectCall("receive")
       /\ pointer.open /\ pointer.data = <<>> /\ pointer.count = 0
       /\ P!GetSize < call.size
    \/ ObjectCall("set") /\ pointer.open
    \/ /\ ObjectCall("release")
       /\ pointer.open /\ pointer.count = Len(pointer.data)
    \/ /\ call \in [op : {"raw"}, size : 1 .. BufferSize, pc : {"receive"}]
       /\ ~pointer.open /\ P!IsEmpty
    \/ /\ call \in [op : {"flush"}, size : {0}, pc : {"discard"}]
       /\ ~pointer.open /\ P!IsEmpty

\* In and between calls: the invariant of readBuffer_, where the call has got
\* to, and the stream.
ClientOK ==
    /\ P!BufferOK
    /\ sent \in 0 .. MaxSent
    /\ peerOpen \in BOOLEAN
    /\ arrived \in Seq(Byte)
    /\ consumed \in Seq(Byte)
    /\ CallOK
    /\ StreamIntact

-----------------------------------------------------------------------------
(* Sequences of bytes *)

\* Two parts of a sequence make the whole.
LEMMA SplitAt ==
    ASSUME NEW s \in Seq(Byte), NEW k \in 0 .. Len(s)
    PROVE  /\ SubSeq(s, 1, k) \in Seq(Byte)
           /\ Len(SubSeq(s, 1, k)) = k
           /\ SubSeq(s, k + 1, Len(s)) \in Seq(Byte)
           /\ SubSeq(s, 1, k) \o SubSeq(s, k + 1, Len(s)) = s
<1>1. Len(s) \in Nat /\ 1 \in 1 .. Len(s) + 1 /\ k \in 1 - 1 .. Len(s)
      /\ Len(s) \in k .. Len(s)
  OBVIOUS
<1>2. \A i \in 1 .. k : s[i] \in Byte
  BY <1>1, ElementOfSeq
<1>3. SubSeq(s, 1, k) \in Seq(Byte) /\ Len(SubSeq(s, 1, k)) = k
  BY <1>1, <1>2, SubSeqProperties
<1>4. \A i \in k + 1 .. Len(s) : s[i] \in Byte
  BY <1>1, ElementOfSeq
<1>5. SubSeq(s, k + 1, Len(s)) \in Seq(Byte)
  BY <1>1, <1>4, SubSeqProperties
<1>6. SubSeq(s, 1, k) \o SubSeq(s, k + 1, Len(s)) = SubSeq(s, 1, Len(s))
  BY <1>1, ConcatAdjacentSubSeq
<1> QED  BY <1>3, <1>5, <1>6, SubSeqFull

\* Concatenations of bytes need no parentheses.
LEMMA Associates ==
    \A x, y, z \in Seq(Byte) : (x \o y) \o z = x \o (y \o z)
  BY ConcatAssociative

LEMMA Places ==
    \A x \in Seq(Byte) : DOMAIN x = 1 .. Len(x) /\ Len(x) \in Nat
  BY LenProperties

\* What a byte more of the peer adds to the end of the stream.
LEMMA StreamGrows ==
    ASSUME NEW s \in Seq(Byte), NEW a \in Seq(Byte), NEW n \in 0 .. MaxSent - 1,
           s \o a = [i \in 1 .. n |-> i]
    PROVE  /\ Append(a, n + 1) \in Seq(Byte)
           /\ s \o Append(a, n + 1) = [i \in 1 .. n + 1 |-> i]
<1> DEFINE t == s \o Append(a, n + 1)
           u == [i \in 1 .. n + 1 |-> i]
<1>1. n + 1 \in Byte /\ n \in Nat
  BY StreamAssumption DEF Byte
<1>2. Append(a, n + 1) \in Seq(Byte) /\ Append(a, n + 1) = a \o <<n + 1>>
      /\ <<n + 1>> \in Seq(Byte)
  BY <1>1, AppendIsConcat
<1>3. t = (s \o a) \o <<n + 1>>
  <2> DEFINE e == <<n + 1>>
  <2> HIDE DEF e
  <2>1. e \in Seq(Byte) /\ Append(a, n + 1) = a \o e
    BY <1>2 DEF e
  <2>2. s \o (a \o e) = (s \o a) \o e
    BY <2>1, Associates
  <2> QED  BY <2>1, <2>2 DEF e
<1>4. s \o a \in Seq(Byte) /\ Len(s \o a) = n
  <2>1. s \o a \in Seq(Byte)
    BY ConcatProperties
  <2>2. DOMAIN (s \o a) = 1 .. n
    OBVIOUS
  <2>3. DOMAIN (s \o a) = 1 .. Len(s \o a) /\ Len(s \o a) \in Nat
    BY <2>1, Places
  <2> QED  BY <1>1, <2>1, <2>2, <2>3
<1>5. t \in Seq(Byte) /\ Len(t) = n + 1
      /\ \A i \in 1 .. n + 1 : t[i] = IF i <= n THEN (s \o a)[i] ELSE n + 1
  BY <1>1, <1>2, <1>3, <1>4, ConcatProperties
<1>6. u \in Seq(Byte) /\ Len(u) = n + 1 /\ \A i \in 1 .. n + 1 : u[i] = i
  <2>1. u \in [1 .. n + 1 -> Byte]
    BY StreamAssumption DEF Byte
  <2> QED  BY <1>1, <2>1
<1>7. \A i \in 1 .. n + 1 : t[i] = u[i]
  <2> TAKE i \in 1 .. n + 1
  <2>1. CASE i <= n
    <3>1. i \in 1 .. n
      BY <1>1, <2>1
    <3> QED  BY <3>1, <1>5, <1>6, <2>1
  <2>2. CASE ~(i <= n)
    BY <1>1, <1>5, <1>6, <2>2
  <2> QED  BY <2>1, <2>2
<1> HIDE DEF t, u
<1>8. t = u
  BY <1>5, <1>6, <1>7, SeqEqual
<1> QED  BY <1>2, <1>8 DEF t, u

\* The four parts of the stream, whichever way they are taken together.
LEMMA Regroup ==
    ASSUME NEW c \in Seq(Byte), NEW b \in Seq(Byte), NEW d \in Seq(Byte),
           NEW a \in Seq(Byte)
    PROVE  /\ ((c \o b) \o d) \o a = (c \o b) \o (d \o a)
           /\ (c \o b) \o d \in Seq(Byte)
           /\ c \o b \in Seq(Byte)
           /\ (c \o b) \o <<>> = c \o b
           /\ c \o <<>> = c
<1>1. c \o b \in Seq(Byte)
  BY ConcatProperties
<1>2. (c \o b) \o d \in Seq(Byte)
  BY <1>1, ConcatProperties
<1>3. (c \o b) \o <<>> = c \o b /\ c \o <<>> = c
  BY <1>1, ConcatEmptySeq
<1>4. ((c \o b) \o d) \o a = (c \o b) \o (d \o a)
  <2> DEFINE e == c \o b
  <2>1. e \in Seq(Byte)
    BY <1>1
  <2> HIDE DEF e
  <2>2. (e \o d) \o a = e \o (d \o a)
    BY <2>1, Associates
  <2> QED  BY <2>2 DEF e
<1> QED  BY <1>1, <1>2, <1>3, <1>4

\* The bytes behind the pointer join those in the buffer.
LEMMA PointerJoins ==
    \A c, b, d, a \in Seq(Byte) :
        ((c \o b) \o d) \o a = ((c \o (b \o d)) \o <<>>) \o a
<1> TAKE c, b, d, a \in Seq(Byte)
<1>1. c \o (b \o d) \in Seq(Byte)
  <2>1. b \o d \in Seq(Byte)
    BY ConcatProperties
  <2> QED  BY <2>1, ConcatProperties
<1>2. (c \o b) \o d = c \o (b \o d)
  BY Associates
<1>3. (c \o (b \o d)) \o <<>> = c \o (b \o d)
  BY <1>1, ConcatEmptySeq
<1> QED  BY <1>2, <1>3

-----------------------------------------------------------------------------
(* readBuffer_ under its several names *)

LEMMA BufferConstants == P!SizeAssumption /\ P!ValueAssumption /\ P!BoundAssumption
BY SizesAssumption, StreamAssumption
   DEF P!SizeAssumption, P!ValueAssumption, P!BoundAssumption, Byte

\* What Client reads off readBuffer_ does not depend on MayFill.
LEMMA SameState ==
    /\ Buffer!Contents = P!Contents /\ Buffer!Contents' = P!Contents'
    /\ Buffer!GetSize = P!GetSize
    /\ Buffer!IsEmpty = P!IsEmpty
    /\ Buffer!GetWritableSize = P!GetWritableSize
BY DEF P!Contents, Buffer!Contents, P!GetSize, Buffer!GetSize,
       P!IsEmpty, Buffer!IsEmpty, P!GetWritableSize, Buffer!GetWritableSize,
       P!GetAvailable, Buffer!GetAvailable, P!Least, Buffer!Least,
       P!Minus, Buffer!Minus, P!Plus, Buffer!Plus, P!Wrap, Buffer!Wrap

\* Nor do the operations it calls, but for what recv stores.
LEMMA SameSteps ==
    /\ Buffer!Init = P!Init
    /\ Buffer!MakePointer = P!MakePointer
    /\ Buffer!DestroyPointer = P!DestroyPointer
    /\ Buffer!Reset = P!Reset
    /\ \A count : Buffer!SetWriteCount(count) = P!SetWriteCount(count)
    /\ \A count : Buffer!Read(count) = P!Read(count)
    /\ \A count : Buffer!Peek(count) = P!Peek(count)
BY DEF P!Init, Buffer!Init, P!Index, Buffer!Index, P!Result, Buffer!Result,
       P!NoPointer, Buffer!NoPointer, P!MakePointer, Buffer!MakePointer,
       P!DestroyPointer, Buffer!DestroyPointer,
       P!CommitPointer, Buffer!CommitPointer, P!Reset, Buffer!Reset,
       P!SetWriteCount, Buffer!SetWriteCount, P!Read, Buffer!Read,
       P!Peek, Buffer!Peek, P!Loaded, Buffer!Loaded, P!GetSize, Buffer!GetSize,
       P!Minus, Buffer!Minus, P!Plus, Buffer!Plus, P!Wrap, Buffer!Wrap,
       P!Least, Buffer!Least

\* P and Careful are the same buffer.
LEMMA SameBuffer ==
    /\ P!Init => Careful!Init
    /\ P!Next => Careful!Next
    /\ Careful!vars = bufferVars
BY DEF bufferVars, Careful!vars, P!Init, Careful!Init, P!Next, Careful!Next,
       P!Chunk, Careful!Chunk, P!Count, Careful!Count, P!Index, Careful!Index,
       P!Result, Careful!Result, P!NoPointer, Careful!NoPointer,
       P!Wrap, Careful!Wrap, P!Plus, Careful!Plus, P!Minus, Careful!Minus,
       P!Least, Careful!Least, P!IsEmpty, Careful!IsEmpty,
       P!GetSize, Careful!GetSize, P!GetAvailable, Careful!GetAvailable,
       P!GetWritableSize, Careful!GetWritableSize,
       P!FrontElement, Careful!FrontElement, P!BackElement, Careful!BackElement,
       P!Stored, Careful!Stored, P!Loaded, Careful!Loaded,
       P!LeavesRoom, Careful!LeavesRoom, P!Write, Careful!Write,
       P!WriteAccepted, Careful!WriteAccepted,
       P!WriteRefused, Careful!WriteRefused, P!Peek, Careful!Peek,
       P!Read, Careful!Read, P!Remove, Careful!Remove, P!Reset, Careful!Reset,
       P!Look, Careful!Look, P!MakePointer, Careful!MakePointer,
       P!FillPointer, Careful!FillPointer,
       P!SetWriteCount, Careful!SetWriteCount,
       P!DestroyPointer, Careful!DestroyPointer,
       P!CommitPointer, Careful!CommitPointer

\* What every step below needs of the invariant.
LEMMA StateFacts ==
    ASSUME ClientOK
    PROVE  /\ P!Contents \in Seq(Byte)
           /\ Len(P!Contents) = P!GetSize
           /\ P!GetSize \in 0 .. BufferSize - 1
           /\ pointer.data \in Seq(Byte)
           /\ pointer.data \in P!Chunk
           /\ Len(pointer.data) \in 0 .. BufferSize
           /\ pointer.open \in BOOLEAN
           /\ ~pointer.open => pointer.data = <<>>
           /\ P!IsEmpty => P!Contents = <<>>
<1>1. /\ P!Contents \in Seq(Byte)
      /\ Len(P!Contents) = P!GetSize
      /\ P!GetSize \in 0 .. BufferSize - 1
  BY P!ContentsValues, BufferConstants DEF ClientOK, P!Index
<1>2. /\ pointer.data \in P!Chunk
      /\ pointer.open \in BOOLEAN
      /\ ~pointer.open => pointer.data = <<>>
  BY DEF ClientOK, P!BufferOK, P!TypeOK, P!NoPointer
<1>3. pointer.data \in Seq(Byte) /\ Len(pointer.data) \in 0 .. BufferSize
  BY <1>2, SizesAssumption DEF P!Chunk, P!Count
<1>4. P!IsEmpty => P!Contents = <<>>
  BY P!EndElements, BufferConstants DEF ClientOK
<1> QED  BY <1>1, <1>2, <1>3, <1>4

\* The stream in terms of the lemmas of CircularBuffer.
LEMMA Stream ==
    /\ StreamIntact <=> consumed \o P!Contents \o pointer.data \o arrived
                         = [i \in 1 .. sent |-> i]
    /\ StreamIntact' <=> consumed' \o P!Contents' \o pointer.data' \o arrived'
                         = [i \in 1 .. sent' |-> i]
  BY SameState DEF StreamIntact

\* An unmoved readBuffer_ keeps its invariant and its contents.
LEMMA BufferUnmoved ==
    ASSUME P!BufferOK, UNCHANGED bufferVars
    PROVE  P!BufferOK' /\ P!Contents' = P!Contents /\ P!GetSize' = P!GetSize
           /\ P!IsEmpty' = P!IsEmpty
BY DEF bufferVars, P!BufferOK, P!TypeOK, P!PointerKept, P!Written, P!Contents,
       P!GetSize, P!IsEmpty

-----------------------------------------------------------------------------
(* The steps *)

Kept == ClientOK' /\ [P!Next]_bufferVars

LEMMA PeerKeeps ==
    ASSUME ClientOK, PeerSends \/ PeerCloses
    PROVE  Kept
<1>1. UNCHANGED bufferVars /\ UNCHANGED <<call, consumed>>
  BY DEF PeerSends, PeerCloses
<1>2. P!BufferOK' /\ P!Contents' = P!Contents /\ P!GetSize' = P!GetSize
      /\ P!IsEmpty' = P!IsEmpty
  BY <1>1, BufferUnmoved DEF ClientOK
<1>3. CallOK'
  BY <1>1, <1>2 DEF ClientOK, CallOK, ObjectCall, bufferVars
<1>4. CASE PeerSends
  <2> DEFINE s == consumed \o P!Contents \o pointer.data
  <2>1. s \in Seq(Byte) /\ s \o arrived = [i \in 1 .. sent |-> i]
    BY StateFacts, Stream, Regroup DEF ClientOK
  <2>2. sent \in 0 .. MaxSent - 1 /\ sent' = sent + 1
    BY <1>4, StreamAssumption DEF PeerSends, ClientOK
  <2>3. arrived' = Append(arrived, sent + 1)
    BY <1>4 DEF PeerSends
  <2> HIDE DEF s
  <2>4. arrived' \in Seq(Byte) /\ s \o arrived' = [i \in 1 .. sent' |-> i]
    BY <2>1, <2>2, <2>3, StreamGrows DEF ClientOK
  <2>5. StreamIntact'
    BY <1>1, <1>2, <2>4, Stream DEF s, bufferVars
  <2>6. sent' \in 0 .. MaxSent /\ peerOpen' = peerOpen
    BY <1>4, <2>2, StreamAssumption DEF PeerSends
  <2> QED  BY <1>1, <1>2, <1>3, <2>4, <2>5, <2>6 DEF Kept, ClientOK
<1>5. CASE PeerCloses
  <2>1. UNCHANGED <<sent, arrived>> /\ peerOpen' = FALSE
    BY <1>5 DEF PeerCloses
  <2>2. StreamIntact'
    BY <1>1, <1>2, <2>1, SameState DEF ClientOK, StreamIntact, bufferVars
  <2> QED  BY <1>1, <1>2, <1>3, <2>1, <2>2 DEF Kept, ClientOK
<1> QED  BY <1>4, <1>5

\* Steps that move nothing but the call.
LEMMA CallMoves ==
    ASSUME ClientOK, UNCHANGED <<bufferVars, peerVars, arrived, consumed>>, CallOK'
    PROVE  Kept
<1>1. P!BufferOK' /\ P!Contents' = P!Contents
  BY BufferUnmoved DEF ClientOK
<1>2. StreamIntact'
  BY <1>1, SameState DEF ClientOK, StreamIntact, bufferVars, peerVars
<1> QED  BY <1>1, <1>2 DEF Kept, ClientOK, peerVars

LEMMA StartsKeep ==
    ASSUME ClientOK,
           \/ \E op \in {"read", "peek"}, size \in Sizes : StartCall(op, size)
           \/ \E byteCount \in Sizes : StartRead(byteCount)
           \/ StartFlush
    PROVE  Kept
<1>1. UNCHANGED <<bufferVars, peerVars, arrived, consumed>>
  BY DEF StartCall, StartRead, StartFlush
<1>2. P!IsEmpty' = P!IsEmpty /\ ~pointer.open /\ pointer' = pointer
  BY <1>1, BufferUnmoved
     DEF ClientOK, CallOK, ObjectCall, Idle, bufferVars, StartCall, StartRead,
         StartFlush
<1>3. CallOK'
  BY <1>2, SameState, SizesAssumption
     DEF StartCall, StartRead, StartFlush, CallOK, ObjectCall
<1> QED  BY <1>1, <1>3, CallMoves

\* DrainSocket_ lends readBuffer_ only when more is needed.
LEMMA StartDrainKeeps ==
    ASSUME ClientOK, StartDrain
    PROVE  Kept
<1>1. P!MakePointer /\ UNCHANGED <<peerVars, arrived, consumed>>
  BY SameSteps DEF StartDrain
<1>2. P!BufferOK' /\ P!Contents' = P!Contents
  BY <1>1, P!MakePointerStep, BufferConstants DEF ClientOK
<1>3. /\ pointer'.open /\ pointer'.data = <<>> /\ pointer'.count = 0
      /\ P!GetSize' = P!GetSize
      /\ pointer.data = <<>>
  <2>1. pointer' = [open |-> TRUE, data |-> <<>>, count |-> 0, writeCount |-> 0]
    BY <1>1 DEF P!MakePointer, P!NoPointer
  <2>2. ~pointer.open /\ UNCHANGED <<writeIndex, readIndex>>
    BY <1>1 DEF P!MakePointer
  <2> QED  BY <2>1, <2>2, StateFacts DEF P!GetSize
<1>4. CallOK'
  <2>1. ObjectCall("fill") /\ P!GetSize < call.size
    BY SameState DEF StartDrain, NeedsMore, ClientOK, CallOK, ObjectCall, Idle
  <2>2. ObjectCall("receive")' /\ call'.size = call.size
    BY <2>1 DEF StartDrain, ObjectCall
  <2> QED  BY <1>3, <2>1, <2>2 DEF CallOK
<1>5. StreamIntact'
  BY <1>1, <1>2, <1>3, Stream DEF ClientOK, peerVars
<1>6. P!Next
  BY <1>1 DEF P!Next
<1> QED  BY <1>1, <1>2, <1>4, <1>5, <1>6 DEF Kept, ClientOK, peerVars

\* While recv is called, there is room for what it is asked for, and more.
LEMMA RoomWanted ==
    ASSUME SmallObjects, ClientOK, call.pc = "receive", call.op # "raw"
    PROVE  /\ ObjectCall("receive")
           /\ pointer.open /\ pointer.data = <<>> /\ pointer.count = 0
           /\ Wanted \in 1 .. BufferSize
           /\ Wanted <= P!GetWritableSize
           /\ Wanted < P!GetAvailable
<1>1. /\ ObjectCall("receive")
      /\ pointer.open /\ pointer.data = <<>> /\ pointer.count = 0
      /\ P!GetSize < call.size
  BY DEF ClientOK, CallOK, ObjectCall, Idle
<1>2. call.size \in Sizes /\ call.size \in 1 .. BufferSize /\ call.size < BufferSize
  BY <1>1, SizesAssumption DEF ObjectCall, SmallObjects
<1>3. P!GetSize \in 0 .. BufferSize - 1 /\ writeIndex \in 0 .. BufferSize - 1
  BY StateFacts DEF ClientOK, P!BufferOK, P!TypeOK, P!Index
<1>4. /\ Buffer!GetSize = P!GetSize
      /\ Buffer!GetWritableSize = P!GetWritableSize
      /\ P!GetAvailable = BufferSize - P!GetSize
  BY SameState DEF P!GetAvailable
<1>5. P!GetWritableSize = IF BufferSize - P!GetSize < BufferSize - writeIndex
                            THEN BufferSize - P!GetSize
                            ELSE BufferSize - writeIndex
  BY <1>4 DEF P!GetWritableSize, P!Least
<1>6. Wanted = IF P!GetWritableSize < call.size - P!GetSize
                 THEN P!GetWritableSize
                 ELSE call.size - P!GetSize
  BY <1>4 DEF Wanted
<1> HIDE DEF SmallObjects
<1> QED  BY <1>1, <1>2, <1>3, <1>4, <1>5, <1>6, SizesAssumption

\* recv stores a part of what has arrived behind what can be read.
LEMMA ReceiveKeeps ==
    ASSUME SmallObjects, ClientOK, NEW k \in 1 .. BufferSize, Receive(k)
    PROVE  Kept
<1>1. /\ call.pc = "receive" /\ call.op # "raw"
      /\ k \in 1 .. Wanted /\ k <= Len(arrived)
      /\ Buffer!FillPointer(First(k))
      /\ arrived' = Rest(k)
      /\ call' = [call EXCEPT !.pc = "set"]
      /\ UNCHANGED <<peerVars, consumed>>
  BY DEF Receive
<1>2. /\ ObjectCall("receive")
      /\ pointer.open /\ pointer.data = <<>> /\ pointer.count = 0
      /\ k <= P!GetWritableSize /\ k < P!GetAvailable
  <2>1. /\ Wanted \in 1 .. BufferSize
        /\ Wanted <= P!GetWritableSize
        /\ Wanted < P!GetAvailable
    BY <1>1, RoomWanted
  <2>2. P!GetWritableSize \in Int /\ P!GetAvailable \in Int
    <3>1. P!GetSize \in 0 .. BufferSize - 1 /\ writeIndex \in 0 .. BufferSize - 1
      BY StateFacts DEF ClientOK, P!BufferOK, P!TypeOK, P!Index
    <3> QED  BY <3>1, SizesAssumption DEF P!GetWritableSize, P!GetAvailable, P!Least
  <2> QED  BY <1>1, <2>1, <2>2, RoomWanted
<1>3. /\ First(k) \in Seq(Byte) /\ Len(First(k)) = k
      /\ Rest(k) \in Seq(Byte)
      /\ First(k) \o Rest(k) = arrived
  <2>1. arrived \in Seq(Byte) /\ k \in 0 .. Len(arrived)
    BY <1>1 DEF ClientOK
  <2> QED  BY <2>1, SplitAt DEF First, Rest
<1>4. First(k) \in P!Chunk
  <2>1. First(k) \in [1 .. k -> Byte]
    BY <1>3, LenProperties
  <2> QED  BY <2>1, SizesAssumption DEF P!Chunk, P!Count
<1>5. P!FillPointer(First(k))
  <2>1. P!LeavesRoom(k)
    BY <1>2, StateFacts, SizesAssumption DEF P!LeavesRoom, P!GetAvailable
  <2> QED  BY <1>1, <1>2, <1>3, <2>1
           DEF P!FillPointer, Buffer!FillPointer, P!Index, Buffer!Index
<1>6. P!BufferOK' /\ P!Contents' = P!Contents
  BY <1>4, <1>5, P!FillStep, BufferConstants DEF ClientOK
<1>7. pointer'.open /\ pointer'.data = First(k)
  BY <1>2, <1>5 DEF P!FillPointer, ClientOK, P!BufferOK, P!TypeOK
<1>8. CallOK'
  BY <1>1, <1>2, <1>7 DEF CallOK, ObjectCall
<1>9. StreamIntact'
  <2> DEFINE s == consumed \o P!Contents
             d == First(k)
             a == Rest(k)
  <2>1. s \in Seq(Byte) /\ s \o <<>> = s
    BY StateFacts, Regroup DEF ClientOK
  <2>2. s \o arrived = [i \in 1 .. sent |-> i]
    BY <1>2, <2>1, Stream DEF ClientOK
  <2>3. d \in Seq(Byte) /\ a \in Seq(Byte) /\ d \o a = arrived
    BY <1>3
  <2> HIDE DEF s, d, a
  <2>4. s \o d \o a = [i \in 1 .. sent |-> i]
    BY <2>1, <2>2, <2>3, Associates
  <2> QED  BY <1>1, <1>6, <1>7, <2>4, Stream DEF s, d, a, peerVars
<1>10. P!Next
  BY <1>4, <1>5 DEF P!Next
<1> QED  BY <1>1, <1>3, <1>6, <1>8, <1>9, <1>10 DEF Kept, ClientOK, peerVars

\* Destroying the AsPointer appends what was counted.
LEMMA Commit ==
    ASSUME ClientOK, P!DestroyPointer
    PROVE  /\ P!BufferOK'
           /\ P!Contents' = P!Contents \o SubSeq(pointer.data, 1, pointer.count)
           /\ ~pointer'.open /\ pointer'.data = <<>>
           /\ P!Next
<1> DEFINE s == SubSeq(pointer.data, 1, pointer.count)
<1>1. P!BufferOK' /\ \E t \in P!Chunk : P!Queue!Put(t)
  BY P!DestroyStep, BufferConstants DEF ClientOK
<1>2. last' = [op |-> "write", ok |-> TRUE, data |-> s]
  BY DEF P!DestroyPointer, P!CommitPointer, P!Result
<1>3. PICK t \in P!Chunk : P!Queue!Put(t)
  BY <1>1
<1> HIDE DEF s
<1>4. P!Contents' = P!Contents \o t /\ last'.data = t
  BY <1>2, <1>3 DEF P!Queue!Put, P!Queue!Result
<1>5. P!Contents' = P!Contents \o s
  BY <1>2, <1>4
<1>6. ~pointer'.open /\ pointer'.data = <<>>
  BY DEF P!DestroyPointer, P!NoPointer
<1> QED  BY <1>1, <1>5, <1>6 DEF P!Next, s

\* DrainSocket_ throws before it stored anything, and nothing is appended.
LEMMA ReceiveThrowsKeeps ==
    ASSUME SmallObjects, ClientOK, ReceiveThrows
    PROVE  Kept
<1>1. /\ P!DestroyPointer
      /\ call' = Idle
      /\ UNCHANGED <<peerVars, arrived, consumed>>
      /\ pointer.data = <<>> /\ pointer.count = 0
  BY SameSteps, RoomWanted DEF ReceiveThrows
<1>2. /\ P!BufferOK'
      /\ P!Contents' = P!Contents \o SubSeq(pointer.data, 1, pointer.count)
      /\ ~pointer'.open /\ pointer'.data = <<>>
      /\ P!Next
  BY <1>1, Commit
<1>3. P!Contents' = P!Contents
  <2>1. SubSeq(pointer.data, 1, pointer.count) = <<>>
    BY <1>1, SubSeqEmpty
  <2> QED  BY <1>2, <2>1, StateFacts, ConcatEmptySeq
<1>4. CallOK'
  BY <1>1, <1>2 DEF CallOK
<1>5. StreamIntact'
  BY <1>1, <1>2, <1>3, Stream DEF ClientOK, peerVars
<1> QED  BY <1>1, <1>2, <1>4, <1>5 DEF Kept, ClientOK, peerVars

\* SetWriteCount is told of all that recv stored.
LEMMA SetCountKeeps ==
    ASSUME ClientOK, SetCount
    PROVE  Kept
<1>1. /\ P!SetWriteCount(Len(pointer.data))
      /\ call.pc = "set"
      /\ call' = [call EXCEPT !.pc = "release"]
      /\ UNCHANGED <<peerVars, arrived, consumed>>
  BY SameSteps DEF SetCount
<1>2. Len(pointer.data) \in P!Count
  BY StateFacts DEF P!Count
<1>3. P!BufferOK' /\ P!Contents' = P!Contents
  BY <1>1, <1>2, P!SetWriteCountStep, BufferConstants DEF ClientOK
<1>4. /\ pointer'.open /\ pointer'.data = pointer.data
      /\ pointer'.count = Len(pointer'.data)
  BY <1>1 DEF P!SetWriteCount, ClientOK, P!BufferOK, P!TypeOK
<1>5. CallOK'
  BY <1>1, <1>4 DEF ClientOK, CallOK, ObjectCall, Idle
<1>6. StreamIntact'
  BY <1>1, <1>3, <1>4, Stream DEF ClientOK, peerVars
<1>7. P!Next
  BY <1>1, <1>2 DEF P!Next
<1> QED  BY <1>1, <1>3, <1>5, <1>6, <1>7 DEF Kept, ClientOK, peerVars

\* DrainSocket_ returns: what was stored becomes readable.
LEMMA EndDrainKeeps ==
    ASSUME ClientOK, EndDrain
    PROVE  Kept
<1>1. /\ P!DestroyPointer
      /\ call.pc = "release"
      /\ call' = [call EXCEPT !.pc = "fill"]
      /\ UNCHANGED <<peerVars, arrived, consumed>>
  BY SameSteps DEF EndDrain
<1>2. ObjectCall("release") /\ pointer.count = Len(pointer.data)
  BY <1>1 DEF ClientOK, CallOK, ObjectCall, Idle
<1>3. /\ P!BufferOK'
      /\ P!Contents' = P!Contents \o SubSeq(pointer.data, 1, pointer.count)
      /\ ~pointer'.open /\ pointer'.data = <<>>
      /\ P!Next
  BY <1>1, Commit
<1>4. P!Contents' = P!Contents \o pointer.data
  <2>1. SubSeq(pointer.data, 1, Len(pointer.data)) = pointer.data
    BY StateFacts, SubSeqFull
  <2> QED  BY <1>2, <1>3, <2>1
<1>5. CallOK'
  BY <1>1, <1>2, <1>3 DEF CallOK, ObjectCall
<1>6. StreamIntact'
  <2> DEFINE b == P!Contents
             d == pointer.data
  <2>1. consumed \in Seq(Byte) /\ b \in Seq(Byte) /\ d \in Seq(Byte)
        /\ arrived \in Seq(Byte)
    BY StateFacts DEF ClientOK
  <2>2. consumed \o b \o d \o arrived = [i \in 1 .. sent |-> i]
    BY Stream DEF ClientOK
  <2>3. consumed' = consumed /\ arrived' = arrived /\ sent' = sent
        /\ P!Contents' = b \o d /\ pointer'.data = <<>>
    BY <1>1, <1>3, <1>4 DEF peerVars
  <2> HIDE DEF b, d
  <2>4. consumed \o (b \o d) \o <<>> \o arrived = [i \in 1 .. sent |-> i]
    <3>1. consumed \o b \o d \o arrived
            = consumed \o (b \o d) \o <<>> \o arrived
      BY <2>1, PointerJoins
    <3> QED  BY <2>2, <3>1
  <2>5. consumed' \o P!Contents' \o pointer'.data \o arrived'
          = consumed \o (b \o d) \o <<>> \o arrived
    BY <2>3
  <2>6. consumed' \o P!Contents' \o pointer'.data \o arrived'
          = [i \in 1 .. sent' |-> i]
    BY <2>3, <2>4, <2>5
  <2> QED  BY <2>6, Stream
<1> QED  BY <1>1, <1>3, <1>5, <1>6 DEF Kept, ClientOK, peerVars

\* When bytes leave the front of readBuffer_ for the caller, the stream is whole.
LEMMA Taken ==
    ASSUME ClientOK, UNCHANGED <<peerVars, arrived>>, pointer'.data = pointer.data,
           NEW k \in 0 .. P!GetSize,
           P!Contents' = SubSeq(P!Contents, k + 1, Len(P!Contents)),
           consumed' = consumed \o SubSeq(P!Contents, 1, k)
    PROVE  consumed' \in Seq(Byte) /\ StreamIntact'
<1> DEFINE front == SubSeq(P!Contents, 1, k)
           rest == SubSeq(P!Contents, k + 1, Len(P!Contents))
<1>1. front \in Seq(Byte) /\ rest \in Seq(Byte) /\ front \o rest = P!Contents
  BY StateFacts, SplitAt
<1> HIDE DEF front, rest
<1>2. consumed \in Seq(Byte) /\ consumed \o front \o rest = consumed \o P!Contents
  BY <1>1, Associates DEF ClientOK
<1>3. consumed' \in Seq(Byte)
  BY <1>1, <1>2, ConcatProperties DEF front
<1>4. consumed' \o P!Contents' = consumed \o P!Contents
  BY <1>2 DEF front, rest
<1>5. StreamIntact'
  BY <1>4, Stream DEF ClientOK, peerVars
<1> QED  BY <1>3, <1>5

\* Read<T> gives the object and removes it; Peek<T> leaves it.
LEMMA EndCallKeeps ==
    ASSUME ClientOK, EndCall
    PROVE  Kept
<1>1. /\ ~(P!GetSize < call.size)
      /\ call.pc = "fill"
      /\ call' = Idle
      /\ UNCHANGED <<peerVars, arrived>>
  BY SameState DEF EndCall, NeedsMore
<1>2. /\ call.size \in P!Count /\ call.size \in 0 .. P!GetSize
      /\ call.op \in {"read", "peek"}
      /\ ~pointer.open
  <2>1. ObjectCall("fill") /\ ~pointer.open
    BY <1>1 DEF ClientOK, CallOK, ObjectCall, Idle
  <2>2. call.size \in 1 .. BufferSize /\ call.op \in {"read", "peek"}
    BY <2>1, SizesAssumption DEF ObjectCall
  <2> QED  BY <1>1, <2>1, <2>2, StateFacts, SizesAssumption DEF P!Count
<1>3. CASE call.op = "read"
  <2>1. P!Read(call.size) /\ consumed' = consumed \o last'.data
    BY <1>3, SameSteps DEF EndCall
  <2>2. P!BufferOK' /\ P!Queue!Get(call.size)
    BY <1>2, <2>1, P!ReadStep, BufferConstants DEF ClientOK
  <2>3. /\ P!Contents' = SubSeq(P!Contents, call.size + 1, Len(P!Contents))
        /\ last'.data = SubSeq(P!Contents, 1, call.size)
    BY <1>2, <2>2, StateFacts DEF P!Queue!Get, P!Queue!Result
  <2>4. pointer' = pointer
    BY <2>1 DEF P!Read
  <2>5. consumed' \in Seq(Byte) /\ StreamIntact'
    BY <1>1, <1>2, <2>1, <2>3, <2>4, Taken
  <2>6. CallOK'
    BY <1>1, <1>2, <2>4 DEF CallOK
  <2>7. P!Next
    BY <1>2, <2>1 DEF P!Next
  <2> QED  BY <1>1, <2>2, <2>5, <2>6, <2>7 DEF Kept, ClientOK, peerVars
<1>4. CASE call.op = "peek"
  <2>1. P!Peek(call.size) /\ consumed' = consumed
    BY <1>4, SameSteps DEF EndCall
  <2>2. P!BufferOK' /\ P!Queue!Peek(call.size)
    BY <1>2, <2>1, P!PeekStep, BufferConstants DEF ClientOK
  <2>3. P!Contents' = P!Contents /\ pointer' = pointer
    BY <2>1, <2>2 DEF P!Queue!Peek, P!Peek
  <2>4. StreamIntact'
    BY <1>1, <2>1, <2>3, Stream DEF ClientOK, peerVars
  <2>5. CallOK'
    BY <1>1, <1>2, <2>3 DEF CallOK
  <2>6. P!Next
    BY <1>2, <2>1 DEF P!Next
  <2> QED  BY <1>1, <2>1, <2>2, <2>4, <2>5, <2>6 DEF Kept, ClientOK, peerVars
<1> QED  BY <1>2, <1>3, <1>4

\* DiscardBuffer forgets all that readBuffer_ holds.
LEMMA DiscardBufferKeeps ==
    ASSUME ClientOK, DiscardBuffer
    PROVE  Kept
<1>1. /\ P!Reset
      /\ call = Idle
      /\ consumed' = consumed \o P!Contents
      /\ UNCHANGED <<peerVars, arrived, call>>
  BY SameSteps, SameState DEF DiscardBuffer
<1>2. P!BufferOK' /\ P!Contents' = <<>>
  BY <1>1, P!ResetStep, BufferConstants DEF ClientOK, P!Queue!Clear
<1>3. pointer' = pointer
  BY <1>1 DEF P!Reset
<1>4. consumed' \in Seq(Byte) /\ StreamIntact'
  <2> DEFINE n == P!GetSize
  <2>1. n \in 0 .. P!GetSize /\ n = Len(P!Contents)
    BY StateFacts
  <2>2. SubSeq(P!Contents, 1, n) = P!Contents
    BY <2>1, StateFacts, SubSeqFull
  <2>3. SubSeq(P!Contents, n + 1, Len(P!Contents)) = <<>>
    BY <2>1, SubSeqEmpty
  <2> QED  BY <1>1, <1>2, <1>3, <2>1, <2>2, <2>3, Taken
<1>5. CallOK'
  BY <1>1, <1>3 DEF ClientOK, CallOK, ObjectCall, Idle
<1>6. P!Next
  BY <1>1 DEF P!Next
<1> QED  BY <1>1, <1>2, <1>4, <1>5, <1>6 DEF Kept, ClientOK, peerVars

\* Read(void *, size_t) and Flush take past an empty readBuffer_.
LEMMA TakenDirectly ==
    ASSUME ClientOK, UNCHANGED <<bufferVars, peerVars>>,
           P!IsEmpty, ~pointer.open,
           NEW k \in 0 .. Len(arrived),
           arrived' = Rest(k), consumed' = consumed \o First(k),
           CallOK'
    PROVE  Kept
<1>1. P!BufferOK' /\ P!Contents' = <<>> /\ P!Contents = <<>>
  BY BufferUnmoved, StateFacts DEF ClientOK
<1>2. pointer.data = <<>> /\ pointer'.data = <<>>
  BY StateFacts DEF bufferVars
<1>3. First(k) \in Seq(Byte) /\ Rest(k) \in Seq(Byte) /\ First(k) \o Rest(k) = arrived
  BY SplitAt DEF ClientOK, First, Rest
<1>4. consumed \in Seq(Byte) /\ consumed \o <<>> = consumed
  BY ConcatEmptySeq DEF ClientOK
<1>5. consumed' \in Seq(Byte) /\ consumed' \o <<>> = consumed'
  <2>1. consumed' \in Seq(Byte)
    BY <1>3, <1>4, ConcatProperties
  <2> QED  BY <2>1, ConcatEmptySeq
<1>6. consumed \o arrived = [i \in 1 .. sent |-> i]
  BY <1>1, <1>2, <1>4, Stream DEF ClientOK
<1>7. consumed' \o arrived' = [i \in 1 .. sent |-> i]
  <2> DEFINE d == First(k)
             a == Rest(k)
  <2>1. d \in Seq(Byte) /\ a \in Seq(Byte) /\ d \o a = arrived
        /\ consumed' = consumed \o d /\ arrived' = a
    BY <1>3
  <2> HIDE DEF d, a
  <2>2. consumed \o d \o a = consumed \o (d \o a)
    BY <1>4, <2>1, Associates
  <2> QED  BY <1>6, <2>1, <2>2
<1>8. StreamIntact'
  BY <1>1, <1>2, <1>5, <1>7, Stream DEF peerVars
<1> QED  BY <1>1, <1>3, <1>5, <1>8 DEF Kept, ClientOK, peerVars

LEMMA ReadSomeKeeps ==
    ASSUME ClientOK, NEW k \in 1 .. BufferSize, ReadSome(k)
    PROVE  Kept
<1>1. /\ call \in [op : {"raw"}, size : 1 .. BufferSize, pc : {"receive"}]
      /\ ~pointer.open /\ P!IsEmpty
  BY DEF ReadSome, ClientOK, CallOK, ObjectCall, Idle
<1>2. UNCHANGED <<bufferVars, peerVars>> /\ P!IsEmpty' /\ ~pointer'.open
  BY <1>1, BufferUnmoved DEF ReadSome, ClientOK, bufferVars
<1>3. k \in 0 .. Len(arrived)
  BY DEF ReadSome, ClientOK
<1>4. CallOK'
  <2>1. CASE k < call.size
    <3>1. call.size - k \in 1 .. BufferSize
      BY <1>1, <2>1, SizesAssumption
    <3>2. call' \in [op : {"raw"}, size : 1 .. BufferSize, pc : {"receive"}]
      BY <1>1, <2>1, <3>1 DEF ReadSome
    <3> QED  BY <1>2, <3>2 DEF CallOK
  <2>2. CASE ~(k < call.size)
    BY <1>2, <2>2 DEF ReadSome, CallOK
  <2> QED  BY <2>1, <2>2
<1> QED  BY <1>1, <1>2, <1>3, <1>4, TakenDirectly DEF ReadSome

LEMMA DiscardKeeps ==
    ASSUME ClientOK, NEW k \in 1 .. BufferSize, Discard(k)
    PROVE  Kept
<1>1. /\ call \in [op : {"flush"}, size : {0}, pc : {"discard"}]
      /\ ~pointer.open /\ P!IsEmpty
  BY DEF Discard, ClientOK, CallOK, ObjectCall, Idle
<1>2. UNCHANGED <<bufferVars, peerVars, call>> /\ P!IsEmpty' /\ ~pointer'.open
  BY <1>1, BufferUnmoved DEF Discard, ClientOK, bufferVars
<1>3. k \in 0 .. Len(arrived)
  BY DEF Discard, ClientOK
<1>4. CallOK'
  BY <1>1, <1>2 DEF CallOK
<1> QED  BY <1>1, <1>2, <1>3, <1>4, TakenDirectly DEF Discard

\* A direct read that times out, one that goes round, and the end of a Flush.
LEMMA EndsKeep ==
    ASSUME ClientOK, ReadThrows \/ ReadSpins \/ EndFlush
    PROVE  Kept
<1>1. UNCHANGED <<bufferVars, peerVars, arrived, consumed>>
  BY DEF ReadThrows, ReadSpins, EndFlush, vars
<1>2. pointer' = pointer /\ P!IsEmpty' = P!IsEmpty /\ P!GetSize' = P!GetSize
  BY <1>1, BufferUnmoved DEF ClientOK, bufferVars
<1>3. CallOK'
  <2>1. CASE ReadThrows \/ EndFlush
    <3>1. ~pointer.open /\ call' = Idle
      BY <2>1 DEF ReadThrows, EndFlush, ClientOK, CallOK, ObjectCall, Idle
    <3> QED  BY <1>2, <3>1 DEF CallOK
  <2>2. CASE ReadSpins
    <3>1. call' = call
      BY <2>2 DEF ReadSpins, vars
    <3> QED  BY <1>2, <3>1 DEF ClientOK, CallOK, ObjectCall
  <2> QED  BY <2>1, <2>2
<1> QED  BY <1>1, <1>3, CallMoves

-----------------------------------------------------------------------------
(* The theorems *)

LEMMA ClientInit ==
    ASSUME Init
    PROVE  ClientOK /\ P!Init
<1>1. P!Init
  BY SameSteps DEF Init
<1>2. P!BufferOK /\ P!Contents = <<>>
  BY <1>1, P!InitOK, BufferConstants DEF P!Queue!Init
<1>3. pointer.data = <<>> /\ ~pointer.open
  BY <1>1 DEF P!Init, P!NoPointer
<1>4. StreamIntact
  <2>1. <<>> \o <<>> \o <<>> \o <<>> = [i \in 1 .. 0 |-> i]
    OBVIOUS
  <2> QED  BY <1>2, <1>3, <2>1, Stream DEF Init
<1> QED  BY <1>1, <1>2, <1>3, <1>4, StreamAssumption DEF Init, ClientOK, CallOK

LEMMA ClientNext ==
    ASSUME SmallObjects, ClientOK, [Next]_vars
    PROVE  Kept
<1>1. CASE PeerSends \/ PeerCloses
  BY <1>1, PeerKeeps
<1>2. CASE \/ \E op \in {"read", "peek"}, size \in Sizes : StartCall(op, size)
           \/ \E byteCount \in Sizes : StartRead(byteCount)
           \/ StartFlush
  BY <1>2, StartsKeep
<1>3. CASE DiscardBuffer
  BY <1>3, DiscardBufferKeeps
<1>4. CASE StartDrain
  BY <1>4, StartDrainKeeps
<1>5. ASSUME NEW k \in 1 .. BufferSize, Receive(k) \/ ReadSome(k) \/ Discard(k)
      PROVE  Kept
  BY <1>5, ReceiveKeeps, ReadSomeKeeps, DiscardKeeps
<1>6. CASE ReceiveThrows
  BY <1>6, ReceiveThrowsKeeps
<1>7. CASE SetCount
  BY <1>7, SetCountKeeps
<1>8. CASE EndDrain
  BY <1>8, EndDrainKeeps
<1>9. CASE EndCall
  BY <1>9, EndCallKeeps
<1>10. CASE ReadThrows \/ ReadSpins \/ EndFlush
  BY <1>10, EndsKeep
<1>11. CASE UNCHANGED vars
  <2>1. UNCHANGED <<bufferVars, peerVars, arrived, consumed, call>>
    BY <1>11 DEF vars
  <2>2. CallOK'
    BY <2>1, BufferUnmoved DEF ClientOK, CallOK, ObjectCall, bufferVars
  <2> QED  BY <2>1, <2>2, CallMoves
<1> QED  BY <1>1, <1>2, <1>3, <1>4, <1>5, <1>6, <1>7, <1>8, <1>9, <1>10, <1>11
         DEF Next, ClientStep

\* The invariant of the reading side of a Client.
THEOREM ClientCorrect ==
    ASSUME SmallObjects
    PROVE  Spec => []ClientOK
<1>1. ClientOK /\ [Next]_vars => ClientOK'
  BY ClientNext DEF Kept
<1> QED  BY <1>1, ClientInit, PTL DEF Spec

\* Whatever recv gives and whenever it times out, the bytes that callers were
\* given, those in readBuffer_ and those still in the kernel are in order all
\* that the peer sent.
THEOREM ClientStream ==
    ASSUME SmallObjects
    PROVE  Spec => []StreamIntact
<1>1. ClientOK => StreamIntact
  BY DEF ClientOK
<1> QED  BY <1>1, ClientCorrect, PTL

\* DrainSocket_ always asks recv for at least one byte and never for more than
\* the end of the array leaves.
THEOREM ClientAsks ==
    ASSUME SmallObjects
    PROVE  Spec => []AsksForSomething
<1>1. ClientOK => AsksForSomething
  BY RoomWanted, SameState DEF AsksForSomething
<1> QED  BY <1>1, ClientCorrect, PTL

\* Client keeps the rule under which readBuffer_ is a FIFO (BufferIsFifo): it
\* never fills the last place.
THEOREM ClientLeavesRoom ==
    ASSUME SmallObjects
    PROVE  Spec => LeavesRoomInBuffer
<1>1. Init => Careful!Init
  BY ClientInit, SameBuffer
<1>2. ClientOK /\ [Next]_vars => [Careful!Next]_(Careful!vars)
  <2>1. Careful!vars' = bufferVars'
    BY DEF Careful!vars, bufferVars
  <2> QED  BY <2>1, ClientNext, SameBuffer DEF Kept
<1> QED  BY <1>1, <1>2, ClientCorrect, PTL DEF Spec, LeavesRoomInBuffer, Careful!Spec

\* So to a Client readBuffer_ is a FIFO: every object is the bytes that were
\* received first, in order, each once.
THEOREM ClientFifo ==
    ASSUME SmallObjects
    PROVE  Spec => P!ImplementsFifo
<1>1. P!Spec => P!ImplementsFifo
  BY P!BufferIsFifo, BufferConstants
<1>2. Init => P!Init
  BY ClientInit
<1>3. ClientOK /\ [Next]_vars => [P!Next]_(P!vars)
  BY ClientNext DEF Kept, P!vars, bufferVars
<1> QED  BY <1>1, <1>2, <1>3, ClientCorrect, PTL DEF Spec, P!Spec

\* Every variable keeps its type.
THEOREM ClientTyped ==
    ASSUME SmallObjects
    PROVE  Spec => []TypeOK
<1>1. P!BufferOK => Buffer!TypeOK
  BY DEF P!BufferOK, P!TypeOK, Buffer!TypeOK, P!Index, Buffer!Index,
         P!Count, Buffer!Count, P!Chunk, Buffer!Chunk, P!NoPointer, Buffer!NoPointer
<1>2. ASSUME CallOK
      PROVE  /\ call \in [op : {"none", "read", "peek", "raw", "flush"},
                          size : 0 .. BufferSize,
                          pc : {"idle", "fill", "receive", "set", "release",
                                "discard"}]
             /\ call.pc = "idle" => call = Idle
  <2>0. 0 \in 0 .. BufferSize /\ Sizes \subseteq 0 .. BufferSize
        /\ 1 .. BufferSize \subseteq 0 .. BufferSize
    BY SizesAssumption
  <2>1. CASE call = Idle
    BY <2>0, <2>1 DEF Idle
  <2>2. CASE \E pc \in {"fill", "receive", "set", "release"} : ObjectCall(pc)
    <3>1. PICK pc \in {"fill", "receive", "set", "release"} : ObjectCall(pc)
      BY <2>2
    <3>2. call.pc # "idle"
      BY <3>1 DEF ObjectCall
    <3> QED  BY <2>0, <3>1, <3>2 DEF ObjectCall
  <2>3. CASE \/ call \in [op : {"raw"}, size : 1 .. BufferSize, pc : {"receive"}]
             \/ call \in [op : {"flush"}, size : {0}, pc : {"discard"}]
    BY <2>0, <2>3
  <2> QED  BY <1>2, <2>1, <2>2, <2>3 DEF CallOK
<1>3. ClientOK => TypeOK
  BY <1>1, <1>2 DEF ClientOK, TypeOK
<1> QED  BY <1>3, ClientCorrect, PTL
=============================================================================
