------------------------ MODULE CircularBufferProofs ------------------------
(***************************************************************************)
(* CircularBuffer is a FIFO for every size N, as long as callers leave its   *)
(* last place free.                                                         *)
(***************************************************************************)
EXTENDS CircularBuffer, SequenceTheorems, TLAPS

USE SizeAssumption, ValueAssumption, BoundAssumption DEF Index, Count

-----------------------------------------------------------------------------
(* The indexes *)

\* One subtraction is enough to wrap a sum of two indexes.
LEMMA WrapOnce ==
    ASSUME NEW a \in 0 .. 2 * N - 1
    PROVE  a % N = IF a < N THEN a ELSE a - N
  BY SMTT(30)

\* What operator+= computes.
LEMMA PlusValue ==
    ASSUME NEW i \in Index, NEW count \in 0 .. N - 1
    PROVE  /\ Plus(i, count) = IF i + count < N THEN i + count ELSE i + count - N
           /\ Plus(i, count) \in Index
<1>1. Wrap(count) = count
  BY WrapOnce DEF Wrap
<1>2. i + count \in 0 .. 2 * N - 1
  OBVIOUS
<1> QED  BY <1>1, <1>2, WrapOnce DEF Plus

\* What operator- computes.
LEMMA MinusValue ==
    ASSUME NEW left \in Index, NEW right \in Index
    PROVE  /\ Minus(left, right) = IF left >= right THEN left - right
                                   ELSE left - right + N
           /\ Minus(left, right) \in Index
<1>1. left + N - right \in 0 .. 2 * N - 1
  OBVIOUS
<1> QED  BY <1>1, WrapOnce DEF Minus

-----------------------------------------------------------------------------
(* The elements between two indexes *)

Cell == Value \cup {NoValue}

\* Where the k-th element from i on lies.
Spot(i, k) == IF i + k - 1 < N THEN i + k - 1 ELSE i + k - 1 - N

Between(w, r, e) == [k \in 1 .. Minus(w, r) |-> e[Plus(r, k - 1)]]

\* They are a sequence.
LEMMA BetweenSeq ==
    ASSUME NEW w \in Index, NEW r \in Index, NEW e \in [Index -> Cell]
    PROVE  /\ Between(w, r, e) \in Seq(Cell)
           /\ Len(Between(w, r, e)) = Minus(w, r)
           /\ \A k \in 1 .. Minus(w, r) :
                Between(w, r, e)[k] =
                  e[Spot(r, k)]
<1>1. Minus(w, r) \in Index
  BY MinusValue
<1>2. \A k \in 1 .. Minus(w, r) :
        /\ k - 1 \in 0 .. N - 1
        /\ Plus(r, k - 1) \in Index
        /\ Plus(r, k - 1) = Spot(r, k)
  <2> TAKE k \in 1 .. Minus(w, r)
  <2>1. k - 1 \in 0 .. N - 1
    BY <1>1
  <2>2. r + (k - 1) = r + k - 1
    OBVIOUS
  <2> QED  BY <2>1, <2>2, PlusValue DEF Spot
<1>3. Between(w, r, e) \in [1 .. Minus(w, r) -> Cell]
  BY <1>2 DEF Between
<1> QED  BY <1>1, <1>2, <1>3 DEF Between

\* Moving the read index drops a prefix.
LEMMA BetweenDrop ==
    ASSUME NEW w \in Index, NEW r \in Index, NEW e \in [Index -> Cell],
           NEW count \in 0 .. Minus(w, r)
    PROVE  /\ Plus(r, count) \in Index
           /\ Minus(w, Plus(r, count)) = Minus(w, r) - count
           /\ Between(w, Plus(r, count), e) =
                SubSeq(Between(w, r, e), count + 1, Minus(w, r))
<1> DEFINE q == Between(w, r, e)
           p == Plus(r, count)
           t == Between(w, p, e)
           size == Minus(w, r)
           u == SubSeq(q, count + 1, size)
<1>0. /\ size \in Index
      /\ size = IF w >= r THEN w - r ELSE w - r + N
  BY MinusValue
<1>1. count \in 0 .. size /\ count \in 0 .. N - 1
  <2> HIDE DEF size
  <2>1. count \in 0 .. size
    BY DEF size
  <2> QED  BY <1>0, <2>1
<1>2. /\ p \in Index
      /\ p = IF r + count < N THEN r + count ELSE r + count - N
  BY <1>1, PlusValue
<1> HIDE DEF p, size
<1>3. Minus(w, p) = size - count
  <2>1. Minus(w, p) = IF w >= p THEN w - p ELSE w - p + N
    BY <1>2, MinusValue
  <2> QED  BY <1>0, <1>1, <1>2, <2>1
<1>4. /\ t \in Seq(Cell)
      /\ Len(t) = size - count
      /\ \A k \in 1 .. size - count :
           t[k] = e[Spot(p, k)]
  <2>1. /\ t \in Seq(Cell)
        /\ Len(t) = Minus(w, p)
        /\ \A k \in 1 .. Minus(w, p) : t[k] = e[Spot(p, k)]
    BY <1>2, BetweenSeq
  <2> HIDE DEF t
  <2> QED  BY <2>1, <1>3
<1>5. /\ q \in Seq(Cell)
      /\ Len(q) = size
      /\ \A k \in 1 .. size :
           q[k] = e[Spot(r, k)]
  BY BetweenSeq DEF size
<1> HIDE DEF q, t
<1>6. /\ u \in Seq(Cell)
      /\ Len(u) = size - count
      /\ \A k \in 1 .. size - count : u[k] = q[count + k]
  <2>1. \A k \in count + 1 .. size : q[k] \in Cell
    BY <1>0, <1>1, <1>5, ElementOfSeq
  <2> QED  BY <2>1, <1>0, <1>1, <1>5, SubSeqProperties DEF u
<1>7. \A k \in 1 .. size - count : t[k] = u[k]
  <2> TAKE k \in 1 .. size - count
  <2>1. count + k \in 1 .. size
    BY <1>0, <1>1
  <2>2. u[k] = e[Spot(r, count + k)]
    BY <2>1, <1>5, <1>6
  <2>3. t[k] = e[Spot(p, k)]
    BY <1>4
  <2>4. Spot(p, k) = Spot(r, count + k)
    BY <1>0, <1>1, <1>2, <2>1 DEF Spot
  <2> QED  BY <2>2, <2>3, <2>4
<1>8. t = u
  <2> HIDE DEF u
  <2> QED  BY <1>4, <1>6, <1>7, SeqEqual
<1> QED  BY <1>2, <1>3, <1>8 DEF p, q, t, u, size

\* Moving the write index over new elements appends them.
LEMMA ContentsAppend ==
    ASSUME TypeOK, NEW s \in Seq(Value), GetSize + Len(s) < N,
           writeIndex' = Plus(writeIndex, Len(s)),
           UNCHANGED readIndex,
           elements' \in [Index -> Cell],
           \A k \in 1 .. GetSize :
             elements'[Spot(readIndex, k)] = elements[Spot(readIndex, k)],
           \A k \in 1 .. Len(s) : elements'[Spot(writeIndex, k)] = s[k]
    PROVE  /\ writeIndex' \in Index
           /\ GetSize' = GetSize + Len(s)
           /\ Contents' = Contents \o s
<1> DEFINE q == Between(writeIndex, readIndex, elements)
           p == Plus(writeIndex, Len(s))
           t == Between(p, readIndex, elements')
           u == q \o s
           size == Minus(writeIndex, readIndex)
<1>0. /\ writeIndex \in Index
      /\ readIndex \in Index
      /\ elements \in [Index -> Cell]
  BY DEF TypeOK, Cell
<1>1. size \in Index /\ Len(s) \in 0 .. N - 1
  <2>1. size \in Index
    BY <1>0, MinusValue
  <2>2. Len(s) \in Nat /\ size + Len(s) < N
    BY DEF GetSize
  <2> HIDE DEF size
  <2> QED  BY <2>1, <2>2
<1>2. /\ p \in Index
      /\ p = IF writeIndex + Len(s) < N THEN writeIndex + Len(s) ELSE writeIndex + Len(s) - N
  BY <1>0, <1>1, PlusValue
<1>3. size = IF writeIndex >= readIndex THEN writeIndex - readIndex ELSE writeIndex - readIndex + N
  BY <1>0, MinusValue
<1> HIDE DEF p, size
<1>4. Minus(p, readIndex) = size + Len(s)
  <2>1. Minus(p, readIndex) = IF p >= readIndex THEN p - readIndex ELSE p - readIndex + N
    BY <1>0, <1>2, MinusValue
  <2>2. size + Len(s) < N
    BY DEF size, GetSize
  <2> QED  BY <1>0, <1>1, <1>2, <1>3, <2>1, <2>2
<1>5. /\ t \in Seq(Cell)
      /\ Len(t) = size + Len(s)
      /\ \A k \in 1 .. size + Len(s) :
           t[k] = elements'[Spot(readIndex, k)]
  <2>1. /\ t \in Seq(Cell)
        /\ Len(t) = Minus(p, readIndex)
        /\ \A k \in 1 .. Minus(p, readIndex) : t[k] = elements'[Spot(readIndex, k)]
    BY <1>0, <1>2, BetweenSeq
  <2> HIDE DEF t
  <2> QED  BY <2>1, <1>4
<1>6. /\ q \in Seq(Cell)
      /\ Len(q) = size
      /\ \A k \in 1 .. size :
           q[k] = elements[Spot(readIndex, k)]
  BY <1>0, BetweenSeq DEF size
<1> HIDE DEF q, t
<1>7. s \in Seq(Cell)
  BY SeqMonotonic DEF Cell
<1>8. /\ u \in Seq(Cell)
      /\ Len(u) = size + Len(s)
      /\ \A k \in 1 .. size + Len(s) :
           u[k] = IF k <= size THEN q[k] ELSE s[k - size]
  BY <1>6, <1>7, ConcatProperties
<1> HIDE DEF u
<1>9. \A k \in 1 .. size + Len(s) : t[k] = u[k]
  <2> TAKE k \in 1 .. size + Len(s)
  <2>1. CASE k <= size
    <3>1. k \in 1 .. size
      BY <2>1, <1>1
    <3> QED  BY <3>1, <1>5, <1>6, <1>8, <2>1 DEF size, GetSize
  <2>2. CASE k > size
    <3>1. k - size \in 1 .. Len(s)
      BY <2>2, <1>1
    <3>2. s[k - size] = elements'[Spot(writeIndex, k - size)]
      BY <3>1
    <3>3. Spot(writeIndex, k - size) = Spot(readIndex, k)
      <4>1. size + Len(s) < N
        BY DEF size, GetSize
      <4> QED  BY <1>0, <1>1, <1>3, <4>1, <2>2, <3>1 DEF Spot
    <3>4. u[k] = s[k - size]
      BY <2>2, <1>8, <1>1
    <3> QED  BY <3>2, <3>3, <3>4, <1>5
  <2> QED  BY <2>1, <2>2, <1>1
<1>10. t = u
  BY <1>5, <1>8, <1>9, SeqEqual
<1> QED  BY <1>2, <1>4, <1>10 DEF p, q, t, u, size, Contents, GetSize, Between

-----------------------------------------------------------------------------
(* The two parts of the copies *)

\* The inputs are sequences of values.
LEMMA ChunkSeq ==
    ASSUME NEW s \in Chunk
    PROVE  s \in Seq(Value) /\ Len(s) \in Count
  BY DEF Chunk

\* What can be read, in terms of the lemmas above.
LEMMA ContentsSeq ==
    ASSUME TypeOK
    PROVE  /\ Contents = Between(writeIndex, readIndex, elements)
           /\ GetSize = Minus(writeIndex, readIndex)
           /\ GetSize \in Index
           /\ GetAvailable = N - GetSize
           /\ Contents \in Seq(Cell)
           /\ Len(Contents) = GetSize
           /\ \A k \in 1 .. GetSize : Contents[k] = elements[Spot(readIndex, k)]
<1>1. /\ writeIndex \in Index
      /\ readIndex \in Index
      /\ elements \in [Index -> Cell]
  BY DEF TypeOK, Cell
<1>2. Contents = Between(writeIndex, readIndex, elements)
  BY DEF Contents, GetSize, Between
<1>3. /\ Contents \in Seq(Cell)
      /\ Len(Contents) = Minus(writeIndex, readIndex)
      /\ \A k \in 1 .. Minus(writeIndex, readIndex) :
           Contents[k] = elements[Spot(readIndex, k)]
  <2> HIDE DEF Index
  <2> QED  BY <1>1, <1>2, BetweenSeq
<1>4. Minus(writeIndex, readIndex) \in Index
  BY <1>1, MinusValue
<1> QED  BY <1>2, <1>3, <1>4 DEF GetSize, GetAvailable

\* Peek copies the oldest elements, in one part or in two.
LEMMA LoadedPrefix ==
    ASSUME TypeOK, NEW count \in 0 .. GetSize
    PROVE  Loaded(count) = SubSeq(Contents, 1, count)
<1> DEFINE t == Loaded(count)
           u == SubSeq(Contents, 1, count)
<1>1. /\ GetSize \in Index
      /\ readIndex \in Index
      /\ elements \in [Index -> Cell]
      /\ Contents \in Seq(Cell)
      /\ Len(Contents) = GetSize
      /\ \A k \in 1 .. GetSize : Contents[k] = elements[Spot(readIndex, k)]
  BY ContentsSeq DEF TypeOK, Cell
<1>2. count \in Nat /\ count <= GetSize
  BY <1>1
<1>3. /\ u \in Seq(Cell)
      /\ Len(u) = count
      /\ \A k \in 1 .. count : u[k] = Contents[k]
  <2>1. \A k \in 1 .. count : Contents[k] \in Cell
    BY <1>1, <1>2, ElementOfSeq
  <2> QED  BY <2>1, <1>2, SubSeqProperties
<1>4. /\ t \in Seq(Cell)
      /\ Len(t) = count
      /\ \A k \in 1 .. count : t[k] = elements[Spot(readIndex, k)]
  <2> DEFINE tail == Least(count, N - readIndex)
             place(k) == IF k <= tail THEN readIndex + k - 1 ELSE k - tail - 1
  <2>1. \A k \in 1 .. count : place(k) = Spot(readIndex, k) /\ place(k) \in Index
    BY <1>1, <1>2 DEF Least, Spot
  <2>2. t = [k \in 1 .. count |-> elements[place(k)]]
    BY DEF Loaded
  <2> HIDE DEF place, t
  <2>3. t \in [1 .. count -> Cell]
    BY <2>1, <2>2, <1>1
  <2> QED  BY <2>1, <2>2, <2>3, <1>2
<1> HIDE DEF t, u
<1>5. \A k \in 1 .. count : t[k] = u[k]
  BY <1>1, <1>2, <1>3, <1>4
<1>6. t = u
  BY <1>3, <1>4, <1>5, SeqEqual
<1> QED  BY <1>6 DEF t, u

\* Write stores what it is given after the newest element, and nowhere else.
LEMMA StoredPlaces ==
    ASSUME TypeOK, NEW s \in Chunk, GetSize + Len(s) < N
    PROVE  /\ Stored(s) \in [Index -> Cell]
           /\ \A k \in 1 .. GetSize :
                Stored(s)[Spot(readIndex, k)] = elements[Spot(readIndex, k)]
           /\ \A k \in 1 .. Len(s) : Stored(s)[Spot(writeIndex, k)] = s[k]
<1> DEFINE tail == Least(Len(s), N - writeIndex)
           f == Stored(s)
<1>1. s \in Seq(Value) /\ Len(s) \in Nat /\ \A k \in 1 .. Len(s) : s[k] \in Cell
  BY ChunkSeq, ElementOfSeq DEF Cell
<1>2. /\ writeIndex \in Index
      /\ readIndex \in Index
      /\ elements \in [Index -> Cell]
  BY DEF TypeOK, Cell
<1>3. /\ GetSize = IF writeIndex >= readIndex THEN writeIndex - readIndex
                   ELSE writeIndex - readIndex + N
      /\ GetSize \in Index
  BY <1>2, MinusValue DEF GetSize
<1>4. /\ tail \in 0 .. Len(s)
      /\ tail = IF Len(s) < N - writeIndex THEN Len(s) ELSE N - writeIndex
  BY <1>1, <1>2 DEF Least
<1>5. f = [i \in Index |->
             IF i \in writeIndex .. writeIndex + tail - 1
               THEN s[i - writeIndex + 1]
             ELSE IF i < Len(s) - tail
               THEN s[tail + i + 1]
             ELSE elements[i]]
  BY DEF Stored
<1> HIDE DEF tail, f
<1>6. f \in [Index -> Cell]
  <2>1. \A i \in Index : f[i] \in Cell
    <3> TAKE i \in Index
    <3>1. CASE i \in writeIndex .. writeIndex + tail - 1
      <4>1. i - writeIndex + 1 \in 1 .. Len(s)
        BY <3>1, <1>1, <1>2, <1>4
      <4> QED  BY <3>1, <4>1, <1>1, <1>5
    <3>2. CASE i \notin writeIndex .. writeIndex + tail - 1 /\ i < Len(s) - tail
      <4>1. tail + i + 1 \in 1 .. Len(s)
        BY <3>2, <1>1, <1>4
      <4> QED  BY <3>2, <4>1, <1>1, <1>5
    <3>3. CASE i \notin writeIndex .. writeIndex + tail - 1 /\ ~(i < Len(s) - tail)
      BY <3>3, <1>2, <1>5
    <3> QED  BY <3>1, <3>2, <3>3
  <2> QED  BY <2>1, <1>5
<1>7. ASSUME NEW k \in 1 .. GetSize
      PROVE  f[Spot(readIndex, k)] = elements[Spot(readIndex, k)]
  <2> DEFINE i == Spot(readIndex, k)
  <2>1. /\ i \in Index
        /\ i \notin writeIndex .. writeIndex + tail - 1
        /\ ~(i < Len(s) - tail)
    BY <1>1, <1>2, <1>3, <1>4 DEF Spot
  <2> HIDE DEF i
  <2>2. f[i] = elements[i]
    BY <2>1, <1>5
  <2> QED  BY <2>2 DEF i
<1>8. ASSUME NEW k \in 1 .. Len(s)
      PROVE  f[Spot(writeIndex, k)] = s[k]
  <2> DEFINE i == Spot(writeIndex, k)
  <2>1. CASE writeIndex + k - 1 < N
    <3>1. /\ i \in Index
          /\ i \in writeIndex .. writeIndex + tail - 1
          /\ i - writeIndex + 1 = k
      BY <2>1, <1>1, <1>2, <1>4 DEF Spot
    <3> HIDE DEF i
    <3>2. f[i] = s[i - writeIndex + 1]
      BY <3>1, <1>5
    <3>3. f[i] = s[k]
      BY <3>1, <3>2
    <3> QED  BY <3>3 DEF i
  <2>2. CASE ~(writeIndex + k - 1 < N)
    <3>1. /\ i \in Index
          /\ i \notin writeIndex .. writeIndex + tail - 1
          /\ i < Len(s) - tail
          /\ tail + i + 1 = k
      <4>1. GetSize + Len(s) < N
        OBVIOUS
      <4>2. k \in 1 .. Len(s) /\ k \in Int
        OBVIOUS
      <4>3. i = writeIndex + k - 1 - N
        BY <2>2 DEF Spot
      <4>4. tail = N - writeIndex
        BY <2>2, <4>2, <1>1, <1>2, <1>4
      <4> HIDE DEF i
      <4> QED  BY <4>1, <4>2, <4>3, <4>4, <2>2, <1>1, <1>2, <1>3
    <3> HIDE DEF i
    <3>2. f[i] = s[tail + i + 1]
      BY <3>1, <1>5
    <3>3. f[i] = s[k]
      BY <3>1, <3>2
    <3> QED  BY <3>3 DEF i
  <2> QED  BY <2>1, <2>2
<1> QED  BY <1>6, <1>7, <1>8 DEF f

-----------------------------------------------------------------------------
(* Each operation keeps the invariant and is an operation of the FIFO *)

\* What the invariant says of the readable elements.
LEMMA ContentsValues ==
    ASSUME BufferOK
    PROVE  /\ Contents \in Seq(Value)
           /\ Len(Contents) = GetSize
           /\ GetSize \in Index
           /\ GetAvailable = N - GetSize
<1>1. /\ Contents \in Seq(Cell)
      /\ Len(Contents) = GetSize
      /\ GetSize \in Index
      /\ GetAvailable = N - GetSize
  BY ContentsSeq DEF BufferOK
<1>2. \A k \in 1 .. Len(Contents) : Contents[k] \in Value
  BY <1>1 DEF BufferOK, Written
<1> QED  BY <1>1, <1>2

LEMMA EmptyContents ==
    ASSUME NEW i \in Index, NEW e \in [Index -> Cell]
    PROVE  Minus(i, i) = 0 /\ Between(i, i, e) = <<>>
<1>1. Minus(i, i) = 0
  BY MinusValue
<1>2. Between(i, i, e) \in Seq(Cell) /\ Len(Between(i, i, e)) = 0
  BY <1>1, BetweenSeq
<1> QED  BY <1>1, <1>2

LEMMA PrefixIsChunk ==
    ASSUME NEW q \in Seq(Value), NEW count \in Count, count <= Len(q)
    PROVE  SubSeq(q, 1, count) \in Chunk /\ Len(SubSeq(q, 1, count)) = count
<1>1. \A k \in 1 .. count : q[k] \in Value
  BY ElementOfSeq
<1>2. /\ SubSeq(q, 1, count) \in Seq(Value)
      /\ Len(SubSeq(q, 1, count)) = count
  BY <1>1, SubSeqProperties
<1>3. SubSeq(q, 1, count) \in [1 .. count -> Value]
  BY <1>2, LenProperties
<1> QED  BY <1>2, <1>3 DEF Chunk

\* An operation that moves no index leaves the readable elements alone.
LEMMA Unmoved ==
    ASSUME UNCHANGED <<writeIndex, readIndex, elements>>
    PROVE  Contents' = Contents /\ GetSize' = GetSize
  BY DEF Contents, GetSize

\* What a call returned is well typed when its data are.
LEMMA ResultOK ==
    ASSUME NEW op \in {"new", "write", "peek", "read", "remove", "reset", "front",
                      "back"},
           NEW ok \in BOOLEAN,
           NEW data \in Chunk \cup [1 .. 1 -> Value]
    PROVE  Result(op, ok, data)
             \in [op : {"new", "write", "peek", "read", "remove", "reset", "front",
                       "back"},
                 ok : BOOLEAN,
                 data : Chunk \cup [1 .. 1 -> Value]]
  BY DEF Result

\* Without an AsPointer there is nothing to keep.
LEMMA NothingLent ==
    ASSUME writeIndex' \in Index, GetSize' \in Index, pointer' = NoPointer
    PROVE  PointerKept'
<1>1. pointer'.data = <<>> /\ pointer'.writeCount = pointer'.count
  BY DEF NoPointer
<1>2. Len(pointer'.data) \in Nat /\ Len(pointer'.data) <= 0
  BY <1>1
<1>3. writeIndex' + Len(pointer'.data) <= N /\ GetSize' + Len(pointer'.data) < N
  BY <1>2
<1>4. \A k \in 1 .. Len(pointer'.data) :
        elements'[writeIndex' + k - 1] = pointer'.data[k]
  BY <1>2
<1> QED  BY <1>1, <1>3, <1>4 DEF PointerKept

LEMMA InitOK == Init => BufferOK /\ Queue!Init
<1> SUFFICES ASSUME Init PROVE BufferOK /\ Queue!Init
  OBVIOUS
<1> USE DEF Init
<1>1. <<>> \in [1 .. 0 -> Value] /\ 0 \in Count
  OBVIOUS
<1>2. TypeOK
  <2>1. <<>> \in Chunk
    BY <1>1 DEF Chunk
  <2> QED  BY <2>1 DEF TypeOK, NoPointer, Result
<1>3. Contents = <<>> /\ GetSize = 0
  <2>1. elements \in [Index -> Cell] /\ 0 \in Index
    BY DEF Cell
  <2> QED  BY <2>1, EmptyContents DEF Contents, GetSize, Between
<1>4. PointerKept
  BY <1>3 DEF PointerKept, NoPointer
<1>5. Written
  BY <1>3 DEF Written
<1>6. Queue!Init
  BY <1>3 DEF Queue!Init, Queue!Result, Result
<1> QED  BY <1>2, <1>4, <1>5, <1>6 DEF BufferOK

LEMMA WriteStep ==
    ASSUME ~MayFill, BufferOK, NEW s \in Chunk, Write(s)
    PROVE  BufferOK' /\ Queue!Put(s)
<1>1. /\ Contents \in Seq(Value)
      /\ Len(Contents) = GetSize
      /\ GetSize \in Index
      /\ GetAvailable = N - GetSize
  BY ContentsValues
<1>2. s \in Seq(Value) /\ Len(s) \in Nat
  BY ChunkSeq
<1>3. CASE WriteRefused(s)
  <2>1. Contents' = Contents /\ GetSize' = GetSize
    BY <1>3, Unmoved DEF Write, WriteRefused
  <2>2. TypeOK'
    BY <1>3 DEF Write, WriteRefused, TypeOK, BufferOK, Result
  <2>3. PointerKept' /\ Written'
    BY <1>3, <2>1 DEF Write, WriteRefused, BufferOK, PointerKept, Written
  <2>4. Queue!Put(s)
    BY <1>1, <1>2, <1>3, <2>1
       DEF WriteRefused, Queue!Put, Queue!Result, Result
  <2> QED  BY <2>2, <2>3, <2>4 DEF BufferOK
<1>4. CASE WriteAccepted(s)
  <2>1. GetSize + Len(s) < N
    BY <1>1, <1>2, <1>4 DEF WriteAccepted, LeavesRoom
  <2>2. /\ Stored(s) \in [Index -> Cell]
        /\ \A k \in 1 .. GetSize :
             Stored(s)[Spot(readIndex, k)] = elements[Spot(readIndex, k)]
        /\ \A k \in 1 .. Len(s) : Stored(s)[Spot(writeIndex, k)] = s[k]
    BY <2>1, StoredPlaces DEF BufferOK
  <2>3. /\ writeIndex \in Index
        /\ readIndex \in Index
        /\ elements \in [Index -> Cell]
    BY DEF BufferOK, TypeOK, Cell
  <2>4. /\ writeIndex' \in Index
        /\ GetSize' = GetSize + Len(s)
        /\ Contents' = Contents \o s
    <3>1. /\ writeIndex' = Plus(writeIndex, Len(s))
          /\ UNCHANGED readIndex
          /\ elements' = Stored(s)
      BY <1>4 DEF WriteAccepted, Write
    <3> HIDE DEF Index
    <3> QED  BY <1>2, <2>1, <2>2, <3>1, ContentsAppend DEF BufferOK
  <2>6. TypeOK'
    BY <1>4, <2>2, <2>4
       DEF Write, WriteAccepted, TypeOK, BufferOK, Result, Cell
  <2>7. PointerKept'
    <3>1. pointer' = NoPointer
      BY DEF Write, BufferOK, TypeOK
    <3>2. GetSize' \in Index
      BY <1>1, <1>2, <2>1, <2>4
    <3> QED  BY <2>4, <3>1, <3>2, NothingLent
  <2>8. Written'
    <3>1. Contents' \in Seq(Value) /\ Len(Contents') = GetSize'
      BY <1>1, <1>2, <2>4, ConcatProperties
    <3> QED  BY <3>1, ElementOfSeq DEF Written
  <2>9. Queue!Put(s)
    BY <1>1, <1>2, <1>4, <2>1, <2>4
       DEF WriteAccepted, Queue!Put, Queue!Result, Result
  <2> QED  BY <2>6, <2>7, <2>8, <2>9 DEF BufferOK
<1> QED  BY <1>3, <1>4 DEF Write

LEMMA PeekStep ==
    ASSUME BufferOK, NEW count \in Count, Peek(count)
    PROVE  BufferOK' /\ Queue!Peek(count)
<1>1. /\ Contents \in Seq(Value)
      /\ Len(Contents) = GetSize
      /\ GetSize \in Index
  BY ContentsValues
<1>2. Contents' = Contents /\ GetSize' = GetSize
  BY Unmoved DEF Peek
<1>3. <<>> \in Chunk
  BY PrefixIsChunk, <<>> \in [1 .. 0 -> Value], 0 \in Count DEF Chunk
<1>4. ASSUME count <= GetSize
      PROVE  /\ Loaded(count) = SubSeq(Contents, 1, count)
             /\ Loaded(count) \in Chunk
  <2>1. count \in 0 .. GetSize
    BY <1>1, <1>4
  <2>2. Loaded(count) = SubSeq(Contents, 1, count)
    BY <2>1, LoadedPrefix DEF BufferOK
  <2>3. SubSeq(Contents, 1, count) \in Chunk
    BY <1>1, <1>4, PrefixIsChunk
  <2> QED  BY <2>2, <2>3
<1>5. TypeOK'
  <2>1. CASE count > GetSize
    <3>1. last' = Result("peek", FALSE, <<>>)
      BY <2>1, <1>1 DEF Peek, Result
    <3> QED  BY <3>1, <1>3, ResultOK DEF Peek, TypeOK, BufferOK
  <2>2. CASE count <= GetSize
    <3>1. last' = Result("peek", TRUE, Loaded(count))
      BY <2>2, <1>1 DEF Peek, Result
    <3>2. Loaded(count) \in Chunk
      BY <2>2, <1>4
    <3> QED  BY <3>1, <3>2, ResultOK DEF Peek, TypeOK, BufferOK
  <2> QED  BY <1>1, <2>1, <2>2
<1>6. PointerKept' /\ Written'
  BY <1>2 DEF Peek, BufferOK, PointerKept, Written
<1>7. Queue!Peek(count)
  <2>1. CASE count <= GetSize
    <3>1. last'.data = Loaded(count) /\ last' = Result("peek", TRUE, last'.data)
      BY <1>1, <2>1 DEF Peek, Result
    <3>2. last'.data = SubSeq(Contents, 1, count)
      BY <3>1, <1>4, <2>1
    <3> QED  BY <1>1, <1>2, <2>1, <3>1, <3>2 DEF Queue!Peek, Queue!Result, Result
  <2>2. CASE count > GetSize
    BY <1>1, <1>2, <2>2 DEF Peek, Queue!Peek, Queue!Result, Result
  <2> QED  BY <1>1, <2>1, <2>2
<1> QED  BY <1>5, <1>6, <1>7 DEF BufferOK

\* Moving the read index takes the oldest elements away and keeps the rest.
LEMMA ContentsDrop ==
    ASSUME BufferOK, NEW count \in Count, count <= GetSize,
           readIndex' = Plus(readIndex, count),
           UNCHANGED <<writeIndex, elements, pointer>>
    PROVE  /\ readIndex' \in Index
           /\ Contents' = SubSeq(Contents, count + 1, Len(Contents))
           /\ PointerKept'
           /\ Written'
<1>1. /\ Contents \in Seq(Value)
      /\ Len(Contents) = GetSize
      /\ GetSize \in Index
  BY ContentsValues
<1>2. /\ writeIndex \in Index
      /\ readIndex \in Index
      /\ elements \in [Index -> Cell]
      /\ GetSize = Minus(writeIndex, readIndex)
      /\ Contents = Between(writeIndex, readIndex, elements)
  BY ContentsSeq DEF BufferOK, TypeOK, Cell
<1>3. count \in 0 .. Minus(writeIndex, readIndex)
  BY <1>1, <1>2
<1>4. /\ readIndex' \in Index
      /\ Minus(writeIndex, readIndex') = GetSize - count
      /\ Between(writeIndex, readIndex', elements)
           = SubSeq(Contents, count + 1, GetSize)
  <2> HIDE DEF Index
  <2> QED  BY <1>2, <1>3, BetweenDrop
<1>5. /\ Contents' = SubSeq(Contents, count + 1, Len(Contents))
      /\ GetSize' = GetSize - count
  BY <1>1, <1>4 DEF Contents, GetSize, Between
<1>6. PointerKept'
  <2>1. Len(pointer.data) \in Nat
    BY ChunkSeq DEF BufferOK, TypeOK
  <2> QED  BY <1>1, <1>5, <2>1 DEF BufferOK, PointerKept
<1>7. Written'
  <2>1. \A k \in count + 1 .. Len(Contents) : Contents[k] \in Value
    BY <1>1, ElementOfSeq
  <2>2. /\ Contents' \in Seq(Value)
        /\ Len(Contents') = GetSize'
    BY <1>1, <1>5, <2>1, SubSeqProperties
  <2> QED  BY <2>2, ElementOfSeq DEF Written
<1> QED  BY <1>4, <1>5, <1>6, <1>7

LEMMA EmptyIsChunk == <<>> \in Chunk
  BY <<>> \in [1 .. 0 -> Value], 0 \in Count DEF Chunk

LEMMA ReadStep ==
    ASSUME BufferOK, NEW count \in Count, Read(count)
    PROVE  BufferOK' /\ Queue!Get(count)
<1>1. /\ Contents \in Seq(Value)
      /\ Len(Contents) = GetSize
      /\ GetSize \in Index
  BY ContentsValues
<1>2. CASE count > GetSize
  <2>1. last' = Result("read", FALSE, <<>>) /\ UNCHANGED readIndex
    BY <1>1, <1>2 DEF Read, Result
  <2>2. Contents' = Contents /\ GetSize' = GetSize
    BY <2>1, Unmoved DEF Read
  <2>3. TypeOK'
    BY <2>1, EmptyIsChunk, ResultOK DEF Read, TypeOK, BufferOK
  <2>4. PointerKept' /\ Written'
    BY <2>1, <2>2 DEF Read, BufferOK, PointerKept, Written
  <2>5. Queue!Get(count)
    BY <1>1, <1>2, <2>1, <2>2 DEF Queue!Get, Queue!Result, Result
  <2> QED  BY <2>3, <2>4, <2>5 DEF BufferOK
<1>3. CASE count <= GetSize
  <2>1. /\ last' = Result("read", TRUE, Loaded(count))
        /\ readIndex' = Plus(readIndex, count)
        /\ UNCHANGED <<writeIndex, elements, pointer>>
    BY <1>1, <1>3 DEF Read, Result
  <2>2. /\ readIndex' \in Index
        /\ Contents' = SubSeq(Contents, count + 1, Len(Contents))
        /\ PointerKept'
        /\ Written'
    BY <1>3, <2>1, ContentsDrop
  <2>3. Loaded(count) = SubSeq(Contents, 1, count)
    BY <1>1, <1>3, LoadedPrefix DEF BufferOK
  <2>4. Loaded(count) \in Chunk
    BY <1>1, <1>3, <2>3, PrefixIsChunk
  <2>5. TypeOK'
    BY <2>1, <2>2, <2>4, ResultOK DEF TypeOK, BufferOK
  <2>6. Queue!Get(count)
    BY <1>1, <1>3, <2>1, <2>2, <2>3 DEF Queue!Get, Queue!Result, Result
  <2> QED  BY <2>2, <2>5, <2>6 DEF BufferOK
<1> QED  BY <1>1, <1>2, <1>3

LEMMA RemoveStep ==
    ASSUME BufferOK, NEW count \in Count, Remove(count)
    PROVE  BufferOK' /\ Queue!Drop(count)
<1>1. Len(Contents) = GetSize
  BY ContentsValues
<1>2. /\ readIndex' \in Index
      /\ Contents' = SubSeq(Contents, count + 1, Len(Contents))
      /\ PointerKept'
      /\ Written'
  BY ContentsDrop DEF Remove
<1>3. TypeOK'
  BY <1>2, EmptyIsChunk, ResultOK DEF Remove, TypeOK, BufferOK
<1>4. Queue!Drop(count)
  BY <1>1, <1>2 DEF Remove, Queue!Drop, Queue!Result, Result
<1> QED  BY <1>2, <1>3, <1>4 DEF BufferOK

LEMMA ResetStep ==
    ASSUME BufferOK, Reset
    PROVE  BufferOK' /\ Queue!Clear
<1>1. elements \in [Index -> Cell] /\ 0 \in Index
  BY DEF BufferOK, TypeOK, Cell
<1>2. Contents' = <<>> /\ GetSize' = 0
  BY <1>1, EmptyContents DEF Reset, Contents, GetSize, Between
<1>3. TypeOK'
  BY <1>1, EmptyIsChunk, ResultOK DEF Reset, TypeOK, BufferOK
<1>4. PointerKept'
  <2>1. pointer' = NoPointer
    BY DEF Reset, BufferOK, TypeOK
  <2>2. writeIndex' \in Index /\ GetSize' \in Index
    BY <1>1, <1>2 DEF Reset
  <2> QED  BY <2>1, <2>2, NothingLent
<1>5. Written'
  BY <1>2 DEF Written
<1>6. Queue!Clear
  BY <1>2 DEF Reset, Queue!Clear, Queue!Result, Result
<1> QED  BY <1>3, <1>4, <1>5, <1>6 DEF BufferOK

\* FrontElement is the oldest element, BackElement the newest.
LEMMA EndElements ==
    ASSUME BufferOK
    PROVE  /\ IsEmpty <=> Contents = <<>>
           /\ ~IsEmpty => /\ FrontElement = Contents[1]
                          /\ BackElement = Contents[Len(Contents)]
                          /\ FrontElement \in Value
                          /\ BackElement \in Value
<1>1. /\ writeIndex \in Index
      /\ readIndex \in Index
      /\ GetSize \in Index
      /\ Contents \in Seq(Value)
      /\ Len(Contents) = GetSize
      /\ \A k \in 1 .. GetSize : Contents[k] = elements[Spot(readIndex, k)]
  BY ContentsSeq, ContentsValues DEF BufferOK, TypeOK
<1>2. GetSize = IF writeIndex >= readIndex THEN writeIndex - readIndex
                ELSE writeIndex - readIndex + N
  BY <1>1, MinusValue DEF GetSize
<1>3. IsEmpty <=> Len(Contents) = 0
  BY <1>1, <1>2 DEF IsEmpty
<1>4. ASSUME ~IsEmpty
      PROVE  /\ FrontElement = Contents[1]
             /\ BackElement = Contents[Len(Contents)]
             /\ FrontElement \in Value
             /\ BackElement \in Value
  <2>1. GetSize >= 1 /\ 1 \in 1 .. GetSize /\ GetSize \in 1 .. GetSize /\ N > 1
    BY <1>1, <1>3, <1>4
  <2>2. Spot(readIndex, 1) = readIndex
    BY <1>1 DEF Spot
  <2>3. FrontElement = Contents[1]
    BY <1>1, <2>1, <2>2 DEF FrontElement
  <2>4. Wrap(1) = 1
    BY <2>1, WrapOnce DEF Wrap
  <2>5. Minus(writeIndex, 1) = IF writeIndex >= 1 THEN writeIndex - 1
                               ELSE writeIndex - 1 + N
    <3>1. 1 \in Index
      BY <2>1
    <3> HIDE DEF Index
    <3> QED  BY <1>1, <3>1, MinusValue
  <2>6. Spot(readIndex, GetSize) = Minus(writeIndex, 1)
    BY <1>1, <1>2, <2>1, <2>5 DEF Spot
  <2>7. BackElement = Contents[Len(Contents)]
    BY <1>1, <2>1, <2>4, <2>6 DEF BackElement
  <2> QED  BY <1>1, <2>1, <2>3, <2>7, ElementOfSeq
<1> QED  BY <1>1, <1>3, <1>4

LEMMA LookStep ==
    ASSUME BufferOK,
           \/ Look("front", FrontElement)
           \/ Look("back", BackElement)
    PROVE  /\ BufferOK'
           /\ Queue!Look("front", 1) \/ Queue!Look("back", Len(Contents))
<1>1. Contents' = Contents /\ GetSize' = GetSize
  BY Unmoved DEF Look
<1>2. PointerKept' /\ Written'
  BY <1>1 DEF Look, BufferOK, PointerKept, Written
<1>3. ASSUME NEW element, NEW op \in {"front", "back"}, NEW k,
             ~IsEmpty => element \in Value /\ element = Contents[k],
             Look(op, element)
      PROVE  TypeOK' /\ Queue!Look(op, k)
  <2>1. CASE IsEmpty
    <3>1. last' = Result(op, FALSE, <<>>)
      BY <1>3, <2>1 DEF Look
    <3>2. TypeOK'
      BY <1>3, <3>1, EmptyIsChunk, ResultOK DEF Look, TypeOK, BufferOK
    <3>3. Queue!Look(op, k)
      BY <1>1, <2>1, <3>1, EndElements DEF Queue!Look, Queue!Result, Result
    <3> QED  BY <3>2, <3>3
  <2>2. CASE ~IsEmpty
    <3>1. last' = Result(op, TRUE, <<element>>)
      BY <1>3, <2>2 DEF Look
    <3>2. <<element>> \in [1 .. 1 -> Value]
      BY <1>3, <2>2
    <3>3. TypeOK'
      BY <1>3, <3>1, <3>2, ResultOK DEF Look, TypeOK, BufferOK
    <3>4. Queue!Look(op, k)
      BY <1>1, <1>3, <2>2, <3>1, EndElements DEF Queue!Look, Queue!Result, Result
    <3> QED  BY <3>3, <3>4
  <2> QED  BY <2>1, <2>2
<1>4. CASE Look("front", FrontElement)
  BY <1>2, <1>3, <1>4, EndElements DEF BufferOK
<1>5. CASE Look("back", BackElement)
  BY <1>2, <1>3, <1>5, EndElements DEF BufferOK
<1> QED  BY <1>4, <1>5

LEMMA MakePointerStep ==
    ASSUME BufferOK, MakePointer
    PROVE  BufferOK' /\ UNCHANGED <<Contents, last>>
<1>1. Contents' = Contents /\ GetSize' = GetSize
  BY Unmoved DEF MakePointer
<1>2. pointer' = [open |-> TRUE, data |-> <<>>, count |-> 0, writeCount |-> 0]
  BY DEF MakePointer, NoPointer
<1>3. TypeOK'
  BY <1>2, EmptyIsChunk DEF MakePointer, BufferOK, TypeOK
<1>4. PointerKept'
  <2>1. pointer = NoPointer
    BY DEF MakePointer, BufferOK, TypeOK
  <2>2. pointer'.data = pointer.data /\ pointer'.count = pointer'.writeCount
    BY <2>1, <1>2 DEF NoPointer
  <2> QED  BY <1>1, <2>2 DEF MakePointer, BufferOK, PointerKept
<1>5. Written'
  BY <1>1 DEF BufferOK, Written
<1> QED  BY <1>1, <1>3, <1>4, <1>5 DEF BufferOK, MakePointer

\* What is stored through the pointer is not readable before it is committed.
LEMMA FillStep ==
    ASSUME ~MayFill, BufferOK, NEW s \in Chunk, FillPointer(s)
    PROVE  BufferOK' /\ UNCHANGED <<Contents, last>>
<1>1. /\ GetSize \in Index
      /\ GetAvailable = N - GetSize
      /\ Contents \in Seq(Value)
      /\ Len(Contents) = GetSize
  BY ContentsValues
<1>2. s \in Seq(Value) /\ Len(s) \in Nat /\ \A k \in 1 .. Len(s) : s[k] \in Cell
  BY ChunkSeq, ElementOfSeq DEF Cell
<1>3. /\ writeIndex \in Index
      /\ readIndex \in Index
      /\ elements \in [Index -> Cell]
      /\ \A k \in 1 .. GetSize : Contents[k] = elements[Spot(readIndex, k)]
      /\ Contents = Between(writeIndex, readIndex, elements)
      /\ GetSize = Minus(writeIndex, readIndex)
  BY ContentsSeq DEF BufferOK, TypeOK, Cell
<1>4. GetSize + Len(s) < N /\ writeIndex + Len(s) <= N
  BY <1>1, <1>2, <1>3
     DEF FillPointer, LeavesRoom, GetWritableSize, Least
<1>5. elements' = [i \in Index |->
                     IF i \in writeIndex .. writeIndex + Len(s) - 1
                       THEN s[i - writeIndex + 1]
                       ELSE elements[i]]
  BY DEF FillPointer
<1>6. elements' \in [Index -> Cell]
  <2>1. \A i \in writeIndex .. writeIndex + Len(s) - 1 : s[i - writeIndex + 1] \in Cell
    <3> TAKE i \in writeIndex .. writeIndex + Len(s) - 1
    <3>1. i - writeIndex + 1 \in 1 .. Len(s)
      BY <1>2, <1>3
    <3> QED  BY <3>1, <1>2
  <2> QED  BY <2>1, <1>3, <1>5
<1>7. ASSUME NEW k \in 1 .. GetSize
      PROVE  elements'[Spot(readIndex, k)] = elements[Spot(readIndex, k)]
  <2> DEFINE i == Spot(readIndex, k)
  <2>1. GetSize = IF writeIndex >= readIndex THEN writeIndex - readIndex
                  ELSE writeIndex - readIndex + N
    BY <1>3, MinusValue
  <2>2. i \in Index /\ i \notin writeIndex .. writeIndex + Len(s) - 1
    BY <1>1, <1>2, <1>3, <1>4, <2>1 DEF Spot
  <2> HIDE DEF i
  <2>3. elements'[i] = elements[i]
    BY <2>2, <1>5
  <2> QED  BY <2>3 DEF i
<1>8. \A k \in 1 .. Len(s) : elements'[writeIndex + k - 1] = s[k]
  BY <1>2, <1>3, <1>4, <1>5
<1>9. UNCHANGED <<writeIndex, readIndex, last>>
  BY DEF FillPointer
<1>10. GetSize' = GetSize
  BY <1>9 DEF GetSize
<1>11. Contents' = Contents
  <2>1. /\ Contents' = Between(writeIndex, readIndex, elements')
        /\ Contents' \in Seq(Cell)
        /\ Len(Contents') = GetSize
        /\ \A k \in 1 .. GetSize : Contents'[k] = elements'[Spot(readIndex, k)]
    <3>1. Contents' = Between(writeIndex, readIndex, elements')
      BY <1>9 DEF Contents, GetSize, Between
    <3> HIDE DEF Index
    <3> QED  BY <3>1, <1>3, <1>6, BetweenSeq
  <2>2. Contents \in Seq(Cell)
    BY ContentsSeq DEF BufferOK
  <2>3. \A k \in 1 .. GetSize : Contents'[k] = Contents[k]
    BY <2>1, <1>3, <1>7
  <2> QED  BY <1>1, <2>1, <2>2, <2>3, SeqEqual
<1>12. pointer' = [open |-> TRUE, data |-> s, count |-> 0,
                   writeCount |-> pointer.writeCount]
  BY DEF FillPointer, BufferOK, TypeOK
<1>13. pointer.writeCount = 0
  BY DEF FillPointer, BufferOK, PointerKept
<1>14. TypeOK'
  BY <1>2, <1>6, <1>9, <1>12 DEF BufferOK, TypeOK, Cell
<1>15. PointerKept'
  BY <1>4, <1>8, <1>9, <1>10, <1>12, <1>13 DEF PointerKept
<1>16. Written'
  BY <1>10, <1>11 DEF BufferOK, Written
<1> QED  BY <1>9, <1>11, <1>14, <1>15, <1>16 DEF BufferOK

LEMMA SetWriteCountStep ==
    ASSUME BufferOK, NEW count \in Count, SetWriteCount(count)
    PROVE  BufferOK' /\ UNCHANGED <<Contents, last>>
<1>1. Contents' = Contents /\ GetSize' = GetSize
  BY Unmoved DEF SetWriteCount
<1>2. GetSize \in Index /\ Len(pointer.data) \in Nat
  BY ContentsValues, ChunkSeq DEF BufferOK, TypeOK
<1>3. Wrap(count) = count /\ count \in Index
  <2>1. count \in 0 .. N - 1
    BY <1>2 DEF SetWriteCount, BufferOK, PointerKept
  <2> QED  BY <2>1, WrapOnce DEF Wrap
<1>4. pointer' = [open |-> TRUE, data |-> pointer.data, count |-> count,
                  writeCount |-> count]
  BY <1>3 DEF SetWriteCount, BufferOK, TypeOK
<1>5. TypeOK'
  <2>1. pointer.data \in Chunk /\ count <= Len(pointer.data)
    BY DEF SetWriteCount, BufferOK, TypeOK
  <2>2. pointer' \in [open : BOOLEAN, data : Chunk, count : Count,
                      writeCount : Index]
    BY <1>3, <1>4, <2>1
  <2>3. pointer'.count <= Len(pointer'.data) /\ pointer'.open
    BY <1>4, <2>1
  <2> QED  BY <2>2, <2>3 DEF SetWriteCount, BufferOK, TypeOK
<1>6. PointerKept'
  <2>1. pointer'.data = pointer.data /\ pointer'.writeCount = pointer'.count
    BY <1>4
  <2> QED  BY <1>1, <2>1 DEF SetWriteCount, BufferOK, PointerKept
<1>7. Written'
  BY <1>1 DEF BufferOK, Written
<1> QED  BY <1>1, <1>5, <1>6, <1>7 DEF BufferOK, SetWriteCount

\* The destructor of AsPointer appends what was committed.
LEMMA DestroyStep ==
    ASSUME BufferOK, DestroyPointer
    PROVE  BufferOK' /\ \E s \in Chunk : Queue!Put(s)
<1> DEFINE s == SubSeq(pointer.data, 1, pointer.count)
<1>1. /\ GetSize \in Index
      /\ Contents \in Seq(Value)
      /\ Len(Contents) = GetSize
  BY ContentsValues
<1>2. /\ writeIndex \in Index
      /\ readIndex \in Index
      /\ elements \in [Index -> Cell]
      /\ pointer.data \in Seq(Value)
      /\ Len(pointer.data) \in Nat
      /\ pointer.count \in Count
      /\ pointer.count <= Len(pointer.data)
      /\ pointer.writeCount = pointer.count
      /\ writeIndex + Len(pointer.data) <= N
      /\ GetSize + Len(pointer.data) < N
      /\ \A k \in 1 .. Len(pointer.data) :
           elements[writeIndex + k - 1] = pointer.data[k]
  BY ChunkSeq DEF BufferOK, TypeOK, PointerKept, Cell
<1>3. /\ s \in Chunk
      /\ s \in Seq(Value)
      /\ Len(s) = pointer.count
      /\ \A k \in 1 .. pointer.count : s[k] = pointer.data[k]
  <2>1. s \in Chunk /\ Len(s) = pointer.count
    BY <1>2, PrefixIsChunk
  <2>2. \A k \in 1 .. pointer.count : pointer.data[k] \in Value
    BY <1>2, ElementOfSeq
  <2>3. \A k \in 1 .. pointer.count : s[k] = pointer.data[k]
    BY <1>2, <2>2, SubSeqProperties
  <2>4. s \in Seq(Value)
    BY <2>1, ChunkSeq
  <2> QED  BY <2>1, <2>3, <2>4
<1>4. last' = Result("write", TRUE, s)
  BY DEF DestroyPointer, CommitPointer
<1> HIDE DEF s
<1>5. writeIndex' = Plus(writeIndex, Len(s))
  <2>1. CASE pointer.writeCount > 0
    BY <1>2, <1>3, <2>1 DEF DestroyPointer, CommitPointer
  <2>2. CASE ~(pointer.writeCount > 0)
    <3>1. pointer.count = 0 /\ writeIndex' = writeIndex
      BY <1>2, <2>2 DEF DestroyPointer, CommitPointer
    <3>2. Plus(writeIndex, 0) = writeIndex
      BY <1>2, PlusValue
    <3> QED  BY <3>1, <3>2, <1>3
  <2> QED  BY <2>1, <2>2
<1>6. UNCHANGED <<readIndex, elements>> /\ pointer' = NoPointer
  BY DEF DestroyPointer
<1>7. GetSize + Len(s) < N
  BY <1>1, <1>2, <1>3
<1>8. \A k \in 1 .. Len(s) : elements'[Spot(writeIndex, k)] = s[k]
  BY <1>2, <1>3, <1>6 DEF Spot
<1>9. /\ writeIndex' \in Index
      /\ GetSize' = GetSize + Len(s)
      /\ Contents' = Contents \o s
  <2>1. TypeOK /\ elements' \in [Index -> Cell] /\ elements' = elements
    BY <1>2, <1>6 DEF BufferOK
  <2> HIDE DEF Index
  <2> QED  BY <1>3, <1>5, <1>6, <1>7, <1>8, <2>1, ContentsAppend
<1>10. TypeOK'
  <2>1. pointer' \in [open : BOOLEAN, data : Chunk, count : Count,
                      writeCount : Index]
    BY <1>6, EmptyIsChunk DEF NoPointer
  <2>2. pointer'.count <= Len(pointer'.data)
    BY <1>6 DEF NoPointer
  <2> QED  BY <1>3, <1>4, <1>6, <1>9, <2>1, <2>2, ResultOK DEF BufferOK, TypeOK
<1>11. PointerKept'
  <2>1. GetSize' \in Index
    BY <1>1, <1>3, <1>2, <1>7, <1>9
  <2> QED  BY <2>1, <1>6, <1>9, NothingLent
<1>12. Written'
  <2>1. Contents' \in Seq(Value) /\ Len(Contents') = GetSize'
    BY <1>1, <1>3, <1>9, ConcatProperties
  <2> QED  BY <2>1, ElementOfSeq DEF Written
<1>13. Queue!Put(s)
  BY <1>1, <1>2, <1>3, <1>4, <1>7, <1>9 DEF Queue!Put, Queue!Result, Result
<1> QED  BY <1>3, <1>10, <1>11, <1>12, <1>13 DEF BufferOK

-----------------------------------------------------------------------------
(* The theorems *)

LEMMA StepOK ==
    ASSUME ~MayFill, BufferOK, [Next]_vars
    PROVE  BufferOK' /\ [Queue!Next]_<<Contents, last>>
<1> USE DEF Queue!Next
<1>1. ASSUME NEW s \in Chunk, Write(s)
      PROVE  BufferOK' /\ [Queue!Next]_<<Contents, last>>
  BY <1>1, WriteStep
<1>2. ASSUME NEW s \in Chunk, FillPointer(s)
      PROVE  BufferOK' /\ [Queue!Next]_<<Contents, last>>
  BY <1>2, FillStep
<1>3. ASSUME NEW count \in Count, Peek(count) \/ Read(count) \/ Remove(count)
      PROVE  BufferOK' /\ [Queue!Next]_<<Contents, last>>
  <2>1. PICK s \in Chunk : Len(s) = count
    <3>1. PICK v \in Value : TRUE
      OBVIOUS
    <3> DEFINE t == [k \in 1 .. count |-> v]
    <3>2. t \in [1 .. count -> Value] /\ Len(t) = count
      OBVIOUS
    <3>3. t \in Chunk
      BY <3>2 DEF Chunk
    <3> QED  BY <3>2, <3>3
  <2> QED  BY <1>3, <2>1, PeekStep, ReadStep, RemoveStep
<1>4. CASE Reset
  BY <1>4, ResetStep
<1>5. CASE Look("front", FrontElement) \/ Look("back", BackElement)
  BY <1>5, LookStep
<1>6. CASE MakePointer
  BY <1>6, MakePointerStep
<1>7. ASSUME NEW count \in Count, SetWriteCount(count)
      PROVE  BufferOK' /\ [Queue!Next]_<<Contents, last>>
  BY <1>7, SetWriteCountStep
<1>8. CASE DestroyPointer
  BY <1>8, DestroyStep
<1>9. CASE UNCHANGED vars
  <2>1. Contents' = Contents /\ GetSize' = GetSize
    BY <1>9, Unmoved DEF vars
  <2> QED  BY <1>9, <2>1 DEF vars, BufferOK, TypeOK, PointerKept, Written
<1> QED  BY <1>1, <1>2, <1>3, <1>4, <1>5, <1>6, <1>7, <1>8, <1>9 DEF Next

\* The invariant of the buffer: indexes in range, AsPointer's space untouched,
\* and nothing readable that nobody wrote.
THEOREM BufferCorrect ==
    ASSUME ~MayFill
    PROVE  Spec => []BufferOK
<1>1. BufferOK /\ [Next]_vars => BufferOK'
  BY StepOK
<1> QED  BY <1>1, InitOK, PTL DEF Spec

\* The indexes, the elements and the lent pointer keep their types.
THEOREM BufferTyped ==
    ASSUME ~MayFill
    PROVE  Spec => []TypeOK
<1>1. BufferOK => TypeOK
  BY DEF BufferOK
<1> QED  BY <1>1, BufferCorrect, PTL

\* What is stored through AsPointer is kept until it is committed.
THEOREM PointerSafe ==
    ASSUME ~MayFill
    PROVE  Spec => []PointerKept
<1>1. BufferOK => PointerKept
  BY DEF BufferOK
<1> QED  BY <1>1, BufferCorrect, PTL

\* For every N, whatever is written, read, removed and lent, the buffer is a
\* FIFO of N elements to callers that leave its last place free.
THEOREM BufferIsFifo ==
    ASSUME ~MayFill
    PROVE  Spec => ImplementsFifo
<1>1. Init => Queue!Init
  BY InitOK
<1>2. BufferOK /\ [Next]_vars => [Queue!Next]_<<Contents, last>>
  BY StepOK
<1> QED  BY <1>1, <1>2, BufferCorrect, PTL DEF Spec, ImplementsFifo, Queue!Spec
=============================================================================
