--------------------------- MODULE HuffmanProofs ---------------------------
(***************************************************************************)
(* An Expander writes the text that was compressed, however it is asked.   *)
(***************************************************************************)
EXTENDS CoderUtilities, SequenceProofs

Bit == {0, 1}

-----------------------------------------------------------------------------
(* Codes *)

\* Two ways in the tree part.
Apart(way, other) == \E k \in DOMAIN way \cap DOMAIN other : way[k] # other[k]

Code == [value : Letter, turns : Seq(Bit)]

\* What holds of the codes in a node: no way to a letter begins like another.
CodesOK(codes) ==
    /\ codes \in Seq(Code) /\ codes # <<>>
    /\ \A i \in 1 .. Len(codes) : Len(codes[i].turns) < Len(codes)
    /\ \A i, j \in 1 .. Len(codes) : i # j =>
            /\ codes[i].value # codes[j].value
            /\ Apart(codes[i].turns, codes[j].turns)

Values(codes) == {codes[i].value : i \in 1 .. Len(codes)}

\* What Below makes of the codes of a node.
IsBelow(turn, codes, below) ==
    /\ below \in Seq(Code) /\ Len(below) = Len(codes)
    /\ \A i \in 1 .. Len(codes) :
        /\ below[i].value = codes[i].value
        /\ Len(below[i].turns) = Len(codes[i].turns) + 1
        /\ below[i].turns[1] = turn
    /\ \A i, j \in 1 .. Len(codes) : i # j =>
            Apart(below[i].turns, below[j].turns)

LEMMA BelowOK ==
    ASSUME NEW codes, CodesOK(codes), NEW turn \in Bit
    PROVE  IsBelow(turn, codes, H!Below(turn, codes))
<1>1. PICK below, N : below = H!Below(turn, codes) /\ N = Len(codes)
  OBVIOUS
<1>2. /\ codes \in Seq(Code) /\ N \in Nat /\ DOMAIN codes = 1 .. N
      /\ \A i \in 1 .. N : codes[i] \in Code
  BY <1>1 DEF CodesOK
<1>3. \A i \in 1 .. N :
        /\ codes[i].value \in Letter /\ codes[i].turns \in Seq(Bit)
        /\ Before(Bit, turn, codes[i].turns, <<turn>> \o codes[i].turns)
  <2> TAKE i \in 1 .. N
  <2>1. codes[i].value \in Letter /\ codes[i].turns \in Seq(Bit)
    BY <1>2 DEF Code
  <2> QED  BY <2>1, OneBefore
<1>4. below = [i \in 1 .. N |->
                [value |-> codes[i].value, turns |-> <<turn>> \o codes[i].turns]]
  BY <1>1, <1>2 DEF H!Below
<1>5. \A i \in 1 .. N :
        /\ below[i] \in Code
        /\ below[i].value = codes[i].value
        /\ Before(Bit, turn, codes[i].turns, below[i].turns)
  <2> TAKE i \in 1 .. N
  <2>1. PICK way : way = <<turn>> \o codes[i].turns
    OBVIOUS
  <2>2. below[i] = [value |-> codes[i].value, turns |-> way]
    BY <1>4, <2>1
  <2>3. Before(Bit, turn, codes[i].turns, way)
    BY <1>3, <2>1
  <2>4. way \in Seq(Bit)
    BY <2>3 DEF Before
  <2> QED  BY <1>3, <2>2, <2>3, <2>4 DEF Code
<1>6. below \in Seq(Code) /\ Len(below) = N
  <2>1. DOMAIN below = 1 .. N /\ below = [i \in 1 .. N |-> below[i]]
    BY <1>4
  <2>2. below \in [1 .. N -> Code]
    BY <1>5, <2>1
  <2> QED  BY <1>2, <2>2
<1>7. ASSUME NEW i \in 1 .. N, NEW j \in 1 .. N, i # j
      PROVE  Apart(below[i].turns, below[j].turns)
  <2>1. PICK a, b, p, q :
            /\ a = codes[i].turns /\ b = codes[j].turns
            /\ p = below[i].turns /\ q = below[j].turns
    OBVIOUS
  <2>2. Apart(a, b)
    BY <1>1, <1>7, <2>1 DEF CodesOK
  <2>3. PICK k \in DOMAIN a \cap DOMAIN b : a[k] # b[k]
    BY <2>2 DEF Apart
  <2>4. a \in Seq(Bit) /\ b \in Seq(Bit) /\ Before(Bit, turn, a, p) /\ Before(Bit, turn, b, q)
    BY <1>3, <1>5, <2>1
  <2>5. /\ p \in Seq(Bit) /\ q \in Seq(Bit)
        /\ Len(a) \in Nat /\ Len(b) \in Nat
        /\ Len(p) = Len(a) + 1 /\ Len(q) = Len(b) + 1
        /\ \A n \in 2 .. Len(a) + 1 : p[n] = a[n - 1]
        /\ \A n \in 2 .. Len(b) + 1 : q[n] = b[n - 1]
    BY <2>4 DEF Before
  <2>6. k \in 1 .. Len(a) /\ k \in 1 .. Len(b)
    BY <2>3, <2>4
  <2>7. k + 1 \in 2 .. Len(a) + 1 /\ k + 1 \in 2 .. Len(b) + 1 /\ (k + 1) - 1 = k
    BY <2>5, <2>6
  <2>8. p[k + 1] = a[k] /\ q[k + 1] = b[k]
    BY <2>5, <2>7
  <2>9. k + 1 \in DOMAIN p /\ k + 1 \in DOMAIN q
    BY <2>5, <2>7
  <2> QED  BY <2>1, <2>3, <2>8, <2>9 DEF Apart
<1>8. \A i \in 1 .. N :
        Len(below[i].turns) = Len(codes[i].turns) + 1 /\ below[i].turns[1] = turn
  BY <1>5 DEF Before
<1> QED  BY <1>1, <1>5, <1>6, <1>7, <1>8 DEF IsBelow

\* One sequence behind the other.
Behind(Items, s, t, both) ==
    /\ both \in Seq(Items) /\ Len(both) = Len(s) + Len(t)
    /\ \A i \in 1 .. Len(s) : both[i] = s[i]
    /\ \A i \in 1 .. Len(t) : both[Len(s) + i] = t[i]

LEMMA Concatenated ==
    ASSUME NEW Items, NEW s \in Seq(Items), NEW t \in Seq(Items)
    PROVE  Behind(Items, s, t, s \o t)
<1>1. PICK both, M, N : both = s \o t /\ M = Len(s) /\ N = Len(t)
  OBVIOUS
<1>2. /\ both \in Seq(Items) /\ Len(both) = M + N
      /\ \A i \in 1 .. M + N : both[i] = IF i <= M THEN s[i] ELSE t[i - M]
  BY <1>1, ConcatProperties
<1>3. M \in Nat /\ N \in Nat
  BY <1>1
<1>4. ASSUME NEW i \in 1 .. M PROVE both[i] = s[i]
  <2>1. i \in 1 .. M + N /\ i <= M
    BY <1>3
  <2> QED  BY <1>2, <2>1
<1>5. ASSUME NEW i \in 1 .. N PROVE both[M + i] = t[i]
  <2>1. M + i \in 1 .. M + N /\ ~(M + i <= M) /\ (M + i) - M = i
    BY <1>3
  <2> QED  BY <1>2, <2>1
<1> QED  BY <1>1, <1>2, <1>4, <1>5 DEF Behind

\* An index in both is one in the first or one in the second.
LEMMA InEither ==
    ASSUME NEW M \in Nat, NEW N \in Nat, NEW i \in 1 .. M + N
    PROVE  i \in 1 .. M \/ \E k \in 1 .. N : i = M + k
<1>1. i \in 1 .. M \/ (i - M \in 1 .. N /\ i = M + (i - M))
  OBVIOUS
<1> QED  BY <1>1

\* Codes that begin with different turns part there.
LEMMA SidesApart ==
    ASSUME NEW left, CodesOK(left), NEW a, IsBelow(0, left, a),
           NEW right, CodesOK(right), NEW b, IsBelow(1, right, b),
           NEW i \in 1 .. Len(left), NEW j \in 1 .. Len(right)
    PROVE  Apart(a[i].turns, b[j].turns) /\ Apart(b[j].turns, a[i].turns)
<1>1. PICK p, q, c, d : /\ p = a[i].turns /\ q = b[j].turns
                        /\ c = left[i].turns /\ d = right[j].turns
  OBVIOUS
<1>2. c \in Seq(Bit) /\ d \in Seq(Bit)
  <2>1. left[i] \in Code /\ right[j] \in Code
    <3>1. left \in Seq(Code) /\ right \in Seq(Code)
      BY DEF CodesOK
    <3> QED  BY <3>1
  <2> QED  BY <1>1, <2>1 DEF Code
<1>3. /\ Len(p) = Len(c) + 1 /\ p[1] = 0 /\ p \in Seq(Bit)
      /\ Len(q) = Len(d) + 1 /\ q[1] = 1 /\ q \in Seq(Bit)
  <2>1. /\ a \in Seq(Code) /\ b \in Seq(Code)
        /\ Len(a) = Len(left) /\ Len(b) = Len(right)
    BY DEF IsBelow
  <2>2. a[i] \in Code /\ b[j] \in Code
    BY <2>1
  <2>3. p \in Seq(Bit) /\ q \in Seq(Bit)
    BY <1>1, <2>2 DEF Code
  <2>4. Len(p) = Len(c) + 1 /\ p[1] = 0
    BY <1>1 DEF IsBelow
  <2>5. Len(q) = Len(d) + 1 /\ q[1] = 1
    BY <1>1 DEF IsBelow
  <2> QED  BY <2>3, <2>4, <2>5
<1>4. 1 \in DOMAIN p /\ 1 \in DOMAIN q
  BY <1>2, <1>3
<1> QED  BY <1>1, <1>3, <1>4 DEF Apart

\* The codes below a node part there, or go the same way first.
LEMMA InnerOK ==
    ASSUME NEW left, CodesOK(left), NEW a, IsBelow(0, left, a),
           NEW right, CodesOK(right), NEW b, IsBelow(1, right, b),
           \A v \in Values(left) : v \notin Values(right),
           NEW codes, Behind(Code, a, b, codes)
    PROVE  CodesOK(codes)
<1>1. PICK M, N : M = Len(left) /\ N = Len(right)
  OBVIOUS
<1>2. M \in Nat \ {0} /\ N \in Nat \ {0}
  BY <1>1 DEF CodesOK
<1>3. /\ codes \in Seq(Code) /\ Len(codes) = M + N /\ codes # <<>>
      /\ \A i \in 1 .. M : codes[i] = a[i]
      /\ \A i \in 1 .. N : codes[M + i] = b[i]
  BY <1>1, <1>2 DEF Behind, IsBelow
<1>4. \A i \in 1 .. M : Len(left[i].turns) \in Nat
  <2>1. \A i \in 1 .. M : left[i] \in Code
    BY <1>1 DEF CodesOK
  <2> QED  BY <2>1 DEF Code
<1>5. \A i \in 1 .. N : Len(right[i].turns) \in Nat
  <2>1. \A i \in 1 .. N : right[i] \in Code
    BY <1>1 DEF CodesOK
  <2> QED  BY <2>1 DEF Code
<1>6. ASSUME NEW i \in 1 .. M + N PROVE Len(codes[i].turns) < M + N
  <2>1. CASE i \in 1 .. M
    <3>1. Len(codes[i].turns) = Len(left[i].turns) + 1
      BY <1>1, <1>3, <2>1 DEF IsBelow
    <3>2. Len(left[i].turns) < M
      BY <1>1, <2>1 DEF CodesOK
    <3> QED  BY <1>2, <1>4, <2>1, <3>1, <3>2
  <2>2. ASSUME NEW k \in 1 .. N, i = M + k PROVE Len(codes[i].turns) < M + N
    <3>1. Len(codes[i].turns) = Len(right[k].turns) + 1
      BY <1>1, <1>3, <2>2 DEF IsBelow
    <3>2. Len(right[k].turns) < N
      BY <1>1, <2>2 DEF CodesOK
    <3> QED  BY <1>2, <1>5, <2>2, <3>1, <3>2
  <2> QED  BY <1>2, <2>1, <2>2, InEither
<1>7. ASSUME NEW i \in 1 .. M, NEW j \in 1 .. N
      PROVE  /\ codes[i].value # codes[M + j].value
             /\ Apart(codes[i].turns, codes[M + j].turns)
             /\ Apart(codes[M + j].turns, codes[i].turns)
  <2>1. codes[i] = a[i] /\ codes[M + j] = b[j]
    BY <1>3
  <2>2. a[i].value = left[i].value /\ b[j].value = right[j].value
    BY <1>1 DEF IsBelow
  <2>3. left[i].value \in Values(left) /\ right[j].value \in Values(right)
    BY <1>1 DEF Values
  <2>4. Apart(a[i].turns, b[j].turns) /\ Apart(b[j].turns, a[i].turns)
    BY <1>1, SidesApart
  <2> QED  BY <2>1, <2>2, <2>3, <2>4
<1>8. ASSUME NEW i \in 1 .. M, NEW j \in 1 .. M, i # j
      PROVE  codes[i].value # codes[j].value /\ Apart(codes[i].turns, codes[j].turns)
  <2>1. a[i].value = left[i].value /\ a[j].value = left[j].value
    BY <1>1 DEF IsBelow
  <2>2. Apart(a[i].turns, a[j].turns)
    BY <1>1, <1>8 DEF IsBelow
  <2>3. left[i].value # left[j].value
    BY <1>1, <1>8 DEF CodesOK
  <2> QED  BY <1>3, <2>1, <2>2, <2>3
<1>9. ASSUME NEW i \in 1 .. N, NEW j \in 1 .. N, i # j
      PROVE  /\ codes[M + i].value # codes[M + j].value
             /\ Apart(codes[M + i].turns, codes[M + j].turns)
  <2>1. b[i].value = right[i].value /\ b[j].value = right[j].value
    BY <1>1 DEF IsBelow
  <2>2. Apart(b[i].turns, b[j].turns)
    BY <1>1, <1>9 DEF IsBelow
  <2>3. right[i].value # right[j].value
    BY <1>1, <1>9 DEF CodesOK
  <2> QED  BY <1>3, <2>1, <2>2, <2>3
<1>10. ASSUME NEW i \in 1 .. M + N, NEW j \in 1 .. M + N, i # j
       PROVE  codes[i].value # codes[j].value /\ Apart(codes[i].turns, codes[j].turns)
  <2>1. i \in 1 .. M \/ \E k \in 1 .. N : i = M + k
    BY <1>2, InEither
  <2>2. j \in 1 .. M \/ \E k \in 1 .. N : j = M + k
    BY <1>2, InEither
  <2> QED  BY <1>7, <1>8, <1>9, <1>10, <2>1, <2>2
<1> QED  BY <1>3, <1>6, <1>10 DEF CodesOK

\* No letter is lost or invented below a node.
LEMMA InnerValues ==
    ASSUME NEW left, CodesOK(left), NEW a, IsBelow(0, left, a),
           NEW right, CodesOK(right), NEW b, IsBelow(1, right, b),
           NEW codes, Behind(Code, a, b, codes)
    PROVE  Values(codes) = Values(left) \cup Values(right)
<1>1. PICK M, N : M = Len(left) /\ N = Len(right)
  OBVIOUS
<1>2. M \in Nat \ {0} /\ N \in Nat \ {0}
  BY <1>1 DEF CodesOK
<1>3. /\ Len(codes) = M + N
      /\ \A i \in 1 .. M : codes[i] = a[i]
      /\ \A i \in 1 .. N : codes[M + i] = b[i]
  BY <1>1 DEF Behind, IsBelow
<1>4. \A i \in 1 .. M : codes[i].value = left[i].value
  BY <1>1, <1>3 DEF IsBelow
<1>5. \A i \in 1 .. N : codes[M + i].value = right[i].value
  BY <1>1, <1>3 DEF IsBelow
<1>6. ASSUME NEW v \in Values(codes) PROVE v \in Values(left) \cup Values(right)
  <2>1. PICK i \in 1 .. M + N : v = codes[i].value
    BY <1>3 DEF Values
  <2>2. CASE i \in 1 .. M
    BY <1>1, <1>4, <2>1, <2>2 DEF Values
  <2>3. ASSUME NEW k \in 1 .. N, i = M + k PROVE v \in Values(right)
    BY <1>1, <1>5, <2>1, <2>3 DEF Values
  <2> QED  BY <1>2, <2>2, <2>3, InEither
<1>7. ASSUME NEW v \in Values(left) PROVE v \in Values(codes)
  <2>1. PICK i \in 1 .. M : v = left[i].value
    BY <1>1 DEF Values
  <2>2. i \in 1 .. M + N
    BY <1>2
  <2> QED  BY <1>3, <1>4, <2>1, <2>2 DEF Values
<1>8. ASSUME NEW v \in Values(right) PROVE v \in Values(codes)
  <2>1. PICK i \in 1 .. N : v = right[i].value
    BY <1>1 DEF Values
  <2>2. M + i \in 1 .. M + N
    BY <1>2
  <2> QED  BY <1>3, <1>5, <2>1, <2>2 DEF Values
<1> QED  BY <1>6, <1>7, <1>8

-----------------------------------------------------------------------------
(* The tree *)

Node == [frequency : Nat, creationIndex : Nat, codes : Seq(Code)]

\* Two nodes have no letter in common, and one is before the other.
Separate(a, b) ==
    /\ \A v \in Values(a.codes) : v \notin Values(b.codes)
    /\ H!IsLeaf(a) \/ a.creationIndex # b.creationIndex

\* The nodes after n were merged, of a text with these letters.
Forest(nodes, n, letters) ==
    /\ nodes \in SUBSET Node /\ IsFiniteSet(nodes)
    /\ Cardinality(nodes) + n = Cardinality(letters)
    /\ \A a \in nodes : CodesOK(a.codes) /\ a.creationIndex <= n
    /\ \A a, b \in nodes : a # b => Separate(a, b)
    /\ \A a \in nodes : Values(a.codes) \subseteq letters
    /\ \A v \in letters : \E a \in nodes : v \in Values(a.codes)

\* Letters are integers, at least CHAR_MIN.
Low(low) == low \in Int /\ \A v \in Letter : v \in Int /\ v >= low

\* Of some nodes one is before all the others.
LEMMA FirstOf ==
    ASSUME NEW low, Low(low), NEW n \in Nat, NEW letters, NEW forest, Forest(forest, n, letters),
           NEW nodes \in SUBSET forest, nodes # {}
    PROVE  H!First(nodes) \in nodes
<1>1. \A a \in nodes : /\ a.frequency \in Nat /\ a.creationIndex \in Nat
                       /\ CodesOK(a.codes)
  BY DEF Forest, Node
<1>2. \A a, b \in nodes : a # b => Separate(a, b)
  BY DEF Forest
<1>3. \A a \in nodes : a.codes[1].value \in Letter /\ a.codes[1].value \in Values(a.codes)
  <2> TAKE a \in nodes
  <2>1. PICK codes : codes = a.codes
    OBVIOUS
  <2>2. codes \in Seq(Code) /\ codes # <<>>
    BY <1>1, <2>1 DEF CodesOK
  <2>3. 1 \in 1 .. Len(codes)
    BY <2>2
  <2>4. codes[1] \in Code
    BY <2>2, <2>3
  <2> QED  BY <2>1, <2>3, <2>4 DEF Values, Code
<1>4. PICK f \in Nat : /\ \E a \in nodes : a.frequency = f
                       /\ \A a \in nodes : f <= a.frequency
  <2> DEFINE S == {a.frequency : a \in nodes}
  <2>1. S \in SUBSET Nat /\ S # {}
    BY <1>1
  <2>2. PICK f \in S : \A g \in S : f <= g
    <3> HIDE DEF S
    <3> QED  BY <2>1, LeastElement
  <2> QED  BY <2>1, <2>2
<1> DEFINE IsFirst(a) == \A b \in nodes \ {a} : H!Less(a, b)
<1>5. CASE \E a \in nodes : a.frequency = f /\ H!IsLeaf(a)
  <2> DEFINE L == {a \in nodes : a.frequency = f /\ H!IsLeaf(a)}
             S == {a.codes[1].value - low : a \in L}
  <2>1. S \in SUBSET Nat /\ S # {}
    <3>1. \A a \in L : a.codes[1].value - low \in Nat
      BY <1>3 DEF Low
    <3>2. L # {}
      BY <1>5
    <3> QED  BY <3>1, <3>2
  <2>2. PICK v \in S : \A w \in S : v <= w
    <3> HIDE DEF S
    <3> QED  BY <2>1, LeastElement
  <2>3. PICK a \in L : v = a.codes[1].value - low
    BY <2>2
  <2>4. \A b \in L : a.codes[1].value - low <= b.codes[1].value - low
    BY <2>2, <2>3
  <2>5. ASSUME NEW b \in nodes, b # a PROVE H!Less(a, b)
    <3>1. a \in nodes /\ a.frequency = f /\ H!IsLeaf(a)
      BY <2>3
    <3>2. CASE b.frequency # f
      <4>1. f <= b.frequency /\ b.frequency \in Nat
        BY <1>1, <1>4
      <4>2. a.frequency < b.frequency
        BY <3>1, <3>2, <4>1
      <4> QED  BY <3>1, <3>2, <4>2 DEF H!Less
    <3>3. CASE b.frequency = f /\ ~H!IsLeaf(b)
      BY <3>1, <3>3 DEF H!Less
    <3>4. CASE b.frequency = f /\ H!IsLeaf(b)
      <4>1. a.codes[1].value - low <= b.codes[1].value - low
        BY <2>4, <3>4
      <4>2. a.codes[1].value # b.codes[1].value
        BY <1>2, <1>3, <2>5, <3>1 DEF Separate
      <4>3. a.codes[1].value \in Int /\ b.codes[1].value \in Int /\ low \in Int
        BY <1>3, <3>1 DEF Low
      <4>4. a.codes[1].value < b.codes[1].value
        BY <4>1, <4>2, <4>3
      <4> QED  BY <3>1, <3>4, <4>4 DEF H!Less
    <3> QED  BY <3>2, <3>3, <3>4
  <2>6. a \in nodes /\ IsFirst(a)
    BY <2>3, <2>5
  <2> HIDE DEF IsFirst
  <2>7. \E c \in nodes : IsFirst(c)
    BY <2>6
  <2> QED  BY <2>7 DEF H!First, IsFirst
<1>6. CASE ~ \E a \in nodes : a.frequency = f /\ H!IsLeaf(a)
  <2> DEFINE L == {a \in nodes : a.frequency = f}
             S == {a.creationIndex : a \in L}
  <2>1. S \in SUBSET Nat /\ S # {}
    BY <1>1, <1>4
  <2>2. PICK v \in S : \A w \in S : v <= w
    <3> HIDE DEF S
    <3> QED  BY <2>1, LeastElement
  <2>3. PICK a \in L : v = a.creationIndex
    BY <2>2
  <2>4. \A b \in L : a.creationIndex <= b.creationIndex
    BY <2>2, <2>3
  <2>5. ASSUME NEW b \in nodes, b # a PROVE H!Less(a, b)
    <3>1. a \in nodes /\ a.frequency = f /\ ~H!IsLeaf(a)
      BY <1>6, <2>3
    <3>2. CASE b.frequency # f
      <4>1. f <= b.frequency /\ b.frequency \in Nat
        BY <1>1, <1>4
      <4>2. a.frequency < b.frequency
        BY <3>1, <3>2, <4>1
      <4> QED  BY <3>1, <3>2, <4>2 DEF H!Less
    <3>3. CASE b.frequency = f
      <4>1. ~H!IsLeaf(b)
        BY <1>6, <3>3
      <4>2. a.creationIndex <= b.creationIndex
        BY <2>4, <3>3
      <4>3. a.creationIndex # b.creationIndex
        BY <1>2, <2>5, <3>1 DEF Separate
      <4>4. a.creationIndex \in Nat /\ b.creationIndex \in Nat
        BY <1>1, <3>1
      <4>5. a.creationIndex < b.creationIndex
        BY <4>2, <4>3, <4>4
      <4> QED  BY <3>1, <3>3, <4>1, <4>5 DEF H!Less, H!IsLeaf
    <3> QED  BY <3>2, <3>3
  <2>6. a \in nodes /\ IsFirst(a)
    BY <2>3, <2>5
  <2> HIDE DEF IsFirst
  <2>7. \E c \in nodes : IsFirst(c)
    BY <2>6
  <2> QED  BY <2>7 DEF H!First, IsFirst
<1> QED  BY <1>5, <1>6

LEMMA SameNumber == \A S : H!Cardinality(S) = Cardinality(S)
BY DEF H!Cardinality, Cardinality, H!IsFiniteSet, IsFiniteSet

\* The leaf of a letter.
LEMMA LeafOK ==
    ASSUME NEW t \in Seq(Letter), NEW v \in H!Range(t)
    PROVE  /\ H!Leaf(t, v) \in Node /\ H!IsLeaf(H!Leaf(t, v))
           /\ CodesOK(H!Leaf(t, v).codes) /\ Values(H!Leaf(t, v).codes) = {v}
<1>1. PICK codes, frequency, leaf :
            /\ codes = <<[value |-> v, turns |-> <<>>]>>
            /\ frequency = Cardinality({i \in DOMAIN t : t[i] = v})
            /\ leaf = [frequency |-> frequency, creationIndex |-> 0, codes |-> codes]
  OBVIOUS
<1>2. leaf = H!Leaf(t, v)
  BY <1>1, SameNumber DEF H!Leaf
<1>3. v \in Letter
  <2>1. PICK i \in DOMAIN t : v = t[i]
    BY DEF H!Range
  <2> QED  BY <2>1
<1>4. frequency \in Nat
  <2>1. IsFiniteSet(1 .. Len(t)) /\ DOMAIN t = 1 .. Len(t)
    BY FS_Interval
  <2>2. IsFiniteSet({i \in DOMAIN t : t[i] = v})
    BY <2>1, FS_Subset
  <2> QED  BY <1>1, <2>2, FS_CardinalityType
<1>5. /\ codes \in Seq(Code) /\ codes # <<>> /\ Len(codes) = 1
      /\ codes[1].value = v /\ codes[1].turns = <<>>
  <2>1. PICK code : code = [value |-> v, turns |-> <<>>]
    OBVIOUS
  <2>2. code \in Code /\ code.value = v /\ code.turns = <<>>
    BY <1>3, <2>1 DEF Code
  <2>3. codes = <<code>>
    BY <1>1, <2>1
  <2> QED  BY <2>2, <2>3
<1>6. CodesOK(codes)
  <2>1. \A i \in 1 .. Len(codes) : i = 1
    BY <1>5
  <2>2. Len(codes[1].turns) = 0
    BY <1>5
  <2> QED  BY <1>5, <2>1, <2>2 DEF CodesOK
<1>7. Values(codes) = {v}
  BY <1>5 DEF Values
<1>8. leaf \in Node /\ leaf.codes = codes /\ leaf.creationIndex = 0
  BY <1>1, <1>4, <1>5 DEF Node
<1> QED  BY <1>2, <1>6, <1>7, <1>8 DEF H!IsLeaf

LEMMA LeavesOK ==
    ASSUME NEW t \in Seq(Letter), IsFiniteSet(H!Range(t)),
           NEW nodes, nodes = {H!Leaf(t, v) : v \in H!Range(t)}
    PROVE  Forest(nodes, 0, H!Range(t))
<1>1. \A v \in H!Range(t) :
        /\ H!Leaf(t, v) \in Node /\ H!IsLeaf(H!Leaf(t, v))
        /\ CodesOK(H!Leaf(t, v).codes) /\ Values(H!Leaf(t, v).codes) = {v}
  BY LeafOK
<1>2. PICK leafOf : leafOf = [v \in H!Range(t) |-> H!Leaf(t, v)]
  OBVIOUS
<1>3. /\ nodes = {leafOf[v] : v \in H!Range(t)}
      /\ \A v \in H!Range(t) :
            /\ leafOf[v] \in Node /\ H!IsLeaf(leafOf[v])
            /\ CodesOK(leafOf[v].codes) /\ Values(leafOf[v].codes) = {v}
  BY <1>1, <1>2
<1>4. ExistsBijection(H!Range(t), nodes)
  <2>1. leafOf \in [H!Range(t) -> nodes]
    BY <1>2
  <2>2. \A v, w \in H!Range(t) : leafOf[v] = leafOf[w] => v = w
    BY <1>3
  <2>3. leafOf \in Bijection(H!Range(t), nodes)
    BY <1>3, <2>1, <2>2 DEF Bijection, Injection, Surjection, IsInjective
  <2> QED  BY <2>3 DEF ExistsBijection
<1>5. IsFiniteSet(nodes) /\ Cardinality(nodes) = Cardinality(H!Range(t))
      /\ Cardinality(nodes) \in Nat
  BY <1>4, FS_Bijection, FS_CardinalityType
<1>6. \A a \in nodes : /\ a \in Node /\ CodesOK(a.codes) /\ a.creationIndex = 0
                       /\ \E v \in H!Range(t) : a = leafOf[v] /\ Values(a.codes) = {v}
  BY <1>3 DEF H!IsLeaf
<1>7. ASSUME NEW a \in nodes, NEW b \in nodes, a # b PROVE Separate(a, b)
  <2>1. PICK v \in H!Range(t) : a = leafOf[v] /\ Values(a.codes) = {v}
    BY <1>6
  <2>2. PICK w \in H!Range(t) : b = leafOf[w] /\ Values(b.codes) = {w}
    BY <1>6
  <2>3. v # w
    BY <1>7, <2>1, <2>2
  <2>4. H!IsLeaf(a)
    BY <1>3, <2>1
  <2> QED  BY <2>1, <2>2, <2>3, <2>4 DEF Separate
<1>8. \A v \in H!Range(t) : \E a \in nodes : v \in Values(a.codes)
  BY <1>3
<1>9. \A a \in nodes : Values(a.codes) \subseteq H!Range(t)
  BY <1>6
<1>10. nodes \in SUBSET Node /\ Cardinality(nodes) + 0 = Cardinality(H!Range(t))
  BY <1>5, <1>6
<1>11. \A a \in nodes : CodesOK(a.codes) /\ a.creationIndex <= 0
  BY <1>6
<1> QED  BY <1>5, <1>7, <1>8, <1>9, <1>10, <1>11 DEF Forest

LEMMA MergedOK ==
    ASSUME NEW low, Low(low), NEW n \in Nat, NEW letters,
           NEW nodes, Forest(nodes, n, letters), Cardinality(nodes) > 1
    PROVE  Forest(H!Merged(nodes, n + 1), n + 1, letters)
<1>1. PICK left, right, inner, others :
            /\ left = H!First(nodes) /\ right = H!First(nodes \ {left})
            /\ inner = H!Inner(left, right, n + 1)
            /\ others = nodes \ {left, right}
  OBVIOUS
<1>2. /\ nodes \in SUBSET Node /\ IsFiniteSet(nodes)
      /\ Cardinality(nodes) + n = Cardinality(letters)
      /\ \A a \in nodes : CodesOK(a.codes) /\ a.creationIndex <= n
      /\ \A a, b \in nodes : a # b => Separate(a, b)
      /\ \A a \in nodes : Values(a.codes) \subseteq letters
      /\ \A v \in letters : \E a \in nodes : v \in Values(a.codes)
  BY DEF Forest
<1>3. Cardinality(nodes) \in Nat
  BY <1>2, FS_CardinalityType
<1>4. left \in nodes
  <2>1. nodes # {}
    BY <1>2, FS_EmptySet
  <2> QED  BY <1>1, <2>1, FirstOf
<1>5. right \in nodes /\ right # left
  <2>1. IsFiniteSet(nodes \ {left}) /\ Cardinality(nodes \ {left}) = Cardinality(nodes) - 1
    BY <1>2, <1>4, FS_RemoveElement
  <2>2. nodes \ {left} # {}
    BY <1>3, <2>1, FS_EmptySet
  <2>3. nodes \ {left} \in SUBSET nodes
    OBVIOUS
  <2>4. H!First(nodes \ {left}) \in nodes \ {left}
    BY <2>2, <2>3, FirstOf
  <2> QED  BY <1>1, <2>4
<1>6. IsFiniteSet(others) /\ Cardinality(others) = Cardinality(nodes) - 2
  <2>1. IsFiniteSet(nodes \ {left}) /\ Cardinality(nodes \ {left}) = Cardinality(nodes) - 1
    BY <1>2, <1>4, FS_RemoveElement
  <2>2. right \in nodes \ {left}
    BY <1>5
  <2>3. /\ IsFiniteSet((nodes \ {left}) \ {right})
        /\ Cardinality((nodes \ {left}) \ {right}) = Cardinality(nodes \ {left}) - 1
    BY <2>1, <2>2, FS_RemoveElement
  <2>4. (nodes \ {left}) \ {right} = others
    BY <1>1
  <2>5. Cardinality(nodes) - 1 - 1 = Cardinality(nodes) - 2
    BY <1>3
  <2> QED  BY <2>1, <2>3, <2>4, <2>5
<1>7. CodesOK(left.codes) /\ CodesOK(right.codes) /\ Separate(left, right)
  BY <1>2, <1>4, <1>5
<1>8. CodesOK(inner.codes) /\ Values(inner.codes) = Values(left.codes) \cup Values(right.codes)
  <2>1. PICK p, q, a, b, codes : /\ p = left.codes /\ q = right.codes
                           /\ a = H!Below(0, p) /\ b = H!Below(1, q) /\ codes = a \o b
    OBVIOUS
  <2>2. IsBelow(0, p, a) /\ IsBelow(1, q, b) /\ CodesOK(p) /\ CodesOK(q)
    BY <1>7, <2>1, BelowOK DEF Bit
  <2>3. Behind(Code, a, b, codes)
    <3>1. a \in Seq(Code) /\ b \in Seq(Code)
      BY <2>2 DEF IsBelow
    <3> QED  BY <2>1, <3>1, Concatenated
  <2>4. \A v \in Values(p) : v \notin Values(q)
    BY <1>7, <2>1 DEF Separate
  <2>5. CodesOK(codes)
    BY <2>2, <2>3, <2>4, InnerOK
  <2>6. Values(codes) = Values(p) \cup Values(q)
    BY <2>2, <2>3, InnerValues
  <2>7. inner.codes = codes
    BY <1>1, <2>1 DEF H!Inner
  <2> QED  BY <2>1, <2>5, <2>6, <2>7
<1>9. inner \in Node /\ inner.creationIndex = n + 1 /\ ~H!IsLeaf(inner)
  <2>1. inner.codes \in Seq(Code)
    BY <1>8 DEF CodesOK
  <2>2. left.frequency \in Nat /\ right.frequency \in Nat
    BY <1>2, <1>4, <1>5 DEF Node
  <2>3. PICK codes : codes = inner.codes
    OBVIOUS
  <2>4. inner = [frequency |-> left.frequency + right.frequency,
                 creationIndex |-> n + 1, codes |-> codes]
    BY <1>1, <2>3 DEF H!Inner
  <2>5. left.frequency + right.frequency \in Nat /\ n + 1 \in Nat /\ n + 1 # 0
    BY <2>2
  <2> QED  BY <2>1, <2>3, <2>4, <2>5 DEF Node, H!IsLeaf
<1>10. \A a \in nodes : a.creationIndex \in Nat
  BY <1>2 DEF Node
<1>11. inner \notin nodes
  BY <1>2, <1>9, <1>10
<1>12. PICK merged : merged = others \cup {inner}
  OBVIOUS
<1>13. merged = H!Merged(nodes, n + 1)
  BY <1>1, <1>12 DEF H!Merged
<1>14. IsFiniteSet(merged) /\ Cardinality(merged) + (n + 1) = Cardinality(letters)
  <2>1. inner \notin others
    BY <1>1, <1>11
  <2>2. IsFiniteSet(merged) /\ Cardinality(merged) = Cardinality(others) + 1
    BY <1>6, <1>12, <2>1, FS_AddElement
  <2> QED  BY <1>2, <1>3, <1>6, <2>2
<1>15. \A a \in merged : a \in Node /\ CodesOK(a.codes) /\ a.creationIndex <= n + 1
  <2>1. \A a \in others : a \in nodes
    BY <1>1
  <2>2. \A a \in others : a \in Node /\ CodesOK(a.codes) /\ a.creationIndex <= n + 1
    BY <1>2, <1>10, <2>1
  <2> QED  BY <1>8, <1>9, <1>12, <2>2
<1>16. ASSUME NEW a \in others PROVE Separate(a, inner) /\ Separate(inner, a)
  <2>1. a \in nodes /\ a # left /\ a # right
    BY <1>1
  <2>2. /\ Separate(a, left) /\ Separate(a, right)
        /\ Separate(left, a) /\ Separate(right, a)
    BY <1>2, <1>4, <1>5, <2>1
  <2>3. \A v \in Values(a.codes) : v \notin Values(inner.codes)
    BY <1>8, <2>2 DEF Separate
  <2>4. \A v \in Values(inner.codes) : v \notin Values(a.codes)
    BY <2>3
  <2>5. a.creationIndex # inner.creationIndex
    BY <1>2, <1>9, <1>10, <2>1
  <2> QED  BY <2>3, <2>4, <2>5 DEF Separate
<1>17. \A a, b \in merged : a # b => Separate(a, b)
  <2>1. \A a, b \in others : a # b => Separate(a, b)
    BY <1>1, <1>2
  <2> QED  BY <1>12, <1>16, <2>1
<1>18. \A a \in merged : Values(a.codes) \subseteq letters
  <2>1. \A a \in others : Values(a.codes) \subseteq letters
    BY <1>1, <1>2
  <2>2. Values(inner.codes) \subseteq letters
    BY <1>2, <1>4, <1>5, <1>8
  <2> QED  BY <1>12, <2>1, <2>2
<1>19. ASSUME NEW v \in letters PROVE \E a \in merged : v \in Values(a.codes)
  <2>1. PICK a \in nodes : v \in Values(a.codes)
    BY <1>2
  <2>2. CASE a = left \/ a = right
    BY <1>8, <1>12, <2>1, <2>2
  <2>3. CASE a \in others
    BY <1>12, <2>1, <2>3
  <2> QED  BY <1>1, <2>1, <2>2, <2>3
<1> QED  BY <1>13, <1>14, <1>15, <1>17, <1>18, <1>19 DEF Forest

\* The nodes after each merge, as far as the one before is as it should be.
Growing(f, N, nodes, letters) ==
    /\ f[0] = nodes
    /\ \A n \in 1 .. N : Forest(f[n - 1], n - 1, letters) => f[n] = H!Merged(f[n - 1], n)

LEMMA ForestGrows ==
    ASSUME NEW low, Low(low), NEW letters, NEW N \in Nat, Cardinality(letters) = N + 1,
           NEW nodes, Forest(nodes, 0, letters), NEW f, Growing(f, N, nodes, letters)
    PROVE  \A n \in 0 .. N : Forest(f[n], n, letters)
<1> DEFINE Bad == {n \in 0 .. N : ~Forest(f[n], n, letters)}
<1>1. ASSUME Bad # {} PROVE FALSE
  <2>1. Bad \in SUBSET Nat
    OBVIOUS
  <2>2. PICK n \in Bad : \A m \in Bad : n <= m
    <3> HIDE DEF Bad
    <3> QED  BY <1>1, <2>1, LeastElement
  <2>3. n # 0
    BY <2>2 DEF Growing
  <2>4. n \in 1 .. N /\ n - 1 \in 0 .. N /\ n - 1 \in Nat /\ ~(n <= n - 1) /\ (n - 1) + 1 = n
    BY <2>2, <2>3
  <2>5. Forest(f[n - 1], n - 1, letters)
    BY <2>2, <2>4
  <2>6. f[n] = H!Merged(f[n - 1], n)
    BY <2>4, <2>5 DEF Growing
  <2>7. Cardinality(f[n - 1]) > 1
    <3>1. IsFiniteSet(f[n - 1]) /\ Cardinality(f[n - 1]) + (n - 1) = N + 1
      BY <2>5 DEF Forest
    <3>2. Cardinality(f[n - 1]) \in Nat
      BY <3>1, FS_CardinalityType
    <3> QED  BY <2>4, <3>1, <3>2
  <2>8. PICK before, m : before = f[n - 1] /\ m = n - 1
    OBVIOUS
  <2>9. Forest(H!Merged(before, m + 1), m + 1, letters)
    BY <2>4, <2>5, <2>7, <2>8, MergedOK
  <2> QED  BY <2>2, <2>4, <2>6, <2>8, <2>9
<1> QED  BY <1>1

\* The tree has the letters of the text and no others.
LEMMA TreeOK ==
    ASSUME NEW low, Low(low), NEW t \in Seq(Letter), t # <<>>, IsFiniteSet(H!Range(t))
    PROVE  CodesOK(H!BuildTree(t).codes) /\ Values(H!BuildTree(t).codes) = H!Range(t)
<1>1. PICK letters, leaf, N :
            /\ letters = H!Range(t) /\ leaf = {H!Leaf(t, v) : v \in H!Range(t)}
            /\ N = Cardinality(leaf) - 1
  OBVIOUS
<1>2. Forest(leaf, 0, letters)
  BY <1>1, LeavesOK
<1>3. N \in Nat /\ Cardinality(letters) = N + 1
  <2>1. t[1] \in letters
    BY <1>1 DEF H!Range
  <2>2. Cardinality(letters) \in Nat /\ Cardinality(letters) # 0
    BY <1>1, <2>1, FS_EmptySet, FS_CardinalityType
  <2>3. IsFiniteSet(leaf) /\ Cardinality(leaf) + 0 = Cardinality(letters)
    BY <1>2 DEF Forest
  <2>4. Cardinality(leaf) \in Nat
    BY <2>3, FS_CardinalityType
  <2> QED  BY <1>1, <2>2, <2>3, <2>4
<1> DEFINE step == [p \in (1 .. N) \X (SUBSET Node) |->
                        IF H!Merged(p[2], p[1]) \in SUBSET Node THEN H!Merged(p[2], p[1]) ELSE {}]
           Goes(f) == f = [n \in 0 .. N |-> IF n = 0 THEN leaf ELSE H!Merged(f[n - 1], n)]
           nodes == CHOOSE f : Goes(f)
<1>4. \E f : Goes(f)
  <2>1. PICK Terms : Terms = SUBSET Node
    OBVIOUS
  <2>2. leaf \in Terms /\ step \in [(1 .. N) \X Terms -> Terms]
    BY <1>2, <2>1 DEF Forest
  <2>3. \A n \in 1 .. N, a \in Terms :
            H!Merged(a, n) \in SUBSET Node => step[<<n, a>>] = H!Merged(a, n)
    BY <2>1
  <2> HIDE DEF step
  <2>4. PICK f : Recurs(f, N, Terms, leaf, step)
    BY <1>3, <2>2, Recursion
  <2>5. /\ f \in [0 .. N -> Terms] /\ f[0] = leaf
        /\ \A n \in 1 .. N : f[n] = step[<<n, f[n - 1]>>]
    BY <2>4 DEF Recurs
  <2>6. \A n \in 1 .. N : n - 1 \in 0 .. N /\ n - 1 \in Nat /\ (n - 1) + 1 = n
    BY <1>3
  <2>7. ASSUME NEW n \in 1 .. N, Forest(f[n - 1], n - 1, letters)
        PROVE  f[n] = H!Merged(f[n - 1], n)
    <3>1. PICK before, m : before = f[n - 1] /\ m = n - 1
      OBVIOUS
    <3>2. Cardinality(before) > 1
      <4>1. IsFiniteSet(before) /\ Cardinality(before) + m = N + 1
        BY <1>3, <2>7, <3>1 DEF Forest
      <4>2. Cardinality(before) \in Nat
        BY <4>1, FS_CardinalityType
      <4> QED  BY <1>3, <3>1, <4>1, <4>2
    <3>3. Forest(H!Merged(before, m + 1), m + 1, letters)
      BY <2>6, <2>7, <3>1, <3>2, MergedOK
    <3>4. H!Merged(before, n) \in SUBSET Node
      BY <2>6, <3>1, <3>3 DEF Forest
    <3>5. before \in Terms
      BY <2>5, <2>6, <3>1
    <3> QED  BY <2>3, <2>5, <3>1, <3>4, <3>5
  <2>8. Growing(f, N, leaf, letters)
    BY <2>5, <2>7 DEF Growing
  <2>9. \A n \in 0 .. N : Forest(f[n], n, letters)
    BY <1>2, <1>3, <2>8, ForestGrows
  <2>10. \A n \in 1 .. N : f[n] = H!Merged(f[n - 1], n)
    BY <2>6, <2>7, <2>9
  <2>11. f = [n \in 0 .. N |-> f[n]]
    BY <2>5
  <2>12. \A n \in 0 .. N : f[n] = IF n = 0 THEN leaf ELSE H!Merged(f[n - 1], n)
    BY <1>3, <2>5, <2>10
  <2> QED  BY <2>11, <2>12
<1>5. Goes(nodes)
  <2> HIDE DEF Goes
  <2> QED  BY <1>4
<1>6. H!BuildTree(t) = H!First(nodes[N])
  BY <1>1, SameNumber DEF H!BuildTree
<1> HIDE DEF nodes
<1>7. Growing(nodes, N, leaf, letters)
  <2>1. \A n \in 0 .. N : nodes[n] = IF n = 0 THEN leaf ELSE H!Merged(nodes[n - 1], n)
    BY <1>5
  <2>2. \A n \in 1 .. N : n \in 0 .. N /\ n # 0
    BY <1>3
  <2>3. 0 \in 0 .. N
    BY <1>3
  <2> QED  BY <2>1, <2>2, <2>3 DEF Growing
<1>8. PICK last, root : last = nodes[N] /\ root = H!First(last)
  OBVIOUS
<1>9. Forest(last, N, letters)
  <2>1. N \in 0 .. N
    BY <1>3
  <2> QED  BY <1>2, <1>3, <1>7, <1>8, <2>1, ForestGrows
<1>10. IsFiniteSet(last) /\ Cardinality(last) = 1
  <2>1. IsFiniteSet(last) /\ Cardinality(last) + N = N + 1
    BY <1>3, <1>9 DEF Forest
  <2>2. Cardinality(last) \in Nat
    BY <2>1, FS_CardinalityType
  <2> QED  BY <1>3, <2>1, <2>2
<1>11. root \in last
  <2>1. last # {}
    BY <1>10, FS_EmptySet
  <2> QED  BY <1>3, <1>8, <1>9, <2>1, FirstOf
<1>12. \A a \in last : a = root
  BY <1>10, <1>11, FS_Singleton
<1>13. CodesOK(root.codes) /\ Values(root.codes) = letters
  BY <1>9, <1>11, <1>12 DEF Forest
<1> QED  BY <1>1, <1>6, <1>8, <1>13

-----------------------------------------------------------------------------
(* Bytes *)

LEMMA FlattenIs == \A seqs : H!FlattenSeq(seqs) = Str!FlattenSeq(seqs)
BY DEF H!FlattenSeq, Str!FlattenSeq

\* Bits that begin with these turns.
Begin(bits, turns) ==
    /\ bits \in Seq(Bit) /\ Len(turns) <= Len(bits)
    /\ \A k \in 1 .. Len(turns) : bits[k] = turns[k]

\* There are enough bytes for the turns.
LEMMA EnoughBytes ==
    ASSUME NEW B \in Nat \ {0}, NEW L \in Nat, NEW n, n = (L + B - 1) \div B
    PROVE  n \in Nat /\ L <= n * B
<1>1. PICK a, r : a = L + B - 1 /\ r = a % B
  OBVIOUS
<1>2. a \in Nat
  BY <1>1
<1>3. n \in Nat /\ r \in 0 .. B - 1 /\ a = B * n + r
  BY <1>1, <1>2
<1>4. B * n = n * B /\ B * n \in Nat
  BY <1>3
<1> QED  BY <1>1, <1>3, <1>4

\* What a turn is written as, or the zero that fills up the last byte.
Turn(turns, k) == IF k <= Len(turns) THEN turns[k] ELSE 0

LEMMA BytesOK ==
    ASSUME ByteBits \in Nat \ {0}, NEW turns \in Seq(Bit)
    PROVE  /\ H!Bytes(turns) \in Seq(Seq(Bit)) /\ Len(H!Bytes(turns)) = H!ByteCount(turns)
           /\ H!ByteCount(turns) \in Nat /\ Len(turns) <= H!ByteCount(turns) * ByteBits
           /\ \A n \in 1 .. H!ByteCount(turns) :
                /\ Len(H!Bytes(turns)[n]) = ByteBits
                /\ \A j \in 1 .. ByteBits :
                        H!Bytes(turns)[n][j] = Turn(turns, (n - 1) * ByteBits + j)
<1>1. PICK bytes, N : bytes = H!Bytes(turns) /\ N = H!ByteCount(turns)
  OBVIOUS
<1>2. N \in Nat /\ Len(turns) <= N * ByteBits
  <2>1. PICK B, L : B = ByteBits /\ L = Len(turns)
    OBVIOUS
  <2>2. B \in Nat \ {0} /\ L \in Nat /\ N = (L + B - 1) \div B
    BY <1>1, <2>1 DEF H!ByteCount
  <2>3. N \in Nat /\ L <= N * B
    BY <2>2, EnoughBytes
  <2> QED  BY <2>1, <2>3
<1>3. \A k \in Nat : k >= 1 => Turn(turns, k) \in Bit
  BY DEF Turn, Bit
<1>4. bytes = [n \in 1 .. N |-> [j \in 1 .. ByteBits |-> Turn(turns, (n - 1) * ByteBits + j)]]
  BY <1>1 DEF H!Bytes, Turn
<1>5. ASSUME NEW n \in 1 .. N
      PROVE  /\ bytes[n] \in Seq(Bit) /\ Len(bytes[n]) = ByteBits
             /\ \A j \in 1 .. ByteBits : bytes[n][j] = Turn(turns, (n - 1) * ByteBits + j)
  <2>1. PICK m, byte : m = (n - 1) * ByteBits /\ byte = bytes[n]
    OBVIOUS
  <2>2. m \in Nat
    <3>1. n - 1 \in Nat
      BY <1>2
    <3> QED  BY <2>1, <3>1
  <2>3. byte = [j \in 1 .. ByteBits |-> Turn(turns, m + j)]
    BY <1>4, <2>1
  <2>4. \A j \in 1 .. ByteBits : Turn(turns, m + j) \in Bit
    BY <1>3, <2>2
  <2>5. byte \in Seq(Bit) /\ Len(byte) = ByteBits
    BY <2>3, <2>4
  <2> QED  BY <2>1, <2>3, <2>5
<1>6. bytes \in Seq(Seq(Bit)) /\ Len(bytes) = N
  <2>1. bytes = [n \in 1 .. N |-> bytes[n]]
    BY <1>4
  <2>2. bytes \in [1 .. N -> Seq(Bit)]
    BY <1>5, <2>1
  <2> QED  BY <1>2, <2>2
<1> QED  BY <1>1, <1>2, <1>5, <1>6

\* The bits of the bytes are the turns, in their order, and zeros.
LEMMA BitsOfBytes ==
    ASSUME ByteBits \in Nat \ {0}, NEW turns \in Seq(Bit)
    PROVE  Begin(H!FlattenSeq(H!Bytes(turns)), turns)
<1>1. PICK bytes, N : bytes = H!Bytes(turns) /\ N = H!ByteCount(turns)
  OBVIOUS
<1>2. /\ bytes \in Seq(Seq(Bit)) /\ Len(bytes) = N /\ N \in Nat
      /\ Len(turns) <= N * ByteBits
      /\ \A n \in 1 .. N :
            /\ Len(bytes[n]) = ByteBits
            /\ \A j \in 1 .. ByteBits :
                    bytes[n][j] = Turn(turns, (n - 1) * ByteBits + j)
  BY <1>1, BytesOK
<1>3. PICK f : Joins(bytes, Bit, f)
  BY <1>2, JoinsExist
<1>4. /\ f \in [0 .. N -> Seq(Bit)] /\ f[0] = <<>>
      /\ \A n \in 1 .. N : f[n] = f[n - 1] \o bytes[n]
  BY <1>2, <1>3 DEF Joins
<1> DEFINE Right(n) == /\ Len(f[n]) = n * ByteBits
                       /\ \A k \in 1 .. n * ByteBits : f[n][k] = Turn(turns, k)
           Bad == {n \in 0 .. N : ~Right(n)}
<1>5. Right(0)
  BY <1>4
<1>6. ASSUME NEW n \in 1 .. N, Right(n - 1) PROVE Right(n)
  <2>1. PICK m, before, byte, both :
            /\ m = (n - 1) * ByteBits /\ before = f[n - 1] /\ byte = bytes[n]
            /\ both = before \o byte
    OBVIOUS
  <2>2. n - 1 \in 0 .. N /\ n - 1 \in Nat /\ n \in Nat
    BY <1>2
  <2>3. m \in Nat /\ n * ByteBits = m + ByteBits
    BY <2>1, <2>2
  <2>4. before \in Seq(Bit) /\ byte \in Seq(Bit)
    BY <1>2, <1>4, <2>1, <2>2
  <2>5. Behind(Bit, before, byte, both)
    BY <2>1, <2>4, Concatenated
  <2>6. /\ Len(before) = m /\ Len(byte) = ByteBits
        /\ \A k \in 1 .. m : before[k] = Turn(turns, k)
        /\ \A j \in 1 .. ByteBits : byte[j] = Turn(turns, m + j)
    BY <1>2, <1>6, <2>1
  <2>7. /\ Len(both) = m + ByteBits
        /\ \A k \in 1 .. m : both[k] = Turn(turns, k)
        /\ \A j \in 1 .. ByteBits : both[m + j] = Turn(turns, m + j)
    BY <2>5, <2>6 DEF Behind
  <2>8. ASSUME NEW k \in 1 .. m + ByteBits PROVE both[k] = Turn(turns, k)
    <3>1. k \in 1 .. m \/ \E j \in 1 .. ByteBits : k = m + j
      BY <2>3, InEither
    <3> QED  BY <2>7, <3>1
  <2>9. f[n] = both
    BY <1>4, <2>1
  <2> QED  BY <2>3, <2>7, <2>8, <2>9
<1> HIDE DEF Right
<1>7. ASSUME Bad # {} PROVE FALSE
  <2>1. Bad \in SUBSET Nat
    BY <1>2
  <2>2. PICK n \in Bad : \A m \in Bad : n <= m
    <3> HIDE DEF Bad
    <3> QED  BY <1>7, <2>1, LeastElement
  <2>3. n # 0
    BY <1>5, <2>2
  <2>4. n \in 1 .. N /\ n - 1 \in 0 .. N /\ ~(n <= n - 1)
    BY <1>2, <2>2, <2>3
  <2>5. Right(n - 1)
    BY <2>2, <2>4
  <2> QED  BY <1>6, <2>2, <2>4, <2>5
<1>8. PICK bits : bits = f[N]
  OBVIOUS
<1>9. Len(bits) = N * ByteBits /\ \A k \in 1 .. N * ByteBits : bits[k] = Turn(turns, k)
  <2>1. N \in 0 .. N
    BY <1>2
  <2>2. Right(N)
    BY <1>7, <2>1
  <2> QED  BY <1>8, <2>2 DEF Right
<1>10. bits \in Seq(Bit)
  <2>1. N \in 0 .. N
    BY <1>2
  <2> QED  BY <1>4, <1>8, <2>1
<1>11. ASSUME NEW k \in 1 .. Len(turns) PROVE bits[k] = turns[k]
  <2>1. Len(turns) \in Nat /\ N * ByteBits \in Nat
    BY <1>2
  <2>2. k \in 1 .. N * ByteBits /\ k <= Len(turns)
    BY <1>2, <2>1
  <2> QED  BY <1>9, <2>2 DEF Turn
<1>12. H!FlattenSeq(bytes) = bits
  BY <1>2, <1>3, <1>8, FlattenIs, FlattenJoins
<1> QED  BY <1>1, <1>2, <1>9, <1>10, <1>11, <1>12 DEF Begin

-----------------------------------------------------------------------------
(* What is written *)

\* What the elements of a stream are.
Item == Int \cup Seq(Bit)

\* How one more sequence is put behind the others.
Follows(seqs, f, n) ==
    /\ Len(f[n - 1]) \in Nat /\ Len(seqs[n]) \in Nat
    /\ Len(f[n]) = Len(f[n - 1]) + Len(seqs[n])
    /\ \A k \in 1 .. Len(f[n - 1]) : f[n][k] = f[n - 1][k]
    /\ \A k \in 1 .. Len(seqs[n]) : f[n][Len(f[n - 1]) + k] = seqs[n][k]

LEMMA JoinsFollow ==
    ASSUME NEW S, NEW seqs \in Seq(Seq(S)), NEW f, Joins(seqs, S, f),
           NEW n \in 1 .. Len(seqs)
    PROVE  Follows(seqs, f, n)
<1>1. PICK s, t, both : s = f[n - 1] /\ t = seqs[n] /\ both = s \o t
  OBVIOUS
<1>2. n - 1 \in 0 .. Len(seqs)
  OBVIOUS
<1>3. s \in Seq(S) /\ t \in Seq(S) /\ f[n] = both
  <2>1. f[n - 1] \in Seq(S)
    BY <1>2 DEF Joins
  <2>2. f[n] = f[n - 1] \o seqs[n]
    BY DEF Joins
  <2>3. seqs[n] \in Seq(S)
    OBVIOUS
  <2> QED  BY <1>1, <2>1, <2>2, <2>3
<1>4. Behind(S, s, t, both)
  BY <1>1, <1>3, Concatenated
<1>5. Len(s) \in Nat /\ Len(t) \in Nat
  BY <1>3
<1> QED  BY <1>1, <1>3, <1>4, <1>5 DEF Behind, Follows

\* What the first make is a part of what more of them make.
Grown(f, n, m) ==
    /\ Len(f[n]) <= Len(f[m])
    /\ \A k \in 1 .. Len(f[n]) : f[m][k] = f[n][k]

LEMMA JoinsStay ==
    ASSUME NEW S, NEW seqs \in Seq(Seq(S)), NEW f, Joins(seqs, S, f),
           NEW n \in 0 .. Len(seqs)
    PROVE  \A m \in n .. Len(seqs) : Grown(f, n, m)
<1>1. PICK N : N = Len(seqs)
  OBVIOUS
<1>2. N \in Nat /\ \A m \in 0 .. N : Len(f[m]) \in Nat
  <2>1. N \in Nat
    BY <1>1
  <2>2. ASSUME NEW m \in 0 .. N PROVE Len(f[m]) \in Nat
    <3>1. f[m] \in Seq(S)
      BY <1>1 DEF Joins
    <3> QED  BY <3>1
  <2> QED  BY <2>1, <2>2
<1> DEFINE Bad == {m \in n .. N : ~Grown(f, n, m)}
<1>3. ASSUME Bad # {} PROVE FALSE
  <2>1. Bad \in SUBSET Nat
    BY <1>1, <1>2
  <2>2. PICK m \in Bad : \A i \in Bad : m <= i
    <3> HIDE DEF Bad
    <3> QED  BY <1>3, <2>1, LeastElement
  <2>3. m # n
    <3>1. Grown(f, n, n)
      BY <1>1, <1>2 DEF Grown
    <3> QED  BY <2>2, <3>1
  <2>4. m \in 1 .. N /\ m - 1 \in n .. N /\ m - 1 \in 0 .. N /\ ~(m <= m - 1)
    BY <1>1, <1>2, <2>2, <2>3
  <2>5. Grown(f, n, m - 1)
    BY <2>2, <2>4
  <2>6. Follows(seqs, f, m)
    BY <1>1, <2>4, JoinsFollow
  <2>7. Len(f[n]) \in Nat
    BY <1>1, <1>2
  <2>8. Len(f[n]) <= Len(f[m]) /\ \A k \in 1 .. Len(f[n]) : k \in 1 .. Len(f[m - 1])
    <3>1. PICK a, b, c, d : /\ a = Len(f[n]) /\ b = Len(f[m - 1])
                            /\ c = Len(f[m]) /\ d = Len(seqs[m])
      OBVIOUS
    <3>2. a \in Nat /\ b \in Nat /\ d \in Nat /\ c = b + d /\ a <= b
      BY <2>5, <2>6, <2>7, <3>1 DEF Grown, Follows
    <3>3. a <= c /\ \A k \in 1 .. a : k \in 1 .. b
      BY <3>2
    <3> QED  BY <3>1, <3>3
  <2>9. \A k \in 1 .. Len(f[n]) : f[m][k] = f[n][k]
    BY <2>5, <2>6, <2>8 DEF Grown, Follows
  <2> QED  BY <2>2, <2>8, <2>9 DEF Grown
<1> QED  BY <1>1, <1>3

\* Where each sequence is in what they all make.
Placed(seqs, f, n) ==
    /\ Len(f[n - 1]) \in Nat /\ Len(seqs[n]) \in Nat
    /\ Len(f[n]) = Len(f[n - 1]) + Len(seqs[n])
    /\ Len(f[n]) <= Len(f[Len(seqs)]) /\ Len(f[Len(seqs)]) \in Nat
    /\ \A k \in 1 .. Len(seqs[n]) : f[Len(seqs)][Len(f[n - 1]) + k] = seqs[n][k]

LEMMA JoinsPlaced ==
    ASSUME NEW S, NEW seqs \in Seq(Seq(S)), NEW f, Joins(seqs, S, f),
           NEW n \in 1 .. Len(seqs)
    PROVE  Placed(seqs, f, n)
<1>1. PICK N, all : N = Len(seqs) /\ all = f[N]
  OBVIOUS
<1>2. N \in Nat /\ n \in 0 .. N /\ N \in n .. N /\ N \in 0 .. N
  BY <1>1
<1>3. Len(all) \in Nat
  <2>1. all \in Seq(S)
    BY <1>1, <1>2 DEF Joins
  <2> QED  BY <2>1
<1>4. Follows(seqs, f, n)
  BY JoinsFollow
<1>5. Grown(f, n, N)
  BY <1>1, <1>2, JoinsStay
<1>6. ASSUME NEW k \in 1 .. Len(seqs[n]) PROVE all[Len(f[n - 1]) + k] = seqs[n][k]
  <2>1. Len(f[n - 1]) + k \in 1 .. Len(f[n])
    <3>1. PICK b, c, d : b = Len(f[n - 1]) /\ c = Len(f[n]) /\ d = Len(seqs[n])
      OBVIOUS
    <3>2. b \in Nat /\ d \in Nat /\ c = b + d /\ k \in 1 .. d
      BY <1>4, <3>1 DEF Follows
    <3>3. b + k \in 1 .. c
      BY <3>2
    <3> QED  BY <3>1, <3>3
  <2> QED  BY <1>1, <1>4, <1>5, <2>1 DEF Grown, Follows
<1>7. Len(f[n]) <= Len(all)
  BY <1>1, <1>5 DEF Grown
<1> QED  BY <1>1, <1>3, <1>4, <1>6, <1>7 DEF Placed, Follows

LEMMA OwnRemainder ==
    ASSUME NEW n \in Nat, NEW m \in Nat \ {0}, n < m
    PROVE  n % m = n
OBVIOUS

\* A node as it is written.
IsNode(code, written) ==
    /\ written \in Seq(Item) /\ Len(written) = 2 + H!ByteCount(code.turns)
    /\ written[1] = code.value /\ written[2] = Len(code.turns)
    /\ \A n \in 1 .. H!ByteCount(code.turns) : written[2 + n] = H!Bytes(code.turns)[n]

LEMMA NodeWritten ==
    ASSUME ByteBits \in Nat \ {0}, LeafLimit \in Nat \ {0}, Letter \subseteq Int,
           NEW code \in Code, Len(code.turns) < LeafLimit
    PROVE  IsNode(code, H!WriteNode(code)) /\ H!ByteCount(code.turns) \in Nat
<1>1. PICK turns, bytes, two, both :
            /\ turns = code.turns /\ bytes = H!Bytes(turns)
            /\ two = <<code.value, Len(turns)>> /\ both = two \o bytes
  OBVIOUS
<1>2. turns \in Seq(Bit) /\ code.value \in Int /\ Len(turns) \in Nat
  <2>1. turns \in Seq(Bit) /\ code.value \in Letter
    BY <1>1 DEF Code
  <2>2. code.value \in Int
    BY <2>1
  <2>3. Len(turns) \in Nat
    BY <2>1
  <2> QED  BY <2>1, <2>2, <2>3
<1>3. Len(turns) % LeafLimit = Len(turns)
  BY <1>1, <1>2, OwnRemainder
<1>4. H!WriteNode(code) = both
  BY <1>1, <1>3 DEF H!WriteNode
<1>5. bytes \in Seq(Seq(Bit)) /\ Len(bytes) = H!ByteCount(turns) /\ H!ByteCount(turns) \in Nat
  BY <1>1, <1>2, BytesOK
<1>6. bytes \in Seq(Item)
  BY <1>5, SeqMonotonic DEF Item
<1>7. two \in Seq(Item) /\ Len(two) = 2 /\ two[1] = code.value /\ two[2] = Len(turns)
  <2>1. code.value \in Item /\ Len(turns) \in Item
    BY <1>2 DEF Item
  <2> QED  BY <1>1, <2>1
<1>8. Behind(Item, two, bytes, both)
  BY <1>1, <1>6, <1>7, Concatenated
<1>9. /\ both \in Seq(Item) /\ Len(both) = 2 + H!ByteCount(turns)
      /\ both[1] = code.value /\ both[2] = Len(turns)
      /\ \A n \in 1 .. H!ByteCount(turns) : both[2 + n] = bytes[n]
  <2>1. 1 \in 1 .. 2 /\ 2 \in 1 .. 2
    OBVIOUS
  <2> QED  BY <1>5, <1>7, <1>8, <2>1 DEF Behind
<1> QED  BY <1>1, <1>4, <1>5, <1>9 DEF IsNode

\* What Compress writes of a tree, with the places g of its nodes, and behind
\* it the data.
Writings(codes) == [i \in DOMAIN codes |-> H!WriteNode(codes[i])]

Stream(out, t, codes, g, data) ==
    /\ out[1] = Len(t) /\ out[2] = Len(codes)
    /\ Writings(codes) \in Seq(Seq(Item)) /\ Len(Writings(codes)) = Len(codes)
    /\ Joins(Writings(codes), Item, g)
    /\ \A k \in 1 .. Len(g[Len(codes)]) : out[2 + k] = g[Len(codes)][k]
    /\ Len(out) = 2 + Len(g[Len(codes)]) + Len(data)
    /\ \A k \in 1 .. Len(data) : out[2 + Len(g[Len(codes)]) + k] = data[k]

Sizes ==
    /\ ByteBits \in Nat \ {0} /\ LeafLimit \in Nat \ {0} /\ Letter \subseteq Int

\* The tree is small enough for the byte that counts its leaves.
Small(codes) == CodesOK(codes) /\ Len(codes) < LeafLimit

LEMMA NodesWritten ==
    ASSUME Sizes, NEW codes, Small(codes)
    PROVE  /\ Writings(codes) \in Seq(Seq(Item)) /\ Len(Writings(codes)) = Len(codes)
           /\ \A n \in 1 .. Len(codes) :
                /\ Writings(codes)[n] = H!WriteNode(codes[n])
                /\ IsNode(codes[n], Writings(codes)[n])
                /\ H!ByteCount(codes[n].turns) \in Nat
<1>1. PICK writings, N : writings = Writings(codes) /\ N = Len(codes)
  OBVIOUS
<1>2. codes \in Seq(Code) /\ N \in Nat /\ DOMAIN codes = 1 .. N
  BY <1>1 DEF Small, CodesOK
<1>3. writings = [n \in 1 .. N |-> H!WriteNode(codes[n])]
  BY <1>1, <1>2 DEF Writings
<1>4. ASSUME NEW n \in 1 .. N
      PROVE  IsNode(codes[n], H!WriteNode(codes[n])) /\ H!ByteCount(codes[n].turns) \in Nat
  <2>1. PICK code : code = codes[n]
    OBVIOUS
  <2>2. code \in Code
    BY <1>2, <2>1
  <2>3. Len(code.turns) < Len(codes) /\ Len(codes) < LeafLimit
    BY <1>1, <2>1 DEF Small, CodesOK
  <2>4. Len(code.turns) < LeafLimit
    <3>1. PICK a, b : a = Len(code.turns) /\ b = Len(codes)
      OBVIOUS
    <3>2. a \in Nat /\ b \in Nat /\ LeafLimit \in Nat
      <4>1. code.turns \in Seq(Bit)
        BY <2>2 DEF Code
      <4>2. a \in Nat
        BY <3>1, <4>1
      <4> QED  BY <1>1, <1>2, <3>1, <4>2 DEF Sizes
    <3> QED  BY <2>3, <3>1, <3>2
  <2> QED  BY <2>1, <2>2, <2>4, NodeWritten DEF Sizes
<1>5. \A n \in 1 .. N : writings[n] = H!WriteNode(codes[n])
  BY <1>3
<1>6. writings \in Seq(Seq(Item)) /\ Len(writings) = N
  <2>1. writings = [n \in 1 .. N |-> writings[n]]
    BY <1>3
  <2>2. \A n \in 1 .. N : writings[n] \in Seq(Item)
    BY <1>4, <1>5 DEF IsNode
  <2>3. writings \in [1 .. N -> Seq(Item)]
    BY <2>1, <2>2
  <2> QED  BY <1>2, <2>3
<1> QED  BY <1>1, <1>4, <1>5, <1>6

\* A stream of two numbers, the nodes and the data.
LEMMA StreamOf ==
    ASSUME Sizes, NEW t \in Seq(Letter), NEW codes, Small(codes), NEW data \in Seq(Item),
           NEW out, out = (<<Len(t), Len(codes) % LeafLimit>> \o H!FlattenSeq(Writings(codes))) \o data
    PROVE  \E g : Stream(out, t, codes, g, data)
<1>1. PICK writings, N, two, nodes, front :
            /\ writings = Writings(codes) /\ N = Len(codes)
            /\ two = <<Len(t), N>> /\ nodes = H!FlattenSeq(writings) /\ front = two \o nodes
  OBVIOUS
<1>2. writings \in Seq(Seq(Item)) /\ Len(writings) = N
  BY <1>1, NodesWritten
<1>3. N \in Nat /\ N % LeafLimit = N
  <2>1. codes \in Seq(Code)
    BY DEF Small, CodesOK
  <2>2. N \in Nat /\ N < LeafLimit /\ LeafLimit \in Nat \ {0}
    BY <1>1, <2>1 DEF Small, Sizes
  <2> QED  BY <2>2, OwnRemainder
<1>4. out = front \o data
  BY <1>1, <1>3
<1>5. PICK g : Joins(writings, Item, g)
  BY <1>2, JoinsExist
<1>6. nodes = g[N] /\ nodes \in Seq(Item)
  <2>1. N \in 0 .. N
    BY <1>3
  <2>2. g[N] \in Seq(Item)
    BY <1>2, <1>5, <2>1 DEF Joins
  <2>3. nodes = g[N]
    BY <1>1, <1>2, <1>5, FlattenIs, FlattenJoins
  <2> QED  BY <2>2, <2>3
<1>7. two \in Seq(Item) /\ Len(two) = 2 /\ two[1] = Len(t) /\ two[2] = N
  <2>1. Len(t) \in Item /\ N \in Item
    BY <1>3 DEF Item
  <2> QED  BY <1>1, <2>1
<1>8. Behind(Item, two, nodes, front)
  BY <1>1, <1>6, <1>7, Concatenated
<1>9. front \in Seq(Item)
  BY <1>8 DEF Behind
<1>10. Behind(Item, front, data, out)
  BY <1>4, <1>9, Concatenated
<1>11. PICK a, b : a = Len(nodes) /\ b = Len(data)
  OBVIOUS
<1>12. a \in Nat /\ b \in Nat
  <2>1. a \in Nat
    BY <1>6, <1>11
  <2>2. b \in Nat
    BY <1>11
  <2> QED  BY <2>1, <2>2
<1>13. /\ Len(front) = 2 + a
       /\ front[1] = Len(t) /\ front[2] = N
       /\ \A k \in 1 .. a : front[2 + k] = nodes[k]
  <2>1. 1 \in 1 .. 2 /\ 2 \in 1 .. 2
    OBVIOUS
  <2> QED  BY <1>7, <1>8, <1>11, <2>1 DEF Behind
<1>14. /\ Len(out) = (2 + a) + b
       /\ \A k \in 1 .. 2 + a : out[k] = front[k]
       /\ \A k \in 1 .. b : out[(2 + a) + k] = data[k]
  BY <1>10, <1>11, <1>13 DEF Behind
<1>15. out[1] = Len(t) /\ out[2] = N /\ \A k \in 1 .. a : out[2 + k] = nodes[k]
  <2>1. 1 \in 1 .. 2 + a /\ 2 \in 1 .. 2 + a /\ \A k \in 1 .. a : 2 + k \in 1 .. 2 + a
    BY <1>12
  <2> QED  BY <1>13, <1>14, <2>1
<1>16. /\ \A k \in 1 .. Len(g[N]) : out[2 + k] = g[N][k]
       /\ Len(out) = 2 + Len(g[N]) + Len(data)
       /\ \A k \in 1 .. Len(data) : out[2 + Len(g[N]) + k] = data[k]
  BY <1>6, <1>11, <1>14, <1>15
<1>17. out[1] = Len(t) /\ out[2] = N
  BY <1>15
<1> QED  BY <1>1, <1>2, <1>5, <1>16, <1>17 DEF Stream

\* Where a node is in the stream.
NodeAt(out, at, code) ==
    /\ at \in Nat
    /\ out[at] = code.value /\ out[at + 1] = Len(code.turns)
    /\ \A n \in 1 .. H!ByteCount(code.turns) : out[(at + 2) + (n - 1)] = H!Bytes(code.turns)[n]

LEMMA NodesInStream ==
    ASSUME Sizes, NEW out, NEW t, NEW codes, Small(codes), NEW g, NEW data,
           Stream(out, t, codes, g, data), NEW n \in 1 .. Len(codes)
    PROVE  /\ NodeAt(out, 3 + Len(g[n - 1]), codes[n])
           /\ Len(g[n - 1]) \in Nat /\ H!ByteCount(codes[n].turns) \in Nat
           /\ 3 + Len(g[n]) = (3 + Len(g[n - 1])) + 2 + H!ByteCount(codes[n].turns)
<1>1. PICK writings, N, code, w, all :
            /\ writings = Writings(codes) /\ N = Len(codes) /\ code = codes[n]
            /\ w = writings[n] /\ all = g[N]
  OBVIOUS
<1>2. /\ writings \in Seq(Seq(Item)) /\ Len(writings) = N
      /\ IsNode(code, w) /\ H!ByteCount(code.turns) \in Nat
  BY <1>1, NodesWritten
<1>3. Placed(writings, g, n)
  <2>1. Joins(writings, Item, g)
    BY <1>1 DEF Stream
  <2> QED  BY <1>1, <1>2, <2>1, JoinsPlaced
<1>4. PICK p, b : p = Len(g[n - 1]) /\ b = H!ByteCount(code.turns)
  OBVIOUS
<1>5. /\ p \in Nat /\ b \in Nat /\ Len(w) = 2 + b /\ Len(g[n]) = p + (2 + b)
      /\ p + (2 + b) <= Len(all) /\ Len(all) \in Nat
      /\ \A k \in 1 .. 2 + b : all[p + k] = w[k]
  BY <1>1, <1>2, <1>3, <1>4 DEF IsNode, Placed
<1>6. \A k \in 1 .. 2 + b : out[2 + (p + k)] = w[k]
  <2>1. \A k \in 1 .. 2 + b : p + k \in 1 .. Len(all)
    BY <1>5
  <2>2. \A k \in 1 .. Len(all) : out[2 + k] = all[k]
    BY <1>1 DEF Stream
  <2> QED  BY <1>5, <2>1, <2>2
<1>7. /\ w[1] = code.value /\ w[2] = Len(code.turns)
      /\ \A k \in 1 .. b : w[2 + k] = H!Bytes(code.turns)[k]
  BY <1>2, <1>4 DEF IsNode
<1>8. out[3 + p] = code.value /\ out[(3 + p) + 1] = Len(code.turns)
  <2>1. 1 \in 1 .. 2 + b /\ 2 \in 1 .. 2 + b /\ 2 + (p + 1) = 3 + p /\ 2 + (p + 2) = (3 + p) + 1
    BY <1>5
  <2> QED  BY <1>6, <1>7, <2>1
<1>9. ASSUME NEW k \in 1 .. b PROVE out[((3 + p) + 2) + (k - 1)] = H!Bytes(code.turns)[k]
  <2>1. 2 + k \in 1 .. 2 + b /\ 2 + (p + (2 + k)) = ((3 + p) + 2) + (k - 1)
    BY <1>5
  <2> QED  BY <1>6, <1>7, <2>1
<1>10. 3 + p \in Nat /\ 3 + Len(g[n]) = (3 + p) + 2 + b
  BY <1>5
<1> QED  BY <1>1, <1>4, <1>5, <1>8, <1>9, <1>10 DEF NodeAt

-----------------------------------------------------------------------------
(* What is read *)

\* The bytes that are read are those that were written.
LEMMA BytesRead ==
    ASSUME Sizes, NEW code \in Code, NEW at, NodeAt(output, at, code),
           NEW b, b = H!ByteCount(code.turns), b \in Nat
    PROVE  SubSeq(output, at + 2, at + 1 + b) = H!Bytes(code.turns)
<1>1. PICK turns, bytes, m, n, part :
            /\ turns = code.turns /\ bytes = H!Bytes(turns)
            /\ m = at + 2 /\ n = at + 1 + b /\ part = SubSeq(output, m, n)
  OBVIOUS
<1>2. at \in Nat /\ \A k \in 1 .. b : output[m + (k - 1)] = bytes[k]
  BY <1>1 DEF NodeAt
<1>3. bytes \in Seq(Seq(Bit)) /\ Len(bytes) = b
  <2>1. turns \in Seq(Bit)
    BY <1>1 DEF Code
  <2> QED  BY <1>1, <2>1, BytesOK DEF Sizes
<1>4. m \in Int /\ n \in Int /\ n - m + 1 = b
  BY <1>1, <1>2
<1>5. \A i \in m .. n : output[i] \in Seq(Bit)
  <2> TAKE i \in m .. n
  <2>1. i - m + 1 \in 1 .. b /\ m + ((i - m + 1) - 1) = i
    BY <1>4
  <2>2. output[i] = bytes[i - m + 1]
    BY <1>2, <2>1
  <2> QED  BY <1>3, <2>1, <2>2
<1>6. /\ part \in Seq(Seq(Bit))
      /\ Len(part) = IF m <= n THEN n - m + 1 ELSE 0
      /\ \A k \in 1 .. n - m + 1 : part[k] = output[m + k - 1]
  BY <1>1, <1>4, <1>5, SubSeqProperties
<1>7. Len(part) = b
  BY <1>4, <1>6
<1>8. \A k \in 1 .. b : part[k] = bytes[k]
  <2> TAKE k \in 1 .. b
  <2>1. part[k] = output[m + k - 1] /\ m + k - 1 = m + (k - 1)
    BY <1>4, <1>6
  <2> QED  BY <1>2, <2>1
<1>9. part = bytes
  BY <1>3, <1>6, <1>7, <1>8, SeqEqual
<1> QED  BY <1>1, <1>9

\* Bits that begin with turns have them as their first part.
LEMMA FirstBits ==
    ASSUME NEW turns \in Seq(Bit), NEW bits, Begin(bits, turns)
    PROVE  SubSeq(bits, 1, Len(turns)) = turns
<1>1. PICK n, part : n = Len(turns) /\ part = SubSeq(bits, 1, n)
  OBVIOUS
<1>2. bits \in Seq(Bit) /\ n <= Len(bits) /\ \A k \in 1 .. n : bits[k] = turns[k]
  BY <1>1 DEF Begin
<1>3. n \in Nat
  BY <1>1
<1>4. IsPart(Bit, bits, 1, n)
  BY <1>2, <1>3, Part
<1>5. part \in Seq(Bit) /\ Len(part) = n /\ \A k \in 1 .. n : part[k] = bits[k]
  BY <1>1, <1>3, <1>4 DEF IsPart
<1>6. part = turns
  BY <1>1, <1>2, <1>5, SeqEqual
<1> QED  BY <1>1, <1>6

\* A way more, and the letter at its end.
With(found, code) ==
    [way \in DOMAIN found \cup {code.turns} |->
        IF way = code.turns THEN code.value ELSE found[way]]

LEMMA NodeRead ==
    ASSUME Sizes, NEW code \in Code, NEW at, NodeAt(output, at, code),
           H!ByteCount(code.turns) \in Nat, NEW found,
           NEW read, read = [at |-> at, leaves |-> found]
    PROVE  H!ReadNode(read) = [at |-> at + 2 + H!ByteCount(code.turns), leaves |-> With(found, code)]
<1>1. PICK turns, b, bytes, bits :
            /\ turns = code.turns /\ b = H!ByteCount(turns)
            /\ bytes = SubSeq(output, at + 2, at + 1 + b) /\ bits = H!FlattenSeq(bytes)
  OBVIOUS
<1>2. read.at = at /\ read.leaves = found
  OBVIOUS
<1>3. output[at] = code.value /\ output[at + 1] = Len(turns)
  BY <1>1 DEF NodeAt
<1>4. b = (output[at + 1] + ByteBits - 1) \div ByteBits
  BY <1>1, <1>3 DEF H!ByteCount
<1>5. turns \in Seq(Bit)
  BY <1>1 DEF Code
<1>6. SubSeq(bits, 1, output[at + 1]) = turns
  <2>1. bytes = H!Bytes(turns)
    BY <1>1, BytesRead
  <2>2. Begin(bits, turns)
    BY <1>1, <1>5, <2>1, BitsOfBytes DEF Sizes
  <2> QED  BY <1>3, <1>5, <2>2, FirstBits
<1>7. H!ReadNode(read) =
        [at |-> at + 2 + b,
         leaves |-> [way \in DOMAIN found \cup {turns} |->
                        IF way = turns THEN output[at] ELSE found[way]]]
  BY <1>1, <1>2, <1>4, <1>6 DEF H!ReadNode
<1> QED  BY <1>1, <1>3, <1>7 DEF With

\* What was read after n nodes.
ReadSoFar(codes, g, n) ==
    [at |-> 3 + Len(g[n]),
     leaves |-> [way \in {codes[k].turns : k \in 1 .. n} |->
                    codes[CHOOSE k \in 1 .. Len(codes) : codes[k].turns = way].value]]

\* No two nodes have the same turns.
LEMMA OwnTurns ==
    ASSUME NEW codes, CodesOK(codes), NEW i \in 1 .. Len(codes), NEW j \in 1 .. Len(codes),
           codes[i].turns = codes[j].turns
    PROVE  i = j
<1>1. SUFFICES ASSUME i # j PROVE FALSE
  OBVIOUS
<1>2. PICK way : way = codes[i].turns
  OBVIOUS
<1>3. Apart(way, way)
  BY <1>1, <1>2 DEF CodesOK
<1> QED  BY <1>3 DEF Apart

LEMMA ReadsOn ==
    ASSUME Sizes, NEW t, NEW codes, Small(codes), NEW g, NEW data,
           Stream(output, t, codes, g, data), NEW n \in 1 .. Len(codes)
    PROVE  H!ReadNode(ReadSoFar(codes, g, n - 1)) = ReadSoFar(codes, g, n)
<1>1. PICK N, code, at, found, before :
            /\ N = Len(codes) /\ code = codes[n] /\ at = 3 + Len(g[n - 1])
            /\ before = ReadSoFar(codes, g, n - 1) /\ found = before.leaves
  OBVIOUS
<1>2. N \in Nat /\ code \in Code
  BY <1>1 DEF Small, CodesOK
<1>3. /\ NodeAt(output, at, code) /\ H!ByteCount(code.turns) \in Nat
      /\ 3 + Len(g[n]) = at + 2 + H!ByteCount(code.turns)
  BY <1>1, NodesInStream
<1>4. before = [at |-> at, leaves |-> found]
  BY <1>1 DEF ReadSoFar
<1>5. H!ReadNode(before) = [at |-> at + 2 + H!ByteCount(code.turns), leaves |-> With(found, code)]
  BY <1>2, <1>3, <1>4, NodeRead
<1> DEFINE Owner(way) == CHOOSE k \in 1 .. N : codes[k].turns = way
<1>6. found = [way \in {codes[k].turns : k \in 1 .. n - 1} |-> codes[Owner(way)].value]
  BY <1>1 DEF ReadSoFar
<1>7. Owner(code.turns) = n
  <2>1. CodesOK(codes)
    BY DEF Small
  <2>2. \A k \in 1 .. N : codes[k].turns = code.turns => k = n
    BY <1>1, <2>1, OwnTurns
  <2> QED  BY <1>1, <2>2
<1>8. {codes[k].turns : k \in 1 .. n} = {codes[k].turns : k \in 1 .. n - 1} \cup {code.turns}
  <2>1. \A k : k \in 1 .. n <=> k \in 1 .. n - 1 \/ k = n
    BY <1>1, <1>2
  <2> QED  BY <1>1, <2>1
<1> HIDE DEF Owner
<1>9. With(found, code) = [way \in {codes[k].turns : k \in 1 .. n} |-> codes[Owner(way)].value]
  <2>1. PICK Old, New : /\ Old = {codes[k].turns : k \in 1 .. n - 1}
                        /\ New = {codes[k].turns : k \in 1 .. n}
    OBVIOUS
  <2>2. DOMAIN found = Old /\ New = Old \cup {code.turns}
        /\ \A way \in Old : found[way] = codes[Owner(way)].value
    BY <1>6, <1>8, <2>1
  <2>3. ASSUME NEW way \in New
        PROVE  (IF way = code.turns THEN code.value ELSE found[way]) = codes[Owner(way)].value
    BY <1>1, <1>7, <2>2
  <2>4. With(found, code) = [way \in New |->
                IF way = code.turns THEN code.value ELSE found[way]]
    BY <2>2 DEF With
  <2> QED  BY <2>1, <2>3, <2>4
<1>10. ReadSoFar(codes, g, n) =
            [at |-> 3 + Len(g[n]),
             leaves |-> [way \in {codes[k].turns : k \in 1 .. n} |-> codes[Owner(way)].value]]
  BY <1>1 DEF ReadSoFar, Owner
<1> QED  BY <1>1, <1>3, <1>5, <1>9, <1>10

\* An Expander has read all nodes and stands where the data begins.
LEMMA TreeRead ==
    ASSUME Sizes, NEW t, NEW codes, Small(codes), NEW g, NEW data,
           Stream(output, t, codes, g, data)
    PROVE  H!ReadNodes = ReadSoFar(codes, g, Len(codes))
<1>1. PICK N : N = Len(codes)
  OBVIOUS
<1>2. N \in Nat /\ output[2] = N
  <2>1. codes \in Seq(Code)
    BY DEF Small, CodesOK
  <2> QED  BY <1>1, <2>1 DEF Stream
<1> DEFINE Goes(r) == r = [n \in 0 .. N |->
                IF n = 0 THEN [at |-> 3, leaves |-> <<>>] ELSE H!ReadNode(r[n - 1])]
           read == CHOOSE r : Goes(r)
           right == [n \in 0 .. N |-> ReadSoFar(codes, g, n)]
<1>3. ReadSoFar(codes, g, 0) = [at |-> 3, leaves |-> <<>>]
  <2>1. g[0] = <<>>
    BY DEF Stream, Joins
  <2>2. 3 + Len(g[0]) = 3
    BY <2>1
  <2>3. {codes[k].turns : k \in 1 .. 0} = {}
    OBVIOUS
  <2>4. [way \in {} |->
            codes[CHOOSE k \in 1 .. Len(codes) : codes[k].turns = way].value] = <<>>
    OBVIOUS
  <2> QED  BY <2>2, <2>3, <2>4 DEF ReadSoFar
<1>4. Goes(right)
  <2>1. \A n \in 0 .. N : right[n] = IF n = 0 THEN [at |-> 3, leaves |-> <<>>]
                                     ELSE H!ReadNode(right[n - 1])
    <3> TAKE n \in 0 .. N
    <3>1. CASE n = 0
      BY <1>3, <3>1
    <3>2. CASE n # 0
      <4>1. n \in 1 .. N /\ n - 1 \in 0 .. N
        BY <1>2, <3>2
      <4>2. H!ReadNode(ReadSoFar(codes, g, n - 1)) = ReadSoFar(codes, g, n)
        BY <1>1, <4>1, ReadsOn
      <4> QED  BY <3>2, <4>1, <4>2
    <3> QED  BY <3>1, <3>2
  <2>2. right = [n \in 0 .. N |-> right[n]]
    OBVIOUS
  <2> HIDE DEF right
  <2> QED  BY <2>1, <2>2
<1>5. Goes(read)
  <2> HIDE DEF Goes, right
  <2> QED  BY <1>4
<1>6. H!ReadNodes = read[N]
  BY <1>2 DEF H!ReadNodes
<1>7. \A n \in 0 .. N : right[n] = ReadSoFar(codes, g, n)
  OBVIOUS
<1> HIDE DEF read, right
<1> DEFINE Bad == {n \in 0 .. N : read[n] # right[n]}
<1>8. ASSUME Bad # {} PROVE FALSE
  <2>1. Bad \in SUBSET Nat
    BY <1>2
  <2>2. PICK n \in Bad : \A m \in Bad : n <= m
    <3> HIDE DEF Bad
    <3> QED  BY <1>8, <2>1, LeastElement
  <2>3. /\ read[n] = IF n = 0 THEN [at |-> 3, leaves |-> <<>>] ELSE H!ReadNode(read[n - 1])
        /\ right[n] = IF n = 0 THEN [at |-> 3, leaves |-> <<>>] ELSE H!ReadNode(right[n - 1])
    BY <1>4, <1>5, <2>2
  <2>4. n # 0
    BY <2>2, <2>3
  <2>5. n - 1 \in 0 .. N /\ ~(n <= n - 1)
    BY <1>2, <2>2, <2>4
  <2>6. read[n - 1] = right[n - 1]
    BY <2>2, <2>5
  <2> QED  BY <2>2, <2>3, <2>4, <2>6
<1>9. N \in 0 .. N
  BY <1>2
<1> QED  BY <1>1, <1>6, <1>7, <1>8, <1>9

-----------------------------------------------------------------------------
(* The codes of a text *)

\* Each letter has its own code, and no code begins another.
BookOK(t, book) ==
    /\ book \in [H!Range(t) -> Seq(Bit)]
    /\ \A v, w \in H!Range(t) : v # w => Apart(book[v], book[w])

Book(t, codes) == [v \in H!Range(t) |-> (CHOOSE c \in H!Range(codes) : c.value = v).turns]

\* The book has the codes of the tree and no others.
OfTree(t, codes, book) ==
    /\ \A v \in H!Range(t) : \E k \in 1 .. Len(codes) :
            codes[k].value = v /\ codes[k].turns = book[v]
    /\ \A k \in 1 .. Len(codes) :
            codes[k].value \in H!Range(t) /\ codes[k].turns = book[codes[k].value]

LEMMA BookIsOK ==
    ASSUME NEW t, NEW codes, CodesOK(codes), Values(codes) = H!Range(t)
    PROVE  BookOK(t, Book(t, codes)) /\ OfTree(t, codes, Book(t, codes))
<1>1. PICK N, letters, book : N = Len(codes) /\ letters = H!Range(t) /\ book = Book(t, codes)
  OBVIOUS
<1>2. /\ codes \in Seq(Code) /\ DOMAIN codes = 1 .. N
      /\ \A i, j \in 1 .. N : codes[i].value = codes[j].value => i = j
      /\ \A i, j \in 1 .. N : i # j => Apart(codes[i].turns, codes[j].turns)
  BY <1>1 DEF CodesOK
<1>3. H!Range(codes) = {codes[k] : k \in 1 .. N}
  BY <1>2 DEF H!Range
<1>4. letters = {codes[k].value : k \in 1 .. N}
  BY <1>1 DEF Values
<1>5. \A k \in 1 .. N : book[codes[k].value] = codes[k].turns
  <2> TAKE k \in 1 .. N
  <2>1. PICK v : v = codes[k].value
    OBVIOUS
  <2>2. v \in letters
    BY <1>4, <2>1
  <2>3. \A c \in H!Range(codes) : c.value = v <=> c = codes[k]
    BY <1>2, <1>3, <2>1
  <2>4. codes[k] \in H!Range(codes)
    BY <1>3
  <2>5. (CHOOSE c \in H!Range(codes) : c.value = v) = codes[k]
    BY <2>3, <2>4
  <2>6. book[v] = (CHOOSE c \in H!Range(codes) : c.value = v).turns
    BY <1>1, <2>2 DEF Book
  <2> QED  BY <2>1, <2>5, <2>6
<1>6. \A v \in letters : \E k \in 1 .. N : codes[k].value = v /\ codes[k].turns = book[v]
  BY <1>4, <1>5
<1>7. \A k \in 1 .. N : codes[k].turns \in Seq(Bit)
  <2>1. \A k \in 1 .. N : codes[k] \in Code
    BY <1>1, <1>2
  <2> QED  BY <2>1 DEF Code
<1>8. book \in [letters -> Seq(Bit)]
  <2>1. book = [v \in letters |-> book[v]]
    BY <1>1 DEF Book
  <2> QED  BY <1>6, <1>7, <2>1
<1>9. \A v, w \in letters : v # w => Apart(book[v], book[w])
  <2> TAKE v, w \in letters
  <2>1. PICK i \in 1 .. N : codes[i].value = v /\ codes[i].turns = book[v]
    BY <1>6
  <2>2. PICK j \in 1 .. N : codes[j].value = w /\ codes[j].turns = book[w]
    BY <1>6
  <2> QED  BY <1>2, <2>1, <2>2
<1> QED  BY <1>1, <1>4, <1>5, <1>6, <1>8, <1>9 DEF BookOK, OfTree

\* The codes of the characters of a text, one behind the other.
Ways(t, book) == [i \in DOMAIN t |-> book[t[i]]]

LEMMA WaysOK ==
    ASSUME NEW t \in Seq(Letter), NEW book, BookOK(t, book)
    PROVE  /\ Ways(t, book) \in Seq(Seq(Bit)) /\ Len(Ways(t, book)) = Len(t)
           /\ \A i \in 1 .. Len(t) : Ways(t, book)[i] = book[t[i]] /\ t[i] \in H!Range(t)
<1>1. PICK N, ways : N = Len(t) /\ ways = Ways(t, book)
  OBVIOUS
<1>2. N \in Nat /\ DOMAIN t = 1 .. N
  BY <1>1
<1>3. ways = [i \in 1 .. N |-> book[t[i]]] /\ \A i \in 1 .. N : t[i] \in H!Range(t)
  BY <1>1, <1>2 DEF Ways, H!Range
<1>4. \A i \in 1 .. N : book[t[i]] \in Seq(Bit)
  BY <1>3 DEF BookOK
<1>5. ways \in [1 .. N -> Seq(Bit)]
  BY <1>3, <1>4
<1>6. ways \in Seq(Seq(Bit)) /\ Len(ways) = N
  BY <1>2, <1>5
<1> QED  BY <1>1, <1>3, <1>6

-----------------------------------------------------------------------------
(* One character *)

\* The bits behind the tree are those of the codes.
LEMMA DataRead ==
    ASSUME Sizes, NEW t, NEW codes, Small(codes), NEW g, NEW turns \in Seq(Bit),
           Stream(output, t, codes, g, H!Bytes(turns)),
           NEW start, start = 3 + Len(g[Len(codes)])
    PROVE  Begin(H!FlattenSeq(SubSeq(output, start, Len(output))), turns)
<1>1. PICK data, a, b, m, n, part :
            /\ data = H!Bytes(turns) /\ a = Len(g[Len(codes)]) /\ b = Len(data)
            /\ m = start /\ n = Len(output) /\ part = SubSeq(output, m, n)
  OBVIOUS
<1>2. a \in Nat
  <2>1. codes \in Seq(Code)
    BY DEF Small, CodesOK
  <2>2. Len(codes) \in Nat /\ Len(codes) \in 0 .. Len(codes)
    BY <2>1
  <2>3. g[Len(codes)] \in Seq(Item)
    <3>1. g \in [0 .. Len(Writings(codes)) -> Seq(Item)] /\ Len(Writings(codes)) = Len(codes)
      BY DEF Stream, Joins
    <3> QED  BY <2>2, <3>1
  <2> QED  BY <1>1, <2>3
<1>3. data \in Seq(Seq(Bit)) /\ Len(data) = b /\ b \in Nat
  BY <1>1, BytesOK DEF Sizes
<1>4. n = 2 + a + b /\ m = 3 + a /\ \A k \in 1 .. b : output[2 + a + k] = data[k]
  BY <1>1 DEF Stream
<1>5. m \in Int /\ n \in Int /\ n - m + 1 = b
  BY <1>2, <1>3, <1>4
<1>6. \A i \in m .. n : output[i] \in Seq(Bit)
  <2> TAKE i \in m .. n
  <2>1. i - m + 1 \in 1 .. b /\ 2 + a + (i - m + 1) = i
    BY <1>2, <1>3, <1>4, <1>5
  <2>2. output[i] = data[i - m + 1]
    BY <1>4, <2>1
  <2> QED  BY <1>3, <2>1, <2>2
<1>7. /\ part \in Seq(Seq(Bit))
      /\ Len(part) = IF m <= n THEN n - m + 1 ELSE 0
      /\ \A k \in 1 .. n - m + 1 : part[k] = output[m + k - 1]
  <2>1. part = SubSeq(output, m, n)
    BY <1>1
  <2> QED  BY <1>5, <1>6, <2>1, SubSeqProperties
<1>8. Len(part) = b
  BY <1>3, <1>5, <1>7
<1>9. \A k \in 1 .. b : part[k] = data[k]
  <2> TAKE k \in 1 .. b
  <2>1. part[k] = output[m + k - 1] /\ m + k - 1 = 2 + a + k
    BY <1>2, <1>4, <1>5, <1>7
  <2> QED  BY <1>4, <2>1
<1>10. part = data
  BY <1>3, <1>7, <1>8, <1>9, SeqEqual
<1> QED  BY <1>1, <1>10, BitsOfBytes DEF Sizes

\* The Expander has the codes, and has read those of the first n characters.
Reading(t, book, h, n) ==
    /\ BookOK(t, book)
    /\ Joins(Ways(t, book), Bit, h) /\ Begin(H!Bits, h[Len(t)])
    /\ DOMAIN leaves = {book[v] : v \in H!Range(t)}
    /\ \A v \in H!Range(t) : leaves[book[v]] = v
    /\ n \in 0 .. Len(t) /\ bitsRead = Len(h[n])

\* The next turns are those of the next character.
LEMMA NextWay ==
    ASSUME NEW t \in Seq(Letter), NEW book, NEW h, NEW n, Reading(t, book, h, n), n < Len(t),
           NEW way, way = book[t[n + 1]]
    PROVE  /\ way \in Seq(Bit) /\ bitsRead \in Nat /\ bitsRead + Len(way) <= Len(H!Bits)
           /\ bitsRead + Len(way) = Len(h[n + 1]) /\ H!Bits \in Seq(Bit)
           /\ \A k \in 1 .. Len(way) : H!Bits[bitsRead + k] = way[k]
<1>1. PICK N, ways, all : N = Len(t) /\ ways = Ways(t, book) /\ all = h[N]
  OBVIOUS
<1>2. N \in Nat /\ n \in 0 .. N /\ n + 1 \in 1 .. N /\ (n + 1) - 1 = n
  BY <1>1 DEF Reading
<1>3. ways \in Seq(Seq(Bit)) /\ Len(ways) = N /\ ways[n + 1] = way
  <2>1. BookOK(t, book)
    BY DEF Reading
  <2> QED  BY <1>1, <1>2, <2>1, WaysOK
<1>4. Placed(ways, h, n + 1)
  <2>1. Joins(ways, Bit, h)
    BY <1>1 DEF Reading
  <2> QED  BY <1>2, <1>3, <2>1, JoinsPlaced
<1>5. /\ Len(h[n]) \in Nat /\ Len(way) \in Nat /\ Len(all) \in Nat
      /\ Len(h[n + 1]) = Len(h[n]) + Len(way) /\ Len(h[n + 1]) <= Len(all)
      /\ \A k \in 1 .. Len(way) : all[Len(h[n]) + k] = way[k]
  BY <1>1, <1>2, <1>3, <1>4 DEF Placed
<1>6. way \in Seq(Bit)
  BY <1>2, <1>3
<1>7. /\ H!Bits \in Seq(Bit) /\ Len(all) <= Len(H!Bits)
      /\ \A k \in 1 .. Len(all) : H!Bits[k] = all[k]
  BY <1>1 DEF Reading, Begin
<1>8. bitsRead = Len(h[n])
  BY DEF Reading
<1>9. PICK a, b, c, d : a = Len(h[n]) /\ b = Len(way) /\ c = Len(all) /\ d = Len(H!Bits)
  OBVIOUS
<1>10. a \in Nat /\ b \in Nat /\ c \in Nat /\ a + b <= c /\ c <= d
  BY <1>5, <1>7, <1>9
<1>11. d \in Nat
  BY <1>7, <1>9
<1>12. a + b <= d /\ \A k \in 1 .. b : a + k \in 1 .. c
  BY <1>10, <1>11
<1>13. \A k \in 1 .. b : H!Bits[a + k] = way[k]
  BY <1>5, <1>7, <1>9, <1>12
<1> QED  BY <1>5, <1>6, <1>7, <1>8, <1>9, <1>10, <1>12, <1>13

\* They end at the one node with a value that these turns lead to.
LEMMA NextLetter ==
    ASSUME NEW t \in Seq(Letter), NEW book, NEW h, NEW n, Reading(t, book, h, n), n < Len(t),
           NEW m, m = Len(h[n + 1])
    PROVE  /\ H!Ends = {m} /\ m \in Nat
           /\ leaves[SubSeq(H!Bits, bitsRead + 1, m)] = t[n + 1]
<1>1. PICK v, way, a, b : v = t[n + 1] /\ way = book[v] /\ a = bitsRead /\ b = Len(way)
  OBVIOUS
<1>2. /\ way \in Seq(Bit) /\ a \in Nat /\ m = a + b /\ m <= Len(H!Bits) /\ H!Bits \in Seq(Bit)
      /\ \A k \in 1 .. b : H!Bits[a + k] = way[k]
  BY <1>1, NextWay
<1>3. b \in Nat /\ Len(H!Bits) \in Nat /\ m \in Nat
  BY <1>1, <1>2
<1>4. /\ \A w \in H!Range(t) : book[w] \in Seq(Bit)
      /\ \A w \in H!Range(t) : w # v => Apart(book[w], way)
      /\ v \in H!Range(t)
      /\ DOMAIN leaves = {book[w] : w \in H!Range(t)} /\ leaves[way] = v
  <2>1. v \in H!Range(t)
    BY <1>1 DEF Reading, H!Range
  <2> QED  BY <1>1, <2>1 DEF Reading, BookOK
<1>5. \A k \in a .. Len(H!Bits) : IsPart(Bit, H!Bits, a + 1, k)
  <2> TAKE k \in a .. Len(H!Bits)
  <2>1. a + 1 \in Nat \ {0} /\ k \in Nat /\ k <= Len(H!Bits) /\ a + 1 <= k + 1
    BY <1>2, <1>3
  <2> QED  BY <1>2, <2>1, Part
<1>6. SubSeq(H!Bits, a + 1, m) = way
  <2>1. PICK part : part = SubSeq(H!Bits, a + 1, m)
    OBVIOUS
  <2>2. m \in a .. Len(H!Bits) /\ m - (a + 1) + 1 = b
    BY <1>2, <1>3
  <2>3. part \in Seq(Bit) /\ Len(part) = b /\ \A k \in 1 .. b : part[k] = H!Bits[(a + 1) + k - 1]
    BY <1>5, <2>1, <2>2 DEF IsPart
  <2>4. \A k \in 1 .. b : (a + 1) + k - 1 = a + k
    BY <1>2
  <2>5. \A k \in 1 .. b : part[k] = way[k]
    BY <1>2, <2>3, <2>4
  <2> QED  BY <1>1, <1>2, <2>1, <2>3, <2>5, SeqEqual
<1>7. m \in H!Ends
  <2>1. m \in a .. Len(H!Bits)
    BY <1>2, <1>3
  <2> QED  BY <1>1, <1>4, <1>6, <2>1 DEF H!Ends
<1>8. ASSUME NEW k \in H!Ends PROVE k = m
  <2>1. k \in a .. Len(H!Bits) /\ SubSeq(H!Bits, a + 1, k) \in DOMAIN leaves
    BY <1>1 DEF H!Ends
  <2>2. PICK w \in H!Range(t) : book[w] = SubSeq(H!Bits, a + 1, k)
    BY <1>4, <2>1
  <2>3. PICK other, l : other = book[w] /\ l = Len(other)
    OBVIOUS
  <2>4. k - (a + 1) + 1 = k - a
    BY <1>2, <2>1
  <2>5. other \in Seq(Bit) /\ l = k - a /\ \A j \in 1 .. l : other[j] = H!Bits[(a + 1) + j - 1]
    BY <1>5, <2>1, <2>2, <2>3, <2>4 DEF IsPart
  <2>6. \A j \in 1 .. l : other[j] = H!Bits[a + j]
    <3>1. \A j \in 1 .. l : (a + 1) + j - 1 = a + j
      BY <1>2
    <3> QED  BY <2>5, <3>1
  <2>7. w = v
    <3>1. SUFFICES ASSUME w # v PROVE FALSE
      OBVIOUS
    <3>2. PICK j \in DOMAIN other \cap DOMAIN way : other[j] # way[j]
      BY <1>4, <2>3, <3>1 DEF Apart
    <3>3. DOMAIN other = 1 .. l /\ DOMAIN way = 1 .. b
      <4>1. \A turns \in Seq(Bit) : DOMAIN turns = 1 .. Len(turns)
        OBVIOUS
      <4> QED  BY <1>1, <1>2, <2>3, <2>5, <4>1
    <3> QED  BY <1>2, <2>6, <3>2, <3>3
  <2>8. l = b
    BY <1>1, <2>3, <2>7
  <2> QED  BY <1>2, <1>3, <2>1, <2>5, <2>8
<1>9. H!Ends = {m}
  BY <1>7, <1>8
<1> QED  BY <1>1, <1>3, <1>4, <1>6, <1>9

-----------------------------------------------------------------------------
(* The text *)

\* A text has some characters, and fewer different ones than a byte counts.
LEMMA TreeIsSmall ==
    ASSUME HuffmanSizes, NEW t \in Seq(Letter), t # <<>>,
           NEW codes, codes = H!BuildTree(t).codes
    PROVE  Small(codes) /\ Values(codes) = H!Range(t)
<1>1. -LeafLimit \in Int /\ LeafLimit \in Int /\ Letter \subseteq -LeafLimit .. LeafLimit
  BY DEF HuffmanSizes
<1>2. Low(-LeafLimit)
  BY <1>1 DEF Low
<1>3. IsFiniteSet(Letter)
  BY <1>1, FS_Interval, FS_Subset
<1>4. H!Range(t) \subseteq Letter
  BY DEF H!Range
<1>5. IsFiniteSet(H!Range(t)) /\ Cardinality(H!Range(t)) <= Cardinality(Letter)
  BY <1>3, <1>4, FS_Subset
<1>6. CodesOK(codes) /\ Values(codes) = H!Range(t)
  BY <1>2, <1>5, TreeOK
<1>7. PICK N, value : N = Len(codes) /\ value = [k \in 1 .. N |-> codes[k].value]
  OBVIOUS
<1>8. value \in Injection(1 .. N, H!Range(t))
  <2>1. \A i, j \in 1 .. N : i # j => codes[i].value # codes[j].value
    BY <1>6, <1>7 DEF CodesOK
  <2>2. \A k \in 1 .. N : codes[k].value \in H!Range(t)
    BY <1>6, <1>7 DEF Values
  <2> QED  BY <1>7, <2>1, <2>2 DEF Injection, IsInjective
<1>9. Cardinality(1 .. N) <= Cardinality(H!Range(t))
  BY <1>5, <1>8, FS_Injection
<1>10. N \in Nat /\ Cardinality(1 .. N) = N
  <2>1. codes \in Seq(Code)
    BY <1>6 DEF CodesOK
  <2>2. N \in Nat
    BY <1>7, <2>1
  <2> QED  BY <2>2, FS_Interval
<1>11. Cardinality(H!Range(t)) \in Nat /\ Cardinality(Letter) \in Nat
  BY <1>3, <1>5, FS_CardinalityType
<1>12. N < LeafLimit
  BY <1>5, <1>9, <1>10, <1>11 DEF HuffmanSizes
<1> QED  BY <1>6, <1>7, <1>12 DEF Small

\* What Compress writes.
LEMMA WrittenIs ==
    ASSUME NEW t, NEW codes, codes = H!BuildTree(t).codes
    PROVE  H!Written(t) = (<<Len(t), Len(codes) % LeafLimit>> \o H!FlattenSeq(Writings(codes)))
                            \o H!Bytes(H!FlattenSeq(Ways(t, Book(t, codes))))
BY DEF H!Written, Writings, Ways, Book

\* What an Expander knows when it has read the tree.
LEMMA Opened ==
    ASSUME HuffmanSizes, NEW t \in Seq(Letter), t # <<>>, output = H!Written(t),
           leaves' = H!ReadNodes.leaves, dataStart' = H!ReadNodes.at, output' = output,
           bitsRead' = 0
    PROVE  output'[1] = Len(t) /\ \E book, h : Reading(t, book, h, 0)'
<1>1. PICK codes, book, ways, turns, data :
            /\ codes = H!BuildTree(t).codes /\ book = Book(t, codes)
            /\ ways = Ways(t, book) /\ turns = H!FlattenSeq(ways) /\ data = H!Bytes(turns)
  OBVIOUS
<1>2. Sizes
  <2>1. LeafLimit \in Nat \ {0} /\ Letter \subseteq Int
    BY DEF HuffmanSizes
  <2> QED  BY <2>1 DEF HuffmanSizes, Sizes
<1>3. Small(codes) /\ Values(codes) = H!Range(t)
  BY <1>1, TreeIsSmall
<1>4. BookOK(t, book) /\ OfTree(t, codes, book)
  BY <1>1, <1>3, BookIsOK DEF Small
<1>5. ways \in Seq(Seq(Bit)) /\ Len(ways) = Len(t)
  BY <1>1, <1>4, WaysOK
<1>6. PICK h : Joins(ways, Bit, h)
  BY <1>5, JoinsExist
<1>7. turns = h[Len(t)] /\ turns \in Seq(Bit)
  <2>1. Len(t) \in 0 .. Len(t)
    OBVIOUS
  <2>2. h[Len(t)] \in Seq(Bit)
    BY <1>5, <1>6, <2>1 DEF Joins
  <2>3. turns = h[Len(t)]
    BY <1>1, <1>5, <1>6, FlattenIs, FlattenJoins
  <2> QED  BY <2>2, <2>3
<1>8. PICK g : Stream(output, t, codes, g, data)
  <2>1. output = (<<Len(t), Len(codes) % LeafLimit>> \o H!FlattenSeq(Writings(codes))) \o data
    BY <1>1, WrittenIs
  <2>2. data \in Seq(Item)
    <3>1. data \in Seq(Seq(Bit))
      BY <1>1, <1>2, <1>7, BytesOK DEF Sizes
    <3> QED  BY <3>1 DEF Item
  <2> QED  BY <1>2, <1>3, <2>1, <2>2, StreamOf
<1>9. H!ReadNodes = ReadSoFar(codes, g, Len(codes))
  BY <1>2, <1>3, <1>8, TreeRead
<1>10. dataStart' = 3 + Len(g[Len(codes)])
  BY <1>9 DEF ReadSoFar
<1>11. Begin(H!Bits', turns)
  <2>1. H!Bits' = H!FlattenSeq(SubSeq(output, dataStart', Len(output)))
    BY DEF H!Bits
  <2> QED  BY <1>1, <1>2, <1>3, <1>7, <1>8, <1>10, <2>1, DataRead
<1> DEFINE Owner(way) == CHOOSE k \in 1 .. Len(codes) : codes[k].turns = way
<1>12. leaves' = [way \in {codes[k].turns : k \in 1 .. Len(codes)} |-> codes[Owner(way)].value]
  BY <1>9 DEF ReadSoFar
<1>13. DOMAIN leaves' = {book[v] : v \in H!Range(t)}
  <2>1. DOMAIN leaves' = {codes[k].turns : k \in 1 .. Len(codes)}
    BY <1>12
  <2> QED  BY <1>4, <2>1 DEF OfTree
<1>14. ASSUME NEW v \in H!Range(t) PROVE leaves'[book[v]] = v
  <2>1. PICK k \in 1 .. Len(codes) : codes[k].value = v /\ codes[k].turns = book[v]
    BY <1>4 DEF OfTree
  <2>2. \A i \in 1 .. Len(codes) : codes[i].turns = book[v] => i = k
    BY <1>3, <2>1, OwnTurns DEF Small
  <2>3. Owner(book[v]) = k
    BY <2>1, <2>2
  <2> HIDE DEF Owner
  <2> QED  BY <1>12, <2>1, <2>3
<1>15. h[0] = <<>> /\ 0 \in 0 .. Len(t)
  BY <1>6 DEF Joins
<1>16. bitsRead' = Len(h[0])
  BY <1>15
<1>17. Reading(t, book, h, 0)'
  BY <1>1, <1>4, <1>6, <1>7, <1>11, <1>13, <1>14, <1>15, <1>16 DEF Reading
<1>18. output'[1] = Len(t)
  BY <1>8 DEF Stream
<1> QED  BY <1>17, <1>18

-----------------------------------------------------------------------------
(* The Expander *)

\* The Expander is where the code of the next character begins.
Reads(t, n) ==
    /\ output[1] = Len(t)
    /\ \E book, h : Reading(t, book, h, n)

\* What was expanded is the first part of the text.
Expanded ==
    /\ text \in Seq(Letter) /\ expanded \in Seq(Letter)
    /\ Len(expanded) <= Len(text)
    /\ \A k \in 1 .. Len(expanded) : expanded[k] = text[k]

\* What is left of what this Expand was asked.
Asked ==
    /\ byteCount \in Nat /\ from \in [count : Nat, asked : Nat]
    /\ Len(expanded) + byteCount = from.count + from.asked
    /\ coding \in {"logic_error", "out_of_range"} => Len(expanded) + byteCount > Len(text)

Unread == {"idle", "runtime_error", "compressed"}
Read == {"open", "expanding", "logic_error", "out_of_range"}

\* The stream, before and behind its tree.
Stages ==
    /\ coding \in Unread \cup Read
    /\ coding \in Unread => expanded = <<>> /\ bitsRead = 0
    /\ coding = "compressed" => text # <<>> /\ output = H!Written(text)
    /\ coding \in Read => \E t, n : t = text /\ n = Len(expanded) /\ Reads(t, n)

HuffmanOK == Expanded /\ Asked /\ Stages

LEMMA NothingRead == H!Init => HuffmanOK
<1> SUFFICES ASSUME H!Init PROVE HuffmanOK
  OBVIOUS
<1>1. <<>> \in Seq(Letter) /\ Len(<<>>) = 0
  OBVIOUS
<1>2. Expanded
  BY <1>1 DEF H!Init, Expanded
<1>3. Asked
  BY <1>1 DEF H!Init, Asked
<1>4. Stages
  BY DEF H!Init, Stages, Unread, Read
<1> QED  BY <1>2, <1>3, <1>4 DEF HuffmanOK

LEMMA Compresses ==
    ASSUME HuffmanSizes, HuffmanOK, H!Compress
    PROVE  HuffmanOK'
<1>1. PICK t \in H!BoundedSeq(Letter, MaxLength) \ {<<>>} :
            /\ text' = t
            /\ \/ coding' = "runtime_error"
               \/ coding' = "compressed" /\ output' = H!Written(t)
  BY DEF H!Compress
<1>2. t \in Seq(Letter) /\ t # <<>>
  <2>1. PICK n \in 0 .. MaxLength : t \in [1 .. n -> Letter]
    BY <1>1 DEF H!BoundedSeq, H!SeqOf
  <2>2. n \in Nat
    BY <2>1 DEF HuffmanSizes
  <2> QED  BY <1>1, <2>1, <2>2
<1>3. /\ coding = "idle" /\ expanded = <<>> /\ bitsRead = 0
      /\ expanded' = expanded /\ bitsRead' = bitsRead /\ byteCount' = byteCount /\ from' = from
  BY DEF H!Compress, HuffmanOK, Stages, Unread
<1>4. Expanded'
  <2>1. Len(t) \in Nat /\ Len(<<>>) = 0
    BY <1>2
  <2> QED  BY <1>1, <1>2, <1>3, <2>1 DEF HuffmanOK, Expanded
<1>5. Asked'
  BY <1>1, <1>3 DEF HuffmanOK, Asked
<1>6. Stages'
  <2>1. H!Written(t)' = H!Written(t)
    BY DEF H!Written
  <2> QED  BY <1>1, <1>2, <1>3 DEF Stages, Unread, Read
<1> QED  BY <1>4, <1>5, <1>6 DEF HuffmanOK

LEMMA Opens ==
    ASSUME HuffmanSizes, HuffmanOK, H!Open
    PROVE  HuffmanOK'
<1>1. PICK t : t = text
  OBVIOUS
<1>2. /\ t \in Seq(Letter) /\ t # <<>> /\ output = H!Written(t)
      /\ expanded = <<>> /\ bitsRead = 0
  BY <1>1 DEF H!Open, HuffmanOK, Expanded, Stages, Unread
<1>3. /\ leaves' = H!ReadNodes.leaves /\ dataStart' = H!ReadNodes.at /\ coding' = "open"
      /\ text' = text /\ output' = output /\ bitsRead' = bitsRead
      /\ expanded' = expanded /\ byteCount' = byteCount /\ from' = from
  BY DEF H!Open
<1>4. output'[1] = Len(t) /\ \E book, h : Reading(t, book, h, 0)'
  BY <1>2, <1>3, Opened
<1>5. Reads(t, 0)'
  BY <1>4 DEF Reads
<1>6. Expanded' /\ Asked'
  BY <1>3 DEF HuffmanOK, Expanded, Asked
<1>7. Stages'
  <2>1. t = text' /\ 0 = Len(expanded')
    BY <1>1, <1>2, <1>3
  <2>2. \E s, n : (s = text /\ n = Len(expanded) /\ Reads(s, n))'
    BY <1>5, <2>1
  <2> QED  BY <1>3, <2>2 DEF Stages, Unread, Read
<1> QED  BY <1>6, <1>7 DEF HuffmanOK

\* A step that leaves the stream and the Expander's place in it.
LEMMA StaysThere ==
    ASSUME NEW t, NEW n, Reads(t, n),
           output' = output, leaves' = leaves, dataStart' = dataStart, bitsRead' = bitsRead
    PROVE  Reads(t, n)'
<1>1. output'[1] = Len(t)
  BY DEF Reads
<1>2. PICK book, h : Reading(t, book, h, n)
  BY DEF Reads
<1>3. H!Bits' = H!Bits
  BY DEF H!Bits
<1>4. Reading(t, book, h, n)'
  BY <1>2, <1>3 DEF Reading
<1> QED  BY <1>1, <1>4 DEF Reads

LEMMA StaysRead ==
    ASSUME HuffmanOK, coding \in Read, coding' \in Read, expanded' = expanded, text' = text,
           output' = output, leaves' = leaves, dataStart' = dataStart, bitsRead' = bitsRead
    PROVE  Expanded' /\ Stages'
<1>1. PICK t, n : t = text /\ n = Len(expanded) /\ Reads(t, n)
  BY DEF HuffmanOK, Stages
<1>2. Reads(t, n)'
  BY <1>1, StaysThere
<1>3. \E s, m : (s = text /\ m = Len(expanded) /\ Reads(s, m))'
  BY <1>1, <1>2
<1>4. Stages'
  BY <1>3 DEF Stages, Unread, Read
<1> QED  BY <1>4 DEF HuffmanOK, Expanded

LEMMA ExpandsSome ==
    ASSUME HuffmanSizes, HuffmanOK, NEW n \in Request, H!Expand(n)
    PROVE  HuffmanOK'
<1>1. /\ coding = "open" /\ from' = [count |-> Len(expanded), asked |-> n] /\ byteCount' = n
      /\ coding' = (IF n > output[1] THEN "out_of_range" ELSE "expanding")
      /\ text' = text /\ output' = output /\ leaves' = leaves /\ dataStart' = dataStart
      /\ bitsRead' = bitsRead /\ expanded' = expanded
  BY DEF H!Expand, H!GetExpandedSize
<1>2. Expanded' /\ Stages'
  BY <1>1, StaysRead DEF Read
<1>3. output[1] = Len(text)
  BY <1>1 DEF HuffmanOK, Stages, Read, Reads
<1>4. n \in Nat /\ Len(expanded) \in Nat /\ Len(text) \in Nat
  BY DEF HuffmanSizes, HuffmanOK, Expanded
<1>5. Asked'
  BY <1>1, <1>3, <1>4 DEF Asked
<1> QED  BY <1>2, <1>5 DEF HuffmanOK

\* An ExpandValue expands the next character, or tells that there is none.
LEMMA ExpandsNext ==
    ASSUME HuffmanSizes, HuffmanOK, H!ExpandValue
    PROVE  HuffmanOK'
<1>1. /\ coding = "expanding" /\ byteCount > 0
      /\ text' = text /\ output' = output /\ leaves' = leaves
      /\ dataStart' = dataStart /\ from' = from
  BY DEF H!ExpandValue
<1>2. PICK t, n, book, h :
            /\ t = text /\ n = Len(expanded) /\ Reads(t, n)
            /\ output[1] = Len(t) /\ Reading(t, book, h, n)
  BY <1>1 DEF HuffmanOK, Stages, Read, Reads
<1>3. /\ t \in Seq(Letter) /\ expanded \in Seq(Letter) /\ n \in Nat /\ Len(t) \in Nat /\ n <= Len(t)
      /\ \A k \in 1 .. n : expanded[k] = t[k]
  BY <1>2 DEF HuffmanOK, Expanded
<1>4. byteCount \in Nat /\ from \in [count : Nat, asked : Nat] /\ n + byteCount = from.count + from.asked
  BY <1>2 DEF HuffmanOK, Asked
<1>5. CASE n = Len(t)
  <2>1. coding' = "logic_error" /\ bitsRead' = bitsRead /\ expanded' = expanded /\ byteCount' = byteCount
    BY <1>2, <1>5 DEF H!ExpandValue, H!GetExpandedSize
  <2>2. Expanded' /\ Stages'
    BY <1>1, <2>1, StaysRead DEF Read
  <2>3. n + byteCount > Len(t)
    BY <1>1, <1>3, <1>4, <1>5
  <2>4. Asked'
    BY <1>1, <1>2, <1>4, <2>1, <2>3 DEF Asked
  <2> QED  BY <2>2, <2>4 DEF HuffmanOK
<1>6. CASE n # Len(t)
  <2>1. n < Len(t) /\ n + 1 \in 1 .. Len(t) /\ n + 1 \in 0 .. Len(t)
    BY <1>3, <1>6
  <2>2. PICK m : m = Len(h[n + 1])
    OBVIOUS
  <2>3. H!Ends = {m} /\ m \in Nat /\ leaves[SubSeq(H!Bits, bitsRead + 1, m)] = t[n + 1]
    BY <1>2, <1>3, <2>1, <2>2, NextLetter
  <2>4. H!Min(H!Ends) = m
    <3>1. m <= m
      BY <2>3
    <3> QED  BY <2>3, <3>1 DEF H!Min
  <2>5. /\ coding' = coding /\ bitsRead' = m /\ expanded' = Append(expanded, t[n + 1])
        /\ byteCount' = byteCount - 1
    <3>1. H!Ends # {} /\ Len(expanded) # output[1]
      BY <1>2, <1>6, <2>3
    <3> QED  BY <2>3, <2>4, <3>1 DEF H!ExpandValue, H!GetExpandedSize
  <2>6. t[n + 1] \in Letter
    BY <1>3, <2>1
  <2>7. /\ expanded' \in Seq(Letter) /\ Len(expanded') = n + 1
        /\ \A k \in 1 .. n + 1 : expanded'[k] = t[k]
    <3>1. expanded' \in Seq(Letter) /\ Len(expanded') = n + 1
      BY <1>2, <1>3, <2>5, <2>6
    <3>2. ASSUME NEW k \in 1 .. n + 1 PROVE expanded'[k] = t[k]
      BY <1>2, <1>3, <2>5, <2>6, <3>2
    <3> QED  BY <3>1, <3>2
  <2>8. Expanded'
    BY <1>1, <1>2, <1>3, <2>1, <2>7 DEF Expanded
  <2>9. Asked'
    <3>1. byteCount' \in Nat /\ (n + 1) + byteCount' = from.count + from.asked
      BY <1>1, <1>3, <1>4, <2>5
    <3> QED  BY <1>1, <1>4, <2>5, <2>7, <3>1 DEF Asked
  <2>10. Reads(t, n + 1)'
    <3>1. H!Bits' = H!Bits
      BY <1>1 DEF H!Bits
    <3>2. Reading(t, book, h, n + 1)'
      BY <1>1, <1>2, <2>1, <2>2, <2>5, <3>1 DEF Reading
    <3> QED  BY <1>1, <1>2, <3>2 DEF Reads
  <2>11. Stages'
    <3>1. \E s, i : (s = text /\ i = Len(expanded) /\ Reads(s, i))'
      BY <1>1, <1>2, <2>7, <2>10
    <3> QED  BY <1>1, <2>5, <3>1 DEF Stages, Unread, Read
  <2> QED  BY <2>8, <2>9, <2>11 DEF HuffmanOK
<1> QED  BY <1>5, <1>6

LEMMA Ending ==
    ASSUME HuffmanOK, H!EndExpand \/ H!Catch
    PROVE  HuffmanOK'
<1>1. /\ coding \in Read /\ coding' = "open" /\ text' = text /\ output' = output /\ leaves' = leaves
      /\ dataStart' = dataStart /\ bitsRead' = bitsRead /\ expanded' = expanded
      /\ byteCount' = byteCount /\ from' = from
  BY DEF H!EndExpand, H!Catch, Read
<1>2. Expanded' /\ Stages'
  BY <1>1, StaysRead DEF Read
<1>3. Asked'
  BY <1>1 DEF HuffmanOK, Asked
<1> QED  BY <1>2, <1>3 DEF HuffmanOK

\* The first part of a text is a prefix of it.
LEMMA ExpandedIsPrefix ==
    ASSUME Expanded
    PROVE  H!IsPrefix(expanded, text)
<1>1. PICK s, t, n : s = expanded /\ t = text /\ n = Len(s)
  OBVIOUS
<1>2. /\ s \in Seq(Letter) /\ t \in Seq(Letter) /\ n \in Nat /\ n <= Len(s) /\ n <= Len(t)
      /\ \A k \in 1 .. n : s[k] = t[k]
  BY <1>1 DEF Expanded
<1>3. IsPart(Letter, s, 1, n) /\ IsPart(Letter, t, 1, n)
  BY <1>2, Part
<1>4. SubSeq(s, 1, n) = SubSeq(t, 1, n)
  <2>1. PICK a, b : a = SubSeq(s, 1, n) /\ b = SubSeq(t, 1, n)
    OBVIOUS
  <2>2. n - 1 + 1 = n /\ \A k \in 1 .. n : 1 + k - 1 = k
    BY <1>2
  <2>3. /\ a \in Seq(Letter) /\ b \in Seq(Letter) /\ Len(a) = n /\ Len(b) = n
        /\ \A k \in 1 .. n : a[k] = s[k] /\ b[k] = t[k]
    BY <1>3, <2>1, <2>2 DEF IsPart
  <2>4. \A k \in 1 .. n : a[k] = b[k]
    BY <1>2, <2>3
  <2> QED  BY <2>1, <2>3, <2>4, SeqEqual
<1> QED  BY <1>1, <1>2, <1>4 DEF H!IsPrefix

\* huffman.h, huffman.cpp: whatever text was compressed and in whatever pieces
\* it is asked for, the Expander writes the text from its beginning, never
\* follows a null pointer, fails only when asked for more than is left, and
\* otherwise expands all that it was asked for.
THEOREM EveryTextExpands ==
    ASSUME HuffmanSizes
    PROVE  H!Spec => []RoundTrip
<1>1. H!Init => HuffmanOK
  BY NothingRead
<1>2. HuffmanOK /\ [H!Next]_(H!vars) => HuffmanOK'
  <2> SUFFICES ASSUME HuffmanOK, [H!Next]_(H!vars) PROVE HuffmanOK'
    OBVIOUS
  <2>1. CASE H!Compress
    BY <2>1, Compresses
  <2>2. CASE H!Open
    BY <2>2, Opens
  <2>3. ASSUME NEW n \in Request, H!Expand(n) PROVE HuffmanOK'
    BY <2>3, ExpandsSome
  <2>4. CASE H!ExpandValue
    BY <2>4, ExpandsNext
  <2>5. CASE H!EndExpand \/ H!Catch
    BY <2>5, Ending
  <2>6. CASE UNCHANGED H!vars
    <3>1. H!Written(text)' = H!Written(text)
      BY <2>6 DEF H!vars, H!Written
    <3>2. Expanded' /\ Asked'
      BY <2>6 DEF H!vars, HuffmanOK, Expanded, Asked
    <3>3. CASE coding \in Read
      <4>1. Stages'
        BY <2>6, <3>3, StaysRead DEF H!vars
      <4> QED  BY <3>2, <4>1 DEF HuffmanOK
    <3>4. CASE coding \notin Read
      <4>1. Stages'
        BY <2>6, <3>1, <3>4 DEF H!vars, HuffmanOK, Stages
      <4> QED  BY <3>2, <4>1 DEF HuffmanOK
    <3> QED  BY <3>3, <3>4
  <2> QED  BY <2>1, <2>2, <2>3, <2>4, <2>5, <2>6 DEF H!Next
<1>3. HuffmanOK => RoundTrip
  <2> SUFFICES ASSUME HuffmanOK PROVE RoundTrip
    OBVIOUS
  <2>1. H!IsPrefix(expanded, text)
    BY ExpandedIsPrefix DEF HuffmanOK
  <2>2. coding # "undefined"
    BY DEF HuffmanOK, Stages, Unread, Read
  <2>3. /\ byteCount \in Nat /\ from.count \in Nat /\ from.asked \in Nat /\ Len(expanded) \in Nat
        /\ Len(expanded) + byteCount = from.count + from.asked
        /\ coding \in {"logic_error", "out_of_range"} => Len(expanded) + byteCount > Len(text)
    BY DEF HuffmanOK, Expanded, Asked
  <2> QED  BY <2>1, <2>2, <2>3 DEF RoundTrip, H!RoundTrip
<1> QED  BY <1>1, <1>2, <1>3, PTL DEF H!Spec
=============================================================================
