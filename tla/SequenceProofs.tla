--------------------------- MODULE SequenceProofs ---------------------------
(***************************************************************************)
(* What the other proofs need of numbers, recursive functions and sequences, *)
(* and what becomes of a text that is split and joined again.               *)
(***************************************************************************)
EXTENDS Integers, FiniteSets, Sequences, SequenceTheorems, FiniteSetTheorems,
        WellFoundedInduction, TLAPS

Str == INSTANCE Strings

-----------------------------------------------------------------------------
(* The least and the largest of a set of numbers *)

LEMMA LeastElement ==
    ASSUME NEW S \in SUBSET Nat, S # {}
    PROVE  \E n \in S : \A m \in S : n <= m
<1>1. PICK n \in S : \A m \in S : ~(<<m, n>> \in OpToRel(<, Nat))
  BY NatLessThanWellFounded, WFMin
<1>2. \A m \in S : ~(m < n)
  BY <1>1 DEF OpToRel
<1> QED  BY <1>2

LEMMA LargestElement ==
    ASSUME NEW N \in Nat, NEW S \in SUBSET (1 .. N), S # {}
    PROVE  \E x \in S : \A y \in S : x >= y
<1> DEFINE Rest == {n \in 0 .. N : N - n \in S}
<1>1. PICK z : z \in S
  OBVIOUS
<1>2. N - z \in Rest /\ Rest \in SUBSET Nat
  BY <1>1
<1> HIDE DEF Rest
<1>3. PICK n \in Rest : \A m \in Rest : n <= m
  BY <1>2, LeastElement
<1>4. n \in 0 .. N /\ N - n \in S
  BY <1>3 DEF Rest
<1>5. ASSUME NEW y \in S PROVE N - n >= y
  <2>1. N - y \in Rest
    BY DEF Rest
  <2> QED  BY <1>3, <1>4, <2>1
<1> QED  BY <1>4, <1>5

-----------------------------------------------------------------------------
(* Recursive functions on 0 .. N *)

\* The function f has the value `first` at 0 and goes by steps from n - 1 to n.
Recurs(f, N, Terms, first, step) ==
    /\ f \in [0 .. N -> Terms]
    /\ f[0] = first
    /\ \A n \in 1 .. N : f[n] = step[<<n, f[n - 1]>>]

LEMMA Recursion ==
    ASSUME NEW N \in Nat, NEW Terms, NEW first \in Terms, NEW step \in [(1 .. N) \X Terms -> Terms]
    PROVE  \E f : Recurs(f, N, Terms, first, step)
<1> DEFINE Is(f, n) == Recurs(f, n, Terms, first, step)
           Bad == {n \in 0 .. N : ~ \E f : Is(f, n)}
<1> USE DEF Recurs
<1>1. Is([i \in 0 .. 0 |-> first], 0)
  OBVIOUS
<1>2. ASSUME NEW n \in 1 .. N, NEW f, Is(f, n - 1) PROVE \E longer : Is(longer, n)
  <2> DEFINE longer == [i \in 0 .. n |-> IF i = n THEN step[<<n, f[n - 1]>>] ELSE f[i]]
  <2>1. /\ n - 1 \in 0 .. n - 1
        /\ \A i \in 0 .. n : i # n => i \in 0 .. n - 1
        /\ \A i \in 1 .. n : i - 1 \in 0 .. n - 1 /\ i - 1 \in 0 .. n /\ i - 1 # n /\ i \in 0 .. n
        /\ \A i \in 1 .. n : i # n => i \in 1 .. n - 1
        /\ 0 \in 0 .. n /\ 0 # n
    OBVIOUS
  <2>2. f[n - 1] \in Terms /\ step[<<n, f[n - 1]>>] \in Terms
    BY <1>2, <2>1
  <2>3. longer \in [0 .. n -> Terms] /\ longer[0] = first
    BY <1>2, <2>1, <2>2
  <2>4. ASSUME NEW i \in 1 .. n PROVE longer[i] = step[<<i, longer[i - 1]>>]
    <3>1. longer[i - 1] = f[i - 1]
      BY <2>1
    <3>2. CASE i = n
      BY <2>1, <3>1, <3>2
    <3>3. CASE i # n
      BY <1>2, <2>1, <3>1, <3>3
    <3> QED  BY <3>2, <3>3
  <2> HIDE DEF longer
  <2> QED  BY <2>3, <2>4
<1> HIDE DEF Is, Recurs
<1>3. ASSUME Bad # {} PROVE FALSE
  <2>1. Bad \in SUBSET Nat
    OBVIOUS
  <2>2. PICK n \in Bad : \A m \in Bad : n <= m
    <3> HIDE DEF Bad
    <3> QED  BY <1>3, <2>1, LeastElement
  <2>3. n # 0
    BY <1>1, <2>2
  <2>4. n \in 1 .. N /\ n - 1 \in 0 .. N /\ ~(n <= n - 1)
    BY <2>2, <2>3
  <2>5. \E f : Is(f, n - 1)
    BY <2>2, <2>4
  <2> QED  BY <1>2, <2>2, <2>4, <2>5
<1>4. PICK f : Is(f, N)
  BY <1>3
<1> QED  BY <1>4 DEF Is

-----------------------------------------------------------------------------
(* Sums *)

Total(values) == Str!FoldLeft(+, 0, values)

LEMMA RemainderOf ==
    ASSUME NEW a \in Int, NEW m \in Nat \ {0}, NEW q \in Int, NEW r \in 0 .. m - 1,
           a = m * q + r
    PROVE  a % m = r
OBVIOUS

\* The remainder of a sum is that of the sum with a remainder.
LEMMA AddedRemainder ==
    ASSUME NEW a \in Int, NEW b \in Int, NEW m \in Nat \ {0}
    PROVE  ((a % m) + b) % m = (a + b) % m
<1> DEFINE q == a \div m
           r == a % m
           p == (r + b) \div m
           s == (r + b) % m
<1>1. q \in Int /\ r \in Int /\ a = m * q + r
  OBVIOUS
<1>2. r + b \in Int /\ p \in Int /\ s \in 0 .. m - 1 /\ r + b = m * p + s
  <2> HIDE DEF r
  <2> QED  BY <1>1
<1> HIDE DEF q, r, p, s
<1>3. a + b = m * (q + p) + s
  BY <1>1, <1>2
<1>4. (a + b) % m = s
  <2>1. q + p \in Int /\ a + b \in Int
    BY <1>1, <1>2
  <2> QED  BY <1>2, <1>3, <2>1, RemainderOf
<1> QED  BY <1>4 DEF r, s

\* The sums of the first values of a sequence.
Sums(values, sum) ==
    /\ sum \in [0 .. Len(values) -> Nat]
    /\ sum[0] = 0
    /\ \A n \in 1 .. Len(values) : sum[n] = sum[n - 1] + values[n]

LEMMA TotalIsSum ==
    ASSUME NEW values \in Seq(Nat)
    PROVE  \E sum : Sums(values, sum) /\ Total(values) = sum[Len(values)]
<1> DEFINE N == Len(values)
           Step(iter, s) == IF s = {} THEN 0
                            ELSE iter[s \ {Str!Max(s)}] + values[Str!Max(s)]
           IsFold(iter, n) == iter = [s \in SUBSET (1 .. n) |-> Step(iter, s)]
           fold == CHOOSE iter : iter = [s \in SUBSET DOMAIN values |-> Step(iter, s)]
<1>1. Total(values) = fold[DOMAIN values]
  BY DEF Total, Str!FoldLeft, Str!MapThenFoldSet
<1>2. DOMAIN values = 1 .. N /\ N \in Nat /\ \A n \in 1 .. N : values[n] \in Nat
  OBVIOUS
<1> HIDE DEF N
<1>3. ASSUME NEW n \in 0 .. N, NEW s \in SUBSET (1 .. n), s # {}
      PROVE  /\ Str!Max(s) \in s /\ \A y \in s : Str!Max(s) >= y
             /\ n \in s => Str!Max(s) = n
  <2>1. \E x \in s : \A y \in s : x >= y
    <3>1. n \in Nat
      BY <1>2
    <3> QED  BY <1>3, <3>1, LargestElement
  <2>2. Str!Max(s) \in s /\ \A y \in s : Str!Max(s) >= y
    BY <2>1 DEF Str!Max
  <2>3. ASSUME n \in s PROVE Str!Max(s) = n
    <3>1. PICK x : x = Str!Max(s)
      OBVIOUS
    <3>2. n \in Nat /\ x \in s /\ x >= n
      BY <1>2, <2>2, <2>3, <3>1
    <3>3. x \in 1 .. n
      BY <3>2
    <3>4. x = n
      BY <3>2, <3>3
    <3> QED  BY <3>1, <3>4
  <2> QED  BY <2>2, <2>3
<1>4. ASSUME NEW n \in 1 .. N, NEW iter, IsFold(iter, n - 1)
      PROVE  \E longer : IsFold(longer, n)
  <2> DEFINE longer == [s \in SUBSET (1 .. n) |->
                            IF n \in s THEN iter[s \ {n}] + values[n] ELSE iter[s]]
  <2>1. ASSUME NEW s \in SUBSET (1 .. n) PROVE longer[s] = Step(longer, s)
    <3>1. n \in Nat /\ n \in 0 .. N /\ n - 1 \in 0 .. N
          /\ \A x \in 1 .. n : x # n => x \in 1 .. n - 1
      BY <1>2
    <3>2. CASE n \in s
      <4>1. Str!Max(s) = n /\ s # {}
        BY <1>3, <3>1, <3>2
      <4>2. s \ {n} \in SUBSET (1 .. n) /\ n \notin s \ {n}
        OBVIOUS
      <4>3. longer[s \ {n}] = iter[s \ {n}]
        BY <4>2
      <4> HIDE DEF longer
      <4>4. longer[s] = iter[s \ {n}] + values[n]
        BY <3>2 DEF longer
      <4> QED  BY <4>1, <4>3, <4>4
    <3>3. CASE n \notin s
      <4>1. s \in SUBSET (1 .. n - 1)
        BY <3>1, <3>3
      <4>2. longer[s] = iter[s] /\ iter[s] = Step(iter, s)
        BY <1>4, <3>3, <4>1
      <4>3. s # {} => longer[s \ {Str!Max(s)}] = iter[s \ {Str!Max(s)}]
        BY <3>3
      <4> HIDE DEF longer
      <4> QED  BY <4>2, <4>3
    <3> QED  BY <3>2, <3>3
  <2>2. IsFold(longer, n)
    <3>1. longer = [s \in SUBSET (1 .. n) |-> longer[s]]
      OBVIOUS
    <3> HIDE DEF longer, Step
    <3> QED  BY <2>1, <3>1
  <2> HIDE DEF IsFold, longer
  <2> QED  BY <2>2
<1>5. \A n \in 0 .. N : \E iter : IsFold(iter, n)
  <2> DEFINE Bad == {n \in 0 .. N : ~ \E iter : IsFold(iter, n)}
  <2> SUFFICES ASSUME Bad # {} PROVE FALSE
    OBVIOUS
  <2>1. Bad \in SUBSET Nat
    OBVIOUS
  <2>2. PICK n \in Bad : \A m \in Bad : n <= m
    <3> HIDE DEF Bad
    <3> QED  BY <2>1, LeastElement
  <2>3. n # 0
    <3>1. IsFold([s \in SUBSET (1 .. 0) |-> 0], 0)
      OBVIOUS
    <3> HIDE DEF IsFold
    <3> QED  BY <3>1
  <2> HIDE DEF IsFold
  <2>4. n \in 1 .. N /\ n - 1 \in 0 .. N /\ ~(n <= n - 1)
    BY <1>2, <2>2, <2>3
  <2>5. \E iter : IsFold(iter, n - 1)
    BY <2>2, <2>4
  <2> QED  BY <1>4, <2>2, <2>4, <2>5
<1>6. IsFold(fold, N)
  <2>1. \E iter : IsFold(iter, N)
    <3> HIDE DEF IsFold
    <3> QED  BY <1>2, <1>5
  <2> HIDE DEF Step
  <2> QED  BY <1>2, <2>1
<1> HIDE DEF fold
<1> DEFINE sum == [n \in 0 .. N |-> fold[1 .. n]]
<1>7. fold[1 .. 0] = 0
  BY <1>2, <1>6
<1>8. ASSUME NEW n \in 1 .. N PROVE fold[1 .. n] = fold[1 .. n - 1] + values[n]
  <2>1. /\ n \in 0 .. N /\ n \in 1 .. n /\ 1 .. n \in SUBSET (1 .. N)
        /\ 1 .. n \in SUBSET (1 .. n) /\ 1 .. n # {}
    <3>1. n \in Nat /\ n <= N /\ n \in 1 .. n /\ n \in 0 .. N
      BY <1>2
    <3>2. \A x \in 1 .. n : x \in 1 .. N
      BY <1>2, <3>1
    <3> QED  BY <3>1, <3>2
  <2>2. Str!Max(1 .. n) = n
    BY <1>3, <2>1
  <2>3. (1 .. n) \ {n} = 1 .. n - 1
    <3>1. \A i : i \in (1 .. n) \ {n} <=> i \in 1 .. n - 1
      BY <1>2
    <3> QED  BY <3>1
  <2>4. fold[1 .. n] = Step(fold, 1 .. n)
    BY <1>6, <2>1
  <2> QED  BY <2>1, <2>2, <2>3, <2>4
<1>9. \A n \in 0 .. N : fold[1 .. n] \in Nat
  <2> DEFINE Bad == {n \in 0 .. N : fold[1 .. n] \notin Nat}
  <2> SUFFICES ASSUME Bad # {} PROVE FALSE
    OBVIOUS
  <2>1. Bad \in SUBSET Nat
    OBVIOUS
  <2>2. PICK n \in Bad : \A m \in Bad : n <= m
    <3> HIDE DEF Bad
    <3> QED  BY <2>1, LeastElement
  <2>3. n # 0
    BY <1>7, <2>2
  <2>4. n \in 1 .. N /\ n - 1 \in 0 .. N /\ ~(n <= n - 1)
    BY <1>2, <2>2, <2>3
  <2>5. fold[1 .. n - 1] \in Nat
    BY <2>2, <2>4
  <2> QED  BY <1>2, <1>8, <2>2, <2>4, <2>5
<1>10. Sums(values, sum) /\ sum[N] = fold[DOMAIN values]
  <2>1. sum \in [0 .. N -> Nat] /\ sum[0] = 0
    BY <1>2, <1>7, <1>9
  <2>2. ASSUME NEW n \in 1 .. N PROVE sum[n] = sum[n - 1] + values[n]
    <3>1. n \in 0 .. N /\ n - 1 \in 0 .. N
      BY <1>2
    <3> QED  BY <1>8, <3>1
  <2>3. sum[N] = fold[DOMAIN values]
    BY <1>2
  <2> HIDE DEF sum
  <2> QED  BY <2>1, <2>2, <2>3 DEF Sums, N
<1> HIDE DEF sum
<1> QED  BY <1>1, <1>10 DEF N


\* Two sums of one sequence are the same.
LEMMA SumsAgree ==
    ASSUME NEW values \in Seq(Nat), NEW sum, NEW other, Sums(values, sum), Sums(values, other)
    PROVE  sum[Len(values)] = other[Len(values)]
<1> DEFINE N == Len(values)
           Bad == {n \in 0 .. N : sum[n] # other[n]}
<1>1. N \in Nat /\ sum[0] = other[0]
      /\ \A n \in 1 .. N : sum[n] = sum[n - 1] + values[n] /\ other[n] = other[n - 1] + values[n]
  BY DEF Sums
<1> HIDE DEF N
<1>2. Bad \in SUBSET Nat
  OBVIOUS
<1>3. ASSUME Bad # {} PROVE FALSE
  <2>1. PICK n \in Bad : \A m \in Bad : n <= m
    <3> HIDE DEF Bad
    <3> QED  BY <1>2, <1>3, LeastElement
  <2>2. n # 0
    BY <1>1, <2>1
  <2>3. n \in 1 .. N /\ n - 1 \in 0 .. N /\ ~(n <= n - 1)
    BY <1>1, <2>1, <2>2
  <2>4. sum[n - 1] = other[n - 1]
    BY <2>1, <2>3
  <2> QED  BY <1>1, <2>1, <2>3, <2>4
<1> QED  BY <1>1, <1>3 DEF N

\* The total is that of every function that sums up the values.
LEMMA TotalIs ==
    ASSUME NEW values \in Seq(Nat), NEW sum, Sums(values, sum)
    PROVE  Total(values) = sum[Len(values)] /\ Total(values) \in Nat
<1>1. PICK other : Sums(values, other) /\ Total(values) = other[Len(values)]
  BY TotalIsSum
<1>2. sum[Len(values)] \in Nat
  BY DEF Sums
<1> QED  BY <1>1, <1>2, SumsAgree

LEMMA TotalIsNat == \A values \in Seq(Nat) : Total(values) \in Nat
<1> TAKE values \in Seq(Nat)
<1>1. PICK sum : Sums(values, sum) /\ Total(values) = sum[Len(values)]
  BY TotalIsSum
<1> QED  BY <1>1, TotalIs

LEMMA TotalOfSame ==
    ASSUME NEW n \in Nat, NEW value \in Nat, NEW values, values = [i \in 1 .. n |-> value]
    PROVE  Total(values) = value * n
<1> DEFINE sum == [i \in 0 .. n |-> value * i]
<1>1. values \in Seq(Nat) /\ Len(values) = n /\ \A i \in 1 .. n : values[i] = value
  OBVIOUS
<1>2. \A i \in 0 .. n : value * i \in Nat
  OBVIOUS
<1>3. \A i \in 1 .. n : value * i = value * (i - 1) + value
  OBVIOUS
<1>4. sum \in [0 .. n -> Nat] /\ sum[0] = 0 /\ sum[n] = value * n
  BY <1>2
<1>5. ASSUME NEW i \in 1 .. n PROVE sum[i] = sum[i - 1] + values[i]
  <2>1. i \in 0 .. n /\ i - 1 \in 0 .. n
    OBVIOUS
  <2> QED  BY <1>1, <1>3, <2>1
<1> HIDE DEF sum
<1>6. Sums(values, sum)
  BY <1>1, <1>4, <1>5 DEF Sums
<1> QED  BY <1>1, <1>4, <1>6, TotalIs

\* A value goes, and one comes.
LEMMA TotalMovesOn ==
    ASSUME NEW values \in Seq(Nat), Len(values) > 0, NEW value \in Nat
    PROVE  /\ Append(Tail(values), value) \in Seq(Nat)
           /\ Len(Append(Tail(values), value)) = Len(values)
           /\ \A i \in 1 .. Len(values) - 1 : Append(Tail(values), value)[i] = values[i + 1]
           /\ Append(Tail(values), value)[Len(values)] = value
           /\ Total(Append(Tail(values), value)) = Total(values) - values[1] + value
<1>1. PICK N : N = Len(values)
  OBVIOUS
<1>2. PICK moved : moved = Append(Tail(values), value)
  OBVIOUS
<1>3. /\ N \in Nat \ {0} /\ \A i \in 1 .. N : values[i] \in Nat
      /\ moved \in Seq(Nat) /\ Len(moved) = N
      /\ \A i \in 1 .. N - 1 : moved[i] = values[i + 1]
      /\ moved[N] = value
  BY <1>1, <1>2
<1>4. PICK sum : Sums(values, sum) /\ Total(values) = sum[N]
  BY <1>1, TotalIsSum
<1>5. PICK other : Sums(moved, other) /\ Total(moved) = other[N]
  BY <1>3, TotalIsSum
<1>6. /\ sum \in [0 .. N -> Nat] /\ sum[0] = 0
      /\ \A n \in 1 .. N : sum[n] = sum[n - 1] + values[n]
  BY <1>1, <1>4 DEF Sums
<1>7. /\ other \in [0 .. N -> Nat] /\ other[0] = 0
      /\ \A n \in 1 .. N : other[n] = other[n - 1] + moved[n]
  BY <1>3, <1>5 DEF Sums
<1>8. \A n \in 0 .. N - 1 : other[n] = sum[n + 1] - values[1]
  <2> DEFINE Bad == {n \in 0 .. N - 1 : other[n] # sum[n + 1] - values[1]}
  <2> SUFFICES ASSUME Bad # {} PROVE FALSE
    OBVIOUS
  <2>1. Bad \in SUBSET Nat
    BY <1>3
  <2>2. PICK n \in Bad : \A m \in Bad : n <= m
    <3> HIDE DEF Bad
    <3> QED  BY <2>1, LeastElement
  <2>3. n # 0
    <3>1. sum[1] = sum[0] + values[1] /\ 1 \in 1 .. N
      BY <1>3, <1>6
    <3>2. sum[0] = 0 /\ other[0] = 0 /\ values[1] \in Nat
      BY <1>3, <1>6, <1>7, <3>1
    <3>3. sum[1] - values[1] = 0
      BY <3>1, <3>2
    <3>4. other[0] = sum[0 + 1] - values[1]
      BY <3>2, <3>3
    <3> QED  BY <2>2, <3>4
  <2>4. /\ n \in 1 .. N - 1 /\ n \in 1 .. N /\ n + 1 \in 1 .. N
        /\ n - 1 \in 0 .. N - 1 /\ n - 1 \in 0 .. N /\ n \in 0 .. N
        /\ ~(n <= n - 1) /\ (n - 1) + 1 = n /\ (n + 1) - 1 = n
    BY <1>3, <2>2, <2>3
  <2>5. other[n - 1] = sum[n] - values[1]
    BY <2>2, <2>4
  <2>6. other[n] = other[n - 1] + values[n + 1]
    BY <1>3, <1>7, <2>4
  <2>7. sum[n + 1] = sum[n] + values[n + 1]
    BY <1>6, <2>4
  <2>8. /\ sum[n] \in Nat /\ values[1] \in Nat /\ values[n + 1] \in Nat
    BY <1>3, <1>6, <2>4
  <2>9. other[n] = sum[n + 1] - values[1]
    BY <2>5, <2>6, <2>7, <2>8
  <2> QED  BY <2>2, <2>9
<1>9. other[N] = sum[N] - values[1] + value
  <2>1. /\ N - 1 \in 0 .. N - 1 /\ N \in 1 .. N /\ (N - 1) + 1 = N /\ N \in 0 .. N
        /\ 1 \in 1 .. N
    BY <1>3
  <2>2. other[N - 1] = sum[N] - values[1]
    BY <1>8, <2>1
  <2>3. other[N] = other[N - 1] + value
    BY <1>3, <1>7, <2>1
  <2>4. sum[N] \in Nat /\ values[1] \in Nat
    BY <1>3, <1>6, <2>1
  <2> QED  BY <2>2, <2>3, <2>4
<1> QED  BY <1>1, <1>2, <1>3, <1>4, <1>5, <1>9

-----------------------------------------------------------------------------
(* Totals *)

\* The total of the values and one more.
LEMMA TotalAppend ==
    ASSUME NEW values \in Seq(Nat), NEW value \in Nat
    PROVE  /\ Total(<<>>) = 0
           /\ Total(values) \in Nat
           /\ Total(Append(values, value)) = Total(values) + value
<1>1. Total(<<>>) = 0
  <2>1. <<>> \in Seq(Nat) /\ Len(<<>>) = 0
    OBVIOUS
  <2>2. PICK none : none = <<>>
    OBVIOUS
  <2>3. \E sum : Sums(none, sum) /\ Total(none) = sum[Len(none)]
    BY <2>1, <2>2, TotalIsSum
  <2> QED  BY <2>1, <2>2, <2>3 DEF Sums
<1>2. PICK N, longer : N = Len(values) /\ longer = Append(values, value)
  OBVIOUS
<1>3. /\ N \in Nat
      /\ longer \in Seq(Nat) /\ Len(longer) = N + 1 /\ longer[N + 1] = value
      /\ \A i \in 1 .. N : longer[i] = values[i] /\ values[i] \in Nat
  BY <1>2
<1>4. PICK sum : Sums(values, sum) /\ Total(values) = sum[N]
  BY <1>2, TotalIsSum
<1>5. /\ sum \in [0 .. N -> Nat] /\ sum[0] = 0
      /\ \A n \in 1 .. N : sum[n] = sum[n - 1] + values[n]
  BY <1>2, <1>4 DEF Sums
<1> DEFINE other == [n \in 0 .. N + 1 |-> IF n = N + 1 THEN sum[N] + value ELSE sum[n]]
<1>6. sum[N] \in Nat
  BY <1>3, <1>5
<1>7. Sums(longer, other)
  <2>1. \A n \in 0 .. N : n \in 0 .. N + 1 /\ n # N + 1 /\ sum[n] \in Nat
    BY <1>3, <1>5
  <2>2. other \in [0 .. N + 1 -> Nat]
    BY <1>3, <1>6, <2>1
  <2>3. other[0] = 0
    BY <1>3, <1>5
  <2>4. ASSUME NEW n \in 1 .. N + 1 PROVE other[n] = other[n - 1] + longer[n]
    <3>1. n - 1 \in 0 .. N /\ n \in 0 .. N + 1
      BY <1>3
    <3>2. other[n - 1] = sum[n - 1]
      BY <2>1, <3>1
    <3>3. CASE n = N + 1
      <4>1. n - 1 = N
        BY <1>3, <3>3
      <4> QED  BY <1>3, <3>1, <3>2, <3>3, <4>1
    <3>4. CASE n # N + 1
      <4>1. n \in 1 .. N
        BY <1>3, <3>4
      <4>2. other[n] = sum[n]
        BY <3>1, <3>4
      <4> HIDE DEF other
      <4> QED  BY <1>3, <1>5, <3>2, <4>1, <4>2
    <3> QED  BY <3>3, <3>4
  <2> HIDE DEF other
  <2> QED  BY <1>3, <2>2, <2>3, <2>4 DEF Sums
<1>8. other[N + 1] = sum[N] + value
  BY <1>3
<1> HIDE DEF other
<1>9. Total(longer) = Total(values) + value
  BY <1>3, <1>4, <1>7, <1>8, TotalIs
<1> QED  BY <1>1, <1>2, <1>4, <1>6, <1>9
-----------------------------------------------------------------------------
(* Sequences that are put together *)

\* What the first sequences make when they are put together.
Joins(seqs, S, f) ==
    /\ f \in [0 .. Len(seqs) -> Seq(S)]
    /\ f[0] = <<>>
    /\ \A n \in 1 .. Len(seqs) : f[n] = f[n - 1] \o seqs[n]

LEMMA JoinsExist ==
    ASSUME NEW S, NEW seqs \in Seq(Seq(S))
    PROVE  \E f : Joins(seqs, S, f)
<1> DEFINE step == [p \in (1 .. Len(seqs)) \X Seq(S) |-> p[2] \o seqs[p[1]]]
<1>1. \A n \in 1 .. Len(seqs) : seqs[n] \in Seq(S)
  OBVIOUS
<1>2. step \in [(1 .. Len(seqs)) \X Seq(S) -> Seq(S)]
  BY <1>1
<1>3. \A n \in 1 .. Len(seqs), s \in Seq(S) : step[<<n, s>>] = s \o seqs[n]
  OBVIOUS
<1>4. Len(seqs) \in Nat /\ <<>> \in Seq(S)
  OBVIOUS
<1> HIDE DEF step
<1>5. PICK f \in [0 .. Len(seqs) -> Seq(S)] :
        f[0] = <<>> /\ \A n \in 1 .. Len(seqs) : f[n] = step[<<n, f[n - 1]>>]
  <2>1. PICK N, Terms, first : N = Len(seqs) /\ Terms = Seq(S) /\ first = <<>>
    OBVIOUS
  <2>2. N \in Nat /\ first \in Terms /\ step \in [(1 .. N) \X Terms -> Terms]
    BY <1>2, <1>4, <2>1
  <2>3. PICK f : Recurs(f, N, Terms, first, step)
    BY <2>2, Recursion
  <2> QED  BY <2>1, <2>3 DEF Recurs
<1>6. ASSUME NEW n \in 1 .. Len(seqs) PROVE f[n - 1] \in Seq(S)
  <2>1. n - 1 \in 0 .. Len(seqs)
    BY <1>4
  <2> QED  BY <2>1
<1> QED  BY <1>3, <1>5, <1>6 DEF Joins

LEMMA JoinsAgree ==
    ASSUME NEW S, NEW seqs \in Seq(Seq(S)), NEW f, Joins(seqs, S, f),
           NEW longer \in Seq(Seq(S)), NEW g, Joins(longer, S, g),
           Len(seqs) <= Len(longer), \A n \in 1 .. Len(seqs) : longer[n] = seqs[n]
    PROVE  \A n \in 0 .. Len(seqs) : g[n] = f[n]
<1> DEFINE N == Len(seqs)
           Bad == {n \in 0 .. N : g[n] # f[n]}
<1>1. N \in Nat /\ g[0] = f[0]
      /\ \A n \in 1 .. N : g[n] = g[n - 1] \o seqs[n] /\ f[n] = f[n - 1] \o seqs[n]
  <2>1. N \in Nat /\ \A n \in 1 .. N : n \in 1 .. Len(longer)
    OBVIOUS
  <2>2. g[0] = <<>> /\ \A n \in 1 .. Len(longer) : g[n] = g[n - 1] \o longer[n]
    BY DEF Joins
  <2>3. f[0] = <<>> /\ \A n \in 1 .. N : f[n] = f[n - 1] \o seqs[n]
    BY DEF Joins
  <2>4. \A n \in 1 .. N : longer[n] = seqs[n]
    OBVIOUS
  <2> HIDE DEF N
  <2> QED  BY <2>1, <2>2, <2>3, <2>4
<1> HIDE DEF N
<1>2. ASSUME Bad # {} PROVE FALSE
  <2>1. Bad \in SUBSET Nat
    BY <1>1
  <2>2. PICK n \in Bad : \A m \in Bad : n <= m
    <3> HIDE DEF Bad
    <3> QED  BY <1>2, <2>1, LeastElement
  <2>3. n \in 1 .. N /\ n - 1 \in 0 .. N /\ ~(n <= n - 1)
    BY <1>1, <2>2
  <2>4. g[n - 1] = f[n - 1]
    BY <2>2, <2>3
  <2> QED  BY <1>1, <2>2, <2>3, <2>4
<1> QED  BY <1>2 DEF N

LEMMA FlattenJoins ==
    ASSUME NEW S, NEW seqs \in Seq(Seq(S)), NEW f, Joins(seqs, S, f)
    PROVE  Str!FlattenSeq(seqs) = f[Len(seqs)]
<1> DEFINE N == Len(seqs)
           flatten == CHOOSE g : g = [i \in 1 .. N |->
                            IF i = 1 THEN seqs[i] ELSE g[i - 1] \o seqs[i]]
<1>1. CASE N = 0
  <2>1. seqs = <<>>
    BY <1>1
  <2> QED  BY <1>1, <2>1 DEF Str!FlattenSeq, Joins
<1>2. CASE N # 0
  <2>1. Str!FlattenSeq(seqs) = flatten[N]
    BY <1>2 DEF Str!FlattenSeq
  <2> DEFINE g == [i \in 1 .. N |-> f[i]]
  <2>2. ASSUME NEW i \in 1 .. N
        PROVE  f[i] = IF i = 1 THEN seqs[i] ELSE g[i - 1] \o seqs[i]
    <3>1. f[i] = f[i - 1] \o seqs[i] /\ f[0] = <<>> /\ seqs[i] \in Seq(S)
      BY DEF Joins
    <3>2. CASE i = 1
      <4>1. i - 1 = 0
        BY <3>2
      <4>2. f[i] = <<>> \o seqs[i]
        BY <3>1, <4>1
      <4>3. \A s \in Seq(S) : <<>> \o s = s
        OBVIOUS
      <4> QED  BY <3>1, <3>2, <4>2, <4>3
    <3>3. CASE i # 1
      <4>1. i - 1 \in 1 .. N
        BY <3>3
      <4> QED  BY <3>1, <3>3, <4>1
    <3> QED  BY <3>2, <3>3
  <2>3. g = [i \in 1 .. N |-> IF i = 1 THEN seqs[i] ELSE g[i - 1] \o seqs[i]]
    <3>1. g = [i \in 1 .. N |-> f[i]]
      OBVIOUS
    <3> HIDE DEF g, N
    <3> QED  BY <2>2, <3>1
  <2>4. flatten = [i \in 1 .. N |->
                        IF i = 1 THEN seqs[i] ELSE flatten[i - 1] \o seqs[i]]
    <3> HIDE DEF g, N
    <3> QED  BY <2>3
  <2> HIDE DEF flatten, g
  <2>5. N \in Nat
    OBVIOUS
  <2> HIDE DEF N
  <2> DEFINE Bad == {n \in 1 .. N : flatten[n] # f[n]}
  <2>6. ASSUME Bad # {} PROVE FALSE
    <3>1. Bad \in SUBSET Nat
      BY <2>5
    <3>2. PICK n \in Bad : \A m \in Bad : n <= m
      <4> HIDE DEF Bad
      <4> QED  BY <2>6, <3>1, LeastElement
    <3>3. flatten[n] = IF n = 1 THEN seqs[n] ELSE flatten[n - 1] \o seqs[n]
      BY <2>4, <3>2
    <3>4. CASE n = 1
      BY <2>2, <3>2, <3>3, <3>4
    <3>5. CASE n # 1
      <4>1. n - 1 \in 1 .. N /\ ~(n <= n - 1)
        BY <2>5, <3>2, <3>5
      <4>2. flatten[n - 1] = f[n - 1] /\ g[n - 1] = f[n - 1]
        BY <3>2, <4>1 DEF g
      <4> QED  BY <2>2, <3>2, <3>3, <3>5, <4>2
    <3> QED  BY <3>4, <3>5
  <2>7. N \in 1 .. N
    BY <1>2, <2>5
  <2> QED  BY <2>1, <2>6, <2>7 DEF N
<1> QED  BY <1>1, <1>2

\* One more sequence comes behind the others.
LEMMA FlattenAppend ==
    ASSUME NEW S, NEW seqs \in Seq(Seq(S)), NEW s \in Seq(S)
    PROVE  /\ Str!FlattenSeq(seqs) \in Seq(S)
           /\ Str!FlattenSeq(Append(seqs, s)) = Str!FlattenSeq(seqs) \o s
<1>1. PICK longer : longer = Append(seqs, s)
  OBVIOUS
<1>2. /\ longer \in Seq(Seq(S)) /\ Len(longer) = Len(seqs) + 1
      /\ longer[Len(longer)] = s
      /\ \A n \in 1 .. Len(seqs) : longer[n] = seqs[n]
  BY <1>1
<1>3. PICK f : Joins(seqs, S, f)
  BY JoinsExist
<1>4. PICK g : Joins(longer, S, g)
  BY <1>2, JoinsExist
<1>5. Len(seqs) \in Nat
  OBVIOUS
<1>6. \A n \in 0 .. Len(seqs) : g[n] = f[n]
  BY <1>2, <1>3, <1>4, <1>5, JoinsAgree
<1>7. Str!FlattenSeq(seqs) = f[Len(seqs)] /\ Str!FlattenSeq(longer) = g[Len(longer)]
  BY <1>2, <1>3, <1>4, FlattenJoins
<1>8. f[Len(seqs)] \in Seq(S)
  BY <1>3, <1>5 DEF Joins
<1>9. g[Len(longer)] = g[Len(seqs)] \o s
  <2>1. Len(longer) \in 1 .. Len(longer) /\ Len(longer) - 1 = Len(seqs)
    BY <1>2, <1>5
  <2> QED  BY <1>2, <1>4, <2>1 DEF Joins
<1>10. Len(seqs) \in 0 .. Len(seqs)
  BY <1>5
<1>11. Str!FlattenSeq(longer) = Str!FlattenSeq(seqs) \o s
  BY <1>6, <1>7, <1>9, <1>10
<1>12. Str!FlattenSeq(seqs) \in Seq(S)
  BY <1>7, <1>8
<1> QED  BY <1>1, <1>11, <1>12

-----------------------------------------------------------------------------
(* Strings: Join *)

\* Sequences can be put together in whatever order.
Associates(s, t, u) == (s \o t) \o u = s \o (t \o u)

LEMMA AnyAssociate ==
    ASSUME NEW Chars, NEW s \in Seq(Chars), NEW t \in Seq(Chars), NEW u \in Seq(Chars)
    PROVE  Associates(s, t, u)
BY ConcatAssociative DEF Associates

\* What the first pieces make when they are strung together.
Strung(pieces, token, Chars, g) ==
    /\ g \in [1 .. Len(pieces) -> Seq(Chars)]
    /\ g[1] = pieces[1]
    /\ \A n \in 2 .. Len(pieces) : g[n] = (g[n - 1] \o token) \o pieces[n]

LEMMA JoinStrings ==
    ASSUME NEW Chars, NEW token \in Seq(Chars),
           NEW pieces \in Seq(Seq(Chars)), pieces # <<>>
    PROVE  \E g : Strung(pieces, token, Chars, g) /\ Str!Join(pieces, token) = g[Len(pieces)]
<1>1. PICK head, rest, N :
            head = Head(pieces) /\ rest = Tail(pieces) /\ N = Len(rest)
  OBVIOUS
<1>2. /\ N \in Nat /\ Len(pieces) = N + 1 /\ head = pieces[1] /\ head \in Seq(Chars)
      /\ DOMAIN rest = 1 .. N
      /\ \A n \in 1 .. N : rest[n] = pieces[n + 1] /\ rest[n] \in Seq(Chars)
  BY <1>1
<1> DEFINE Step(iter, s) == IF s = {} THEN head
                            ELSE (iter[s \ {Str!Max(s)}] \o token) \o rest[Str!Max(s)]
           IsFold(iter, n) == iter = [s \in SUBSET (1 .. n) |-> Step(iter, s)]
           fold == CHOOSE iter : iter = [s \in SUBSET DOMAIN rest |-> Step(iter, s)]
<1>3. Str!Join(pieces, token) = fold[DOMAIN rest]
  BY <1>1 DEF Str!Join, Str!FoldLeft, Str!MapThenFoldSet
<1>4. ASSUME NEW n \in 0 .. N, NEW s \in SUBSET (1 .. n), s # {}
      PROVE  /\ Str!Max(s) \in s /\ \A y \in s : Str!Max(s) >= y
             /\ n \in s => Str!Max(s) = n
  <2>1. \E x \in s : \A y \in s : x >= y
    <3>1. n \in Nat
      BY <1>2
    <3> QED  BY <1>4, <3>1, LargestElement
  <2>2. Str!Max(s) \in s /\ \A y \in s : Str!Max(s) >= y
    BY <2>1 DEF Str!Max
  <2>3. ASSUME n \in s PROVE Str!Max(s) = n
    <3>1. PICK x : x = Str!Max(s)
      OBVIOUS
    <3>2. n \in Nat /\ x \in s /\ x >= n
      BY <1>2, <2>2, <2>3, <3>1
    <3>3. x \in 1 .. n
      BY <3>2
    <3>4. x = n
      BY <3>2, <3>3
    <3> QED  BY <3>1, <3>4
  <2> QED  BY <2>2, <2>3
<1>5. ASSUME NEW n \in 1 .. N, NEW iter, IsFold(iter, n - 1)
      PROVE  \E longer : IsFold(longer, n)
  <2> DEFINE longer == [s \in SUBSET (1 .. n) |->
                            IF n \in s THEN (iter[s \ {n}] \o token) \o rest[n] ELSE iter[s]]
  <2>1. ASSUME NEW s \in SUBSET (1 .. n) PROVE longer[s] = Step(longer, s)
    <3>1. n \in Nat /\ n \in 0 .. N /\ n - 1 \in 0 .. N
          /\ \A x \in 1 .. n : x # n => x \in 1 .. n - 1
      BY <1>2
    <3>2. CASE n \in s
      <4>1. Str!Max(s) = n /\ s # {}
        BY <1>4, <3>1, <3>2
      <4>2. s \ {n} \in SUBSET (1 .. n) /\ n \notin s \ {n}
        OBVIOUS
      <4>3. longer[s \ {n}] = iter[s \ {n}]
        BY <4>2
      <4> HIDE DEF longer
      <4>4. longer[s] = (iter[s \ {n}] \o token) \o rest[n]
        BY <3>2 DEF longer
      <4> QED  BY <4>1, <4>3, <4>4
    <3>3. CASE n \notin s
      <4>1. s \in SUBSET (1 .. n - 1)
        BY <3>1, <3>3
      <4>2. longer[s] = iter[s] /\ iter[s] = Step(iter, s)
        BY <1>5, <3>3, <4>1
      <4>3. s # {} => longer[s \ {Str!Max(s)}] = iter[s \ {Str!Max(s)}]
        BY <3>3
      <4> HIDE DEF longer
      <4> QED  BY <4>2, <4>3
    <3> QED  BY <3>2, <3>3
  <2>2. IsFold(longer, n)
    <3>1. longer = [s \in SUBSET (1 .. n) |-> longer[s]]
      OBVIOUS
    <3> HIDE DEF longer, Step
    <3> QED  BY <2>1, <3>1
  <2> HIDE DEF IsFold, longer
  <2> QED  BY <2>2
<1>6. \A n \in 0 .. N : \E iter : IsFold(iter, n)
  <2> DEFINE Bad == {n \in 0 .. N : ~ \E iter : IsFold(iter, n)}
  <2> SUFFICES ASSUME Bad # {} PROVE FALSE
    OBVIOUS
  <2>1. Bad \in SUBSET Nat
    <3> HIDE DEF IsFold
    <3> QED  BY <1>2
  <2>2. PICK n \in Bad : \A m \in Bad : n <= m
    <3> HIDE DEF Bad
    <3> QED  BY <2>1, LeastElement
  <2>3. n # 0
    <3>1. IsFold([s \in SUBSET (1 .. 0) |-> head], 0)
      <4>1. \A s \in SUBSET (1 .. 0) : s = {}
        OBVIOUS
      <4> QED  BY <4>1
    <3> HIDE DEF IsFold
    <3> QED  BY <3>1
  <2> HIDE DEF IsFold
  <2>4. n \in 1 .. N /\ n - 1 \in 0 .. N /\ ~(n <= n - 1)
    BY <1>2, <2>2, <2>3
  <2>5. \E iter : IsFold(iter, n - 1)
    BY <2>2, <2>4
  <2> QED  BY <1>5, <2>2, <2>4, <2>5
<1>7. IsFold(fold, N)
  <2>1. \E iter : IsFold(iter, N)
    <3> HIDE DEF IsFold
    <3> QED  BY <1>2, <1>6
  <2> HIDE DEF Step
  <2> QED  BY <1>2, <2>1
<1> HIDE DEF fold
<1>8. fold[1 .. 0] = head
  BY <1>2, <1>7
<1>9. ASSUME NEW n \in 1 .. N
      PROVE  fold[1 .. n] = (fold[1 .. n - 1] \o token) \o rest[n]
  <2>1. /\ n \in 0 .. N /\ n \in 1 .. n /\ 1 .. n \in SUBSET (1 .. N)
        /\ 1 .. n \in SUBSET (1 .. n) /\ 1 .. n # {}
    <3>1. n \in Nat /\ n <= N /\ n \in 1 .. n /\ n \in 0 .. N
      BY <1>2
    <3>2. \A x \in 1 .. n : x \in 1 .. N
      BY <1>2, <3>1
    <3> QED  BY <3>1, <3>2
  <2>2. Str!Max(1 .. n) = n
    BY <1>4, <2>1
  <2>3. (1 .. n) \ {n} = 1 .. n - 1
    <3>1. n \in Nat
      BY <1>2
    <3>2. \A i : i \in (1 .. n) \ {n} <=> i \in 1 .. n - 1
      BY <3>1
    <3> QED  BY <3>2
  <2>4. fold[1 .. n] = Step(fold, 1 .. n)
    BY <1>7, <2>1
  <2> QED  BY <2>1, <2>2, <2>3, <2>4
<1>10. \A n \in 0 .. N : fold[1 .. n] \in Seq(Chars)
  <2> DEFINE Bad == {n \in 0 .. N : fold[1 .. n] \notin Seq(Chars)}
  <2> SUFFICES ASSUME Bad # {} PROVE FALSE
    OBVIOUS
  <2>1. Bad \in SUBSET Nat
    BY <1>2
  <2>2. PICK n \in Bad : \A m \in Bad : n <= m
    <3> HIDE DEF Bad
    <3> QED  BY <2>1, LeastElement
  <2>3. n # 0
    BY <1>2, <1>8, <2>2
  <2>4. n \in 1 .. N /\ n - 1 \in 0 .. N /\ ~(n <= n - 1)
    BY <1>2, <2>2, <2>3
  <2>5. fold[1 .. n - 1] \in Seq(Chars) /\ rest[n] \in Seq(Chars)
    BY <1>2, <2>2, <2>4
  <2>6. \A s, t \in Seq(Chars) : s \o t \in Seq(Chars)
    OBVIOUS
  <2>7. fold[1 .. n] \in Seq(Chars)
    <3>1. PICK before, piece : before = fold[1 .. n - 1] /\ piece = rest[n]
      OBVIOUS
    <3>2. before \in Seq(Chars) /\ piece \in Seq(Chars)
      BY <2>5, <3>1
    <3>3. (before \o token) \o piece \in Seq(Chars)
      BY <2>6, <3>2
    <3> QED  BY <1>9, <2>4, <3>1, <3>3
  <2> QED  BY <2>2, <2>7
<1> DEFINE g == [n \in 1 .. N + 1 |-> fold[1 .. n - 1]]
<1>11. \A n \in 1 .. N + 1 : n - 1 \in 0 .. N /\ (n # 1 => n - 1 \in 1 .. N /\ n - 1 \in 1 .. N + 1)
  BY <1>2
<1>12. g \in [1 .. N + 1 -> Seq(Chars)]
  BY <1>10, <1>11
<1>13. g[1] = pieces[1]
  BY <1>2, <1>8
<1>14. ASSUME NEW n \in 2 .. N + 1 PROVE g[n] = (g[n - 1] \o token) \o pieces[n]
  <2>1. n \in 1 .. N + 1 /\ n - 1 \in 1 .. N /\ n - 1 \in 1 .. N + 1 /\ (n - 1) + 1 = n
    BY <1>2
  <2>2. fold[1 .. n - 1] = (fold[1 .. (n - 1) - 1] \o token) \o rest[n - 1]
    BY <1>9, <2>1
  <2>3. rest[n - 1] = pieces[n]
    BY <1>2, <2>1
  <2> QED  BY <2>1, <2>2, <2>3
<1>15. g[N + 1] = fold[DOMAIN rest]
  <2>1. N + 1 \in 1 .. N + 1 /\ (N + 1) - 1 = N
    BY <1>2
  <2> QED  BY <1>2, <2>1
<1> HIDE DEF g
<1>16. Strung(pieces, token, Chars, g)
  BY <1>2, <1>12, <1>13, <1>14 DEF Strung
<1> QED  BY <1>2, <1>3, <1>15, <1>16

LEMMA StrungAgree ==
    ASSUME NEW Chars, NEW token, NEW pieces \in Seq(Seq(Chars)), pieces # <<>>,
           NEW g, Strung(pieces, token, Chars, g), NEW h, Strung(pieces, token, Chars, h)
    PROVE  g[Len(pieces)] = h[Len(pieces)]
<1>1. PICK N : N = Len(pieces)
  OBVIOUS
<1>2. /\ N \in Nat /\ N \in 1 .. N /\ g[1] = h[1]
      /\ \A n \in 2 .. N : /\ g[n] = (g[n - 1] \o token) \o pieces[n]
                           /\ h[n] = (h[n - 1] \o token) \o pieces[n]
  <2>1. N \in Nat /\ N \in 1 .. N
    BY <1>1
  <2>2. g[1] = pieces[1] /\ \A n \in 2 .. N : g[n] = (g[n - 1] \o token) \o pieces[n]
    BY <1>1 DEF Strung
  <2>3. h[1] = pieces[1] /\ \A n \in 2 .. N : h[n] = (h[n - 1] \o token) \o pieces[n]
    BY <1>1 DEF Strung
  <2> QED  BY <2>1, <2>2, <2>3
<1> DEFINE Bad == {n \in 1 .. N : g[n] # h[n]}
<1>3. ASSUME Bad # {} PROVE FALSE
  <2>1. Bad \in SUBSET Nat
    BY <1>2
  <2>2. PICK n \in Bad : \A m \in Bad : n <= m
    <3> HIDE DEF Bad
    <3> QED  BY <1>3, <2>1, LeastElement
  <2>3. n # 1
    BY <1>2, <2>2
  <2>4. n \in 2 .. N /\ n - 1 \in 1 .. N /\ ~(n <= n - 1)
    BY <1>2, <2>2, <2>3
  <2>5. g[n - 1] = h[n - 1]
    BY <2>2, <2>4
  <2> QED  BY <1>2, <2>2, <2>4, <2>5
<1> QED  BY <1>1, <1>2, <1>3

\* One piece is itself; one before others comes before the token and them.
Prepends(Chars, token, piece, pieces) ==
    /\ Str!Join(<<piece>>, token) = piece
    /\ pieces # <<>> =>
        Str!Join(<<piece>> \o pieces, token) = (piece \o token) \o Str!Join(pieces, token)
    /\ pieces # <<>> => Str!Join(pieces, token) \in Seq(Chars)

LEMMA JoinPrepends ==
    ASSUME NEW Chars, NEW token \in Seq(Chars), NEW piece \in Seq(Chars),
           NEW pieces \in Seq(Seq(Chars))
    PROVE  Prepends(Chars, token, piece, pieces)
<1>1. Str!Join(<<piece>>, token) = piece
  <2>1. PICK single : single = <<piece>>
    OBVIOUS
  <2>2. single \in Seq(Seq(Chars)) /\ single # <<>> /\ Len(single) = 1 /\ single[1] = piece
    BY <2>1
  <2>3. PICK g : Strung(single, token, Chars, g) /\ Str!Join(single, token) = g[Len(single)]
    BY <2>2, JoinStrings
  <2> QED  BY <2>1, <2>2, <2>3 DEF Strung
<1>2. ASSUME pieces # <<>>
      PROVE  /\ Str!Join(<<piece>> \o pieces, token) = (piece \o token) \o Str!Join(pieces, token)
             /\ Str!Join(pieces, token) \in Seq(Chars)
  <2>1. PICK all, N : all = <<piece>> \o pieces /\ N = Len(pieces)
    OBVIOUS
  <2>2. /\ all \in Seq(Seq(Chars)) /\ all # <<>> /\ N \in Nat /\ N >= 1 /\ Len(all) = N + 1
        /\ all[1] = piece /\ \A n \in 2 .. N + 1 : all[n] = pieces[n - 1]
        /\ \A n \in 1 .. N : pieces[n] \in Seq(Chars)
    BY <1>2, <2>1
  <2>3. PICK g : Strung(pieces, token, Chars, g) /\ Str!Join(pieces, token) = g[N]
    BY <1>2, <2>1, JoinStrings
  <2>4. /\ \A n \in 1 .. N : g[n] \in Seq(Chars)
        /\ g[1] = pieces[1]
        /\ \A n \in 2 .. N : g[n] = (g[n - 1] \o token) \o pieces[n]
    BY <2>1, <2>3 DEF Strung
  <2> DEFINE h == [n \in 1 .. N + 1 |-> IF n = 1 THEN piece ELSE (piece \o token) \o g[n - 1]]
  <2>5. \A s, t \in Seq(Chars) : s \o t \in Seq(Chars)
    OBVIOUS
  <2>6. \A n \in 1 .. N + 1 : n # 1 => n - 1 \in 1 .. N
    BY <2>2
  <2>7. h \in [1 .. N + 1 -> Seq(Chars)]
    BY <2>4, <2>5, <2>6
  <2>8. h[1] = piece
    BY <2>2
  <2>9. ASSUME NEW n \in 2 .. N + 1 PROVE h[n] = (h[n - 1] \o token) \o all[n]
    <3>1. n \in 1 .. N + 1 /\ n # 1 /\ n - 1 \in 1 .. N /\ n - 1 \in 1 .. N + 1
      BY <2>2
    <3>2. h[n] = (piece \o token) \o g[n - 1] /\ all[n] = pieces[n - 1]
      BY <2>2, <3>1
    <3>3. CASE n = 2
      <4>1. n - 1 = 1
        BY <3>3
      <4> QED  BY <2>4, <2>8, <3>2, <4>1
    <3>4. CASE n # 2
      <4>1. n - 1 # 1 /\ n - 1 \in 2 .. N /\ (n - 1) - 1 \in 1 .. N
        BY <2>2, <3>1, <3>4
      <4>2. h[n - 1] = (piece \o token) \o g[(n - 1) - 1]
        BY <3>1, <4>1
      <4>3. g[n - 1] = (g[(n - 1) - 1] \o token) \o pieces[n - 1]
        BY <2>4, <4>1
      <4>4. PICK front, middle, back :
                front = piece \o token /\ middle = g[(n - 1) - 1] /\ back = pieces[n - 1]
        OBVIOUS
      <4>5. front \in Seq(Chars) /\ middle \in Seq(Chars) /\ back \in Seq(Chars)
            /\ middle \o token \in Seq(Chars)
        BY <2>2, <2>4, <2>5, <3>1, <4>1, <4>4
      <4>6. front \o ((middle \o token) \o back) = (front \o (middle \o token)) \o back
        <5>1. PICK joined : joined = middle \o token
          OBVIOUS
        <5>2. joined \in Seq(Chars)
          BY <4>5, <5>1
        <5>3. Associates(front, joined, back)
          BY <4>5, <5>2, AnyAssociate
        <5> QED  BY <5>1, <5>3 DEF Associates
      <4>7. front \o (middle \o token) = (front \o middle) \o token
        <5>1. Associates(front, middle, token)
          BY <4>5, AnyAssociate
        <5> QED  BY <5>1 DEF Associates
      <4> HIDE DEF h
      <4> QED  BY <3>2, <4>2, <4>3, <4>4, <4>6, <4>7
    <3> QED  BY <3>3, <3>4
  <2>10. h[N + 1] = (piece \o token) \o g[N]
    <3>1. N + 1 \in 1 .. N + 1 /\ N + 1 # 1 /\ (N + 1) - 1 = N
      BY <2>2
    <3> QED  BY <3>1
  <2> HIDE DEF h
  <2>11. Strung(all, token, Chars, h)
    BY <2>2, <2>7, <2>8, <2>9 DEF Strung
  <2>12. PICK k : Strung(all, token, Chars, k) /\ Str!Join(all, token) = k[Len(all)]
    BY <2>2, JoinStrings
  <2>13. k[Len(all)] = h[Len(all)]
    BY <2>2, <2>11, <2>12, StrungAgree
  <2>14. N \in 1 .. N
    BY <2>2
  <2> QED  BY <2>1, <2>2, <2>3, <2>4, <2>10, <2>12, <2>13, <2>14
<1> QED  BY <1>1, <1>2 DEF Prepends

-----------------------------------------------------------------------------
(* Strings: Split *)

IsPart(Chars, s, from, to) ==
    /\ SubSeq(s, from, to) \in Seq(Chars)
    /\ Len(SubSeq(s, from, to)) = to - from + 1
    /\ \A k \in 1 .. to - from + 1 : SubSeq(s, from, to)[k] = s[from + k - 1]

LEMMA Part ==
    ASSUME NEW Chars, NEW s \in Seq(Chars), NEW from \in Nat \ {0}, NEW to \in Nat,
           to <= Len(s), from <= to + 1
    PROVE  IsPart(Chars, s, from, to)
<1>1. \A i \in from .. to : s[i] \in Chars
  OBVIOUS
<1>2. /\ SubSeq(s, from, to) \in Seq(Chars)
      /\ Len(SubSeq(s, from, to)) = IF from <= to THEN to - from + 1 ELSE 0
      /\ \A k \in 1 .. to - from + 1 : SubSeq(s, from, to)[k] = s[from + k - 1]
  BY <1>1, SubSeqProperties
<1>3. (IF from <= to THEN to - from + 1 ELSE 0) = to - from + 1
  OBVIOUS
<1> QED  BY <1>2, <1>3 DEF IsPart

LEMMA SameElements ==
    ASSUME NEW Chars, NEW s \in Seq(Chars), NEW t \in Seq(Chars), Len(s) = Len(t),
           \A k \in 1 .. Len(s) : s[k] = t[k]
    PROVE  s = t
OBVIOUS

\* A part that ends before the first token does has no token.
LEMMA NoTokenWithin ==
    ASSUME NEW Chars, NEW s \in Seq(Chars), NEW token \in Seq(Chars), token # <<>>,
           NEW p \in 1 .. Len(s) + 1, NEW q \in p - 1 .. Len(s),
           \A i \in Str!Occurrences(s, token, p) : i + Len(token) - 1 > q
    PROVE  Str!Occurrences(SubSeq(s, p, q), token, 1) = {}
<1>1. PICK t, n, x : t = Len(token) /\ n = Len(s) /\ x = SubSeq(s, p, q)
  OBVIOUS
<1>2. /\ t \in Nat /\ t >= 1 /\ n \in Nat /\ p \in Nat /\ p >= 1 /\ q \in Int /\ q >= 0
      /\ q <= n /\ p <= q + 1
  BY <1>1
<1>3. /\ x \in Seq(Chars) /\ Len(x) = q - p + 1
      /\ \A k \in 1 .. q - p + 1 : x[k] = s[p + k - 1]
  <2>1. p \in Nat \ {0} /\ q \in Nat /\ q <= Len(s)
    BY <1>1, <1>2
  <2>2. IsPart(Chars, s, p, q)
    BY <1>2, <2>1, Part
  <2> QED  BY <1>1, <2>2 DEF IsPart
<1>4. ASSUME NEW j \in 1 .. Len(x) - t + 1, SubSeq(x, j, j + t - 1) = token
      PROVE  FALSE
  <2>1. PICK i, to : i = p + j - 1 /\ to = i + t - 1
    OBVIOUS
  <2>2. /\ j \in Nat /\ j >= 1 /\ j + t - 1 \in Nat /\ j + t - 1 <= q - p + 1
        /\ i \in Nat /\ i >= p /\ i >= 1 /\ to \in Nat /\ to <= q /\ to <= n /\ i <= n - t + 1
        /\ i <= to + 1 /\ to - i + 1 = t /\ (j + t - 1) - j + 1 = t /\ j <= (j + t - 1) + 1
    BY <1>2, <1>3, <2>1
  <2>3. \A k \in 1 .. t : SubSeq(x, j, j + t - 1)[k] = x[j + k - 1]
    <3>1. PICK end : end = j + t - 1
      OBVIOUS
    <3>2. j \in Nat \ {0} /\ end \in Nat /\ end <= Len(x) /\ j <= end + 1 /\ end - j + 1 = t
      BY <1>3, <2>2, <3>1
    <3>3. \A k \in 1 .. end - j + 1 : SubSeq(x, j, end)[k] = x[j + k - 1]
      <4>1. IsPart(Chars, x, j, end)
        BY <1>3, <3>2, Part
      <4> QED  BY <4>1 DEF IsPart
    <3> QED  BY <3>1, <3>2, <3>3
  <2>4. SubSeq(s, i, to) \in Seq(Chars) /\ Len(SubSeq(s, i, to)) = t
        /\ \A k \in 1 .. t : SubSeq(s, i, to)[k] = s[i + k - 1]
    <3>1. i \in Nat \ {0} /\ to \in Nat /\ to <= Len(s) /\ i <= to + 1
      BY <1>1, <2>2
    <3>2. IsPart(Chars, s, i, to)
      BY <3>1, Part
    <3> QED  BY <2>2, <3>2 DEF IsPart
  <2>5. ASSUME NEW k \in 1 .. t PROVE SubSeq(s, i, to)[k] = token[k]
    <3>1. j + k - 1 \in 1 .. q - p + 1 /\ p + (j + k - 1) - 1 = i + k - 1
      BY <1>2, <2>1, <2>2
    <3>2. x[j + k - 1] = s[i + k - 1]
      BY <1>3, <3>1
    <3> QED  BY <1>4, <2>3, <2>4, <3>2
  <2>6. PICK here : here = SubSeq(s, i, to)
    OBVIOUS
  <2>7. here = token
    <3>1. here \in Seq(Chars) /\ Len(here) = t /\ \A k \in 1 .. t : here[k] = token[k]
      BY <2>4, <2>5, <2>6
    <3> QED  BY <1>1, <3>1, SameElements
  <2>8. i \in p .. n - t + 1 /\ SubSeq(s, i, i + t - 1) = token
    BY <1>2, <2>1, <2>2, <2>6, <2>7
  <2>9. i \in Str!Occurrences(s, token, p)
    BY <1>1, <2>8 DEF Str!Occurrences
  <2>10. i + t - 1 > q
    BY <1>1, <2>9
  <2> QED  BY <1>2, <2>1, <2>2, <2>10
<1> QED  BY <1>1, <1>4 DEF Str!Occurrences

\* A token of length t at m lies between p and n.
TokenPlaced(t, n, p, m) ==
    /\ m \in Nat /\ m >= 1 /\ m >= p /\ m + t - 1 <= n /\ m <= n
    /\ m - 1 \in Nat /\ m + t - 1 \in Nat
    /\ m - 1 \in p - 1 .. n /\ m + t - 1 \in m - 1 .. n
    /\ m + t \in p + 1 .. n + 1 /\ n \in m + t - 1 .. n
    /\ (m + t - 1) + 1 = m + t /\ (m - 1) + 1 = m /\ p \in 1 .. n + 1
    /\ m + t - 1 \in p - 1 .. n /\ m \in p .. n

LEMMA TokenPlaces ==
    ASSUME NEW t \in Nat, t >= 1, NEW n \in Nat, NEW p \in Nat, p >= 1, p <= n + 1,
           NEW m \in p .. n - t + 1
    PROVE  TokenPlaced(t, n, p, m)
BY DEF TokenPlaced

\* Where a token begins first, what is before it, and what is behind.
TokenFirst(Chars, s, token, p, m, after) ==
    /\ m \in p .. Len(s) /\ after \in p + 1 .. Len(s) + 1
    /\ SubSeq(s, p, m - 1) \in Seq(Chars)
    /\ Str!Occurrences(SubSeq(s, p, m - 1), token, 1) = {}
    /\ (SubSeq(s, p, m - 1) \o token) \o SubSeq(s, after, Len(s)) = SubSeq(s, p, Len(s))

LEMMA FirstToken ==
    ASSUME NEW Chars, NEW s \in Seq(Chars), NEW token \in Seq(Chars), token # <<>>,
           NEW p \in 1 .. Len(s) + 1, Str!Occurrences(s, token, p) # {},
           NEW m, m = Str!Min(Str!Occurrences(s, token, p)),
           NEW after, after = Str!After(m, token)
    PROVE  TokenFirst(Chars, s, token, p, m, after)
<1>1. PICK t, n, found : t = Len(token) /\ n = Len(s) /\ found = Str!Occurrences(s, token, p)
  OBVIOUS
<1>2. t \in Nat /\ t >= 1 /\ n \in Nat /\ p \in Nat /\ p >= 1 /\ p <= n + 1
  BY <1>1
<1>3. found \in SUBSET Nat /\ found # {}
      /\ \A i \in found : i \in p .. n - t + 1 /\ SubSeq(s, i, i + t - 1) = token
  <2>1. found = {i \in p .. n - t + 1 : SubSeq(s, i, i + t - 1) = token}
    BY <1>1 DEF Str!Occurrences
  <2> QED  BY <1>1, <1>2, <2>1
<1>4. m \in found /\ \A i \in found : m <= i
  <2>1. \E x \in found : \A y \in found : x <= y
    BY <1>3, LeastElement
  <2> QED  BY <1>1, <2>1 DEF Str!Min
<1>5. /\ m \in p .. n - t + 1 /\ SubSeq(s, m, m + t - 1) = token
      /\ after = m + t
  BY <1>1, <1>3, <1>4 DEF Str!After
<1>6. /\ m \in Nat /\ m >= 1 /\ m >= p /\ m + t - 1 <= n /\ m <= n
      /\ m - 1 \in Nat /\ m + t - 1 \in Nat
      /\ m - 1 \in p - 1 .. n /\ m + t - 1 \in m - 1 .. n
      /\ m + t \in p + 1 .. n + 1 /\ n \in m + t - 1 .. n
      /\ (m + t - 1) + 1 = m + t /\ (m - 1) + 1 = m /\ p \in 1 .. n + 1
      /\ m + t - 1 \in p - 1 .. n /\ m \in p .. n
  <2>1. TokenPlaced(t, n, p, m)
    BY <1>2, <1>5, TokenPlaces
  <2> QED  BY <2>1 DEF TokenPlaced
<1>7. SubSeq(s, p, m - 1) \in Seq(Chars)
  <2>1. PICK before : before = m - 1
    OBVIOUS
  <2>2. before \in Nat /\ before <= Len(s) /\ p <= before + 1 /\ p \in Nat \ {0}
    BY <1>1, <1>2, <1>6, <2>1
  <2>3. IsPart(Chars, s, p, before)
    BY <2>2, Part
  <2> QED  BY <2>1, <2>3 DEF IsPart
<1>8. Str!Occurrences(SubSeq(s, p, m - 1), token, 1) = {}
  <2>1. \A i \in found : i + t - 1 > m - 1
    <3> TAKE i \in found
    <3>1. i \in Nat /\ m <= i
      BY <1>3, <1>4
    <3> QED  BY <1>2, <1>6, <3>1
  <2> QED  BY <1>1, <1>6, <2>1, NoTokenWithin
<1>9. SubSeq(s, p, m - 1) \o token = SubSeq(s, p, m + t - 1)
  <2>1. SubSeq(s, p, m - 1) \o SubSeq(s, (m - 1) + 1, m + t - 1) = SubSeq(s, p, m + t - 1)
    BY <1>1, <1>6, ConcatAdjacentSubSeq
  <2> QED  BY <1>5, <1>6, <2>1
<1>10. SubSeq(s, p, m + t - 1) \o SubSeq(s, (m + t - 1) + 1, n) = SubSeq(s, p, n)
  BY <1>1, <1>6, ConcatAdjacentSubSeq
<1>11. (SubSeq(s, p, m - 1) \o token) \o SubSeq(s, after, Len(s)) = SubSeq(s, p, Len(s))
  BY <1>1, <1>5, <1>6, <1>9, <1>10
<1>12. m \in p .. Len(s) /\ after \in p + 1 .. Len(s) + 1
  BY <1>1, <1>5, <1>6
<1> QED  BY <1>7, <1>8, <1>11, <1>12 DEF TokenFirst

\* What Split makes of what is behind a place.
SplitStep(s, token, limit, f, place) ==
    IF place[2] = limit \/ Str!Occurrences(s, token, place[1]) = {}
    THEN <<SubSeq(s, place[1], Len(s))>>
    ELSE <<SubSeq(s, place[1], Str!Min(Str!Occurrences(s, token, place[1])) - 1)>>
            \o f[<<Str!After(Str!Min(Str!Occurrences(s, token, place[1])), token), place[2] + 1>>]

IsSplit(s, token, limit, f, k) ==
    f = [place \in (k .. Len(s) + 1) \X Nat |-> SplitStep(s, token, limit, f, place)]

LEMMA SplitLonger ==
    ASSUME NEW Chars, NEW s \in Seq(Chars), NEW token \in Seq(Chars), token # <<>>,
           NEW limit, NEW k \in 1 .. Len(s) + 1, NEW f, IsSplit(s, token, limit, f, k + 1)
    PROVE  \E longer : IsSplit(s, token, limit, longer, k)
<1>1. PICK n, Far, Near :
            /\ n = Len(s)
            /\ Far = (k + 1 .. n + 1) \X Nat /\ Near = (k .. n + 1) \X Nat
  OBVIOUS
<1> DEFINE longer == [place \in Near |-> IF place \in Far THEN f[place]
                                        ELSE SplitStep(s, token, limit, f, place)]
<1>2. n \in Nat /\ k \in Nat /\ k >= 1 /\ k <= n + 1
  BY <1>1
<1>3. \A place \in Far : place \in Near
  <2>1. \A p \in k + 1 .. n + 1 : p \in k .. n + 1
    BY <1>2
  <2> QED  BY <1>1, <2>1
<1>4. \A place \in Far : f[place] = SplitStep(s, token, limit, f, place)
  BY <1>1 DEF IsSplit
<1>5. \A place \in Near : longer[place] = SplitStep(s, token, limit, f, place)
  BY <1>4
<1>6. \A place \in Far : longer[place] = f[place]
  BY <1>3
<1>7. longer = [place \in Near |-> longer[place]]
  OBVIOUS
<1> HIDE DEF longer
<1>8. ASSUME NEW place \in Near
      PROVE  SplitStep(s, token, limit, longer, place) = SplitStep(s, token, limit, f, place)
  <2>1. PICK p, i : p = place[1] /\ i = place[2] /\ p \in k .. n + 1 /\ i \in Nat
    BY <1>1
  <2>2. CASE Str!Occurrences(s, token, p) = {}
    BY <2>1, <2>2 DEF SplitStep
  <2>3. CASE Str!Occurrences(s, token, p) # {}
    <3>1. PICK m, after : m = Str!Min(Str!Occurrences(s, token, p)) /\ after = Str!After(m, token)
      OBVIOUS
    <3>2. p \in 1 .. Len(s) + 1
      BY <1>1, <1>2, <2>1
    <3>3. after \in p + 1 .. n + 1
      <4>1. TokenFirst(Chars, s, token, p, m, after)
        BY <2>3, <3>1, <3>2, FirstToken
      <4> QED  BY <1>1, <4>1 DEF TokenFirst
    <3>4. after \in k + 1 .. n + 1 /\ i + 1 \in Nat
      BY <1>2, <2>1, <3>3
    <3>5. <<after, i + 1>> \in Far
      BY <1>1, <3>4
    <3>6. longer[<<after, i + 1>>] = f[<<after, i + 1>>]
      BY <1>6, <3>5
    <3> QED  BY <2>1, <3>1, <3>6 DEF SplitStep
  <2> QED  BY <2>2, <2>3
<1>9. \A place \in Near : longer[place] = SplitStep(s, token, limit, longer, place)
  BY <1>5, <1>8
<1>10. longer = [place \in Near |-> SplitStep(s, token, limit, longer, place)]
  BY <1>7, <1>9
<1>11. IsSplit(s, token, limit, longer, k)
  BY <1>1, <1>10 DEF IsSplit
<1> QED  BY <1>11

LEMMA SplitsExist ==
    ASSUME NEW Chars, NEW s \in Seq(Chars), NEW token \in Seq(Chars), token # <<>>,
           NEW limit
    PROVE  \E f : /\ IsSplit(s, token, limit, f, 1)
                  /\ Str!Split(s, token, limit) = f[<<1, 0>>]
<1>1. PICK most : most = Len(s) + 1
  OBVIOUS
<1>2. most \in Nat /\ most >= 1 /\ Len(s) \in Nat
  BY <1>1
<1> DEFINE Is(k) == \E f : IsSplit(s, token, limit, f, k)
           Bad == {k \in 0 .. most : ~Is(most + 1 - k)}
<1>3. Is(most + 1)
  <2>1. PICK none : none = [place \in {} |-> 0]
    OBVIOUS
  <2>2. (most + 1 .. Len(s) + 1) \X Nat = {}
    BY <1>1, <1>2
  <2>3. none = [place \in (most + 1 .. Len(s) + 1) \X Nat |->
                    SplitStep(s, token, limit, none, place)]
    BY <2>1, <2>2
  <2> QED  BY <2>3 DEF IsSplit
<1>4. ASSUME NEW k \in 1 .. most, Is(k + 1) PROVE Is(k)
  BY <1>1, <1>4, SplitLonger
<1> HIDE DEF Is
<1>5. ASSUME Bad # {} PROVE FALSE
  <2>1. Bad \in SUBSET Nat
    BY <1>2
  <2>2. PICK k \in Bad : \A m \in Bad : k <= m
    <3> HIDE DEF Bad
    <3> QED  BY <1>5, <2>1, LeastElement
  <2>3. k # 0
    <3>1. most + 1 - 0 = most + 1
      BY <1>2
    <3> QED  BY <1>3, <2>2, <3>1
  <2>4. k \in 0 .. most /\ k - 1 \in 0 .. most /\ ~(k <= k - 1)
        /\ most + 1 - k \in 1 .. most /\ (most + 1 - k) + 1 = most + 1 - (k - 1)
    BY <1>2, <2>2, <2>3
  <2>5. Is(most + 1 - (k - 1))
    BY <2>2, <2>4
  <2>6. Is(most + 1 - k)
    BY <1>4, <2>4, <2>5
  <2> QED  BY <2>2, <2>6
<1>6. PICK f : IsSplit(s, token, limit, f, 1)
  <2>1. most \in 0 .. most /\ most + 1 - most = 1
    BY <1>2
  <2>2. Is(most + 1 - most)
    BY <1>5, <2>1
  <2> QED  BY <2>1, <2>2 DEF Is
<1> DEFINE split == CHOOSE g : g = [place \in (1 .. Len(s) + 1) \X Nat |->
                            SplitStep(s, token, limit, g, place)]
<1>7. Str!Split(s, token, limit) = split[<<1, 0>>]
  BY DEF Str!Split, SplitStep
<1>8. IsSplit(s, token, limit, split, 1)
  BY <1>6 DEF IsSplit
<1> QED  BY <1>7, <1>8

\* What is right of the pieces from a place on.
Pieces(s, token, limit, Chars, pieces, p, i) ==
    /\ pieces \in Seq(Seq(Chars)) /\ pieces # <<>>
    /\ Str!Join(pieces, token) = SubSeq(s, p, Len(s))
    /\ \A k \in 1 .. Len(pieces) :
        Str!Occurrences(pieces[k], token, 1) = {} \/ i + k = limit + 1
    /\ i <= limit => i + Len(pieces) <= limit + 1

Before(Items, x, q, all) ==
    /\ all \in Seq(Items) /\ all # <<>>
    /\ Len(q) \in Nat /\ Len(all) = Len(q) + 1
    /\ all[1] = x
    /\ \A k \in 2 .. Len(q) + 1 : all[k] = q[k - 1]

LEMMA OneBefore ==
    ASSUME NEW Items, NEW x \in Items, NEW q \in Seq(Items)
    PROVE  Before(Items, x, q, <<x>> \o q)
<1>1. PICK one, n, all : one = <<x>> /\ n = Len(q) /\ all = one \o q
  OBVIOUS
<1>2. one \in Seq(Items) /\ Len(one) = 1 /\ one[1] = x /\ n \in Nat
  BY <1>1
<1>3. /\ all \in Seq(Items) /\ Len(all) = Len(one) + n
      /\ \A k \in 1 .. Len(one) + n : all[k] = IF k <= Len(one) THEN one[k] ELSE q[k - Len(one)]
  BY <1>1, <1>2, ConcatProperties
<1>4. Len(all) = n + 1 /\ all[1] = x /\ \A k \in 2 .. n + 1 : all[k] = q[k - 1]
  BY <1>2, <1>3
<1>5. all # <<>>
  BY <1>2, <1>3, <1>4
<1> QED  BY <1>1, <1>2, <1>3, <1>4, <1>5 DEF Before

\* A piece up to the first token, before the pieces of what is behind it.
LEMMA PiecePrepended ==
    ASSUME NEW Chars, NEW s \in Seq(Chars), NEW token \in Seq(Chars), token # <<>>,
           NEW limit \in Int, NEW i \in Nat, i # limit,
           NEW p \in 1 .. Len(s) + 1, Str!Occurrences(s, token, p) # {},
           NEW m, m = Str!Min(Str!Occurrences(s, token, p)),
           NEW after, after = Str!After(m, token),
           NEW others, Pieces(s, token, limit, Chars, others, after, i + 1)
    PROVE  Pieces(s, token, limit, Chars, <<SubSeq(s, p, m - 1)>> \o others, p, i)
<1>1. PICK piece, pieces, n, N :
            /\ piece = SubSeq(s, p, m - 1) /\ pieces = <<piece>> \o others
            /\ n = Len(s) /\ N = Len(others)
  OBVIOUS
<1>2. /\ piece \in Seq(Chars)
      /\ Str!Occurrences(piece, token, 1) = {}
      /\ (piece \o token) \o SubSeq(s, after, n) = SubSeq(s, p, n)
  <2>1. TokenFirst(Chars, s, token, p, m, after)
    BY FirstToken
  <2> QED  BY <1>1, <2>1 DEF TokenFirst
<1>3. /\ others \in Seq(Seq(Chars)) /\ others # <<>>
      /\ Str!Join(others, token) = SubSeq(s, after, n)
      /\ \A k \in 1 .. N :
            Str!Occurrences(others[k], token, 1) = {} \/ (i + 1) + k = limit + 1
      /\ i + 1 <= limit => (i + 1) + N <= limit + 1
  BY <1>1 DEF Pieces
<1>4. /\ pieces \in Seq(Seq(Chars)) /\ pieces # <<>> /\ N \in Nat
      /\ Len(pieces) = N + 1 /\ pieces[1] = piece
      /\ \A k \in 2 .. N + 1 : pieces[k] = others[k - 1]
  <2>1. Before(Seq(Chars), piece, others, pieces)
    BY <1>1, <1>2, <1>3, OneBefore
  <2> QED  BY <1>1, <2>1 DEF Before
<1>5. Str!Join(pieces, token) = SubSeq(s, p, n)
  <2>1. Prepends(Chars, token, piece, others)
    BY <1>2, <1>3, JoinPrepends
  <2>2. Str!Join(<<piece>> \o others, token) = (piece \o token) \o Str!Join(others, token)
    BY <1>3, <2>1 DEF Prepends
  <2> QED  BY <1>1, <1>2, <1>3, <2>2
<1>6. ASSUME NEW k \in 1 .. Len(pieces)
      PROVE  Str!Occurrences(pieces[k], token, 1) = {} \/ i + k = limit + 1
  <2>1. CASE k = 1
    BY <1>2, <1>4, <2>1
  <2>2. CASE k # 1
    <3>1. k \in 2 .. N + 1 /\ k - 1 \in 1 .. N /\ (i + 1) + (k - 1) = i + k
      BY <1>4, <2>2
    <3>2. pieces[k] = others[k - 1]
      BY <1>4, <3>1
    <3> QED  BY <1>3, <3>1, <3>2
  <2> QED  BY <2>1, <2>2
<1>7. i <= limit => i + Len(pieces) <= limit + 1
  BY <1>3, <1>4
<1>8. Pieces(s, token, limit, Chars, pieces, p, i)
  BY <1>1, <1>4, <1>5, <1>6, <1>7 DEF Pieces
<1> QED  BY <1>1, <1>8

\* strings_impl.h: Join restores what Split took apart, whatever the text, the
\* token and the limit.  No piece has a token in it but the one that the limit
\* left unsplit, and there are no more pieces than the limit allows.
THEOREM JoinRestoresSplit ==
    ASSUME NEW Chars, NEW s \in Seq(Chars), NEW token \in Seq(Chars), token # <<>>,
           NEW limit \in Nat \cup {-1}
    PROVE  Str!JoinRestores(s, token, limit)
<1>1. PICK f : IsSplit(s, token, limit, f, 1) /\ Str!Split(s, token, limit) = f[<<1, 0>>]
  BY SplitsExist
<1>2. PICK n : n = Len(s)
  OBVIOUS
<1>3. n \in Nat /\ limit \in Int
  BY <1>2
<1>4. \A p \in 1 .. n + 1, i \in Nat :
            f[<<p, i>>] =
                IF i = limit \/ Str!Occurrences(s, token, p) = {}
                THEN <<SubSeq(s, p, n)>>
                ELSE <<SubSeq(s, p, Str!Min(Str!Occurrences(s, token, p)) - 1)>>
                        \o f[<<Str!After(Str!Min(Str!Occurrences(s, token, p)), token), i + 1>>]
  <2> TAKE p \in 1 .. n + 1, i \in Nat
  <2>1. PICK place : place = <<p, i>>
    OBVIOUS
  <2>2. place \in (1 .. Len(s) + 1) \X Nat /\ place[1] = p /\ place[2] = i
    BY <1>2, <2>1
  <2>3. f[place] = SplitStep(s, token, limit, f, place)
    BY <1>1, <2>2 DEF IsSplit
  <2> QED  BY <1>2, <2>1, <2>2, <2>3 DEF SplitStep
<1> DEFINE Right(p) == \A i \in Nat : Pieces(s, token, limit, Chars, f[<<p, i>>], p, i)
<1>5. ASSUME NEW p \in 1 .. n + 1, NEW i \in Nat,
             i = limit \/ Str!Occurrences(s, token, p) = {}
      PROVE  Pieces(s, token, limit, Chars, f[<<p, i>>], p, i)
  <2>1. PICK piece, pieces : piece = SubSeq(s, p, n) /\ pieces = <<piece>>
    OBVIOUS
  <2>2. f[<<p, i>>] = pieces
    BY <1>4, <1>5, <2>1
  <2>3. p \in Nat \ {0} /\ n <= Len(s) /\ p <= n + 1
    BY <1>2, <1>3
  <2>4. piece \in Seq(Chars)
    <3>1. IsPart(Chars, s, p, n)
      BY <1>2, <1>3, <2>3, Part
    <3> QED  BY <2>1, <3>1 DEF IsPart
  <2>5. pieces \in Seq(Seq(Chars)) /\ pieces # <<>> /\ Len(pieces) = 1 /\ pieces[1] = piece
    BY <2>1, <2>4
  <2>6. Str!Join(pieces, token) = piece
    <3>1. Prepends(Chars, token, piece, pieces)
      BY <2>4, <2>5, JoinPrepends
    <3> QED  BY <2>1, <3>1 DEF Prepends
  <2>7. i # limit => Str!Occurrences(piece, token, 1) = {}
    <3> SUFFICES ASSUME i # limit PROVE Str!Occurrences(piece, token, 1) = {}
      OBVIOUS
    <3>1. n \in p - 1 .. Len(s) /\ p \in 1 .. Len(s) + 1
      BY <1>2, <1>3, <2>3
    <3>2. \A j \in Str!Occurrences(s, token, p) : j + Len(token) - 1 > n
      BY <1>5
    <3> QED  BY <2>1, <3>1, <3>2, NoTokenWithin
  <2>8. ASSUME NEW k \in 1 .. Len(pieces)
        PROVE  Str!Occurrences(pieces[k], token, 1) = {} \/ i + k = limit + 1
    <3>1. k = 1
      BY <2>5
    <3> QED  BY <2>5, <2>7, <3>1
  <2>9. i <= limit => i + Len(pieces) <= limit + 1
    BY <1>3, <2>5
  <2> QED  BY <1>2, <2>1, <2>2, <2>5, <2>6, <2>8, <2>9 DEF Pieces
<1>6. ASSUME NEW p \in 1 .. n + 1, NEW i \in Nat,
             i # limit, Str!Occurrences(s, token, p) # {},
             \A q \in p + 1 .. n + 1 : Right(q)
      PROVE  Pieces(s, token, limit, Chars, f[<<p, i>>], p, i)
  <2>1. PICK m, after, piece, others, pieces :
            /\ m = Str!Min(Str!Occurrences(s, token, p)) /\ after = Str!After(m, token)
            /\ piece = SubSeq(s, p, m - 1) /\ others = f[<<after, i + 1>>]
            /\ pieces = <<piece>> \o others
    OBVIOUS
  <2>2. f[<<p, i>>] = pieces
    BY <1>4, <1>6, <2>1
  <2>3. p \in 1 .. Len(s) + 1
    BY <1>2
  <2>4. after \in p + 1 .. n + 1
    <3>1. TokenFirst(Chars, s, token, p, m, after)
      BY <1>6, <2>1, <2>3, FirstToken
    <3> QED  BY <1>2, <3>1 DEF TokenFirst
  <2>5. Pieces(s, token, limit, Chars, others, after, i + 1)
    <3>1. \A j \in Nat : Pieces(s, token, limit, Chars, f[<<after, j>>], after, j)
      BY <1>6, <2>4
    <3>2. PICK j : j = i + 1
      OBVIOUS
    <3>3. j \in Nat
      BY <3>2
    <3>4. Pieces(s, token, limit, Chars, f[<<after, j>>], after, j)
      BY <3>1, <3>3
    <3> QED  BY <2>1, <3>2, <3>4
  <2> HIDE DEF Right
  <2>6. Pieces(s, token, limit, Chars, <<SubSeq(s, p, m - 1)>> \o others, p, i)
    BY <1>3, <1>6, <2>1, <2>3, <2>5, PiecePrepended
  <2> QED  BY <2>1, <2>2, <2>6
<1>7. ASSUME NEW p \in 1 .. n + 1, \A q \in p + 1 .. n + 1 : Right(q)
      PROVE  Right(p)
  BY <1>5, <1>6, <1>7
<1> HIDE DEF Right
<1> DEFINE Bad == {k \in 0 .. n : ~Right(n + 1 - k)}
<1>8. ASSUME Bad # {} PROVE FALSE
  <2>1. Bad \in SUBSET Nat
    BY <1>3
  <2>2. PICK k \in Bad : \A m \in Bad : k <= m
    <3> HIDE DEF Bad
    <3> QED  BY <1>8, <2>1, LeastElement
  <2>3. k \in 0 .. n /\ ~Right(n + 1 - k) /\ n + 1 - k \in 1 .. n + 1
    BY <1>3, <2>2
  <2>4. ASSUME NEW q \in (n + 1 - k) + 1 .. n + 1 PROVE Right(q)
    <3>1. n + 1 - q \in 0 .. n /\ ~(k <= n + 1 - q) /\ n + 1 - (n + 1 - q) = q
      BY <1>3, <2>3
    <3>2. Right(n + 1 - (n + 1 - q))
      BY <2>2, <3>1
    <3> QED  BY <3>1, <3>2
  <2> QED  BY <1>7, <2>3, <2>4
<1>9. Right(1)
  <2>1. n \in 0 .. n /\ n + 1 - n = 1
    BY <1>3
  <2> QED  BY <1>8, <2>1
<1>10. PICK pieces : pieces = Str!Split(s, token, limit)
  OBVIOUS
<1>11. Pieces(s, token, limit, Chars, pieces, 1, 0)
  BY <1>1, <1>9, <1>10 DEF Right
<1>12. SubSeq(s, 1, n) = s
  BY <1>2, SubSeqFull
<1>13. DOMAIN pieces = 1 .. Len(pieces)
  BY <1>11 DEF Pieces
<1>14. /\ Str!Join(pieces, token) = s
       /\ \A k \in 1 .. Len(pieces) :
            Str!Occurrences(pieces[k], token, 1) = {} \/ 0 + k = limit + 1
       /\ 0 <= limit => 0 + Len(pieces) <= limit + 1
  BY <1>2, <1>11, <1>12 DEF Pieces
<1>15. Len(pieces) \in Nat /\ (limit # -1 => 0 <= limit)
  BY <1>3, <1>11 DEF Pieces
<1>16. /\ \A k \in DOMAIN pieces :
            Str!Occurrences(pieces[k], token, 1) = {} \/ k = limit + 1
       /\ limit # -1 => Len(pieces) <= limit + 1
  BY <1>3, <1>13, <1>14, <1>15
<1> QED  BY <1>10, <1>14, <1>16 DEF Str!JoinRestores
=============================================================================
