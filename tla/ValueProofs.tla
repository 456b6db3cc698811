----------------------------- MODULE ValueProofs -----------------------------
(***************************************************************************)
(* What becomes of values, for every value of ValueUtilities' constants: the *)
(* times of a clock, those a stream carries, and those that functions        *)
(* without state convert, round, print and put into another byte order.     *)
(***************************************************************************)
EXTENDS ValueUtilities, SequenceProofs

-----------------------------------------------------------------------------
(* TimeValue *)

\* The offset is not negative, before it is known too, so that the times that
\* GetNow tells are on one side of what it would tell next.
ClockOK ==
    /\ steady \in 0 .. MaxTime
    /\ system \in Nat /\ system >= Second
    /\ monotonicOffset_ \in Nat
    /\ ~ready => monotonicOffset_ = 0
    /\ reading \in [clock : {"none", "system", "steady"}, time : Nat]
    /\ reading.clock = "none" => reading = C!Unread
    /\ reading.clock = "system" => reading.time >= Second
    /\ reading.clock = "steady" => reading.time <= MaxTime
    /\ now \in Nat \X Nat
    /\ now[1] <= now[2] /\ now[2] <= steady + monotonicOffset_

\* GetInterval is never negative: of two times that GetNow told, the later is
\* at least the earlier, whenever the system clock is set, and though the first
\* was told before the clock was constructed.
THEOREM ClockNeverBack ==
    ASSUME SystemAhead
    PROVE  C!Spec => []NeverBack
<1> USE DEF SystemAhead, ClockOK
<1>1. C!Init => ClockOK
  BY DEF C!Init, C!Unread
<1>2. ClockOK /\ [C!Next]_(C!vars) => ClockOK'
  <2> SUFFICES ASSUME ClockOK, [C!Next]_(C!vars) PROVE ClockOK'
    OBVIOUS
  <2>1. CASE C!Tick
    BY <2>1 DEF C!Tick
  <2>2. CASE C!SetSystemClock
    BY <2>2 DEF C!SetSystemClock
  <2>3. CASE C!ReadClock
    BY <2>3 DEF C!ReadClock, C!Unread
  <2>4. CASE C!Construct
    BY <2>4 DEF C!Construct
  <2>5. CASE C!GetNow
    BY <2>5 DEF C!GetNow, C!Now, C!Plus
  <2>6. CASE UNCHANGED C!vars
    BY <2>6 DEF C!vars
  <2> QED  BY <2>1, <2>2, <2>3, <2>4, <2>5, <2>6 DEF C!Next
<1>3. ClockOK => NeverBack
  BY DEF NeverBack, C!NeverBack, C!Less, C!Minus
<1> QED  BY <1>1, <1>2, <1>3, PTL DEF C!Spec

-----------------------------------------------------------------------------
(* BinaryIo *)

\* The places of a number's bytes: each is worth Range_uint8 times the one before.
LEMMA Places ==
    ASSUME StreamSizes
    PROVE  /\ I!Place[0] = 1
           /\ \A i \in 0 .. sizeof_CountType : I!Place[i] \in Nat \ {0}
           /\ \A i \in 1 .. sizeof_CountType : I!Place[i] = Range_uint8 * I!Place[i - 1]
<1>1. PICK N, Terms, first : N = sizeof_CountType /\ Terms = Nat \ {0} /\ first = 1
  OBVIOUS
<1> DEFINE step == [p \in (1 .. N) \X Terms |-> Range_uint8 * p[2]]
<1>2. N \in Nat /\ first \in Terms /\ Range_uint8 \in Nat /\ Range_uint8 > 1
  BY <1>1 DEF StreamSizes
<1>3. \A x \in Terms : Range_uint8 * x \in Terms
  <2>1. \A x, y \in Nat : x > 0 /\ y > 0 => x * y \in Nat /\ x * y > 0
    OBVIOUS
  <2>2. \A x \in Terms : x \in Nat /\ x > 0
    BY <1>1
  <2>3. \A x \in Nat : x > 0 => x \in Terms
    BY <1>1
  <2> QED  BY <1>2, <2>1, <2>2, <2>3
<1>4. step \in [(1 .. N) \X Terms -> Terms]
  BY <1>3
<1>5. \A n \in 1 .. N, x \in Terms : step[<<n, x>>] = Range_uint8 * x
  OBVIOUS
<1> HIDE DEF step
<1>6. PICK f : Recurs(f, N, Terms, first, step)
  BY <1>2, <1>4, Recursion
<1>7. /\ f \in [0 .. N -> Terms] /\ f[0] = 1
      /\ \A i \in 1 .. N : f[i] = Range_uint8 * f[i - 1]
  <2>1. \A i \in 1 .. N : i - 1 \in 0 .. N
    BY <1>2
  <2> QED  BY <1>1, <1>5, <1>6, <2>1 DEF Recurs
<1>8. f = [i \in 0 .. N |-> IF i = 0 THEN 1 ELSE Range_uint8 * f[i - 1]]
  <2>1. f = [i \in 0 .. N |-> f[i]]
    BY <1>7
  <2>2. \A i \in 0 .. N : i # 0 => i \in 1 .. N
    BY <1>2
  <2> QED  BY <1>7, <2>1, <2>2
<1>9. I!Place = [i \in 0 .. N |-> IF i = 0 THEN 1 ELSE Range_uint8 * I!Place[i - 1]]
  <2>1. I!Place = CHOOSE g : g = [i \in 0 .. N |-> IF i = 0 THEN 1 ELSE Range_uint8 * g[i - 1]]
    BY <1>1 DEF I!Place
  <2> QED  BY <1>8, <2>1
<1> DEFINE Bad == {i \in 0 .. N : I!Place[i] # f[i]}
<1>10. ASSUME Bad # {} PROVE FALSE
  <2>1. Bad \in SUBSET Nat
    BY <1>2
  <2>2. PICK n \in Bad : \A m \in Bad : n <= m
    <3> HIDE DEF Bad
    <3> QED  BY <1>10, <2>1, LeastElement
  <2>3. I!Place[n] = IF n = 0 THEN 1 ELSE Range_uint8 * I!Place[n - 1]
    BY <1>9, <2>2
  <2>4. n # 0
    BY <1>7, <2>2, <2>3
  <2>5. n \in 1 .. N /\ n - 1 \in 0 .. N /\ ~(n <= n - 1)
    BY <1>2, <2>2, <2>4
  <2>6. I!Place[n - 1] = f[n - 1]
    BY <2>2, <2>5
  <2> QED  BY <1>7, <2>2, <2>3, <2>4, <2>5, <2>6
<1>11. \A i \in 0 .. N : I!Place[i] = f[i] /\ f[i] \in Nat \ {0}
  BY <1>1, <1>7, <1>10
<1>12. \A i \in 1 .. N : i \in 0 .. N /\ i - 1 \in 0 .. N
  BY <1>2
<1>13. 0 \in 0 .. N
  BY <1>2
<1> QED  BY <1>1, <1>7, <1>11, <1>12, <1>13

\* The remainder by r * p has one more digit, of worth p, than that by p.
LEMMA NextDigit ==
    ASSUME NEW n \in Nat, NEW p \in Nat \ {0}, NEW r \in Nat \ {0}
    PROVE  n % (r * p) = (n % p) + p * ((n \div p) % r)
<1>1. PICK q, b : q = n \div p /\ b = n % p
  OBVIOUS
<1>2. q \in Nat /\ b \in 0 .. p - 1 /\ n = p * q + b
  BY <1>1
<1>3. PICK d, c : d = q \div r /\ c = q % r
  OBVIOUS
<1>4. d \in Nat /\ c \in 0 .. r - 1 /\ q = r * d + c
  BY <1>2, <1>3
<1>5. PICK m, e : m = r * p /\ e = p * c + b
  OBVIOUS
<1>6. m \in Nat \ {0}
  <2>1. \A x, y \in Nat : x > 0 /\ y > 0 => x * y > 0 /\ x * y \in Nat
    OBVIOUS
  <2> QED  BY <1>5, <2>1
<1>7. e \in 0 .. m - 1
  <2>1. p * c \in Nat /\ p * (r - 1) \in Nat /\ p * c <= p * (r - 1)
    <3>1. \A x, y, z \in Nat : x <= y => z * x <= z * y /\ z * x \in Nat /\ z * y \in Nat
      OBVIOUS
    <3>2. c \in Nat /\ r - 1 \in Nat /\ c <= r - 1 /\ p \in Nat
      BY <1>4
    <3> QED  BY <3>1, <3>2
  <2>2. p * (r - 1) + p = m
    BY <1>5
  <2> QED  BY <1>2, <1>5, <1>6, <2>1, <2>2
<1>8. n = m * d + e
  <2>1. p * (r * d + c) = (p * (r * d)) + p * c
    BY <1>4
  <2>2. p * (r * d) = (r * p) * d
    BY <1>4
  <2>3. n = p * (r * d + c) + b
    BY <1>2, <1>4
  <2>4. (r * p) * d \in Int /\ p * c \in Int
    BY <1>4
  <2> QED  BY <1>2, <1>5, <2>1, <2>2, <2>3, <2>4
<1>9. n % m = e
  BY <1>4, <1>6, <1>7, <1>8, RemainderOf
<1>10. e = b + p * c
  BY <1>2, <1>4, <1>5
<1> QED  BY <1>1, <1>3, <1>5, <1>9, <1>10

\* A count that is not too large is read as it was written.
LEMMA CountTells ==
    ASSUME StreamSizes, NEW n \in Nat, n < I!Place[sizeof_CountType]
    PROVE  /\ I!CountBytes(n) \in Seq(Nat)
           /\ Len(I!CountBytes(n)) = sizeof_CountType
           /\ I!Count(I!CountBytes(n)) = n
<1>1. PICK N, place, bytes :
            N = sizeof_CountType /\ place = I!Place /\ bytes = I!CountBytes(n)
  OBVIOUS
<1>2. N \in Nat /\ N >= 1 /\ Range_uint8 \in Nat \ {0}
  BY <1>1 DEF StreamSizes
<1>3. /\ place[0] = 1
      /\ \A i \in 0 .. N : place[i] \in Nat \ {0}
      /\ \A i \in 1 .. N : place[i] = Range_uint8 * place[i - 1]
  BY <1>1, Places
<1>4. bytes = [i \in 1 .. N |-> (n \div place[i - 1]) % Range_uint8]
  BY <1>1 DEF I!CountBytes
<1>5. \A i \in 1 .. N : i \in 0 .. N /\ i - 1 \in 0 .. N
  BY <1>2
<1>6. \A i \in 1 .. N : bytes[i] \in Nat
  <2>1. \A p, r \in Nat \ {0} : (n \div p) % r \in Nat
    OBVIOUS
  <2> QED  BY <1>2, <1>3, <1>4, <1>5, <2>1
<1>7. bytes \in Seq(Nat) /\ Len(bytes) = N /\ DOMAIN bytes = 1 .. N
  BY <1>2, <1>4, <1>6
<1> DEFINE values == [i \in 1 .. N |-> place[i - 1] * bytes[i]]
           sum == [i \in 0 .. N |-> n % place[i]]
<1>8. I!Count(bytes) = Total(values)
  BY <1>1, <1>7 DEF I!Count, Total, I!FoldLeft, Str!FoldLeft, I!MapThenFoldSet,
        Str!MapThenFoldSet, I!Max, Str!Max
<1>9. values \in Seq(Nat) /\ Len(values) = N
      /\ \A i \in 1 .. N : values[i] = place[i - 1] * bytes[i]
  <2>1. \A i \in 1 .. N : place[i - 1] * bytes[i] \in Nat
    <3>1. \A x, y \in Nat : x * y \in Nat
      OBVIOUS
    <3> QED  BY <1>3, <1>5, <1>6, <3>1
  <2> QED  BY <1>2, <2>1
<1>10. \A i \in 0 .. N : sum[i] = n % place[i] /\ sum[i] \in Nat
  <2>1. \A p \in Nat \ {0} : n % p \in Nat
    OBVIOUS
  <2> QED  BY <1>3, <2>1
<1>11. sum \in [0 .. N -> Nat]
  BY <1>10
<1> HIDE DEF values, sum
<1>12. sum[0] = 0
  <2>1. n % 1 = 0
    OBVIOUS
  <2>2. 0 \in 0 .. N
    BY <1>2
  <2> QED  BY <1>3, <1>10, <2>1, <2>2
<1>13. ASSUME NEW i \in 1 .. N PROVE sum[i] = sum[i - 1] + values[i]
  <2>1. PICK p : p = place[i - 1]
    OBVIOUS
  <2>2. p \in Nat \ {0}
    BY <1>3, <1>5, <2>1
  <2>3. n % (Range_uint8 * p) = (n % p) + p * ((n \div p) % Range_uint8)
    BY <1>2, <2>2, NextDigit
  <2>4. bytes[i] = (n \div p) % Range_uint8
    BY <1>4, <2>1
  <2> QED  BY <1>3, <1>5, <1>9, <1>10, <2>1, <2>3, <2>4
<1>14. Sums(values, sum)
  BY <1>9, <1>11, <1>12, <1>13 DEF Sums
<1>15. Total(values) = sum[N]
  BY <1>9, <1>14, TotalIs
<1>16. sum[N] = n
  <2>1. PICK p : p = place[N]
    OBVIOUS
  <2>2. N \in 0 .. N
    BY <1>2
  <2>3. p \in Nat \ {0} /\ n < p
    BY <1>1, <1>3, <2>1, <2>2
  <2>4. n % p = n
    BY <2>3
  <2> QED  BY <1>10, <2>1, <2>2, <2>4
<1> QED  BY <1>1, <1>7, <1>8, <1>15, <1>16

\* What may have been written: nothing that is too long.
Writable ==
    {item \in I!Items :
        /\ item.of = "string" => Len(item.value) < Range_uint8
        /\ item.of = "longString" => Len(item.value) < I!Place[sizeof_CountType]}

LEMMA Kinds ==
    ASSUME StreamSizes, NEW item \in Writable
    PROVE  \/ item.of = "number" /\ item.value \in NumberBytes
           \/ item.of = "string" /\ item.value \in Seq(Nat) /\ Len(item.value) < Range_uint8
           \/ /\ item.of = "longString" /\ item.value \in Seq(Nat)
              /\ Len(item.value) < I!Place[sizeof_CountType]
           \/ item.of = "optional" /\ item.value = <<>>
           \/ item.of = "optional" /\ \E n \in NumberBytes : item.value = <<n>>
<1>1. \/ item.of = "number" /\ item.value \in NumberBytes
      \/ item.of \in {"string", "longString"} /\ item.value \in StringBytes
      \/ item.of = "optional" /\ item.value \in {<<>>} \cup {<<n>> : n \in NumberBytes}
  BY DEF Writable, I!Items
<1>2. \A s \in StringBytes : s \in Seq(Nat)
  <2> TAKE s \in StringBytes
  <2>1. s \in Seq(0 .. Range_uint8 - 1) /\ Range_uint8 \in Nat
    BY DEF StreamSizes
  <2>2. s \in [1 .. Len(s) -> 0 .. Range_uint8 - 1] /\ Len(s) \in Nat
    BY <2>1
  <2>3. \A i \in 1 .. Len(s) : s[i] \in Nat
    BY <2>1, <2>2
  <2>4. s = [i \in 1 .. Len(s) |-> s[i]]
    BY <2>2
  <2> QED  BY <2>2, <2>3, <2>4
<1> QED  BY <1>1, <1>2 DEF Writable

LEMMA NumberIsBytes ==
    ASSUME StreamSizes, NEW n \in NumberBytes
    PROVE  n \in Seq(Nat) /\ Len(n) = sizeof_Number
<1>1. sizeof_Number \in Nat /\ n \in [1 .. sizeof_Number -> 0 .. Range_uint8 - 1] /\ Range_uint8 \in Nat
  BY DEF StreamSizes
<1>2. \A i \in 1 .. sizeof_Number : n[i] \in Nat
  BY <1>1
<1>3. n = [i \in 1 .. sizeof_Number |-> n[i]]
  BY <1>1
<1> QED  BY <1>1, <1>2, <1>3

\* What each kind of object is in the stream.
LEMMA BytesOfKinds ==
    ASSUME StreamSizes, NEW item \in Writable
    PROVE  /\ item.of = "number" => I!Entire(item) = item.value
           /\ item.of = "string" => I!Entire(item) = <<Len(item.value)>> \o item.value
           /\ item.of = "longString" =>
                    I!Entire(item) = I!CountBytes(Len(item.value)) \o item.value
           /\ item.of = "optional" =>
                    I!Entire(item) = IF item.value = <<>> THEN <<0>> ELSE <<1>> \o item.value[1]
           /\ I!Entire(item) \in Seq(Nat) /\ Len(I!Entire(item)) >= 1
<1>1. CASE item.of = "number"
  <2>1. I!Entire(item) = item.value
    BY <1>1 DEF I!Entire, I!Bytes
  <2>2. item.value \in NumberBytes
    BY <1>1, Kinds
  <2>3. sizeof_Number >= 1
    BY DEF StreamSizes
  <2> QED  BY <1>1, <2>1, <2>2, <2>3, NumberIsBytes
<1>2. CASE item.of = "string"
  <2>1. PICK value : value = item.value
    OBVIOUS
  <2>2. value \in Seq(Nat) /\ Len(value) < Range_uint8 /\ Range_uint8 \in Nat
    BY <1>2, <2>1, Kinds DEF StreamSizes
  <2>3. Len(value) % Range_uint8 = Len(value)
    BY <2>2
  <2>4. SubSeq(value, 1, Len(value)) = value
    BY <2>2
  <2>5. I!Entire(item) = <<Len(value)>> \o value
    BY <1>2, <2>1, <2>3, <2>4 DEF I!Entire, I!Bytes
  <2>6. <<Len(value)>> \o value \in Seq(Nat) /\ Len(<<Len(value)>> \o value) >= 1
    BY <2>2
  <2> QED  BY <1>2, <2>1, <2>5, <2>6
<1>3. CASE item.of = "longString"
  <2>1. PICK value, head : value = item.value /\ head = I!CountBytes(Len(value))
    OBVIOUS
  <2>2. value \in Seq(Nat) /\ Len(value) < I!Place[sizeof_CountType] /\ Len(value) \in Nat
    BY <1>3, <2>1, Kinds
  <2>3. head \in Seq(Nat) /\ Len(head) = sizeof_CountType
    BY <2>1, <2>2, CountTells
  <2>4. I!Entire(item) = head \o value
    BY <1>3, <2>1 DEF I!Entire
  <2>5. head \o value \in Seq(Nat) /\ Len(head \o value) >= 1
    <3>1. \A x, y \in Seq(Nat) : x \o y \in Seq(Nat) /\ Len(x \o y) = Len(x) + Len(y)
      OBVIOUS
    <3>2. sizeof_CountType >= 1 /\ sizeof_CountType \in Nat
      BY DEF StreamSizes
    <3> QED  BY <2>2, <2>3, <3>1, <3>2
  <2> QED  BY <1>3, <2>1, <2>4, <2>5
<1>4. CASE item.of = "optional" /\ item.value = <<>>
  <2>1. I!Entire(item) = <<0>>
    BY <1>4 DEF I!Entire, I!Bytes
  <2> QED  BY <1>4, <2>1
<1>5. CASE item.of = "optional" /\ item.value # <<>>
  <2>1. PICK n \in NumberBytes : item.value = <<n>>
    BY <1>5, Kinds
  <2>2. I!Entire(item) = <<1>> \o item.value[1] /\ item.value[1] = n
    BY <1>5, <2>1 DEF I!Entire, I!Bytes
  <2>3. n \in Seq(Nat)
    BY NumberIsBytes
  <2>4. <<1>> \o n \in Seq(Nat) /\ Len(<<1>> \o n) >= 1
    BY <2>3
  <2> QED  BY <1>5, <2>2, <2>4
<1> QED  BY <1>1, <1>2, <1>3, <1>4, <1>5, Kinds

\* The stream has the first bytes of these at the place `at`.
StartsAt(bytes, at) ==
    \A k \in 1 .. Len(bytes) : at + k <= Len(stream) => stream[at + k] = bytes[k]

LEMMA TakesWhole ==
    ASSUME stream \in Seq(Nat), NEW at \in Nat, NEW n \in Nat
    PROVE  /\ n >= 1 => (I!Whole(at, n) <=> at + n <= Len(stream))
           /\ at + n <= Len(stream) => I!Whole(at, n)
           /\ I!Available(at) \in Nat
           /\ at + n <= Len(stream) => I!Available(at) >= n
<1>1. Len(stream) \in Nat
  OBVIOUS
<1> QED  BY <1>1 DEF I!Whole, I!Available

LEMMA TakesBytes ==
    ASSUME stream \in Seq(Nat), NEW at \in Nat, NEW bytes \in Seq(Nat),
           at + Len(bytes) <= Len(stream), StartsAt(bytes, at)
    PROVE  I!Taken(at, Len(bytes)) = bytes /\ I!Padded(at, Len(bytes)) = bytes
<1>1. PICK n : n = Len(bytes)
  OBVIOUS
<1>2. n \in Nat /\ Len(stream) \in Nat /\ at + n <= Len(stream)
      /\ bytes = [k \in 1 .. n |-> bytes[k]]
  BY <1>1
<1>3. \A k \in 1 .. n : at + k \in 1 .. Len(stream) /\ stream[at + k] = bytes[k]
  <2> TAKE k \in 1 .. n
  <2>1. at + k \in 1 .. Len(stream) /\ at + k <= Len(stream)
    BY <1>2
  <2> QED  BY <1>1, <2>1 DEF StartsAt
<1>4. I!Padded(at, n) = bytes
  <2>1. \A k \in 1 .. n : k <= I!Available(at)
    BY <1>2, TakesWhole
  <2>2. I!Padded(at, n) = [k \in 1 .. n |-> bytes[k]]
    BY <1>3, <2>1 DEF I!Padded
  <2> QED  BY <1>2, <2>2
<1>5. I!Taken(at, n) = bytes
  <2>1. PICK s : s = SubSeq(stream, at + 1, at + n)
    OBVIOUS
  <2>2. s \in Seq(Nat) /\ Len(s) = n /\ \A k \in 1 .. n : s[k] = stream[at + k]
    <3>1. PICK low, high : low = at + 1 /\ high = at + n
      OBVIOUS
    <3>2. low \in Int /\ high \in Int /\ high - low + 1 = n /\ (low > high => n = 0)
          /\ \A k \in 1 .. n : low + k - 1 = at + k
      <4>1. n \in Nat
        BY <1>2
      <4> QED  BY <3>1, <4>1
    <3>3. \A i \in low .. high : stream[i] \in Nat
      BY <1>2, <3>1
    <3>4. /\ s \in Seq(Nat) /\ Len(s) = IF low <= high THEN high - low + 1 ELSE 0
          /\ \A k \in 1 .. high - low + 1 : s[k] = stream[low + k - 1]
      BY <2>1, <3>1, <3>2, <3>3, SubSeqProperties
    <3> QED  BY <1>2, <3>2, <3>4
  <2>3. s = [k \in 1 .. n |-> s[k]]
    BY <2>2
  <2>4. s = bytes
    BY <1>2, <1>3, <2>2, <2>3
  <2> QED  BY <2>1, <2>4 DEF I!Taken
<1> QED  BY <1>1, <1>4, <1>5

\* Bytes behind others.
LEMMA StartsBehind ==
    ASSUME stream \in Seq(Nat), NEW at \in Nat, NEW head \in Seq(Nat), NEW rest \in Seq(Nat),
           StartsAt(head \o rest, at)
    PROVE  StartsAt(head, at) /\ StartsAt(rest, at + Len(head))
<1>1. PICK all, h, n : all = head \o rest /\ h = Len(head) /\ n = Len(rest)
  OBVIOUS
<1>2. /\ h \in Nat /\ n \in Nat /\ Len(all) = h + n
      /\ \A k \in 1 .. h : all[k] = head[k]
      /\ \A k \in 1 .. n : all[h + k] = rest[k]
  BY <1>1
<1>3. \A k \in 1 .. h + n : at + k <= Len(stream) => stream[at + k] = all[k]
  BY <1>1, <1>2 DEF StartsAt
<1>4. StartsAt(head, at)
  BY <1>1, <1>2, <1>3 DEF StartsAt
<1>5. \A k \in 1 .. n : (at + h) + k <= Len(stream) => stream[(at + h) + k] = rest[k]
  <2> TAKE k \in 1 .. n
  <2>1. h + k \in 1 .. h + n /\ (at + h) + k = at + (h + k)
    BY <1>2
  <2> QED  BY <1>2, <1>3, <2>1
<1> QED  BY <1>1, <1>4, <1>5 DEF StartsAt

\* An object that is whole in the stream is read as it was written.
LEMMA ReadsWhole ==
    ASSUME StreamSizes, stream \in Seq(Nat), NEW item \in Writable, NEW at \in Nat,
           at + Len(I!Entire(item)) <= Len(stream), StartsAt(I!Entire(item), at)
    PROVE  LET read == I!ReadItem(item.of, at) IN
           /\ read.told = "value" /\ read.value = item.value
           /\ read.at = at + Len(I!Entire(item))
<1>1. PICK bytes, value : bytes = I!Entire(item) /\ value = item.value
  OBVIOUS
<1>2. /\ bytes \in Seq(Nat) /\ Len(bytes) \in Nat /\ at + Len(bytes) <= Len(stream)
      /\ StartsAt(bytes, at)
  <2>1. I!Entire(item) \in Seq(Nat)
    BY BytesOfKinds
  <2>2. \A s \in Seq(Nat) : Len(s) \in Nat
    OBVIOUS
  <2> QED  BY <1>1, <2>1, <2>2
<1>3. /\ sizeof_Number \in Nat /\ sizeof_Number >= 1 /\ sizeof_CountType \in Nat /\ sizeof_CountType >= 1
      /\ Len(stream) \in Nat
  BY DEF StreamSizes
<1>4. \A x, y \in Seq(Nat) : Len(x \o y) = Len(x) + Len(y) /\ Len(x) \in Nat
  OBVIOUS
<1>5. ASSUME NEW place \in Nat, NEW n \in NumberBytes, StartsAt(n, place),
             place + sizeof_Number <= Len(stream)
      PROVE  I!ReadT(place) = [told |-> "value", value |-> n, at |-> place + sizeof_Number]
  <2>1. n \in Seq(Nat) /\ Len(n) = sizeof_Number
    BY NumberIsBytes
  <2>2. I!Taken(place, sizeof_Number) = n
    BY <1>5, <2>1, TakesBytes
  <2>3. I!Whole(place, sizeof_Number)
    BY <1>3, <1>5, TakesWhole
  <2> QED  BY <2>2, <2>3 DEF I!ReadT, I!Returns
<1>6. ASSUME NEW place \in Nat, NEW head \in Nat, NEW text \in Seq(Nat),
             StartsAt(text, place + head), place + head + Len(text) <= Len(stream)
      PROVE  I!ReadCharacters(place, head, Len(text))
                = [told |-> "value", value |-> text, at |-> place + head + Len(text)]
  <2>1. place + head \in Nat /\ Len(text) \in Nat
    BY <1>6
  <2>2. I!Whole(place + head, Len(text))
    BY <1>6, <2>1, TakesWhole
  <2>3. I!Padded(place + head, Len(text)) = text
    BY <1>6, <2>1, TakesBytes
  <2> QED  BY <2>2, <2>3 DEF I!ReadCharacters, I!Returns
<1>7. CASE item.of = "number"
  <2>1. bytes = value /\ value \in NumberBytes
    BY <1>1, <1>7, BytesOfKinds, Kinds
  <2>2. Len(bytes) = sizeof_Number
    BY <2>1, NumberIsBytes
  <2>3. I!ReadItem(item.of, at) = [told |-> "value", value |-> value, at |-> at + sizeof_Number]
    BY <1>2, <1>5, <1>7, <2>1, <2>2 DEF I!ReadItem
  <2> QED  BY <1>1, <2>2, <2>3
<1>8. CASE item.of = "string"
  <2>1. PICK head : head = <<Len(value)>>
    OBVIOUS
  <2>2. bytes = head \o value /\ value \in Seq(Nat)
    BY <1>1, <1>8, <2>1, BytesOfKinds, Kinds
  <2>3. head \in Seq(Nat) /\ Len(head) = 1 /\ head[1] = Len(value) /\ Len(value) \in Nat
    BY <2>1, <2>2
  <2>4. Len(bytes) = 1 + Len(value)
    BY <1>4, <2>2, <2>3
  <2>5. StartsAt(head, at) /\ StartsAt(value, at + 1)
    BY <1>2, <2>2, <2>3, StartsBehind
  <2>6. stream[at + 1] = Len(value)
    <3>1. 1 \in 1 .. Len(head) /\ at + 1 <= Len(stream)
      BY <1>2, <1>3, <2>3, <2>4
    <3> QED  BY <2>3, <2>5, <3>1 DEF StartsAt
  <2>7. I!Whole(at, 1)
    BY <1>2, <1>3, <2>3, <2>4, TakesWhole
  <2>8. at + 1 + Len(value) = at + Len(bytes)
    BY <2>3, <2>4
  <2>9. I!ReadCharacters(at, 1, Len(value))
                = [told |-> "value", value |-> value, at |-> at + 1 + Len(value)]
    BY <1>2, <1>6, <2>2, <2>5, <2>8
  <2>10. I!ReadItem(item.of, at) = I!ReadCharacters(at, 1, Len(value))
    BY <1>8, <2>6, <2>7 DEF I!ReadItem, I!ReadString
  <2>11. I!ReadItem(item.of, at) = [told |-> "value", value |-> value, at |-> at + Len(bytes)]
    BY <2>8, <2>9, <2>10
  <2> QED  BY <1>1, <2>11
<1>9. CASE item.of = "longString"
  <2>1. PICK head, h : head = I!CountBytes(Len(value)) /\ h = sizeof_CountType
    OBVIOUS
  <2>2. bytes = head \o value /\ value \in Seq(Nat) /\ Len(value) < I!Place[sizeof_CountType]
    BY <1>1, <1>9, <2>1, BytesOfKinds, Kinds
  <2>3. /\ head \in Seq(Nat) /\ Len(head) = h /\ I!Count(head) = Len(value)
        /\ Len(value) \in Nat /\ h \in Nat /\ h >= 1
    BY <1>3, <2>1, <2>2, CountTells
  <2>4. Len(bytes) = h + Len(value)
    BY <1>4, <2>2, <2>3
  <2>5. StartsAt(head, at) /\ StartsAt(value, at + h)
    BY <1>2, <2>2, <2>3, StartsBehind
  <2>6. I!Taken(at, h) = head
    BY <1>2, <1>3, <2>3, <2>4, <2>5, TakesBytes
  <2>7. I!Whole(at, h)
    BY <1>2, <1>3, <2>3, <2>4, TakesWhole
  <2>8. at + h + Len(value) = at + Len(bytes)
    BY <2>3, <2>4
  <2>9. I!ReadCharacters(at, h, Len(value))
                = [told |-> "value", value |-> value, at |-> at + h + Len(value)]
    BY <1>2, <1>6, <2>2, <2>3, <2>5, <2>8
  <2>10. I!ReadItem(item.of, at) = I!ReadCharacters(at, h, Len(value))
    BY <1>9, <2>1, <2>3, <2>6, <2>7 DEF I!ReadItem, I!ReadLongString
  <2>11. I!ReadItem(item.of, at) = [told |-> "value", value |-> value, at |-> at + Len(bytes)]
    BY <2>8, <2>9, <2>10
  <2> QED  BY <1>1, <2>11
<1>10. CASE item.of = "optional" /\ value = <<>>
  <2>1. bytes = <<0>>
    BY <1>1, <1>10, BytesOfKinds
  <2>2. Len(bytes) = 1 /\ bytes[1] = 0
    BY <2>1
  <2>3. stream[at + 1] = 0 /\ I!Whole(at, 1)
    <3>1. 1 \in 1 .. Len(bytes) /\ at + 1 <= Len(stream)
      BY <1>2, <2>2
    <3> QED  BY <1>2, <1>3, <2>2, <3>1, TakesWhole DEF StartsAt
  <2>4. I!ReadItem(item.of, at) = [told |-> "value", value |-> <<>>, at |-> at + 1]
    BY <1>10, <2>3 DEF I!ReadItem, I!ReadOptional, I!Returns
  <2> QED  BY <1>1, <1>10, <2>2, <2>4
<1>11. CASE item.of = "optional" /\ value # <<>>
  <2>1. PICK n \in NumberBytes : value = <<n>>
    BY <1>1, <1>11, Kinds
  <2>2. PICK head : head = <<1>>
    OBVIOUS
  <2>3. bytes = head \o n
    <3>1. value[1] = n
      BY <2>1
    <3> QED  BY <1>1, <1>11, <2>2, <3>1, BytesOfKinds
  <2>4. head \in Seq(Nat) /\ Len(head) = 1 /\ head[1] = 1
    BY <2>2
  <2>5. n \in Seq(Nat) /\ Len(n) = sizeof_Number
    BY NumberIsBytes
  <2>6. Len(bytes) = 1 + sizeof_Number
    BY <1>4, <2>3, <2>4, <2>5
  <2>7. StartsAt(head, at) /\ StartsAt(n, at + 1)
    BY <1>2, <2>3, <2>4, <2>5, StartsBehind
  <2>8. stream[at + 1] = 1 /\ I!Whole(at, 1)
    <3>1. 1 \in 1 .. Len(head) /\ at + 1 <= Len(stream)
      BY <1>2, <1>3, <2>4, <2>6
    <3> QED  BY <1>3, <2>4, <2>7, <3>1, TakesWhole DEF StartsAt
  <2>9. I!ReadT(at + 1) = [told |-> "value", value |-> n, at |-> at + 1 + sizeof_Number]
    <3>1. at + 1 \in Nat /\ at + 1 + sizeof_Number <= Len(stream)
      BY <1>2, <1>3, <2>6
    <3> QED  BY <1>5, <2>7, <3>1
  <2>10. I!ReadItem(item.of, at) = [told |-> "value", value |-> <<n>>, at |-> at + 1 + sizeof_Number]
    BY <1>11, <2>8, <2>9 DEF I!ReadItem, I!ReadOptional
  <2>11. at + 1 + sizeof_Number = at + Len(bytes)
    BY <1>3, <2>6
  <2> QED  BY <1>1, <2>1, <2>10, <2>11
<1>12. item.of \in {"number", "string", "longString", "optional"}
  BY Kinds
<1> QED  BY <1>7, <1>8, <1>9, <1>10, <1>11, <1>12

\* An object that is not, never passes for one.
LEMMA ReadsPart ==
    ASSUME StreamSizes, stream \in Seq(Nat), NEW item \in Writable, NEW at \in Nat,
           at + Len(I!Entire(item)) > Len(stream), StartsAt(I!Entire(item), at),
           streaming \in {"istream", "function"}
    PROVE  LET read == I!ReadItem(item.of, at) IN
           /\ streaming = "function" => read.told = "threw"
           /\ read.told = "value" => read.at \in Nat /\ read.at > Len(stream)
           /\ read.told \in {"value", "threw", "junk"}
<1>1. PICK bytes, value : bytes = I!Entire(item) /\ value = item.value
  OBVIOUS
<1>2. /\ bytes \in Seq(Nat) /\ Len(bytes) \in Nat /\ at + Len(bytes) > Len(stream)
      /\ StartsAt(bytes, at)
  <2>1. I!Entire(item) \in Seq(Nat)
    BY BytesOfKinds
  <2>2. \A s \in Seq(Nat) : Len(s) \in Nat
    OBVIOUS
  <2> QED  BY <1>1, <2>1, <2>2
<1>3. /\ sizeof_Number \in Nat /\ sizeof_Number >= 1 /\ sizeof_CountType \in Nat /\ sizeof_CountType >= 1
      /\ Len(stream) \in Nat
  BY DEF StreamSizes
<1>4. \A x, y \in Seq(Nat) : Len(x \o y) = Len(x) + Len(y) /\ Len(x) \in Nat
  OBVIOUS
<1> DEFINE Fails(read) ==
            /\ streaming = "function" => read.told = "threw"
            /\ read.told = "value" => read.at \in Nat /\ read.at > Len(stream)
            /\ read.told \in {"value", "threw", "junk"}
<1>5. ASSUME NEW place \in Nat, place + sizeof_Number > Len(stream)
      PROVE  Fails(I!ReadT(place)) /\ I!ReadT(place).told # "value"
  <2>1. ~I!Whole(place, sizeof_Number)
    BY <1>3, <1>5, TakesWhole
  <2> QED  BY <2>1 DEF I!ReadT, I!Throws, I!Junk
<1>6. ASSUME NEW place \in Nat, NEW head \in Nat, NEW n \in Nat,
             place + head + n > Len(stream), place + head <= Len(stream)
      PROVE  Fails(I!ReadCharacters(place, head, n))
  <2>1. place + head \in Nat /\ n >= 1
    BY <1>3, <1>6
  <2>2. ~I!Whole(place + head, n)
    BY <1>3, <1>6, <2>1, TakesWhole
  <2>3. CASE streaming = "istream"
    BY <1>6, <2>3 DEF I!ReadCharacters, I!Returns
  <2>4. CASE streaming = "function"
    BY <2>2, <2>4 DEF I!ReadCharacters, I!Throws
  <2> QED  BY <2>3, <2>4
<1>7. Fails(I!Throws(at))
  BY DEF I!Throws
<1>8. CASE item.of = "number"
  <2>1. bytes = value /\ value \in NumberBytes
    BY <1>1, <1>8, BytesOfKinds, Kinds
  <2>2. Len(bytes) = sizeof_Number
    BY <2>1, NumberIsBytes
  <2>3. I!ReadItem(item.of, at) = I!ReadT(at)
    BY <1>8 DEF I!ReadItem
  <2>4. Fails(I!ReadT(at))
    BY <1>2, <1>5, <2>2
  <2> QED  BY <2>3, <2>4
<1>9. CASE item.of = "string"
  <2>1. PICK head : head = <<Len(value)>>
    OBVIOUS
  <2>2. bytes = head \o value /\ value \in Seq(Nat)
    BY <1>1, <1>9, <2>1, BytesOfKinds, Kinds
  <2>3. head \in Seq(Nat) /\ Len(head) = 1 /\ head[1] = Len(value) /\ Len(value) \in Nat
    BY <2>1, <2>2
  <2>4. Len(bytes) = 1 + Len(value)
    BY <1>4, <2>2, <2>3
  <2>5. StartsAt(head, at)
    BY <1>2, <2>2, <2>3, StartsBehind
  <2>6. CASE I!Whole(at, 1)
    <3>1. at + 1 <= Len(stream)
      BY <2>6, TakesWhole
    <3>2. stream[at + 1] = Len(value)
      BY <2>3, <2>5, <3>1 DEF StartsAt
    <3>3. at + 1 + Len(value) > Len(stream)
      BY <1>2, <2>3, <2>4
    <3>4. I!ReadItem(item.of, at) = I!ReadCharacters(at, 1, Len(value))
      BY <1>9, <2>6, <3>2 DEF I!ReadItem, I!ReadString
    <3>5. Fails(I!ReadCharacters(at, 1, Len(value)))
      BY <1>6, <2>3, <3>1, <3>3
    <3> QED  BY <3>4, <3>5
  <2>7. CASE ~I!Whole(at, 1)
    <3>1. I!ReadItem(item.of, at) = I!Throws(at)
      BY <1>9, <2>7 DEF I!ReadItem, I!ReadString
    <3> QED  BY <1>7, <3>1
  <2> QED  BY <2>6, <2>7
<1>10. CASE item.of = "longString"
  <2>1. PICK head, h : head = I!CountBytes(Len(value)) /\ h = sizeof_CountType
    OBVIOUS
  <2>2. bytes = head \o value /\ value \in Seq(Nat) /\ Len(value) < I!Place[sizeof_CountType]
    BY <1>1, <1>10, <2>1, BytesOfKinds, Kinds
  <2>3. /\ head \in Seq(Nat) /\ Len(head) = h /\ I!Count(head) = Len(value)
        /\ Len(value) \in Nat /\ h \in Nat /\ h >= 1
    BY <1>3, <2>1, <2>2, CountTells
  <2>4. Len(bytes) = h + Len(value)
    BY <1>4, <2>2, <2>3
  <2>5. StartsAt(head, at)
    BY <1>2, <2>2, <2>3, StartsBehind
  <2>6. CASE I!Whole(at, h)
    <3>1. at + h <= Len(stream)
      BY <2>3, <2>6, TakesWhole
    <3>2. I!Taken(at, h) = head
      BY <2>3, <2>5, <3>1, TakesBytes
    <3>3. at + h + Len(value) > Len(stream)
      BY <1>2, <2>3, <2>4
    <3>4. I!ReadItem(item.of, at) = I!ReadCharacters(at, h, Len(value))
      BY <1>10, <2>1, <2>3, <2>6, <3>2 DEF I!ReadItem, I!ReadLongString
    <3>5. Fails(I!ReadCharacters(at, h, Len(value)))
      BY <1>6, <2>3, <3>1, <3>3
    <3> QED  BY <3>4, <3>5
  <2>7. CASE ~I!Whole(at, h)
    <3>1. I!ReadItem(item.of, at) = I!Throws(at)
      BY <1>10, <2>1, <2>7 DEF I!ReadItem, I!ReadLongString
    <3> QED  BY <1>7, <3>1
  <2> QED  BY <2>6, <2>7
<1>11. CASE item.of = "optional"
  <2>1. CASE ~I!Whole(at, 1)
    <3>1. I!ReadItem(item.of, at) = I!Throws(at)
      BY <1>11, <2>1 DEF I!ReadItem, I!ReadOptional
    <3> QED  BY <1>7, <3>1
  <2>2. CASE I!Whole(at, 1)
    <3>1. at + 1 <= Len(stream)
      BY <2>2, TakesWhole
    <3>2. value # <<>>
      <4> SUFFICES ASSUME value = <<>> PROVE FALSE
        OBVIOUS
      <4>1. bytes = <<0>>
        BY <1>1, <1>11, BytesOfKinds
      <4>2. Len(bytes) = 1
        BY <4>1
      <4> QED  BY <1>2, <1>3, <3>1, <4>2
    <3>3. PICK n \in NumberBytes : value = <<n>>
      BY <1>1, <1>11, <3>2, Kinds
    <3>4. PICK head : head = <<1>>
      OBVIOUS
    <3>5. bytes = head \o n
      <4>1. value[1] = n
        BY <3>3
      <4> QED  BY <1>1, <1>11, <3>2, <3>4, <4>1, BytesOfKinds
    <3>6. /\ head \in Seq(Nat) /\ Len(head) = 1 /\ head[1] = 1
          /\ n \in Seq(Nat) /\ Len(n) = sizeof_Number
      BY <3>4, NumberIsBytes
    <3>7. Len(bytes) = 1 + sizeof_Number
      BY <1>4, <3>5, <3>6
    <3>8. StartsAt(head, at)
      BY <1>2, <3>5, <3>6, StartsBehind
    <3>9. stream[at + 1] = 1
      BY <3>1, <3>6, <3>8 DEF StartsAt
    <3>10. Fails(I!ReadT(at + 1)) /\ I!ReadT(at + 1).told # "value"
      <4>1. at + 1 \in Nat /\ at + 1 + sizeof_Number > Len(stream)
        BY <1>2, <1>3, <3>7
      <4> QED  BY <1>5, <4>1
    <3>11. I!ReadItem(item.of, at) = I!ReadT(at + 1)
      BY <1>11, <2>2, <3>9, <3>10 DEF I!ReadItem, I!ReadOptional
    <3> QED  BY <3>10, <3>11
  <2> QED  BY <2>1, <2>2
<1>12. item.of \in {"number", "string", "longString", "optional"}
  BY Kinds
<1> QED  BY <1>8, <1>9, <1>10, <1>11, <1>12

\* Where the object i of some objects ends.
Ends(items, i) == Total([j \in 1 .. i |-> Len(I!Entire(items[j]))])

LEMMA EndIs == \A i : I!End(i) = Ends(written, i)
BY DEF I!End, Ends, Total, I!FoldLeft, Str!FoldLeft, I!MapThenFoldSet, Str!MapThenFoldSet,
       I!Max, Str!Max

LEMMA EndsAdd ==
    ASSUME StreamSizes, NEW items \in Seq(Writable)
    PROVE  /\ Ends(items, 0) = 0
           /\ \A i \in 0 .. Len(items) : Ends(items, i) \in Nat
           /\ \A i \in 1 .. Len(items) :
                    Ends(items, i) = Ends(items, i - 1) + Len(I!Entire(items[i]))
<1> DEFINE size(j) == Len(I!Entire(items[j]))
           sizes(i) == [j \in 1 .. i |-> size(j)]
<1>1. PICK N : N = Len(items)
  OBVIOUS
<1>2. N \in Nat
  BY <1>1
<1>3. \A j \in 1 .. N : size(j) \in Nat
  <2> TAKE j \in 1 .. N
  <2>1. items[j] \in Writable
    BY <1>1
  <2>2. I!Entire(items[j]) \in Seq(Nat)
    BY <2>1, BytesOfKinds
  <2> QED  BY <2>2
<1>4. \A i : Ends(items, i) = Total(sizes(i))
  BY DEF Ends
<1> HIDE DEF size
<1>5. \A i \in 0 .. N : sizes(i) \in Seq(Nat)
  <2> TAKE i \in 0 .. N
  <2>1. i \in Nat /\ \A j \in 1 .. i : j \in 1 .. N
    BY <1>2
  <2> QED  BY <1>3, <2>1
<1>6. \A i \in 1 .. N : sizes(i) = Append(sizes(i - 1), size(i))
  <2> TAKE i \in 1 .. N
  <2>1. i - 1 \in Nat /\ i = (i - 1) + 1
    BY <1>2
  <2>2. Len(sizes(i - 1)) = i - 1
    BY <2>1
  <2> QED  BY <2>1, <2>2
<1>7. sizes(0) = <<>>
  OBVIOUS
<1> HIDE DEF sizes
<1>8. \A i \in 1 .. N : i - 1 \in 0 .. N
  BY <1>2
<1>9. Total(<<>>) = 0
  <2>1. sizes(0) \in Seq(Nat) /\ 0 \in Nat
    BY <1>2, <1>5
  <2> QED  BY <2>1, TotalAppend
<1>10. \A i \in 0 .. N : Ends(items, i) \in Nat
  <2> TAKE i \in 0 .. N
  <2>1. sizes(i) \in Seq(Nat) /\ 0 \in Nat
    BY <1>5
  <2> QED  BY <1>4, <2>1, TotalAppend
<1>11. \A i \in 1 .. N : Ends(items, i) = Ends(items, i - 1) + size(i)
  <2> TAKE i \in 1 .. N
  <2>1. PICK values, value : values = sizes(i - 1) /\ value = size(i)
    OBVIOUS
  <2>2. values \in Seq(Nat) /\ value \in Nat
    BY <1>3, <1>5, <1>8, <2>1
  <2>3. Total(Append(values, value)) = Total(values) + value
    BY <2>2, TotalAppend
  <2> QED  BY <1>4, <1>6, <2>1, <2>3
<1> QED  BY <1>1, <1>4, <1>7, <1>9, <1>10, <1>11 DEF size

LEMMA EndsGrow ==
    ASSUME StreamSizes, NEW items \in Seq(Writable), NEW i \in 0 .. Len(items),
           NEW n \in i .. Len(items)
    PROVE  Ends(items, i) <= Ends(items, n)
<1>1. PICK N : N = Len(items) /\ N \in Nat
  OBVIOUS
<1> DEFINE Bad == {m \in i .. N : ~(Ends(items, i) <= Ends(items, m))}
<1>2. ASSUME Bad # {} PROVE FALSE
  <2>1. Bad \in SUBSET Nat
    BY <1>1
  <2>2. PICK m \in Bad : \A k \in Bad : m <= k
    <3> HIDE DEF Bad
    <3> QED  BY <1>2, <2>1, LeastElement
  <2>3. i \in 0 .. N /\ Ends(items, i) \in Nat
    BY <1>1, EndsAdd
  <2>4. m # i
    BY <2>2, <2>3
  <2>5. m - 1 \in i .. N /\ m \in 1 .. N /\ ~(m <= m - 1) /\ m - 1 \in 0 .. N
    BY <1>1, <2>2, <2>3, <2>4
  <2>6. Ends(items, i) <= Ends(items, m - 1)
    BY <2>2, <2>5
  <2>7. Ends(items, m) = Ends(items, m - 1) + Len(I!Entire(items[m]))
        /\ Ends(items, m - 1) \in Nat
    BY <1>1, <2>5, EndsAdd
  <2>8. Len(I!Entire(items[m])) \in Nat
    <3>1. items[m] \in Writable
      BY <1>1, <2>5
    <3>2. I!Entire(items[m]) \in Seq(Nat)
      BY <3>1, BytesOfKinds
    <3> QED  BY <3>2
  <2>9. Ends(items, i) <= Ends(items, m)
    BY <2>3, <2>6, <2>7, <2>8
  <2> QED  BY <2>2, <2>9
<1> QED  BY <1>1, <1>2

LEMMA SameEnds ==
    ASSUME NEW items, NEW longer, NEW n \in Nat, \A j \in 1 .. n : longer[j] = items[j]
    PROVE  \A i \in 0 .. n : Ends(longer, i) = Ends(items, i)
<1> TAKE i \in 0 .. n
<1>1. \A j \in 1 .. i : j \in 1 .. n
  OBVIOUS
<1>2. [j \in 1 .. i |-> Len(I!Entire(longer[j]))] = [j \in 1 .. i |-> Len(I!Entire(items[j]))]
  BY <1>1
<1> QED  BY <1>2 DEF Ends

\* What is told of the object i.
GotOK(i) ==
    IF Ends(written, i) <= Len(stream)
    THEN \/ got[i].told = "skipped"
         \/ got[i].told = "value" /\ got[i].value = written[i].value
    ELSE got[i].told \in {"threw", "skipped"} \/ (streaming = "istream" /\ good = FALSE)

\* A string was written that is too long for an int, in vain.
SomeWraps == \E i \in 1 .. Len(written) : I!Wraps(written[i])

\* The reader stands at the end of what it has got, or that is more than there is;
\* a writer that is no longer good has written more than there is.
StreamOK ==
    /\ streaming \in {"writing", "istream", "function"}
    /\ written \in Seq(Writable)
    /\ stream \in Seq(Nat)
    /\ Len(stream) <= Ends(written, Len(written))
    /\ \A i \in 1 .. Len(written) : StartsAt(I!Entire(written[i]), Ends(written, i - 1))
    /\ streaming = "writing" =>
            /\ good = TRUE => Len(stream) = Ends(written, Len(written))
            /\ position = 0 /\ got = <<>>
    /\ good \in BOOLEAN
    /\ \E S : got \in Seq(S)
    /\ Len(got) <= Len(written)
    /\ good = TRUE => position = Ends(written, Len(got))
    /\ streaming # "writing" /\ good = FALSE => Ends(written, Len(got)) > Len(stream)
    /\ \A i \in 1 .. Len(got) : GotOK(i)

StreamInv == StreamOK \/ (SomeWraps /\ written \in Seq(Writable))

LEMMA StreamTells == StreamInv => ReadsWhatWasWritten
<1>wraps. ASSUME SomeWraps, written \in Seq(Writable) PROVE ReadsWhatWasWritten
  <2>1. DOMAIN written = 1 .. Len(written)
    BY <1>wraps
  <2> QED  BY <1>wraps, <2>1 DEF SomeWraps, ReadsWhatWasWritten, I!ReadsWhatWasWritten
<1> SUFFICES ASSUME StreamOK PROVE ReadsWhatWasWritten
  BY <1>wraps DEF StreamInv
<1>1. \A i \in 1 .. Len(got) : GotOK(i)
  BY DEF StreamOK
<1>2. DOMAIN got = 1 .. Len(got)
  BY DEF StreamOK
<1>3. good \in BOOLEAN
  BY DEF StreamOK
<1> QED  BY <1>1, <1>2, <1>3, EndIs DEF ReadsWhatWasWritten, I!ReadsWhatWasWritten, GotOK

LEMMA StreamStarts == ASSUME StreamSizes, I!Init PROVE StreamOK
<1>1. /\ streaming = "writing" /\ stream = <<>> /\ written = <<>>
      /\ position = 0 /\ good = TRUE /\ got = <<>>
  BY DEF I!Init
<1>2. written \in Seq(Writable) /\ stream \in Seq(Nat) /\ got \in Seq(Nat)
      /\ Len(written) = 0 /\ Len(stream) = 0 /\ Len(got) = 0
  BY <1>1
<1>3. Ends(written, 0) = 0
  BY <1>2, EndsAdd
<1>4. \A i : ~(i \in 1 .. 0)
  OBVIOUS
<1> QED  BY <1>1, <1>2, <1>3, <1>4 DEF StreamOK

\* What is written of an object is what it has, or the first part of that, after
\* which nothing is written any more.
LEMMA ObjectBytes ==
    ASSUME StreamSizes, NEW item \in Writable, ~I!Wraps(item)
    PROVE  LET bytes == I!Bytes(item)
               entire == I!Entire(item)
               fails == item.of = "longString" /\ I!Negative(Len(item.value))
           IN  /\ bytes \in Seq(Nat) /\ Len(bytes) <= Len(entire)
               /\ \A k \in 1 .. Len(bytes) : bytes[k] = entire[k]
               /\ ~fails => bytes = entire
               /\ fails => Len(bytes) < Len(entire)
<1>1. CASE item.of # "longString"
  <2>1. I!Bytes(item) = I!Entire(item) /\ I!Entire(item) \in Seq(Nat)
    BY <1>1, BytesOfKinds DEF I!Entire
  <2> QED  BY <1>1, <2>1
<1>2. CASE item.of = "longString"
  <2>1. PICK value, head, n : /\ value = item.value /\ head = I!CountBytes(Len(value))
                              /\ n = Len(value)
    OBVIOUS
  <2>2. value \in Seq(Nat) /\ n < I!Place[sizeof_CountType] /\ n \in Nat /\ n < Range_signed
        /\ Range_signed \in Nat \ {0}
    <3>1. value \in Seq(Nat) /\ n < I!Place[sizeof_CountType] /\ n \in Nat
      BY <1>2, <2>1, Kinds
    <3> QED  BY <1>2, <2>1, <3>1 DEF I!Wraps, StreamSizes
  <2>3. n % Range_signed = n
    BY <2>2
  <2>4. head \in Seq(Nat)
    BY <2>1, <2>2, CountTells
  <2>5. I!Entire(item) = head \o value /\ I!Bytes(item) = head \o I!Characters(value)
    BY <1>2, <2>1 DEF I!Entire, I!Bytes
  <2>6. CASE I!Negative(n)
    <3>1. I!Characters(value) = <<>>
      BY <2>1, <2>2, <2>6 DEF I!Characters
    <3>2. n # 0
      BY <2>2, <2>3, <2>6 DEF I!Negative
    <3>3. head \o <<>> = head
      BY <2>4
    <3>4. /\ Len(head) < Len(head \o value)
          /\ \A k \in 1 .. Len(head) : head[k] = (head \o value)[k]
      <4>1. \A x, y \in Seq(Nat) : /\ Len(x \o y) = Len(x) + Len(y)
                                  /\ Len(x) \in Nat /\ Len(y) \in Nat
                                  /\ \A k \in 1 .. Len(x) : x[k] = (x \o y)[k]
        OBVIOUS
      <4>2. n >= 1 /\ Len(value) = n
        BY <2>1, <2>2, <3>2
      <4> QED  BY <2>2, <2>4, <4>1, <4>2
    <3>5. I!Bytes(item) = head /\ I!Entire(item) = head \o value
      BY <2>5, <3>1, <3>3
    <3>6. Len(head) \in Nat /\ Len(head \o value) \in Nat
      BY <2>2, <2>4
    <3>7. item.of = "longString" /\ I!Negative(Len(item.value))
      BY <1>2, <2>1, <2>6
    <3> QED  BY <2>4, <3>4, <3>5, <3>6, <3>7
  <2>7. CASE ~I!Negative(n)
    <3>1. I!Characters(value) = value
      <4>1. I!Characters(value) = SubSeq(value, 1, n)
        BY <2>1, <2>3, <2>7 DEF I!Characters
      <4>2. SubSeq(value, 1, Len(value)) = value
        BY <2>2
      <4> QED  BY <2>1, <4>1, <4>2
    <3>2. I!Bytes(item) = I!Entire(item) /\ I!Entire(item) \in Seq(Nat)
      BY <2>5, <3>1, BytesOfKinds
    <3> QED  BY <2>1, <2>7, <3>2
  <2> QED  BY <2>6, <2>7
<1> QED  BY <1>1, <1>2

LEMMA WritableObject ==
    ASSUME StreamSizes, NEW item \in I!Items, I!Write(item), ~UNCHANGED <<stream, written, good>>
    PROVE  item \in Writable
<1>1. /\ ~(item.of = "string" /\ I!TooLong(item.value))
      /\ ~(item.of = "longString" /\ Len(item.value) >= I!Place[sizeof_CountType])
  BY DEF I!Write
<1>2. item.of \in {"string", "longString"} => item.value \in StringBytes
  BY DEF I!Items
<1>3. item.of \in {"string", "longString"} => Len(item.value) \in Nat
  <2>1. StringBytes \subseteq Seq(0 .. Range_uint8 - 1)
    BY DEF StreamSizes
  <2> QED  BY <1>2, <2>1
<1>4. item.of = "string" => Len(item.value) < Range_uint8
  BY <1>1, <1>3 DEF I!TooLong, StreamSizes
<1>5. item.of = "longString" => Len(item.value) < I!Place[sizeof_CountType]
  <2>1. I!Place[sizeof_CountType] \in Nat
    <3>1. sizeof_CountType \in 0 .. sizeof_CountType
      BY DEF StreamSizes
    <3> QED  BY <3>1, Places
  <2> QED  BY <1>1, <1>3, <2>1
<1> QED  BY <1>4, <1>5 DEF Writable

LEMMA ObjectWritten ==
    ASSUME StreamSizes, StreamOK, NEW item \in I!Items, I!Write(item), ~I!Wraps(item)
    PROVE  StreamOK'
<1>1. /\ streaming = "writing" /\ written \in Seq(Writable) /\ stream \in Seq(Nat)
      /\ position = 0 /\ good \in BOOLEAN /\ got = <<>>
      /\ Len(stream) <= Ends(written, Len(written))
      /\ good = TRUE => Len(stream) = Ends(written, Len(written))
      /\ \A i \in 1 .. Len(written) : StartsAt(I!Entire(written[i]), Ends(written, i - 1))
      /\ UNCHANGED <<streaming, position, got>>
  BY DEF StreamOK, I!Write
<1>2. CASE UNCHANGED <<stream, written, good>>
  BY <1>1, <1>2 DEF StreamOK, StartsAt, GotOK
<1>3. CASE ~UNCHANGED <<stream, written, good>>
  <2>1. PICK before, items, old, new, bytes, entire, fails :
            /\ before = written /\ items = Append(before, item)
            /\ old = stream /\ new = old \o bytes
            /\ bytes = IF good THEN I!Bytes(item) ELSE <<>>
            /\ entire = I!Entire(item)
            /\ fails = (item.of = "longString" /\ I!Negative(Len(item.value)))
    OBVIOUS
  <2>2. PICK N : N = Len(written) /\ N \in Nat
    BY <1>1
  <2>3. item \in Writable
    BY <1>3, WritableObject
  <2>4. /\ before \in Seq(Writable) /\ Len(before) = N
        /\ items \in Seq(Writable) /\ Len(items) = N + 1
        /\ items[N + 1] = item /\ \A i \in 1 .. N : items[i] = before[i]
    BY <1>1, <2>1, <2>2, <2>3
  <2>5. /\ bytes \in Seq(Nat) /\ Len(bytes) \in Nat /\ Len(entire) \in Nat
        /\ Len(bytes) <= Len(entire)
        /\ \A k \in 1 .. Len(bytes) : bytes[k] = entire[k]
        /\ good /\ ~fails => Len(bytes) = Len(entire)
        /\ ~(good /\ ~fails) => Len(bytes) < Len(entire)
    <3>1. entire \in Seq(Nat) /\ Len(entire) >= 1
      BY <2>1, <2>3, BytesOfKinds
    <3>2. /\ I!Bytes(item) \in Seq(Nat) /\ Len(I!Bytes(item)) <= Len(entire)
          /\ \A k \in 1 .. Len(I!Bytes(item)) : I!Bytes(item)[k] = entire[k]
          /\ ~fails => I!Bytes(item) = entire
          /\ fails => Len(I!Bytes(item)) < Len(entire)
      BY <2>1, <2>3, ObjectBytes
    <3>3. CASE good
      BY <2>1, <3>1, <3>2, <3>3
    <3>4. CASE ~good
      <4>1. bytes = <<>>
        BY <2>1, <3>4
      <4> QED  BY <3>1, <3>4, <4>1
    <3> QED  BY <3>3, <3>4
  <2>6. /\ old \in Seq(Nat) /\ new \in Seq(Nat)
        /\ Len(old) \in Nat /\ Len(new) = Len(old) + Len(bytes)
        /\ \A k \in 1 .. Len(old) : new[k] = old[k]
        /\ \A k \in 1 .. Len(bytes) : new[Len(old) + k] = bytes[k]
    BY <1>1, <2>1, <2>5
  <2>7. \A i \in 0 .. N : Ends(items, i) = Ends(before, i) /\ Ends(before, i) \in Nat
    BY <2>2, <2>4, SameEnds, EndsAdd
  <2>8. PICK end : end = Ends(before, N) /\ end \in Nat
    BY <2>2, <2>7
  <2>9. Ends(items, N + 1) = end + Len(entire)
    <3>1. N + 1 \in 1 .. Len(items) /\ (N + 1) - 1 = N /\ N \in 0 .. N
      BY <2>2, <2>4
    <3>2. Ends(items, N + 1) = Ends(items, N) + Len(I!Entire(item))
      BY <2>4, <3>1, EndsAdd
    <3> QED  BY <2>1, <2>7, <2>8, <3>1, <3>2
  <2>10. /\ Len(old) <= end /\ (good => Len(old) = end)
         /\ (~good => Len(bytes) = 0)
    <3>1. ~good => bytes = <<>>
      BY <2>1
    <3> QED  BY <1>1, <2>1, <2>2, <2>8, <3>1
  <2>11. ASSUME NEW i \in 1 .. N + 1, NEW k \in 1 .. Len(I!Entire(items[i])),
                Ends(items, i - 1) + k <= Len(new)
         PROVE  new[Ends(items, i - 1) + k] = I!Entire(items[i])[k]
    <3>1. CASE i = N + 1
      <4>1. Ends(items, i - 1) = end /\ I!Entire(items[i]) = entire
        <5>1. i - 1 = N /\ N \in 0 .. N
          BY <2>2, <3>1
        <5> QED  BY <2>1, <2>4, <2>7, <2>8, <3>1, <5>1
      <4>2. k \in 1 .. Len(entire) /\ end + k <= Len(old) + Len(bytes)
        BY <2>6, <2>11, <4>1
      <4>3. good /\ Len(old) = end /\ k \in 1 .. Len(bytes)
        BY <2>5, <2>6, <2>8, <2>10, <4>2
      <4> QED  BY <2>5, <2>6, <4>1, <4>3
    <3>2. CASE i # N + 1
      <4>1. i \in 1 .. N /\ i - 1 \in 0 .. N /\ i \in 0 .. N /\ N \in i .. N
        BY <2>2, <3>2
      <4>2. items[i] = before[i] /\ Ends(items, i - 1) = Ends(before, i - 1)
        BY <2>4, <2>7, <4>1
      <4>3. StartsAt(I!Entire(before[i]), Ends(before, i - 1))
        BY <1>1, <2>1, <2>2, <4>1
      <4>4. Ends(before, i) = Ends(before, i - 1) + Len(I!Entire(before[i]))
            /\ Ends(before, i - 1) \in Nat
        BY <2>2, <2>4, <4>1, EndsAdd
      <4>5. Ends(before, i) <= Ends(before, N)
        BY <2>2, <2>4, <4>1, EndsGrow
      <4>6. I!Entire(before[i]) \in Seq(Nat)
        <5>1. before[i] \in Writable
          BY <2>2, <2>4, <4>1
        <5> QED  BY <5>1, BytesOfKinds
      <4>7. k \in 1 .. Len(I!Entire(before[i])) /\ Len(I!Entire(before[i])) \in Nat
        BY <2>11, <4>2, <4>6
      <4>8. Ends(before, i - 1) + k \in 1 .. Len(old)
        <5>1. PICK a, b, c : /\ a = Ends(before, i - 1) /\ b = Len(I!Entire(before[i]))
                             /\ c = Len(old)
          OBVIOUS
        <5>2. /\ a \in Nat /\ b \in Nat /\ c \in Nat /\ k \in 1 .. b
              /\ Ends(before, i) = a + b /\ Ends(before, i) <= end
          BY <2>6, <2>8, <4>4, <4>5, <4>7, <5>1
        <5>3. CASE good
          BY <2>8, <2>10, <5>1, <5>2, <5>3
        <5>4. CASE ~good
          <6>1. a + k <= c
            BY <2>6, <2>10, <2>11, <4>2, <5>1, <5>2, <5>4
          <6> QED  BY <5>1, <5>2, <6>1
        <5> QED  BY <5>3, <5>4
      <4>9. old[Ends(before, i - 1) + k] = I!Entire(before[i])[k]
        <5>1. Ends(before, i - 1) + k <= Len(stream)
          BY <2>1, <2>6, <4>8
        <5> QED  BY <2>1, <4>3, <4>7, <5>1 DEF StartsAt
      <4> QED  BY <2>6, <4>2, <4>8, <4>9
    <3> QED  BY <3>1, <3>2
  <2>12. stream' = new /\ written' = items /\ good' = (good /\ ~fails)
    BY <1>3, <2>1 DEF I!Write
  <2>13. \A i \in 1 .. Len(written') : StartsAt(I!Entire(written[i]), Ends(written, i - 1))'
    BY <2>4, <2>11, <2>12 DEF StartsAt
  <2>14. /\ Len(stream') <= Ends(written', Len(written'))
         /\ good' = TRUE => Len(stream') = Ends(written', Len(written'))
    <3>1. Len(stream') = Len(old) + Len(bytes) /\ Ends(written', Len(written')) = end + Len(entire)
      BY <2>4, <2>6, <2>9, <2>12
    <3>2. good' = TRUE => Len(old) = end /\ Len(bytes) = Len(entire)
      BY <2>5, <2>10, <2>12
    <3>3. Len(old) + Len(bytes) <= end + Len(entire)
      BY <2>5, <2>6, <2>8, <2>10
    <3> QED  BY <3>1, <3>2, <3>3
  <2>15. Ends(items, 0) = 0
    BY <2>4, EndsAdd
  <2>16. Len(got) = 0 /\ got \in Seq(Nat)
    BY <1>1
  <2>17. \A i : ~(i \in 1 .. Len(got'))
    BY <1>1, <2>16
  <2>18. Len(got') <= Len(written') /\ got' \in Seq(Nat) /\ Ends(written', Len(got')) = 0
    BY <1>1, <2>2, <2>4, <2>12, <2>15, <2>16
  <2>19. written' \in Seq(Writable) /\ stream' \in Seq(Nat)
    BY <2>4, <2>6, <2>12
  <2>20. /\ streaming' = "writing" /\ position' = 0 /\ got' = <<>>
         /\ good' \in BOOLEAN
    BY <1>1, <2>12
  <2> QED  BY <2>13, <2>14, <2>17, <2>18, <2>19, <2>20 DEF StreamOK
<1> QED  BY <1>2, <1>3

LEMMA WritingEnds == ASSUME StreamSizes, StreamOK, I!EndWriting PROVE StreamOK'
<1>1. PICK n \in 0 .. Len(stream) : stream' = SubSeq(stream, 1, n)
  BY DEF I!EndWriting
<1>2. /\ streaming = "writing" /\ written \in Seq(Writable) /\ stream \in Seq(Nat)
      /\ position = 0 /\ good' = TRUE /\ got = <<>>
      /\ Len(stream) <= Ends(written, Len(written))
      /\ \A i \in 1 .. Len(written) : StartsAt(I!Entire(written[i]), Ends(written, i - 1))
      /\ streaming' \in {"istream", "function"}
      /\ UNCHANGED <<written, position, got>>
  BY DEF StreamOK, I!EndWriting
<1>3. PICK old, new, L : old = stream /\ new = stream' /\ L = Len(stream) /\ L \in Nat
  BY <1>2
<1>4. n \in Nat /\ n <= L
  BY <1>1, <1>3
<1>5. new \in Seq(Nat) /\ Len(new) = n /\ \A k \in 1 .. n : new[k] = old[k]
  <2>1. \A k \in 1 .. n : old[k] \in Nat
    BY <1>2, <1>3, <1>4
  <2>2. /\ new \in Seq(Nat) /\ Len(new) = IF 1 <= n THEN n - 1 + 1 ELSE 0
        /\ \A k \in 1 .. n - 1 + 1 : new[k] = old[1 + k - 1]
    <3>1. new = SubSeq(old, 1, n) /\ 1 \in Int /\ n \in Int
      BY <1>1, <1>3, <1>4
    <3> QED  BY <2>1, <3>1, SubSeqProperties
  <2>3. n - 1 + 1 = n /\ (~(1 <= n) => n = 0) /\ \A k \in 1 .. n : 1 + k - 1 = k
    BY <1>4
  <2> QED  BY <2>2, <2>3
<1>6. ASSUME NEW i \in 1 .. Len(written), NEW k \in 1 .. Len(I!Entire(written[i])),
             Ends(written, i - 1) + k <= n
      PROVE  new[Ends(written, i - 1) + k] = I!Entire(written[i])[k]
  <2>1. Ends(written, i - 1) \in Nat
    <3>1. i - 1 \in 0 .. Len(written)
      BY <1>2
    <3> QED  BY <1>2, <3>1, EndsAdd
  <2>2. I!Entire(written[i]) \in Seq(Nat)
    <3>1. written[i] \in Writable
      BY <1>2
    <3> QED  BY <3>1, BytesOfKinds
  <2>3. k \in Nat /\ k >= 1
    BY <2>2
  <2>4. Ends(written, i - 1) + k \in 1 .. n /\ Ends(written, i - 1) + k <= Len(stream)
    BY <1>3, <1>4, <1>6, <2>1, <2>3
  <2>5. StartsAt(I!Entire(written[i]), Ends(written, i - 1))
    BY <1>2
  <2> QED  BY <1>3, <1>5, <2>4, <2>5 DEF StartsAt
<1>7. \A i \in 1 .. Len(written') : StartsAt(I!Entire(written[i]), Ends(written, i - 1))'
  BY <1>2, <1>3, <1>5, <1>6 DEF StartsAt
<1>8. Len(got') = 0 /\ got' \in Seq(Nat) /\ (\A i : ~(i \in 1 .. Len(got'))) /\ Len(written) \in Nat
  BY <1>2
<1>9. Ends(written', Len(got')) = 0
  BY <1>2, <1>8, EndsAdd
<1>10. /\ written' \in Seq(Writable) /\ stream' \in Seq(Nat) /\ Len(got') <= Len(written')
       /\ Len(stream') <= Ends(written', Len(written'))
  <2>1. Ends(written, Len(written)) \in Nat
    BY <1>2, <1>8, EndsAdd
  <2> QED  BY <1>2, <1>3, <1>4, <1>5, <1>8, <2>1
<1>11. position' = 0 /\ good' = TRUE
  BY <1>2
<1> QED  BY <1>2, <1>7, <1>8, <1>9, <1>10, <1>11 DEF StreamOK

\* Where the next object is, and what is there.
LEMMA NextObject ==
    ASSUME StreamSizes, StreamOK, Len(got) < Len(written)
    PROVE  LET i    == Len(got) + 1
               size == Len(I!Entire(written[i]))
           IN  /\ i \in 1 .. Len(written) /\ i - 1 = Len(got)
               /\ written[i] \in Writable
               /\ size \in Nat /\ size >= 1
               /\ Ends(written, i - 1) \in Nat
               /\ Ends(written, i) = Ends(written, i - 1) + size
               /\ StartsAt(I!Entire(written[i]), Ends(written, i - 1))
<1>1. PICK i, N : i = Len(got) + 1 /\ N = Len(written)
  OBVIOUS
<1>2. written \in Seq(Writable) /\ (\E S : got \in Seq(S)) /\ stream \in Seq(Nat)
  BY DEF StreamOK
<1>3. i \in 1 .. N /\ i - 1 = Len(got) /\ i - 1 \in 0 .. N
  BY <1>1, <1>2
<1>4. written[i] \in Writable
  BY <1>1, <1>2, <1>3
<1>5. I!Entire(written[i]) \in Seq(Nat) /\ Len(I!Entire(written[i])) >= 1
  BY <1>4, BytesOfKinds
<1>6. Len(I!Entire(written[i])) \in Nat
  BY <1>5
<1>7. /\ Ends(written, i - 1) \in Nat
      /\ Ends(written, i) = Ends(written, i - 1) + Len(I!Entire(written[i]))
  BY <1>1, <1>2, <1>3, EndsAdd
<1>8. StartsAt(I!Entire(written[i]), Ends(written, i - 1))
  BY <1>1, <1>3 DEF StreamOK
<1> QED  BY <1>1, <1>3, <1>4, <1>5, <1>6, <1>7, <1>8

\* What a reader does that gets one more object, and what it is told.
OneMore(read) ==
    /\ UNCHANGED <<streaming, stream, written>>
    /\ got' = Append(got, read)
    /\ good' \in BOOLEAN /\ (good = FALSE => good' = FALSE)

LEMMA OneMoreGot ==
    ASSUME StreamOK, Len(got) < Len(written), NEW read, OneMore(read),
           NEW i, i = Len(got) + 1,
           good' = TRUE => position' = Ends(written, i),
           good' = FALSE => Ends(written, i) > Len(stream),
           IF Ends(written, i) <= Len(stream)
           THEN \/ read.told = "skipped"
                \/ read.told = "value" /\ read.value = written[i].value
           ELSE read.told \in {"threw", "skipped"} \/ (streaming = "istream" /\ good' = FALSE)
    PROVE  streaming # "writing" => StreamOK'
<1>1. PICK S : got \in Seq(S)
  BY DEF StreamOK
<1>2. PICK old, new, n : old = got /\ new = Append(old, read) /\ n = Len(old)
  OBVIOUS
<1>3. /\ n \in Nat /\ new \in Seq(S \cup {read}) /\ Len(new) = n + 1 /\ i = n + 1
      /\ new[n + 1] = read /\ \A k \in 1 .. n : new[k] = old[k]
  <2>1. \A x \in Seq(S) : x \in Seq(S \cup {read}) /\ Len(x) \in Nat
    OBVIOUS
  <2>2. old \in Seq(S \cup {read}) /\ n \in Nat /\ read \in S \cup {read} /\ n = Len(old)
    BY <1>1, <1>2, <2>1
  <2> HIDE <1>2
  <2>3. /\ Append(old, read) \in Seq(S \cup {read})
        /\ Len(Append(old, read)) = n + 1
        /\ Append(old, read)[n + 1] = read
        /\ \A k \in 1 .. n : Append(old, read)[k] = old[k]
    BY <2>2
  <2> QED  BY <1>2, <2>2, <2>3
<1>4. got' = new
  BY <1>2 DEF OneMore
<1>5. ASSUME NEW k \in 1 .. n PROVE GotOK(k)'
  <2>1. GotOK(k)
    BY <1>2 DEF StreamOK
  <2>2. got'[k] = got[k]
    BY <1>2, <1>3, <1>4
  <2>3. UNCHANGED <<written, stream, streaming>> /\ (good = FALSE => good' = FALSE)
    BY DEF OneMore
  <2> QED  BY <2>1, <2>2, <2>3 DEF GotOK
<1>6. GotOK(i)'
  <2>1. got'[i] = read
    BY <1>3, <1>4
  <2> QED  BY <2>1 DEF GotOK, OneMore
<1>7. \A k \in 1 .. Len(got') : GotOK(k)'
  <2>1. \A k \in 1 .. n + 1 : k \in 1 .. n \/ k = n + 1
    BY <1>3
  <2> QED  BY <1>3, <1>4, <1>5, <1>6, <2>1
<1>8. written \in Seq(Writable) /\ Len(written) \in Nat
  BY DEF StreamOK
<1>9. Len(got') <= Len(written') /\ Len(got') = i
  BY <1>2, <1>3, <1>4, <1>8 DEF OneMore
<1>10. \E R : got' \in Seq(R)
  BY <1>3, <1>4
<1>11. /\ UNCHANGED <<streaming, stream, written>> /\ good' \in BOOLEAN
  BY DEF OneMore
<1>12. /\ good' = TRUE => position' = Ends(written', Len(got'))
       /\ good' = FALSE => Ends(written', Len(got')) > Len(stream')
  BY <1>9, <1>11
<1>13. \A k \in 1 .. Len(written') :
            StartsAt(I!Entire(written[k]), Ends(written, k - 1))'
  BY <1>11 DEF StreamOK, StartsAt
<1>14. /\ streaming' \in {"writing", "istream", "function"} /\ written' \in Seq(Writable)
       /\ stream' \in Seq(Nat) /\ Len(stream') <= Ends(written', Len(written'))
  BY <1>11 DEF StreamOK
<1> QED  BY <1>7, <1>9, <1>10, <1>11, <1>12, <1>13, <1>14 DEF StreamOK

LEMMA ObjectRead == ASSUME StreamSizes, StreamOK, I!Read PROVE StreamOK'
<1>1. Len(got) < Len(written) /\ streaming # "writing"
  BY DEF I!Read, I!Expects
<1>2. PICK i, item, end, size :
            /\ i = Len(got) + 1 /\ item = written[i]
            /\ end = Ends(written, i - 1) /\ size = Len(I!Entire(item))
  OBVIOUS
<1>3. /\ i \in 1 .. Len(written) /\ i - 1 = Len(got) /\ item \in Writable
      /\ size \in Nat /\ size >= 1 /\ end \in Nat /\ Ends(written, i) = end + size
      /\ StartsAt(I!Entire(item), end)
  BY <1>1, <1>2, NextObject
<1>4. PICK at, read : /\ at = IF good THEN position ELSE Len(stream)
                      /\ read = I!ReadItem(item.of, at)
  OBVIOUS
<1>5. /\ UNCHANGED <<streaming, stream, written>>
      /\ got' = Append(got, read) /\ position' = read.at
      /\ good' = (good /\ read.told = "value" /\ read.at <= Len(stream))
  BY <1>2, <1>4 DEF I!Read
<1>6. /\ good \in BOOLEAN /\ stream \in Seq(Nat) /\ streaming \in {"istream", "function"}
      /\ good = TRUE => position = end
      /\ good = FALSE => end > Len(stream)
  BY <1>1, <1>2, <1>3 DEF StreamOK
<1>7. Len(stream) \in Nat
  BY <1>6
<1>8. OneMore(read)
  BY <1>5, <1>6 DEF OneMore
<1>9. CASE good = TRUE /\ end + size <= Len(stream)
  <2>1. at = end
    BY <1>4, <1>6, <1>9
  <2>2. read.told = "value" /\ read.value = item.value /\ read.at = end + size
    <3>1. at \in Nat /\ at + Len(I!Entire(item)) <= Len(stream) /\ StartsAt(I!Entire(item), at)
      BY <1>2, <1>3, <1>9, <2>1
    <3>2. /\ I!ReadItem(item.of, at).told = "value"
          /\ I!ReadItem(item.of, at).value = item.value
          /\ I!ReadItem(item.of, at).at = at + Len(I!Entire(item))
      BY <1>3, <1>6, <3>1, ReadsWhole
    <3> QED  BY <1>2, <1>4, <2>1, <3>2
  <2>3. good' = TRUE /\ position' = Ends(written, i)
    BY <1>3, <1>5, <1>9, <2>2
  <2> QED  BY <1>1, <1>2, <1>3, <1>8, <1>9, <2>2, <2>3, OneMoreGot
<1>10. CASE ~(good = TRUE /\ end + size <= Len(stream))
  <2>1. at \in Nat /\ at + size > Len(stream) /\ StartsAt(I!Entire(item), at)
        /\ end + size > Len(stream)
    <3>1. CASE good = TRUE
      <4>1. end + size > Len(stream)
        BY <1>3, <1>7, <1>10, <3>1
      <4> QED  BY <1>3, <1>4, <1>6, <3>1, <4>1
    <3>2. CASE good = FALSE
      <4>1. at = Len(stream) /\ end > Len(stream)
        BY <1>4, <1>6, <3>2
      <4>2. at \in Nat /\ at + size > Len(stream) /\ end + size > Len(stream)
        BY <1>3, <1>7, <4>1
      <4>3. \A k \in 1 .. size : ~(at + k <= Len(stream))
        BY <1>3, <1>7, <4>1
      <4> QED  BY <1>2, <4>2, <4>3 DEF StartsAt
    <3> QED  BY <1>6, <3>1, <3>2
  <2>2. /\ streaming = "function" => read.told = "threw"
        /\ read.told = "value" => read.at \in Nat /\ read.at > Len(stream)
        /\ read.told \in {"value", "threw", "junk"}
    BY <1>2, <1>3, <1>4, <1>6, <2>1, ReadsPart
  <2>3. good' = FALSE
    <3>1. read.told = "value" => ~(read.at <= Len(stream))
      BY <1>7, <2>2
    <3> QED  BY <1>5, <3>1
  <2>4. ~(Ends(written, i) <= Len(stream)) /\ Ends(written, i) > Len(stream)
    BY <1>3, <1>7, <2>1
  <2> QED  BY <1>1, <1>2, <1>6, <1>8, <2>2, <2>3, <2>4, OneMoreGot
<1> QED  BY <1>9, <1>10

LEMMA NumberSkipped == ASSUME StreamSizes, StreamOK, I!Skip PROVE StreamOK'
<1>1. Len(got) < Len(written) /\ streaming # "writing"
      /\ written[Len(got) + 1].of = "number"
  BY DEF I!Skip, I!Expects
<1>2. PICK i, item, end : /\ i = Len(got) + 1 /\ item = written[i]
                          /\ end = Ends(written, i - 1)
  OBVIOUS
<1>3. /\ i \in 1 .. Len(written) /\ i - 1 = Len(got) /\ item \in Writable
      /\ end \in Nat /\ Ends(written, i) = end + Len(I!Entire(item))
  BY <1>1, <1>2, NextObject
<1>4. Len(I!Entire(item)) = sizeof_Number /\ sizeof_Number \in Nat /\ sizeof_Number >= 1
  <2>1. item.of = "number"
    BY <1>1, <1>2
  <2>2. I!Entire(item) = item.value /\ item.value \in NumberBytes
    BY <1>3, <2>1, BytesOfKinds, Kinds
  <2> QED  BY <2>2, NumberIsBytes DEF StreamSizes
<1>5. /\ good \in BOOLEAN /\ stream \in Seq(Nat) /\ streaming \in {"istream", "function"}
      /\ good = TRUE => position = end
      /\ good = FALSE => end > Len(stream)
  BY <1>1, <1>2, <1>3 DEF StreamOK
<1>6. Len(stream) \in Nat
  BY <1>5
<1>7. Ends(written, i) = end + sizeof_Number
  BY <1>3, <1>4
<1>8. ASSUME good, position' = position + sizeof_Number, UNCHANGED good,
             got' = Append(got, [told |-> "skipped", at |-> position']),
             UNCHANGED <<streaming, stream, written>>
      PROVE  StreamOK'
  <2>1. PICK read : read = [told |-> "skipped", at |-> position']
    OBVIOUS
  <2>2. OneMore(read) /\ good' = TRUE /\ position' = Ends(written, i)
    BY <1>5, <1>7, <1>8, <2>1 DEF OneMore
  <2>3. read.told = "skipped"
    BY <2>1
  <2> QED  BY <1>1, <1>2, <2>2, <2>3, OneMoreGot
<1>9. ASSUME ~(good /\ I!Whole(position, sizeof_Number)), good' = FALSE,
             got' = Append(got, IF streaming = "function" THEN I!Throws(position)
                                ELSE [told |-> "skipped", at |-> position]),
             UNCHANGED <<streaming, stream, written>>
      PROVE  StreamOK'
  <2>1. PICK read : read = IF streaming = "function" THEN I!Throws(position)
                           ELSE [told |-> "skipped", at |-> position]
    OBVIOUS
  <2>2. OneMore(read)
    BY <1>9, <2>1 DEF OneMore
  <2>3. read.told \in {"threw", "skipped"}
    BY <2>1 DEF I!Throws
  <2>4. ~(end + sizeof_Number <= Len(stream))
    <3>1. CASE good = TRUE
      BY <1>3, <1>4, <1>5, <1>9, <3>1, TakesWhole
    <3>2. CASE good = FALSE
      BY <1>3, <1>4, <1>5, <1>6, <3>2
    <3> QED  BY <1>5, <3>1, <3>2
  <2>5. Ends(written, i) > Len(stream) /\ ~(Ends(written, i) <= Len(stream))
    BY <1>3, <1>4, <1>6, <1>7, <2>4
  <2> QED  BY <1>1, <1>2, <1>9, <2>2, <2>3, <2>5, OneMoreGot
<1> QED  BY <1>8, <1>9 DEF I!Skip

LEMMA StreamSteps == StreamSizes /\ StreamOK /\ [I!Next]_(I!vars) => StreamOK' \/ SomeWraps'
<1> SUFFICES ASSUME StreamSizes, StreamOK, [I!Next]_(I!vars), ~SomeWraps' PROVE StreamOK'
  OBVIOUS
<1>1. CASE UNCHANGED I!vars
  BY <1>1 DEF StreamOK, StartsAt, GotOK, I!vars
<1>2. ASSUME NEW item \in I!Items, I!Write(item) PROVE StreamOK'
  <2>1. CASE ~I!Wraps(item)
    BY <1>2, <2>1, ObjectWritten
  <2>2. CASE written' = Append(written, item) /\ I!Wraps(item)
    <3>1. PICK items, n : items = written' /\ n = Len(written)
      OBVIOUS
    <3>2. written \in Seq(Writable)
      BY DEF StreamOK
    <3>3. n \in Nat /\ Len(items) = n + 1 /\ items[n + 1] = item
      BY <2>2, <3>1, <3>2
    <3>4. n + 1 \in 1 .. Len(items)
      BY <3>3
    <3> QED  BY <2>2, <3>1, <3>3, <3>4 DEF SomeWraps
  <2>3. CASE UNCHANGED <<stream, written, good>>
    BY <1>2, <2>3 DEF StreamOK, StartsAt, GotOK, I!Write
  <2> QED  BY <1>2, <2>1, <2>2, <2>3 DEF I!Write
<1>3. CASE I!EndWriting
  BY <1>3, WritingEnds
<1>4. CASE I!Read
  BY <1>4, ObjectRead
<1>5. CASE I!Skip
  BY <1>5, NumberSkipped
<1> QED  BY <1>1, <1>2, <1>3, <1>4, <1>5 DEF I!Next

\* What was written stays, and nothing is written that is too long for its count.
LEMMA StreamWraps ==
    ASSUME StreamSizes, SomeWraps, written \in Seq(Writable), [I!Next]_(I!vars)
    PROVE  SomeWraps' /\ written' \in Seq(Writable)
<1>1. CASE UNCHANGED written
  BY <1>1 DEF SomeWraps
<1>2. ASSUME NEW item \in Writable, written' = Append(written, item)
      PROVE  SomeWraps' /\ written' \in Seq(Writable)
  <2>1. PICK items, n : items = written' /\ n = Len(written)
    OBVIOUS
  <2>2. n \in Nat /\ Len(items) = n + 1 /\ (\A i \in 1 .. n : items[i] = written[i])
        /\ items \in Seq(Writable)
    BY <1>2, <2>1
  <2>3. PICK i \in 1 .. n : I!Wraps(written[i])
    BY <2>1 DEF SomeWraps
  <2>4. i \in 1 .. Len(items) /\ I!Wraps(items[i])
    BY <2>2, <2>3
  <2> QED  BY <2>1, <2>2, <2>4 DEF SomeWraps
<1>3. ASSUME NEW item \in I!Items, I!Write(item)
      PROVE  \/ UNCHANGED written
             \/ item \in Writable /\ written' = Append(written, item)
  <2>1. CASE UNCHANGED <<stream, written, good>>
    BY <2>1
  <2>2. CASE ~UNCHANGED <<stream, written, good>>
    BY <1>3, <2>2, WritableObject DEF I!Write
  <2> QED  BY <2>1, <2>2
<1>4. CASE I!EndWriting \/ I!Read \/ I!Skip \/ UNCHANGED I!vars
  BY <1>1, <1>4 DEF I!EndWriting, I!Read, I!Skip, I!vars
<1> QED  BY <1>1, <1>2, <1>3, <1>4 DEF I!Next

LEMMA StreamBegins == StreamSizes /\ I!Init => StreamInv
BY StreamStarts DEF StreamInv

LEMMA StreamGoesOn == StreamSizes /\ StreamInv /\ [I!Next]_(I!vars) => StreamInv'
<1> SUFFICES ASSUME StreamSizes, StreamInv, [I!Next]_(I!vars) PROVE StreamInv'
  OBVIOUS
<1>1. CASE SomeWraps /\ written \in Seq(Writable)
  BY <1>1, StreamWraps DEF StreamInv
<1>2. CASE StreamOK
  <2>1. StreamOK' \/ SomeWraps'
    BY <1>2, StreamSteps
  <2>2. written' \in Seq(Writable)
    <3>1. written \in Seq(Writable)
      BY <1>2 DEF StreamOK
    <3>2. ASSUME NEW item \in I!Items, I!Write(item) PROVE written' \in Seq(Writable)
      <4>1. CASE UNCHANGED <<stream, written, good>>
        BY <3>1, <4>1
      <4>2. CASE ~UNCHANGED <<stream, written, good>>
        <5>1. item \in Writable /\ written' = Append(written, item)
          BY <3>2, <4>2, WritableObject DEF I!Write
        <5> QED  BY <3>1, <5>1
      <4> QED  BY <4>1, <4>2
    <3>3. CASE I!EndWriting \/ I!Read \/ I!Skip \/ UNCHANGED I!vars
      BY <3>1, <3>3 DEF I!EndWriting, I!Read, I!Skip, I!vars
    <3> QED  BY <3>2, <3>3 DEF I!Next
  <2> QED  BY <2>1, <2>2 DEF StreamInv
<1> QED  BY <1>1, <1>2 DEF StreamInv

\* binary_io.h, Read, ReadString, ReadOptional, Skip, behind Write and
\* WriteString: for all numbers and texts, sizes of types and of CountType, and
\* wherever the stream was cut off or lost the characters of a string that is
\* longer than an int tells, what is whole in the stream is read as it was
\* written, and what is not never passes for an object.
THEOREM StreamReadsBack == ASSUME StreamSizes PROVE I!Spec => []ReadsWhatWasWritten
<1>1. I!Init => StreamInv
  BY StreamBegins
<1>2. StreamInv /\ [I!Next]_(I!vars) => StreamInv'
  BY StreamGoesOn
<1> QED  BY <1>1, <1>2, StreamTells, PTL DEF I!Spec

-----------------------------------------------------------------------------
(* Conversions: powers *)

\* The function f has the powers of b up to N.
PowersOf(b, N, f) == f[0] = 1 /\ \A i \in 1 .. N : f[i] = b * f[i - 1]

LEMMA PowersAgree ==
    ASSUME NEW b, NEW N \in Nat, NEW f, NEW g, PowersOf(b, N, f), PowersOf(b, N, g)
    PROVE  \A i \in 0 .. N : f[i] = g[i]
<1> DEFINE Bad == {i \in 0 .. N : f[i] # g[i]}
<1>1. ASSUME Bad # {} PROVE FALSE
  <2>1. Bad \in SUBSET Nat
    OBVIOUS
  <2>2. PICK n \in Bad : \A m \in Bad : n <= m
    <3> HIDE DEF Bad
    <3> QED  BY <1>1, <2>1, LeastElement
  <2>3. n # 0
    BY <2>2 DEF PowersOf
  <2>4. n \in 1 .. N /\ n - 1 \in 0 .. N /\ ~(n <= n - 1)
    BY <2>2, <2>3
  <2>5. f[n - 1] = g[n - 1]
    BY <2>2, <2>4
  <2> QED  BY <2>2, <2>4, <2>5 DEF PowersOf
<1> QED  BY <1>1

LEMMA PowersExist ==
    ASSUME NEW b \in Nat \ {0}, NEW N \in Nat
    PROVE  \E f : f \in [0 .. N -> Nat \ {0}] /\ PowersOf(b, N, f)
<1>1. PICK numbers, first : numbers = Nat \ {0} /\ first = 1
  OBVIOUS
<1> DEFINE step == [p \in (1 .. N) \X numbers |-> b * p[2]]
<1>2. \A x \in numbers : b * x \in numbers
  <2>1. \A x, y \in Nat : x > 0 /\ y > 0 => x * y \in Nat /\ x * y > 0
    OBVIOUS
  <2>2. \A x \in numbers : x \in Nat /\ x > 0
    BY <1>1
  <2>3. \A x \in Nat : x > 0 => x \in numbers
    BY <1>1
  <2>4. b \in Nat /\ b > 0
    OBVIOUS
  <2> QED  BY <2>1, <2>2, <2>3, <2>4
<1>3. step \in [(1 .. N) \X numbers -> numbers] /\ first \in numbers
  BY <1>1, <1>2
<1>4. \A n \in 1 .. N, x \in numbers : step[<<n, x>>] = b * x
  OBVIOUS
<1> HIDE DEF step
<1>5. PICK f : Recurs(f, N, numbers, first, step)
  BY <1>3, Recursion
<1>6. \A i \in 1 .. N : i - 1 \in 0 .. N
  OBVIOUS
<1>7. f \in [0 .. N -> numbers] /\ f[0] = 1 /\ \A i \in 1 .. N : f[i] = b * f[i - 1]
  BY <1>1, <1>4, <1>5, <1>6 DEF Recurs
<1> QED  BY <1>1, <1>7 DEF PowersOf

LEMMA PowerIs ==
    ASSUME NEW b \in Nat \ {0}, NEW N \in Nat, NEW f, PowersOf(b, N, f)
    PROVE  V!Power(b, N) = f[N]
<1> DEFINE Step(g) == [i \in 0 .. N |-> IF i = 0 THEN 1 ELSE b * g[i - 1]]
           power == CHOOSE g : g = Step(g)
<1>1. V!Power(b, N) = power[N]
  BY DEF V!Power
<1>2. PICK h : h \in [0 .. N -> Nat \ {0}] /\ PowersOf(b, N, h)
  BY PowersExist
<1>3. h = Step(h)
  <2>1. h = [i \in 0 .. N |-> h[i]]
    BY <1>2
  <2>2. \A i \in 0 .. N : i # 0 => i \in 1 .. N
    OBVIOUS
  <2> QED  BY <1>2, <2>1, <2>2 DEF PowersOf
<1>4. power = Step(power)
  BY <1>3
<1> HIDE DEF power
<1>5. PowersOf(b, N, power)
  <2>1. \A i \in 1 .. N : i \in 0 .. N /\ i # 0
    OBVIOUS
  <2>2. 0 \in 0 .. N
    OBVIOUS
  <2> QED  BY <1>4, <2>1, <2>2 DEF PowersOf
<1>6. N \in 0 .. N
  OBVIOUS
<1> QED  BY <1>1, <1>5, <1>6, PowersAgree

LEMMA PowerSteps ==
    ASSUME NEW b \in Nat \ {0}
    PROVE  /\ V!Power(b, 0) = 1
           /\ \A n \in Nat : V!Power(b, n) \in Nat \ {0}
           /\ \A n \in Nat : V!Power(b, n + 1) = b * V!Power(b, n)
<1>1. V!Power(b, 0) = 1
  <2>1. PICK f : PowersOf(b, 0, f)
    BY PowersExist
  <2>2. V!Power(b, 0) = f[0]
    BY <2>1, PowerIs
  <2> QED  BY <2>1, <2>2 DEF PowersOf
<1>2. ASSUME NEW n \in Nat
      PROVE  V!Power(b, n) \in Nat \ {0} /\ V!Power(b, n + 1) = b * V!Power(b, n)
  <2>1. PICK N : N = n + 1 /\ N \in Nat
    OBVIOUS
  <2>2. PICK f : f \in [0 .. N -> Nat \ {0}] /\ PowersOf(b, N, f)
    BY <2>1, PowersExist
  <2>3. \A i \in 1 .. n : i \in 1 .. N
    BY <2>1
  <2>4. PowersOf(b, n, f)
    BY <2>2, <2>3 DEF PowersOf
  <2>5. V!Power(b, n) = f[n] /\ V!Power(b, N) = f[N]
    BY <2>1, <2>2, <2>4, PowerIs
  <2>6. N \in 1 .. N /\ N - 1 = n /\ n \in 0 .. N
    BY <2>1
  <2> QED  BY <2>1, <2>2, <2>5, <2>6 DEF PowersOf
<1> QED  BY <1>1, <1>2

\* A larger exponent, a larger power of two.
LEMMA TwoGrows ==
    ASSUME NEW m \in Nat, NEW n \in Nat, m <= n
    PROVE  V!TwoTo(m) <= V!TwoTo(n)
<1>1. \A k \in Nat : V!TwoTo(k) \in Nat \ {0} /\ V!TwoTo(k + 1) = 2 * V!TwoTo(k)
  BY PowerSteps DEF V!TwoTo
<1> DEFINE Bad == {k \in Nat : m <= k /\ ~(V!TwoTo(m) <= V!TwoTo(k))}
<1>2. ASSUME Bad # {} PROVE FALSE
  <2>1. Bad \in SUBSET Nat
    OBVIOUS
  <2>2. PICK k \in Bad : \A j \in Bad : k <= j
    <3> HIDE DEF Bad
    <3> QED  BY <1>2, <2>1, LeastElement
  <2>3. k # m
    BY <1>1, <2>2
  <2>4. k - 1 \in Nat /\ m <= k - 1 /\ ~(k <= k - 1) /\ (k - 1) + 1 = k
    BY <2>2, <2>3
  <2>5. V!TwoTo(m) <= V!TwoTo(k - 1)
    BY <2>2, <2>4
  <2>6. V!TwoTo(k) = 2 * V!TwoTo(k - 1)
    BY <1>1, <2>4
  <2>7. V!TwoTo(m) \in Nat /\ V!TwoTo(k - 1) \in Nat
    BY <1>1, <2>4
  <2>8. V!TwoTo(m) <= V!TwoTo(k)
    BY <2>5, <2>6, <2>7
  <2> QED  BY <2>2, <2>8
<1> QED  BY <1>2

-----------------------------------------------------------------------------
(* Conversions: integral types *)

\* A type of n bits has two halves.
LEMMA TypeHalves ==
    ASSUME NEW type \in IntegralTypes
    PROVE  /\ V!TwoTo(type.bits) \in Nat \ {0} /\ V!TwoTo(type.bits - 1) \in Nat \ {0}
           /\ V!TwoTo(type.bits) = 2 * V!TwoTo(type.bits - 1)
           /\ type.signed \in BOOLEAN /\ type.bits \in Nat \ {0}
<1>1. type.bits - 1 \in Nat /\ (type.bits - 1) + 1 = type.bits /\ type.bits \in Nat
      /\ type.signed \in BOOLEAN /\ type.bits \in Nat \ {0}
  BY DEF IntegralTypes
<1>2. \A k \in Nat : V!TwoTo(k) \in Nat \ {0} /\ V!TwoTo(k + 1) = 2 * V!TwoTo(k)
  BY PowerSteps DEF V!TwoTo
<1> QED  BY <1>1, <1>2

\* A wider type has at least as many values on each side.
LEMMA WiderHalves ==
    ASSUME NEW type \in IntegralTypes, NEW other \in IntegralTypes
    PROVE  \/ type.bits = other.bits
           \/ V!TwoTo(type.bits) <= V!TwoTo(other.bits - 1)
           \/ V!TwoTo(other.bits) <= V!TwoTo(type.bits - 1)
<1>1. type.bits \in Nat \ {0} /\ other.bits \in Nat \ {0}
  BY TypeHalves
<1>2. CASE type.bits < other.bits
  <2>1. type.bits \in Nat /\ other.bits - 1 \in Nat /\ type.bits <= other.bits - 1
    BY <1>1, <1>2
  <2> QED  BY <2>1, TwoGrows
<1>3. CASE other.bits < type.bits
  <2>1. other.bits \in Nat /\ type.bits - 1 \in Nat /\ other.bits <= type.bits - 1
    BY <1>1, <1>3
  <2> QED  BY <2>1, TwoGrows
<1> QED  BY <1>1, <1>2, <1>3

\* Whole multiples of a number are at least that apart.
LEMMA FarApart ==
    ASSUME NEW x \in Int, NEW y \in Int, NEW m \in Nat \ {0}, NEW k \in Int,
           x = y + m * k, x - y < m, y - x < m
    PROVE  x = y
<1>1. CASE k = 0
  BY <1>1
<1>2. CASE k >= 1
  <2>1. \A a, b \in Nat : b >= 1 => a * b >= a
    OBVIOUS
  <2>2. m * k >= m /\ m * k \in Int
    BY <1>2, <2>1
  <2> QED  BY <2>2
<1>3. CASE k <= -1
  <2>1. \A a, b \in Nat : b >= 1 => a * b >= a /\ a * b \in Int
    OBVIOUS
  <2>2. PICK j : j = -k
    OBVIOUS
  <2>3. j \in Nat /\ j >= 1 /\ m * j >= m /\ m * j \in Int
    BY <1>3, <2>1, <2>2
  <2>4. m * k = -(m * j)
    BY <2>2
  <2> QED  BY <2>3, <2>4
<1> QED  BY <1>1, <1>2, <1>3

\* A cast yields a value of the type, which differs by whole multiples of the
\* number of its values.
LEMMA CastWraps ==
    ASSUME NEW type \in IntegralTypes, NEW n \in Int
    PROVE  /\ V!Cast(n, type) \in V!Values(type)
           /\ \E k \in Int : V!Cast(n, type) = n + V!TwoTo(type.bits) * k
<1>1. PICK all, half, low, quotient :
            /\ all = V!TwoTo(type.bits) /\ half = V!TwoTo(type.bits - 1)
            /\ low = n % all /\ quotient = n \div all
  OBVIOUS
<1>2. all \in Nat \ {0} /\ half \in Nat \ {0} /\ all = 2 * half
  BY <1>1, TypeHalves
<1>3. low \in 0 .. all - 1 /\ quotient \in Int /\ n = all * quotient + low
  <2>1. \A x \in Int, m \in Nat \ {0} :
            x % m \in 0 .. m - 1 /\ x \div m \in Int /\ x = m * (x \div m) + (x % m)
    OBVIOUS
  <2> QED  BY <1>1, <1>2, <2>1
<1>4. V!Highest(type) = (IF type.signed THEN half - 1 ELSE all - 1)
      /\ V!Lowest(type) = (IF type.signed THEN -half ELSE 0)
      /\ V!Values(type) = V!Lowest(type) .. V!Highest(type)
  BY <1>1 DEF V!Highest, V!Lowest, V!Values
<1>5. V!Cast(n, type) = IF low > V!Highest(type) THEN low - all ELSE low
  BY <1>1 DEF V!Cast
<1>6. low = n + all * (-quotient) /\ low - all = n + all * (-quotient - 1)
  <2>1. all * (-quotient) = -(all * quotient) /\ all * quotient \in Int
        /\ all * (-quotient - 1) = -(all * quotient) - all
    BY <1>2, <1>3
  <2> QED  BY <1>2, <1>3, <2>1
<1>7. -quotient \in Int /\ -quotient - 1 \in Int
  BY <1>3
<1>8. V!Cast(n, type) \in V!Values(type)
  BY <1>2, <1>3, <1>4, <1>5
<1>9. V!Cast(n, type) \in {low, low - all}
  BY <1>5
<1> QED  BY <1>1, <1>6, <1>7, <1>8, <1>9

\* A value of the type stays what it is.
LEMMA CastKeeps ==
    ASSUME NEW type \in IntegralTypes, NEW n \in V!Values(type)
    PROVE  V!Cast(n, type) = n /\ n \in Int
<1>1. PICK all, half, c : all = V!TwoTo(type.bits) /\ half = V!TwoTo(type.bits - 1)
                          /\ c = V!Cast(n, type)
  OBVIOUS
<1>2. all \in Nat \ {0} /\ half \in Nat \ {0} /\ all = 2 * half
  BY <1>1, TypeHalves
<1>3. \A v \in V!Values(type) :
            v \in Int /\ IF type.signed THEN -half <= v /\ v <= half - 1
                         ELSE 0 <= v /\ v <= all - 1
  BY <1>1, <1>2 DEF V!Values, V!Lowest, V!Highest
<1>4. n \in Int
  BY <1>3
<1>5. c \in V!Values(type) /\ \E k \in Int : c = n + all * k
  BY <1>1, <1>4, CastWraps
<1>6. PICK k \in Int : c = n + all * k
  BY <1>5
<1>7. c \in Int /\ c - n < all /\ n - c < all
  BY <1>2, <1>3, <1>5
<1> QED  BY <1>1, <1>2, <1>4, <1>6, <1>7, FarApart

\* overflow.h: CheckConvertible tells of each value of an integral type whether
\* the target has it, for types of any widths and signs.
THEOREM ConvertibleIsRight ==
    \A source, target \in IntegralTypes : \A value \in V!Values(source) :
        V!FindsOverflow(value, source, target)
<1> TAKE source, target \in IntegralTypes
<1> TAKE value \in V!Values(source)
<1>1. PICK a, b, h, g :
            /\ a = V!TwoTo(source.bits) /\ h = V!TwoTo(source.bits - 1)
            /\ b = V!TwoTo(target.bits) /\ g = V!TwoTo(target.bits - 1)
  OBVIOUS
<1>2. /\ a \in Nat \ {0} /\ h \in Nat \ {0} /\ a = 2 * h
      /\ b \in Nat \ {0} /\ g \in Nat \ {0} /\ b = 2 * g
      /\ source.signed \in BOOLEAN /\ target.signed \in BOOLEAN
  BY <1>1, TypeHalves
<1>3. (a = b /\ h = g) \/ a <= g \/ b <= h
  BY <1>1, WiderHalves
<1>4. /\ \A v : v \in V!Values(source) <=>
            v \in Int /\ IF source.signed THEN -h <= v /\ v <= h - 1
                         ELSE 0 <= v /\ v <= a - 1
      /\ \A v : v \in V!Values(target) <=>
            v \in Int /\ IF target.signed THEN -g <= v /\ v <= g - 1
                         ELSE 0 <= v /\ v <= b - 1
  BY <1>1, <1>2 DEF V!Values, V!Lowest, V!Highest
<1>5. value \in Int
  BY <1>4
<1>6. PICK c : c = V!Cast(value, target)
  OBVIOUS
<1>7. c \in V!Values(target) /\ \E k \in Int : c = value + b * k
  BY <1>1, <1>5, <1>6, CastWraps
<1>8. c \in Int
  BY <1>4, <1>7
<1>9. ASSUME value \in V!Values(target) PROVE V!CheckConvertible(value, source, target)
  <2>1. c = value
    BY <1>6, <1>9, CastKeeps
  <2>2. V!Cast(c, source) = value
    BY <2>1, CastKeeps
  <2>3. source.signed /\ ~target.signed => value >= 0
    BY <1>4, <1>9
  <2>4. target.signed /\ ~source.signed => c >= 0
    BY <1>4, <2>1
  <2> QED  BY <1>6, <2>2, <2>3, <2>4 DEF V!CheckConvertible, V!RoundTrips
<1>10. ASSUME V!CheckConvertible(value, source, target) PROVE value \in V!Values(target)
  <2>1. /\ source.signed /\ ~target.signed => value >= 0
        /\ target.signed /\ ~source.signed => c >= 0
        /\ V!Cast(c, source) = value
    BY <1>6, <1>10 DEF V!CheckConvertible, V!RoundTrips
  <2>2. PICK k \in Int : c = value + b * k
    BY <1>7
  <2>3. PICK j \in Int : value = c + a * j
    BY <1>1, <1>8, <2>1, CastWraps
  <2>4. CASE c - value < b /\ value - c < b
    <3>1. c = value
      BY <1>2, <1>5, <1>8, <2>2, <2>4, FarApart
    <3> QED  BY <1>7, <3>1
  <2>5. CASE c - value < a /\ value - c < a
    <3>1. c = value
      BY <1>2, <1>5, <1>8, <2>3, <2>5, FarApart
    <3> QED  BY <1>7, <3>1
  <2>6. \/ value \in V!Values(target)
        \/ c - value < b /\ value - c < b
        \/ c - value < a /\ value - c < a
    <3>1. /\ IF source.signed THEN -h <= value /\ value <= h - 1
             ELSE 0 <= value /\ value <= a - 1
          /\ IF target.signed THEN -g <= c /\ c <= g - 1 ELSE 0 <= c /\ c <= b - 1
      BY <1>4, <1>7
    <3>2. CASE a = b /\ h = g
      BY <1>2, <1>4, <1>5, <1>8, <2>1, <3>1, <3>2
    <3>3. CASE a <= g
      BY <1>2, <1>4, <1>5, <1>8, <2>1, <3>1, <3>3
    <3>4. CASE b <= h
      BY <1>2, <1>4, <1>5, <1>8, <2>1, <3>1, <3>4
    <3> QED  BY <1>3, <3>2, <3>3, <3>4
  <2> QED  BY <2>4, <2>5, <2>6
<1> QED  BY <1>9, <1>10 DEF V!FindsOverflow

-----------------------------------------------------------------------------
(* TimeValue: the conversions *)

LEMMA Divided ==
    \A n \in Nat, m \in Nat \ {0} :
        /\ n \div m \in Nat /\ n % m \in 0 .. m - 1
        /\ n = m * (n \div m) + (n % m)
OBVIOUS

\* How many times m, rounded, a number that is not negative is.
Nearest(n, m) == (2 * n + m) \div (2 * m)

LEMMA RoundsBoth ==
    ASSUME NEW n \in Nat, NEW m \in Nat \ {0}
    PROVE  /\ C!Rounded(n, m) = Nearest(n, m)
           /\ C!Rounded(-n, m) = -Nearest(n, m)
<1>1. C!Abs(-n) = n
  BY DEF C!Abs
<1>2. CASE n <= 0
  <2>1. PICK x, y, z : x = 2 * n + m /\ y = 2 * m /\ z = x \div y /\ z = Nearest(n, m)
    BY DEF Nearest
  <2>2. x \in Nat /\ y \in Nat \ {0} /\ x < y
    BY <1>2, <2>1
  <2>3. z \in Nat /\ z <= 0
    BY <2>1, <2>2
  <2>4. n = -n /\ ~(n < 0) /\ z = -z
    BY <1>2, <2>3
  <2>5. C!Rounded(n, m) = Nearest(n, m)
    BY <2>4 DEF C!Rounded, Nearest
  <2> QED  BY <2>1, <2>4, <2>5
<1>3. CASE n > 0
  <2>1. -n < 0 /\ ~(n < 0)
    BY <1>3
  <2> QED  BY <1>1, <2>1 DEF C!Rounded, Nearest
<1> QED  BY <1>2, <1>3

\* It is the nearest, and whole multiples of m add what they are.
LEMMA NearestIs ==
    ASSUME NEW n \in Nat, NEW m \in Nat \ {0}
    PROVE  /\ Nearest(n, m) \in Nat
           /\ 2 * (m * Nearest(n, m)) <= 2 * n + m
           /\ 2 * n - 2 * (m * Nearest(n, m)) <= m
           /\ \A j \in Nat : Nearest(m * j + n, m) = j + Nearest(n, m)
<1>1. PICK x, y, q, r : /\ x = 2 * n + m /\ y = 2 * m /\ q = x \div y /\ r = x % y
                        /\ q = Nearest(n, m)
  BY DEF Nearest
<1>2. x \in Nat /\ y \in Nat \ {0}
  BY <1>1
<1>3. q \in Nat /\ r \in 0 .. y - 1 /\ x = y * q + r
  BY <1>1, <1>2, Divided
<1>4. m * q \in Nat
  <2>1. \A a, b \in Nat : a * b \in Nat
    OBVIOUS
  <2> QED  BY <1>3, <2>1
<1>5. y * q = 2 * (m * q)
  <2>1. (2 * m) * q = 2 * (m * q)
    BY <1>3
  <2> QED  BY <1>1, <2>1
<1>6. 2 * (m * q) <= 2 * n + m /\ 2 * n - 2 * (m * q) <= m
  BY <1>1, <1>2, <1>3, <1>4, <1>5
<1>7. ASSUME NEW j \in Nat PROVE Nearest(m * j + n, m) = j + q
  <2>1. PICK z, p, s : /\ z = 2 * (m * j + n) + m /\ p = z \div y /\ s = z % y
                       /\ p = Nearest(m * j + n, m)
    BY <1>1 DEF Nearest
  <2>2. m * j \in Nat
    <3>1. \A a, b \in Nat : a * b \in Nat
      OBVIOUS
    <3> QED  BY <3>1
  <2>3. z \in Nat
    BY <2>1, <2>2
  <2>4. p \in Nat /\ s \in 0 .. y - 1 /\ z = y * p + s
    <3>1. z \div y \in Nat /\ z % y \in 0 .. y - 1 /\ z = y * (z \div y) + (z % y)
      BY <1>2, <2>3, Divided
    <3> QED  BY <2>1, <3>1
  <2>5. z = 2 * (m * j) + x
    BY <1>1, <2>1, <2>2
  <2>6. y * j = 2 * (m * j) /\ y * j \in Nat /\ y * q \in Nat
    BY <1>1, <1>4, <1>5, <2>2
  <2>7. z = y * (j + q) + r
    <3>1. y * (j + q) = (y * j) + (y * q)
      BY <1>2, <1>3
    <3> QED  BY <1>3, <2>5, <2>6, <3>1
  <2>8. z \div y = j + q
    <3>1. \A a, c \in Int, b \in Nat \ {0} : \A d \in 0 .. b - 1 :
                a = b * c + d => a \div b = c
      OBVIOUS
    <3>2. z \in Int /\ j + q \in Int
      BY <1>3, <2>3
    <3> QED  BY <1>2, <1>3, <2>7, <3>1, <3>2
  <2> QED  BY <2>1, <2>8
<1> QED  BY <1>1, <1>3, <1>6, <1>7

\* C++'s quotient and remainder of a time, which is not negative or is.
LEMMA TimeDivided ==
    ASSUME TimeUnits, NEW n \in Nat
    PROVE  /\ n \div Second \in Nat /\ n % Second \in 0 .. Second - 1
           /\ n = Second * (n \div Second) + (n % Second)
           /\ C!Quotient(n, Second) = n \div Second
           /\ C!Remainder(n, Second) = n % Second
           /\ C!Quotient(-n, Second) = -(n \div Second)
           /\ C!Remainder(-n, Second) = -(n % Second)
<1>1. Second \in Nat \ {0}
  <2>1. \A a, b \in Nat : a > 0 /\ b > 0 => a * b \in Nat /\ a * b > 0
    OBVIOUS
  <2> QED  BY <2>1 DEF TimeUnits
<1>2. PICK q, r : q = n \div Second /\ r = n % Second
  OBVIOUS
<1>3. q \in Nat /\ r \in 0 .. Second - 1 /\ n = Second * q + r
  BY <1>1, <1>2, Divided
<1>4. Second * q \in Nat
  <2>1. \A a, b \in Nat : a * b \in Nat
    OBVIOUS
  <2> QED  BY <1>1, <1>3, <2>1
<1>5. C!Quotient(n, Second) = q /\ C!Remainder(n, Second) = r
  <2>1. ~(n < 0)
    OBVIOUS
  <2>2. C!Quotient(n, Second) = q
    BY <1>2, <2>1 DEF C!Quotient
  <2> QED  BY <1>1, <1>3, <1>4, <2>2 DEF C!Remainder
<1>6. C!Quotient(-n, Second) = -q
  <2>1. CASE n <= 0
    <3>1. q <= 0
      <4>1. Second * q <= 0
        BY <1>3, <1>4, <2>1
      <4>2. \A a, b \in Nat : a > 0 /\ b > 0 => a * b > 0
        OBVIOUS
      <4> QED  BY <1>1, <1>3, <1>4, <4>1, <4>2
    <3>2. n = -n /\ q = -q
      BY <1>3, <2>1, <3>1
    <3> QED  BY <1>5, <3>2
  <2>2. CASE n > 0
    <3>1. -n < 0 /\ C!Abs(-n) = n
      BY <2>2 DEF C!Abs
    <3> QED  BY <1>2, <3>1 DEF C!Quotient
  <2> QED  BY <2>1, <2>2
<1>7. C!Remainder(-n, Second) = -r
  <2>1. Second * (-q) = -(Second * q)
    BY <1>1, <1>3
  <2> QED  BY <1>1, <1>3, <1>4, <1>6, <2>1 DEF C!Remainder
<1> QED  BY <1>2, <1>3, <1>5, <1>6, <1>7

\* What KeepsTime says of one time.
Converted(t) ==
    LET tv == C!GetAsTimeval(t)
        ts == C!GetAsTimespec(t)
    IN  /\ ts.tv_sec * Second + ts.tv_nsec = t
        /\ 2 * C!Abs(tv.tv_sec * Second + tv.tv_usec * Microsecond - t) <= Microsecond
        /\ \/ C!Abs(tv.tv_usec) < Second \div Microsecond
           \/ 2 * (Second - C!Abs(C!Remainder(t, Second))) <= Microsecond

LEMMA TimeConverted ==
    ASSUME TimeUnits, NEW n \in Nat
    PROVE  Converted(n) /\ Converted(-n)
<1>1. PICK k \in Nat \ {0} : Second = Microsecond * k
  BY DEF TimeUnits
<1>2. PICK s, m, q, r, u :
            /\ s = Second /\ m = Microsecond /\ q = n \div s /\ r = n % s
            /\ u = Nearest(r, m)
  OBVIOUS
<1>3. m \in Nat \ {0} /\ s = m * k
  BY <1>1, <1>2 DEF TimeUnits
<1>4. s \in Nat \ {0}
  <2>1. \A a, b \in Nat : a > 0 /\ b > 0 => a * b \in Nat /\ a * b > 0
    OBVIOUS
  <2> QED  BY <1>3, <2>1
<1>5. /\ q \in Nat /\ r \in 0 .. s - 1 /\ n = s * q + r
      /\ C!Quotient(n, s) = q /\ C!Remainder(n, s) = r
      /\ C!Quotient(-n, s) = -q /\ C!Remainder(-n, s) = -r
  BY <1>2, TimeDivided
<1>6. r \in Nat /\ s * q \in Nat /\ q * k \in Nat /\ q * s = s * q
  <2>1. \A a, b \in Nat : a * b \in Nat /\ a * b = b * a
    OBVIOUS
  <2> QED  BY <1>4, <1>5, <2>1
<1>7. /\ u \in Nat /\ m * u \in Nat /\ 2 * (m * u) <= 2 * r + m /\ 2 * r - 2 * (m * u) <= m
      /\ C!Rounded(r, m) = u /\ C!Rounded(-r, m) = -u
  <2>1. \A a, b \in Nat : a * b \in Nat
    OBVIOUS
  <2> QED  BY <1>2, <1>3, <1>6, <2>1, NearestIs, RoundsBoth
<1>8. s \div m = k
  <2>1. \A a, c \in Int, b \in Nat \ {0} : \A d \in 0 .. b - 1 :
                a = b * c + d => a \div b = c
    OBVIOUS
  <2>2. s = m * k + 0 /\ 0 \in 0 .. m - 1 /\ s \in Int /\ k \in Int
    BY <1>3, <1>4
  <2> QED  BY <1>3, <2>1, <2>2
<1>10. u < k \/ 2 * (s - r) <= m
  <2> SUFFICES ASSUME ~(u < k) PROVE 2 * (s - r) <= m
    OBVIOUS
  <2>1. m * k <= m * u
    <3>1. \A a, b, c \in Nat : a <= b => c * a <= c * b
      OBVIOUS
    <3>2. k <= u
      BY <1>7
    <3> QED  BY <1>3, <1>7, <3>1, <3>2
  <2>2. s <= m * u
    BY <1>3, <2>1
  <2> QED  BY <1>3, <1>4, <1>6, <1>7, <2>2
<1>11. u * m = m * u
  BY <1>3, <1>7
<1>12. Converted(n)
  <2>1. C!GetAsTimeval(n) = [tv_sec |-> q, tv_usec |-> u]
        /\ C!GetAsTimespec(n) = [tv_sec |-> q, tv_nsec |-> r]
    BY <1>2, <1>5, <1>7 DEF C!GetAsTimeval, C!GetAsTimespec, C!Microseconds
  <2>3. 2 * C!Abs(q * s + u * m - n) <= m
    <3>1. q * s + u * m - n = m * u - r
      BY <1>5, <1>6, <1>7, <1>11
    <3> QED  BY <1>3, <1>6, <1>7, <3>1 DEF C!Abs
  <2>4. C!Abs(u) = u /\ C!Abs(r) = r
    BY <1>6, <1>7 DEF C!Abs
  <2>5. q * s + r = n
    BY <1>5, <1>6
  <2> QED  BY <1>2, <1>5, <1>8, <1>10, <2>1, <2>3, <2>4, <2>5 DEF Converted
<1>13. Converted(-n)
  <2>1. C!GetAsTimeval(-n) = [tv_sec |-> -q, tv_usec |-> -u]
        /\ C!GetAsTimespec(-n) = [tv_sec |-> -q, tv_nsec |-> -r]
    BY <1>2, <1>5, <1>7 DEF C!GetAsTimeval, C!GetAsTimespec, C!Microseconds
  <2>2. (-q) * s = -(s * q) /\ (-u) * m = -(m * u) /\ (-q) * k = -(q * k)
    BY <1>3, <1>4, <1>5, <1>7
  <2>4. 2 * C!Abs((-q) * s + (-u) * m - (-n)) <= m
    <3>1. (-q) * s + (-u) * m - (-n) = r - m * u
      BY <1>5, <1>6, <1>7, <2>2
    <3> QED  BY <1>3, <1>6, <1>7, <3>1 DEF C!Abs
  <2>5. C!Abs(-u) = u /\ C!Abs(-r) = r
    BY <1>6, <1>7 DEF C!Abs
  <2>6. (-q) * s + (-r) = -n
    BY <1>5, <1>6, <2>2
  <2> QED  BY <1>2, <1>5, <1>8, <1>10, <2>1, <2>4, <2>5, <2>6 DEF Converted
<1> QED  BY <1>12, <1>13

LEMMA TimesOrdered ==
    ASSUME TimeUnits, NEW t \in Nat, NEW other \in Nat
    PROVE  LET text(time, all) == C!GetAsIso8601Precise(time, all)
               earlier(a, b) == a[1] < b[1] \/ (a[1] = b[1] /\ a[2] < b[2])
           IN  /\ C!Less(t, other) <=> earlier(text(t, TRUE), text(other, TRUE))
               /\ C!Less(t, other) => ~earlier(text(other, FALSE), text(t, FALSE))
<1>1. PICK s, m, q, r, p, o :
            /\ s = Second /\ m = Microsecond /\ q = t \div s /\ r = t % s
            /\ p = other \div s /\ o = other % s
  OBVIOUS
<1>2. m \in Nat \ {0} /\ s \in Nat \ {0}
  <2>1. \A a, b \in Nat : a > 0 /\ b > 0 => a * b \in Nat /\ a * b > 0
    OBVIOUS
  <2> QED  BY <1>1, <2>1 DEF TimeUnits
<1>3. /\ q \in Nat /\ r \in 0 .. s - 1 /\ t = s * q + r
      /\ C!Quotient(t, s) = q /\ C!Remainder(t, s) = r
      /\ p \in Nat /\ o \in 0 .. s - 1 /\ other = s * p + o
      /\ C!Quotient(other, s) = p /\ C!Remainder(other, s) = o
  BY <1>1, TimeDivided
<1>4. /\ C!GetAsIso8601Precise(t, TRUE) = <<q, r>>
      /\ C!GetAsIso8601Precise(other, TRUE) = <<p, o>>
      /\ C!GetAsIso8601Precise(t, FALSE) = <<q, m * (r \div m)>>
      /\ C!GetAsIso8601Precise(other, FALSE) = <<p, m * (o \div m)>>
  BY <1>1, <1>3 DEF C!GetAsIso8601Precise, C!GetAsTimespec
<1>5. \A a, b \in Nat : a < b => s * a + s <= s * b /\ s * a \in Nat /\ s * b \in Nat
  <2>1. \A a, b, c \in Nat : a + 1 <= b => c * a + c <= c * b /\ c * a \in Nat /\ c * b \in Nat
    <3>1. \A a, b, c \in Nat : a <= b => c * a <= c * b /\ c * a \in Nat /\ c * b \in Nat
      OBVIOUS
    <3>2. \A a, c \in Nat : c * (a + 1) = c * a + c /\ a + 1 \in Nat
      OBVIOUS
    <3> QED  BY <3>1, <3>2
  <2> QED  BY <1>2, <2>1
<1>6. t < other <=> q < p \/ (q = p /\ r < o)
  <2>1. CASE q < p
    <3>1. s * q + s <= s * p /\ s * q \in Nat /\ s * p \in Nat
      BY <1>3, <1>5, <2>1
    <3> QED  BY <1>2, <1>3, <2>1, <3>1
  <2>2. CASE p < q
    <3>1. s * p + s <= s * q /\ s * q \in Nat /\ s * p \in Nat
      BY <1>3, <1>5, <2>2
    <3> QED  BY <1>2, <1>3, <2>2, <3>1
  <2>3. CASE p = q
    <3>1. s * p \in Nat /\ s * q = s * p
      <4>1. \A a, b \in Nat : a * b \in Nat
        OBVIOUS
      <4> QED  BY <1>2, <1>3, <2>3, <4>1
    <3> QED  BY <1>2, <1>3, <2>3, <3>1
  <2> QED  BY <1>3, <2>1, <2>2, <2>3
<1>7. r < o => ~(m * (o \div m) < m * (r \div m))
  <2> SUFFICES ASSUME r < o PROVE ~(m * (o \div m) < m * (r \div m))
    OBVIOUS
  <2>1. PICK x, y, a, b : x = r \div m /\ y = o \div m /\ a = r % m /\ b = o % m
    OBVIOUS
  <2>2. /\ r \in Nat /\ o \in Nat /\ x \in Nat /\ y \in Nat
        /\ a \in 0 .. m - 1 /\ b \in 0 .. m - 1
        /\ r = m * x + a /\ o = m * y + b
    <3>1. r \in Nat /\ o \in Nat
      BY <1>2, <1>3
    <3>2. r \div m \in Nat /\ r % m \in 0 .. m - 1 /\ r = m * (r \div m) + (r % m)
      BY <1>2, <3>1, Divided
    <3>3. o \div m \in Nat /\ o % m \in 0 .. m - 1 /\ o = m * (o \div m) + (o % m)
      BY <1>2, <3>1, Divided
    <3> QED  BY <2>1, <3>1, <3>2, <3>3
  <2>3. \A c, d \in Nat : c < d => m * c + m <= m * d /\ m * c \in Nat /\ m * d \in Nat
    <3>1. \A c, d, e \in Nat : c <= d => e * c <= e * d /\ e * c \in Nat /\ e * d \in Nat
      OBVIOUS
    <3>2. \A c, e \in Nat : e * (c + 1) = e * c + e /\ c + 1 \in Nat
      OBVIOUS
    <3>3. \A c, d \in Nat : c < d => c + 1 <= d
      OBVIOUS
    <3>4. m \in Nat
      BY <1>2
    <3> QED  BY <3>1, <3>2, <3>3, <3>4
  <2>4. CASE y < x
    <3>1. m * y + m <= m * x /\ m * y \in Nat /\ m * x \in Nat
      BY <2>2, <2>3, <2>4
    <3>2. FALSE
      BY <1>2, <2>2, <3>1
    <3> QED  BY <3>2
  <2>5. CASE x <= y
    <3>1. \A c, d, e \in Nat : c <= d => e * c <= e * d /\ e * c \in Nat /\ e * d \in Nat
      OBVIOUS
    <3>2. m * x <= m * y /\ m * x \in Nat /\ m * y \in Nat
      BY <1>2, <2>2, <2>5, <3>1
    <3>3. ~(m * y < m * x)
      BY <3>2
    <3> QED  BY <2>1, <3>3
  <2> QED  BY <2>2, <2>4, <2>5
<1>8. PICK d, e : d = m * (r \div m) /\ e = m * (o \div m)
  OBVIOUS
<1>9. t < other => ~(p < q \/ (p = q /\ e < d))
  BY <1>3, <1>6, <1>7, <1>8
<1>10. PICK full, all, short, cut :
            /\ full = C!GetAsIso8601Precise(t, TRUE)
            /\ all = C!GetAsIso8601Precise(other, TRUE)
            /\ short = C!GetAsIso8601Precise(t, FALSE)
            /\ cut = C!GetAsIso8601Precise(other, FALSE)
  OBVIOUS
<1>11. /\ full[1] = q /\ full[2] = r /\ all[1] = p /\ all[2] = o
       /\ short[1] = q /\ short[2] = d /\ cut[1] = p /\ cut[2] = e
  <2>1. full = <<q, r>> /\ all = <<p, o>> /\ short = <<q, d>> /\ cut = <<p, e>>
    BY <1>4, <1>8, <1>10
  <2>2. \A a, b : <<a, b>>[1] = a /\ <<a, b>>[2] = b
    OBVIOUS
  <2> QED  BY <2>1, <2>2
<1> QED  BY <1>6, <1>9, <1>10, <1>11 DEF C!Less

\* time_value.cpp: for seconds and microseconds of any length, timespec and
\* timeval stand for the time and the nearest microsecond, before 1970 too, and
\* the precise texts of two times since then order them.
THEOREM TimesAreKept ==
    ASSUME TimeUnits
    PROVE  \A t, other \in Int : C!KeepsTime(t, other)
<1> TAKE t, other \in Int
<1>1. Converted(t)
  <2>1. CASE t >= 0
    <3>1. t \in Nat
      BY <2>1
    <3> QED  BY <3>1, TimeConverted
  <2>2. CASE t < 0
    <3>1. PICK n : n = -t
      OBVIOUS
    <3>2. n \in Nat /\ t = -n
      BY <2>2, <3>1
    <3> QED  BY <3>2, TimeConverted
  <2> QED  BY <2>1, <2>2
<1>2. CASE t >= 0 /\ other >= 0
  <2>1. t \in Nat /\ other \in Nat
    BY <1>2
  <2> QED  BY <1>1, <2>1, TimesOrdered DEF C!KeepsTime, Converted
<1>3. CASE ~(t >= 0 /\ other >= 0)
  BY <1>1, <1>3 DEF C!KeepsTime, Converted
<1> QED  BY <1>2, <1>3

-----------------------------------------------------------------------------
(* Conversions: floating-point types *)

LEMMA RoundedIs ==
    ASSUME NEW n \in Int, NEW unit \in Nat \ {0}
    PROVE  /\ V!Rounded(n, unit) \in Int
           /\ 2 * (unit * V!Rounded(n, unit)) - 2 * n \in -unit .. unit
<1>1. PICK r : r = V!Rounded(n, unit)
  OBVIOUS
<1>2. \A x \in Int : V!Rounded(x, unit) = C!Rounded(x, unit)
  BY DEF V!Rounded, C!Rounded, V!Abs, C!Abs
<1>3. CASE n >= 0
  <2>1. n \in Nat
    BY <1>3
  <2>2. r = Nearest(n, unit)
    BY <1>1, <1>2, <2>1, RoundsBoth
  <2>3. r \in Nat /\ 2 * (unit * r) <= 2 * n + unit /\ 2 * n - 2 * (unit * r) <= unit
    BY <2>1, <2>2, NearestIs
  <2>4. unit * r \in Int
    BY <2>3
  <2> QED  BY <1>1, <2>1, <2>3, <2>4
<1>4. CASE n < 0
  <2>1. PICK m : m = -n
    OBVIOUS
  <2>2. m \in Nat /\ n = -m
    BY <1>4, <2>1
  <2>3. PICK q : q = Nearest(m, unit)
    OBVIOUS
  <2>4. r = -q
    BY <1>1, <1>2, <2>2, <2>3, RoundsBoth
  <2>5. q \in Nat /\ 2 * (unit * q) <= 2 * m + unit /\ 2 * m - 2 * (unit * q) <= unit
    BY <2>2, <2>3, NearestIs
  <2>6. unit * q \in Int /\ unit * r = -(unit * q)
    BY <2>4, <2>5
  <2> QED  BY <1>1, <2>2, <2>4, <2>5, <2>6
<1> QED  BY <1>3, <1>4

LEMMA HalfEvenIs ==
    ASSUME NEW n \in Int, NEW unit \in Nat \ {0}
    PROVE  /\ V!HalfEven(n, unit) \in Int
           /\ 2 * (unit * V!HalfEven(n, unit)) - 2 * n \in -unit .. unit
<1>1. PICK q, r, h : q = n \div unit /\ r = n % unit /\ h = V!HalfEven(n, unit)
  OBVIOUS
<1>2. q \in Int /\ r \in 0 .. unit - 1 /\ n = unit * q + r
  <2>1. \A x \in Int, m \in Nat \ {0} :
            x % m \in 0 .. m - 1 /\ x \div m \in Int /\ x = m * (x \div m) + (x % m)
    OBVIOUS
  <2> QED  BY <1>1, <2>1
<1>3. unit * q \in Int /\ unit * (q + 1) = unit * q + unit
  BY <1>2
<1>4. h = IF 2 * r > unit \/ (2 * r = unit /\ q % 2 = 1) THEN q + 1 ELSE q
  BY <1>1 DEF V!HalfEven
<1>5. CASE h = q /\ 2 * r <= unit
  BY <1>1, <1>2, <1>3, <1>5
<1>6. CASE h = q + 1 /\ 2 * r >= unit
  BY <1>1, <1>2, <1>3, <1>6
<1>7. (h = q /\ 2 * r <= unit) \/ (h = q + 1 /\ 2 * r >= unit)
  <2>1. 2 * r > unit \/ 2 * r = unit \/ 2 * r < unit
    BY <1>2
  <2> QED  BY <1>2, <1>4, <2>1
<1> QED  BY <1>5, <1>6, <1>7

\* A power of two is greater than its exponent.
LEMMA PowerIsGreater == \A n \in Nat : n < V!TwoTo(n)
<1>1. V!TwoTo(0) = 1 /\ \A k \in Nat : V!TwoTo(k) \in Nat \ {0} /\ V!TwoTo(k + 1) = 2 * V!TwoTo(k)
  BY PowerSteps DEF V!TwoTo
<1> DEFINE Bad == {k \in Nat : ~(k < V!TwoTo(k))}
<1>2. ASSUME Bad # {} PROVE FALSE
  <2>1. Bad \in SUBSET Nat
    OBVIOUS
  <2>2. PICK k \in Bad : \A j \in Bad : k <= j
    <3> HIDE DEF Bad
    <3> QED  BY <1>2, <2>1, LeastElement
  <2>3. k # 0
    BY <1>1, <2>2
  <2>4. k - 1 \in Nat /\ ~(k <= k - 1) /\ (k - 1) + 1 = k
    BY <2>2, <2>3
  <2>5. k - 1 < V!TwoTo(k - 1)
    BY <2>2, <2>4
  <2>6. V!TwoTo(k) = 2 * V!TwoTo(k - 1) /\ V!TwoTo(k - 1) \in Nat
    BY <1>1, <2>4
  <2>7. k < V!TwoTo(k)
    BY <2>4, <2>5, <2>6
  <2> QED  BY <2>2, <2>7
<1> QED  BY <1>2

\* There is a last digit, of which the mantissa needs all its digits to tell n,
\* but when that is a small integer.
LEMMA LastDigitIs ==
    ASSUME MantissaDigits \in Nat, NEW n \in Int
    PROVE  \E k \in Nat :
                /\ V!LastDigit(n) = V!TwoTo(k)
                /\ V!Abs(n) < V!TwoTo(MantissaDigits) => k = 0
                /\ k # 0 => V!TwoTo(MantissaDigits) * V!TwoTo(k - 1) <= V!Abs(n)
<1>1. PICK a, d : a = V!Abs(n) /\ d = V!TwoTo(MantissaDigits)
  OBVIOUS
<1>2. a \in Nat
  BY <1>1 DEF V!Abs
<1>3. V!TwoTo(0) = 1 /\ \A k \in Nat : V!TwoTo(k) \in Nat \ {0}
  BY PowerSteps DEF V!TwoTo
<1>4. d \in Nat \ {0}
  BY <1>1, <1>3
<1>5. \A k \in Nat : d * V!TwoTo(k) \in Nat
  <2>1. \A x, y \in Nat : x * y \in Nat
    OBVIOUS
  <2> QED  BY <1>3, <1>4, <2>1
<1> DEFINE Fits(k) == a < d * V!TwoTo(k)
           Fit == {k \in 0 .. a : Fits(k)}
<1>6. a \in Fit
  <2>1. a < V!TwoTo(a) /\ V!TwoTo(a) \in Nat
    BY <1>2, <1>3, PowerIsGreater
  <2>2. \A x, y \in Nat : x > 0 => y <= x * y
    OBVIOUS
  <2>3. V!TwoTo(a) <= d * V!TwoTo(a)
    BY <1>4, <2>1, <2>2
  <2>4. a < d * V!TwoTo(a)
    BY <1>2, <1>5, <2>1, <2>3
  <2> QED  BY <1>2, <2>4
<1>7. PICK least \in Fit : \A j \in Fit : least <= j
  <2>1. Fit \in SUBSET Nat
    BY <1>2
  <2> HIDE DEF Fit
  <2> QED  BY <1>6, <2>1, LeastElement
<1>8. least \in 0 .. a /\ Fits(least) /\ \A j \in 0 .. least - 1 : ~Fits(j)
  <2>1. ASSUME NEW j \in 0 .. least - 1 PROVE ~Fits(j)
    <3>1. j \in 0 .. a /\ ~(least <= j)
      BY <1>2, <1>7
    <3> QED  BY <1>7, <3>1
  <2> QED  BY <1>7, <2>1
<1>9. PICK k : k = CHOOSE i \in 0 .. a : Fits(i) /\ \A j \in 0 .. i - 1 : ~Fits(j)
  OBVIOUS
<1>10. k \in 0 .. a /\ Fits(k) /\ \A j \in 0 .. k - 1 : ~Fits(j)
  BY <1>8, <1>9
<1>11. V!LastDigit(n) = V!TwoTo(k)
  BY <1>1, <1>9 DEF V!LastDigit
<1>12. k \in Nat
  BY <1>2, <1>10
<1>13. a < d => k = 0
  <2> SUFFICES ASSUME a < d, k # 0 PROVE FALSE
    OBVIOUS
  <2>1. 0 \in 0 .. k - 1
    BY <1>12
  <2>2. ~(a < d * 1)
    BY <1>3, <1>10, <2>1
  <2> QED  BY <1>4, <2>2
<1>14. k # 0 => d * V!TwoTo(k - 1) <= a
  <2> SUFFICES ASSUME k # 0 PROVE d * V!TwoTo(k - 1) <= a
    OBVIOUS
  <2>1. k - 1 \in 0 .. k - 1 /\ k - 1 \in Nat
    BY <1>12
  <2>2. ~(a < d * V!TwoTo(k - 1)) /\ d * V!TwoTo(k - 1) \in Nat
    BY <1>5, <1>10, <2>1
  <2> QED  BY <1>2, <2>2
<1> QED  BY <1>1, <1>11, <1>12, <1>13, <1>14

\* The mantissa has every small integer, and of a larger one it loses at most
\* one part in TwoTo(MantissaDigits).
LEMMA MantissaHas ==
    ASSUME MantissaDigits \in Nat, NEW n \in Int
    PROVE  /\ V!Nearest(n) \in Int
           /\ V!Abs(n) < V!TwoTo(MantissaDigits) => V!Nearest(n) = n
           /\ V!TwoTo(MantissaDigits) * V!Abs(V!Nearest(n) - n) <= V!Abs(n)
<1>1. PICK k \in Nat :
            /\ V!LastDigit(n) = V!TwoTo(k)
            /\ V!Abs(n) < V!TwoTo(MantissaDigits) => k = 0
            /\ k # 0 => V!TwoTo(MantissaDigits) * V!TwoTo(k - 1) <= V!Abs(n)
  BY LastDigitIs
<1>2. PICK a, d, u, h, c, e :
            /\ a = V!Abs(n) /\ d = V!TwoTo(MantissaDigits) /\ u = V!TwoTo(k)
            /\ h = V!HalfEven(n, u) /\ c = V!Nearest(n) /\ e = V!Abs(c - n)
  OBVIOUS
<1>3. V!TwoTo(0) = 1 /\ \A i \in Nat : V!TwoTo(i) \in Nat \ {0} /\ V!TwoTo(i + 1) = 2 * V!TwoTo(i)
  BY PowerSteps DEF V!TwoTo
<1>4. u \in Nat \ {0} /\ d \in Nat \ {0} /\ a \in Nat
  BY <1>2, <1>3 DEF V!Abs
<1>5. h \in Int /\ 2 * (u * h) - 2 * n \in -u .. u
  BY <1>2, <1>4, HalfEvenIs
<1>6. c = u * h
  BY <1>1, <1>2 DEF V!Nearest
<1>7. c \in Int /\ 2 * c - 2 * n \in -u .. u
  BY <1>4, <1>5, <1>6
<1>8. e \in Nat /\ 2 * e <= u
  BY <1>2, <1>4, <1>7 DEF V!Abs
<1>9. k = 0 => c = n
  BY <1>2, <1>3, <1>7
<1>10. d * e <= a
  <2>1. CASE k = 0
    <3>1. e = 0
      BY <1>2, <1>9, <2>1 DEF V!Abs
    <3> QED  BY <1>4, <3>1
  <2>2. CASE k # 0
    <3>1. PICK v : v = V!TwoTo(k - 1)
      OBVIOUS
    <3>2. k - 1 \in Nat /\ (k - 1) + 1 = k
      BY <2>2
    <3>3. v \in Nat \ {0} /\ u = 2 * v
      BY <1>2, <1>3, <3>1, <3>2
    <3>4. d * v <= a
      BY <1>1, <1>2, <2>2, <3>1
    <3>5. e <= v
      BY <1>8, <3>3
    <3>6. \A x, y, z \in Nat : x <= y => z * x <= z * y /\ z * x \in Nat /\ z * y \in Nat
      OBVIOUS
    <3>7. d * e <= d * v /\ d * e \in Nat /\ d * v \in Nat
      BY <1>4, <1>8, <3>3, <3>5, <3>6
    <3> QED  BY <1>4, <3>4, <3>7
  <2> QED  BY <2>1, <2>2
<1> QED  BY <1>1, <1>2, <1>7, <1>9, <1>10

\* A mantissa as long as the type has all its values.
LEMMA TypeIsShort ==
    ASSUME MantissaDigits \in Nat, NEW type \in IntegralTypes, type.bits <= MantissaDigits,
           NEW n \in V!Values(type)
    PROVE  n \in Int /\ V!Abs(n) < V!TwoTo(MantissaDigits)
<1>1. PICK all, half, d : all = V!TwoTo(type.bits) /\ half = V!TwoTo(type.bits - 1)
                          /\ d = V!TwoTo(MantissaDigits)
  OBVIOUS
<1>2. all \in Nat \ {0} /\ half \in Nat \ {0} /\ all = 2 * half
  BY <1>1, TypeHalves
<1>3. d \in Nat
  BY <1>1, PowerSteps DEF V!TwoTo
<1>4. all <= d
  <2>1. type.bits \in Nat
    BY DEF IntegralTypes
  <2> QED  BY <1>1, <2>1, TwoGrows
<1>5. n \in Int /\ IF type.signed THEN -half <= n /\ n <= half - 1
                   ELSE 0 <= n /\ n <= all - 1
  BY <1>1, <1>2 DEF V!Values, V!Lowest, V!Highest
<1> QED  BY <1>1, <1>2, <1>3, <1>4, <1>5 DEF V!Abs

\* What is near a product in the mantissa is near the product, but for what
\* that lost.
LEMMA NearProduct ==
    ASSUME MantissaDigits \in Nat, ScaleUnit \in Nat \ {0}, NEW exact \in Int,
           NEW n \in Int,
           2 * V!Abs(ScaleUnit * n - exact) - ScaleUnit
                <= 2 * V!Abs(V!Nearest(exact) - exact)
    PROVE  V!IsNear(n, exact)
<1>1. PICK d, x, e, a : /\ d = V!TwoTo(MantissaDigits)
                        /\ x = 2 * V!Abs(ScaleUnit * n - exact) - ScaleUnit
                        /\ e = V!Abs(V!Nearest(exact) - exact) /\ a = V!Abs(exact)
  OBVIOUS
<1>2. d \in Nat
  BY <1>1, PowerSteps DEF V!TwoTo
<1>3. d * e <= a /\ V!Nearest(exact) \in Int
  BY <1>1, MantissaHas
<1>4. ScaleUnit * n \in Int
  OBVIOUS
<1>5. x \in Int /\ e \in Nat /\ a \in Nat
  BY <1>1, <1>3, <1>4 DEF V!Abs
<1>6. x <= 2 * e
  BY <1>1
<1>7. d * x <= 2 * (d * e) /\ d * x \in Int /\ d * e \in Int
  <2>1. \A z \in Nat : \A y, w \in Int : y <= w => z * y <= z * w /\ z * y \in Int
    OBVIOUS
  <2>2. d * x <= d * (2 * e) /\ d * x \in Int
    BY <1>2, <1>5, <1>6, <2>1
  <2>3. d * (2 * e) = 2 * (d * e) /\ d * e \in Int
    BY <1>2, <1>5
  <2> QED  BY <2>2, <2>3
<1>8. d * x <= 2 * a
  BY <1>3, <1>5, <1>7
<1> QED  BY <1>1, <1>8 DEF V!IsNear

\* multiply_rounded.h, overflow.h: for every scale that is a number and every
\* value of a type that the mantissa holds, of any width, the product comes out
\* as an integer of the type that is near it, but for what the mantissa loses of
\* the product, and is refused only when it is near one beyond the type, or
\* further; nothing is cast that the type does not have.
THEOREM RoundedOrRefused ==
    ASSUME FloatingTypes
    PROVE  \A scale, value \in Int : \A target \in IntegralTypes :
                V!RoundsOrThrows(scale, value, target)
<1> TAKE scale, value \in Int
<1> TAKE target \in IntegralTypes
<1> SUFFICES ASSUME value \in V!Values(target), target.bits <= MantissaDigits
             PROVE  V!RoundsOrThrows(scale, value, target)
  BY DEF V!RoundsOrThrows
<1>1. PICK exact, product, round, low, high, result, unit :
            /\ exact = scale * value /\ product = V!Nearest(exact) /\ unit = ScaleUnit
            /\ round = V!Rounded(product, unit)
            /\ low = V!Lowest(target) /\ high = V!Highest(target)
            /\ result = V!MultiplyRounded(scale, value, target)
  OBVIOUS
<1>2. MantissaDigits \in Nat /\ unit \in Nat \ {0} /\ \A n \in Int : n # NaN
  BY <1>1 DEF FloatingTypes
<1>3. exact \in Int
  BY <1>1
<1>4. product \in Int /\ (V!Abs(exact) < V!TwoTo(MantissaDigits) => product = exact)
  BY <1>1, <1>2, <1>3, MantissaHas
<1>5. round \in Int /\ 2 * (unit * round) - 2 * product \in -unit .. unit
  BY <1>1, <1>2, <1>4, RoundedIs
<1>6. low \in Int /\ high \in Int /\ low <= high /\ V!Values(target) = low .. high
  BY <1>1, TypeHalves DEF V!Lowest, V!Highest, V!Values
<1>7. V!Nearest(value) = value /\ V!Nearest(low) = low /\ V!Nearest(high) = high
  <2>1. \A n \in V!Values(target) : V!Nearest(n) = n
    BY <1>2, TypeIsShort, MantissaHas
  <2>2. low \in V!Values(target) /\ high \in V!Values(target)
    BY <1>6
  <2> QED  BY <2>1, <2>2
<1>8. \A x \in Int : V!ExceedsTarget(x, target) <=> x > unit * high \/ x < unit * low
  BY <1>1, <1>2, <1>7 DEF V!ExceedsTarget
<1>9. \A i, j \in Int : (unit * i > unit * j <=> i > j) /\ unit * i \in Int
  <2>1. \A z \in Nat \ {0} : \A i, j \in Int : (z * i > z * j <=> i > j) /\ z * i \in Int
    <3>1. \A z \in Nat \ {0} : \A i, j \in Int : i > j => z * i > z * j
      <4> TAKE z \in Nat \ {0}
      <4> TAKE i, j \in Int
      <4>1. PICK k : k = i - j
        OBVIOUS
      <4>2. i = j + k /\ k \in Int /\ z * i = z * j + z * k /\ z * j \in Int /\ z * k \in Int
        BY <4>1
      <4>3. \A a, b \in Nat : a > 0 /\ b > 0 => a * b > 0
        OBVIOUS
      <4>4. i > j => z * k > 0
        BY <4>1, <4>3
      <4> QED  BY <4>2, <4>4
    <3>2. \A z \in Nat \ {0} : \A i, j \in Int : z * i \in Int /\ z * j \in Int
      OBVIOUS
    <3>3. \A i, j \in Int : i > j \/ i = j \/ j > i
      OBVIOUS
    <3> QED  BY <3>1, <3>2, <3>3
  <2> QED  BY <1>2, <2>1
<1>10. V!ExceedsTarget(unit * round, target) <=> round \notin low .. high
  <2>1. unit * round > unit * high <=> round > high
    BY <1>5, <1>6, <1>9
  <2>2. unit * low > unit * round <=> low > round
    BY <1>5, <1>6, <1>9
  <2>3. unit * round \in Int /\ unit * low \in Int
    BY <1>5, <1>6, <1>9
  <2>4. unit * round < unit * low <=> unit * low > unit * round
    BY <2>3
  <2>5. V!ExceedsTarget(unit * round, target) <=>
            unit * round > unit * high \/ unit * round < unit * low
    BY <1>8, <2>3
  <2>6. round \notin low .. high <=> round > high \/ low > round
    BY <1>5, <1>6
  <2> QED  BY <2>1, <2>2, <2>4, <2>5, <2>6
<1>11. result = IF round \in low .. high THEN [told |-> "value", value |-> round]
                ELSE [told |-> "overflow_error"]
  <2>1. result = V!RoundIfIntegral(product, target)
    BY <1>1, <1>2, <1>7 DEF V!MultiplyRounded
  <2>2. product # NaN
    BY <1>2, <1>4
  <2> QED  BY <1>1, <1>6, <1>10, <2>1, <2>2 DEF V!RoundIfIntegral
<1>12. V!Abs(exact) < V!TwoTo(MantissaDigits) => result = V!RoundIfIntegral(exact, target)
  BY <1>1, <1>2, <1>4, <1>7 DEF V!MultiplyRounded
<1>13. unit * round \in Int
  BY <1>5, <1>9
<1>14. CASE round \in low .. high
  <2>1. 2 * V!Abs(unit * round - exact) - unit <= 2 * V!Abs(product - exact)
    BY <1>2, <1>3, <1>4, <1>5, <1>13 DEF V!Abs
  <2>2. V!IsNear(round, exact)
    BY <1>1, <1>2, <1>3, <1>5, <2>1, NearProduct
  <2>3. result.told = "value" /\ result.value = round
    BY <1>11, <1>14
  <2> QED  BY <1>1, <1>6, <1>12, <1>14, <2>2, <2>3 DEF V!RoundsOrThrows
<1>15. CASE round \notin low .. high
  <2>1. PICK above, below : above = high + 1 /\ below = low - 1
    OBVIOUS
  <2>2. above \in Int /\ below \in Int /\ unit * above \in Int /\ unit * below \in Int
    BY <1>6, <1>9, <2>1
  <2>3. exact >= unit * above \/ V!IsNear(above, exact)
        \/ exact <= unit * below \/ V!IsNear(below, exact)
    <3>1. CASE round > high
      <4>1. unit * above <= unit * round
        BY <1>5, <1>6, <1>9, <1>13, <2>1, <2>2, <3>1
      <4>2. exact < unit * above =>
                2 * V!Abs(unit * above - exact) - unit <= 2 * V!Abs(product - exact)
        BY <1>2, <1>3, <1>4, <1>5, <1>13, <2>2, <4>1 DEF V!Abs
      <4>3. exact < unit * above => V!IsNear(above, exact)
        BY <1>1, <1>2, <1>3, <2>2, <4>2, NearProduct
      <4> QED  BY <1>3, <2>2, <4>3
    <3>2. CASE round < low
      <4>1. unit * round <= unit * below
        BY <1>5, <1>6, <1>9, <1>13, <2>1, <2>2, <3>2
      <4>2. exact > unit * below =>
                2 * V!Abs(unit * below - exact) - unit <= 2 * V!Abs(product - exact)
        BY <1>2, <1>3, <1>4, <1>5, <1>13, <2>2, <4>1 DEF V!Abs
      <4>3. exact > unit * below => V!IsNear(below, exact)
        BY <1>1, <1>2, <1>3, <2>2, <4>2, NearProduct
      <4> QED  BY <1>3, <2>2, <4>3
    <3> QED  BY <1>5, <1>6, <1>15, <3>1, <3>2
  <2>4. result.told = "overflow_error"
    BY <1>11, <1>15
  <2>5. result.told # "value"
    BY <2>4
  <2> QED  BY <1>1, <1>12, <2>1, <2>3, <2>4, <2>5 DEF V!RoundsOrThrows
<1> QED  BY <1>14, <1>15

-----------------------------------------------------------------------------
(* Formatting: Formatter *)

\* What is printed into more places than the text has, is cut to the text.
LEMMA PrintsWhole ==
    ASSUME NEW S, NEW text \in Seq(S), NEW size \in Nat, Len(text) < size,
           NEW result, DOMAIN result = 1 .. size
    PROVE  X!resize(X!vsnprintf(result, size, text), Len(text)) = text
<1>1. PICK n, printed : n = Len(text) /\ printed = X!vsnprintf(result, size, text)
  OBVIOUS
<1>2. n \in Nat /\ n < size /\ text = [i \in 1 .. n |-> text[i]]
  BY <1>1
<1>3. printed = [i \in 1 .. size |->
                    IF i > size \/ i > n + 1 THEN result[i]
                    ELSE IF i = size \/ i = n + 1 THEN NUL
                    ELSE text[i]]
  BY <1>1 DEF X!vsnprintf
<1>4. Len(printed) = size
  BY <1>3
<1>5. \A i \in 1 .. n : i <= Len(printed) /\ printed[i] = text[i]
  <2> TAKE i \in 1 .. n
  <2>1. i \in 1 .. size /\ ~(i > size) /\ ~(i > n + 1) /\ i # size /\ i # n + 1
    BY <1>2
  <2> QED  BY <1>3, <1>4, <2>1
<1>6. X!resize(printed, n) = [i \in 1 .. n |-> text[i]]
  BY <1>5 DEF X!resize
<1> QED  BY <1>1, <1>2, <1>6

\* formatter.h: for every text and whatever room is asked for, Formatter
\* returns the whole text or throws system_error, as vsnprintf succeeds or fails;
\* FastFormatter returns the whole text, in debug and release builds, when there
\* is room for the null character too.
THEOREM FormatterKeepsText ==
    ASSUME NEW S
    PROVE  \A text \in Seq(S), charCount \in Nat, fails \in BOOLEAN :
                X!FormatsText(text, charCount, fails)
<1> TAKE text \in Seq(S), charCount \in Nat, fails \in BOOLEAN
<1>failed. CASE fails
  BY <1>failed DEF X!FormatsText, X!Formatter
<1> SUFFICES ASSUME ~fails PROVE X!FormatsText(text, charCount, fails)
  BY <1>failed
<1>1. Len(text) \in Nat
  OBVIOUS
<1>2. PICK none, first, second :
            /\ none = X!resize(<<>>, charCount)
            /\ first = X!vsnprintf(none, charCount, text)
            /\ second = X!vsnprintf(X!resize(first, Len(text) + 1), Len(text) + 1, text)
  OBVIOUS
<1>3. DOMAIN none = 1 .. charCount /\ DOMAIN X!resize(first, Len(text) + 1) = 1 .. Len(text) + 1
  BY <1>2 DEF X!resize
<1>4. Len(text) < charCount => X!resize(first, Len(text)) = text
  BY <1>2, <1>3, PrintsWhole
<1>5. X!resize(second, Len(text)) = text
  <2>1. Len(text) + 1 \in Nat /\ Len(text) < Len(text) + 1
    BY <1>1
  <2> QED  BY <1>2, <1>3, <2>1, PrintsWhole
<1>6. X!Formatter(charCount, text, fails) = text
  <2>1. ~X!TooShort(Len(text), charCount) => Len(text) < charCount
    BY <1>1 DEF X!TooShort
  <2>2. X!Formatter(charCount, text, fails) =
            X!resize(IF X!TooShort(Len(text), charCount) THEN second ELSE first, Len(text))
    BY <1>2 DEF X!Formatter
  <2> QED  BY <1>4, <1>5, <2>1, <2>2
<1>7. ASSUME Len(text) < charCount, NEW NoDebug \in BOOLEAN
      PROVE  X!FastFormatter(charCount, text, fails, NoDebug) = text
  <2>1. ~(Len(text) > charCount)
    BY <1>1, <1>7
  <2> QED  BY <1>2, <1>4, <1>7, <2>1 DEF X!FastFormatter
<1> QED  BY <1>6, <1>7 DEF X!FormatsText

-----------------------------------------------------------------------------
(* EndianTools *)

LEMMA FunctionIsSeq ==
    ASSUME NEW S, NEW m \in Nat, NEW f \in [1 .. m -> S]
    PROVE  f \in Seq(S) /\ Len(f) = m
OBVIOUS

\* The last byte first.
Turned(v) == [i \in 1 .. Len(v) |-> v[Len(v) + 1 - i]]

LEMMA TurnedTwice ==
    ASSUME NEW v \in Seq(Nat)
    PROVE  /\ Turned(v) \in Seq(Nat) /\ Len(Turned(v)) = Len(v)
           /\ Turned(Turned(v)) = v
           /\ Len(v) = 1 => Turned(v) = v
           /\ Y!Reverse(v) = Turned(v)
<1>1. PICK n : n = Len(v)
  OBVIOUS
<1>2. n \in Nat /\ v = [i \in 1 .. n |-> v[i]] /\ \A i \in 1 .. n : v[i] \in Nat
  BY <1>1
<1>3. \A i \in 1 .. n : n + 1 - i \in 1 .. n /\ n + 1 - (n + 1 - i) = i /\ (n - i) + 1 = n + 1 - i
  BY <1>2
<1>4. PICK w : w = Turned(v)
  OBVIOUS
<1>5. w = [i \in 1 .. n |-> v[n + 1 - i]]
  BY <1>1, <1>4 DEF Turned
<1>6. w \in Seq(Nat) /\ Len(w) = n
  <2>1. \A i \in 1 .. n : v[n + 1 - i] \in Nat
    BY <1>2, <1>3
  <2>2. w \in [1 .. n -> Nat]
    BY <1>5, <2>1
  <2> QED  BY <1>2, <2>2, FunctionIsSeq
<1>7. Turned(w) = [i \in 1 .. n |-> w[n + 1 - i]]
  BY <1>6 DEF Turned
<1>8. \A i \in 1 .. n : w[n + 1 - i] = v[i]
  BY <1>3, <1>5
<1>9. Turned(w) = v
  BY <1>2, <1>7, <1>8
<1>10. n = 1 => w = v
  <2> SUFFICES ASSUME n = 1 PROVE w = v
    OBVIOUS
  <2>1. \A i \in 1 .. n : n + 1 - i = i
    OBVIOUS
  <2> QED  BY <1>2, <1>5, <2>1
<1>11. Y!Reverse(v) = w
  <2>1. Y!Reverse(v) = [i \in 1 .. n |-> v[(n - i) + 1]]
    BY <1>1 DEF Y!Reverse
  <2> QED  BY <1>3, <1>5, <2>1
<1> QED  BY <1>1, <1>4, <1>6, <1>9, <1>10, <1>11

\* What a value becomes, to or from a format.
Ordered(v, format, host) == IF format = host \/ Len(v) = 1 THEN v ELSE Turned(v)

Hosts == {"big", "little"}

LEMMA ApplyOrders ==
    ASSUME NEW operation \in Y!Operation, NEW host \in Hosts, NEW v \in Seq(Nat),
           operation.format # host, Len(v) # 1
    PROVE  Y!Apply(operation, v, host) = Turned(v)
<1>1. operation.format \in Hosts /\ operation.to \in BOOLEAN /\ operation.floating \in BOOLEAN
  BY DEF Y!Operation, Hosts
<1>2. [i \in DOMAIN v |-> v[Len(v) + 1 - i]] = Turned(v)
  <2>1. DOMAIN v = 1 .. Len(v)
    OBVIOUS
  <2> QED  BY <2>1 DEF Turned
<1>3. CASE operation.floating = TRUE
  BY <1>3, TurnedTwice DEF Y!Apply, Y!Floating, Y!ReverseByteOrder
<1>4. CASE operation.floating = FALSE /\ operation.format = "big"
  <2>1. Y!Integral(v, "big", host) = Turned(v)
    BY <1>2, <1>4 DEF Y!Integral, Y!Swap
  <2>2. Y!Apply(operation, v, host) = IF operation.to THEN Y!HostToBigEndian(v, host)
                                      ELSE Y!BigEndianToHost(v, host)
    BY <1>4 DEF Y!Apply
  <2> QED  BY <2>1, <2>2 DEF Y!HostToBigEndian, Y!BigEndianToHost
<1>5. CASE operation.floating = FALSE /\ operation.format = "little"
  <2>1. Y!Integral(v, "little", host) = Turned(v)
    BY <1>2, <1>5 DEF Y!Integral, Y!Swap
  <2>2. Y!Apply(operation, v, host) = IF operation.to THEN Y!HostToLittleEndian(v, host)
                                      ELSE Y!LittleEndianToHost(v, host)
    BY <1>5 DEF Y!Apply
  <2> QED  BY <2>1, <2>2 DEF Y!HostToLittleEndian, Y!LittleEndianToHost
<1> QED  BY <1>1, <1>3, <1>4, <1>5 DEF Hosts

\* A range n long of N values, and another that begins at `out` and does not
\* begin within it.
Ranges(N, first, n, out) ==
    /\ N \in Nat /\ n \in Nat /\ first \in Nat \ {0} /\ out \in Nat \ {0}
    /\ first + n - 1 <= N /\ out + n - 1 <= N
    /\ out <= first \/ out >= first + n

\* The values after the first i of the range were turned.
After(memory, first, out, i) ==
    [j \in 1 .. Len(memory) |->
        IF j \in out .. out + i - 1 THEN Turned(memory[first + j - out]) ELSE memory[j]]

LEMMA StepsThrough ==
    ASSUME NEW N, NEW first, NEW n, NEW out, Ranges(N, first, n, out),
           NEW i \in 1 .. n
    PROVE  /\ i - 1 \in 0 .. n /\ i \in 0 .. n
           /\ first + i - 1 \in 1 .. N /\ out + i - 1 \in 1 .. N
           /\ first + i - 1 \notin out .. out + (i - 1) - 1
           /\ first + (out + i - 1) - out = first + i - 1
           /\ out + i - 1 \in out .. out + i - 1
           /\ \A j \in 1 .. N : j # out + i - 1 =>
                (j \in out .. out + i - 1 <=> j \in out .. out + (i - 1) - 1)
<1>1. /\ N \in Int /\ n \in Int /\ first \in Int /\ out \in Int /\ i \in Int
      /\ first >= 1 /\ out >= 1 /\ first + n - 1 <= N /\ out + n - 1 <= N
      /\ out <= first \/ out >= first + n
      /\ i >= 1 /\ i <= n
  BY DEF Ranges
<1> QED  BY <1>1

LEMMA SwapsRange ==
    ASSUME NEW operation \in Y!Operation, NEW host \in Hosts, operation.format # host,
           NEW memory \in Seq(Seq(Nat)), NEW first, NEW n, NEW out, NEW last,
           Ranges(Len(memory), first, n, out), last - first = n,
           \A i \in DOMAIN memory : Len(memory[i]) # 1, memory # <<>>
    PROVE  Y!RangeSwap(operation, memory, first, last, out, host)
                = After(memory, first, out, n)
<1> DEFINE Step(g) == [i \in 0 .. n |->
                        IF i = 0 THEN memory
                        ELSE [g[i - 1] EXCEPT ![out + i - 1] =
                                Y!Apply(operation, g[i - 1][first + i - 1], host)]]
           swapped == CHOOSE g : g = Step(g)
           after == [i \in 0 .. n |-> After(memory, first, out, i)]
<1>1. PICK N : N = Len(memory)
  OBVIOUS
<1>2. /\ N \in Nat /\ n \in Nat /\ first \in Nat \ {0} /\ out \in Nat \ {0}
      /\ first + n - 1 <= N /\ out + n - 1 <= N
      /\ out <= first \/ out >= first + n
      /\ DOMAIN memory = 1 .. N /\ \A i \in 1 .. N : memory[i] \in Seq(Nat)
      /\ memory = [j \in 1 .. N |-> memory[j]]
  BY <1>1 DEF Ranges
<1>3. Y!RangeSwap(operation, memory, first, last, out, host) = swapped[n]
  <2>1. ~ \A i \in DOMAIN memory : Len(memory[i]) = 1
    <3>1. 1 \in DOMAIN memory
      OBVIOUS
    <3> QED  BY <3>1
  <2> QED  BY <2>1 DEF Y!RangeSwap
<1>4. \A i \in 0 .. n, j \in 1 .. N :
            after[i][j] = IF j \in out .. out + i - 1 THEN Turned(memory[first + j - out])
                          ELSE memory[j]
  BY <1>1 DEF After
<1>5. \A i \in 0 .. n : after[i] = [j \in 1 .. N |-> after[i][j]]
  BY <1>1 DEF After
<1> HIDE DEF after
<1>6. after[0] = memory
  <2>1. 0 \in 0 .. n /\ \A j : ~(j \in out .. out + 0 - 1)
    BY <1>2
  <2>2. \A j \in 1 .. N : after[0][j] = memory[j]
    BY <1>4, <2>1
  <2> QED  BY <1>2, <1>5, <2>1, <2>2
<1>7. ASSUME NEW i \in 1 .. n
      PROVE  after[i] = [after[i - 1] EXCEPT ![out + i - 1] =
                            Y!Apply(operation, after[i - 1][first + i - 1], host)]
  <2>1. /\ i - 1 \in 0 .. n /\ i \in 0 .. n
        /\ first + i - 1 \in 1 .. N /\ out + i - 1 \in 1 .. N
        /\ first + i - 1 \notin out .. out + (i - 1) - 1
        /\ first + (out + i - 1) - out = first + i - 1
        /\ out + i - 1 \in out .. out + i - 1
        /\ \A j \in 1 .. N : j # out + i - 1 =>
                (j \in out .. out + i - 1 <=> j \in out .. out + (i - 1) - 1)
    BY <1>1, StepsThrough
  <2>2. after[i - 1][first + i - 1] = memory[first + i - 1]
    BY <1>4, <2>1
  <2>3. Y!Apply(operation, memory[first + i - 1], host) = Turned(memory[first + i - 1])
    <3>1. memory[first + i - 1] \in Seq(Nat) /\ Len(memory[first + i - 1]) # 1
      BY <1>2, <2>1
    <3> QED  BY <3>1, ApplyOrders
  <2>4. after[i][out + i - 1] = Turned(memory[first + i - 1])
    BY <1>4, <2>1
  <2>5. \A j \in 1 .. N : j # out + i - 1 => after[i][j] = after[i - 1][j]
    BY <1>4, <2>1
  <2>6. PICK old, new, place, value :
            /\ old = after[i - 1] /\ new = after[i] /\ place = out + i - 1
            /\ value = Turned(memory[first + i - 1])
    OBVIOUS
  <2>7. /\ old = [j \in 1 .. N |-> old[j]] /\ new = [j \in 1 .. N |-> new[j]]
        /\ place \in 1 .. N /\ new[place] = value
        /\ \A j \in 1 .. N : j # place => new[j] = old[j]
    BY <1>5, <2>1, <2>4, <2>5, <2>6
  <2>8. new = [old EXCEPT ![place] = value]
    BY <2>7
  <2> QED  BY <2>2, <2>3, <2>6, <2>8
<1>8. after = Step(after)
  <2>1. after = [i \in 0 .. n |-> after[i]]
    BY DEF after
  <2>2. \A i \in 0 .. n : i # 0 => i \in 1 .. n
    BY <1>2
  <2> QED  BY <1>6, <1>7, <2>1, <2>2
<1>9. swapped = Step(swapped)
  BY <1>8
<1> HIDE DEF swapped
<1> DEFINE Bad == {i \in 0 .. n : swapped[i] # after[i]}
<1>10. ASSUME Bad # {} PROVE FALSE
  <2>1. Bad \in SUBSET Nat
    BY <1>2
  <2>2. PICK k \in Bad : \A m \in Bad : k <= m
    <3> HIDE DEF Bad
    <3> QED  BY <1>10, <2>1, LeastElement
  <2>3. k \in 0 .. n /\ swapped[k] # after[k]
    BY <2>2
  <2>4. swapped[k] = IF k = 0 THEN memory
                     ELSE [swapped[k - 1] EXCEPT ![out + k - 1] =
                            Y!Apply(operation, swapped[k - 1][first + k - 1], host)]
    BY <1>9, <2>3
  <2>5. k # 0
    BY <1>6, <2>3, <2>4
  <2>6. k \in 1 .. n /\ k - 1 \in 0 .. n /\ ~(k <= k - 1)
    BY <1>2, <2>3, <2>5
  <2>7. swapped[k - 1] = after[k - 1]
    BY <2>2, <2>6
  <2> QED  BY <1>7, <2>3, <2>4, <2>5, <2>6, <2>7
<1>11. swapped[n] = after[n] /\ after[n] = After(memory, first, out, n)
  <2>1. n \in 0 .. n
    BY <1>2
  <2> QED  BY <1>10, <2>1 DEF after
<1> QED  BY <1>3, <1>11

\* What a memory holds after a range was converted.
RangeOrdered(memory, first, n, out, format, host) ==
    [j \in 1 .. Len(memory) |->
        IF j \in out .. out + n - 1 THEN Ordered(memory[first + j - out], format, host)
        ELSE memory[j]]

OneSize(memory) == \E size \in Nat : \A i \in DOMAIN memory : Len(memory[i]) = size

LEMMA OrderedIs ==
    ASSUME NEW v \in Seq(Nat), NEW format \in Hosts, NEW host \in Hosts
    PROVE  Ordered(v, format, host) \in Seq(Nat) /\ Len(Ordered(v, format, host)) = Len(v)
BY TurnedTwice DEF Ordered

LEMMA Within ==
    ASSUME NEW N, NEW first, NEW n, NEW out, Ranges(N, first, n, out)
    PROVE  \A j \in 1 .. N : j \in out .. out + n - 1 => first + j - out \in 1 .. N
<1>1. /\ N \in Int /\ n \in Int /\ first \in Int /\ out \in Int
      /\ first >= 1 /\ out >= 1 /\ first + n - 1 <= N /\ out + n - 1 <= N
  BY DEF Ranges
<1> QED  BY <1>1

LEMMA ConvertsRange ==
    ASSUME NEW operation \in Y!Operation, NEW host \in Hosts,
           NEW memory \in Seq(Seq(Nat)), OneSize(memory),
           NEW first, NEW n, NEW out, NEW last,
           Ranges(Len(memory), first, n, out), last = first + n
    PROVE  Y!Convert(operation, memory, first, last, out, host)
                = RangeOrdered(memory, first, n, out, operation.format, host)
<1>1. PICK N, format : N = Len(memory) /\ format = operation.format
  OBVIOUS
<1>2. /\ N \in Nat /\ n \in Nat /\ first \in Nat \ {0} /\ out \in Nat \ {0}
      /\ first + n - 1 <= N /\ out + n - 1 <= N
      /\ DOMAIN memory = 1 .. N /\ \A i \in 1 .. N : memory[i] \in Seq(Nat)
      /\ memory = [j \in 1 .. N |-> memory[j]]
  BY <1>1 DEF Ranges
<1>3. last - first = n /\ out + last - first - 1 = out + n - 1
  BY <1>2
<1>4. \A j \in 1 .. N : j \in out .. out + n - 1 => first + j - out \in 1 .. N
  BY <1>1, Within
<1> DEFINE sent == RangeOrdered(memory, first, n, out, format, host)
<1>5. sent = [j \in 1 .. N |->
                IF j \in out .. out + n - 1 THEN Ordered(memory[first + j - out], format, host)
                ELSE memory[j]]
  BY <1>1 DEF RangeOrdered
<1> HIDE DEF sent
<1>6. ASSUME \A i \in 1 .. N : Ordered(memory[i], format, host) = memory[i]
      PROVE  sent = IF out # first THEN Y!copy(memory, first, last, out) ELSE memory
  <2>1. Y!copy(memory, first, last, out)
            = [j \in 1 .. N |-> IF j \in out .. out + n - 1 THEN memory[first + j - out]
                                ELSE memory[j]]
    BY <1>2, <1>3 DEF Y!copy
  <2>2. sent = [j \in 1 .. N |-> IF j \in out .. out + n - 1 THEN memory[first + j - out]
                                ELSE memory[j]]
    BY <1>4, <1>5, <1>6
  <2>3. out = first => sent = memory
    <3> SUFFICES ASSUME out = first PROVE sent = memory
      OBVIOUS
    <3>1. \A j \in 1 .. N : first + j - out = j
      BY <1>2
    <3>2. sent = [j \in 1 .. N |-> memory[j]]
      BY <2>2, <3>1
    <3> QED  BY <1>2, <3>2
  <2> QED  BY <2>1, <2>2, <2>3
<1>7. CASE format = host
  <2>1. \A i \in 1 .. N : Ordered(memory[i], format, host) = memory[i]
    BY <1>7 DEF Ordered
  <2> QED  BY <1>1, <1>6, <1>7, <2>1 DEF Y!Convert, sent
<1>8. CASE format # host /\ \A i \in 1 .. N : Len(memory[i]) = 1
  <2>1. \A i \in 1 .. N : Ordered(memory[i], format, host) = memory[i]
    BY <1>8 DEF Ordered
  <2>2. Y!Convert(operation, memory, first, last, out, host)
            = Y!RangeSwap(operation, memory, first, last, out, host)
    BY <1>1, <1>8 DEF Y!Convert
  <2>3. Y!RangeSwap(operation, memory, first, last, out, host)
            = IF out # first THEN Y!copy(memory, first, last, out) ELSE memory
    BY <1>2, <1>8 DEF Y!RangeSwap
  <2> QED  BY <1>1, <1>6, <2>1, <2>2, <2>3 DEF sent
<1>9. CASE format # host /\ ~ \A i \in 1 .. N : Len(memory[i]) = 1
  <2>1. (\A i \in 1 .. N : Len(memory[i]) # 1) /\ memory # <<>>
    <3>1. PICK size \in Nat : \A i \in 1 .. N : Len(memory[i]) = size
      BY <1>2 DEF OneSize
    <3>2. size # 1
      BY <1>9, <3>1
    <3>3. memory # <<>>
      BY <1>2, <1>9
    <3>4. \A i \in 1 .. N : Len(memory[i]) # 1
      BY <3>1, <3>2
    <3> QED  BY <3>3, <3>4
  <2>2. Y!Convert(operation, memory, first, last, out, host)
            = Y!RangeSwap(operation, memory, first, last, out, host)
    BY <1>1, <1>9 DEF Y!Convert
  <2>3. Y!RangeSwap(operation, memory, first, last, out, host) = After(memory, first, out, n)
    <3>1. operation.format # host /\ last - first = n
      BY <1>1, <1>3, <1>9
    <3>2. (\A i \in DOMAIN memory : Len(memory[i]) # 1) /\ memory # <<>>
      BY <1>2, <2>1
    <3> QED  BY <3>1, <3>2, SwapsRange
  <2>4. \A i \in 1 .. N : Ordered(memory[i], format, host) = Turned(memory[i])
    BY <1>9, <2>1 DEF Ordered
  <2>5. After(memory, first, out, n)
            = [j \in 1 .. N |-> IF j \in out .. out + n - 1 THEN Turned(memory[first + j - out])
                                ELSE memory[j]]
    BY <1>1 DEF After
  <2>6. After(memory, first, out, n) = sent
    BY <1>4, <1>5, <2>4, <2>5
  <2> QED  BY <1>1, <2>2, <2>3, <2>6 DEF sent
<1> QED  BY <1>7, <1>8, <1>9

\* The bytes of a value, the most significant first, say which number it is.
Significant(v, host) == IF host = "big" THEN v ELSE Y!Reverse(v)

LEMMA NumberOfBytes ==
    ASSUME NEW v, NEW w, NEW sender, NEW receiver,
           Significant(v, sender) = Significant(w, receiver)
    PROVE  Y!Number(v, sender) = Y!Number(w, receiver)
BY DEF Y!Number, Significant

LEMMA NumberTravels ==
    ASSUME NEW v \in Seq(Nat), NEW format \in Hosts, NEW sender \in Hosts,
           NEW receiver \in Hosts
    PROVE  Y!Number(Ordered(Ordered(v, format, sender), format, receiver), receiver)
                = Y!Number(v, sender)
<1>1. PICK w, received : /\ w = Ordered(v, format, sender)
                    /\ received = Ordered(w, format, receiver)
  OBVIOUS
<1>2. /\ Turned(v) \in Seq(Nat) /\ Len(Turned(v)) = Len(v)
      /\ Turned(Turned(v)) = v
      /\ Len(v) = 1 => Turned(v) = v
      /\ Y!Reverse(v) = Turned(v) /\ Y!Reverse(Turned(v)) = Turned(Turned(v))
  BY TurnedTwice
<1>3. sender = receiver => received = v
  BY <1>1, <1>2 DEF Ordered
<1>4. sender # receiver => received = Turned(v)
  BY <1>1, <1>2 DEF Ordered, Hosts
<1>5. Significant(v, sender) = Significant(received, receiver)
  BY <1>2, <1>3, <1>4 DEF Significant, Hosts
<1> QED  BY <1>1, <1>5, NumberOfBytes

\* endian_tools.h: for every memory of values of one size, what one host
\* converts to a format, to another place or in place, and another converts
\* from it, are the same numbers, and the rest of the memory is left alone.
THEOREM NumbersArrive ==
    ASSUME NEW memory \in Seq(Seq(Nat)), OneSize(memory),
           NEW first \in Nat \ {0}, NEW n \in Nat, first + n - 1 <= Len(memory),
           NEW out \in Nat \ {0}, NEW format \in Hosts, NEW floating \in BOOLEAN,
           NEW sender \in Hosts, NEW receiver \in Hosts
    PROVE  Y!NumbersTravel(memory, first, first + n, out, format, floating, sender, receiver)
<1>1. PICK to, from, N, last :
            /\ to = [to |-> TRUE, format |-> format, floating |-> floating]
            /\ from = [to EXCEPT !.to = FALSE]
            /\ N = Len(memory) /\ last = first + n
  OBVIOUS
<1>2. /\ to \in Y!Operation /\ from \in Y!Operation
      /\ to.format = format /\ from.format = format
  BY <1>1 DEF Y!Operation, Hosts
<1>3. /\ N \in Nat /\ last - first = n /\ out + last - first - 1 = out + n - 1
      /\ DOMAIN memory = 1 .. N /\ \A i \in 1 .. N : memory[i] \in Seq(Nat)
  BY <1>1
<1>4. PICK sent : sent = Y!Convert(to, memory, first, last, out, sender)
  OBVIOUS
<1>5. PICK wire : wire = SubSeq(sent, out, out + last - first - 1)
  OBVIOUS
<1>6. PICK received : received = Y!ConvertArray(from, wire, receiver)
  OBVIOUS
<1>7. SUFFICES ASSUME out \notin first + 1 .. last - 1, out + n - 1 <= N
      PROVE  /\ \A i \in DOMAIN received :
                    Y!Number(received[i], receiver) = Y!Number(memory[first + i - 1], sender)
             /\ \A i \in DOMAIN memory \ (out .. out + n - 1) : sent[i] = memory[i]
  BY <1>1, <1>3, <1>4, <1>5, <1>6 DEF Y!NumbersTravel
<1>8. Ranges(Len(memory), first, n, out)
  BY <1>1, <1>3, <1>7 DEF Ranges
<1>9. sent = RangeOrdered(memory, first, n, out, format, sender)
  BY <1>1, <1>2, <1>4, <1>8, ConvertsRange
<1>10. \A j \in 1 .. N :
            sent[j] = IF j \in out .. out + n - 1
                      THEN Ordered(memory[first + j - out], format, sender) ELSE memory[j]
  BY <1>1, <1>9 DEF RangeOrdered
<1>11. wire = [i \in 1 .. n |-> Ordered(memory[first + i - 1], format, sender)]
  <2>1. wire = SubSeq(sent, out, out + n - 1) /\ (out + n - 1) - out + 1 = n
    BY <1>3, <1>5
  <2>2. wire = [i \in 1 .. n |-> sent[out + i - 1]]
    BY <2>1
  <2>3. \A i \in 1 .. n : /\ out + i - 1 \in 1 .. N /\ out + i - 1 \in out .. out + n - 1
                          /\ first + (out + i - 1) - out = first + i - 1
    BY <1>3, <1>7
  <2> QED  BY <1>10, <2>2, <2>3
<1>12. \A i \in 1 .. n : first + i - 1 \in 1 .. N
  BY <1>1, <1>3
<1>13. wire \in Seq(Seq(Nat)) /\ Len(wire) = n /\ OneSize(wire)
  <2>1. PICK size \in Nat : \A i \in 1 .. N : Len(memory[i]) = size
    BY <1>3 DEF OneSize
  <2>2. \A i \in 1 .. n : wire[i] \in Seq(Nat) /\ Len(wire[i]) = size
    <3> TAKE i \in 1 .. n
    <3>1. PICK v : v = memory[first + i - 1]
      OBVIOUS
    <3>2. v \in Seq(Nat) /\ Len(v) = size
      BY <1>3, <1>12, <2>1, <3>1
    <3>3. wire[i] = Ordered(v, format, sender)
      BY <1>11, <3>1
    <3> QED  BY <3>2, <3>3, OrderedIs
  <2>3. wire \in [1 .. n -> Seq(Nat)]
    BY <1>11, <2>2
  <2>4. wire \in Seq(Seq(Nat)) /\ Len(wire) = n
    BY <2>3, FunctionIsSeq
  <2>5. DOMAIN wire = 1 .. n
    BY <1>11
  <2> QED  BY <2>1, <2>2, <2>4, <2>5 DEF OneSize
<1>14. received = RangeOrdered(wire, 1, n, 1, format, receiver)
  <2>1. Ranges(Len(wire), 1, n, 1)
    BY <1>13 DEF Ranges
  <2>2. received = Y!Convert(from, wire, 1, n + 1, 1, receiver)
    BY <1>6, <1>13 DEF Y!ConvertArray
  <2>3. n + 1 = 1 + n
    OBVIOUS
  <2> QED  BY <1>2, <1>13, <2>1, <2>2, <2>3, ConvertsRange
<1>15. DOMAIN received = 1 .. n /\ \A i \in 1 .. n : received[i] = Ordered(wire[i], format, receiver)
  <2>1. \A i \in 1 .. n : i \in 1 .. 1 + n - 1 /\ 1 + i - 1 = i
    OBVIOUS
  <2> QED  BY <1>13, <1>14, <2>1 DEF RangeOrdered
<1>16. ASSUME NEW i \in 1 .. n
       PROVE  Y!Number(received[i], receiver) = Y!Number(memory[first + i - 1], sender)
  <2>1. PICK v : v = memory[first + i - 1]
    OBVIOUS
  <2>2. v \in Seq(Nat) /\ received[i] = Ordered(Ordered(v, format, sender), format, receiver)
    BY <1>3, <1>11, <1>12, <1>15, <2>1
  <2> QED  BY <2>1, <2>2, NumberTravels
<1>17. \A i \in DOMAIN memory \ (out .. out + n - 1) : sent[i] = memory[i]
  BY <1>3, <1>10
<1> QED  BY <1>15, <1>16, <1>17
=============================================================================
