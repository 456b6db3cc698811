------------------------------ MODULE Numbers ------------------------------
(***************************************************************************)
(* Numbers in texts: jive/to_integer.h, jive/version.h, the octets of      *)
(* jive/socket/address.h and jive/numeric_string_compare.cpp.  A text is a *)
(* sequence of characters.                                                 *)
(***************************************************************************)
EXTENDS Integers, Sequences, SequencesExt, FiniteSetsExt

CONSTANTS INT_MAX, LLONG_MAX, ULLONG_MAX   \* small instances scale these down

S == INSTANCE Strings

\* The types texts are converted to.
Signed(max) == [min |-> -max - 1, max |-> max]
Unsigned(max) == [min |-> 0, max |-> max]
IsSigned(T) == T.min < 0

Ordered == <<" ", "+", "-", ".", "0", "1", "2", "3", "4", "5", "6", "7", "8",
             "9", "a", "b">>
Code(c) == CHOOSE i \in DOMAIN Ordered : Ordered[i] = c
IsDigit(c) == c \in S!Digits
Digit(c) == Code(c) - Code("0")

Result(n) == [told |-> "value", value |-> n]
Throws(what) == [told |-> what]

-----------------------------------------------------------------------------
(* to_integer.h, base10 *)

\* The value of digits.
Value(s) == FoldLeft(LAMBDA n, c : 10 * n + Digit(c), 0, s)

\* What strtoll and strtoull read: they skip spaces, take a sign, and read
\* digits until something else comes.
Run(digits) ==
    LET others == {i \in DOMAIN digits : ~IsDigit(digits[i])}
    IN  IF others = {} THEN digits ELSE SubSeq(digits, 1, Min(others) - 1)
Parsed(t) ==
    LET signed == t # <<>> /\ Head(t) \in {"+", "-"}
    IN  [negative |-> signed /\ Head(t) = "-",
         value |-> Value(Run(IF signed THEN Tail(t) ELSE t))]

\* What they make of it.
strtoll(parsed) ==
    IF parsed.negative THEN Max({-parsed.value, -LLONG_MAX - 1})
    ELSE Min({parsed.value, LLONG_MAX})

strtoull(parsed) ==
    IF parsed.value > ULLONG_MAX THEN ULLONG_MAX
    ELSE IF parsed.negative THEN (-parsed.value) % (ULLONG_MAX + 1)
    ELSE parsed.value

\* AllowedDigits and ValidateDigits, which debug builds call.
AllowedDigits(T) == S!Digits \cup {"+"} \cup (IF IsSigned(T) THEN {"-"} ELSE {})
ValidateDigits(s, T) == Range(s) \subseteq AllowedDigits(T)

InRange(n, T) == n <= T.max /\ n >= T.min

Limited(n, T) == IF InRange(n, T) THEN Result(n) ELSE Throws("out_of_range")

Trimmed(t, T, NDEBUG) ==
    IF ~NDEBUG /\ ~ValidateDigits(t, T) THEN Throws("invalid_argument")
    ELSE Limited(IF IsSigned(T) THEN strtoll(Parsed(t)) ELSE strtoull(Parsed(t)),
                 T)

ToInteger(s, T, NDEBUG) == Trimmed(S!Trim(s, {" "}), T, NDEBUG)

-----------------------------------------------------------------------------
(* Version and Address: numbers with dots between. *)

\* The values of all numbers, or the first exception.
AllOf(numbers) ==
    LET failed == {i \in DOMAIN numbers : numbers[i].told # "value"}
    IN  IF failed # {} THEN numbers[Min(failed)]
        ELSE Result([i \in DOMAIN numbers |-> numbers[i].value])

FromParts(parts, count, T, NDEBUG) ==
    IF Len(parts) # count THEN Throws("format")
    ELSE AllOf([i \in 1 .. count |-> ToInteger(parts[i], T, NDEBUG)])

FromText(s, count, T, NDEBUG) ==
    FromParts(S!Split(s, <<".">>, -1), count, T, NDEBUG)

\* Version::Version(const std::string &) and Address::Address(const char *).
\* Version throws one exception of its own for everything.
OrVersionError(read) ==
    IF read.told = "value" THEN read ELSE Throws("VersionError")
Version(s, T, NDEBUG) == OrVersionError(FromText(s, 3, T, NDEBUG))
Address(s, octet, NDEBUG) == FromText(s, 4, octet, NDEBUG)

\* fmt::format of an unsigned number less than 100.
Char(n) == Ordered[n + Code("0")]
Text(n) == IF n < 10 THEN <<Char(n)>> ELSE <<Char(n \div 10), Char(n % 10)>>

\* Version::ToString and Address::GetAsString.
VersionToString(v) == S!Join([i \in DOMAIN v |-> Text(v[i])], <<".">>)
GetAsString(octets) == S!Join([i \in DOMAIN octets |-> Text(octets[i])], <<".">>)

\* Version's operator<, of tuples.
VersionLess(v, w) ==
    \E i \in 1 .. 3 : v[i] < w[i] /\ \A j \in 1 .. i - 1 : v[j] = w[j]

-----------------------------------------------------------------------------
(* NumericString *)

\* std::string's operator<
TextLess(s, t) ==
    \/ IsStrictPrefix(s, t)
    \/ \E i \in DOMAIN s \cap DOMAIN t :
        /\ Code(s[i]) < Code(t[i])
        /\ \A j \in 1 .. i - 1 : s[j] = t[j]

\* The constructor: runs of digits and of others.
Chunks(value) ==
    LET begins == {i \in DOMAIN value :
            i = 1 \/ IsDigit(value[i]) # IsDigit(value[i - 1])}
        begin == SetToSortSeq(begins, <)
        end(i) == IF i = Len(begin) THEN Len(value) ELSE begin[i + 1] - 1
    IN  [i \in DOMAIN begin |-> SubSeq(value, begin[i], end(i))]

IsNumeric(chunk) == IsDigit(Head(chunk))

\* Mutant of ChunkLess: all chunks compare as texts.
TextChunkLess(c, d) == TextLess(c, d)

ChunkLess(c, d) ==
    IF IsNumeric(c) /\ IsNumeric(d) THEN Value(c) < Value(d) ELSE TextLess(c, d)

\* A number that is no int is not converted: the constructor throws.
Constructs(s) ==
    \A c \in Range(Chunks(s)) : IsNumeric(c) => Value(c) <= INT_MAX

ChunksLess(c, d) ==
    \/ \E i \in DOMAIN c \cap DOMAIN d :
        /\ ChunkLess(c[i], d[i])
        /\ \A j \in 1 .. i - 1 : ~ChunkLess(c[j], d[j]) /\ ~ChunkLess(d[j], c[j])
    \/ /\ Len(c) < Len(d)
       /\ \A j \in DOMAIN c : ~ChunkLess(c[j], d[j]) /\ ~ChunkLess(d[j], c[j])

Less(s, t) == ChunksLess(Chunks(s), Chunks(t))

-----------------------------------------------------------------------------
\* A text that is a number (spaces around it, a sign, digits) is converted to
\* its value when T can hold it, and to nothing else: this holds in debug and
\* release builds for types narrower than long long.  The exception are huge
\* negative texts, which release builds take for small unsigned numbers.
ReadsNumbers(s, T, NDEBUG) ==
    LET t == S!Trim(s, {" "})
        negative == t # <<>> /\ Head(t) = "-"
        digits == IF t # <<>> /\ Head(t) \in {"+", "-"} THEN Tail(t) ELSE t
        n == IF negative THEN -Value(digits) ELSE Value(digits)
    IN  digits # <<>> /\ S!AllOfDigits(digits) =>
            \/ ToInteger(s, T, NDEBUG) \in
                IF T.min <= n /\ n <= T.max THEN {Result(n)}
                ELSE {Throws("out_of_range"), Throws("invalid_argument")}
            \* "-0" has a character that unsigned types do not allow
            \/ negative /\ ~IsSigned(T) /\ IF NDEBUG THEN n + ULLONG_MAX < T.max
                                         ELSE n = 0

\* A version or an address survives being written, two different ones are
\* written differently, and a text with too few or too many numbers is neither.
KeepsVersions(v, w, octets, T) ==
    /\ Version(VersionToString(v), T, FALSE) = Result(v)
    /\ Address(GetAsString(octets), T, FALSE) = Result(octets)
    /\ Version(GetAsString(octets), T, FALSE) = Throws("VersionError")
    /\ Address(VersionToString(v), T, FALSE) = Throws("format")
    /\ VersionLess(v, w) \/ VersionLess(w, v) \/ v = w
    /\ VersionLess(v, w) => ~VersionLess(w, v)
    /\ VersionLess(v, w) => Less(VersionToString(v), VersionToString(w))

\* NumericStringCompare orders the keys of a std::map, which needs a strict weak
\* order: no cycles, and what is equivalent is so transitively.  Numbers are
\* ordered by value; texts that are equivalent differ in leading zeros only.
Equivalent(s, t) == ~Less(s, t) /\ ~Less(t, s)
Digits(s) == s # <<>> /\ S!AllOfDigits(s)

OrdersNumerically(s, t, u) ==
    Constructs(s) /\ Constructs(t) /\ Constructs(u) =>
    /\ ~Less(s, s)
    /\ Less(s, t) => ~Less(t, s)
    /\ Less(s, t) /\ Less(t, u) => Less(s, u)
    /\ Equivalent(s, t) /\ Equivalent(t, u) => Equivalent(s, u)
    /\ Digits(s) /\ Digits(t) => (Less(s, t) <=> Value(s) < Value(t))
    /\ Equivalent(s, t) /\ s # t =>
            Len(s) # Len(t) /\ "0" \in Range(s) \cup Range(t)
============================================================================
