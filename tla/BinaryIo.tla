------------------------------ MODULE BinaryIo ------------------------------
(***************************************************************************)
(* jive/binary_io.h, jive/detail/binary_io_impl.h.  Objects are written to *)
(* a stream, one after the other, and read back in the same order, as      *)
(* their types say.  Before that the end of the stream may get lost.  A    *)
(* reader is given an std::istream, or a ReadFunction, which throws when   *)
(* there are fewer bytes than it was asked for.                            *)
(***************************************************************************)
EXTENDS Integers, Sequences, SequencesExt

CONSTANTS
    Range_uint8,    \* a byte is in 0 .. Range_uint8 - 1
    Range_signed,   \* an int has so many values, half of them negative
    Number, Text,   \* objects that callers write: sequences of bytes
    sizeof_T,       \* the length of a Number
    sizeof_CountType,
    MaxItems        \* bound on the objects that are written

VARIABLES
    pc,         \* "writing" or how the reader reads: "istream" or "function"
    stream,     \* the bytes
    written,    \* what was written, of which type
    position,   \* of the reader
    good,       \* the stream's state: the writer's, then the reader's
    got         \* what the reads returned

vars == <<pc, stream, written, position, good, got>>

Items ==
    [of : {"number"}, value : Number]
        \cup [of : {"string", "longString"}, value : Text]
        \cup [of : {"optional"}, value : {<<>>} \cup {<<n>> : n \in Number}]

Init ==
    /\ pc = "writing"
    /\ stream = <<>> /\ written = <<>>
    /\ position = 0 /\ good = TRUE
    /\ got = <<>>

-----------------------------------------------------------------------------
(* Writing *)

\* What a one is worth behind i bytes.
Place[i \in 0 .. sizeof_CountType] ==
    IF i = 0 THEN 1 ELSE Range_uint8 * Place[i - 1]

\* CountType, lowest byte first.
CountBytes(n) ==
    [i \in 1 .. sizeof_CountType |-> (n \div Place[i - 1]) % Range_uint8]
Count(bytes) ==
    FoldLeft(+, 0, [i \in DOMAIN bytes |-> Place[i - 1] * bytes[i]])

\* ostream::write takes the number of characters as an int.  A negative number
\* writes none, and the ostream is no longer good.
Negative(n) == 2 * (n % Range_signed) >= Range_signed
Characters(text) ==
    SubSeq(text, 1, IF Negative(Len(text)) THEN 0 ELSE Len(text) % Range_signed)

\* Mutant of TooLong: as many characters as a byte has values.
LongerThanRange(text) == Len(text) > Range_uint8
TooLong(text) == Len(text) > Range_uint8 - 1

Bytes(item) ==
    CASE item.of = "number" -> item.value
      [] item.of = "string" -> <<Len(item.value) % Range_uint8>>
            \o SubSeq(item.value, 1, Len(item.value) % Range_uint8)
      [] item.of = "longString" -> CountBytes(Len(item.value)) \o Characters(item.value)
      [] item.of = "optional" ->
            IF item.value = <<>> THEN <<0>> ELSE <<1>> \o item.value[1]

\* A string that is too long throws before anything is written; an ostream that
\* is not good takes nothing.
Write(item) ==
    /\ pc = "writing" /\ Len(written) < MaxItems
    /\ IF \/ item.of = "string" /\ TooLong(item.value)
          \/ item.of = "longString"
                /\ Len(item.value) >= Place[sizeof_CountType]
       THEN UNCHANGED <<stream, written, good>>
       ELSE /\ stream' = stream \o (IF good THEN Bytes(item) ELSE <<>>)
            /\ written' = Append(written, item)
            /\ good' = (good /\ (item.of = "longString" => ~Negative(Len(item.value))))
    /\ UNCHANGED <<pc, position, got>>

\* The writer closes, or is killed while some bytes are in its buffer.
EndWriting ==
    /\ pc = "writing"
    /\ \E n \in 0 .. Len(stream) : stream' = SubSeq(stream, 1, n)
    /\ pc' \in {"istream", "function"}
    /\ good' = TRUE
    /\ UNCHANGED <<written, position, got>>

-----------------------------------------------------------------------------
(* Reading: what is taken at a place, and what is told of it. *)

Available(at) == IF at < Len(stream) THEN Len(stream) - at ELSE 0
Taken(at, n) == SubSeq(stream, at + 1, at + n)

\* The bytes that were not there are zeros.
Padded(at, n) ==
    [i \in 1 .. n |-> IF i <= Available(at) THEN stream[at + i] ELSE 0]

Returns(value, at) == [told |-> "value", value |-> value, at |-> at]
Throws(at) == [told |-> "threw", at |-> at]
\* A value that was never written to, in part or whole.
Junk(at) == [told |-> "junk", at |-> at]

\* istream::read and get take what is there.
Whole(at, n) == Available(at) >= n

ReadT(at) ==
    IF Whole(at, sizeof_T) THEN Returns(Taken(at, sizeof_T), at + sizeof_T)
    ELSE IF pc = "function" THEN Throws(at)
    ELSE Junk(Len(stream))

\* Behind a size of n, which took `head` bytes.
ReadCharacters(at, head, n) ==
    IF Whole(at + head, n) \/ pc = "istream"
    THEN Returns(Padded(at + head, n), at + head + n) ELSE Throws(at)

ReadString(at) ==
    IF ~Whole(at, 1) THEN Throws(at)
    ELSE ReadCharacters(at, 1, stream[at + 1])

\* ReadString<CountType>
ReadLongString(at) ==
    IF ~Whole(at, sizeof_CountType) THEN Throws(at)
    ELSE ReadCharacters(at, sizeof_CountType, Count(Taken(at, sizeof_CountType)))

ReadOptional(at) ==
    IF ~Whole(at, 1) THEN Throws(at)
    ELSE IF stream[at + 1] = 0 THEN Returns(<<>>, at + 1)
    ELSE LET read == ReadT(at + 1)
         IN  IF read.told = "value" THEN [read EXCEPT !.value = <<@>>] ELSE read

ReadItem(of, at) ==
    CASE of = "number" -> ReadT(at)
      [] of = "string" -> ReadString(at)
      [] of = "longString" -> ReadLongString(at)
      [] of = "optional" -> ReadOptional(at)

\* What the reader expects next.  Through a function there are only numbers and
\* strings.
Expects(types) ==
    /\ pc # "writing" /\ Len(got) < Len(written)
    /\ written[Len(got) + 1].of \in types
    /\ pc = "function" => written[Len(got) + 1].of \in {"number", "string"}

\* A std::istream that is not good takes no more; a function throws again.
Read ==
    /\ Expects({"number", "string", "longString", "optional"})
    /\ LET at == IF good THEN position ELSE Len(stream)
           read == ReadItem(written[Len(got) + 1].of, at)
       IN  /\ got' = Append(got, read)
           /\ position' = read.at
           /\ good' = (good /\ read.told = "value" /\ read.at <= Len(stream))
    /\ UNCHANGED <<pc, stream, written>>

\* Skip, of a number.  seekg goes beyond the end of a file without an error, but
\* not beyond that of a string, and an istream that is not good does not move: it
\* throws nothing.  A function is read.
Skip ==
    /\ Expects({"number"})
    /\ \/ /\ good /\ (pc = "istream" \/ Whole(position, sizeof_T))
          /\ position' = position + sizeof_T
          /\ got' = Append(got, [told |-> "skipped", at |-> position'])
          /\ UNCHANGED good
       \/ /\ ~(good /\ Whole(position, sizeof_T))
          /\ got' = Append(got, IF pc = "function" THEN Throws(position)
                                ELSE [told |-> "skipped", at |-> position])
          /\ good' = FALSE
          /\ UNCHANGED position
    /\ UNCHANGED <<pc, stream, written>>

Next ==
    \/ \E item \in Items : Write(item)
    \/ EndWriting
    \/ Read \/ Skip

Spec == Init /\ [][Next]_vars

-----------------------------------------------------------------------------
\* The bytes that an object has when none of its characters are lost.
Entire(item) ==
    IF item.of = "longString" THEN CountBytes(Len(item.value)) \o item.value
    ELSE Bytes(item)

\* Where the object i ends in a stream of entire objects.
End(i) == FoldLeft(+, 0, [j \in 1 .. i |-> Len(Entire(written[j]))])

\* A string that has more characters than an int has values.
Wraps(item) == item.of = "longString" /\ Len(item.value) >= Range_signed

\* Every object that is still in the stream is read as it was written, whatever
\* was written around it.  An object that is not there any more, or that was never
\* there, whole or in part, never passes for one: the read throws, or the istream
\* is no longer good.  That is so of a string that has more characters than half
\* the ints, but not of one that has more than there are ints.
ReadsWhatWasWritten ==
    (\A i \in DOMAIN written : ~Wraps(written[i])) =>
        \A i \in DOMAIN got :
            IF End(i) <= Len(stream)
            THEN \/ got[i].told = "skipped"
                 \/ got[i].told = "value" /\ got[i].value = written[i].value
            ELSE got[i].told \in {"threw", "skipped"} \/ (pc = "istream" /\ ~good)
============================================================================
