----------------------------- MODULE EndianTools -----------------------------
(***************************************************************************)
(* jive/endian_tools.h.  A value is the sequence of its bytes in memory; a *)
(* host and a format are "big" or "little".  A range is a part of a        *)
(* memory, first .. last - 1.                                              *)
(***************************************************************************)
EXTENDS Integers, Sequences, SequencesExt

CONSTANT Range_uint8    \* values of a byte, 256

\* The number that a value is on a host.
Number(value, host) ==
    FoldLeft(LAMBDA n, byte : Range_uint8 * n + byte, 0,
             IF host = "big" THEN value ELSE Reverse(value))

\* EndianTest
HostIsBigEndian(host) == Number(<<1, 0, 0, 0>>, host) = 4096

ReverseByteOrder(value) == Reverse(value)

\* The functions of <endian.h> for two, four and eight bytes, such as htobe32.
\* Those to and from a format do the same.
Swap(value, format, host) ==
    IF format = host THEN value
    ELSE [i \in DOMAIN value |-> value[Len(value) + 1 - i]]

\* The conversions of integers; those of one byte stay.
Integral(value, format, host) ==
    IF Len(value) = 1 THEN value ELSE Swap(value, format, host)

LittleEndianToHost(value, host) == Integral(value, "little", host)
BigEndianToHost(value, host) == Integral(value, "big", host)
HostToLittleEndian(value, host) == Integral(value, "little", host)
HostToBigEndian(value, host) == Integral(value, "big", host)

\* The conversions of floating-point values, in either direction.
Floating(value, format, host) ==
    IF format = host THEN value ELSE ReverseByteOrder(value)

\* The function objects: what to convert to or from which format.
Operation == [to : BOOLEAN, format : {"big", "little"}, floating : BOOLEAN]

Apply(operation, value, host) ==
    CASE operation.floating -> Floating(value, operation.format, host)
      [] ~operation.floating /\ operation.format = "big" ->
            IF operation.to THEN HostToBigEndian(value, host)
            ELSE BigEndianToHost(value, host)
      [] ~operation.floating /\ operation.format = "little" ->
            IF operation.to THEN HostToLittleEndian(value, host)
            ELSE LittleEndianToHost(value, host)

\* std::copy, for ranges it is defined for.
copy(memory, first, last, out) ==
    [i \in DOMAIN memory |->
        IF i \in out .. out + last - first - 1 THEN memory[first + i - out]
        ELSE memory[i]]

\* One element after the other, from the first; what a step wrote, a later step
\* may read.
RangeSwap(operation, memory, first, last, out, host) ==
    IF \A i \in DOMAIN memory : Len(memory[i]) = 1
    THEN IF out # first THEN copy(memory, first, last, out) ELSE memory
    ELSE LET swapped[i \in 0 .. last - first] ==
                IF i = 0 THEN memory
                ELSE [swapped[i - 1] EXCEPT ![out + i - 1] =
                        Apply(operation, swapped[i - 1][first + i - 1], host)]
         IN  swapped[last - first]

\* HostToBigEndian and its like, for ranges.
Convert(operation, memory, first, last, out, host) ==
    IF operation.format = host
    THEN IF out # first THEN copy(memory, first, last, out) ELSE memory
    ELSE RangeSwap(operation, memory, first, last, out, host)

\* ... and for arrays: all of input to all of output, which may be input.
ConvertArray(operation, input, host) ==
    Convert(operation, input, 1, Len(input) + 1, 1, host)

-----------------------------------------------------------------------------
\* What one host writes in a format another reads, whatever hosts they are, as
\* the same numbers: when it converts a range to another place, which may
\* overlap as far as std::copy allows, and the reader converts in place.  The
\* rest of the memory is left alone.
NumbersTravel(memory, first, last, out, format, floating, sender, receiver) ==
    LET to == [to |-> TRUE, format |-> format, floating |-> floating]
        sent == Convert(to, memory, first, last, out, sender)
        wire == SubSeq(sent, out, out + last - first - 1)
        got == ConvertArray([to EXCEPT !.to = FALSE], wire, receiver)
    IN  out \notin first + 1 .. last - 1 /\ out + last - first - 1 <= Len(memory) =>
            /\ \A i \in DOMAIN got :
                Number(got[i], receiver) = Number(memory[first + i - 1], sender)
            /\ \A i \in DOMAIN memory \ (out .. out + last - first - 1) :
                sent[i] = memory[i]
=============================================================================
