--------------------------- MODULE ValueUtilities ---------------------------
(***************************************************************************)
(* What carries and converts values, with its state where it has one, and   *)
(* what is said of it for every value of the constants: a clock, a stream of *)
(* objects, conversions, byte order and formatting.                          *)
(***************************************************************************)
EXTENDS Integers, Sequences

-----------------------------------------------------------------------------
(* time_value.cpp: GetNow never goes back. *)

CONSTANTS Second, Microsecond, MaxTime, MaxStep, MantissaDigits

VARIABLES steady, system, monotonicOffset_, reading, ready, now
clock == <<steady, system, monotonicOffset_, reading, ready, now>>

C == INSTANCE TimeValue WITH Digits <- MantissaDigits

\* time_value.cpp: of two times that GetNow told, the later is not less.
NeverBack == C!NeverBack

\* When the program constructs its clock, more time has passed since 1970 than
\* since the machine was started.
SystemAhead == Second \in Nat /\ MaxTime \in Nat /\ MaxStep \in Nat /\ MaxTime <= Second

\* A second has a whole number of microseconds.
TimeUnits ==
    /\ Microsecond \in Nat \ {0} /\ Second \in Nat \ {0}
    /\ \E n \in 1 .. Second : Second = Microsecond * n

-----------------------------------------------------------------------------
(* binary_io_impl.h: objects in a stream. *)

CONSTANTS Range_uint8, Range_signed, NumberBytes, StringBytes, sizeof_Number,
          sizeof_CountType, MaxItems

VARIABLES streaming, stream, written, position, good, got
binaryIo == <<streaming, stream, written, position, good, got>>

I == INSTANCE BinaryIo
        WITH pc <- streaming, Number <- NumberBytes, Text <- StringBytes,
             sizeof_T <- sizeof_Number

\* binary_io_impl.h: a reader gets what the writer wrote.
ReadsWhatWasWritten == I!ReadsWhatWasWritten

\* A byte tells no from yes, there are ints, and no type has the size 0.
StreamSizes ==
    /\ Range_uint8 \in Nat /\ Range_uint8 > 1 /\ Range_signed \in Nat \ {0}
    /\ sizeof_Number \in Nat \ {0} /\ sizeof_CountType \in Nat \ {0}
    /\ NumberBytes \subseteq [1 .. sizeof_Number -> 0 .. Range_uint8 - 1]
    /\ StringBytes \subseteq Seq(0 .. Range_uint8 - 1)

-----------------------------------------------------------------------------
(* overflow.h, multiply_rounded.h: conversions between arithmetic types. *)

CONSTANTS ScaleUnit, NaN

V == INSTANCE Conversions WITH Digits <- MantissaDigits, Unit <- ScaleUnit

\* A floating-point type has a mantissa, and a NaN is no number.
FloatingTypes == MantissaDigits \in Nat /\ ScaleUnit \in Nat \ {0} /\ NaN \notin Int

\* Integral types, of any width.
IntegralTypes == [signed : BOOLEAN, bits : Nat \ {0}]

-----------------------------------------------------------------------------
(* endian_tools.h, formatter.h: bytes in another order, texts by printf. *)

CONSTANTS ROW_WIDTH, NUL

Y == INSTANCE EndianTools
X == INSTANCE Formatting

-----------------------------------------------------------------------------
ASSUME ValueSizes == SystemAhead /\ TimeUnits /\ StreamSizes /\ FloatingTypes
=============================================================================
