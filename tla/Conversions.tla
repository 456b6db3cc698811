---------------------------- MODULE Conversions ----------------------------
(***************************************************************************)
(* jive/overflow.h, jive/multiply_rounded.h.  Types have few bits.  A       *)
(* floating-point number, which is finite or a NaN, is a count of 1 / Unit. *)
(***************************************************************************)
EXTENDS FloatingPoint

CONSTANTS Unit, NaN

Lowest(T) == IF T.signed THEN -TwoTo(T.bits - 1) ELSE 0
Highest(T) == IF T.signed THEN TwoTo(T.bits - 1) - 1 ELSE TwoTo(T.bits) - 1
Values(T) == Lowest(T) .. Highest(T)

\* static_cast between integral types keeps the low bits.
Cast(n, T) ==
    LET low == n % TwoTo(T.bits)
    IN  IF low > Highest(T) THEN low - TwoTo(T.bits) ELSE low

RoundTrips(value, Source, Target) ==
    Cast(Cast(value, Target), Source) = value

\* CheckConvertible, when both types are integral.
CheckConvertible(value, Source, Target) ==
    /\ Source.signed /\ ~Target.signed => value >= 0
    /\ Target.signed /\ ~Source.signed => Cast(value, Target) >= 0
    /\ RoundTrips(value, Source, Target)

-----------------------------------------------------------------------------
(* From floating-point types *)

\* A NaN does not compare.
ExceedsTarget(x, Target) ==
    /\ x # NaN
    /\ \/ x > Unit * Nearest(Highest(Target))
       \/ x < Unit * Nearest(Lowest(Target))

\* RoundIfIntegral with CheckOverflow.  To cast what Target does not have is
\* undefined.
RoundIfIntegral(x, Target) ==
    LET result == Rounded(x, Unit) IN
    IF x = NaN THEN [told |-> "undefined"]
    ELSE IF ExceedsTarget(Unit * result, Target) THEN [told |-> "overflow_error"]
    ELSE IF result \notin Values(Target) THEN [told |-> "undefined"]
    ELSE [told |-> "value", value |-> result]

\* scale is a number that its type has.
MultiplyRounded(scale, value, Target) ==
    RoundIfIntegral(IF scale = NaN THEN NaN ELSE Nearest(scale * Nearest(value)),
                    Target)

-----------------------------------------------------------------------------
\* A value is found convertible exactly when Target has that value, for every
\* pair of widths and signs.
FindsOverflow(value, Source, Target) ==
    CheckConvertible(value, Source, Target) <=> value \in Values(Target)

\* n is the nearest integer to exact / Unit, but for what a rounding to the
\* mantissa loses.
IsNear(n, exact) ==
    TwoTo(Digits) * (2 * Abs(Unit * n - exact) - Unit) <= 2 * Abs(exact)

\* As long as the mantissa is as long as the type, a product comes out as a near
\* integer of the type, and is thrown out only when it is near one beyond the
\* type, or further.  A product that the mantissa has is rounded once.
RoundsOrThrows(scale, value, Target) ==
    LET exact == scale * value
        result == MultiplyRounded(scale, value, Target)
        above == Highest(Target) + 1
        below == Lowest(Target) - 1
    IN  scale # NaN /\ value \in Values(Target) /\ Target.bits <= Digits =>
        /\ IF result.told = "value"
           THEN result.value \in Values(Target) /\ IsNear(result.value, exact)
           ELSE /\ result.told = "overflow_error"
                /\ \/ exact >= Unit * above \/ IsNear(above, exact)
                   \/ exact <= Unit * below \/ IsNear(below, exact)
        /\ Abs(exact) < TwoTo(Digits) => result = RoundIfIntegral(exact, Target)
============================================================================
