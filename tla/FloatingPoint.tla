--------------------------- MODULE FloatingPoint ---------------------------
(***************************************************************************)
(* jive/power.h and the arithmetic of floating-point types: the nearest    *)
(* number that a mantissa of Digits bits can tell, the even one of two.    *)
(* Exponents are as large as need be, and numbers are counts of a unit     *)
(* that is a power of two.                                                 *)
(***************************************************************************)
EXTENDS Integers

CONSTANT Digits     \* of the mantissa

\* detail::Power, a fold over the index sequence.
Power(base, exponent) ==
    LET power[n \in 0 .. exponent] == IF n = 0 THEN 1 ELSE base * power[n - 1]
    IN  power[exponent]

\* The numbers that so many bits have.
TwoTo(n) == Power(2, n)

Abs(n) == IF n < 0 THEN -n ELSE n

\* std::round of a / b: halves away from zero.
Rounded(a, b) ==
    IF a < 0 THEN -((2 * Abs(a) + b) \div (2 * b)) ELSE (2 * a + b) \div (2 * b)

\* n / unit to the nearest integer, halves to the even one.
HalfEven(n, unit) ==
    LET below == n \div unit
        twice == 2 * (n % unit)
    IN  IF twice > unit \/ (twice = unit /\ below % 2 = 1) THEN below + 1 ELSE below

\* What the last digit of the mantissa of n is worth.
LastDigit(n) ==
    LET Fits(k) == Abs(n) < TwoTo(Digits) * TwoTo(k)
    IN  TwoTo(CHOOSE k \in 0 .. Abs(n) : Fits(k) /\ \A j \in 0 .. k - 1 : ~Fits(j))

\* An integer as a floating-point number.
Nearest(n) == LastDigit(n) * HalfEven(n, LastDigit(n))

\* The quotient of two integers as a floating-point number, a fraction whose
\* denominator is at most 2^(2 * Digits).
NearestQuotient(a, b) ==
    LET Fits(k) == Abs(a) * TwoTo(k) < TwoTo(Digits) * b
        k == CHOOSE k \in 0 .. 2 * Digits :
                (k = 0 \/ Fits(k)) /\ (k < 2 * Digits => ~Fits(k + 1))
    IN  IF Fits(0) THEN [over |-> HalfEven(a * TwoTo(k), b), under |-> TwoTo(k)]
        ELSE LET unit == LastDigit(Abs(a) \div b)
             IN  [over |-> unit * HalfEven(a, b * unit), under |-> 1]
=============================================================================
