----------------------------- MODULE TimeValue -----------------------------
(***************************************************************************)
(* jive/time_value.h, jive/time_value.cpp.  A TimeValue is a count of      *)
(* nanoseconds.  GetNow is the steady clock plus what it was behind the    *)
(* system clock when the program started, so that nobody who sets the      *)
(* system clock disturbs it.  Digits are those of a double.                *)
(***************************************************************************)
EXTENDS FloatingPoint, Sequences

CONSTANTS
    Second, Microsecond,    \* in nanoseconds
    MaxTime,                \* bound on the clocks
    MaxStep                 \* bound on how far the system clock is set

VARIABLES
    steady, system,     \* the clocks
    monotonicOffset_,   \* zero before its constructor ran
    reading,            \* what the constructor has read of the first clock
    ready,              \* the constructor has returned
    now                 \* history: what GetNow told, the last two times

vars == <<steady, system, monotonicOffset_, reading, ready, now>>
Unread == [clock |-> "none", time |-> 0]

-----------------------------------------------------------------------------
(* Conversions *)

\* C++ division and remainder round towards zero.
Quotient(a, b) == IF a < 0 THEN -(Abs(a) \div b) ELSE a \div b
Remainder(a, b) == a - b * Quotient(a, b)

\* A remainder is divided as a double, too, but it is less than a second: there
\* the quotient rounds as the exact one does, which KeepsCounts checks.
Microseconds(n) == Rounded(n, Microsecond)

GetAsTimeval(t) ==
    [tv_sec |-> Quotient(t, Second),
     tv_usec |-> Microseconds(Remainder(t, Second))]

GetAsTimespec(t) ==
    [tv_sec |-> Quotient(t, Second), tv_nsec |-> Remainder(t, Second)]

\* Duration<double>(nanoseconds_): the count becomes a double, and is divided.
Counted(t, unit) ==
    LET quotient == NearestQuotient(Nearest(t), unit)
    IN  Rounded(quotient.over, quotient.under)

\* GetAsSeconds<time_t> and GetAsMicroseconds<int64_t>
GetAsSeconds(t) == Counted(t, Second)
GetAsMicroseconds(t) == Counted(t, Microsecond)

\* GetAsIso8601Precise: the seconds, written as a date, and the first
\* decimalCount of the digits of the nanoseconds; here all or none of those
\* below a microsecond.
GetAsIso8601Precise(t, all) ==
    LET ts == GetAsTimespec(t)
    IN  <<ts.tv_sec,
          IF all THEN ts.tv_nsec
          ELSE Microsecond * (ts.tv_nsec \div Microsecond)>>

\* operator+ and operator-, which change a copy.
Plus(t, other) == t + other
Minus(t, other) == t - other
Less(t, other) == t < other

-----------------------------------------------------------------------------
(* The clock *)

Init ==
    /\ steady = 0
    /\ system \in Second .. Second + 1
    /\ monotonicOffset_ = 0
    /\ reading = Unread /\ ready = FALSE
    /\ now = <<0, 0>>

Tick ==
    /\ steady < MaxTime
    /\ steady' = steady + 1 /\ system' = system + 1
    /\ UNCHANGED <<monotonicOffset_, reading, ready, now>>

\* Somebody sets the system clock.
SetSystemClock ==
    /\ \E step \in -MaxStep .. MaxStep :
        /\ system + step \in Second .. Second + MaxTime + MaxStep
        /\ system' = system + step
    /\ UNCHANGED <<steady, monotonicOffset_, reading, ready, now>>

\* MonotonicSystemClock() reads one clock and then the other, in an order that
\* the compiler chooses.
ReadClock ==
    /\ ~ready /\ reading = Unread
    /\ \/ reading' = [clock |-> "system", time |-> system]
       \/ reading' = [clock |-> "steady", time |-> steady]
    /\ UNCHANGED <<steady, system, monotonicOffset_, ready, now>>

Construct ==
    /\ ~ready /\ reading # Unread
    /\ monotonicOffset_' = IF reading.clock = "system"
                           THEN reading.time - steady ELSE system - reading.time
    /\ ready' = TRUE
    /\ UNCHANGED <<steady, system, reading, now>>

\* Mutant of Now: the system clock itself.
SystemNow == system
Now == Plus(steady, monotonicOffset_)

\* GetNow and SetToNow, also from constructors of other translation units,
\* which may run before this one.
GetNow ==
    /\ now' = <<now[2], Now>>
    /\ UNCHANGED <<steady, system, monotonicOffset_, reading, ready>>

Next == Tick \/ SetSystemClock \/ ReadClock \/ Construct \/ GetNow

Spec == Init /\ [][Next]_vars

-----------------------------------------------------------------------------
\* GetInterval is never negative: of two times that GetNow told the later one
\* is at least the earlier, although the system clock is set in the meantime
\* and whether or not the clock had been constructed.
NeverBack == ~Less(Minus(now[2], now[1]), 0)

\* Both forms stand for the time, that of a timeval for the nearest
\* microsecond, before 1970 too; it has fewer microseconds than a second has,
\* except within half a microsecond of the next; and a precise text orders two
\* times since 1970 as they are.
KeepsTime(t, other) ==
    LET tv == GetAsTimeval(t)
        ts == GetAsTimespec(t)
        text(time, all) == GetAsIso8601Precise(time, all)
        earlier(a, b) == a[1] < b[1] \/ (a[1] = b[1] /\ a[2] < b[2])
    IN  /\ ts.tv_sec * Second + ts.tv_nsec = t
        /\ 2 * Abs(tv.tv_sec * Second + tv.tv_usec * Microsecond - t) <= Microsecond
        /\ \/ Abs(tv.tv_usec) < Second \div Microsecond
           \/ 2 * (Second - Abs(Remainder(t, Second))) <= Microsecond
        /\ t >= 0 /\ other >= 0 =>
            /\ Less(t, other) <=> earlier(text(t, TRUE), text(other, TRUE))
            /\ Less(t, other) => ~earlier(text(other, FALSE), text(t, FALSE))

\* Counts of seconds and of microseconds go through a double.  While that has
\* the digits of the nanoseconds, as it does of what is less than a second, they
\* are the nearest ones, and a timeval has as many microseconds.  Later they
\* are, but for what two roundings to the mantissa lose; and a later time is
\* never told to be less.
KeepsCounts(t, other) ==
    LET tv == GetAsTimeval(t)
        exact == Abs(t) <= TwoTo(Digits)
        near(unit) ==
            LET count == Counted(t, unit)
            IN  /\ exact => count = Rounded(t, unit)
                /\ TwoTo(2 * Digits) * (2 * Abs(unit * count - t) - unit)
                        <= 2 * Abs(t) * (2 * TwoTo(Digits) + 1)
    IN  /\ near(Second) /\ near(Microsecond)
        /\ exact => tv.tv_sec * (Second \div Microsecond) + tv.tv_usec
                        = GetAsMicroseconds(t)
        /\ t <= other =>
            /\ GetAsSeconds(t) <= GetAsSeconds(other)
            /\ GetAsMicroseconds(t) <= GetAsMicroseconds(other)
============================================================================
