--------------------------- MODULE AveragingWindow ---------------------------
(***************************************************************************)
(* jive/averaging_window.h, jive/integer_window.h.  A window over the last *)
(* elementCount values of an unsigned type T and their sum, which is never *)
(* computed anew but kept up to date.                                      *)
(***************************************************************************)
EXTENDS Integers, Sequences, SequencesExt, FiniteSetsExt, Functions

CONSTANTS
    elementCount,
    Range_T,    \* values of T, 2^bits: sum_ is computed modulo this
    Element     \* the values that callers add

VARIABLES
    sum_, index_, elements_, isFull_,   \* the members
    recent,     \* history: the window as it should be, the oldest first
    added       \* history: values added since the start or Reset, at most
                \* elementCount

vars == <<sum_, index_, elements_, isFull_, recent, added>>

Places == 0 .. elementCount - 1
Total(values) == FoldLeft(+, 0, values)

Filled(value) ==
    /\ elements_ = [i \in Places |-> value]
    /\ index_ = 0
    /\ recent = [i \in 1 .. elementCount |-> value]

\* The two constructors; the second fills the window.
Init ==
    \/ Filled(0) /\ sum_ = 0 /\ isFull_ = FALSE /\ added = 0
    \/ \E initialValue \in Element :
        /\ Filled(initialValue)
        /\ sum_ = (initialValue * elementCount) % Range_T
        /\ isFull_ = TRUE /\ added = elementCount

\* CheckIsFull_, after the index was advanced.
CheckIsFull(next) == isFull_ \/ next = 0

\* Mutant of Replaced: what is added first is counted twice.
KeptOldest(element) == (sum_ + element) % Range_T

\* The sum without the element that is about to be replaced, with the new one.
Replaced(element) == (sum_ - elements_[index_] + element) % Range_T

AddElement(element) ==
    LET next == (index_ + 1) % elementCount IN
    /\ sum_' = Replaced(element)
    /\ elements_' = [elements_ EXCEPT ![index_] = element]
    /\ index_' = next
    /\ isFull_' = CheckIsFull(next)
    /\ recent' = Append(Tail(recent), element)
    /\ added' = Min({added + 1, elementCount})

Reset ==
    /\ sum_' = 0 /\ index_' = 0 /\ isFull_' = FALSE
    /\ elements_' = [i \in Places |-> 0]
    /\ recent' = [i \in 1 .. elementCount |-> 0]
    /\ added' = 0

Next == Reset \/ \E element \in Element : AddElement(element)

Spec == Init /\ [][Next]_vars

-----------------------------------------------------------------------------
\* GetAverage; IntegerWindow shifts right, elementCount being a power of two.
GetAverage == sum_ \div elementCount

GetMinimum == Min(Range(elements_))
GetMaximum == Max(Range(elements_))

\* After any number of rounds and resets the answers are those of the last
\* elementCount values: the average, as long as their sum fits into T, even
\* when it did not in between; the extremes; and whether so many were added.
WindowIsRecent ==
    /\ Total(recent) < Range_T => GetAverage = Total(recent) \div elementCount
    /\ GetMinimum = Min(Range(recent))
    /\ GetMaximum = Max(Range(recent))
    /\ isFull_ <=> added = elementCount
=============================================================================
