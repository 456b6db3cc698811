----------------------------- MODULE ScopeFlags -----------------------------
(***************************************************************************)
(* jive/scope_flag.h.  A ScopeFlag holds a plain flag set while its scope  *)
(* lasts; the calls nest within one thread.  CountFlags are counters that  *)
(* the scopes of several threads (ScopedCountFlag) hold above zero: each   *)
(* access of the atomic count_ is a step.                                  *)
(***************************************************************************)
EXTENDS Naturals, Sequences, SequencesExt, FiniteSets

CONSTANTS
    Thread,
    CountFlag,  \* the CountFlag objects
    Range_T,    \* values of T, 2^bits: count_ is computed modulo this
    MaxDepth,   \* bound: scopes that one thread nests
    NDEBUG      \* the build leaves ScopeFlag's check out

VARIABLES
    flag,       \* the flag that ScopeFlags refer to
    flagScopes, \* ScopeFlag objects that live
    count,      \* count[f]: count_
    scopes,     \* scopes[t]: the flags of the ScopedCountFlags of thread t
    leaving,    \* threads between the check and the decrement of operator--
    terminated  \* an exception left a destructor

vars == <<flag, flagScopes, count, scopes, leaving, terminated>>

Init ==
    /\ flag = FALSE /\ flagScopes = 0
    /\ count = [f \in CountFlag |-> 0]
    /\ scopes = [t \in Thread |-> <<>>]
    /\ leaving = {}
    /\ terminated = FALSE

\* How many ScopedCountFlags there are of f: each has a thread and a place.
Open(f) ==
    Cardinality({p \in Thread \X (1 .. MaxDepth) :
                    p[2] <= Len(scopes[p[1]]) /\ scopes[p[1]][p[2]] = f})

-----------------------------------------------------------------------------
(* ScopeFlag *)

\* In debug builds the constructor throws when the flag is set: there is no
\* ScopeFlag then, and nothing that would clear the flag.
EnterFlag ==
    /\ ~terminated /\ flagScopes < MaxDepth
    /\ IF flag /\ ~NDEBUG
       THEN UNCHANGED <<flag, flagScopes>>
       ELSE flag' = TRUE /\ flagScopes' = flagScopes + 1
    /\ UNCHANGED <<count, scopes, leaving, terminated>>

LeaveFlag ==
    /\ ~terminated /\ flagScopes > 0
    /\ flag' = FALSE
    /\ flagScopes' = flagScopes - 1
    /\ UNCHANGED <<count, scopes, leaving, terminated>>

-----------------------------------------------------------------------------
(* CountFlag and ScopedCountFlag *)

\* operator++.  There are always fewer scopes than T can count.
Enter(t, f) ==
    /\ ~terminated /\ t \notin leaving
    /\ Len(scopes[t]) < MaxDepth
    /\ Open(f) + 1 < Range_T
    /\ count' = [count EXCEPT ![f] = (@ + 1) % Range_T]
    /\ scopes' = [scopes EXCEPT ![t] = Append(@, f)]
    /\ UNCHANGED <<flag, flagScopes, leaving, terminated>>

\* ~ScopedCountFlag: operator-- looks at the count first.  What it throws
\* leaves a destructor, so that the program ends.
Leave(t) ==
    /\ ~terminated /\ t \notin leaving /\ scopes[t] # <<>>
    /\ IF count[Last(scopes[t])] = 0
       THEN terminated' = TRUE /\ UNCHANGED leaving
       ELSE leaving' = leaving \cup {t} /\ UNCHANGED terminated
    /\ UNCHANGED <<flag, flagScopes, count, scopes>>

Decrement(t) ==
    /\ ~terminated /\ t \in leaving
    /\ count' = [count EXCEPT ![Last(scopes[t])] = (@ + Range_T - 1) % Range_T]
    /\ scopes' = [scopes EXCEPT ![t] = Front(@)]
    /\ leaving' = leaving \ {t}
    /\ UNCHANGED <<flag, flagScopes, terminated>>

\* Mutant of CopiedCount: a copy with the scopes of the other.
CopiedFromOther(f) == count[f]

\* The count a copy of f starts with: scopes refer to the flag they entered.
CopiedCount(f) == 0

\* operator=(const CountFlag &), on a flag that no scope refers to.
Assign(f, g) ==
    /\ ~terminated /\ f # g /\ Open(f) = 0
    /\ count' = [count EXCEPT ![f] = CopiedCount(g)]
    /\ UNCHANGED <<flag, flagScopes, scopes, leaving, terminated>>

Next ==
    \/ EnterFlag \/ LeaveFlag
    \/ \E t \in Thread :
        \/ \E f \in CountFlag : Enter(t, f)
        \/ Leave(t) \/ Decrement(t)
    \/ \E f, g \in CountFlag : Assign(f, g)

Spec == Init /\ [][Next]_vars

-----------------------------------------------------------------------------
\* Each flag tells whether a scope of its is open, whichever threads enter
\* and leave in whichever order, after copies, and after a ScopeFlag was
\* refused; and no destructor finds a count of zero.
FlagsTellScopes ==
    /\ flag <=> flagScopes > 0
    /\ \A f \in CountFlag : count[f] = Open(f)
    /\ ~terminated
=============================================================================
