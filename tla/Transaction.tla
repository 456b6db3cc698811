---------------------------- MODULE Transaction ----------------------------
(***************************************************************************)
(* jive/transaction.h, jive/detail/transaction_detail.h.  A transaction    *)
(* performs operations and keeps, on a std::vector of Operation objects,   *)
(* the function that undoes each.  The destructor of an Operation calls    *)
(* its function, so that whatever destroys one (the end of the scope, a    *)
(* reallocation of the vector, an exception) undoes the operation unless   *)
(* the function was moved away or replaced.                                *)
(*                                                                         *)
(* A function to undo is the operation it undoes.  It is written for the   *)
(* state its operation left behind: run at any other time it restores      *)
(* nothing.  The function that does an operation may use the transaction.  *)
(*                                                                         *)
(* Functions are copied, also by the move constructor, and each copy of    *)
(* one that undoes something may throw.  Elements are copied in their      *)
(* order and destroyed in it when one of them throws, as libstdc++ does.   *)
(***************************************************************************)
EXTENDS Naturals, FiniteSets, Sequences, SequencesExt

CONSTANTS
    Op,     \* the operations callers ask for, each once
    NoOp    \* the function that does nothing, [] {}

VARIABLES
    alive,      \* the transaction is in scope
    stack,      \* operationStack_: the undoOperation_ of each element
    capacity,   \* elements the vector has memory for
    doing,      \* operations whose doOperation is on the call stack
    effects,    \* operations in effect, the youngest last
    kept,       \* history: those that a Commit made lasting, the youngest last
    broken      \* history: a copy threw that lost a function or called it early

vars == <<alive, stack, capacity, doing, effects, kept, broken>>

TypeOK ==
    /\ alive \in BOOLEAN
    /\ stack \in Seq(Op \cup {NoOp}) /\ Len(stack) <= capacity
    /\ capacity \in Nat
    /\ doing \in Seq(Op)
    /\ effects \in Seq(Op)
    /\ kept \in Seq(Op)
    /\ broken \in BOOLEAN

Init ==
    /\ alive = TRUE
    /\ stack = <<>> /\ capacity = 0
    /\ doing = <<>>
    /\ effects = <<>> /\ kept = <<>>
    /\ broken = FALSE

Used == Range(doing) \cup Range(effects)

-----------------------------------------------------------------------------
(* Functions that destructors call, one after the other. *)

\* Calling undo restores what the youngest operation in effect changed.  Out
\* of order it changes something else, which the model records as one more
\* effect.
Undo(done, undo) ==
    IF undo = NoOp THEN done
    ELSE IF done # <<>> /\ Last(done) = undo THEN Front(done)
    ELSE Append(done, undo)

\* The move constructor copies the function and leaves a no-op behind.
StillThere(operation) == operation  \* mutant: leaves the function behind
LeftBehind(operation) == NoOp

\* push_back of a temporary: the temporary is moved and, when there is no room
\* for one more, so is every element.  What they were moved from is destroyed.
Abandoned(o) ==
    LET Moved == IF Len(stack) = capacity THEN Append(stack, o) ELSE <<o>>
    IN  [i \in DOMAIN Moved |-> LeftBehind(Moved[i])]

\* std::vector doubles its memory.
Grown == IF Len(stack) < capacity THEN capacity
         ELSE IF capacity = 0 THEN 1 ELSE 2 * capacity

-----------------------------------------------------------------------------
\* operator() constructs an Operation, which calls doOperation.
Perform(o) ==
    /\ alive /\ o \notin Used
    /\ doing' = Append(doing, o)
    /\ UNCHANGED <<alive, stack, capacity, effects, kept, broken>>

\* doOperation returns: the Operation keeps undoOperation and is pushed.
Store ==
    /\ doing # <<>>
    /\ LET o == Last(doing) IN
       /\ stack' = Append(stack, o)
       /\ capacity' = Grown
       /\ effects' = FoldLeft(Undo, Append(effects, o), Abandoned(o))
    /\ doing' = Front(doing)
    /\ UNCHANGED <<alive, kept, broken>>

\* doOperation returns, but no copy of undoOperation can be made: the Operation
\* was never constructed, and nothing undoes what was done.
CopyThrows ==
    /\ doing # <<>>
    /\ effects' = Append(effects, Last(doing))
    /\ doing' = Front(doing)
    /\ broken' = TRUE
    /\ UNCHANGED <<alive, stack, capacity, kept>>

\* push_back finds no memory, or no copy of the temporary's function can be
\* made: the temporary is destroyed, and with it the operation undone.
StoreThrows ==
    /\ doing # <<>>
    /\ LET o == Last(doing)
       IN  effects' = Undo(Append(effects, o), o)
    /\ doing' = Front(doing)
    /\ UNCHANGED <<alive, stack, capacity, kept, broken>>

\* The vector grows, and the function of an element cannot be copied: the
\* elements before it, which have moved, are destroyed, and then the new one.
\* What they were moved from stays on the stack.
GrowthThrows ==
    /\ doing # <<>> /\ Len(stack) = capacity
    /\ \E i \in DOMAIN stack :
        /\ stack[i] # NoOp
        /\ LET o == Last(doing)
               Moved == SubSeq(stack, 1, i - 1)
           IN  /\ effects' = Undo(FoldLeft(Undo, Append(effects, o), Moved), o)
               /\ broken' = (broken \/ \E j \in 1 .. i - 1 : stack[j] # NoOp)
        /\ stack' = [j \in DOMAIN stack |->
                        IF j < i THEN LeftBehind(stack[j]) ELSE stack[j]]
    /\ doing' = Front(doing)
    /\ UNCHANGED <<alive, capacity, kept>>

\* doOperation throws: the Operation was never constructed.
DoThrows ==
    /\ doing # <<>>
    /\ doing' = Front(doing)
    /\ UNCHANGED <<alive, stack, capacity, effects, kept, broken>>

\* Commit replaces every function by a no-op.
Replaced == [i \in 1 .. Len(stack) |-> NoOp]

Commit ==
    /\ alive
    /\ stack' = Replaced
    /\ kept' = effects
    /\ UNCHANGED <<alive, capacity, doing, effects, broken>>

\* The end of the scope, by an exception or not: the destructor runs once no
\* operation is under way, and pops the elements.
LeaveScope ==
    /\ alive /\ doing = <<>>
    /\ alive' = FALSE
    /\ UNCHANGED <<stack, capacity, doing, effects, kept, broken>>

PopBack ==
    /\ ~alive /\ stack # <<>>
    /\ stack' = Front(stack)
    /\ effects' = Undo(effects, Last(stack))
    /\ UNCHANGED <<alive, capacity, doing, kept, broken>>

Next ==
    \/ \E o \in Op : Perform(o)
    \/ Store \/ CopyThrows \/ StoreThrows \/ GrowthThrows \/ DoThrows
    \/ Commit
    \/ LeaveScope \/ PopBack

Spec == Init /\ [][Next]_vars

-----------------------------------------------------------------------------
\* The operations that are still to be undone, as the stack has them.
Pending ==
    LET Undoing == {i \in DOMAIN stack : stack[i] # NoOp}
        Rank(i) == Cardinality({j \in Undoing : j <= i})
    IN  [n \in 1 .. Cardinality(Undoing) |->
            stack[CHOOSE i \in Undoing : Rank(i) = n]]

\* What is in effect is what a Commit made lasting, followed by exactly the
\* operations that the destructor is going to undo, in the order in which it
\* will find them.  Nothing is undone early (when the vector moves its
\* elements), twice, out of order or, after a failure, not at all; and once
\* the scope is left only what was committed is in effect.  That ends when a
\* function cannot be copied behind its operation, or in a growth behind
\* another one.  Even then no function is called twice, and what will be
\* undone is in effect.
RollsBack ==
    /\ ~broken => effects = kept \o Pending
    /\ \A i, j \in DOMAIN stack : stack[i] = stack[j] => i = j \/ stack[i] = NoOp
    /\ Range(stack) \subseteq Range(effects) \cup {NoOp}
=============================================================================
