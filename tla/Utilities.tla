------------------------------ MODULE Utilities ------------------------------
(***************************************************************************)
(* Objects of the library that do not depend on each other, with their      *)
(* state, and what is said of them for every value of the constants.  Those *)
(* that carry values are in ValueUtilities.                                  *)
(***************************************************************************)
EXTENDS Integers, FiniteSets, Sequences

-----------------------------------------------------------------------------
(* transaction.h: an exception or an early return undoes what was done. *)

CONSTANTS Op, NoOp

VARIABLES alive, stack, capacity, doing, effects, kept, broken
transaction == <<alive, stack, capacity, doing, effects, kept, broken>>

T == INSTANCE Transaction

\* transaction.h: what was done and not committed is undone, the last first,
\* as long as functions can be copied.
RollsBack == T!RollsBack

\* The function that does nothing is none of those that undo something.
NothingElse == NoOp \notin Op

-----------------------------------------------------------------------------
(* scope_flag.h: flags tell whether a scope lives. *)

CONSTANTS Thread, CountFlag, CountRange, MaxDepth, NDEBUG

VARIABLES flag, flagScopes, count, scopes, leaving, terminated
scopeFlag == <<flag, flagScopes, count, scopes, leaving, terminated>>

F == INSTANCE ScopeFlags WITH Range_T <- CountRange

\* scope_flag.h: a flag is set as long as a scope that set it lives.
FlagsTellScopes == F!FlagsTellScopes

\* Threads are finitely many, and the counts of a flag are those of T.
ScopeSizes ==
    /\ IsFiniteSet(Thread)
    /\ CountRange \in Nat \ {0}
    /\ MaxDepth \in Nat

-----------------------------------------------------------------------------
(* insertion_map.h: the map in the order of insertion. *)

CONSTANTS Key, MapValue, Default, MaxIndex

VARIABLES map_, insertionIndex_, returned
insertionMap == <<map_, insertionIndex_, returned>>

M == INSTANCE InsertionMap WITH Value <- MapValue

\* insertion_map.h: each call does to the entries what it does to a list of
\* them, in the order in which their keys were added.
ImplementsOrderedMap == M!ImplementsOrderedMap

\* T() is a T.
DefaultIsValue == Default \in MapValue

-----------------------------------------------------------------------------
(* averaging_window.h: the sum that is kept is that of the window. *)

CONSTANTS elementCount, SumRange, Element

VARIABLES sum_, index_, elements_, isFull_, recent, added
averagingWindow == <<sum_, index_, elements_, isFull_, recent, added>>

W == INSTANCE AveragingWindow WITH Range_T <- SumRange

\* averaging_window.h: the answers are those of the last elementCount values.
WindowIsRecent == W!WindowIsRecent

\* A window has a place, and T is unsigned.
WindowSizes ==
    elementCount \in Nat \ {0} /\ SumRange \in Nat \ {0} /\ Element \subseteq Nat

-----------------------------------------------------------------------------
(* buffer.h: each block has one owner and is freed once. *)

CONSTANTS Object, Block, Null, Counts, sizeof_T, align, SIZE_MAX

VARIABLES live, data_, elementCount_, byteCount_, allocated, corrupted
buffer == <<live, data_, elementCount_, byteCount_, allocated, corrupted>>

B == INSTANCE Buffer WITH Count <- Counts

\* buffer.h: two buffers have no block in common, and none leaks or is too small
\* for elements whose size fits into a size_t.
BlocksOwned == B!BlocksOwned

\* No object is smaller than nothing, and no block is nullptr.
BufferSizes ==
    /\ Counts \subseteq Nat
    /\ sizeof_T \in Nat
    /\ align \in Nat \ {0}
    /\ SIZE_MAX \in Nat
    /\ Null \notin Block

-----------------------------------------------------------------------------
(* path.cpp: what a call tells was so while it ran. *)

CONSTANTS Caller, SystemName, MaxSuffix, MaxChanges

VARIABLES files, errno, call, seen, changes
path == <<files, errno, call, seen, changes>>

P == INSTANCE Paths

\* path.cpp: what a call tells was so at a moment of the call.
CallsTellTheTruth == P!CallsTellTheTruth

\* The suffixes that are tried are bounded.
SuffixesEnd == MaxSuffix \in Nat

-----------------------------------------------------------------------------
(* client.h: what Write tells was sent, in order and once. *)

CONSTANTS Room, ByteCounts, MaxWrites, HasTimeOut

VARIABLES accepted, unread, peerOpen, running, sending, writes
clientWrite == <<accepted, unread, peerOpen, running, sending, writes>>

K == INSTANCE ClientWrite
        WITH stream <- accepted, call <- sending, Sizes <- ByteCounts

\* client.h: the stream is made of the first part of what each call was given,
\* in the order of the calls.
WritesKept == K!WritesKept

\* client.h: with a send time-out each Write ends.
EveryWriteEnds == K!EveryWriteEnds

\* sizeof(T) and byteCounts.
WriteSizes == ByteCounts \subseteq Nat

-----------------------------------------------------------------------------
(* format_paragraph.cpp: words on lines. *)

CONSTANTS WordSizes, MaxWords, Indents, Widths, LineMemory

VARIABLES formatting, paragraph, indent, permittedLineLength,
          wordDeque, lineVector_, totalWordLength_, lines
formatParagraph == <<formatting, paragraph, indent, permittedLineLength,
                     wordDeque, lineVector_, totalWordLength_, lines>>

G == INSTANCE FormatParagraph
        WITH pc <- formatting, text <- paragraph, WordSize <- WordSizes,
             Indent <- Indents, Width <- Widths, Memory <- LineMemory

\* format_paragraph.cpp: words are kept and lines short.
TextFormatted == G!TextFormatted

\* The text is in memory, with a space behind each word, and there is memory
\* for a line for each word and one more.
TextSizes ==
    /\ SIZE_MAX \in Nat /\ MaxWords \in Nat
    /\ Indents \subseteq 0 .. SIZE_MAX
    /\ Widths \subseteq 0 .. SIZE_MAX
    /\ WordSizes \subseteq Nat
    /\ \A size \in WordSizes : MaxWords * (size + 1) <= SIZE_MAX
    /\ LineMemory \in Nat /\ LineMemory > MaxWords

-----------------------------------------------------------------------------
ASSUME UtilitySizes ==
    /\ NothingElse /\ ScopeSizes /\ DefaultIsValue /\ WindowSizes /\ BufferSizes
    /\ SuffixesEnd /\ WriteSizes /\ TextSizes
=============================================================================
