------------------------------ MODULE Strings ------------------------------
(***************************************************************************)
(* jive/strings.h, jive/detail/strings_impl.h, detail/strings_detail.h.    *)
(* A string is a sequence of characters.                                   *)
(***************************************************************************)
EXTENDS Integers, Sequences, SequencesExt, FiniteSetsExt

\* What Trim removes when the caller does not say, and what isspace tells of a
\* character; "VT" is the vertical tab.
WhiteSpace == {" ", "\t", "\r", "\n"}
isspace == WhiteSpace \cup {"\f", "VT"}
Digits == {"0", "1", "2", "3", "4", "5", "6", "7", "8", "9"}

\* std::string::find: where token occurs at or after position.
Occurrences(input, token, position) ==
    {i \in position .. Len(input) - Len(token) + 1 :
        SubSeq(input, i, i + Len(token) - 1) = token}

\* Mutant of After: the search goes on one character further.
AfterNext(index, token) == index + 1
After(index, token) == index + Len(token)

\* SplitToContainer, for a token of at least one character; limit = -1 is none.
\* A place is where the search goes on, and how many pieces there are.
Split(input, token, limit) ==
    LET split[place \in (1 .. Len(input) + 1) \X Nat] ==
            LET found == Occurrences(input, token, place[1]) IN
            IF place[2] = limit \/ found = {}
            THEN <<SubSeq(input, place[1], Len(input))>>
            ELSE <<SubSeq(input, place[1], Min(found) - 1)>>
                    \o split[<<After(Min(found), token), place[2] + 1>>]
    IN  split[<<1, 0>>]

\* SplitOnWhiteSpace
SplitOnWhiteSpace(input) ==
    LET first(from, S) == {i \in from .. Len(input) : input[i] \in S}
        Black == {input[i] : i \in DOMAIN input} \ isspace
        split[it \in 1 .. Len(input) + 1] ==
            LET spaces == first(it, isspace) IN
            IF spaces = {} THEN <<SubSeq(input, it, Len(input))>>
            ELSE LET next == first(Min(spaces), Black) IN
                 <<SubSeq(input, it, Min(spaces) - 1)>>
                    \o (IF next = {} THEN << <<>> >> ELSE split[Min(next)])
    IN  split[1]

\* Join
Join(strings, token) ==
    IF strings = <<>> THEN <<>>
    ELSE FoldLeft(LAMBDA result, s : result \o token \o s,
                  Head(strings), Tail(strings))

\* Trim
Trim(inString, remove) ==
    LET keep == {i \in DOMAIN inString : inString[i] \notin remove}
    IN  IF keep = {} THEN <<>> ELSE SubSeq(inString, Min(keep), Max(keep))

\* ResizeToStrlen and Make: up to the first null character.
ResizeToStrlen(inString, null) ==
    LET nulls == {i \in DOMAIN inString : inString[i] = null}
    IN  IF nulls = {} THEN inString ELSE SubSeq(inString, 1, Min(nulls) - 1)

AllOfDigits(s) == \A i \in DOMAIN s : s[i] \in Digits

-----------------------------------------------------------------------------
\* Join is the complementary function to Split: it restores every input, for
\* every token and limit.  Every piece but the one that limit left unsplit is
\* free of the token, and there are at most limit + 1 pieces.
JoinRestores(input, token, limit) ==
    LET pieces == Split(input, token, limit) IN
    /\ Join(pieces, token) = input
    /\ \A i \in DOMAIN pieces :
        \/ Occurrences(pieces[i], token, 1) = {}
        \/ i = limit + 1
    /\ limit # -1 => Len(pieces) <= limit + 1

\* Splitting on white space loses nothing else, and keeps an empty piece for
\* white space at the start and at the end and nowhere else.
SplitsWords(input) ==
    LET pieces == SplitOnWhiteSpace(input)
        black == SelectSeq(input, LAMBDA c : c \notin isspace)
    IN  /\ FlattenSeq(pieces) = black
        /\ \A i \in 2 .. Len(pieces) - 1 : pieces[i] # <<>>
        /\ Head(pieces) = <<>> <=> input = <<>> \/ Head(input) \in isspace
        /\ Trim(Join(pieces, <<" ">>), WhiteSpace)
                = Join(SplitOnWhiteSpace(Trim(input, isspace)), <<" ">>)
=============================================================================
