-------------------------- MODULE FormatParagraph --------------------------
(***************************************************************************)
(* jive/format_paragraph.cpp.  The text is split on single spaces, and its *)
(* words are put on lines that are no longer than permitted.  A word that  *)
(* ends with a newline ends its line.                                      *)
(***************************************************************************)
EXTENDS Integers, Sequences, SequencesExt

CONSTANTS
    WordSize,       \* sizes of words, newline included
    MaxWords,       \* bound on the words of a text
    Indent,         \* values of indentSpacesCount
    Width,          \* values of maxLineSpacesCount
    SIZE_MAX,       \* size_t is computed modulo SIZE_MAX + 1
    Memory          \* lines that there is memory for

VARIABLES
    pc,
    text,           \* the words of the paragraph
    indent, permittedLineLength,
    wordDeque,
    lineVector_, totalWordLength_,  \* the SingleLine
    lines

vars == <<pc, text, indent, permittedLineLength,
          wordDeque, lineVector_, totalWordLength_, lines>>

Words == [size : WordSize, newline : BOOLEAN]

Init ==
    /\ pc = "idle"
    /\ text = <<>> /\ indent = 0 /\ permittedLineLength = 0
    /\ wordDeque = <<>>
    /\ lineVector_ = <<>> /\ totalWordLength_ = 0
    /\ lines = <<>>

Size(n) == n % (SIZE_MAX + 1)

\* A newline is a character of its word.
Text == {t \in BoundedSeq(Words, MaxWords) :
            t # <<>> /\ \A i \in DOMAIN t : t[i].newline => t[i].size > 0}

\* Split finds a word in every text, if only an empty one.
Call ==
    /\ pc = "idle"
    /\ \E t \in Text, spaces \in Indent, width \in Width :
        /\ text' = t /\ wordDeque' = t
        /\ indent' = spaces
        /\ permittedLineLength' = Size(width - spaces)
        /\ pc' = IF spaces > width THEN "logic_error" ELSE "loop"
    /\ UNCHANGED <<lineVector_, totalWordLength_, lines>>

\* SingleLine.  For no word at all the length is SIZE_MAX.
GetLineLength == Size(totalWordLength_ + Len(lineVector_) - 1)

\* Mutant of PredictLength: the space between the words is forgotten.
PredictWithoutSpace(word) == Size(GetLineLength + word.size)
PredictLength(word) == Size(GetLineLength + word.size + 1)

Reset == lineVector_' = <<>> /\ totalWordLength_' = 0

\* lines.push_back.  When memory runs out std::bad_alloc ends the call.
PushLine(spaces, words) ==
    IF Len(lines) = Memory
    THEN lines' = lines /\ pc' = "bad_alloc"
    ELSE lines' = Append(lines, [indent |-> spaces, words |-> words])
         /\ pc' = pc

\* The next word would be too much.
Break ==
    /\ pc = "loop" /\ wordDeque # <<>>
    /\ PredictLength(Head(wordDeque)) > permittedLineLength
    /\ PushLine(indent, lineVector_)
    /\ Reset
    /\ UNCHANGED <<text, indent, permittedLineLength, wordDeque>>

\* back() of an empty word, which two spaces in a row make, is undefined.
EndsWithNewline(word) == IF word.size = 0 THEN BOOLEAN ELSE {word.newline}

AddWord ==
    /\ pc = "loop" /\ wordDeque # <<>>
    /\ PredictLength(Head(wordDeque)) <= permittedLineLength
    /\ wordDeque' = Tail(wordDeque)
    /\ \E nextWordHasNewline \in EndsWithNewline(Head(wordDeque)) :
        IF nextWordHasNewline
        THEN PushLine(indent, Append(lineVector_, Head(wordDeque))) /\ Reset
        ELSE /\ lineVector_' = Append(lineVector_, Head(wordDeque))
             /\ totalWordLength_' = totalWordLength_ + Head(wordDeque).size
             /\ UNCHANGED <<pc, lines>>
    /\ UNCHANGED <<text, indent, permittedLineLength>>

\* The last line is not indented; it is empty when a newline came before.
Finish ==
    /\ pc = "loop" /\ wordDeque = <<>>
    /\ IF GetLineLength = 0 THEN pc' = "done" /\ UNCHANGED lines
       ELSE IF Len(lines) = Memory THEN pc' = "bad_alloc" /\ UNCHANGED lines
       ELSE /\ pc' = "done"
            /\ lines' = Append(lines, [indent |-> 0, words |-> lineVector_])
    /\ Reset
    /\ UNCHANGED <<text, indent, permittedLineLength, wordDeque>>

Next == Call \/ Break \/ AddWord \/ Finish

Spec == Init /\ [][Next]_vars

-----------------------------------------------------------------------------
Total(words) == FoldLeft(+, 0, [i \in DOMAIN words |-> words[i].size])

Length(line) ==
    line.indent + Total(line.words)
        + IF line.words = <<>> THEN 0 ELSE Len(line.words) - 1

OnLines == FlattenSeq([i \in DOMAIN lines |-> lines[i].words])

\* Each word is on the lines, on the line that is being filled, or still to
\* come, once, in the order of the text, and no line is longer than permitted.
TextKept ==
    pc \in {"loop", "done"} =>
        /\ \/ text = OnLines \o lineVector_ \o wordDeque
           \* Reset dropped only empty words of an unprinted last line
           \/ pc = "done" /\ OnLines = Front(text) /\ Last(text).size = 0
        /\ \A i \in DOMAIN lines : Length(lines[i]) <= permittedLineLength + indent

\* A text of n words needs at most n lines and an empty one at the end.  There
\* is memory for those, if each word fits into a line.
WordsFit == \A i \in DOMAIN text : text[i].size <= permittedLineLength

TextFormatted == TextKept /\ (WordsFit => pc # "bad_alloc")

\* "Converts a string into a vector of strings that fit within a line."
FormatsEveryText == pc # "bad_alloc"
=============================================================================
