------------------------------ MODULE Huffman ------------------------------
(***************************************************************************)
(* jive/huffman.h, jive/huffman.cpp.  Compress writes a text to a stream:  *)
(* its size, the leaves of its Huffman tree with their codes, and the code *)
(* of each character.  An Expander reads the tree and then expands as many *)
(* characters as each call asks for.                                       *)
(*                                                                         *)
(* A stream is a sequence of what was written at once: a number, a         *)
(* character, or a byte of turns (0 is left).                              *)
(***************************************************************************)
EXTENDS Integers, FiniteSets, Sequences, SequencesExt, FiniteSetsExt, Functions

CONSTANTS
    Letter,         \* characters, as numbers
    MaxLength,      \* bound on texts
    Request,        \* values of byteCount that Expand is called with
    SizeLimit,      \* the largest size that can be written, 65535
    ByteBits,       \* bits of a byte
    Range_uint8     \* values of a byte, which small instances scale down apart

VARIABLES
    pc,
    text,           \* what was compressed
    output,         \* the compressed stream
    leaves,         \* the Expander's root_, as the values at its turns
    dataStart,      \* where the codes begin
    bitsRead,       \* buffer_ and bitIndex_: the turns taken so far
    expanded,       \* the Expander's output: Len(expanded) is expandedCount_
    byteCount, from \* what this Expand has yet to expand; history: and where
                    \* it began and how much it was asked

vars == <<pc, text, output, leaves, dataStart, bitsRead, expanded,
          byteCount, from>>

Init ==
    /\ pc = "idle"
    /\ text = <<>> /\ output = <<>>
    /\ leaves = <<>> /\ dataStart = 1 /\ bitsRead = 0
    /\ expanded = <<>>
    /\ byteCount = 0 /\ from = [count |-> 0, asked |-> 0]

-----------------------------------------------------------------------------
(* The tree.  A FrequencyNode is written as the leaves below it, from left *)
(* to right, each with the turns that lead to it.  The nodes that are yet  *)
(* to be merged are sorted after each change: they are a set here, and the *)
(* first of them is the least.                                             *)

Leaf(t, v) ==
    [frequency |-> Cardinality({i \in DOMAIN t : t[i] = v}),
     creationIndex |-> 0,
     codes |-> <<[value |-> v, turns |-> <<>>]>>]

Below(turn, codes) ==
    [i \in DOMAIN codes |->
        [value |-> codes[i].value, turns |-> <<turn>> \o codes[i].turns]]

Inner(left, right, index) ==
    [frequency |-> left.frequency + right.frequency,
     creationIndex |-> index,
     codes |-> Below(0, left.codes) \o Below(1, right.codes)]

IsLeaf(node) == node.creationIndex = 0

\* Mutant of Less: new nodes stay at the end.
LessAtTheEnd(a, b) ==
    IF IsLeaf(a) # IsLeaf(b) THEN IsLeaf(a)
    ELSE IF ~IsLeaf(a) THEN a.creationIndex < b.creationIndex
    ELSE IF a.frequency # b.frequency THEN a.frequency < b.frequency
    ELSE a.codes[1].value < b.codes[1].value

\* FrequencyNode::operator<
Less(a, b) ==
    IF a.frequency # b.frequency THEN a.frequency < b.frequency
    ELSE IF IsLeaf(a) /\ IsLeaf(b) THEN a.codes[1].value < b.codes[1].value
    ELSE IF IsLeaf(a) # IsLeaf(b) THEN IsLeaf(a)
    ELSE a.creationIndex < b.creationIndex

First(nodes) == CHOOSE a \in nodes : \A b \in nodes \ {a} : Less(a, b)

Merged(nodes, index) ==
    LET left == First(nodes)
        right == First(nodes \ {left})
    IN  (nodes \ {left, right}) \cup {Inner(left, right, index)}

BuildTree(t) ==
    LET leaf == {Leaf(t, v) : v \in Range(t)}
        nodes[n \in 0 .. Cardinality(leaf) - 1] ==
            IF n = 0 THEN leaf ELSE Merged(nodes[n - 1], n)
    IN  First(nodes[Cardinality(leaf) - 1])

-----------------------------------------------------------------------------
(* Writing *)

ByteCount(turns) == (Len(turns) + ByteBits - 1) \div ByteBits

\* Mutant of Bytes: a byte is filled from its low bit.
LowBitsFirst(turns) ==
    [i \in 1 .. ByteCount(turns) |->
        [j \in 1 .. ByteBits |->
            LET k == (i - 1) * ByteBits + ByteBits + 1 - j
            IN  IF k <= Len(turns) THEN turns[k] ELSE 0]]

\* The turns in bytes, from the high bit, the last one filled up with zeros.
Bytes(turns) ==
    [i \in 1 .. ByteCount(turns) |->
        [j \in 1 .. ByteBits |->
            LET k == (i - 1) * ByteBits + j
            IN  IF k <= Len(turns) THEN turns[k] ELSE 0]]

\* No tree of 65535 characters has a code of 256 bits.
WriteNode(code) ==
    <<code.value, Len(code.turns) % Range_uint8>> \o Bytes(code.turns)

\* OutputBitstream's constructor, TraverseWrite, Write and Flush.
Written(t) ==
    LET codes == BuildTree(t).codes
        codeByLetter == [v \in Range(t) |->
            (CHOOSE c \in Range(codes) : c.value = v).turns]
    IN  <<Len(t), Len(codes) % Range_uint8>>
            \o FlattenSeq([i \in DOMAIN codes |-> WriteNode(codes[i])])
            \o Bytes(FlattenSeq([i \in DOMAIN t |-> codeByLetter[t[i]]]))

\* The tree of an empty text is undefined.
Compress ==
    /\ pc = "idle"
    /\ \E t \in BoundedSeq(Letter, MaxLength) \ {<<>>} :
        /\ text' = t
        /\ IF Len(t) > SizeLimit
           THEN pc' = "runtime_error" /\ UNCHANGED output
           ELSE pc' = "compressed" /\ output' = Written(t)
    /\ UNCHANGED <<leaves, dataStart, bitsRead, expanded, byteCount, from>>

-----------------------------------------------------------------------------
(* Reading *)

\* ReadNode, at read.at; its way through the bytes sets the value at its turns.
ReadNode(read) ==
    LET bitCount == output[read.at + 1]
        bytes == (bitCount + ByteBits - 1) \div ByteBits
        bits == FlattenSeq(SubSeq(output, read.at + 2, read.at + 1 + bytes))
        turns == SubSeq(bits, 1, bitCount)
    IN  [at |-> read.at + 2 + bytes,
         leaves |-> [way \in DOMAIN read.leaves \cup {turns} |->
                        IF way = turns THEN output[read.at] ELSE read.leaves[way]]]

\* As many nodes as the stream says, behind its first two numbers.
ReadNodes ==
    LET read[n \in 0 .. output[2]] ==
            IF n = 0 THEN [at |-> 3, leaves |-> <<>>] ELSE ReadNode(read[n - 1])
    IN  read[output[2]]

\* Expander(input)
Open ==
    /\ pc = "compressed"
    /\ leaves' = ReadNodes.leaves /\ dataStart' = ReadNodes.at
    /\ pc' = "open"
    /\ UNCHANGED <<text, output, bitsRead, expanded, byteCount, from>>

GetExpandedSize == output[1]

\* Expand(output, byteCount).  It compares with the whole size.
Expand(n) ==
    /\ pc = "open"
    /\ from' = [count |-> Len(expanded), asked |-> n]
    /\ byteCount' = n
    /\ pc' = IF n > GetExpandedSize THEN "out_of_range" ELSE "expanding"
    /\ UNCHANGED <<text, output, leaves, dataStart, bitsRead, expanded>>

\* ExpandValue reads turns, a byte when it needs one, up to the first node with
\* a value.  Where there is no such node it follows a null pointer.
Bits == FlattenSeq(SubSeq(output, dataStart, Len(output)))
Ends == {k \in bitsRead .. Len(Bits) :
            SubSeq(Bits, bitsRead + 1, k) \in DOMAIN leaves}

ExpandValue ==
    /\ pc = "expanding" /\ byteCount > 0
    /\ IF Len(expanded) = GetExpandedSize
       THEN pc' = "logic_error" /\ UNCHANGED <<bitsRead, expanded, byteCount>>
       ELSE IF Ends = {}
       THEN pc' = "undefined" /\ UNCHANGED <<bitsRead, expanded, byteCount>>
       ELSE /\ bitsRead' = Min(Ends)
            /\ expanded' = Append(expanded,
                    leaves[SubSeq(Bits, bitsRead + 1, Min(Ends))])
            /\ byteCount' = byteCount - 1
            /\ UNCHANGED pc
    /\ UNCHANGED <<text, output, leaves, dataStart, from>>

EndExpand ==
    /\ pc = "expanding" /\ byteCount = 0
    /\ pc' = "open"
    /\ UNCHANGED <<text, output, leaves, dataStart, bitsRead, expanded,
                   byteCount, from>>

\* The stream stays usable after an exception.
Catch ==
    /\ pc \in {"out_of_range", "logic_error"}
    /\ pc' = "open"
    /\ UNCHANGED <<text, output, leaves, dataStart, bitsRead, expanded,
                   byteCount, from>>

Next ==
    \/ Compress \/ Open
    \/ \E n \in Request : Expand(n)
    \/ ExpandValue \/ EndExpand \/ Catch

Spec == Init /\ [][Next]_vars

-----------------------------------------------------------------------------
\* In pieces of any size the text comes out as it went in, for every text
\* (one letter repeated, codes longer than a byte) and after exceptions; an
\* Expand fails only when it was asked for more than was left, and otherwise
\* expands all it was asked for.
RoundTrip ==
    /\ IsPrefix(expanded, text)
    /\ pc # "undefined"
    /\ pc \in {"logic_error", "out_of_range"} =>
            from.count + from.asked > Len(text)
    /\ pc = "open" /\ byteCount = 0 => Len(expanded) = from.count + from.asked

\* A code is prefix-free exactly when it obeys Kraft's inequality, here with
\* all code lengths scaled to the longest that n letters can have.
Feasible(lengths, n) ==
    FoldFunction(LAMBDA l, sum : sum + 2 ^ (n - l), 0, lengths) <= 2 ^ n

Cost(t, lengths) ==
    FoldLeft(LAMBDA sum, c : sum + lengths[c], 0, t)

\* No prefix code of single characters writes the text in fewer bits.
Shortest ==
    pc = "compressed" =>
        LET n == Cardinality(Range(text))
            codes == BuildTree(text).codes
            own == [v \in Range(text) |->
                Len((CHOOSE c \in Range(codes) : c.value = v).turns)]
        IN  n > 1 =>
            \A lengths \in [Range(text) -> 1 .. n - 1] :
                Feasible(lengths, n) => Cost(text, own) <= Cost(text, lengths)
============================================================================
