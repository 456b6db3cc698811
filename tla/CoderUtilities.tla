--------------------------- MODULE CoderUtilities ---------------------------
(***************************************************************************)
(* huffman.h, huffman.cpp: an instance of the coder with constants of its  *)
(* own, and what is said of it for every value of them.                    *)
(***************************************************************************)
EXTENDS Integers, FiniteSets

CONSTANTS Letter, MaxLength, Request, SizeLimit, ByteBits, LeafLimit

VARIABLES coding, text, output, leaves, dataStart, bitsRead, expanded,
          byteCount, from
huffman == <<coding, text, output, leaves, dataStart, bitsRead, expanded,
             byteCount, from>>

H == INSTANCE Huffman WITH pc <- coding, Range_uint8 <- LeafLimit

\* huffman.h, huffman.cpp: what is expanded is what was compressed.
RoundTrip == H!RoundTrip

\* huffman.cpp: no prefix code is shorter.
Shortest == H!Shortest

\* A character is a byte, signed or not, and a text has fewer different ones
\* than a byte counts: it holds the number of leaves.
HuffmanSizes ==
    /\ ByteBits \in Nat \ {0} /\ LeafLimit \in Nat \ {0}
    /\ Letter \subseteq -LeafLimit .. LeafLimit
    /\ Cardinality(Letter) < LeafLimit
    /\ MaxLength \in Nat /\ Request \subseteq Nat

ASSUME CoderSizes == HuffmanSizes
=============================================================================
