------------------------------ MODULE MCSocket ------------------------------
\* Socket for TLC.
EXTENDS Socket, TLC

\* The kernel's descriptors and the addresses are interchangeable.
Symmetry == Permutations(Handle) \cup Permutations(Address)
=============================================================================
