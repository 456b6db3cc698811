-------------------------- MODULE MCCircularBuffer --------------------------
\* CircularBuffer for TLC: the values are interchangeable.
EXTENDS CircularBuffer, TLC

Symmetry == Permutations(Value)
=============================================================================
