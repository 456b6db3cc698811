------------------------------ MODULE MCClient ------------------------------
\* Client for TLC; the configurations give every constant its value.
EXTENDS Client
=============================================================================
