---------------------------- MODULE MCThreadPool ----------------------------
(* Instances of ThreadPool for TLC. *)
EXTENDS ThreadPool

\* Sentry_ objects, and jobs, are interchangeable.
Symmetry == Permutations(Sentry) \cup Permutations(Job)
=============================================================================
