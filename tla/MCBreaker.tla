------------------------------ MODULE MCBreaker ------------------------------
(* Finite instances of Breaker. *)
EXTENDS Breaker, TLC

CONSTANTS c1, c2, c3, p1, p2

\* Callers are alike, and so are probers; used for safety only.
Symmetry == Permutations(Caller) \cup Permutations(Prober)
=============================================================================
