---------------------------- MODULE MCLogRotation ----------------------------
(* Finite instances of LogRotation. *)
EXTENDS LogRotation, TLC

CONSTANTS w1, w2

Writers == {w1, w2}
Alike == Permutations(Writers)
=============================================================================
