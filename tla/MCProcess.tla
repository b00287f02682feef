----------------------------- MODULE MCProcess -----------------------------
(* Finite instances of Process. *)
EXTENDS Process

CONSTANTS k1, k2, p1
=============================================================================
