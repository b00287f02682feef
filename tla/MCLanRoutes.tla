----------------------------- MODULE MCLanRoutes -----------------------------
(* Finite instances of LanRoutes. *)
EXTENDS LanRoutes

CONSTANTS d1, d2, a1, a2, r1, s1, s2

\* Every reader reads d1.
OneTarget == [r \in Run \cup Sweep |-> d1]

NoStatics == [d \in Device |-> NoRoute]
StaticD1 == [d \in Device |-> IF d = d1 THEN a1 ELSE NoRoute]
=============================================================================
