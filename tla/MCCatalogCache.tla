--------------------------- MODULE MCCatalogCache ---------------------------
(* Finite instances of CatalogCache. *)
EXTENDS CatalogCache, TLC

CONSTANTS h1, h2, l1, l2

Symmetry == Permutations(Handler) \cup Permutations(Lamp)
=============================================================================
