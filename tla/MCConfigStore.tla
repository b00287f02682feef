---------------------------- MODULE MCConfigStore ----------------------------
(* Finite instances of ConfigStore. *)
EXTENDS ConfigStore, TLC

CONSTANTS h1, h2, m1, t1, w1, lamp, utc

\* A file typed by hand, with its secrets in plaintext and any timezone or none.
HandWritten ==
  {[key |-> "plain", tokens |-> [t \in Token |-> "plain"],
    mappings |-> [m \in MappingId |-> t1], quiet |-> [window |-> w1, zone |-> z],
    scenes |-> {}] : z \in Zone \cup {NoZone}}

Symmetry == Permutations(Handler)
=============================================================================
