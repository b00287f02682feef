----------------------------- MODULE MCSendSlots -----------------------------
(* Finite instances of SendSlots. *)
EXTENDS SendSlots

CONSTANTS cloud, lamp

\* minCallInterval and lanMinSendInterval, 100 ms both, in units of 50 ms.
Gaps == [l \in Lane |-> 2]
=============================================================================
