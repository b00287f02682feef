----------------------------- MODULE MCWebhooks -----------------------------
(* Finite instances of Webhooks. *)
EXTENDS Webhooks, TLC

CONSTANTS h1, h2

Records == [hook : Hook, mapping : {"m1", "m2", "-"}, result : Results]

Mapped(id, enabled, token, valid) ==
  [id |-> id, enabled |-> enabled, token |-> token, valid |-> valid,
   events |-> {"block_found"}, entities |-> {"pool"}]

Token1 == [name |-> "t1", secret |-> "s1"]
Token2 == [name |-> "t2", secret |-> "s2"]

\* Two tokens and a mapping for each; t2 revoked, its mapping for everybody but
\* invalid; t1 revoked and re-issued with another secret, m1 disabled.
SavedConfigs ==
  {[tokens |-> {Token1, Token2}, mappings |-> <<Mapped("m1", TRUE, "t1", TRUE), Mapped("m2", TRUE, "t2", TRUE)>>],
   [tokens |-> {Token1}, mappings |-> <<Mapped("m1", TRUE, "t1", TRUE), Mapped("m2", TRUE, AnyToken, FALSE)>>],
   [tokens |-> {[name |-> "t1", secret |-> "s2"]}, mappings |-> <<Mapped("m1", FALSE, "t1", TRUE)>>]}

SomeRequests ==
  {[kind |-> "hook", secret |-> "s1", event |-> "block_found", entity |-> "pool"],
   [kind |-> "hook", secret |-> "s2", event |-> "block_found", entity |-> "miner"],
   [kind |-> "hook", secret |-> "s2", event |-> NoEvent, entity |-> "pool"],
   [kind |-> "hook", secret |-> "s2", event |-> "block_found", entity |-> "pool"],
   [kind |-> "test", secret |-> "-", event |-> "m2", entity |-> "pool"]}

Symmetry == Permutations(Hook)
=============================================================================
