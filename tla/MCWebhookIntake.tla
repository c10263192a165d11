--------------------------- MODULE MCWebhookIntake ---------------------------
(* Small instances of WebhookIntake for TLC. *)
EXTENDS WebhookIntake, TLC

Interchangeable ==
  Permutations(Ids) \cup Permutations(Threads) \cup Permutations(Tokens)
    \cup Permutations(Requests)
=============================================================================
