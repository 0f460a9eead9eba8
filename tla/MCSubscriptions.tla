--------------------------- MODULE MCSubscriptions ---------------------------
(* Subscriptions on small instances. *)
EXTENDS Subscriptions, TLC

Interchangeable == Permutations(Orders) \cup Permutations(Reporters)
=============================================================================
