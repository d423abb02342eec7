------------------------- MODULE MCSubscriptionSaga -------------------------
(* SubscriptionSaga for TLC.  Requests and addresses are interchangeable.  *)
EXTENDS SubscriptionSaga, TLC

Symmetry == Permutations(Request) \cup Permutations(Email)
=============================================================================
