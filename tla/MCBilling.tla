----------------------------- MODULE MCBilling -----------------------------
(* Small values for the constants of Billing. *)
EXTENDS BillingProperties, TLC

CONSTANTS a1, q1, q2

OneAccount == {a1}
OneRequest == {q1}
TwoRequests == {q1, q2}
RequestSymmetry == Permutations(Requests)
=============================================================================
