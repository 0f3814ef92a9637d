---------------------------- MODULE MCEmailCodes ----------------------------
(* Small values for the constants of EmailCodes. *)
EXTENDS EmailCodesProperties, TLC

CONSTANTS q1, q2

TwoRequests == {q1, q2}
Alike == Permutations(TwoRequests)
=============================================================================
