---------------------------- MODULE MCMcpGrants ----------------------------
(* Small values for the constants of McpGrants. *)
EXTENDS McpGrantsProperties, TLC

CONSTANTS q1, q2

TwoRequests == {q1, q2}
Alike == Permutations(TwoRequests)
=============================================================================
