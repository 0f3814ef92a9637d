---------------------------- MODULE Attestations ----------------------------
(***************************************************************************)
(* What the sign-off core promises an auditor, with every request, lock    *)
(* and roster taken away: each requirement row has an append-only chain of *)
(* attestations numbered from one, and at most one signature that stands.  *)
(* A signature is written to the row and to its chain in one step, for one *)
(* row or for a whole batch; withdrawing it clears the row and leaves the  *)
(* chain as the record.  SignOff implements this specification.            *)
(***************************************************************************)
EXTENDS Naturals, Sequences

CONSTANTS Rows,         \* requirement status rows
          Users,        \* who can sign
          Nobody        \* who has signed an unsigned row

VARIABLES chain,        \* the chain of each row, every entry with its version and signer
          standing      \* whose signature each row carries

attestationVars == <<chain, standing>>

Init ==
    /\ chain = [r \in Rows |-> <<>>]
    /\ standing = [r \in Rows |-> Nobody]

\* One person signs every row of S at once.
Attest(S, u) ==
    /\ chain' = [r \in Rows |->
                   IF r \in S
                   THEN Append(chain[r], [version |-> Len(chain[r]) + 1, by |-> u])
                   ELSE chain[r]]
    /\ standing' = [r \in Rows |-> IF r \in S THEN u ELSE standing[r]]

\* The signature of one row is taken back; its chain keeps it.
Withdraw(r) ==
    /\ standing' = [standing EXCEPT ![r] = Nobody]
    /\ UNCHANGED chain

Next ==
    \/ \E S \in SUBSET Rows, u \in Users : Attest(S, u)
    \/ \E r \in Rows : Withdraw(r)

Spec == Init /\ [][Next]_attestationVars
=============================================================================
