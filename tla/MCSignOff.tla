----------------------------- MODULE MCSignOff -----------------------------
(* Small values for the constants of SignOff. *)
EXTENDS SignOffProperties, TLC

CONSTANTS u1, u2, q1, q2

OneRow == {1}
TwoRows == {1, 2}
NoRows == {}
NoUsers == {}
OneUser == {u1}
TwoUsers == {u1, u2}
OnlyU2 == {u2}
TwoRequests == {q1, q2}

\* Everyone holds every row's role.
AllHold == [r \in Rows |-> Users]

\* The first row's signature credits the second.
NoLinks == [r \in Rows |-> {}]
FirstCreditsSecond == [r \in Rows |-> IF r = 1 THEN {2} ELSE {}]

\* Bound of the two-row run: two sign-offs in all, and those in flight.
FewSignOffs == Len(history[1]) + Len(history[2]) <= 2

RequestSymmetry == Permutations(Requests)
=============================================================================
