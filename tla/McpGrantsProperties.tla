------------------------ MODULE McpGrantsProperties ------------------------
(***************************************************************************)
(* What a person and their assistants can rely on while requests race,     *)
(* answers are lost and tokens are presented again.                        *)
(***************************************************************************)
EXTENDS McpGrants

\* A code connects one assistant, however often and however simultaneously it is
\* presented, and also once its window is over (oauth.ts, redeem).
CodeConnectsOnce ==
    \A c, d \in DOMAIN connections :
        connections[c].code # None /\ connections[c].code = connections[d].code => c = d

\* A copied chain cannot run on beside the real one: the tokens of one step, whoever
\* got them, were made within the grace of each other, so that a second chain that
\* goes its own pace is noticed at its next step (oauth.ts, refresh).
StepsTakenTogether ==
    \A s, t \in tokens : s.con = t.con /\ s.step = t.step => t.exp <= s.exp + REFRESH_GRACE_S

\* What was spent is remembered for as long as any token of that step still lives,
\* the late copies of a step made within the grace included (oauth.ts, LEDGER_MARGIN_S).
LedgerOutlivesTokens ==
    \A t \in tokens, u \in usedSteps : sameStep(u, t) => t.exp <= u.until

\* A sign-in ends with its connection, however often it is refreshed (oauth.ts).
SignInEnds == \A t \in tokens : t.exp <= connections[t.con].expires

\* The person holds one pasted key at a time (user.ts, createMcpKey).
OneKeyAtATime == \A c, d \in openKeys : c = d
=============================================================================
