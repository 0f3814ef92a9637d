------------------------ MODULE EmailCodesProperties ------------------------
(***************************************************************************)
(* What the person who waits for a code can rely on, and what holds of the *)
(* codes when any number of submissions arrive at once.                    *)
(***************************************************************************)
EXTENDS EmailCodes

\* No burst of submissions gets more comparisons out of a code than it has attempts
\* (otp.ts, the claim; otp-concurrency-drill.ts).
AttemptsCapped == \A c \in Codes : compared[c] <= MAX_ATTEMPTS

\* A code works once, however many submit it at the same time, and not at all once it
\* was replaced (otp.ts, the conditional update that consumes it).
AcceptedOnce ==
    \A c \in Codes :
        /\ accepted[c] <= 1
        /\ accepted[c] = 1 <=> c \in rows /\ row[c].consumed = "accepted"

\* Asking for a new code, or breaking off while doing so, never leaves only replaced
\* codes: the old ones end in the transaction that makes the new one (otp.ts, invalidate
\* and insert). It promises nothing of codes that were accepted, used up or have expired.
NeverWithoutCode == rows # {} => \E c \in rows : row[c].consumed # "replaced"

\* Codes are counted before they are made, so requests that come at the same time pass
\* the limit together, but by no more than there are of them (otp.ts, requestOtp).
RateLimitKept == Cardinality(recent) < RATE_LIMIT_MAX + Cardinality(Requests)
=============================================================================
