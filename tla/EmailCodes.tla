----------------------------- MODULE EmailCodes -----------------------------
(***************************************************************************)
(* The codes a person is mailed to verify an address, reset a password or  *)
(* hand a company over (lib/auth/otp): those of one address and purpose.   *)
(*                                                                         *)
(* A request makes a code in a transaction or verifies one in a few        *)
(* statements of its own; any may break off.  A statement that meets a row *)
(* another transaction has written waits for its end and then looks at the *)
(* row again; rows inserted since it started it does not see.              *)
(*                                                                         *)
(* A code is named by the time its transaction began, which is what        *)
(* created_at tells and verifyOtp sorts by.  What a verified code is used  *)
(* for is left out, and so is cleanupExpiredOtps, which nothing calls.     *)
(***************************************************************************)
EXTENDS Integers, FiniteSets

CONSTANTS Requests,       \* requests of the routes that make and verify codes
          None,
          MAX_ATTEMPTS,   \* attempts per code
          RATE_LIMIT_MAX, \* codes per window
          MaxCodes        \* bound: transactions that make a code

ASSUME RequestAssumption == IsFiniteSet(Requests)
ASSUME LimitAssumption ==
    MAX_ATTEMPTS \in Nat /\ RATE_LIMIT_MAX \in Nat \ {0} /\ MaxCodes \in Nat

VARIABLES begun,    \* transactions that have begun
          row,      \* row[c] of email_otp, or None
          req,      \* req[q]: the request q that is running
          compared, \* history: how often a typed code was compared with c
          accepted  \* history: how often c was accepted

vars == <<begun, row, req, compared, accepted>>

Codes == 1 .. MaxCodes

\* consumed_at, by what has set it; age: within the window of the rate limit, within
\* the life of a code, or past both.
Row == [attempts : Nat, consumed : {"no", "replaced", "accepted"},
        age : {"recent", "valid", "expired"}]

ASSUME NoneAssumption == None \notin Nat \cup Row

\* seen: what its UPDATE has found; locked: what it has written and not committed.
Making == [at : {"begin", "scan", "invalidate", "insert"}, code : Codes \cup {None},
           seen : SUBSET Codes, locked : SUBSET Codes]

\* typed: the code that was typed, None for one that matches no row.
Verifying == [at : {"claim", "compare", "consume"}, code : Codes, typed : Codes \cup {None}]
Idle == [at |-> "idle"]

rows == {c \in Codes : row[c] # None}
recent == {c \in rows : row[c].age = "recent"}
unconsumed == {c \in rows : row[c].consumed = "no"}

making(q) == req[q].at \in {"begin", "scan", "invalidate", "insert"}

\* No transaction but q's own has written these rows.
free(C, q) == \A p \in Requests \ {q} : making(p) => req[p].locked \cap C = {}

TypeOK ==
    /\ begun \in 0 .. MaxCodes
    /\ row \in [Codes -> Row \cup {None}]
    /\ req \in [Requests -> Making \cup Verifying \cup {Idle}]
    /\ compared \in [Codes -> Nat] /\ accepted \in [Codes -> Nat]
    /\ \A q \in Requests : making(q) => /\ req[q].locked \subseteq unconsumed
                                      /\ free(req[q].locked, q)

Init ==
    /\ begun = 0
    /\ row = [c \in Codes |-> None]
    /\ req = [q \in Requests |-> Idle]
    /\ compared = [c \in Codes |-> 0] /\ accepted = [c \in Codes |-> 0]

----------------------------------------------------------------------------
(* Time *)

\* The older a code, the sooner its window and its life are over; the transaction that
\* makes one is over before its window is.
Ages(c) ==
    /\ c \in rows
    /\ \/ /\ row[c].age = "recent"
          /\ \A d \in rows : d < c => row[d].age # "recent"
          /\ \A q \in Requests : making(q) /\ req[q].code # None => c < req[q].code
          /\ row' = [row EXCEPT ![c].age = "valid"]
       \/ /\ row[c].age = "valid"
          /\ \A d \in rows : d < c => row[d].age = "expired"
          /\ row' = [row EXCEPT ![c].age = "expired"]
    /\ UNCHANGED <<begun, req, compared, accepted>>

----------------------------------------------------------------------------
(* requestOtp *)

Goes(q, r) == req' = [req EXCEPT ![q] = r]

\* MUTANT of requestOtp: one code too many is let through.
requestOtpLate(q) ==
    /\ req[q] = Idle
    /\ Cardinality(recent) <= RATE_LIMIT_MAX
    /\ Goes(q, [at |-> "begin", code |-> None, seen |-> {}, locked |-> {}])
    /\ UNCHANGED <<begun, row, compared, accepted>>

\* Too many codes of late end the request; they are not counted again later.
requestOtp(q) ==
    /\ req[q] = Idle
    /\ Cardinality(recent) < RATE_LIMIT_MAX
    /\ Goes(q, [at |-> "begin", code |-> None, seen |-> {}, locked |-> {}])
    /\ UNCHANGED <<begun, row, compared, accepted>>

begin(q) ==
    /\ req[q].at = "begin"
    /\ begun < MaxCodes
    /\ begun' = begun + 1
    /\ Goes(q, [req[q] EXCEPT !.at = "scan", !.code = begun + 1])
    /\ UNCHANGED <<row, compared, accepted>>

\* The UPDATE: what it finds, and once those rows are free, what it writes.
scan(q) ==
    /\ req[q].at = "scan"
    /\ Goes(q, [req[q] EXCEPT !.at = "invalidate", !.seen = unconsumed])
    /\ UNCHANGED <<begun, row, compared, accepted>>

\* MUTANT of invalidate: rows that are written by another transaction are not waited for.
invalidateNow(q) ==
    /\ req[q].at = "invalidate"
    /\ Goes(q, [req[q] EXCEPT !.at = "insert", !.seen = {},
                              !.locked = req[q].seen \cap unconsumed])
    /\ UNCHANGED <<begun, row, compared, accepted>>

invalidate(q) ==
    /\ req[q].at = "invalidate"
    /\ free(req[q].seen, q)
    /\ Goes(q, [req[q] EXCEPT !.at = "insert", !.seen = {},
                              !.locked = req[q].seen \cap unconsumed])
    /\ UNCHANGED <<begun, row, compared, accepted>>

\* MUTANT of issue: the old codes are invalidated in a transaction of their own.
issueApart(q) ==
    /\ req[q].at = "insert"
    /\ \/ /\ req[q].locked # {}
          /\ row' = [c \in Codes |-> IF c \in req[q].locked
                                     THEN [row[c] EXCEPT !.consumed = "replaced"] ELSE row[c]]
          /\ Goes(q, [req[q] EXCEPT !.locked = {}])
       \/ /\ req[q].locked = {}
          /\ row' = [row EXCEPT ![req[q].code] =
                       [attempts |-> 0, consumed |-> "no", age |-> "recent"]]
          /\ Goes(q, Idle)
    /\ UNCHANGED <<begun, compared, accepted>>

\* The new row, and the commit; then the code is mailed.
issue(q) ==
    /\ req[q].at = "insert"
    /\ row' = [c \in Codes |->
                 IF c = req[q].code
                 THEN [attempts |-> 0, consumed |-> "no", age |-> "recent"]
                 ELSE IF c \in req[q].locked
                 THEN [row[c] EXCEPT !.consumed = "replaced"] ELSE row[c]]
    /\ Goes(q, Idle)
    /\ UNCHANGED <<begun, compared, accepted>>

----------------------------------------------------------------------------
(* verifyOtp *)

live == {c \in unconsumed : row[c].age # "expired"}

\* The newest live code is the one that what was typed is held against.
verifyOtp(q) ==
    /\ req[q] = Idle
    /\ \E c \in live, typed \in rows \cup {None} :
         /\ \A d \in live : d <= c
         /\ Goes(q, [at |-> "claim", code |-> c, typed |-> typed])
    /\ UNCHANGED <<begun, row, compared, accepted>>

\* MUTANT of claim: the attempts are counted and not limited.
claimUnlimited(q) ==
    LET c == req[q].code
    IN  /\ req[q].at = "claim"
        /\ free({c}, q)
        /\ \/ /\ c \in unconsumed
              /\ row' = [row EXCEPT ![c].attempts = @ + 1]
              /\ Goes(q, [req[q] EXCEPT !.at = "compare"])
           \/ c \notin unconsumed /\ Goes(q, Idle) /\ UNCHANGED row
        /\ UNCHANGED <<begun, compared, accepted>>

\* An attempt is counted before the comparison, in one statement with its limit.
claim(q) ==
    LET c == req[q].code
    IN  /\ req[q].at = "claim"
        /\ free({c}, q)
        /\ \/ /\ c \in unconsumed /\ row[c].attempts < MAX_ATTEMPTS
              /\ row' = [row EXCEPT ![c].attempts = @ + 1]
              /\ Goes(q, [req[q] EXCEPT !.at = "compare"])
           \/ /\ c \notin unconsumed \/ row[c].attempts >= MAX_ATTEMPTS
              /\ Goes(q, Idle)
              /\ UNCHANGED row
        /\ UNCHANGED <<begun, compared, accepted>>

compare(q) ==
    /\ req[q].at = "compare"
    /\ compared' = [compared EXCEPT ![req[q].code] = @ + 1]
    /\ \/ req[q].typed # req[q].code /\ Goes(q, Idle)
       \/ req[q].typed = req[q].code /\ Goes(q, [req[q] EXCEPT !.at = "consume"])
    /\ UNCHANGED <<begun, row, accepted>>

\* MUTANT of consume: by the id alone.
consumeById(q) ==
    LET c == req[q].code
    IN  /\ req[q].at = "consume"
        /\ free({c}, q)
        /\ row' = [row EXCEPT ![c].consumed = "accepted"]
        /\ accepted' = [accepted EXCEPT ![c] = @ + 1]
        /\ Goes(q, Idle)
        /\ UNCHANGED <<begun, compared>>

consume(q) ==
    LET c == req[q].code
    IN  /\ req[q].at = "consume"
        /\ free({c}, q)
        /\ \/ /\ c \in unconsumed
              /\ row' = [row EXCEPT ![c].consumed = "accepted"]
              /\ accepted' = [accepted EXCEPT ![c] = @ + 1]
           \/ c \notin unconsumed /\ UNCHANGED <<row, accepted>>
        /\ Goes(q, Idle)
        /\ UNCHANGED <<begun, compared>>

----------------------------------------------------------------------------
\* A statement fails or the server restarts; a transaction is rolled back.
RequestFails(q) ==
    /\ req[q] # Idle
    /\ Goes(q, Idle)
    /\ UNCHANGED <<begun, row, compared, accepted>>

Next ==
    \/ \E c \in Codes : Ages(c)
    \/ \E q \in Requests :
         \/ requestOtp(q) \/ begin(q) \/ scan(q) \/ invalidate(q) \/ issue(q)
         \/ verifyOtp(q) \/ claim(q) \/ compare(q) \/ consume(q)
         \/ RequestFails(q)

Spec == Init /\ [][Next]_vars
=============================================================================
