-------------------------- MODULE EmailCodesProofs --------------------------
(***************************************************************************)
(* Codes for any requests and limits: a row has one writer at a time, a    *)
(* code is made once, accepted once and compared no more often than it has *)
(* attempts, and requests pass the limit by no more than there are.        *)
(***************************************************************************)
EXTENDS EmailCodesProperties, FiniteSetTheorems, TLAPS

----------------------------------------------------------------------------
(* Types *)

AnyRequest == Making \cup Verifying \cup {Idle}
AtVerify == {"claim", "compare", "consume"}

LEMMA Kinds ==
  ASSUME TypeOK, NEW q \in Requests
  PROVE  /\ making(q) => req[q] \in Making
         /\ req[q].at \in AtVerify => req[q] \in Verifying
         /\ req[q] = Idle => req[q].at = "idle"
         /\ req[q] # Idle => making(q) \/ req[q].at \in AtVerify
  BY DEF TypeOK, Making, Verifying, Idle, making, AtVerify

\* What is left of the rows other transactions have written, when q takes a step.
AtRow(q) == /\ row' \in [Codes -> Row \cup {None}]
            /\ \A c \in unconsumed : (\A p \in Requests \ {q} : making(p) => c \notin req[p].locked)
                                     \/ c \in unconsumed'

LEMMA Locks ==
  ASSUME TypeOK, NEW q \in Requests, NEW r \in AnyRequest, Goes(q, r),
         begun' \in 0 .. MaxCodes, AtRow(q),
         compared' \in [Codes -> Nat], accepted' \in [Codes -> Nat],
         making(q)' => /\ r.locked \subseteq unconsumed'
                       /\ free(r.locked, q)
  PROVE  TypeOK'
<1>1. req' \in [Requests -> AnyRequest] /\ req'[q] = r
      /\ \A p \in Requests \ {q} : req'[p] = req[p]
  BY DEF TypeOK, Goes, AnyRequest
<1>2. ASSUME NEW p \in Requests, making(p)'
      PROVE  req'[p].locked \subseteq unconsumed' /\ free(req[p].locked, p)'
  <2>1. CASE p = q
    <3>1. req'[p].locked \subseteq unconsumed' /\ free(r.locked, q)
      BY <1>1, <1>2, <2>1
    <3>2. \A o \in Requests \ {q} : making(o)' => making(o)
      BY <1>1 DEF making
    <3> QED
      BY <1>1, <2>1, <3>1, <3>2 DEF free
  <2>2. CASE p # q
    <3>1. making(p) /\ req'[p] = req[p]
      BY <1>1, <1>2, <2>2 DEF making
    <3>2. req[p].locked \subseteq unconsumed /\ free(req[p].locked, p)
      BY <3>1 DEF TypeOK
    <3>3. req[p].locked \subseteq unconsumed'
      BY <3>1, <3>2, <2>2 DEF AtRow
    <3>4. ASSUME NEW o \in Requests \ {p}, making(o)'
          PROVE  req'[o].locked \cap req'[p].locked = {}
      <4>1. CASE o = q
        BY <1>1, <2>2, <3>1, <3>4, <4>1 DEF free
      <4>2. CASE o # q
        <5>1. making(o) /\ req'[o] = req[o]
          BY <1>1, <3>4, <4>2 DEF making
        <5> QED
          BY <3>1, <3>2, <3>4, <5>1 DEF free
      <4> QED
        BY <4>1, <4>2
    <3> QED
      BY <3>1, <3>3, <3>4 DEF free
  <2> QED
    BY <2>1, <2>2
<1> QED
  BY <1>1, <1>2 DEF TypeOK, AnyRequest, AtRow

LEMMA SameRows ==
  ASSUME TypeOK, UNCHANGED row, NEW q \in Requests
  PROVE  AtRow(q) /\ unconsumed' = unconsumed /\ rows' = rows
  BY DEF TypeOK, AtRow, unconsumed, rows

LEMMA TypesMaking ==
  ASSUME TypeOK, NEW q \in Requests,
         requestOtp(q) \/ begin(q) \/ scan(q) \/ invalidate(q) \/ issue(q) \/ RequestFails(q)
  PROVE  TypeOK'
<1>1. CASE requestOtp(q)
  <2>1. PICK r : r = [at |-> "begin", code |-> None, seen |-> {}, locked |-> {}]
    OBVIOUS
  <2>2. r \in AnyRequest /\ Goes(q, r)
    BY <1>1, <2>1 DEF AnyRequest, Making, requestOtp
  <2> QED
    BY <1>1, <2>1, <2>2, SameRows, Locks DEF requestOtp, TypeOK, free
<1>2. CASE begin(q)
  <2>1. PICK r : r = [req[q] EXCEPT !.at = "scan", !.code = begun + 1]
    OBVIOUS
  <2>2. making(q) /\ req[q] \in Making
    BY <1>2, Kinds DEF begin, making
  <2>3. begun + 1 \in Codes /\ begun' \in 0 .. MaxCodes
    BY <1>2, LimitAssumption DEF begin, Codes, TypeOK
  <2>4. r \in AnyRequest /\ Goes(q, r) /\ r.locked = req[q].locked
    BY <1>2, <2>1, <2>2, <2>3 DEF AnyRequest, Making, begin
  <2> QED
    BY <1>2, <2>2, <2>3, <2>4, SameRows, Locks DEF begin, TypeOK
<1>3. CASE scan(q)
  <2>1. PICK r : r = [req[q] EXCEPT !.at = "invalidate", !.seen = unconsumed]
    OBVIOUS
  <2>2. making(q) /\ req[q] \in Making
    BY <1>3, Kinds DEF scan, making
  <2>4. r \in AnyRequest /\ Goes(q, r) /\ r.locked = req[q].locked
    BY <1>3, <2>1, <2>2 DEF AnyRequest, Making, scan, unconsumed, rows
  <2> QED
    BY <1>3, <2>2, <2>4, SameRows, Locks DEF scan, TypeOK
<1>4. CASE invalidate(q)
  <2>1. PICK r : r = [req[q] EXCEPT !.at = "insert", !.seen = {},
                                    !.locked = req[q].seen \cap unconsumed]
    OBVIOUS
  <2>2. making(q) /\ req[q] \in Making
    BY <1>4, Kinds DEF invalidate, making
  <2>4. r \in AnyRequest /\ Goes(q, r) /\ r.locked = req[q].seen \cap unconsumed
    BY <1>4, <2>1, <2>2 DEF AnyRequest, Making, invalidate, unconsumed, rows
  <2>5. free(r.locked, q)
    BY <1>4, <2>4 DEF invalidate, free
  <2> QED
    BY <1>4, <2>4, <2>5, SameRows, Locks DEF invalidate, TypeOK
<1>5. CASE issue(q)
  <2>1. making(q) /\ req[q] \in Making
    BY <1>5, Kinds DEF issue, making
  <2>2. req[q].locked \subseteq unconsumed /\ free(req[q].locked, q)
    BY <2>1 DEF TypeOK
  <2>3. ASSUME NEW c \in Codes
        PROVE  /\ row'[c] \in Row \cup {None}
               /\ c \in unconsumed /\ c \notin req[q].locked => c \in unconsumed'
    <3>1. CASE c = req[q].code
      <4>1. row'[c] = [attempts |-> 0, consumed |-> "no", age |-> "recent"]
        BY <1>5, <3>1 DEF issue
      <4>2. row'[c] \in Row
        BY <4>1 DEF Row
      <4>3. row'[c] # None
        BY <4>2, NoneAssumption
      <4> QED
        BY <4>1, <4>2, <4>3 DEF unconsumed, rows
    <3>2. CASE c # req[q].code /\ c \in req[q].locked
      <4>1. row'[c] = [row[c] EXCEPT !.consumed = "replaced"]
        BY <1>5, <3>2 DEF issue
      <4>2. row[c] \in Row
        BY <2>2, <3>2 DEF TypeOK, unconsumed, rows
      <4> QED
        BY <3>2, <4>1, <4>2 DEF Row
    <3>3. CASE c # req[q].code /\ c \notin req[q].locked
      <4>1. row'[c] = row[c]
        BY <1>5, <3>3 DEF issue
      <4> QED
        BY <4>1 DEF TypeOK, unconsumed, rows
    <3> QED
      BY <3>1, <3>2, <3>3
  <2>4. AtRow(q)
    <3>1. row' \in [Codes -> Row \cup {None}]
      BY <1>5, <2>3 DEF issue
    <3>2. ASSUME NEW c \in unconsumed
          PROVE  (\A p \in Requests \ {q} : making(p) => c \notin req[p].locked) \/ c \in unconsumed'
      <4>1. CASE c \in req[q].locked
        BY <2>2, <4>1 DEF free
      <4>2. CASE c \notin req[q].locked
        BY <2>3, <4>2 DEF unconsumed, rows
      <4> QED
        BY <4>1, <4>2
    <3> QED
      BY <3>1, <3>2 DEF AtRow
  <2>5. Idle \in AnyRequest /\ Goes(q, Idle) /\ ~making(q)'
    BY <1>5 DEF issue, Goes, AnyRequest, making, Idle, TypeOK
  <2> QED
    BY <1>5, <2>4, <2>5, Locks DEF issue, TypeOK
<1>6. CASE RequestFails(q)
  <2>1. Idle \in AnyRequest /\ Goes(q, Idle) /\ ~making(q)'
    BY <1>6 DEF RequestFails, Goes, AnyRequest, making, Idle, TypeOK
  <2> QED
    BY <1>6, <2>1, SameRows, Locks DEF RequestFails, TypeOK
<1> QED
  BY <1>1, <1>2, <1>3, <1>4, <1>5, <1>6

LEMMA TypesVerifying ==
  ASSUME TypeOK, NEW q \in Requests,
         verifyOtp(q) \/ claim(q) \/ compare(q) \/ consume(q)
  PROVE  TypeOK'
<1>1. CASE verifyOtp(q)
  <2>1. PICK c \in live, typed \in rows \cup {None} :
          Goes(q, [at |-> "claim", code |-> c, typed |-> typed])
    BY <1>1 DEF verifyOtp
  <2>2. PICK r : r = [at |-> "claim", code |-> c, typed |-> typed]
    OBVIOUS
  <2>3. r \in AnyRequest /\ Goes(q, r)
    BY <2>1, <2>2 DEF AnyRequest, Verifying, live, unconsumed, rows
  <2>4. ~making(q)'
    BY <2>2, <2>3 DEF Goes, making, TypeOK
  <2> QED
    BY <1>1, <2>3, <2>4, SameRows, Locks DEF verifyOtp, TypeOK
<1>2. CASE claim(q)
  <2> DEFINE c == req[q].code
  <2>1. req[q] \in Verifying /\ c \in Codes /\ ~making(q)
    BY <1>2, Kinds DEF claim, AtVerify, Verifying, making
  <2>2. CASE UNCHANGED row /\ Goes(q, Idle)
    <3>1. Idle \in AnyRequest /\ ~making(q)'
      BY <2>2 DEF Goes, AnyRequest, making, Idle, TypeOK
    <3> QED
      BY <1>2, <2>2, <3>1, SameRows, Locks DEF claim, TypeOK
  <2>3. CASE /\ c \in unconsumed /\ row' = [row EXCEPT ![c].attempts = @ + 1]
             /\ Goes(q, [req[q] EXCEPT !.at = "compare"])
    <3>1. PICK r : r = [req[q] EXCEPT !.at = "compare"]
      OBVIOUS
    <3>2. r \in AnyRequest /\ Goes(q, r) /\ r.at = "compare"
      BY <2>1, <2>3, <3>1 DEF AnyRequest, Verifying
    <3>3. ~making(q)'
      BY <3>2 DEF Goes, making, TypeOK
    <3>4. row[c] \in Row /\ row'[c] = [row[c] EXCEPT !.attempts = @ + 1]
      BY <2>1, <2>3 DEF TypeOK, unconsumed, rows
    <3>5. row'[c] \in Row /\ row'[c].consumed = row[c].consumed /\ row'[c] # None
      BY <3>4, NoneAssumption DEF Row
    <3>6. AtRow(q)
      BY <2>1, <2>3, <3>5 DEF TypeOK, AtRow, unconsumed, rows
    <3> QED
      BY <1>2, <3>2, <3>3, <3>6, Locks DEF claim, TypeOK
  <2> QED
    BY <1>2, <2>2, <2>3 DEF claim
<1>3. CASE compare(q)
  <2>1. req[q] \in Verifying /\ ~making(q)
    BY <1>3, Kinds DEF compare, AtVerify, Verifying, making
  <2>2. PICK r : r = IF req[q].typed # req[q].code THEN Idle
                     ELSE [req[q] EXCEPT !.at = "consume"]
    OBVIOUS
  <2>3. r \in AnyRequest /\ Goes(q, r) /\ r.at \in {"idle", "consume"}
    BY <1>3, <2>1, <2>2 DEF compare, AnyRequest, Verifying, Idle
  <2>4. ~making(q)'
    BY <2>3 DEF Goes, making, TypeOK
  <2>5. compared' \in [Codes -> Nat]
    BY <1>3, <2>1 DEF compare, TypeOK, Verifying
  <2> QED
    BY <1>3, <2>3, <2>4, <2>5, SameRows, Locks DEF compare, TypeOK
<1>4. CASE consume(q)
  <2> DEFINE c == req[q].code
  <2>1. c \in Codes /\ free({c}, q)
    BY <1>4, Kinds DEF consume, AtVerify, Verifying
  <2>2. Idle \in AnyRequest /\ Goes(q, Idle) /\ ~making(q)'
    BY <1>4 DEF consume, Goes, AnyRequest, making, Idle, TypeOK
  <2>3. accepted' \in [Codes -> Nat]
    BY <1>4 DEF consume, TypeOK
  <2>4. AtRow(q)
    <3>1. CASE UNCHANGED row
      BY <3>1, SameRows
    <3>2. CASE c \in unconsumed /\ row' = [row EXCEPT ![c].consumed = "accepted"]
      <4>1. row[c] \in Row /\ row'[c] = [row[c] EXCEPT !.consumed = "accepted"]
        BY <2>1, <3>2 DEF TypeOK, unconsumed, rows
      <4>2. row'[c] \in Row
        BY <4>1 DEF Row
      <4>3. row' \in [Codes -> Row \cup {None}]
        BY <2>1, <3>2, <4>2 DEF TypeOK
      <4>4. ASSUME NEW d \in unconsumed
            PROVE  (\A p \in Requests \ {q} : making(p) => d \notin req[p].locked) \/ d \in unconsumed'
        <5>1. CASE d = c
          BY <2>1, <5>1 DEF free
        <5>2. CASE d # c
          BY <3>2, <5>2 DEF TypeOK, unconsumed, rows
        <5> QED
          BY <5>1, <5>2
      <4> QED
        BY <4>3, <4>4 DEF AtRow
    <3> QED
      BY <1>4, <3>1, <3>2 DEF consume
  <2> QED
    BY <1>4, <2>2, <2>3, <2>4, Locks DEF consume, TypeOK
<1> QED
  BY <1>1, <1>2, <1>3, <1>4

\* What a code's ageing does.
LEMMA Older ==
  ASSUME TypeOK, NEW c \in Codes, Ages(c)
  PROVE  /\ row' \in [Codes -> Row \cup {None}] /\ UNCHANGED <<begun, req, compared, accepted>>
         /\ rows' = rows /\ unconsumed' = unconsumed /\ recent' \subseteq recent
         /\ \A d \in rows : /\ row'[d].consumed = row[d].consumed
                            /\ row'[d].attempts = row[d].attempts
<1>1. c \in rows /\ row[c] \in Row
  BY DEF Ages, TypeOK, rows
<1>2. PICK age \in {"valid", "expired"} : row' = [row EXCEPT ![c].age = age]
  BY DEF Ages
<1>3. row'[c] = [row[c] EXCEPT !.age = age] /\ \A d \in Codes \ {c} : row'[d] = row[d]
  BY <1>1, <1>2 DEF TypeOK
<1>4. /\ row'[c] \in Row /\ row'[c].age = age
      /\ row'[c].consumed = row[c].consumed /\ row'[c].attempts = row[c].attempts
  BY <1>1, <1>3 DEF Row
<1>5. row'[c] # None
  BY <1>4, NoneAssumption
<1>6. rows' = rows
  BY <1>1, <1>3, <1>5 DEF rows
<1>7. unconsumed' = unconsumed
  BY <1>3, <1>4, <1>6 DEF unconsumed, rows
<1>8. recent' \subseteq recent
  BY <1>3, <1>4, <1>6 DEF recent, rows
<1>9. row' \in [Codes -> Row \cup {None}]
  BY <1>2, <1>4 DEF TypeOK
<1> QED
  BY <1>3, <1>4, <1>6, <1>7, <1>8, <1>9 DEF Ages, rows

Steps(q) == \/ requestOtp(q) \/ begin(q) \/ scan(q) \/ invalidate(q) \/ issue(q)
            \/ verifyOtp(q) \/ claim(q) \/ compare(q) \/ consume(q)
            \/ RequestFails(q)

LEMMA TypeInit == Init => TypeOK
<1> SUFFICES ASSUME Init PROVE TypeOK
  OBVIOUS
<1>1. \A q \in Requests : ~making(q)
  BY DEF Init, making, Idle
<1> QED
  BY <1>1, LimitAssumption DEF Init, TypeOK, Codes

LEMMA TypeStep == TypeOK /\ [Next]_vars => TypeOK'
<1> SUFFICES ASSUME TypeOK, [Next]_vars PROVE TypeOK'
  OBVIOUS
<1>1. CASE \E c \in Codes : Ages(c)
  <2>1. PICK c \in Codes : Ages(c)
    BY <1>1
  <2> QED
    BY <2>1, Older DEF TypeOK, making, free
<1>2. CASE \E q \in Requests : Steps(q)
  BY <1>2, TypesMaking, TypesVerifying DEF Steps
<1>3. CASE UNCHANGED vars
  BY <1>3 DEF vars, TypeOK, making, free, unconsumed, rows
<1> QED
  BY <1>1, <1>2, <1>3 DEF Next, Steps

\* The types of rows and requests, and that what a transaction has written is not
\* consumed and has no other writer (otp.ts, the statements of both operations).
THEOREM TypeCorrect == Spec => []TypeOK
  BY TypeInit, TypeStep, PTL DEF Spec

----------------------------------------------------------------------------
(* What the steps do to the codes *)

\* A transaction's code is begun and not there yet, and nobody else's; what is verified
\* is there.
Begun(q) == req[q].at \in {"scan", "invalidate", "insert"}

CodesMade ==
    /\ rows \subseteq 1 .. begun
    /\ \A q \in Requests : Begun(q) => req[q].code \in 1 .. begun /\ req[q].code \notin rows
    /\ \A p, q \in Requests : p # q /\ Begun(p) /\ Begun(q) => req[p].code # req[q].code
    /\ \A q \in Requests : req[q].at \in AtVerify => req[q].code \in rows

LEMMA Issued ==
  ASSUME TypeOK, CodesMade, NEW q \in Requests, issue(q)
  PROVE  /\ req[q].code \in Codes \ rows /\ rows' = rows \cup {req[q].code}
         /\ row'[req[q].code] = [attempts |-> 0, consumed |-> "no", age |-> "recent"]
         /\ \A d \in rows :
              /\ row'[d].attempts = row[d].attempts
              /\ \/ row'[d].consumed = row[d].consumed
                 \/ row[d].consumed = "no" /\ row'[d].consumed = "replaced"
         /\ recent' \subseteq recent \cup {req[q].code}
<1> DEFINE c == req[q].code
<1>1. c \in Codes \ rows
  BY LimitAssumption DEF issue, CodesMade, Begun, TypeOK, Codes
<1>2. making(q) /\ req[q].locked \subseteq unconsumed
  BY DEF issue, making, TypeOK
<1>3. row'[c] = [attempts |-> 0, consumed |-> "no", age |-> "recent"]
  BY <1>1 DEF issue
<1>4. row'[c] # None
  <2>1. row'[c] \in Row
    BY <1>3 DEF Row
  <2> QED
    BY <2>1, NoneAssumption
<1>5. ASSUME NEW d \in rows
      PROVE  /\ row'[d] \in Row /\ row'[d].attempts = row[d].attempts
             /\ row'[d].age = row[d].age
             /\ \/ row'[d].consumed = row[d].consumed
                \/ row[d].consumed = "no" /\ row'[d].consumed = "replaced"
  <2>1. d \in Codes /\ d # c /\ row[d] \in Row
    BY <1>1 DEF rows, TypeOK
  <2>2. CASE d \in req[q].locked
    <3>1. row'[d] = [row[d] EXCEPT !.consumed = "replaced"] /\ row[d].consumed = "no"
      BY <1>2, <2>1, <2>2 DEF issue, unconsumed
    <3> QED
      BY <2>1, <3>1 DEF Row
  <2>3. CASE d \notin req[q].locked
    BY <2>1, <2>3 DEF issue
  <2> QED
    BY <2>2, <2>3
<1>6. \A d \in Codes \ rows : d # c => row'[d] = row[d]
  BY <1>2 DEF issue, unconsumed
<1>7. rows' = rows \cup {c}
  BY <1>1, <1>4, <1>5, <1>6, NoneAssumption DEF rows
<1>8. recent' \subseteq recent \cup {c}
  BY <1>5, <1>7 DEF recent
<1> QED
  BY <1>1, <1>3, <1>5, <1>7, <1>8

LEMMA Claimed ==
  ASSUME TypeOK, NEW q \in Requests, claim(q)
  PROVE  /\ rows' = rows /\ recent' = recent
         /\ \A d \in rows : row'[d].consumed = row[d].consumed
         /\ \/ UNCHANGED row /\ Goes(q, Idle)
            \/ /\ req[q].code \in rows /\ row[req[q].code].attempts < MAX_ATTEMPTS
               /\ row'[req[q].code].attempts = row[req[q].code].attempts + 1
               /\ \A d \in rows \ {req[q].code} : row'[d].attempts = row[d].attempts
               /\ Goes(q, [req[q] EXCEPT !.at = "compare"])
<1> DEFINE c == req[q].code
<1>1. CASE UNCHANGED row /\ Goes(q, Idle)
  BY <1>1 DEF rows, recent
<1>2. CASE /\ c \in unconsumed /\ row[c].attempts < MAX_ATTEMPTS
           /\ row' = [row EXCEPT ![c].attempts = @ + 1]
           /\ Goes(q, [req[q] EXCEPT !.at = "compare"])
  <2>1. c \in Codes /\ c \in rows /\ row[c] \in Row
    BY <1>2 DEF unconsumed, rows, TypeOK
  <2>2. row'[c] = [row[c] EXCEPT !.attempts = @ + 1]
        /\ \A d \in Codes \ {c} : row'[d] = row[d]
    BY <1>2, <2>1 DEF TypeOK
  <2>3. /\ row'[c] \in Row /\ row'[c].attempts = row[c].attempts + 1
        /\ row'[c].age = row[c].age /\ row'[c].consumed = row[c].consumed
    BY <2>1, <2>2 DEF Row
  <2>4. rows' = rows
    BY <2>1, <2>2, <2>3, NoneAssumption DEF rows
  <2>5. recent' = recent
    BY <2>2, <2>3, <2>4 DEF recent, rows
  <2> QED
    BY <1>2, <2>1, <2>2, <2>3, <2>4, <2>5 DEF rows
<1> QED
  BY <1>1, <1>2 DEF claim

LEMMA Consumed ==
  ASSUME TypeOK, NEW q \in Requests, consume(q)
  PROVE  /\ rows' = rows /\ recent' = recent /\ Goes(q, Idle)
         /\ \A d \in rows : row'[d].attempts = row[d].attempts
         /\ \/ UNCHANGED <<row, accepted>>
            \/ /\ req[q].code \in rows /\ row[req[q].code].consumed = "no"
               /\ row'[req[q].code].consumed = "accepted"
               /\ accepted' = [accepted EXCEPT ![req[q].code] = @ + 1]
               /\ \A d \in rows \ {req[q].code} : row'[d].consumed = row[d].consumed
<1> DEFINE c == req[q].code
<1>1. CASE UNCHANGED <<row, accepted>>
  BY <1>1 DEF consume, rows, recent
<1>2. CASE c \in unconsumed /\ row' = [row EXCEPT ![c].consumed = "accepted"]
           /\ accepted' = [accepted EXCEPT ![c] = @ + 1]
  <2>1. c \in Codes /\ c \in rows /\ row[c] \in Row /\ row[c].consumed = "no"
    BY <1>2 DEF unconsumed, rows, TypeOK
  <2>2. row'[c] = [row[c] EXCEPT !.consumed = "accepted"]
        /\ \A d \in Codes \ {c} : row'[d] = row[d]
    BY <1>2, <2>1 DEF TypeOK
  <2>3. /\ row'[c] \in Row /\ row'[c].attempts = row[c].attempts
        /\ row'[c].age = row[c].age /\ row'[c].consumed = "accepted"
    BY <2>1, <2>2 DEF Row
  <2>4. rows' = rows
    BY <2>1, <2>2, <2>3, NoneAssumption DEF rows
  <2>5. recent' = recent
    BY <2>2, <2>3, <2>4 DEF recent, rows
  <2> QED
    BY <1>2, <2>1, <2>2, <2>3, <2>4, <2>5 DEF consume, rows
<1> QED
  BY <1>1, <1>2 DEF consume

\* The steps that leave the rows alone.
Aside(q) == \/ requestOtp(q) \/ begin(q) \/ scan(q) \/ invalidate(q)
            \/ verifyOtp(q) \/ compare(q) \/ RequestFails(q)

LEMMA StoodAside ==
  ASSUME NEW q \in Requests, Aside(q)
  PROVE  UNCHANGED <<row, accepted>> /\ rows' = rows /\ recent' = recent
  BY DEF Aside, requestOtp, begin, scan, invalidate, verifyOtp, compare, RequestFails,
         rows, recent

\* Where a request is when it takes a step.
LEMMA At ==
  ASSUME NEW q \in Requests
  PROVE  /\ requestOtp(q) \/ verifyOtp(q) => req[q] = Idle
         /\ begin(q) => req[q].at = "begin"
         /\ scan(q) => req[q].at = "scan"
         /\ invalidate(q) => req[q].at = "invalidate"
         /\ claim(q) => req[q].at = "claim"
         /\ compare(q) => req[q].at = "compare"
  BY DEF requestOtp, verifyOtp, begin, scan, invalidate, claim, compare

\* Of the requests, only the one that steps changes, and how.
LEMMA Moved ==
  ASSUME TypeOK, NEW q \in Requests, Steps(q)
  PROVE  /\ \A p \in Requests \ {q} : req'[p] = req[p]
         /\ \/ req'[q] = Idle
            \/ requestOtp(q) /\ req'[q].at = "begin"
            \/ begin(q) /\ req'[q].at = "scan" /\ req'[q].code = begun + 1
            \/ /\ scan(q) \/ invalidate(q)
               /\ Begun(q) /\ Begun(q)' /\ req'[q].code = req[q].code
            \/ verifyOtp(q) /\ req'[q].at = "claim" /\ req'[q].code \in rows
            \/ claim(q) /\ req'[q].at = "compare" /\ req'[q].code = req[q].code
            \/ compare(q) /\ req'[q].at = "consume" /\ req'[q].code = req[q].code
<1>1. req \in [Requests -> AnyRequest]
  BY DEF TypeOK, AnyRequest
<1>2. \A p \in Requests \ {q} : req'[p] = req[p]
  BY <1>1 DEF Steps, requestOtp, begin, scan, invalidate, issue, verifyOtp, claim, compare,
              consume, RequestFails, Goes
<1>3. CASE requestOtp(q) \/ issue(q) \/ consume(q) \/ RequestFails(q)
  BY <1>1, <1>2, <1>3 DEF requestOtp, issue, consume, RequestFails, Goes
<1>4. CASE begin(q) \/ scan(q) \/ invalidate(q)
  <2>1. req[q] \in Making
    BY <1>4, Kinds DEF begin, scan, invalidate, making
  <2>2. CASE begin(q)
    <3>1. req'[q] = [req[q] EXCEPT !.at = "scan", !.code = begun + 1]
      BY <1>1, <2>2 DEF begin, Goes
    <3> QED
      BY <1>2, <2>1, <2>2, <3>1 DEF Making
  <2>3. CASE scan(q)
    <3>1. req'[q] = [req[q] EXCEPT !.at = "invalidate", !.seen = unconsumed]
      BY <1>1, <2>3 DEF scan, Goes
    <3> QED
      BY <1>2, <2>1, <2>3, <3>1 DEF Making, Begun, scan
  <2>4. CASE invalidate(q)
    <3>1. req'[q] = [req[q] EXCEPT !.at = "insert", !.seen = {},
                                   !.locked = req[q].seen \cap unconsumed]
      BY <1>1, <2>4 DEF invalidate, Goes
    <3> QED
      BY <1>2, <2>1, <2>4, <3>1 DEF Making, Begun, invalidate
  <2> QED
    BY <1>4, <2>2, <2>3, <2>4
<1>5. CASE verifyOtp(q)
  <2>1. PICK c \in live, typed \in rows \cup {None} :
          req'[q] = [at |-> "claim", code |-> c, typed |-> typed]
    BY <1>1, <1>5 DEF verifyOtp, Goes
  <2> QED
    BY <1>2, <1>5, <2>1 DEF live, unconsumed
<1>6. CASE claim(q) \/ compare(q)
  <2>1. req[q] \in Verifying
    BY <1>6, Kinds DEF claim, compare, AtVerify
  <2>2. \/ req'[q] = Idle
        \/ claim(q) /\ req'[q] = [req[q] EXCEPT !.at = "compare"]
        \/ compare(q) /\ req'[q] = [req[q] EXCEPT !.at = "consume"]
    BY <1>1, <1>6 DEF claim, compare, Goes
  <2> QED
    BY <1>2, <2>1, <2>2 DEF Verifying
<1> QED
  BY <1>3, <1>4, <1>5, <1>6 DEF Steps

----------------------------------------------------------------------------
(* Each code is made once *)

LEMMA MadeOnce ==
  ASSUME TypeOK, CodesMade, NEW q \in Requests, Steps(q)
  PROVE  CodesMade'
<1>1. begun \in Nat /\ begun' \in Nat /\ begun <= begun' /\ (begin(q) => begun' = begun + 1)
  BY DEF TypeOK, Steps, requestOtp, begin, scan, invalidate, issue, verifyOtp, claim, compare,
         consume, RequestFails
<1>2. /\ rows \subseteq rows'
      /\ rows' \subseteq rows \cup {req[q].code}
      /\ rows' = rows \/ (issue(q) /\ Begun(q))
  BY Issued, Claimed, Consumed, StoodAside DEF Steps, Aside, issue, Begun
<1>3. rows' \subseteq 1 .. begun'
  BY <1>1, <1>2 DEF CodesMade
<1>4. ASSUME NEW p \in Requests, Begun(p)'
      PROVE  /\ req'[p].code \in 1 .. begun' /\ req'[p].code \notin rows'
             /\ \/ Begun(p) /\ req'[p].code = req[p].code
                \/ p = q /\ begin(q) /\ req'[p].code = begun + 1
  <2>1. CASE Begun(p) /\ req'[p].code = req[p].code
    <3>1. req[p].code \in 1 .. begun /\ req[p].code \notin rows
      BY <2>1 DEF CodesMade
    <3>2. req[p].code \notin rows'
      <4>1. CASE p = q
        <5>1. ~issue(q)
          BY <1>4, <4>1 DEF issue, Goes, Begun, Idle, TypeOK
        <5> QED
          BY <1>2, <3>1, <5>1
      <4>2. CASE p # q
        BY <1>2, <2>1, <3>1, <4>2 DEF CodesMade
      <4> QED
        BY <4>1, <4>2
    <3> QED
      BY <1>1, <2>1, <3>1, <3>2
  <2>2. CASE p = q /\ begin(q) /\ req'[p].code = begun + 1
    <3>1. rows' = rows
      BY <2>2, StoodAside DEF Aside
    <3> QED
      BY <1>1, <2>2, <3>1 DEF CodesMade
  <2>3. \/ Begun(p) /\ req'[p].code = req[p].code
        \/ p = q /\ begin(q) /\ req'[p].code = begun + 1
    <3>1. CASE p = q
      BY <1>4, <3>1, Moved DEF Begun, Idle
    <3>2. CASE p # q
      BY <1>4, <3>2, Moved DEF Begun
    <3> QED
      BY <3>1, <3>2
  <2> QED
    BY <2>1, <2>2, <2>3
<1>5. ASSUME NEW p \in Requests, NEW o \in Requests, p # o, Begun(p)', Begun(o)'
      PROVE  req'[p].code # req'[o].code
  BY <1>1, <1>4, <1>5 DEF CodesMade
<1>6. ASSUME NEW p \in Requests, req'[p].at \in AtVerify
      PROVE  req'[p].code \in rows'
  <2>1. CASE p = q
    <3>1. \/ req'[p].code \in rows
          \/ (claim(q) \/ compare(q)) /\ req'[q].code = req[q].code
      BY <1>6, <2>1, Moved DEF AtVerify, Idle, Begun
    <3>2. claim(q) \/ compare(q) => req[q].at \in AtVerify
      BY DEF claim, compare, AtVerify
    <3> QED
      BY <1>2, <2>1, <3>1, <3>2 DEF CodesMade
  <2>2. CASE p # q
    BY <1>2, <1>6, <2>2, Moved DEF CodesMade
  <2> QED
    BY <2>1, <2>2
<1> QED
  BY <1>3, <1>4, <1>5, <1>6 DEF CodesMade

----------------------------------------------------------------------------
(* Each code is accepted once, and there is always one *)

LEMMA Outcomes ==
  ASSUME TypeOK, CodesMade, AcceptedOnce, NeverWithoutCode, NEW q \in Requests, Steps(q)
  PROVE  AcceptedOnce' /\ NeverWithoutCode'
<1>1. CASE Aside(q)
  BY <1>1, StoodAside DEF AcceptedOnce, NeverWithoutCode
<1>2. CASE issue(q)
  <2>1. accepted' = accepted
    BY <1>2 DEF issue
  <2>2. AcceptedOnce'
    <3>1. ASSUME NEW c \in Codes
          PROVE  c \in rows' /\ row'[c].consumed = "accepted"
                 <=> c \in rows /\ row[c].consumed = "accepted"
      <4>1. CASE c = req[q].code
        BY <1>2, <4>1, Issued
      <4>2. CASE c # req[q].code
        BY <1>2, <4>2, Issued
      <4> QED
        BY <4>1, <4>2
    <3> QED
      BY <2>1, <3>1 DEF AcceptedOnce
  <2>3. NeverWithoutCode'
    BY <1>2, Issued DEF NeverWithoutCode
  <2> QED
    BY <2>2, <2>3
<1>3. CASE claim(q)
  BY <1>3, Claimed DEF claim, AcceptedOnce, NeverWithoutCode
<1>4. CASE consume(q)
  <2>1. CASE UNCHANGED <<row, accepted>>
    BY <1>4, <2>1, Consumed DEF AcceptedOnce, NeverWithoutCode
  <2>2. CASE ~UNCHANGED <<row, accepted>>
    <3> DEFINE c == req[q].code
    <3>1. /\ rows' = rows /\ c \in rows /\ row[c].consumed = "no"
          /\ row'[c].consumed = "accepted"
          /\ accepted' = [accepted EXCEPT ![c] = @ + 1]
          /\ \A d \in rows \ {c} : row'[d].consumed = row[d].consumed
      BY <1>4, <2>2, Consumed
    <3>2. c \in Codes /\ accepted[c] = 0 /\ accepted'[c] = 1
          /\ \A d \in Codes \ {c} : accepted'[d] = accepted[d]
      BY <3>1 DEF AcceptedOnce, TypeOK, rows
    <3>3. AcceptedOnce'
      BY <3>1, <3>2 DEF AcceptedOnce
    <3>4. NeverWithoutCode'
      BY <3>1 DEF NeverWithoutCode
    <3> QED
      BY <3>3, <3>4
  <2> QED
    BY <2>1, <2>2
<1> QED
  BY <1>1, <1>2, <1>3, <1>4 DEF Steps, Aside

----------------------------------------------------------------------------
(* Each comparison has an attempt of its own *)

comparing(c) == {q \in Requests : req[q].at = "compare" /\ req[q].code = c}

AttemptsCounted ==
    \A c \in Codes :
        IF c \in rows
        THEN /\ compared[c] + Cardinality(comparing(c)) <= row[c].attempts
             /\ row[c].attempts <= MAX_ATTEMPTS
        ELSE compared[c] = 0

LEMMA FewComparing ==
  ASSUME NEW c
  PROVE  IsFiniteSet(comparing(c)) /\ Cardinality(comparing(c)) \in Nat
  BY RequestAssumption, FS_Subset, FS_CardinalityType DEF comparing

LEMMA AttemptsKept ==
  ASSUME TypeOK, CodesMade, AttemptsCounted, NEW q \in Requests, Steps(q)
  PROVE  AttemptsCounted'
<1>1. /\ \A c \in Codes : compared[c] \in Nat
      /\ \A c \in rows : c \in Codes /\ row[c].attempts \in Nat
      /\ MAX_ATTEMPTS \in Nat
  BY LimitAssumption DEF TypeOK, Row, rows
<1>2. \A c \in Codes : IsFiniteSet(comparing(c)) /\ Cardinality(comparing(c)) \in Nat
                       /\ IsFiniteSet(comparing(c)') /\ Cardinality(comparing(c)') \in Nat
  <2>1. ASSUME NEW c \in Codes PROVE IsFiniteSet(comparing(c)') /\ Cardinality(comparing(c)') \in Nat
    <3>1. comparing(c)' \in SUBSET Requests
      BY DEF comparing
    <3>2. IsFiniteSet(comparing(c)')
      BY <3>1, RequestAssumption, FS_Subset
    <3> QED
      BY <3>2, FS_CardinalityType
  <2> QED
    BY <2>1, FewComparing
<1>3. CASE claim(q) /\ req'[q].at = "compare" /\ req'[q].code = req[q].code
  <2>0. PICK d : d = req[q].code
    OBVIOUS
  <2>1. /\ rows' = rows /\ d \in rows /\ row[d].attempts < MAX_ATTEMPTS
        /\ row'[d].attempts = row[d].attempts + 1
        /\ \A c \in rows \ {d} : row'[c].attempts = row[c].attempts
        /\ compared' = compared
    BY <1>3, <2>0, Claimed DEF claim, Goes, Idle, TypeOK
  <2>2. q \notin comparing(d) /\ comparing(d)' = comparing(d) \cup {q}
        /\ \A c \in Codes \ {d} : comparing(c)' = comparing(c)
    <3>1. \A p \in Requests \ {q} : req'[p] = req[p]
      BY Moved
    <3>2. req[q].at = "claim"
      BY <1>3 DEF claim
    <3> QED
      BY <1>3, <2>0, <3>1, <3>2 DEF comparing
  <2>3. Cardinality(comparing(d)') = Cardinality(comparing(d)) + 1
    BY <1>1, <1>2, <2>1, <2>2, FS_AddElement
  <2>4. ASSUME NEW c \in Codes
        PROVE  IF c \in rows'
               THEN /\ compared'[c] + Cardinality(comparing(c)') <= row'[c].attempts
                    /\ row'[c].attempts <= MAX_ATTEMPTS
               ELSE compared'[c] = 0
    <3>1. CASE c = d
      <4>1. compared[d] + Cardinality(comparing(d)) <= row[d].attempts /\ row[d].attempts <= MAX_ATTEMPTS
        BY <2>1, <1>1 DEF AttemptsCounted
      <4>2. Cardinality(comparing(d)) \in Nat /\ compared[d] \in Nat /\ row[d].attempts \in Nat
        BY <1>1, <1>2, <2>1
      <4>3. comparing(c)' = comparing(d)'
        BY <3>1
      <4>4. Cardinality(comparing(c)') = Cardinality(comparing(d)) + 1
        BY <2>3, <4>3
      <4>5. compared'[c] = compared[d] /\ row'[c].attempts = row[d].attempts + 1
            /\ row[d].attempts + 1 <= MAX_ATTEMPTS /\ c \in rows'
        BY <1>1, <2>1, <3>1
      <4> QED
        BY <1>1, <4>1, <4>2, <4>4, <4>5
    <3>2. CASE c # d
      <4>1. comparing(c)' = comparing(c) /\ compared'[c] = compared[c]
        BY <1>1, <1>2, <2>1, <2>2, <2>3, <3>2
      <4> QED
        BY <1>1, <2>1, <3>2, <4>1 DEF AttemptsCounted
    <3> QED
      BY <3>1, <3>2
  <2> QED
    BY <2>4 DEF AttemptsCounted
<1>4. CASE compare(q)
  <2>0. PICK d : d = req[q].code
    OBVIOUS
  <2>1. /\ rows' = rows /\ row' = row /\ d \in rows /\ d \in Codes
        /\ compared' = [compared EXCEPT ![d] = @ + 1]
    BY <1>1, <1>4, <2>0, StoodAside DEF compare, Aside, CodesMade, AtVerify
  <2>2. q \in comparing(d) /\ comparing(d)' = comparing(d) \ {q}
        /\ \A c \in Codes \ {d} : comparing(c)' = comparing(c)
    <3>1. \A p \in Requests \ {q} : req'[p] = req[p]
      BY Moved
    <3>2. req[q].at = "compare" /\ req'[q].at # "compare"
      BY <1>4, Moved, At DEF Idle
    <3> QED
      BY <2>0, <3>1, <3>2 DEF comparing
  <2>3. Cardinality(comparing(d)') = Cardinality(comparing(d)) - 1
    BY <1>2, <2>1, <2>2, FS_RemoveElement
  <2>4. compared'[d] = compared[d] + 1 /\ \A c \in Codes \ {d} : compared'[c] = compared[c]
    BY <2>1 DEF TypeOK
  <2>5. ASSUME NEW c \in Codes
        PROVE  IF c \in rows'
               THEN /\ compared'[c] + Cardinality(comparing(c)') <= row'[c].attempts
                    /\ row'[c].attempts <= MAX_ATTEMPTS
               ELSE compared'[c] = 0
    <3>1. CASE c = d
      <4>1. compared[d] + Cardinality(comparing(d)) <= row[d].attempts /\ row[d].attempts <= MAX_ATTEMPTS
        BY <2>1, <1>1 DEF AttemptsCounted
      <4>2. Cardinality(comparing(d)) \in Nat /\ compared[d] \in Nat /\ row[d].attempts \in Nat
        BY <1>1, <1>2, <2>1
      <4>3. comparing(c)' = comparing(d)'
        BY <3>1
      <4>4. Cardinality(comparing(c)') = Cardinality(comparing(d)) - 1
        BY <2>3, <4>3
      <4>5. compared'[c] = compared[d] + 1 /\ row'[c].attempts = row[d].attempts /\ c \in rows'
        BY <1>1, <2>1, <2>4, <3>1
      <4> QED
        BY <1>1, <4>1, <4>2, <4>4, <4>5
    <3>2. CASE c # d
      <4>1. comparing(c)' = comparing(c) /\ compared'[c] = compared[c]
        BY <1>1, <1>2, <2>1, <2>2, <2>3, <2>4, <3>2
      <4> QED
        BY <1>1, <2>1, <3>2, <4>1 DEF AttemptsCounted
    <3> QED
      BY <3>1, <3>2
  <2> QED
    BY <2>5 DEF AttemptsCounted
<1>5. CASE ~compare(q) /\ ~(claim(q) /\ req'[q].at = "compare" /\ req'[q].code = req[q].code)
  <2>1. compared' = compared
    BY <1>5 DEF Steps, requestOtp, begin, scan, invalidate, issue, verifyOtp, claim, consume,
                RequestFails
  <2>2. req'[q].at # "compare"
    BY <1>5, Moved DEF Idle, Begun
  <2>3. \A c \in Codes : comparing(c)' \subseteq comparing(c)
    BY <2>2, Moved DEF comparing
  <2>4. \A c \in Codes : Cardinality(comparing(c)') <= Cardinality(comparing(c))
    BY <1>2, <2>3, FS_Subset
  <2>5. CASE issue(q)
    <3>0. PICK d : d = req[q].code
      OBVIOUS
    <3>1. /\ d \in Codes \ rows /\ rows' = rows \cup {d} /\ row'[d].attempts = 0
          /\ \A c \in rows : row'[c].attempts = row[c].attempts
      BY <2>5, <3>0, Issued
    <3>2. comparing(d)' = {}
      BY <2>3, <3>1 DEF comparing, CodesMade, AtVerify
    <3>3. Cardinality(comparing(d)') = 0
      BY <3>2, FS_EmptySet
    <3>4. ASSUME NEW c \in Codes
          PROVE  IF c \in rows'
                 THEN /\ compared'[c] + Cardinality(comparing(c)') <= row'[c].attempts
                      /\ row'[c].attempts <= MAX_ATTEMPTS
                 ELSE compared'[c] = 0
      <4>1. CASE c = d
        BY <1>1, <2>1, <3>1, <3>3, <4>1 DEF AttemptsCounted
      <4>2. CASE c # d
        BY <1>1, <1>2, <2>1, <2>4, <3>1, <4>2 DEF AttemptsCounted
      <4> QED
        BY <4>1, <4>2
    <3> QED
      BY <3>4 DEF AttemptsCounted
  <2>6. CASE ~issue(q)
    <3>1. rows' = rows /\ \A c \in rows : row'[c].attempts = row[c].attempts
      <4>1. CASE claim(q)
        <5>1. ~(req'[q].at = "compare")
          BY <2>2
        <5>2. ~Goes(q, [req[q] EXCEPT !.at = "compare"])
          <6>1. req[q] \in Verifying
            BY <4>1, Kinds DEF claim, AtVerify
          <6> QED
            BY <5>1, <6>1 DEF Goes, Verifying, TypeOK
        <5> QED
          BY <4>1, <5>2, Claimed
      <4>2. CASE consume(q)
        BY <4>2, Consumed
      <4>3. CASE Aside(q)
        BY <4>3, StoodAside
      <4> QED
        BY <2>6, <4>1, <4>2, <4>3 DEF Steps, Aside
    <3>2. ASSUME NEW c \in Codes
          PROVE  IF c \in rows'
                 THEN /\ compared'[c] + Cardinality(comparing(c)') <= row'[c].attempts
                      /\ row'[c].attempts <= MAX_ATTEMPTS
                 ELSE compared'[c] = 0
      BY <1>1, <1>2, <2>1, <2>4, <3>1 DEF AttemptsCounted
    <3> QED
      BY <3>2 DEF AttemptsCounted
  <2> QED
    BY <2>5, <2>6
<1> QED
  BY <1>3, <1>4, <1>5

----------------------------------------------------------------------------
(* The limit is passed by no more than there are requests *)

busy == {q \in Requests : making(q)}

Counted == Cardinality(recent) + Cardinality(busy) < RATE_LIMIT_MAX + Cardinality(Requests)

LEMMA Counts ==
  /\ IsFiniteSet(recent) /\ Cardinality(recent) \in Nat
  /\ IsFiniteSet(busy) /\ Cardinality(busy) \in Nat
  /\ Cardinality(Requests) \in Nat /\ Cardinality(busy) <= Cardinality(Requests)
<1>1. IsFiniteSet(Codes)
  BY LimitAssumption, FS_Interval DEF Codes
<1>2. recent \in SUBSET Codes /\ busy \in SUBSET Requests
  BY DEF recent, rows, busy
<1>3. IsFiniteSet(recent) /\ IsFiniteSet(busy)
  BY <1>1, <1>2, RequestAssumption, FS_Subset
<1> QED
  BY <1>2, <1>3, RequestAssumption, FS_Subset, FS_CardinalityType

LEMMA CountsAfter ==
  /\ IsFiniteSet(recent') /\ Cardinality(recent') \in Nat
  /\ IsFiniteSet(busy') /\ Cardinality(busy') \in Nat
  /\ Cardinality(busy') <= Cardinality(Requests)
<1>1. IsFiniteSet(Codes)
  BY LimitAssumption, FS_Interval DEF Codes
<1>2. recent' \in SUBSET Codes /\ busy' \in SUBSET Requests
  BY DEF recent, rows, busy
<1>3. IsFiniteSet(recent') /\ IsFiniteSet(busy')
  BY <1>1, <1>2, RequestAssumption, FS_Subset
<1> QED
  BY <1>2, <1>3, RequestAssumption, FS_Subset, FS_CardinalityType

LEMMA LimitKept ==
  ASSUME TypeOK, CodesMade, Counted, NEW q \in Requests, Steps(q)
  PROVE  Counted'
<1>1. /\ Cardinality(recent) \in Nat /\ Cardinality(recent)' \in Nat
      /\ Cardinality(busy) \in Nat /\ Cardinality(busy)' \in Nat
      /\ Cardinality(Requests) \in Nat /\ Cardinality(busy)' <= Cardinality(Requests)
      /\ RATE_LIMIT_MAX \in Nat
  BY Counts, CountsAfter, LimitAssumption
<1>2. CASE requestOtp(q)
  <2>1. recent' = recent
    BY <1>2, StoodAside DEF Aside
  <2> QED
    BY <1>1, <1>2, <2>1 DEF requestOtp, Counted
<1>3. CASE issue(q)
  <2> DEFINE c == req[q].code
  <2>1. recent' \subseteq recent \cup {c} /\ c \notin recent
    BY <1>3, Issued DEF recent
  <2>2. Cardinality(recent') <= Cardinality(recent) + 1
    <3>1. IsFiniteSet(recent \cup {c}) /\ Cardinality(recent \cup {c}) = Cardinality(recent) + 1
      BY <2>1, Counts, FS_AddElement
    <3> QED
      BY <2>1, <3>1, FS_Subset
  <2>3. q \in busy /\ busy' = busy \ {q}
    <3>1. req[q].at = "insert" /\ req'[q] = Idle /\ \A p \in Requests \ {q} : req'[p] = req[p]
      BY <1>3 DEF issue, Goes, TypeOK
    <3> QED
      BY <3>1 DEF busy, making, Idle
  <2>4. Cardinality(busy') = Cardinality(busy) - 1
    BY <2>3, Counts, FS_RemoveElement
  <2> QED
    BY <1>1, <2>2, <2>4 DEF Counted
<1>4. CASE ~requestOtp(q) /\ ~issue(q)
  <2>1. recent' = recent
    BY <1>4, StoodAside, Claimed, Consumed DEF Steps, Aside
  <2>2. making(q)' => making(q)
    BY <1>4, Moved, At DEF making, Idle, Begun
  <2>3. busy' \subseteq busy
    BY <2>2, Moved DEF busy, making
  <2>4. Cardinality(busy') <= Cardinality(busy)
    BY <2>3, Counts, FS_Subset
  <2> QED
    BY <1>1, <2>1, <2>4 DEF Counted
<1> QED
  BY <1>2, <1>3, <1>4

----------------------------------------------------------------------------
(* The invariant *)

EmailInv == /\ TypeOK /\ CodesMade /\ AcceptedOnce /\ NeverWithoutCode
            /\ AttemptsCounted /\ Counted

LEMMA InvInit == Init => EmailInv
<1> SUFFICES ASSUME Init PROVE EmailInv
  OBVIOUS
<1>1. rows = {} /\ recent = {} /\ busy = {} /\ \A q \in Requests : req[q] = Idle
  BY DEF Init, rows, recent, busy, making, Idle
<1>2. CodesMade
  BY <1>1 DEF CodesMade, Begun, AtVerify, Idle
<1>3. AcceptedOnce /\ NeverWithoutCode /\ AttemptsCounted
  BY <1>1 DEF Init, AcceptedOnce, NeverWithoutCode, AttemptsCounted
<1>4. Counted
  BY <1>1, Counts, FS_EmptySet, LimitAssumption DEF Counted
<1> QED
  BY <1>2, <1>3, <1>4, TypeInit DEF EmailInv

LEMMA InvStep == EmailInv /\ [Next]_vars => EmailInv'
<1> SUFFICES ASSUME EmailInv, [Next]_vars PROVE EmailInv'
  OBVIOUS
<1> USE DEF EmailInv
<1>1. CASE \E q \in Requests : Steps(q)
  BY <1>1, TypeStep, MadeOnce, Outcomes, AttemptsKept, LimitKept
<1>2. CASE \E c \in Codes : Ages(c)
  <2>1. PICK c \in Codes : Ages(c)
    BY <1>2
  <2>2. /\ UNCHANGED <<begun, req, compared, accepted>>
        /\ rows' = rows /\ recent' \subseteq recent
        /\ \A d \in rows : /\ row'[d].consumed = row[d].consumed
                           /\ row'[d].attempts = row[d].attempts
    BY <2>1, Older
  <2>3. CodesMade' /\ AcceptedOnce' /\ NeverWithoutCode'
    BY <2>2 DEF CodesMade, Begun, AcceptedOnce, NeverWithoutCode
  <2>4. AttemptsCounted'
    <3>1. \A d : comparing(d)' = comparing(d)
      BY <2>2 DEF comparing
    <3> QED
      BY <2>2, <3>1 DEF AttemptsCounted
  <2>5. Counted'
    <3>1. Cardinality(recent') <= Cardinality(recent)
      BY <2>2, Counts, FS_Subset
    <3>2. busy' = busy
      BY <2>2 DEF busy, making
    <3> QED
      BY <3>1, <3>2, Counts, CountsAfter, LimitAssumption DEF Counted
  <2> QED
    BY <2>3, <2>4, <2>5, TypeStep
<1>3. CASE UNCHANGED vars
  <2>1. UNCHANGED <<begun, row, req, compared, accepted>>
    BY <1>3 DEF vars
  <2>2. CodesMade' /\ AcceptedOnce' /\ NeverWithoutCode'
    BY <2>1 DEF CodesMade, Begun, AcceptedOnce, NeverWithoutCode, rows
  <2>3. AttemptsCounted' /\ Counted'
    BY <2>1 DEF AttemptsCounted, comparing, Counted, recent, rows, busy, making
  <2> QED
    BY <2>2, <2>3, TypeStep
<1> QED
  BY <1>1, <1>2, <1>3 DEF Next, Steps

LEMMA InvAlways == Spec => []EmailInv
  BY InvInit, InvStep, PTL DEF Spec

\* However many submissions arrive at once, a code is compared no more often than it
\* has attempts (otp.ts, the claim).
THEOREM Capped == Spec => []AttemptsCapped
<1>1. EmailInv => AttemptsCapped
  <2> SUFFICES ASSUME EmailInv, NEW c \in Codes PROVE compared[c] <= MAX_ATTEMPTS
    BY DEF AttemptsCapped
  <2>1. compared[c] \in Nat /\ Cardinality(comparing(c)) \in Nat /\ MAX_ATTEMPTS \in Nat
    BY FewComparing, LimitAssumption DEF EmailInv, TypeOK
  <2>2. c \in rows => row[c].attempts \in Nat
    BY DEF EmailInv, TypeOK, Row, rows
  <2> QED
    BY <2>1, <2>2 DEF EmailInv, AttemptsCounted
<1> QED
  BY <1>1, InvAlways, PTL

\* A code works once, and not at all once it was replaced (otp.ts, the consume).
THEOREM Once == Spec => []AcceptedOnce
<1>1. EmailInv => AcceptedOnce
  BY DEF EmailInv
<1> QED
  BY <1>1, InvAlways, PTL

\* The old codes end only when the code that replaces them exists (otp.ts, the
\* transaction of requestOtp).
THEOREM AlwaysOne == Spec => []NeverWithoutCode
<1>1. EmailInv => NeverWithoutCode
  BY DEF EmailInv
<1> QED
  BY <1>1, InvAlways, PTL

\* The limit on codes is passed by no more than there are requests at a time (otp.ts,
\* the count of requestOtp).
THEOREM Limited == Spec => []RateLimitKept
<1>1. EmailInv => RateLimitKept
  BY Counts, LimitAssumption DEF EmailInv, Counted, RateLimitKept
<1> QED
  BY <1>1, InvAlways, PTL
=============================================================================
