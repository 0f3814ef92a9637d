---------------------------- MODULE BillingProofs ----------------------------
(***************************************************************************)
(* The types of billing, for any accounts, requests, terms and bounds, and *)
(* what its CHOOSEs find: the invoice that pays for an account, its latest *)
(* and its first, and the one that Qonto has issued for a request.         *)
(***************************************************************************)
EXTENDS BillingProperties, WellFoundedInduction, TLAPS

----------------------------------------------------------------------------
(* What CHOOSE finds *)

\* Any natural numbers have a least one.
LEMMA LeastNatural ==
  ASSUME NEW T \in SUBSET Nat, T # {}
  PROVE  \E n \in T : \A m \in T : n <= m
<1>1. PICK n \in T : \A m \in T : <<m, n>> \notin OpToRel(<, Nat)
  BY NatLessThanWellFounded, WFMin, Zenon
<1>2. ASSUME NEW m \in T PROVE n <= m
  <2>1. m \in Nat /\ n \in Nat /\ <<m, n>> \notin OpToRel(<, Nat)
    BY <1>1
  <2> QED
    BY <2>1, SMT DEF OpToRel
<1> QED
  BY <1>2

\* Natural numbers with a bound have a greatest one.
LEMMA GreatestNatural ==
  ASSUME NEW B \in Nat, NEW T \in SUBSET (0 .. B), T # {}
  PROVE  \E n \in T : \A m \in T : m <= n
<1> DEFINE below == {B - n : n \in T}
<1>1. below \in SUBSET Nat /\ below # {}
  <2>1. ASSUME NEW n \in T PROVE B - n \in Nat
    <3>1. n \in 0 .. B
      OBVIOUS
    <3> QED
      BY <3>1
  <2> QED
    BY <2>1
<1>2. PICK k \in below : \A l \in below : k <= l
  <2> HIDE DEF below
  <2> QED
    BY <1>1, LeastNatural
<1>3. PICK n \in T : k = B - n
  OBVIOUS
<1>4. ASSUME NEW m \in T PROVE m <= n
  <2>1. B - m \in below
    OBVIOUS
  <2>2. B - n <= B - m
    BY <1>2, <1>3, <2>1
  <2>3. m \in Nat /\ n \in Nat
    BY <1>3
  <2> QED
    BY <2>2, <2>3
<1> QED
  BY <1>4

\* The invoice that pays for an account is one of those that run.
LEMMA ActiveInvoice ==
  ASSUME TypeOK, NEW a \in Accounts, NEW day \in Days, running(a, day) # {}
  PROVE  findActiveInvoice(a, day) \in running(a, day)
<1> DEFINE ends == {i.end : i \in running(a, day)}
<1>1. running(a, day) \subseteq Invoice
  BY DEF running, invoicesOf, TypeOK
<1>2. ends \in SUBSET (0 .. (LastDay + YEAR)) /\ ends # {}
  BY <1>1 DEF Invoice
<1>3. PICK e \in ends : \A f \in ends : f <= e
  <2> HIDE DEF ends
  <2>1. LastDay + YEAR \in Nat
    BY BoundAssumption, TermAssumption
  <2> QED
    BY <1>2, <2>1, GreatestNatural
<1>4. \E i \in running(a, day) : \A j \in running(a, day) : j.end <= i.end
  BY <1>3
<1> QED
  BY <1>4 DEF findActiveInvoice

\* The latest and the first invoice of an account are the ends of its rows.
LEMMA EndsOfLedger ==
  ASSUME TypeOK, NEW a \in Accounts, invoicesOf(a) # {}
  PROVE  /\ latestInvoice(a) \in invoicesOf(a) /\ firstInvoice(a) \in invoicesOf(a)
         /\ \A j \in invoicesOf(a) : /\ j.number <= latestInvoice(a).number
                                     /\ firstInvoice(a).number <= j.number
<1> DEFINE numbers == {i.number : i \in invoicesOf(a)}
<1>1. invoicesOf(a) \subseteq Invoice
  BY DEF invoicesOf, TypeOK
<1>2. numbers \in SUBSET (0 .. LastNumber) /\ numbers # {} /\ numbers \in SUBSET Nat
  BY <1>1 DEF Invoice, Numbers
<1>3. PICK n \in numbers : \A m \in numbers : m <= n
  <2> HIDE DEF numbers
  <2> QED
    BY <1>2, GreatestNatural, BoundAssumption
<1>4. PICK l \in numbers : \A m \in numbers : l <= m
  <2> HIDE DEF numbers
  <2> QED
    BY <1>2, LeastNatural
<1>5. /\ \E i \in invoicesOf(a) : \A j \in invoicesOf(a) : j.number <= i.number
      /\ \E i \in invoicesOf(a) : \A j \in invoicesOf(a) : i.number <= j.number
  BY <1>3, <1>4
<1> QED
  BY <1>5 DEF latestInvoice, firstInvoice

----------------------------------------------------------------------------
(* Types *)

\* The steps of a request that holds its account's row, those at which it has its
\* number, and the requests for which Qonto has issued an invoice.
Numbered == {"mark", "ask", "answer", "credit", "credited"}
Holding == Numbered \cup {"number"}
Issued(r) == r.at \in {"credit", "credited"} \/ (r.at = "answer" /\ r.kind # "cancel")

\* The fields that a running request's kind and step leave filled.
WellFormed(r) ==
    /\ r.at = "read" => r.kind \in {"cancel", "reissue"}
    /\ r.kind \in {"cancel", "reissue"} => r.target \in Numbers
    /\ r.kind = "order" => r.target = None
    /\ r.at \in Holding => r.kind # "renewal"
    /\ r.at \in Numbered => /\ r.number \in Numbers
                            /\ r.kind = "reissue" => r.number + 1 \in Numbers
    /\ r.at \in {"credit", "credited"} => r.kind = "reissue"

RequestsOK ==
    /\ req \in [Requests -> Request \cup {Idle}]
    /\ \A q \in Requests : req[q].at # "idle" => WellFormed(req[q])
    /\ \A q \in Requests : Issued(req[q]) => \E i \in qInvoices : i.number = req[q].number

TypeInv ==
    /\ TypeOK
    /\ RequestsOK
    /\ \A i \in qInvoices : i.replaces # None => i.number + 1 \in Numbers

\* A request that runs has all fields.
LEMMA Running ==
  ASSUME RequestsOK, NEW q \in Requests, req[q].at # "idle"
  PROVE  req[q] \in Request /\ WellFormed(req[q])
  BY DEF RequestsOK, Idle

\* A request that ends leaves the others well-formed.
LEMMA Ends_OK ==
  ASSUME RequestsOK, NEW q \in Requests, req' = [req EXCEPT ![q] = Idle],
         qInvoices \subseteq qInvoices'
  PROVE  RequestsOK'
<1>1. \A p \in Requests : req'[p] = IF p = q THEN Idle ELSE req[p]
  BY DEF RequestsOK
<1>2. Idle.at = "idle"
  BY DEF Idle
<1>3. req' \in [Requests -> Request \cup {Idle}]
  BY DEF RequestsOK
<1>4. ASSUME NEW p \in Requests
      PROVE  /\ req'[p].at # "idle" => WellFormed(req'[p])
             /\ Issued(req'[p]) => \E i \in qInvoices' : i.number = req'[p].number
  BY <1>1, <1>2 DEF RequestsOK, Issued
<1> QED
  BY <1>3, <1>4 DEF RequestsOK

\* A well-formed request can take the place of any other.
LEMMA Goes_OK ==
  ASSUME RequestsOK, NEW q \in Requests, NEW new \in Request, WellFormed(new),
         req' = [req EXCEPT ![q] = new], qInvoices \subseteq qInvoices',
         Issued(new) => \E i \in qInvoices' : i.number = new.number
  PROVE  RequestsOK'
<1>1. \A p \in Requests : req'[p] = IF p = q THEN new ELSE req[p]
  BY DEF RequestsOK
<1>2. req' \in [Requests -> Request \cup {Idle}]
  BY DEF RequestsOK
<1>3. ASSUME NEW p \in Requests
      PROVE  /\ req'[p].at # "idle" => WellFormed(req'[p])
             /\ Issued(req'[p]) => \E i \in qInvoices' : i.number = req'[p].number
  BY <1>1 DEF RequestsOK
<1> QED
  BY <1>2, <1>3 DEF RequestsOK

\* A request that does not move stays well-formed.
LEMMA Stays_OK ==
  ASSUME RequestsOK, UNCHANGED req, qInvoices \subseteq qInvoices'
  PROVE  RequestsOK'
  BY DEF RequestsOK

\* Invoices and credit notes that a request asks for are well-typed.
LEMMA AskedDocuments ==
  ASSUME TypeInv, NEW q \in Requests, req[q].at \in {"ask", "credit"}
  PROVE  /\ req[q].kind # "cancel" => \A end \in Ends(q) : newInvoice(q, end) \in Invoice
         /\ req[q].kind \in {"cancel", "reissue"} => newCredit(q) \in Credit
<1>1. req[q] \in Request /\ WellFormed(req[q])
  BY Running DEF TypeInv
<1>2. req[q].number \in Numbers /\ req[q].account \in Accounts /\ req[q].day \in Days
      /\ req[q].target \in Numbers \cup {None}
  BY <1>1 DEF WellFormed, Request, Numbered
<1>3. ASSUME NEW end \in Ends(q) PROVE end \in 0 .. (LastDay + YEAR)
  BY <1>2, <1>3, BoundAssumption, TermAssumption DEF Ends, Days
<1>4. req[q].kind \in {"cancel", "reissue"} =>
        /\ req[q].target \in Numbers
        /\ req[q].kind = "reissue" => req[q].number + 1 \in Numbers
  BY <1>1 DEF WellFormed, Numbered
<1> QED
  BY <1>2, <1>3, <1>4 DEF newInvoice, newCredit, Invoice, Credit

\* The invoice Qonto has issued for a request.
LEMMA IssuedInvoice ==
  ASSUME TypeInv, NEW q \in Requests, Issued(req[q])
  PROVE  issuedInvoice(q) \in qInvoices /\ issuedInvoice(q) \in Invoice
         /\ issuedInvoice(q).number = req[q].number
<1>1. \E i \in qInvoices : i.number = req[q].number
  BY DEF TypeInv, RequestsOK
<1> QED
  BY <1>1 DEF issuedInvoice, TypeInv, TypeOK

\* A credit note's row is well-typed.
LEMMA CreditRows ==
  ASSUME TypeInv, NEW q \in Requests, NEW owed \in BOOLEAN,
         req[q].at = "credited" \/ (req[q].at = "answer" /\ req[q].kind = "cancel")
  PROVE  creditRow(q, owed) \in CreditRow
<1>1. req[q] \in Request /\ WellFormed(req[q])
  BY Running DEF TypeInv
<1>2. newCredit(q).number \in Numbers /\ req[q].account \in Accounts /\ req[q].target \in Numbers
  BY <1>1 DEF newCredit, WellFormed, Numbered, Request
<1> QED
  BY <1>2 DEF creditRow, CreditRow

\* A request starts with what it needs.
LEMMA StartTypes ==
  ASSUME TypeInv, NEW q \in Requests, NEW a \in Accounts,
         placeOrder(q, a) \/ makeCancel(q, a) \/ reissueInvoice(q, a)
  PROVE  TypeInv'
<1>1. ASSUME NEW r \in Request, WellFormed(r), ~Issued(r), Start(q, r) PROVE TypeInv'
  <2>1. RequestsOK'
    BY <1>1, Goes_OK DEF TypeInv, Start, docVars
  <2> QED
    BY <1>1, <2>1 DEF TypeInv, TypeOK, RequestsOK, Start, docVars, accountVars, Quiet
<1>2. today \in Days
  BY DEF TypeInv, TypeOK
<1>3. CASE placeOrder(q, a)
  <2> DEFINE r == [at |-> "lock", kind |-> "order", account |-> a, day |-> today,
                   target |-> None, owed |-> FALSE, number |-> None]
  <2>1. r \in Request /\ WellFormed(r) /\ ~Issued(r)
    BY <1>2 DEF Request, Steps, Kinds, WellFormed, Issued, Holding, Numbered
  <2> QED
    BY <1>1, <1>3, <2>1 DEF placeOrder
<1>4. CASE makeCancel(q, a)
  <2> DEFINE i == findActiveInvoice(a, today)
             back == moneyBack(a, i, today)
             r == [at |-> IF back THEN "read" ELSE "lock",
                   kind |-> IF back THEN "cancel" ELSE "renewal",
                   account |-> a, day |-> today, target |-> i.number,
                   owed |-> FALSE, number |-> None]
  <2>1. i.number \in Numbers
    <3>1. i \in Invoice
      BY <1>2, <1>4, ActiveInvoice DEF makeCancel, running, invoicesOf, TypeInv, TypeOK
    <3> QED
      BY <3>1 DEF Invoice
  <2> HIDE DEF i, back
  <2>2. r \in Request /\ WellFormed(r) /\ ~Issued(r)
    BY <1>2, <2>1 DEF Request, Steps, Kinds, WellFormed, Issued, Holding, Numbered
  <2>3. Start(q, r)
    BY <1>4 DEF makeCancel, i, back
  <2> QED
    BY <1>1, <2>2, <2>3
<1>5. CASE reissueInvoice(q, a)
  <2> DEFINE n == findActiveInvoice(a, today).number
             r == [at |-> "read", kind |-> "reissue", account |-> a, day |-> today,
                   target |-> n, owed |-> FALSE, number |-> None]
  <2>1. n \in Numbers
    <3>1. findActiveInvoice(a, today) \in Invoice
      BY <1>2, <1>5, ActiveInvoice DEF reissueInvoice, running, invoicesOf, TypeInv, TypeOK
    <3> QED
      BY <3>1 DEF Invoice
  <2> HIDE DEF n
  <2>2. r \in Request /\ WellFormed(r) /\ ~Issued(r)
    BY <1>2, <2>1 DEF Request, Steps, Kinds, WellFormed, Issued, Holding, Numbered
  <2>3. Start(q, r)
    BY <1>5 DEF reissueInvoice, n
  <2> QED
    BY <1>1, <2>2, <2>3
<1> QED
  BY <1>3, <1>4, <1>5

\* A request that runs keeps the types.
LEMMA ProgressTypes ==
  ASSUME TypeInv, NEW q \in Requests, Progress(q)
  PROVE  TypeInv'
<1>0. RequestsOK /\ TypeOK /\ req[q] \in Request /\ WellFormed(req[q]) /\ q \in Requests
  <2>1. req[q].at # "idle"
    BY DEF Progress, ReadStatus, Lock, cancelRenewal, takeDocumentNumber, markOrderCheck,
           QontoIssues, Refused, Unclear, RecordOrder, RecordCancel, ReissueIssued,
           CreditFails, RecordReissue
  <2> QED
    BY <2>1, Running DEF TypeInv
<1>a. req[q].account \in Accounts
  BY <1>0 DEF Request
<1>b. ASSUME NEW cleared \in BOOLEAN, Commit(q, cleared), qInvoices \subseteq qInvoices'
      PROVE  RequestsOK' /\ lock' \in [Accounts -> Requests \cup {None}]
             /\ mark' \in [Accounts -> Numbers \cup {None}]
  <2>1. RequestsOK'
    BY <1>0, <1>b, Ends_OK DEF Commit
  <2> QED
    BY <1>0, <1>b, <2>1 DEF Commit, TypeOK
<1>1. CASE ReadStatus(q)
  <2>1. RequestsOK'
    <3>1. CASE req' = [req EXCEPT ![q] = Idle]
      BY <1>0, <1>1, <3>1, Ends_OK DEF ReadStatus, docVars
    <3>2. ASSUME NEW owed \in BOOLEAN,
                 req' = [req EXCEPT ![q].at = "lock", ![q].owed = owed]
          PROVE  RequestsOK'
      <4> DEFINE new == [req[q] EXCEPT !.at = "lock", !.owed = owed]
      <4>1. new \in Request /\ WellFormed(new) /\ ~Issued(new)
        BY <1>0 DEF Request, Steps, WellFormed, Issued, Holding, Numbered
      <4>2. req' = [req EXCEPT ![q] = new]
        BY <3>2
      <4> HIDE DEF new
      <4> QED
        BY <1>0, <1>1, <4>1, <4>2, Goes_OK DEF ReadStatus, docVars
    <3> QED
      BY <1>1, <3>1, <3>2 DEF ReadStatus
  <2> QED
    BY <1>1, <2>1 DEF TypeInv, TypeOK, RequestsOK, ReadStatus, docVars, accountVars, Quiet
<1>2. CASE Lock(q)
  <2>1. RequestsOK'
    <3>1. CASE req' = [req EXCEPT ![q] = Idle]
      BY <1>0, <1>2, <3>1, Ends_OK DEF Lock, docVars
    <3>2. CASE req' = [req EXCEPT ![q].at = "number"]
      <4> DEFINE new == [req[q] EXCEPT !.at = "number"]
      <4>1. new \in Request /\ WellFormed(new) /\ ~Issued(new)
        BY <1>0, <1>2 DEF Lock, Request, Steps, WellFormed, Issued, Holding, Numbered
      <4>2. req' = [req EXCEPT ![q] = new]
        BY <3>2
      <4> HIDE DEF new
      <4> QED
        BY <1>0, <1>2, <4>1, <4>2, Goes_OK DEF Lock, docVars
    <3> QED
      BY <1>2, <3>1, <3>2 DEF Lock
  <2>2. lock' \in [Accounts -> Requests \cup {None}]
    BY <1>0, <1>2 DEF Lock, TypeOK
  <2> QED
    BY <1>2, <2>1, <2>2 DEF TypeInv, TypeOK, RequestsOK, Lock, docVars, accountVars, Quiet
<1>3. CASE cancelRenewal(q)
  <2>1. RequestsOK'
    BY <1>0, <1>3, Ends_OK DEF cancelRenewal, docVars
  <2>2. stopped' \in [Accounts -> BOOLEAN]
    BY <1>0, <1>3 DEF cancelRenewal, TypeOK
  <2> QED
    BY <1>3, <2>1, <2>2
    DEF TypeInv, TypeOK, RequestsOK, cancelRenewal, docVars, accountVars, Quiet
<1>4. CASE takeDocumentNumber(q)
  <2> DEFINE new == [req[q] EXCEPT !.at = "mark", !.number = counter + 1]
  <2>1. /\ counter + 1 \in Numbers /\ counter + taken(q) \in 0 .. LastNumber
        /\ req[q].kind = "reissue" => counter + 1 + 1 \in Numbers
    BY <1>0, <1>4, BoundAssumption
    DEF takeDocumentNumber, NumbersLeft, taken, TypeOK, Numbers
  <2>2. new \in Request /\ WellFormed(new) /\ ~Issued(new)
    BY <1>0, <1>4, <2>1
    DEF takeDocumentNumber, Request, Steps, WellFormed, Issued, Holding, Numbered
  <2>3. req' = [req EXCEPT ![q] = new]
    BY <1>4 DEF takeDocumentNumber
  <2> HIDE DEF new
  <2>4. RequestsOK'
    BY <1>0, <1>4, <2>2, <2>3, Goes_OK DEF takeDocumentNumber
  <2> QED
    BY <1>4, <2>1, <2>4
    DEF TypeInv, TypeOK, RequestsOK, takeDocumentNumber, accountVars, Quiet
<1>5. CASE markOrderCheck(q)
  <2> DEFINE new == [req[q] EXCEPT !.at = "ask"]
  <2>1. new \in Request /\ WellFormed(new) /\ ~Issued(new)
    BY <1>0, <1>5 DEF markOrderCheck, Request, Steps, WellFormed, Issued, Holding, Numbered
  <2>2. req' = [req EXCEPT ![q] = new]
    BY <1>5 DEF markOrderCheck
  <2> HIDE DEF new
  <2>3. RequestsOK'
    BY <1>0, <1>5, <2>1, <2>2, Goes_OK DEF markOrderCheck, docVars
  <2>4. mark' \in [Accounts -> Numbers \cup {None}]
    <3>1. req[q].number \in Numbers
      BY <1>0, <1>5 DEF markOrderCheck, WellFormed, Numbered
    <3> QED
      BY <1>0, <1>5, <3>1 DEF markOrderCheck, TypeOK
  <2> QED
    BY <1>5, <2>3, <2>4 DEF TypeInv, TypeOK, RequestsOK, markOrderCheck, docVars, Quiet
<1>6. CASE QontoIssues(q)
  <2>1. CASE req[q].at = "ask" /\ req[q].kind = "cancel"
    <3> DEFINE new == [req[q] EXCEPT !.at = "answer"]
    <3>1. new \in Request /\ WellFormed(new) /\ ~Issued(new)
      BY <1>0, <2>1 DEF Request, Steps, WellFormed, Issued, Holding, Numbered
    <3>2. req' = [req EXCEPT ![q] = new]
      BY <1>6, <2>1 DEF QontoIssues
    <3> HIDE DEF new
    <3>3. RequestsOK'
      BY <1>0, <1>6, <2>1, <3>1, <3>2, Goes_OK DEF QontoIssues
    <3>4. qCredits' \subseteq Credit
      BY <1>0, <1>6, <2>1, AskedDocuments DEF QontoIssues, TypeOK
    <3> QED
      BY <1>6, <2>1, <3>3, <3>4 DEF TypeInv, TypeOK, RequestsOK, QontoIssues, accountVars, Quiet
  <2>2. CASE req[q].at = "ask" /\ req[q].kind # "cancel"
    <3> DEFINE new == [req[q] EXCEPT !.at = "answer"]
    <3>1. PICK end \in Ends(q) : qInvoices' = qInvoices \cup {newInvoice(q, end)}
      BY <1>6, <2>2 DEF QontoIssues
    <3>2. new \in Request /\ WellFormed(new)
      BY <1>0, <2>2 DEF Request, Steps, WellFormed, Holding, Numbered
    <3>3. req' = [req EXCEPT ![q] = new]
      BY <1>6, <2>2 DEF QontoIssues
    <3>4. newInvoice(q, end).number = new.number
      BY <1>0 DEF newInvoice, Request
    <3> HIDE DEF new
    <3>5. RequestsOK'
      BY <1>0, <3>1, <3>2, <3>3, <3>4, Goes_OK
    <3>6. qInvoices' \subseteq Invoice
      BY <1>0, <2>2, <3>1, AskedDocuments DEF TypeOK
    <3>7. newInvoice(q, end).replaces # None => newInvoice(q, end).number + 1 \in Numbers
      <4>1. req[q].kind = "order" => req[q].target = None
        BY <1>0, <2>2 DEF WellFormed
      <4> QED
        BY <1>0, <2>2, <4>1 DEF newInvoice, WellFormed, Holding, Numbered, Request, Kinds
    <3>8. \A i \in qInvoices' : i.replaces # None => i.number + 1 \in Numbers
      BY <3>1, <3>7 DEF TypeInv
    <3> QED
      BY <1>6, <2>2, <3>5, <3>6, <3>8 DEF TypeInv, TypeOK, RequestsOK, QontoIssues, accountVars, Quiet
  <2>3. CASE req[q].at = "credit"
    <3> DEFINE new == [req[q] EXCEPT !.at = "credited"]
    <3>1. new \in Request /\ WellFormed(new)
      BY <1>0, <2>3 DEF Request, Steps, WellFormed, Holding, Numbered
    <3>2. req' = [req EXCEPT ![q] = new] /\ UNCHANGED qInvoices
      BY <1>6, <2>3 DEF QontoIssues
    <3>3. \E i \in qInvoices : i.number = new.number
      BY <1>0, <2>3 DEF RequestsOK, Issued, Request
    <3> HIDE DEF new
    <3>4. RequestsOK'
      BY <1>0, <3>1, <3>2, <3>3, Goes_OK
    <3>5. qCredits' \subseteq Credit
      BY <1>0, <1>6, <2>3, AskedDocuments DEF QontoIssues, TypeOK, WellFormed
    <3> QED
      BY <1>6, <2>3, <3>4, <3>5 DEF TypeInv, TypeOK, RequestsOK, QontoIssues, accountVars, Quiet
  <2> QED
    BY <1>6, <2>1, <2>2, <2>3 DEF QontoIssues
<1>7. CASE Refused(q)
  BY <1>7, <1>b DEF TypeInv, TypeOK, RequestsOK, Refused, docVars, Quiet
<1>8. CASE Unclear(q)
  BY <1>8, <1>b DEF TypeInv, TypeOK, RequestsOK, Unclear, docVars, Quiet
<1>9. CASE RecordOrder(q)
  <2>1. invoices' \subseteq Invoice
    BY <1>0, <1>9, IssuedInvoice DEF RecordOrder, TypeOK, Issued
  <2>2. level' \in [Accounts -> Levels] /\ stopped' \in [Accounts -> BOOLEAN]
    BY <1>0, <1>9 DEF RecordOrder, TypeOK, Levels
  <2> QED
    BY <1>9, <1>b, <2>1, <2>2 DEF TypeInv, TypeOK, RequestsOK, RecordOrder, Quiet
<1>10. CASE RecordCancel(q)
  <2>1. credits' \subseteq CreditRow
    BY <1>0, <1>10, CreditRows DEF RecordCancel, TypeOK, Request
  <2>2. level' \in [Accounts -> Levels]
    BY <1>0, <1>10 DEF RecordCancel, TypeOK, Levels
  <2> QED
    BY <1>10, <1>b, <2>1, <2>2 DEF TypeInv, TypeOK, RequestsOK, RecordCancel, Quiet
<1>11. CASE ReissueIssued(q)
  <2> DEFINE new == [req[q] EXCEPT !.at = "credit"]
  <2>1. new \in Request /\ WellFormed(new)
    BY <1>0, <1>11 DEF ReissueIssued, Request, Steps, WellFormed, Holding, Numbered
  <2>2. req' = [req EXCEPT ![q] = new]
    BY <1>11 DEF ReissueIssued
  <2>3. \E i \in qInvoices : i.number = new.number
    BY <1>0, <1>11 DEF ReissueIssued, RequestsOK, Issued, Request
  <2> HIDE DEF new
  <2>4. RequestsOK'
    BY <1>0, <1>11, <2>1, <2>2, <2>3, Goes_OK DEF ReissueIssued, docVars
  <2> QED
    BY <1>11, <2>4 DEF TypeInv, TypeOK, RequestsOK, ReissueIssued, docVars, accountVars, Quiet
<1>12. CASE CreditFails(q)
  <2>1. invoices' \subseteq Invoice
    BY <1>0, <1>12, IssuedInvoice DEF CreditFails, TypeOK, Issued
  <2> QED
    BY <1>12, <1>b, <2>1 DEF TypeInv, TypeOK, RequestsOK, CreditFails, Quiet
<1>13. CASE RecordReissue(q)
  <2>1. invoices' \subseteq Invoice /\ credits' \subseteq CreditRow
    BY <1>0, <1>13, IssuedInvoice, CreditRows DEF RecordReissue, TypeOK, Issued
  <2>2. level' \in [Accounts -> Levels]
    BY <1>0, <1>13 DEF RecordReissue, TypeOK, Levels
  <2> QED
    BY <1>13, <1>b, <2>1, <2>2 DEF TypeInv, TypeOK, RequestsOK, RecordReissue, Quiet
<1> QED
  BY <1>1, <1>2, <1>3, <1>4, <1>5, <1>6, <1>7, <1>8, <1>9, <1>10, <1>11, <1>12, <1>13
  DEF Progress

\* What an admin checks, enters and clears keeps the types.
LEMMA CheckTypes ==
  ASSUME TypeInv, NEW a \in Accounts,
         CheckQonto(a) \/ CheckRunningOrder(a) \/ clearCheckedOrder(a)
  PROVE  TypeInv'
<1>1. RequestsOK'
  BY Stays_OK DEF TypeInv, CheckQonto, CheckRunningOrder, clearCheckedOrder, docVars
<1>2. CASE CheckQonto(a)
  <2> DEFINE found == unrecordedCredits(a) \cup uncreditedReissues(a)
  <2>1. found \subseteq Credit /\ uncreditedReissues(a) \subseteq Credit
    <3>1. ASSUME NEW i \in qInvoices, i.replaces # None
          PROVE  [number |-> i.number + 1, account |-> a, of |-> i.replaces] \in Credit
      <4>1. i \in Invoice /\ i.number + 1 \in Numbers
        BY <3>1 DEF TypeInv, TypeOK
      <4> QED
        BY <3>1, <4>1 DEF Invoice, Credit
    <3>2. uncreditedReissues(a) \subseteq Credit
      BY <3>1 DEF uncreditedReissues
    <3> QED
      BY <3>2 DEF unrecordedCredits, TypeInv, TypeOK
  <2>2. \A c \in found : [number |-> c.number, account |-> a, of |-> c.of,
                          refundOwed |-> c.of \in paid] \in CreditRow
    BY <2>1 DEF Credit, CreditRow
  <2>3. credits' \subseteq CreditRow
    <3>1. credits' = credits \cup {[number |-> c.number, account |-> a, of |-> c.of,
                                    refundOwed |-> c.of \in paid] : c \in found}
      BY <1>2 DEF CheckQonto
    <3> HIDE DEF found
    <3> QED
      BY <2>2, <3>1 DEF TypeInv, TypeOK
  <2>4. qCredits' \subseteq Credit /\ invoices' \subseteq Invoice
    BY <1>2, <2>1 DEF CheckQonto, unrecordedInvoices, TypeInv, TypeOK
  <2>5. level' \in [Accounts -> Levels] /\ seen' \in [Accounts -> Numbers \cup {None}]
    BY <1>2 DEF CheckQonto, TypeInv, TypeOK, Levels
  <2> QED
    BY <1>1, <1>2, <2>3, <2>4, <2>5 DEF CheckQonto, TypeInv, TypeOK
<1>3. CASE CheckRunningOrder(a)
  BY <1>1, <1>3 DEF CheckRunningOrder, TypeInv, TypeOK, docVars, accountVars
<1>4. CASE clearCheckedOrder(a)
  BY <1>1, <1>4 DEF clearCheckedOrder, TypeInv, TypeOK, docVars
<1> QED
  BY <1>2, <1>3, <1>4

\* The hourly run keeps the types.
LEMMA RunTypes ==
  ASSUME TypeInv, Run \/ AbortSweep
  PROVE  TypeInv'
<1>1. RequestsOK'
  BY Stays_OK DEF TypeInv, Run, AbortSweep, nonPaymentCandidates, readLiveInvoice,
                  UnreadableInvoice, applyAndRecord, docVars
<1>2. CASE nonPaymentCandidates
  <2>1. ASSUME NEW a \in Accounts, needsQonto(a)
        PROVE  [account |-> a, level |-> level[a], number |-> latestInvoice(a).number,
                day |-> today, act |-> "read",
                unrecorded |-> lastChange[a] = "revoked" /\ change[a] # "revoked"] \in Candidate
    <3>1. latestInvoice(a) \in Invoice
      BY <2>1, EndsOfLedger DEF needsQonto, invoicesOf, TypeInv, TypeOK
    <3> QED
      BY <3>1 DEF Invoice, Candidate, TypeInv, TypeOK
  <2>2. sweep' \subseteq Candidate
    BY <1>2, <2>1 DEF nonPaymentCandidates
  <2> QED
    BY <1>1, <1>2, <2>2 DEF nonPaymentCandidates, TypeInv, TypeOK, docVars, accountVars
<1>3. ASSUME NEW c \in sweep, readLiveInvoice(c) PROVE TypeInv'
  <2>1. c \in Candidate
    BY DEF TypeInv, TypeOK
  <2>2. ASSUME NEW act \in {"suspend", "reopen"} PROVE [c EXCEPT !.act = act] \in Candidate
    BY <2>1 DEF Candidate
  <2>3. nonPaymentAction(c, qontoStatus(c.number)) \in {"read", "suspend", "reopen"}
    BY DEF nonPaymentAction
  <2>4. sweep' \subseteq Candidate
    BY <1>3, <2>2, <2>3 DEF readLiveInvoice, TypeInv, TypeOK
  <2> QED
    BY <1>1, <1>3, <2>4 DEF readLiveInvoice, TypeInv, TypeOK, docVars, accountVars
<1>4. ASSUME NEW c \in sweep, UnreadableInvoice(c) PROVE TypeInv'
  BY <1>1, <1>4 DEF UnreadableInvoice, TypeInv, TypeOK, docVars, accountVars
<1>5. ASSUME NEW c \in sweep, applyAndRecord(c) PROVE TypeInv'
  <2>1. /\ level' \in [Accounts -> Levels] /\ change' \in [Accounts -> Changes]
        /\ lastChange' \in [Accounts -> Changes]
    BY <1>5 DEF applyAndRecord, TypeInv, TypeOK, Levels, Changes
  <2> QED
    BY <1>1, <1>5, <2>1 DEF applyAndRecord, TypeInv, TypeOK, docVars
<1>6. CASE AbortSweep
  BY <1>1, <1>6 DEF AbortSweep, TypeInv, TypeOK, docVars, accountVars
<1> QED
  BY <1>2, <1>3, <1>4, <1>5, <1>6 DEF Run

\* Payments, waivers, revokes and the clock keep the types.
LEMMA OtherTypes ==
  ASSUME TypeInv,
         \/ \E a \in Accounts : waiveMoneyBack(a) \/ revokeAccess(a) \/ logRevoke(a)
         \/ \E n \in Numbers : PaymentArrives(n)
         \/ Midnight
  PROVE  TypeInv'
<1>1. RequestsOK'
  BY Stays_OK
  DEF TypeInv, waiveMoneyBack, revokeAccess, logRevoke, PaymentArrives, Midnight, docVars
<1>2. ASSUME NEW a \in Accounts, waiveMoneyBack(a) PROVE TypeInv'
  <2> DEFINE i == findActiveInvoice(a, today)
  <2>1. firstInvoice(a) \in Invoice
    BY <1>2, EndsOfLedger DEF waiveMoneyBack, running, invoicesOf, TypeInv, TypeOK
  <2>2. originalInvoice(i.number) = firstInvoice(a).number
    BY <1>2 DEF waiveMoneyBack, moneyBack
  <2>3. waived' \subseteq Numbers
    BY <1>2, <2>1, <2>2 DEF waiveMoneyBack, Invoice, TypeInv, TypeOK
  <2> QED
    BY <1>1, <1>2, <2>3 DEF waiveMoneyBack, TypeInv, TypeOK, accountVars
<1>3. ASSUME NEW a \in Accounts, revokeAccess(a) PROVE TypeInv'
  <2>1. /\ level' \in [Accounts -> Levels] /\ lastChange' \in [Accounts -> Changes]
        /\ unlogged' \subseteq Accounts
    BY <1>3 DEF revokeAccess, TypeInv, TypeOK, Levels, Changes
  <2> QED
    BY <1>1, <1>3, <2>1 DEF revokeAccess, TypeInv, TypeOK, docVars
<1>4. ASSUME NEW n \in Numbers, PaymentArrives(n) PROVE TypeInv'
  BY <1>1, <1>4 DEF PaymentArrives, TypeInv, TypeOK, accountVars
<1>5. CASE Midnight
  <2>1. today' \in Days
    BY <1>5, BoundAssumption DEF Midnight, TypeInv, TypeOK, Days
  <2> QED
    BY <1>1, <1>5, <2>1 DEF Midnight, TypeInv, TypeOK, docVars, accountVars
<1>6. ASSUME NEW a \in Accounts, logRevoke(a) PROVE TypeInv'
  <2>1. change' \in [Accounts -> Changes] /\ unlogged' \subseteq Accounts
    BY <1>6 DEF logRevoke, TypeInv, TypeOK, Changes
  <2> QED
    BY <1>1, <1>6, <2>1 DEF logRevoke, TypeInv, TypeOK, docVars
<1> QED
  BY <1>2, <1>3, <1>4, <1>5, <1>6

LEMMA AbortTypes ==
  ASSUME TypeInv, NEW q \in Requests, Abort(q)
  PROVE  TypeInv'
<1>1. RequestsOK'
  BY Ends_OK DEF TypeInv, Abort, docVars
<1>2. lock' \in [Accounts -> Requests \cup {None}]
  BY DEF Abort, TypeInv, TypeOK
<1> QED
  BY <1>1, <1>2 DEF Abort, TypeInv, TypeOK, docVars, Quiet

LEMMA InitTypes == Init => TypeInv
<1>1. Idle.at = "idle"
  BY DEF Idle
<1>2. Init => RequestsOK
  BY <1>1 DEF Init, RequestsOK, Issued
<1> QED
  BY <1>2, BoundAssumption
  DEF Init, TypeInv, TypeOK, Days, Numbers, Levels, Changes

LEMMA StepTypes == TypeInv /\ [Next]_vars => TypeInv'
<1> SUFFICES ASSUME TypeInv, [Next]_vars PROVE TypeInv'
  OBVIOUS
<1>1. CASE UNCHANGED vars
  BY <1>1, Stays_OK DEF TypeInv, TypeOK, vars, docVars, accountVars
<1>2. CASE Next
  BY <1>2, StartTypes, ProgressTypes, AbortTypes, CheckTypes, OtherTypes, RunTypes DEF Next
<1> QED
  BY <1>1, <1>2

LEMMA TypesAlways == Spec => []TypeInv
  BY InitTypes, StepTypes, PTL DEF Spec

\* Every variable keeps its type, whatever requests break off: in particular what
\* findActiveInvoice, latestInvoice and issuedInvoice look for is there.
THEOREM TypeCorrect == Spec => []TypeOK
<1>1. TypeInv => TypeOK
  BY DEF TypeInv
<1> QED
  BY <1>1, TypesAlways, PTL
=============================================================================
