------------------------ MODULE BillingSafetyProofs ------------------------
(***************************************************************************)
(* The inductive invariants of billing.                                    *)
(*                                                                         *)
(* First: who holds an account's row, and which numbers are spoken for.    *)
(* Then: what Qonto has issued and no row records is marked, while nobody  *)
(* checks an order that still runs: the row lock, and a mark that is       *)
(* committed before Qonto is asked, keep each request to its own document. *)
(***************************************************************************)
EXTENDS BillingProofs

\* A request from the number it takes on holds its account's row, and nobody else does.
LockInv ==
    /\ \A q \in Requests : req[q].at \in Holding => lock[req[q].account] = q
    /\ \A a \in Accounts : lock[a] # None => /\ req[lock[a]].at \in Holding
                                             /\ req[lock[a]].account = a

\* The numbers a request has taken, and those an invoice's request had taken.
usedBy(r) == IF r.kind = "reissue" THEN {r.number, r.number + 1} ELSE {r.number}
heldBy(i) == IF i.replaces = None THEN {i.number} ELSE {i.number, i.number + 1}

\* Numbers are counted, of two requests or two invoices at most one has a number,
\* and so has a credit note, unless it is that of its reissue.
NumbersApart ==
    /\ \A i \in qInvoices : heldBy(i) \subseteq 1 .. counter
    /\ \A c \in qCredits : c.number \in 1 .. counter
    /\ \A q \in Requests : req[q].at \in Numbered => usedBy(req[q]) \subseteq 1 .. counter
    /\ \A p, q \in Requests :
         p # q /\ req[p].at \in Numbered /\ req[q].at \in Numbered
         => usedBy(req[p]) \cap usedBy(req[q]) = {}
    /\ \A i, j \in qInvoices : i # j => heldBy(i) \cap heldBy(j) = {}
    /\ \A i \in qInvoices, c \in qCredits :
         c.number \in heldBy(i) => c.number = i.number + 1 /\ c.of = i.replaces
    /\ \A c, d \in qCredits : c.number = d.number => c = d

\* Before Qonto is asked, a request's numbers are on no document; then only on the
\* invoice it asked for, until the old one is credited.
NumbersFresh ==
    \A q \in Requests :
      /\ req[q].at \in {"mark", "ask"} =>
           \A i \in qInvoices : heldBy(i) \cap usedBy(req[q]) = {}
      /\ Issued(req[q]) =>
           \A i \in qInvoices : heldBy(i) \cap usedBy(req[q]) # {} =>
             /\ i.number = req[q].number
             /\ i.account = req[q].account
             /\ i.replaces = req[q].target
      /\ (req[q].at \in {"mark", "ask", "credit"} \/ (req[q].at = "answer" /\ req[q].kind # "cancel")) =>
           \A c \in qCredits : c.number \notin usedBy(req[q])

NumberInv == TypeInv /\ LockInv /\ NumbersApart /\ NumbersFresh

----------------------------------------------------------------------------
(* Who holds an account's row *)

\* A step that changes one slot leaves the others.
LEMMA OneSlot ==
  ASSUME TypeInv, NEW q \in Requests, NEW new, req' = [req EXCEPT ![q] = new]
  PROVE  \A p \in Requests : req'[p] = IF p = q THEN new ELSE req[p]
  BY DEF TypeInv, RequestsOK

LEMMA IdleHoldsNothing ==
  Idle.at = "idle" /\ Idle.at \notin Holding /\ Idle.at \notin Numbered /\ ~Issued(Idle)
  BY DEF Idle, Holding, Numbered, Issued

\* A request that holds its account's row is the one written there.
LEMMA HolderIsRunning ==
  ASSUME TypeInv, LockInv, NEW a \in Accounts, lock[a] # None
  PROVE  lock[a] \in Requests /\ req[lock[a]].at \in Holding /\ req[lock[a]].account = a
  BY DEF TypeInv, TypeOK, LockInv

\* A step that neither takes nor frees a row.
LEMMA LockMoves ==
  ASSUME TypeInv, LockInv, NEW q \in Requests, NEW new, req' = [req EXCEPT ![q] = new],
         UNCHANGED lock,
         new.at \in Holding <=> req[q].at \in Holding,
         new.at \in Holding => new.account = req[q].account
  PROVE  LockInv'
<1>1. \A p \in Requests : req'[p] = IF p = q THEN new ELSE req[p]
  BY OneSlot
<1>2. \A p \in Requests : req'[p].at \in Holding => lock'[req'[p].account] = p
  BY <1>1 DEF LockInv
<1>3. ASSUME NEW a \in Accounts, lock'[a] # None
      PROVE  req'[lock'[a]].at \in Holding /\ req'[lock'[a]].account = a
  BY <1>1, <1>3, HolderIsRunning
<1> QED
  BY <1>2, <1>3 DEF LockInv

\* A request that ends frees the row that it holds.
LEMMA LockReleases ==
  ASSUME TypeInv, LockInv, NEW q \in Requests, req' = [req EXCEPT ![q] = Idle],
         lock' = [a \in Accounts |-> IF lock[a] = q THEN None ELSE lock[a]]
  PROVE  LockInv'
<1>1. \A p \in Requests : req'[p] = IF p = q THEN Idle ELSE req[p]
  BY OneSlot
<1>2. ASSUME NEW p \in Requests, req'[p].at \in Holding PROVE lock'[req'[p].account] = p
  <2>1. p # q /\ req'[p] = req[p] /\ req[p].at # "idle"
    BY <1>1, <1>2, IdleHoldsNothing DEF Holding, Numbered
  <2>2. req[p].account \in Accounts
    BY <2>1, Running DEF TypeInv, Request
  <2> QED
    BY <1>2, <2>1, <2>2 DEF LockInv
<1>3. ASSUME NEW a \in Accounts, lock'[a] # None
      PROVE  req'[lock'[a]].at \in Holding /\ req'[lock'[a]].account = a
  <2>1. lock'[a] = lock[a] /\ lock[a] # q /\ lock[a] # None
    BY <1>3
  <2> QED
    BY <1>1, <2>1, HolderIsRunning
<1> QED
  BY <1>2, <1>3 DEF LockInv

\* Committing frees the row of the request's account, which is the one it holds.
LEMMA CommitReleases ==
  ASSUME TypeInv, LockInv, NEW q \in Requests, req[q].at \in Holding,
         NEW cleared \in BOOLEAN, Commit(q, cleared)
  PROVE  /\ lock' = [a \in Accounts |-> IF lock[a] = q THEN None ELSE lock[a]]
         /\ req' = [req EXCEPT ![q] = Idle]
         /\ req[q].account \in Accounts
<1>1. req[q].account \in Accounts
  BY Running DEF TypeInv, Request, Holding, Numbered
<1>2. \A a \in Accounts : lock[a] = q <=> a = req[q].account
  BY <1>1, NoneAssumption, HolderIsRunning DEF LockInv
<1>3. lock' = [lock EXCEPT ![req[q].account] = None] /\ lock \in [Accounts -> Requests \cup {None}]
  BY DEF Commit, TypeInv, TypeOK
<1>4. lock' = [a \in Accounts |-> IF lock[a] = q THEN None ELSE lock[a]]
  BY <1>1, <1>2, <1>3
<1> QED
  BY <1>1, <1>4 DEF Commit

LEMMA LockStep ==
  ASSUME TypeInv, LockInv, [Next]_vars
  PROVE  LockInv'
<1>1. ASSUME NEW q \in Requests, NEW a \in Accounts,
             placeOrder(q, a) \/ makeCancel(q, a) \/ reissueInvoice(q, a)
      PROVE  LockInv'
  <2>1. ASSUME NEW r, Start(q, r), r.at \in {"read", "lock"} PROVE LockInv'
    <3>1. r.at \notin Holding /\ req[q].at \notin Holding
      BY <2>1 DEF Start, Holding, Numbered
    <3> QED
      BY <2>1, <3>1, LockMoves DEF Start, accountVars
  <2>2. CASE placeOrder(q, a)
    BY <2>1, <2>2 DEF placeOrder
  <2>3. CASE makeCancel(q, a)
    BY <2>1, <2>3 DEF makeCancel
  <2>4. CASE reissueInvoice(q, a)
    BY <2>1, <2>4 DEF reissueInvoice
  <2> QED
    BY <1>1, <2>2, <2>3, <2>4
<1>2. ASSUME NEW q \in Requests, Progress(q) PROVE LockInv'
  <2>0. req[q].at # "idle" => req[q] \in Request /\ req[q].account \in Accounts
    BY Running DEF TypeInv, Request
  <2>a. ASSUME NEW at \in Steps, req' = [req EXCEPT ![q] = [req[q] EXCEPT !.at = at]],
               req[q].at # "idle", UNCHANGED lock, at \in Holding <=> req[q].at \in Holding
        PROVE  LockInv'
    <3> DEFINE new == [req[q] EXCEPT !.at = at]
    <3>1. new.at = at /\ new.account = req[q].account
      BY <2>0, <2>a DEF Request
    <3> HIDE DEF new
    <3>2. req' = [req EXCEPT ![q] = new]
      BY <2>a DEF new
    <3> QED
      BY <2>a, <3>1, <3>2, LockMoves
  <2>b. ASSUME NEW cleared \in BOOLEAN, Commit(q, cleared), req[q].at \in Holding PROVE LockInv'
    BY <2>b, CommitReleases, LockReleases
  <2>c. ASSUME req' = [req EXCEPT ![q] = Idle], UNCHANGED lock, req[q].at \notin Holding
        PROVE  LockInv'
    BY <2>c, IdleHoldsNothing, LockMoves
  <2>1. CASE ReadStatus(q)
    <3>1. req[q].at \notin Holding /\ req[q] \in Request /\ UNCHANGED lock
      BY <2>0, <2>1 DEF ReadStatus, Holding, Numbered, accountVars
    <3>2. CASE req' = [req EXCEPT ![q] = Idle]
      BY <2>c, <3>1, <3>2
    <3>3. ASSUME NEW owed, req' = [req EXCEPT ![q].at = "lock", ![q].owed = owed] PROVE LockInv'
      <4> DEFINE new == [req[q] EXCEPT !.at = "lock", !.owed = owed]
      <4>1. new.at = "lock" /\ new.at \notin Holding
        BY <3>1 DEF Request, Holding, Numbered
      <4>2. req' = [req EXCEPT ![q] = new]
        BY <3>3
      <4> HIDE DEF new
      <4> QED
        BY <3>1, <4>1, <4>2, LockMoves
    <3> QED
      BY <2>1, <3>2, <3>3 DEF ReadStatus
  <2>2. CASE Lock(q)
    <3>1. req[q].at \notin Holding /\ req[q] \in Request /\ req[q].account \in Accounts
          /\ lock[req[q].account] = None
      BY <2>0, <2>2 DEF Lock, Free, Holding, Numbered
    <3>2. CASE req' = [req EXCEPT ![q] = Idle] /\ UNCHANGED lock
      BY <2>c, <3>1, <3>2
    <3>3. CASE req' = [req EXCEPT ![q].at = "number"] /\ lock' = [lock EXCEPT ![req[q].account] = q]
      <4> DEFINE new == [req[q] EXCEPT !.at = "number"]
      <4>1. new.at \in Holding /\ new.account = req[q].account
        BY <3>1 DEF Request, Holding
      <4>2. req' = [req EXCEPT ![q] = new]
        BY <3>3
      <4> HIDE DEF new
      <4>3. \A p \in Requests : req'[p] = IF p = q THEN new ELSE req[p]
        BY <4>2, OneSlot
      <4>4. \A a \in Accounts : lock'[a] = IF a = req[q].account THEN q ELSE lock[a]
        BY <3>1, <3>3 DEF TypeInv, TypeOK
      <4>5. ASSUME NEW p \in Requests, req'[p].at \in Holding PROVE lock'[req'[p].account] = p
        <5>1. CASE p = q
          BY <3>1, <4>1, <4>3, <4>4, <5>1
        <5>2. CASE p # q
          <6>1. req'[p] = req[p] /\ lock[req[p].account] = p /\ req[p].account \in Accounts
            BY <4>3, <4>5, <5>2, Running DEF LockInv, TypeInv, Request, Holding, Numbered
          <6> QED
            BY <3>1, <4>4, <6>1, NoneAssumption
        <5> QED
          BY <5>1, <5>2
      <4>6. ASSUME NEW a \in Accounts, lock'[a] # None
            PROVE  req'[lock'[a]].at \in Holding /\ req'[lock'[a]].account = a
        BY <3>1, <4>1, <4>3, <4>4, <4>6, HolderIsRunning
      <4> QED
        BY <4>5, <4>6 DEF LockInv
    <3> QED
      BY <2>2, <3>2, <3>3 DEF Lock
  <2>3. CASE cancelRenewal(q)
    BY <2>3, <2>c DEF cancelRenewal, Holding, Numbered
  <2>4. CASE takeDocumentNumber(q)
    <3> DEFINE new == [req[q] EXCEPT !.at = "mark", !.number = counter + 1]
    <3>1. new.at \in Holding /\ new.account = req[q].account /\ req[q].at \in Holding
      BY <2>0, <2>4 DEF takeDocumentNumber, Request, Holding, Numbered
    <3>2. req' = [req EXCEPT ![q] = new] /\ UNCHANGED lock
      BY <2>4 DEF takeDocumentNumber, accountVars
    <3> HIDE DEF new
    <3> QED
      BY <3>1, <3>2, LockMoves
  <2>5. CASE markOrderCheck(q) \/ QontoIssues(q) \/ ReissueIssued(q)
    BY <2>5, <2>a DEF markOrderCheck, QontoIssues, ReissueIssued, accountVars, Steps,
                      Holding, Numbered
  <2>6. CASE Refused(q) \/ Unclear(q) \/ RecordOrder(q) \/ RecordCancel(q) \/ CreditFails(q)
             \/ RecordReissue(q)
    BY <2>6, <2>b DEF Refused, Unclear, RecordOrder, RecordCancel, CreditFails, RecordReissue,
                      Holding, Numbered
  <2> QED
    BY <1>2, <2>1, <2>2, <2>3, <2>4, <2>5, <2>6 DEF Progress
<1>3. ASSUME NEW q \in Requests, Abort(q) PROVE LockInv'
  BY <1>3, LockReleases DEF Abort
<1>4. CASE UNCHANGED <<req, lock>>
  BY <1>4 DEF LockInv
<1>5. CASE UNCHANGED vars
  BY <1>4, <1>5 DEF vars, accountVars
<1> QED
  BY <1>1, <1>2, <1>3, <1>4, <1>5
  DEF Next, Run, CheckQonto, CheckRunningOrder, clearCheckedOrder, waiveMoneyBack, revokeAccess,
      logRevoke, PaymentArrives, nonPaymentCandidates, readLiveInvoice, UnreadableInvoice, applyAndRecord,
      AbortSweep, Midnight, accountVars

----------------------------------------------------------------------------
(* Which numbers are spoken for *)

\* The numbers of a request or an invoice.
LEMMA NumberTypes ==
  ASSUME TypeInv
  PROVE  /\ counter \in Nat
         /\ \A q \in Requests : req[q].at \in Numbered =>
              /\ req[q].number \in Nat /\ req[q] \in Request /\ WellFormed(req[q])
         /\ \A i \in qInvoices : i.number \in Nat /\ i \in Invoice
         /\ \A c \in qCredits : c.number \in Nat /\ c \in Credit
<1>1. \A q \in Requests : req[q].at \in Numbered =>
        req[q].number \in Nat /\ req[q] \in Request /\ WellFormed(req[q])
  <2>1. ASSUME NEW q \in Requests, req[q].at \in Numbered
        PROVE  req[q].number \in Nat /\ req[q] \in Request /\ WellFormed(req[q])
    <3>1. req[q] \in Request /\ WellFormed(req[q])
      BY <2>1, Running DEF TypeInv, Numbered
    <3> QED
      BY <2>1, <3>1 DEF WellFormed, Numbers
  <2> QED
    BY <2>1
<1> QED
  BY <1>1 DEF TypeInv, TypeOK, Invoice, Credit, Numbers

\* A step that issues nothing, takes no number and gives no request a new stage.
LEMMA NumbersKept ==
  ASSUME TypeInv, NumbersApart, NumbersFresh, NEW q \in Requests, NEW new,
         req' = [req EXCEPT ![q] = new],
         UNCHANGED <<counter, qInvoices, qCredits>>,
         new.at \in Numbered =>
           /\ req[q].at \in Numbered
           /\ new.number = req[q].number /\ new.kind = req[q].kind
           /\ new.account = req[q].account /\ new.target = req[q].target,
         new.at \in {"mark", "ask"} => req[q].at \in {"mark", "ask"},
         Issued(new) => Issued(req[q]),
         new.at = "credit" => req[q].at = "answer" /\ req[q].kind # "cancel",
         new.at # "answer"
  PROVE  NumbersApart' /\ NumbersFresh'
<1>1. \A p \in Requests : req'[p] = IF p = q THEN new ELSE req[p]
  BY OneSlot
<1>2. new.at \in Numbered => usedBy(new) = usedBy(req[q])
  BY DEF usedBy
<1>3. NumbersApart'
  <2>1. \A p \in Requests : req'[p].at \in Numbered =>
          req[p].at \in Numbered /\ usedBy(req'[p]) = usedBy(req[p])
    BY <1>1, <1>2
  <2> QED
    BY <2>1 DEF NumbersApart
<1>4. new.at \in {"mark", "ask", "credit"} \/ Issued(new) => new.at \in Numbered
  BY DEF Issued, Numbered
<1>5. NumbersFresh'
  BY <1>1, <1>2, <1>4 DEF NumbersFresh
<1> QED
  BY <1>3, <1>5

LEMMA NumbersStill ==
  ASSUME NumbersApart, NumbersFresh, UNCHANGED <<req, counter, qInvoices, qCredits>>
  PROVE  NumbersApart' /\ NumbersFresh'
  BY DEF NumbersApart, NumbersFresh

\* A request that ends or starts has no number.
LEMMA NumbersEnd ==
  ASSUME TypeInv, NumbersApart, NumbersFresh, NEW q \in Requests, NEW new,
         req' = [req EXCEPT ![q] = new],
         UNCHANGED <<counter, qInvoices, qCredits>>,
         new.at \in {"idle", "read", "lock", "number"}
  PROVE  NumbersApart' /\ NumbersFresh'
<1>1. new.at \notin Numbered /\ ~Issued(new)
  BY DEF Numbered, Issued
<1> QED
  BY <1>1, NumbersKept

\* The numbers a request takes are new.
LEMMA NumbersTaken ==
  ASSUME TypeInv, NumbersApart, NumbersFresh, NEW q \in Requests, takeDocumentNumber(q)
  PROVE  NumbersApart' /\ NumbersFresh'
<1> DEFINE new == [req[q] EXCEPT !.at = "mark", !.number = counter + 1]
<1>1. req[q] \in Request
  BY Running DEF TypeInv, takeDocumentNumber
<1>2. /\ new.at = "mark" /\ new.number = counter + 1 /\ new.kind = req[q].kind
      /\ new.at \in Numbered /\ ~Issued(new)
  BY <1>1 DEF Request, Numbered, Issued
<1>3. req' = [req EXCEPT ![q] = new] /\ UNCHANGED <<qInvoices, qCredits>>
      /\ counter' = counter + taken(q)
  BY DEF takeDocumentNumber
<1> HIDE DEF new
<1>4. \A p \in Requests : req'[p] = IF p = q THEN new ELSE req[p]
  BY <1>3, OneSlot
<1>5. /\ counter \in Nat /\ counter' \in Nat /\ counter < counter'
      /\ usedBy(new) \subseteq (counter + 1) .. counter'
      /\ usedBy(new) \cap (1 .. counter) = {}
  BY <1>2, <1>3, NumberTypes DEF usedBy, taken
<1>6. 1 .. counter \subseteq 1 .. counter' /\ usedBy(new) \subseteq 1 .. counter'
  BY <1>5
<1>7. NumbersApart'
  <2>1. \A p, r \in Requests :
          p # r /\ req'[p].at \in Numbered /\ req'[r].at \in Numbered
          => usedBy(req'[p]) \cap usedBy(req'[r]) = {}
    BY <1>4, <1>5 DEF NumbersApart
  <2>2. \A p \in Requests : req'[p].at \in Numbered => usedBy(req'[p]) \subseteq 1 .. counter'
    BY <1>4, <1>6 DEF NumbersApart
  <2>3. /\ \A i \in qInvoices' : heldBy(i) \subseteq 1 .. counter'
        /\ \A c \in qCredits' : c.number \in 1 .. counter'
    BY <1>3, <1>6 DEF NumbersApart
  <2> QED
    BY <1>3, <2>1, <2>2, <2>3 DEF NumbersApart
<1>8. NumbersFresh'
  <2>1. /\ \A i \in qInvoices : heldBy(i) \cap usedBy(new) = {}
        /\ \A c \in qCredits : c.number \notin usedBy(new)
    BY <1>5 DEF NumbersApart
  <2> QED
    BY <1>2, <1>3, <1>4, <2>1 DEF NumbersFresh
<1> QED
  BY <1>7, <1>8

\* Qonto issues documents under the numbers its requests took.
LEMMA NumbersIssued ==
  ASSUME TypeInv, NumbersApart, NumbersFresh, NEW q \in Requests, QontoIssues(q)
  PROVE  NumbersApart' /\ NumbersFresh'
<1>0. req[q] \in Request /\ WellFormed(req[q]) /\ req[q].at \in Numbered
  BY Running DEF TypeInv, QontoIssues, Numbered
<1> DEFINE after(at) == [req[q] EXCEPT !.at = at]
<1>1. ASSUME NEW at \in {"answer", "credited"}
      PROVE  /\ after(at).at = at /\ after(at).number = req[q].number
             /\ after(at).kind = req[q].kind /\ after(at).account = req[q].account
             /\ after(at).target = req[q].target /\ usedBy(after(at)) = usedBy(req[q])
             /\ after(at).at \in Numbered
  BY <1>0, <1>1 DEF Request, usedBy, Numbered
<1>2. PICK at \in {"answer", "credited"} : req' = [req EXCEPT ![q] = after(at)]
  BY DEF QontoIssues
<1> DEFINE new == after(at)
<1>3. \A p \in Requests : req'[p] = IF p = q THEN new ELSE req[p]
  BY <1>2, OneSlot
<1>4. /\ new.at = at /\ new.number = req[q].number /\ new.kind = req[q].kind
      /\ new.account = req[q].account /\ new.target = req[q].target
      /\ usedBy(new) = usedBy(req[q]) /\ new.at \in Numbered
  BY <1>1
<1> HIDE DEF after, new
<1>a. counter' = counter
  BY DEF QontoIssues
<1>b. /\ \A p \in Requests : req'[p].at \in Numbered <=> req[p].at \in Numbered
      /\ \A p \in Requests : usedBy(req'[p]) = usedBy(req[p])
  BY <1>0, <1>3, <1>4
<1>c. /\ \A p \in Requests : req'[p].at \in Numbered => usedBy(req'[p]) \subseteq 1 .. counter'
      /\ \A p, r \in Requests :
           p # r /\ req'[p].at \in Numbered /\ req'[r].at \in Numbered
           => usedBy(req'[p]) \cap usedBy(req'[r]) = {}
  BY <1>a, <1>b DEF NumbersApart
<1>5. CASE req[q].at = "ask" /\ req[q].kind = "cancel"
  <2> DEFINE c == newCredit(q)
  <2>1. /\ c.number \in usedBy(req[q]) /\ qCredits' = qCredits \cup {c}
        /\ UNCHANGED qInvoices /\ req'[q].at = "answer" /\ req'[q].kind = "cancel"
    <3>1. c.number = req[q].number /\ usedBy(req[q]) = {req[q].number}
      BY <1>5 DEF newCredit, usedBy
    <3>2. req'[q].at = "answer"
      BY <1>0, <1>5 DEF QontoIssues, TypeInv, RequestsOK, Request
    <3> QED
      BY <1>3, <1>4, <1>5, <3>1, <3>2 DEF QontoIssues
  <2> HIDE DEF c
  <2>2. /\ \A i \in qInvoices : heldBy(i) \cap usedBy(req[q]) = {}
        /\ \A d \in qCredits : d.number \notin usedBy(req[q])
    BY <1>5 DEF NumbersFresh
  <2>3. c.number \in 1 .. counter
    BY <1>0, <2>1 DEF NumbersApart
  <2>4. /\ \A i \in qInvoices, d \in qCredits' :
             d.number \in heldBy(i) => d.number = i.number + 1 /\ d.of = i.replaces
        /\ \A d, e \in qCredits' : d.number = e.number => d = e
    BY <2>1, <2>2 DEF NumbersApart
  <2>5. NumbersApart'
    BY <1>a, <1>c, <2>1, <2>3, <2>4 DEF NumbersApart
  <2>6. ~Issued(req'[q])
    BY <2>1 DEF Issued
  <2>7. \A p \in Requests : p # q /\ req[p].at \in Numbered => c.number \notin usedBy(req[p])
    BY <1>0, <2>1 DEF NumbersApart
  <2>8. ASSUME NEW p \in Requests, p # q, NEW d \in qCredits',
               req[p].at \in {"mark", "ask", "credit"} \/ (req[p].at = "answer" /\ req[p].kind # "cancel")
        PROVE  d.number \notin usedBy(req[p])
    BY <2>1, <2>7, <2>8 DEF NumbersFresh, Numbered
  <2>9. NumbersFresh'
    BY <1>3, <2>1, <2>6, <2>8 DEF NumbersFresh
  <2> QED
    BY <2>5, <2>9
<1>6. CASE req[q].at = "ask" /\ req[q].kind # "cancel"
  <2>0. PICK end \in Ends(q) : qInvoices' = qInvoices \cup {newInvoice(q, end)}
    BY <1>6 DEF QontoIssues
  <2> DEFINE n == newInvoice(q, end)
  <2>1. /\ heldBy(n) = usedBy(req[q])
        /\ n.number = req[q].number /\ n.account = req[q].account /\ n.replaces = req[q].target
    <3>1. req[q].kind = "order" \/ req[q].kind = "reissue"
      BY <1>0, <1>6 DEF WellFormed, Holding, Request, Kinds
    <3>2. req[q].kind = "order" <=> req[q].target = None
      BY <1>0, <3>1, NoneAssumption DEF WellFormed, Numbers
    <3> QED
      BY <3>1, <3>2 DEF newInvoice, heldBy, usedBy
  <2>2. UNCHANGED qCredits /\ req'[q].at = "answer" /\ req'[q].kind # "cancel"
    <3>1. req'[q].at = "answer"
      BY <1>0, <1>6 DEF QontoIssues, TypeInv, RequestsOK, Request
    <3> QED
      BY <1>3, <1>4, <1>6, <3>1 DEF QontoIssues
  <2> HIDE DEF n
  <2>3. qInvoices' = qInvoices \cup {n}
    BY <2>0 DEF n
  <2>4. /\ \A i \in qInvoices : heldBy(i) \cap usedBy(req[q]) = {}
        /\ \A d \in qCredits : d.number \notin usedBy(req[q])
    BY <1>6 DEF NumbersFresh
  <2>5. /\ \A i \in qInvoices' : heldBy(i) \subseteq 1 .. counter
        /\ \A i, j \in qInvoices' : i # j => heldBy(i) \cap heldBy(j) = {}
        /\ \A i \in qInvoices', d \in qCredits :
             d.number \in heldBy(i) => d.number = i.number + 1 /\ d.of = i.replaces
    BY <1>0, <2>1, <2>3, <2>4 DEF NumbersApart
  <2>6. NumbersApart'
    BY <1>a, <1>c, <2>2, <2>5 DEF NumbersApart
  <2>7. \A p \in Requests : p # q /\ req[p].at \in Numbered => heldBy(n) \cap usedBy(req[p]) = {}
    BY <1>0, <2>1 DEF NumbersApart
  <2>8. ASSUME NEW p \in Requests, p # q
        PROVE  /\ req[p].at \in {"mark", "ask"} =>
                    \A i \in qInvoices' : heldBy(i) \cap usedBy(req[p]) = {}
               /\ Issued(req[p]) =>
                    \A i \in qInvoices' : heldBy(i) \cap usedBy(req[p]) # {} =>
                      i.number = req[p].number /\ i.account = req[p].account
                      /\ i.replaces = req[p].target
    <3>1. req[p].at \in {"mark", "ask"} \/ Issued(req[p]) => req[p].at \in Numbered
      BY DEF Issued, Numbered
    <3> QED
      BY <2>3, <2>7, <2>8, <3>1 DEF NumbersFresh
  <2>9. \A i \in qInvoices' : heldBy(i) \cap usedBy(req[q]) # {} =>
          i.number = req[q].number /\ i.account = req[q].account /\ i.replaces = req[q].target
    BY <2>1, <2>3, <2>4
  <2>10. NumbersFresh'
    <3>1. \A p \in Requests : p # q => req'[p] = req[p]
      BY <1>3
    <3>2. /\ usedBy(req'[q]) = usedBy(req[q]) /\ req'[q].number = req[q].number
          /\ req'[q].account = req[q].account /\ req'[q].target = req[q].target
      BY <1>3, <1>4
    <3> QED
      BY <2>2, <2>4, <2>8, <2>9, <3>1, <3>2 DEF NumbersFresh
  <2> QED
    BY <2>6, <2>10
<1>7. CASE req[q].at = "credit"
  <2> DEFINE c == newCredit(q)
  <2>1. /\ c.number = req[q].number + 1 /\ c.number \in usedBy(req[q]) /\ c.of = req[q].target
        /\ qCredits' = qCredits \cup {c}
        /\ UNCHANGED qInvoices /\ req'[q].at = "credited"
    <3>1. req[q].kind = "reissue"
      BY <1>0, <1>7 DEF WellFormed
    <3>2. req'[q].at = "credited"
      BY <1>0, <1>7 DEF QontoIssues, TypeInv, RequestsOK, Request
    <3> QED
      BY <1>7, <3>1, <3>2 DEF QontoIssues, newCredit, usedBy
  <2> HIDE DEF c
  <2>2. /\ \A i \in qInvoices : heldBy(i) \cap usedBy(req[q]) # {} =>
             i.number = req[q].number /\ i.account = req[q].account /\ i.replaces = req[q].target
        /\ \A d \in qCredits : d.number \notin usedBy(req[q])
    <3>1. Issued(req[q])
      BY <1>7 DEF Issued
    <3> QED
      BY <1>7, <3>1 DEF NumbersFresh
  <2>3. c.number \in 1 .. counter
    BY <1>0, <2>1 DEF NumbersApart
  <2>4. /\ \A i \in qInvoices, d \in qCredits' :
             d.number \in heldBy(i) => d.number = i.number + 1 /\ d.of = i.replaces
        /\ \A d, e \in qCredits' : d.number = e.number => d = e
    BY <2>1, <2>2 DEF NumbersApart
  <2>5. NumbersApart'
    BY <1>a, <1>c, <2>1, <2>3, <2>4 DEF NumbersApart
  <2>6. \A p \in Requests : p # q /\ req[p].at \in Numbered => c.number \notin usedBy(req[p])
    BY <1>0, <2>1 DEF NumbersApart
  <2>7. ASSUME NEW p \in Requests, p # q, NEW d \in qCredits',
               req[p].at \in {"mark", "ask", "credit"} \/ (req[p].at = "answer" /\ req[p].kind # "cancel")
        PROVE  d.number \notin usedBy(req[p])
    BY <2>1, <2>6, <2>7 DEF NumbersFresh, Numbered
  <2>8. NumbersFresh'
    <3>1. \A p \in Requests : p # q => req'[p] = req[p]
      BY <1>3
    <3>2. /\ usedBy(req'[q]) = usedBy(req[q]) /\ req'[q].number = req[q].number
          /\ req'[q].account = req[q].account /\ req'[q].target = req[q].target
      BY <1>3, <1>4
    <3> QED
      BY <2>1, <2>2, <2>7, <3>1, <3>2 DEF NumbersFresh
  <2> QED
    BY <2>5, <2>8
<1> QED
  BY <1>5, <1>6, <1>7 DEF QontoIssues

\* The credit note that an admin has Qonto issue gets the number its reissue took.
LEMMA NumbersChecked ==
  ASSUME TypeInv, LockInv, NumbersApart, NumbersFresh, NEW a \in Accounts, CheckQonto(a)
  PROVE  NumbersApart' /\ NumbersFresh'
<1>1. /\ UNCHANGED <<req, counter, qInvoices>>
      /\ qCredits' = qCredits \cup uncreditedReissues(a)
  BY DEF CheckQonto
<1>2. ASSUME NEW c \in uncreditedReissues(a)
      PROVE  \E i \in qInvoices :
               /\ i.account = a /\ c.number \in heldBy(i)
               /\ c = [number |-> i.number + 1, account |-> a, of |-> i.replaces]
               /\ \A d \in qCredits : d.of # c.of
  BY <1>2 DEF uncreditedReissues, heldBy
<1>3. ASSUME NEW c \in uncreditedReissues(a), NEW d \in qCredits
      PROVE  c.number # d.number
  BY <1>2 DEF NumbersApart
<1>4. ASSUME NEW c \in uncreditedReissues(a), NEW d \in uncreditedReissues(a),
             c.number = d.number
      PROVE  c = d
  <2>1. PICK i \in qInvoices : c.number \in heldBy(i) /\
             c = [number |-> i.number + 1, account |-> a, of |-> i.replaces]
    BY <1>2
  <2>2. PICK j \in qInvoices : d.number \in heldBy(j) /\
             d = [number |-> j.number + 1, account |-> a, of |-> j.replaces]
    BY <1>2
  <2>3. i = j
    BY <1>4, <2>1, <2>2 DEF NumbersApart
  <2> QED
    BY <2>1, <2>2, <2>3
<1>5. ASSUME NEW c \in uncreditedReissues(a)
      PROVE  /\ c.number \in 1 .. counter
             /\ \A i \in qInvoices : c.number \in heldBy(i) =>
                  c.number = i.number + 1 /\ c.of = i.replaces
  <2>1. PICK i \in qInvoices : c.number \in heldBy(i) /\
             c = [number |-> i.number + 1, account |-> a, of |-> i.replaces]
    BY <1>2
  <2> QED
    BY <2>1 DEF NumbersApart
<1>6. NumbersApart'
  BY <1>1, <1>3, <1>4, <1>5 DEF NumbersApart
<1>7. ASSUME NEW p \in Requests, NEW c \in uncreditedReissues(a),
             req[p].at \in {"mark", "ask", "credit"} \/ (req[p].at = "answer" /\ req[p].kind # "cancel")
      PROVE  c.number \notin usedBy(req[p])
  <2>1. PICK i \in qInvoices : i.account = a /\ c.number \in heldBy(i)
    BY <1>2
  <2>2. CASE req[p].at \in {"mark", "ask"}
    BY <2>1, <2>2 DEF NumbersFresh
  <2>3. CASE Issued(req[p])
    <3>1. lock[req[p].account] = p
      BY <2>3 DEF LockInv, Issued, Holding, Numbered
    <3>2. req[p].account # a
      BY <3>1, NoneAssumption DEF CheckQonto, Free
    <3> QED
      BY <2>1, <2>3, <3>2 DEF NumbersFresh
  <2> QED
    BY <1>7, <2>2, <2>3 DEF Issued
<1>8. NumbersFresh'
  BY <1>1, <1>7 DEF NumbersFresh
<1> QED
  BY <1>6, <1>8

LEMMA NumbersStep ==
  ASSUME NumberInv, [Next]_vars
  PROVE  NumbersApart' /\ NumbersFresh'
<1>0. TypeInv /\ LockInv /\ NumbersApart /\ NumbersFresh
  BY DEF NumberInv
<1>1. ASSUME NEW q \in Requests, NEW a \in Accounts,
             placeOrder(q, a) \/ makeCancel(q, a) \/ reissueInvoice(q, a)
      PROVE  NumbersApart' /\ NumbersFresh'
  <2>1. ASSUME NEW r, Start(q, r), r.at \in {"read", "lock"}
        PROVE  NumbersApart' /\ NumbersFresh'
    BY <1>0, <2>1, NumbersEnd DEF Start, docVars
  <2>2. CASE placeOrder(q, a)
    BY <2>1, <2>2 DEF placeOrder
  <2>3. CASE makeCancel(q, a)
    BY <2>1, <2>3 DEF makeCancel
  <2>4. CASE reissueInvoice(q, a)
    BY <2>1, <2>4 DEF reissueInvoice
  <2> QED
    BY <1>1, <2>2, <2>3, <2>4
<1>2. ASSUME NEW q \in Requests, Progress(q)
      PROVE  NumbersApart' /\ NumbersFresh'
  <2>0. req[q].at # "idle" => req[q] \in Request
    BY <1>0, Running DEF TypeInv
  <2>a. ASSUME req' = [req EXCEPT ![q] = Idle], UNCHANGED <<counter, qInvoices, qCredits>>
        PROVE  NumbersApart' /\ NumbersFresh'
    BY <1>0, <2>a, IdleHoldsNothing, NumbersEnd
  <2>1. CASE ReadStatus(q)
    <3>1. ASSUME NEW owed, req' = [req EXCEPT ![q].at = "lock", ![q].owed = owed]
          PROVE  NumbersApart' /\ NumbersFresh'
      <4> DEFINE new == [req[q] EXCEPT !.at = "lock", !.owed = owed]
      <4>1. new.at = "lock"
        BY <2>0, <2>1 DEF ReadStatus, Request
      <4>2. req' = [req EXCEPT ![q] = new]
        BY <3>1
      <4> HIDE DEF new
      <4> QED
        BY <1>0, <2>1, <4>1, <4>2, NumbersEnd DEF ReadStatus, docVars
    <3> QED
      BY <2>1, <2>a, <3>1 DEF ReadStatus, docVars
  <2>2. CASE Lock(q)
    <3>1. CASE req' = [req EXCEPT ![q].at = "number"]
      <4> DEFINE new == [req[q] EXCEPT !.at = "number"]
      <4>1. new.at = "number"
        BY <2>0, <2>2 DEF Lock, Request
      <4>2. req' = [req EXCEPT ![q] = new]
        BY <3>1
      <4> HIDE DEF new
      <4> QED
        BY <1>0, <2>2, <4>1, <4>2, NumbersEnd DEF Lock, docVars
    <3> QED
      BY <2>2, <2>a, <3>1 DEF Lock, docVars
  <2>3. CASE takeDocumentNumber(q)
    BY <1>0, <2>3, NumbersTaken
  <2>4. CASE markOrderCheck(q)
    <3> DEFINE new == [req[q] EXCEPT !.at = "ask"]
    <3>1. /\ new.at = "ask" /\ new.number = req[q].number /\ new.kind = req[q].kind
          /\ new.account = req[q].account /\ new.target = req[q].target
      BY <2>0, <2>4 DEF markOrderCheck, Request
    <3>2. req' = [req EXCEPT ![q] = new] /\ req[q].at = "mark"
          /\ UNCHANGED <<counter, qInvoices, qCredits>>
      BY <2>4 DEF markOrderCheck, docVars
    <3> HIDE DEF new
    <3> QED
      BY <1>0, <3>1, <3>2, NumbersKept DEF Numbered, Issued
  <2>5. CASE QontoIssues(q)
    BY <1>0, <2>5, NumbersIssued
  <2>6. CASE ReissueIssued(q)
    <3> DEFINE new == [req[q] EXCEPT !.at = "credit"]
    <3>1. /\ new.at = "credit" /\ new.number = req[q].number /\ new.kind = req[q].kind
          /\ new.account = req[q].account /\ new.target = req[q].target
      BY <2>0, <2>6 DEF ReissueIssued, Request
    <3>2. req' = [req EXCEPT ![q] = new] /\ req[q].at = "answer" /\ req[q].kind = "reissue"
          /\ UNCHANGED <<counter, qInvoices, qCredits>>
      BY <2>6 DEF ReissueIssued, docVars
    <3> HIDE DEF new
    <3> QED
      BY <1>0, <3>1, <3>2, NumbersKept DEF Numbered, Issued
  <2>7. CASE cancelRenewal(q)
    BY <2>7, <2>a DEF cancelRenewal, docVars
  <2>8. CASE Refused(q) \/ Unclear(q) \/ RecordOrder(q) \/ RecordCancel(q) \/ CreditFails(q)
             \/ RecordReissue(q)
    BY <2>8, <2>a DEF Refused, Unclear, RecordOrder, RecordCancel, CreditFails, RecordReissue,
                      Commit, docVars
  <2> QED
    BY <1>2, <2>1, <2>2, <2>3, <2>4, <2>5, <2>6, <2>7, <2>8 DEF Progress
<1>3. ASSUME NEW q \in Requests, Abort(q) PROVE NumbersApart' /\ NumbersFresh'
  BY <1>0, <1>3, IdleHoldsNothing, NumbersEnd DEF Abort, docVars
<1>4. ASSUME NEW a \in Accounts, CheckQonto(a) PROVE NumbersApart' /\ NumbersFresh'
  BY <1>0, <1>4, NumbersChecked
<1>5. CASE UNCHANGED <<req, counter, qInvoices, qCredits>>
  BY <1>0, <1>5, NumbersStill
<1>6. CASE UNCHANGED vars
  BY <1>5, <1>6 DEF vars, docVars
<1> QED
  BY <1>1, <1>2, <1>3, <1>4, <1>5, <1>6
  DEF Next, Run, CheckRunningOrder, clearCheckedOrder, waiveMoneyBack, revokeAccess, logRevoke,
      PaymentArrives, nonPaymentCandidates, readLiveInvoice, UnreadableInvoice, applyAndRecord,
      AbortSweep, Midnight, docVars

LEMMA NumbersAtStart == Init => NumberInv
<1>1. Init => \A q \in Requests : req[q].at \notin Holding \cup Numbered /\ ~Issued(req[q])
  BY IdleHoldsNothing DEF Init
<1>2. Init => LockInv
  BY <1>1 DEF Init, LockInv
<1>3. Init => NumbersApart /\ NumbersFresh
  BY <1>1 DEF Init, NumbersApart, NumbersFresh, Numbered, Issued
<1> QED
  BY <1>2, <1>3, InitTypes DEF NumberInv

LEMMA NumbersKeep == NumberInv /\ [Next]_vars => NumberInv'
<1> SUFFICES ASSUME NumberInv, [Next]_vars PROVE NumberInv'
  OBVIOUS
<1>1. TypeInv' /\ LockInv'
  BY StepTypes, LockStep DEF NumberInv
<1> QED
  BY <1>1, NumbersStep DEF NumberInv

LEMMA NumbersAlways == Spec => []NumberInv
  BY NumbersAtStart, NumbersKeep, PTL DEF Spec

\* No two documents carry one number, for any number of accounts and requests: the
\* numbers of requests that run or broke off are spoken for (document-number.ts).
THEOREM NumbersUnique == Spec => []OneNumberEach
<1>1. ASSUME NumberInv PROVE OneNumberEach
  <2>1. ASSUME NEW i \in qInvoices, NEW j \in qInvoices, i.number = j.number PROVE i = j
    BY <1>1, <2>1 DEF NumberInv, NumbersApart, heldBy
  <2>2. ASSUME NEW i \in qInvoices, NEW c \in qCredits PROVE i.number # c.number
    <3>1. i.number \in Nat
      BY <1>1, NumberTypes DEF NumberInv
    <3>2. i.number \in heldBy(i)
      BY DEF heldBy
    <3> QED
      BY <1>1, <3>1, <3>2 DEF NumberInv, NumbersApart
  <2> QED
    BY <1>1, <2>1, <2>2 DEF OneNumberEach, NumberInv, NumbersApart
<1> QED
  BY <1>1, NumbersAlways, PTL

----------------------------------------------------------------------------
(* Marks *)

\* The numbers under which Qonto has issued what a request has not recorded yet.
invoicesOut(r) == IF Issued(r) THEN {r.number} ELSE {}
creditsOut(r) == IF r.at = "answer" /\ r.kind = "cancel" THEN {r.number}
                 ELSE IF r.at = "credited" THEN {r.number + 1} ELSE {}

\* Of the account whose row a request holds, nothing else is unrecorded.
OnlyItsOwn(r) ==
    /\ r.at \in {"number", "mark"} => mark[r.account] = None
    /\ r.at \in Numbered \ {"mark"} =>
         /\ mark[r.account] # None
         /\ \A i \in unrecordedInvoices(r.account) : i.number \in invoicesOut(r)
         /\ \A c \in unrecordedCredits(r.account) : c.number \in creditsOut(r)

Recorded(a) == unrecordedInvoices(a) = {} /\ unrecordedCredits(a) = {}

\* An account is recorded or marked, and recorded while an admin has checked it.
AccountOK(a) ==
    /\ Recorded(a) \/ mark[a] # None
    /\ seen[a] # None => Free(a) /\ mark[a] # None /\ Recorded(a)

MarkInv ==
    /\ NumberInv
    /\ invoices \subseteq qInvoices
    /\ \A q \in Requests : OnlyItsOwn(req[q])
    /\ \A a \in Accounts : AccountOK(a)

----------------------------------------------------------------------------
(* What is not recorded *)

\* The accounts that a step of a request leaves alone: nothing of theirs becomes
\* unrecorded, and their marks stay.
Untouched(b) ==
    /\ mark'[b] = mark[b] /\ seen'[b] = seen[b]
    /\ unrecordedInvoices(b)' \subseteq unrecordedInvoices(b)
    /\ unrecordedCredits(b)' \subseteq unrecordedCredits(b)

\* Where no other document and no other mark changes, what holds of the requests
\* and accounts goes on holding.
LEMMA Frame ==
  ASSUME MarkInv, NEW q \in Requests, NEW new, req' = [req EXCEPT ![q] = new],
         \A b \in Accounts : lock[b] # q => Untouched(b),
         OnlyItsOwn(new)'
  PROVE  \A p \in Requests : OnlyItsOwn(req[p])'
<1>1. \A p \in Requests : req'[p] = IF p = q THEN new ELSE req[p]
  BY OneSlot DEF MarkInv, NumberInv
<1>2. ASSUME NEW p \in Requests, p # q PROVE OnlyItsOwn(req[p])'
  <2>1. CASE req[p].at \in Holding
    <3>1. lock[req[p].account] = p /\ req[p].account \in Accounts
      BY <2>1, Running DEF MarkInv, NumberInv, LockInv, TypeInv, Request, Holding, Numbered
    <3>2. Untouched(req[p].account)
      BY <1>2, <3>1
    <3> QED
      BY <1>1, <1>2, <3>2 DEF OnlyItsOwn, Untouched, MarkInv
  <2>2. CASE req[p].at \notin Holding
    BY <1>1, <1>2, <2>2 DEF OnlyItsOwn, Holding, Numbered
  <2> QED
    BY <2>1, <2>2
<1>3. OnlyItsOwn(req[q])'
  BY <1>1
<1> QED
  BY <1>2, <1>3

\* An untouched account whose row nobody has taken since is as it was.
LEMMA FrameAccount ==
  ASSUME MarkInv, NEW b \in Accounts, Untouched(b), lock'[b] \in {lock[b], None}
  PROVE  AccountOK(b)'
<1>1. AccountOK(b)
  BY DEF MarkInv
<1>2. Recorded(b) => Recorded(b)'
  BY DEF Recorded, Untouched
<1> QED
  BY <1>1, <1>2 DEF AccountOK, Untouched, Free

\* A request that does not hold a row has nothing of its own.
LEMMA NotHolding ==
  ASSUME NEW r, r.at \notin Holding
  PROVE  OnlyItsOwn(r)'
  BY DEF OnlyItsOwn, Holding, Numbered

\* A step that changes neither documents, rows, marks nor checks.
LEMMA Bystander ==
  ASSUME UNCHANGED <<qInvoices, invoices, qCredits, credits, mark, seen>>
  PROVE  \A b \in Accounts : Untouched(b)
  BY DEF Untouched, unrecordedInvoices, unrecordedCredits

\* A request ends, with or without its mark: its account is recorded, or marked.
LEMMA CommitOK ==
  ASSUME MarkInv, NEW q \in Requests, NEW a \in Accounts, req[q].account = a,
         req[q].at \in Holding, NEW cleared \in BOOLEAN, Commit(q, cleared), UNCHANGED seen,
         \A b \in Accounts : /\ unrecordedInvoices(b)' \subseteq unrecordedInvoices(b)
                             /\ unrecordedCredits(b)' \subseteq unrecordedCredits(b),
         Recorded(a)' \/ (~cleared /\ mark[a] # None)
  PROVE  (\A p \in Requests : OnlyItsOwn(req[p])') /\ (\A b \in Accounts : AccountOK(b)')
<1>0. TypeInv /\ LockInv /\ mark \in [Accounts -> Numbers \cup {None}]
  BY DEF MarkInv, NumberInv, TypeInv, TypeOK
<1>1. /\ lock' = [b \in Accounts |-> IF lock[b] = q THEN None ELSE lock[b]]
      /\ req' = [req EXCEPT ![q] = Idle]
  BY <1>0, CommitReleases
<1>2. \A b \in Accounts : lock[b] = q <=> b = a
  BY <1>0, <1>1, NoneAssumption, HolderIsRunning DEF LockInv
<1>3. \A b \in Accounts : b # a => mark'[b] = mark[b]
  BY <1>0, <1>1 DEF Commit
<1>4. \A b \in Accounts : lock[b] # q => Untouched(b)
  BY <1>2, <1>3 DEF Untouched
<1>5. \A p \in Requests : OnlyItsOwn(req[p])'
  BY <1>1, <1>4, IdleHoldsNothing, NotHolding, Frame
<1>6. ASSUME NEW b \in Accounts, b # a PROVE AccountOK(b)'
  BY <1>1, <1>2, <1>4, <1>6, FrameAccount
<1>7. AccountOK(a)'
  <2>1. seen[a] = None
    BY <1>1, <1>2, NoneAssumption DEF MarkInv, AccountOK, Free
  <2>2. ~cleared => mark'[a] = mark[a]
    BY DEF Commit
  <2> QED
    BY <2>1, <2>2 DEF AccountOK
<1> QED
  BY <1>5, <1>6, <1>7

\* A step that starts or ends a request that holds no row.
LEMMA OutsideOK ==
  ASSUME MarkInv, NEW q \in Requests, NEW new, req' = [req EXCEPT ![q] = new],
         new.at \notin Holding, \A b \in Accounts : lock'[b] \in {lock[b], None},
         UNCHANGED <<qInvoices, invoices, qCredits, credits, mark, seen>>
  PROVE  (\A p \in Requests : OnlyItsOwn(req[p])') /\ (\A b \in Accounts : AccountOK(b)')
<1>1. \A b \in Accounts : Untouched(b)
  BY Bystander
<1>2. \A p \in Requests : OnlyItsOwn(req[p])'
  BY <1>1, NotHolding, Frame
<1>3. \A b \in Accounts : AccountOK(b)'
  BY <1>1, FrameAccount
<1> QED
  BY <1>2, <1>3

\* A step of a request that goes on holding its account's row, and may touch that
\* account only.
LEMMA HoldingOK ==
  ASSUME MarkInv, NEW q \in Requests, NEW new, req' = [req EXCEPT ![q] = new],
         NEW a \in Accounts, req[q].account = a, req[q].at \in Holding, UNCHANGED <<lock, seen>>,
         \A b \in Accounts : b # a => Untouched(b),
         OnlyItsOwn(new)', Recorded(a)' \/ mark'[a] # None
  PROVE  (\A p \in Requests : OnlyItsOwn(req[p])') /\ (\A b \in Accounts : AccountOK(b)')
<1>0. TypeInv /\ LockInv
  BY DEF MarkInv, NumberInv
<1>1. lock[a] = q
  BY <1>0 DEF LockInv
<1>2. \A p \in Requests : OnlyItsOwn(req[p])'
  BY <1>1, Frame
<1>3. ASSUME NEW b \in Accounts, b # a PROVE AccountOK(b)'
  BY <1>3, FrameAccount
<1>4. AccountOK(a)'
  <2>1. seen[a] = None
    BY <1>1, NoneAssumption DEF MarkInv, AccountOK, Free
  <2> QED
    BY <2>1 DEF AccountOK
<1> QED
  BY <1>2, <1>3, <1>4

\* What a request that holds its account's row is, and what else is unrecorded there.
LEMMA Holder ==
  ASSUME MarkInv, NEW q \in Requests, req[q].at \in Holding
  PROVE  /\ req[q] \in Request /\ WellFormed(req[q])
         /\ req[q].account \in Accounts
         /\ OnlyItsOwn(req[q]) /\ AccountOK(req[q].account)
         /\ req[q].number # None \/ req[q].at = "number"
  BY Running, NoneAssumption DEF MarkInv, NumberInv, TypeInv, Request, WellFormed, Holding, Numbered,
     Numbers

\* What is true of the requests and of the accounts, without the numbers.
MarkRest ==
    /\ invoices \subseteq qInvoices
    /\ \A p \in Requests : OnlyItsOwn(req[p])
    /\ \A b \in Accounts : AccountOK(b)

----------------------------------------------------------------------------
(* Each step *)

LEMMA MarkStart ==
  ASSUME MarkInv, NEW q \in Requests, NEW r, Start(q, r), r.at \in {"read", "lock"}
  PROVE  MarkRest'
<1>1. r.at \notin Holding
  BY DEF Holding, Numbered
<1>2. /\ req' = [req EXCEPT ![q] = r] /\ \A b \in Accounts : lock'[b] \in {lock[b], None}
      /\ UNCHANGED <<qInvoices, invoices, qCredits, credits, mark, seen>>
  BY DEF Start, docVars, accountVars, Quiet
<1> QED
  BY <1>1, <1>2, OutsideOK DEF MarkRest, MarkInv

LEMMA MarkEnds ==
  ASSUME MarkInv, NEW q \in Requests, req' = [req EXCEPT ![q] = Idle],
         \A b \in Accounts : lock'[b] \in {lock[b], None},
         UNCHANGED <<qInvoices, invoices, qCredits, credits, mark, seen>>
  PROVE  MarkRest'
  BY IdleHoldsNothing, OutsideOK DEF MarkRest, MarkInv

LEMMA MarkReadStatus ==
  ASSUME MarkInv, NEW q \in Requests, ReadStatus(q)
  PROVE  MarkRest'
<1>0. req[q] \in Request
  BY Running DEF MarkInv, NumberInv, TypeInv, ReadStatus
<1>1. /\ UNCHANGED <<qInvoices, invoices, qCredits, credits, mark, seen>>
      /\ \A b \in Accounts : lock'[b] \in {lock[b], None}
  BY DEF ReadStatus, docVars, accountVars, Quiet
<1>2. ASSUME NEW owed, req' = [req EXCEPT ![q].at = "lock", ![q].owed = owed]
      PROVE  MarkRest'
  <2>n. PICK new : new = [req[q] EXCEPT !.at = "lock", !.owed = owed]
    OBVIOUS
  <2>1. new.at \notin Holding
    BY <2>n, <1>0 DEF Request, Holding, Numbered
  <2>2. req' = [req EXCEPT ![q] = new]
    BY <2>n, <1>2
  <2> QED
    BY <1>1, <2>1, <2>2, OutsideOK DEF MarkRest, MarkInv
<1> QED
  BY <1>1, <1>2, MarkEnds DEF ReadStatus

\* A request takes the row of an account without a mark, where all is recorded.
LEMMA MarkLock ==
  ASSUME MarkInv, NEW q \in Requests, Lock(q)
  PROVE  MarkRest'
<1>0. req[q] \in Request
  BY Running DEF MarkInv, NumberInv, TypeInv, Lock
<1>1. UNCHANGED <<qInvoices, invoices, qCredits, credits, mark, seen>>
  BY DEF Lock, docVars, Quiet
<1>2. CASE req' = [req EXCEPT ![q] = Idle] /\ UNCHANGED lock
  BY <1>1, <1>2, MarkEnds
<1>3. CASE /\ ~refusedUnderLock(req[q])
           /\ req' = [req EXCEPT ![q].at = "number"]
           /\ lock' = [lock EXCEPT ![req[q].account] = q]
  <2>n. PICK new : new = [req[q] EXCEPT !.at = "number"]
    OBVIOUS
  <2>1. req' = [req EXCEPT ![q] = new] /\ new.at = "number" /\ new.account = req[q].account
    BY <2>n, <1>0, <1>3 DEF Request
  <2>2. PICK a \in Accounts : a = req[q].account
    BY <2>n, <1>0 DEF Request
  <2>3. mark[a] = None
    BY <1>3, <2>2 DEF refusedUnderLock
  <2>4. \A b \in Accounts : Untouched(b)
    BY <1>1, Bystander
  <2>5. OnlyItsOwn(new)'
    BY <1>1, <2>1, <2>2, <2>3 DEF OnlyItsOwn, Numbered
  <2>6. \A p \in Requests : OnlyItsOwn(req[p])'
    BY <2>1, <2>4, <2>5, Frame
  <2>7. ASSUME NEW b \in Accounts, b # a PROVE AccountOK(b)'
    <3>1. lock'[b] = lock[b]
      BY <1>3, <2>2, <2>7 DEF MarkInv, NumberInv, TypeInv, TypeOK
    <3> QED
      BY <2>4, <3>1, FrameAccount
  <2>8. AccountOK(a)'
    <3>1. Recorded(a) /\ seen[a] = None
      BY <2>3 DEF MarkInv, AccountOK
    <3> QED
      BY <1>1, <2>4, <3>1 DEF AccountOK, Recorded, Untouched
  <2> QED
    BY <1>1, <2>6, <2>7, <2>8 DEF MarkRest, MarkInv
<1> QED
  BY <1>2, <1>3 DEF Lock

LEMMA MarkNumber ==
  ASSUME MarkInv, NEW q \in Requests, takeDocumentNumber(q)
  PROVE  MarkRest'
<1>0. req[q].at = "number" /\ req[q].at \in Holding
  BY DEF takeDocumentNumber, Holding
<1>1. /\ UNCHANGED <<qInvoices, invoices, qCredits, credits, mark, seen, lock>>
  BY DEF takeDocumentNumber, accountVars, Quiet
<1>n. PICK new : new = [req[q] EXCEPT !.at = "mark", !.number = counter + 1]
  OBVIOUS
<1>2. req' = [req EXCEPT ![q] = new] /\ new.at = "mark" /\ new.account = req[q].account
  BY <1>n, <1>0, Holder DEF takeDocumentNumber, Request
<1>3. PICK a \in Accounts : a = req[q].account
  BY <1>0, Holder
<1>4. mark[a] = None /\ Recorded(a)
  BY <1>0, <1>3, Holder DEF OnlyItsOwn, AccountOK
<1>5. OnlyItsOwn(new)'
  BY <1>1, <1>2, <1>3, <1>4 DEF OnlyItsOwn, Numbered
<1>6. Recorded(a)'
  BY <1>1, <1>4 DEF Recorded, unrecordedInvoices, unrecordedCredits
<1>7. \A b \in Accounts : Untouched(b)
  BY <1>1, Bystander
<1> QED
  BY <1>0, <1>1, <1>2, <1>3, <1>5, <1>6, <1>7, HoldingOK DEF MarkRest, MarkInv

LEMMA MarkMark ==
  ASSUME MarkInv, NEW q \in Requests, markOrderCheck(q)
  PROVE  MarkRest'
<1>0. req[q].at = "mark" /\ req[q].at \in Holding
  BY DEF markOrderCheck, Holding, Numbered
<1>1. /\ UNCHANGED <<qInvoices, invoices, qCredits, credits, seen, lock>>
  BY DEF markOrderCheck, docVars, Quiet
<1>n. PICK new : new = [req[q] EXCEPT !.at = "ask"]
  OBVIOUS
<1>2. req' = [req EXCEPT ![q] = new] /\ new.at = "ask" /\ new.account = req[q].account
  BY <1>n, <1>0, Holder DEF markOrderCheck, Request
<1>3. PICK a \in Accounts : a = req[q].account
  BY <1>0, Holder
<1>4. mark[a] = None /\ Recorded(a) /\ req[q].number # None
  BY <1>0, <1>3, Holder DEF OnlyItsOwn, AccountOK
<1>5. mark'[a] = req[q].number /\ \A b \in Accounts : b # a => mark'[b] = mark[b]
  BY <1>3, <1>4 DEF markOrderCheck, MarkInv, NumberInv, TypeInv, TypeOK
<1>6. Recorded(a)'
  BY <1>1, <1>4 DEF Recorded, unrecordedInvoices, unrecordedCredits
<1>7. OnlyItsOwn(new)'
  BY <1>2, <1>3, <1>4, <1>5, <1>6 DEF OnlyItsOwn, Recorded
<1>8. \A b \in Accounts : b # a => Untouched(b)
  BY <1>1, <1>5 DEF Untouched, unrecordedInvoices, unrecordedCredits
<1> QED
  BY <1>0, <1>1, <1>2, <1>3, <1>6, <1>7, <1>8, HoldingOK DEF MarkRest, MarkInv

LEMMA MarkReissueIssued ==
  ASSUME MarkInv, NEW q \in Requests, ReissueIssued(q)
  PROVE  MarkRest'
<1>0. req[q].at = "answer" /\ req[q].kind = "reissue" /\ req[q].at \in Holding
  BY DEF ReissueIssued, Holding, Numbered
<1>1. /\ UNCHANGED <<qInvoices, invoices, qCredits, credits, mark, seen, lock>>
  BY DEF ReissueIssued, docVars, accountVars, Quiet
<1>n. PICK new : new = [req[q] EXCEPT !.at = "credit"]
  OBVIOUS
<1>2. /\ req' = [req EXCEPT ![q] = new] /\ new.at = "credit" /\ new.account = req[q].account
      /\ new.number = req[q].number
  BY <1>n, <1>0, Holder DEF ReissueIssued, Request
<1>3. PICK a \in Accounts : a = req[q].account
  BY <1>0, Holder
<1>4. /\ mark[a] # None
      /\ \A i \in unrecordedInvoices(a) : i.number = req[q].number
      /\ unrecordedCredits(a) = {}
  BY <1>0, <1>3, Holder DEF OnlyItsOwn, Numbered, invoicesOut, creditsOut, Issued
<1>5. unrecordedInvoices(a)' = unrecordedInvoices(a) /\ unrecordedCredits(a)' = unrecordedCredits(a)
  BY <1>1 DEF unrecordedInvoices, unrecordedCredits
<1>6. OnlyItsOwn(new)'
  BY <1>1, <1>2, <1>3, <1>4, <1>5 DEF OnlyItsOwn, invoicesOut, creditsOut, Issued
<1>7. \A b \in Accounts : Untouched(b)
  BY <1>1, Bystander
<1> QED
  BY <1>0, <1>1, <1>2, <1>3, <1>4, <1>6, <1>7, HoldingOK DEF MarkRest, MarkInv

\* Qonto's new document is the request's own, and of its account.
LEMMA MarkIssues ==
  ASSUME MarkInv, NEW q \in Requests, QontoIssues(q)
  PROVE  MarkRest'
<1>0. req[q].at \in {"ask", "credit"} /\ req[q].at \in Holding
  BY DEF QontoIssues, Holding, Numbered
<1>1. UNCHANGED <<invoices, credits, mark, seen, lock>>
  BY DEF QontoIssues, accountVars, Quiet
<1>3. PICK a \in Accounts : a = req[q].account
  BY <1>0, Holder
<1>4. /\ mark[a] # None
      /\ \A i \in unrecordedInvoices(a) : i.number \in invoicesOut(req[q])
      /\ unrecordedCredits(a) = {}
  BY <1>0, <1>3, Holder DEF OnlyItsOwn, Numbered, creditsOut
<1>5. mark'[a] # None
  BY <1>1, <1>4
<1>6. CASE req[q].at = "ask" /\ req[q].kind = "cancel"
  <2>n. PICK new : new = [req[q] EXCEPT !.at = "answer"]
    OBVIOUS
  <2>1. /\ req' = [req EXCEPT ![q] = new] /\ new.at = "answer" /\ new.account = a
        /\ new.number = req[q].number /\ new.kind = "cancel"
    BY <2>n, <1>0, <1>3, <1>6, Holder DEF QontoIssues, Request
  <2>2. qInvoices' = qInvoices /\ qCredits' = qCredits \cup {newCredit(q)}
        /\ newCredit(q).number = req[q].number /\ newCredit(q).account = a
    BY <1>3, <1>6 DEF QontoIssues, newCredit
  <2>3. \A b \in Accounts : b # a => Untouched(b)
    BY <1>1, <2>2 DEF Untouched, unrecordedInvoices, unrecordedCredits
  <2>4. unrecordedInvoices(a)' = {}
    BY <1>1, <1>4, <1>6, <2>2 DEF unrecordedInvoices, invoicesOut, Issued
  <2>5. unrecordedCredits(a)' \subseteq {newCredit(q)}
    BY <1>1, <1>4, <2>2 DEF unrecordedCredits
  <2>6. OnlyItsOwn(new)'
    BY <1>5, <2>1, <2>2, <2>4, <2>5 DEF OnlyItsOwn, creditsOut
  <2> QED
    BY <1>0, <1>1, <1>3, <1>5, <2>1, <2>2, <2>3, <2>6, HoldingOK DEF MarkRest, MarkInv
<1>7. CASE req[q].at = "ask" /\ req[q].kind # "cancel"
  <2>n. PICK new : new = [req[q] EXCEPT !.at = "answer"]
    OBVIOUS
  <2>1. /\ req' = [req EXCEPT ![q] = new] /\ new.at = "answer" /\ new.account = a
        /\ new.number = req[q].number /\ new.kind # "cancel"
    BY <2>n, <1>0, <1>3, <1>7, Holder DEF QontoIssues, Request
  <2>2. PICK i : /\ qInvoices' = qInvoices \cup {i} /\ qCredits' = qCredits
                 /\ i.number = req[q].number /\ i.account = a
    <3>1. PICK end \in Ends(q) : qInvoices' = qInvoices \cup {newInvoice(q, end)} /\ qCredits' = qCredits
      BY <1>7 DEF QontoIssues
    <3>2. newInvoice(q, end).number = req[q].number /\ newInvoice(q, end).account = a
      BY <1>3 DEF newInvoice
    <3> QED
      BY <3>1, <3>2
  <2>3. \A b \in Accounts : b # a => Untouched(b)
    BY <1>1, <2>2 DEF Untouched, unrecordedInvoices, unrecordedCredits
  <2>4. unrecordedInvoices(a)' \subseteq {i}
    BY <1>1, <1>4, <1>7, <2>2 DEF unrecordedInvoices, invoicesOut, Issued
  <2>5. unrecordedCredits(a)' = {}
    BY <1>1, <1>4, <2>2 DEF unrecordedCredits
  <2>6. OnlyItsOwn(new)'
    BY <1>5, <2>1, <2>2, <2>4, <2>5 DEF OnlyItsOwn, invoicesOut, Issued
  <2> QED
    BY <1>0, <1>1, <1>3, <1>5, <2>1, <2>2, <2>3, <2>6, HoldingOK DEF MarkRest, MarkInv
<1>8. CASE req[q].at = "credit"
  <2>n. PICK new : new = [req[q] EXCEPT !.at = "credited"]
    OBVIOUS
  <2>1. /\ req' = [req EXCEPT ![q] = new] /\ new.at = "credited" /\ new.account = a
        /\ new.number = req[q].number
    BY <2>n, <1>0, <1>3, <1>8, Holder DEF QontoIssues, Request
  <2>2. qInvoices' = qInvoices /\ qCredits' = qCredits \cup {newCredit(q)}
        /\ newCredit(q).number = req[q].number + 1 /\ newCredit(q).account = a
    BY <1>0, <1>3, <1>8, Holder DEF QontoIssues, newCredit, WellFormed
  <2>3. \A b \in Accounts : b # a => Untouched(b)
    BY <1>1, <2>2 DEF Untouched, unrecordedInvoices, unrecordedCredits
  <2>4. \A i \in unrecordedInvoices(a)' : i.number = req[q].number
    BY <1>1, <1>4, <1>8, <2>2 DEF unrecordedInvoices, invoicesOut, Issued
  <2>5. unrecordedCredits(a)' \subseteq {newCredit(q)}
    BY <1>1, <1>4, <2>2 DEF unrecordedCredits
  <2>6. OnlyItsOwn(new)'
    BY <1>5, <2>1, <2>2, <2>4, <2>5 DEF OnlyItsOwn, creditsOut, invoicesOut, Issued
  <2> QED
    BY <1>0, <1>1, <1>3, <1>5, <2>1, <2>2, <2>3, <2>6, HoldingOK DEF MarkRest, MarkInv
<1> QED
  BY <1>0, <1>6, <1>7, <1>8

\* A refused call has left nothing, an unclear one its mark.
LEMMA MarkFails ==
  ASSUME MarkInv, NEW q \in Requests, Refused(q) \/ Unclear(q)
  PROVE  MarkRest'
<1>0. req[q].at \in {"ask", "answer"} /\ req[q].at \in Holding
  BY DEF Refused, Unclear, Holding, Numbered
<1>1. UNCHANGED <<qInvoices, invoices, qCredits, credits, seen>>
  BY DEF Refused, Unclear, docVars, Quiet
<1>2. PICK a \in Accounts : a = req[q].account
  BY <1>0, Holder
<1>3. \A b \in Accounts : /\ unrecordedInvoices(b)' = unrecordedInvoices(b)
                          /\ unrecordedCredits(b)' = unrecordedCredits(b)
  BY <1>1 DEF unrecordedInvoices, unrecordedCredits
<1>4. CASE Refused(q)
  <2>1. Recorded(a)
    BY <1>2, <1>4, <1>0, Holder
    DEF Refused, OnlyItsOwn, Numbered, invoicesOut, creditsOut, Issued, Recorded
  <2>2. Recorded(a)'
    BY <1>3, <2>1 DEF Recorded
  <2> QED
    BY <1>0, <1>1, <1>2, <1>3, <1>4, <2>2, CommitOK DEF Refused, MarkRest, MarkInv
<1>5. CASE Unclear(q)
  <2>1. mark[a] # None
    BY <1>0, <1>2, Holder DEF OnlyItsOwn, Numbered
  <2> QED
    BY <1>0, <1>1, <1>2, <1>3, <1>5, <2>1, CommitOK DEF Unclear, MarkRest, MarkInv
<1> QED
  BY <1>4, <1>5

\* An answer with the invoice, or with the credit note, leaves nothing unrecorded.
LEMMA MarkRecords ==
  ASSUME MarkInv, NEW q \in Requests,
         RecordOrder(q) \/ RecordCancel(q) \/ CreditFails(q) \/ RecordReissue(q)
  PROVE  MarkRest'
<1>0. req[q].at \in {"answer", "credit", "credited"} /\ req[q].at \in Holding
  BY DEF RecordOrder, RecordCancel, CreditFails, RecordReissue, Holding, Numbered
<1>1. UNCHANGED <<qInvoices, qCredits, seen>>
  BY DEF RecordOrder, RecordCancel, CreditFails, RecordReissue, Quiet
<1>2. PICK a \in Accounts : a = req[q].account
  BY <1>0, Holder
<1>3. /\ mark[a] # None
      /\ \A i \in unrecordedInvoices(a) : i.number \in invoicesOut(req[q])
      /\ \A c \in unrecordedCredits(a) : c.number \in creditsOut(req[q])
  BY <1>0, <1>2, Holder DEF OnlyItsOwn, Numbered
<1>4. \A i, j \in qInvoices : i.number = j.number => i = j
  <2>1. \A i \in qInvoices : i.number \in heldBy(i)
    BY DEF heldBy
  <2> QED
    BY <2>1 DEF MarkInv, NumberInv, NumbersApart
<1>5. Issued(req[q]) => issuedInvoice(q) \in qInvoices /\ unrecordedInvoices(a) \subseteq {issuedInvoice(q)}
  BY <1>3, <1>4, IssuedInvoice DEF MarkInv, NumberInv, invoicesOut, unrecordedInvoices
<1>6. CASE RecordOrder(q)
  <2>1. Issued(req[q]) /\ creditsOut(req[q]) = {}
    BY <1>6 DEF RecordOrder, Issued, creditsOut
  <2>2. invoices' = invoices \cup {issuedInvoice(q)} /\ credits' = credits
    BY <1>6 DEF RecordOrder
  <2>3. \A b \in Accounts : /\ unrecordedInvoices(b)' \subseteq unrecordedInvoices(b)
                            /\ unrecordedCredits(b)' \subseteq unrecordedCredits(b)
    BY <1>1, <2>2 DEF unrecordedInvoices, unrecordedCredits
  <2>4. Recorded(a)'
    <3>1. unrecordedInvoices(a)' = {}
      BY <1>1, <1>5, <2>1, <2>2, <2>3 DEF unrecordedInvoices
    <3>2. unrecordedCredits(a)' = {}
      BY <1>1, <1>3, <2>1, <2>2 DEF unrecordedCredits
    <3> QED
      BY <3>1, <3>2 DEF Recorded
  <2>5. Commit(q, TRUE)
    BY <1>6 DEF RecordOrder
  <2>6. invoices' \subseteq qInvoices'
    BY <1>1, <1>5, <2>1, <2>2 DEF MarkInv
  <2> QED
    BY <1>0, <1>1, <1>2, <2>3, <2>4, <2>5, <2>6, CommitOK DEF MarkRest
<1>7. CASE RecordCancel(q)
  <2>n. PICK n : n = newCredit(q).number
    OBVIOUS
  <2>1. ~Issued(req[q]) /\ creditsOut(req[q]) = {n}
    BY <2>n, <1>7 DEF RecordCancel, Issued, creditsOut, newCredit
  <2>2. invoices' = invoices /\ credits' = credits \cup {creditRow(q, req[q].owed)}
    BY <1>7 DEF RecordCancel
  <2>3. \A b \in Accounts : /\ unrecordedInvoices(b)' \subseteq unrecordedInvoices(b)
                            /\ unrecordedCredits(b)' \subseteq unrecordedCredits(b)
    BY <1>1, <2>2 DEF unrecordedInvoices, unrecordedCredits
  <2>4. Recorded(a)'
    <3>1. unrecordedInvoices(a)' = {}
      BY <1>3, <2>1, <2>3 DEF invoicesOut
    <3>2. \E d \in credits' : d.number = n
      <4>1. creditRow(q, req[q].owed).number = n
        BY <2>n DEF creditRow
      <4> QED
        BY <2>2, <4>1
    <3>3. \A c \in unrecordedCredits(a) : c.number = n
      BY <1>3, <2>1
    <3>4. unrecordedCredits(a)' = {}
      BY <1>1, <2>2, <3>2, <3>3 DEF unrecordedCredits
    <3> QED
      BY <3>1, <3>4 DEF Recorded
  <2>5. Commit(q, TRUE)
    BY <1>7 DEF RecordCancel
  <2>6. invoices' \subseteq qInvoices'
    BY <1>1, <2>2 DEF MarkInv
  <2> QED
    BY <1>0, <1>1, <1>2, <2>3, <2>4, <2>5, <2>6, CommitOK DEF MarkRest
<1>8. CASE CreditFails(q)
  <2>1. Issued(req[q])
    BY <1>8 DEF CreditFails, Issued
  <2>2. invoices' = invoices \cup {issuedInvoice(q)} /\ credits' = credits
    BY <1>8 DEF CreditFails
  <2>3. \A b \in Accounts : /\ unrecordedInvoices(b)' \subseteq unrecordedInvoices(b)
                            /\ unrecordedCredits(b)' \subseteq unrecordedCredits(b)
    BY <1>1, <2>2 DEF unrecordedInvoices, unrecordedCredits
  <2>4. Commit(q, FALSE)
    BY <1>8 DEF CreditFails
  <2>5. invoices' \subseteq qInvoices'
    BY <1>1, <1>5, <2>1, <2>2 DEF MarkInv
  <2> QED
    BY <1>0, <1>1, <1>2, <1>3, <2>3, <2>4, <2>5, CommitOK DEF MarkRest
<1>9. CASE RecordReissue(q)
  <2>n. PICK n : n = newCredit(q).number
    OBVIOUS
  <2>1. Issued(req[q]) /\ creditsOut(req[q]) = {n}
    BY <2>n, <1>0, <1>9, Holder DEF RecordReissue, Issued, creditsOut, newCredit, WellFormed
  <2>2. /\ invoices' = invoices \cup {issuedInvoice(q)}
        /\ credits' = credits \cup {creditRow(q, FALSE)}
    BY <1>9 DEF RecordReissue
  <2>3. \A b \in Accounts : /\ unrecordedInvoices(b)' \subseteq unrecordedInvoices(b)
                            /\ unrecordedCredits(b)' \subseteq unrecordedCredits(b)
    BY <1>1, <2>2 DEF unrecordedInvoices, unrecordedCredits
  <2>4. Recorded(a)'
    <3>1. unrecordedInvoices(a)' = {}
      BY <1>1, <1>5, <2>1, <2>2, <2>3 DEF unrecordedInvoices
    <3>2. \E d \in credits' : d.number = n
      <4>1. creditRow(q, FALSE).number = n
        BY <2>n DEF creditRow
      <4> QED
        BY <2>2, <4>1
    <3>3. \A c \in unrecordedCredits(a) : c.number = n
      BY <1>3, <2>1
    <3>4. unrecordedCredits(a)' = {}
      BY <1>1, <2>2, <3>2, <3>3 DEF unrecordedCredits
    <3> QED
      BY <3>1, <3>4 DEF Recorded
  <2>5. Commit(q, TRUE)
    BY <1>9 DEF RecordReissue
  <2>6. invoices' \subseteq qInvoices'
    BY <1>1, <1>5, <2>1, <2>2 DEF MarkInv
  <2> QED
    BY <1>0, <1>1, <1>2, <2>3, <2>4, <2>5, <2>6, CommitOK DEF MarkRest
<1> QED
  BY <1>6, <1>7, <1>8, <1>9

\* Where no request moves, and every account whose row is held is untouched, each
\* request is left with its own.
LEMMA MarkOutside ==
  ASSUME MarkInv, UNCHANGED <<req, lock>>, NEW a \in Accounts, lock[a] = None,
         \A b \in Accounts : b # a => Untouched(b)
  PROVE  /\ \A p \in Requests : OnlyItsOwn(req[p])'
         /\ \A b \in Accounts : b # a => AccountOK(b)'
<1>1. ASSUME NEW p \in Requests PROVE OnlyItsOwn(req[p])'
  <2>1. CASE req[p].at \in Holding
    <3>1. PICK b \in Accounts : b = req[p].account
      BY <2>1, Holder
    <3>2. b # a
      BY <2>1, <3>1, NoneAssumption DEF MarkInv, NumberInv, LockInv
    <3>3. Untouched(b) /\ OnlyItsOwn(req[p])
      BY <3>2 DEF MarkInv
    <3> QED
      BY <3>1, <3>3 DEF OnlyItsOwn, Untouched
  <2>2. CASE req[p].at \notin Holding
    BY <2>2 DEF OnlyItsOwn, Holding, Numbered
  <2> QED
    BY <2>1, <2>2
<1>2. ASSUME NEW b \in Accounts, b # a PROVE AccountOK(b)'
  BY <1>2, FrameAccount
<1> QED
  BY <1>1, <1>2

\* An admin who finds the row free leaves everything recorded, and looked at.
LEMMA MarkChecked ==
  ASSUME MarkInv, NEW a \in Accounts, CheckQonto(a)
  PROVE  MarkRest'
<1>0. /\ mark[a] # None /\ lock[a] = None /\ UNCHANGED <<req, lock, mark, qInvoices>>
      /\ invoices' = invoices \cup unrecordedInvoices(a)
      /\ qCredits' = qCredits \cup uncreditedReissues(a)
      /\ seen' = [seen EXCEPT ![a] = mark[a]]
  BY DEF CheckQonto, Free
<1>1. PICK rows : /\ credits' = credits \cup rows
                  /\ \A c \in unrecordedCredits(a) \cup uncreditedReissues(a) :
                       \E d \in rows : d.number = c.number
  <2> DEFINE row(c) == [number |-> c.number, account |-> a, of |-> c.of,
                        refundOwed |-> c.of \in paid]
  <2>1. credits' = credits \cup {row(c) : c \in unrecordedCredits(a) \cup uncreditedReissues(a)}
    BY DEF CheckQonto
  <2> DEFINE rows == {row(c) : c \in unrecordedCredits(a) \cup uncreditedReissues(a)}
  <2>2. ASSUME NEW c \in unrecordedCredits(a) \cup uncreditedReissues(a)
        PROVE  \E d \in rows : d.number = c.number
    <3>1. row(c) \in rows /\ row(c).number = c.number
      OBVIOUS
    <3> QED
      BY <3>1
  <2> QED
    BY <2>1, <2>2
<1>2. \A c \in uncreditedReissues(a) : c.account = a
  BY DEF uncreditedReissues
<1>3. ASSUME NEW b \in Accounts, b # a PROVE Untouched(b)
  <2>1. seen'[b] = seen[b]
    BY <1>0, <1>3 DEF MarkInv, NumberInv, TypeInv, TypeOK
  <2>2. unrecordedInvoices(b)' \subseteq unrecordedInvoices(b)
    BY <1>0 DEF unrecordedInvoices
  <2>3. unrecordedCredits(b)' \subseteq unrecordedCredits(b)
    BY <1>0, <1>1, <1>2, <1>3 DEF unrecordedCredits
  <2> QED
    BY <1>0, <2>1, <2>2, <2>3 DEF Untouched
<1>4. Recorded(a)'
  <2>1. unrecordedInvoices(a)' = {}
    BY <1>0 DEF unrecordedInvoices
  <2>2. unrecordedCredits(a)' = {}
    BY <1>0, <1>1 DEF unrecordedCredits
  <2> QED
    BY <2>1, <2>2 DEF Recorded
<1>5. AccountOK(a)'
  BY <1>0, <1>4 DEF AccountOK, Free
<1>6. invoices' \subseteq qInvoices'
  BY <1>0 DEF unrecordedInvoices, MarkInv
<1> QED
  BY <1>0, <1>3, <1>5, <1>6, MarkOutside DEF MarkRest

\* The checked mark is cleared: all is recorded since it was looked at.
LEMMA MarkCleared ==
  ASSUME MarkInv, NEW a \in Accounts, clearCheckedOrder(a)
  PROVE  MarkRest'
<1>0. /\ seen[a] # None /\ lock[a] = None
      /\ UNCHANGED <<req, lock, qInvoices, invoices, qCredits, credits>>
      /\ seen' = [seen EXCEPT ![a] = None]
      /\ \/ mark' = [mark EXCEPT ![a] = None]
         \/ mark' = mark
  BY DEF clearCheckedOrder, docVars, Free
<1>1. Recorded(a)
  BY <1>0 DEF MarkInv, AccountOK
<1>2. \A b \in Accounts : /\ unrecordedInvoices(b)' = unrecordedInvoices(b)
                          /\ unrecordedCredits(b)' = unrecordedCredits(b)
  BY <1>0 DEF unrecordedInvoices, unrecordedCredits
<1>3. ASSUME NEW b \in Accounts, b # a PROVE Untouched(b)
  BY <1>0, <1>2, <1>3 DEF Untouched, MarkInv, NumberInv, TypeInv, TypeOK
<1>4. AccountOK(a)'
  <2>1. seen'[a] = None
    BY <1>0 DEF MarkInv, NumberInv, TypeInv, TypeOK
  <2>2. Recorded(a)'
    BY <1>0, <1>1 DEF Recorded, unrecordedInvoices, unrecordedCredits
  <2> QED
    BY <2>1, <2>2 DEF AccountOK
<1> QED
  BY <1>0, <1>3, <1>4, MarkOutside DEF MarkRest, MarkInv

LEMMA MarkStep ==
  ASSUME ~ChecksMidOrder, MarkInv, [Next]_vars
  PROVE  MarkRest'
<1>1. ASSUME NEW q \in Requests, NEW a \in Accounts,
             placeOrder(q, a) \/ makeCancel(q, a) \/ reissueInvoice(q, a)
      PROVE  MarkRest'
  <2>1. PICK r : Start(q, r) /\ r.at \in {"read", "lock"}
    <3>1. CASE placeOrder(q, a)
      BY <3>1 DEF placeOrder
    <3>2. CASE makeCancel(q, a)
      BY <3>2 DEF makeCancel
    <3>3. CASE reissueInvoice(q, a)
      BY <3>3 DEF reissueInvoice
    <3> QED
      BY <1>1, <3>1, <3>2, <3>3
  <2> QED
    BY <2>1, MarkStart
<1>2. ASSUME NEW q \in Requests, Progress(q)
      PROVE  MarkRest'
  <2>1. CASE cancelRenewal(q)
    BY <2>1, MarkEnds DEF cancelRenewal, docVars, Quiet
  <2> QED
    BY <1>2, <2>1, MarkReadStatus, MarkLock, MarkNumber, MarkMark, MarkIssues, MarkFails,
       MarkRecords, MarkReissueIssued DEF Progress
<1>3. ASSUME NEW q \in Requests, Abort(q)
      PROVE  MarkRest'
  <2>1. \A b \in Accounts : lock'[b] \in {lock[b], None}
    BY <1>3 DEF Abort
  <2> QED
    BY <1>3, <2>1, MarkEnds DEF Abort, docVars, Quiet
<1>4. CASE UNCHANGED <<qInvoices, invoices, qCredits, credits, mark, lock, req, seen>>
  <2>1. \A b \in Accounts : Untouched(b)
    BY <1>4, Bystander
  <2>2. \A b \in Accounts : AccountOK(b)'
    BY <1>4, <2>1, FrameAccount
  <2>3. \A p \in Requests : OnlyItsOwn(req[p])'
    BY <1>4 DEF MarkInv, OnlyItsOwn, unrecordedInvoices, unrecordedCredits
  <2> QED
    BY <1>4, <2>2, <2>3 DEF MarkRest, MarkInv
<1>5. CASE UNCHANGED vars
  BY <1>4, <1>5 DEF vars, docVars, accountVars
<1> QED
  BY <1>1, <1>2, <1>3, <1>4, <1>5, MarkChecked, MarkCleared
  DEF Next, Run, CheckRunningOrder, waiveMoneyBack, revokeAccess, logRevoke, PaymentArrives,
      nonPaymentCandidates, readLiveInvoice, UnreadableInvoice, applyAndRecord, AbortSweep,
      Midnight, docVars, accountVars

LEMMA MarkAtStart == Init => MarkInv
<1>1. Init => NumberInv
  BY NumbersAtStart
<1>2. Init => MarkRest
  BY IdleHoldsNothing DEF Init, MarkRest, OnlyItsOwn, AccountOK, Recorded, unrecordedInvoices,
                          unrecordedCredits, Idle, Numbered
<1> QED
  BY <1>1, <1>2 DEF MarkRest, MarkInv

LEMMA MarkKeep ==
  ASSUME ~ChecksMidOrder, MarkInv, [Next]_vars
  PROVE  MarkInv'
<1>1. NumberInv'
  BY NumbersKeep DEF MarkInv
<1>2. MarkRest'
  BY MarkStep
<1> QED
  BY <1>1, <1>2 DEF MarkRest, MarkInv

\* What Qonto has issued is recorded or marked, for any accounts and requests, as
\* long as nobody checks an order that still runs (order-check.ts, docs/billing.md).
THEOREM DocumentsMarked == ~ChecksMidOrder => (Spec => []MarkedWhileUnsure)
<1> SUFFICES ASSUME ~ChecksMidOrder PROVE Spec => []MarkedWhileUnsure
  OBVIOUS
<1>1. MarkInv /\ [Next]_vars => MarkInv'
  BY MarkKeep
<1>2. MarkInv => MarkedWhileUnsure
  BY DEF MarkInv, AccountOK, Recorded, MarkedWhileUnsure
<1> QED
  BY <1>1, <1>2, MarkAtStart, PTL DEF Spec
=============================================================================
