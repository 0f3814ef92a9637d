------------------------ MODULE BillingLedgerProofs ------------------------
(***************************************************************************)
(* What the documents of an account say of each other: which invoice a     *)
(* credit note and a reissue refer to, that none is credited twice, that   *)
(* one at most is open, that access is paid for, and what the hourly run   *)
(* reopens.  Everything rests on the marks: each request meets, under its  *)
(* account's lock, all that earlier ones had Qonto issue.                  *)
(***************************************************************************)
EXTENDS BillingSafetyProofs

----------------------------------------------------------------------------
(* What a step does *)

\* No document and no row changes.
Rests == UNCHANGED <<qInvoices, qCredits, invoices, credits>>

\* Request q goes on to another step, or ends, and no other request moves.
Others(q) == \A p \in Requests : p # q => req'[p] = req[p]
GoesTo(q, at) ==
    /\ Others(q)
    /\ req'[q].at = at
    /\ req'[q].kind = req[q].kind /\ req'[q].account = req[q].account
    /\ req'[q].day = req[q].day /\ req'[q].target = req[q].target
    /\ req'[q].number = req[q].number
Leaves(q) == Others(q) /\ req'[q].at = "idle"

\* A request that moves on keeps its fields.
LEMMA Moving ==
  ASSUME TypeInv, NEW q \in Requests, req[q].at # "idle", NEW at, NEW owed,
         \/ req' = [req EXCEPT ![q].at = at]
         \/ req' = [req EXCEPT ![q].at = at, ![q].owed = owed]
  PROVE  GoesTo(q, at)
<1>1. req[q] \in Request
  BY Running DEF TypeInv
<1>2. CASE req' = [req EXCEPT ![q].at = at]
  <2>n. PICK new : new = [req[q] EXCEPT !.at = at]
    OBVIOUS
  <2>1. /\ new.at = at /\ new.kind = req[q].kind /\ new.account = req[q].account
        /\ new.day = req[q].day /\ new.target = req[q].target /\ new.number = req[q].number
    BY <1>1, <2>n DEF Request
  <2>2. req' = [req EXCEPT ![q] = new]
    BY <1>2, <2>n
  <2>3. \A p \in Requests : req'[p] = IF p = q THEN new ELSE req[p]
    BY <2>2, OneSlot
  <2> QED
    BY <2>1, <2>3 DEF GoesTo, Others
<1>3. CASE req' = [req EXCEPT ![q].at = at, ![q].owed = owed]
  <2>n. PICK new : new = [req[q] EXCEPT !.at = at, !.owed = owed]
    OBVIOUS
  <2>1. /\ new.at = at /\ new.kind = req[q].kind /\ new.account = req[q].account
        /\ new.day = req[q].day /\ new.target = req[q].target /\ new.number = req[q].number
    BY <1>1, <2>n DEF Request
  <2>2. req' = [req EXCEPT ![q] = new]
    BY <1>3, <2>n
  <2>3. \A p \in Requests : req'[p] = IF p = q THEN new ELSE req[p]
    BY <2>2, OneSlot
  <2> QED
    BY <2>1, <2>3 DEF GoesTo, Others
<1> QED
  BY <1>2, <1>3

LEMMA Leaving ==
  ASSUME TypeInv, NEW q \in Requests, req' = [req EXCEPT ![q] = Idle]
  PROVE  Leaves(q)
<1>1. \A p \in Requests : req'[p] = IF p = q THEN Idle ELSE req[p]
  BY OneSlot
<1> QED
  BY <1>1 DEF Leaves, Others, Idle

\* A request starts, for nothing or for the invoice that pays for its account.
Starts(q, a) ==
    /\ Rests /\ Others(q)
    /\ req'[q].at \in {"read", "lock"} /\ req'[q].account = a /\ req'[q].day = today
    /\ UNCHANGED <<lock, mark, seen, today, level, change, lastChange, sweep>>
    /\ \/ req'[q].kind = "order" /\ req'[q].target = None
       \/ /\ req'[q].kind \in {"cancel", "renewal", "reissue"}
          /\ running(a, today) # {} /\ req'[q].target = findActiveInvoice(a, today).number
          /\ req'[q].kind = "cancel" => moneyBack(a, findActiveInvoice(a, today), today)

LEMMA Starting ==
  ASSUME TypeInv, NEW q \in Requests, NEW a \in Accounts,
         placeOrder(q, a) \/ makeCancel(q, a) \/ reissueInvoice(q, a)
  PROVE  Starts(q, a)
<1>1. ASSUME NEW r, Start(q, r)
      PROVE  /\ Rests /\ Others(q) /\ req'[q] = r
             /\ UNCHANGED <<lock, mark, seen, today, level, change, lastChange, sweep>>
  <2>1. \A p \in Requests : req'[p] = IF p = q THEN r ELSE req[p]
    BY <1>1, OneSlot DEF Start
  <2> QED
    BY <1>1, <2>1 DEF Start, Rests, Others, docVars, accountVars, Quiet
<1>2. CASE placeOrder(q, a)
  BY <1>1, <1>2 DEF placeOrder, Starts
<1>3. CASE makeCancel(q, a)
  <2>1. PICK i, back : i = findActiveInvoice(a, today) /\ back = moneyBack(a, i, today)
    OBVIOUS
  <2>2. /\ running(a, today) # {}
        /\ Start(q, [at |-> IF back THEN "read" ELSE "lock",
                     kind |-> IF back THEN "cancel" ELSE "renewal",
                     account |-> a, day |-> today, target |-> i.number,
                     owed |-> FALSE, number |-> None])
    BY <1>3, <2>1 DEF makeCancel
  <2> QED
    BY <1>1, <2>1, <2>2 DEF Starts
<1>4. CASE reissueInvoice(q, a)
  BY <1>1, <1>4 DEF reissueInvoice, Starts
<1> QED
  BY <1>2, <1>3, <1>4

\* A request ends without a document of its own to record: the account that it
\* leaves free and without a mark was so before, or has nothing issued by it.
Quits(q) ==
    /\ Rests /\ Leaves(q) /\ req[q].at # "idle"
    /\ UNCHANGED <<seen, today, level, change, lastChange, sweep>>
    /\ \A b \in Accounts : mark'[b] = None /\ lock'[b] = None =>
         \/ mark[b] = None /\ lock[b] = None
         \/ req[q].at \in {"number", "mark", "ask"} /\ req[q].account = b

\* A step of an admin, of the schedule, of a payer or of the clock that leaves
\* requests and documents as they are.
Aside ==
    /\ Rests /\ UNCHANGED <<req, lock>> /\ today <= today'
    /\ \A b \in Accounts : mark'[b] = None => mark[b] = None \/ seen[b] # None
    /\ \A b \in Accounts : seen'[b] # None => seen[b] # None

\* What such a step does to access: nothing, unless an operator revokes it, that is
\* logged, or the hourly run takes a step.
Passes == UNCHANGED <<level, change, lastChange, sweep, today>>
Revokes(a) ==
    /\ level[a] = "full" /\ level'[a] # "full" /\ lastChange'[a] = "revoked"
    /\ UNCHANGED <<change, sweep, today>>
    /\ \A b \in Accounts : b # a => level'[b] = level[b] /\ lastChange'[b] = lastChange[b]
Logs(a) ==
    /\ change'[a] \in {change[a], "revoked"} /\ UNCHANGED <<level, lastChange, sweep, today>>
    /\ \A b \in Accounts : b # a => change'[b] = change[b]
Scheduled ==
    \/ Passes \/ Run \/ AbortSweep \/ Midnight
    \/ \E a \in Accounts : Revokes(a) \/ Logs(a)

\* A transaction ends: its account's row is free, and no other account's changes.
LEMMA Committing ==
  ASSUME MarkInv, NEW q \in Requests, req[q].at \in Holding,
         NEW cleared \in BOOLEAN, Commit(q, cleared)
  PROVE  /\ Leaves(q) /\ req[q].account \in Accounts
         /\ \A b \in Accounts : b # req[q].account => lock'[b] = lock[b] /\ mark'[b] = mark[b]
         /\ lock[req[q].account] = q /\ lock'[req[q].account] = None
         /\ mark'[req[q].account] = IF cleared THEN None ELSE mark[req[q].account]
<1>0. TypeInv /\ LockInv /\ req[q].account \in Accounts
  BY Holder DEF MarkInv, NumberInv
<1>1. Leaves(q)
  BY <1>0, Leaving DEF Commit
<1>2. /\ lock \in [Accounts -> Requests \cup {None}] /\ mark \in [Accounts -> Numbers \cup {None}]
      /\ lock[req[q].account] = q
  BY <1>0 DEF TypeInv, TypeOK, LockInv
<1> QED
  BY <1>0, <1>1, <1>2 DEF Commit

\* Waiting requests are refused or end; refused calls and aborts leave nothing unmarked.
LEMMA Quitting ==
  ASSUME MarkInv, NEW q \in Requests,
         \/ (ReadStatus(q) \/ Lock(q) \/ cancelRenewal(q)) /\ req' = [req EXCEPT ![q] = Idle]
                                                         /\ UNCHANGED lock
         \/ Refused(q) \/ Unclear(q) \/ Abort(q)
  PROVE  Quits(q)
<1>0. TypeInv /\ LockInv
  BY DEF MarkInv, NumberInv
<1>1. CASE (ReadStatus(q) \/ Lock(q) \/ cancelRenewal(q)) /\ req' = [req EXCEPT ![q] = Idle]
                                                       /\ UNCHANGED lock
  <2>1. Leaves(q)
    BY <1>0, <1>1, Leaving
  <2>2. /\ req[q].at # "idle" /\ Rests
        /\ UNCHANGED <<seen, today, level, change, lastChange, sweep, mark>>
    BY <1>1 DEF ReadStatus, Lock, cancelRenewal, Rests, docVars, accountVars, Quiet
  <2> QED
    BY <1>1, <2>1, <2>2 DEF Quits
<1>2. CASE Refused(q) \/ Unclear(q)
  <2>1. /\ req[q].at \in {"ask", "answer"} /\ req[q].at \in Holding
        /\ Rests /\ UNCHANGED <<seen, today, level, change, lastChange, sweep>>
    BY <1>2 DEF Refused, Unclear, Rests, docVars, Quiet, Holding, Numbered
  <2>2. mark[req[q].account] # None
    BY <2>1, Holder DEF OnlyItsOwn, Numbered
  <2>3. (Commit(q, TRUE) /\ req[q].at = "ask") \/ Commit(q, FALSE)
    BY <1>2 DEF Refused, Unclear
  <2>4. /\ Leaves(q)
        /\ \A b \in Accounts : b # req[q].account => lock'[b] = lock[b] /\ mark'[b] = mark[b]
        /\ mark'[req[q].account] = None => req[q].at = "ask"
    BY <2>1, <2>2, <2>3, Committing
  <2> QED
    BY <2>1, <2>4 DEF Quits
<1>3. CASE Abort(q)
  <2>1. /\ req[q].at # "idle" /\ Rests
        /\ UNCHANGED <<seen, today, level, change, lastChange, sweep, mark>>
    BY <1>3 DEF Abort, Rests, docVars, Quiet
  <2>2. Leaves(q)
    BY <1>0, <1>3, Leaving DEF Abort
  <2>3. ASSUME NEW b \in Accounts, mark'[b] = None, lock'[b] = None, lock[b] # None
        PROVE  req[q].at \in {"number", "mark", "ask"} /\ req[q].account = b
    <3>1. lock[b] = q
      BY <1>3, <2>3 DEF Abort
    <3>2. req[q].at \in Holding /\ req[q].account = b
      BY <1>0, <2>3, <3>1, HolderIsRunning
    <3>3. req[q].at \in Numbered \ {"mark"} => mark[b] # None
      BY <3>2, Holder DEF OnlyItsOwn
    <3> QED
      BY <2>1, <2>3, <3>2, <3>3 DEF Holding, Numbered
  <2> QED
    BY <2>1, <2>2, <2>3 DEF Quits
<1> QED
  BY <1>1, <1>2, <1>3

\* Qonto issues an invoice for an order or a reissue, or the credit note of a cancel
\* or a reissue.
AsksInvoice(q, i) ==
    /\ req[q].at = "ask" /\ req[q].kind \in {"order", "reissue"} /\ GoesTo(q, "answer")
    /\ qInvoices' = qInvoices \cup {i} /\ UNCHANGED <<qCredits, invoices, credits>>
    /\ i \in Invoice /\ i.number = req[q].number /\ i.account = req[q].account
    /\ i.replaces = req[q].target /\ i.issue = req[q].day /\ i.issue <= i.end
    /\ UNCHANGED <<lock, mark, seen, today, level, change, lastChange, sweep>>
AsksCredit(q, c) ==
    /\ \/ req[q].at = "ask" /\ req[q].kind = "cancel" /\ GoesTo(q, "answer")
          /\ c.number = req[q].number
       \/ req[q].at = "credit" /\ req[q].kind = "reissue" /\ GoesTo(q, "credited")
          /\ c.number = req[q].number + 1
    /\ qCredits' = qCredits \cup {c} /\ UNCHANGED <<qInvoices, invoices, credits>>
    /\ c \in Credit /\ c.account = req[q].account /\ c.of = req[q].target
    /\ UNCHANGED <<lock, mark, seen, today, level, change, lastChange, sweep>>

LEMMA Issuing ==
  ASSUME MarkInv, NEW q \in Requests, QontoIssues(q)
  PROVE  (\E i : AsksInvoice(q, i)) \/ (\E c : AsksCredit(q, c))
<1>0. req[q].at \in {"ask", "credit"} /\ req[q].at \in Holding /\ req[q].at # "idle" /\ TypeInv
  BY DEF QontoIssues, Holding, Numbered, MarkInv, NumberInv
<1>1. UNCHANGED <<lock, mark, seen, today, level, change, lastChange, sweep, invoices, credits>>
  BY DEF QontoIssues, accountVars, Quiet
<1>2. req[q] \in Request /\ WellFormed(req[q])
  BY <1>0, Holder
<1>3. CASE req[q].at = "ask" /\ req[q].kind # "cancel"
  <2>1. PICK end \in Ends(q) : /\ qInvoices' = qInvoices \cup {newInvoice(q, end)}
                               /\ UNCHANGED qCredits
                               /\ req' = [req EXCEPT ![q].at = "answer"]
    BY <1>3 DEF QontoIssues
  <2>2. newInvoice(q, end) \in Invoice
    BY <1>0, <1>3, AskedDocuments
  <2>3. end >= req[q].day
    <3>1. req[q].day \in Nat
      BY <1>2, BoundAssumption DEF Request, Days
    <3> QED
      BY <3>1, TermAssumption DEF Ends
  <2>4. req[q].kind \in {"order", "reissue"}
    BY <1>0, <1>2, <1>3 DEF Request, Kinds, WellFormed
  <2>5. GoesTo(q, "answer")
    BY <1>0, <2>1, Moving
  <2>6. PICK i : i = newInvoice(q, end)
    OBVIOUS
  <2>7. AsksInvoice(q, i)
    BY <1>1, <1>3, <2>1, <2>2, <2>3, <2>4, <2>5, <2>6 DEF AsksInvoice, newInvoice
  <2> QED
    BY <2>7
<1>4. CASE req[q].at = "ask" /\ req[q].kind = "cancel"
  <2>1. /\ qCredits' = qCredits \cup {newCredit(q)} /\ UNCHANGED qInvoices
        /\ req' = [req EXCEPT ![q].at = "answer"]
    BY <1>4 DEF QontoIssues
  <2>2. newCredit(q) \in Credit
    BY <1>0, <1>4, AskedDocuments
  <2>3. GoesTo(q, "answer")
    BY <1>0, <2>1, Moving
  <2>4. AsksCredit(q, newCredit(q))
    BY <1>1, <1>4, <2>1, <2>2, <2>3 DEF AsksCredit, newCredit
  <2> QED
    BY <2>4
<1>5. CASE req[q].at = "credit"
  <2>1. /\ qCredits' = qCredits \cup {newCredit(q)} /\ UNCHANGED qInvoices
        /\ req' = [req EXCEPT ![q].at = "credited"]
    BY <1>5 DEF QontoIssues
  <2>2. newCredit(q) \in Credit /\ req[q].kind = "reissue"
    BY <1>0, <1>2, <1>5, AskedDocuments DEF WellFormed
  <2>3. GoesTo(q, "credited")
    BY <1>0, <2>1, Moving
  <2>4. AsksCredit(q, newCredit(q))
    BY <1>1, <1>5, <2>1, <2>2, <2>3 DEF AsksCredit, newCredit
  <2> QED
    BY <2>4
<1> QED
  BY <1>0, <1>3, <1>4, <1>5

\* A request records what Qonto has issued for it, and its transaction ends.
Finishes(q) ==
    /\ req[q].at \in Holding /\ Leaves(q)
    /\ UNCHANGED <<qInvoices, qCredits, seen, today, change, lastChange, sweep>>
    /\ lock[req[q].account] = q
    /\ \A b \in Accounts : b # req[q].account =>
         lock'[b] = lock[b] /\ mark'[b] = mark[b] /\ level'[b] = level[b]
NewRow(q, i) ==
    /\ i \in qInvoices /\ i.number = req[q].number /\ i.account = req[q].account
    /\ i.replaces = req[q].target
    /\ invoices' = invoices \cup {i}
    /\ \A j \in qInvoices : j.account = req[q].account => j \in invoices'
NewCreditRow(q, d, number) ==
    /\ credits' = credits \cup {d}
    /\ d.number = number /\ d.account = req[q].account /\ d.of = req[q].target
Records(q) ==
    /\ Finishes(q)
    /\ \/ /\ req[q].at = "answer" /\ req[q].kind = "order" /\ UNCHANGED credits
          /\ \E i : NewRow(q, i)
          /\ level'[req[q].account] = "full"
       \/ /\ req[q].at = "answer" /\ req[q].kind = "cancel" /\ UNCHANGED invoices
          /\ \E d : NewCreditRow(q, d, req[q].number)
          /\ level'[req[q].account] = "unlicensed"
       \/ /\ req[q].at \in {"credit", "credited"} /\ req[q].kind = "reissue" /\ UNCHANGED <<credits, level>>
          /\ \E i : NewRow(q, i)
          /\ mark'[req[q].account] # None
       \/ /\ req[q].at = "credited" /\ req[q].kind = "reissue"
          /\ \E i : NewRow(q, i)
          /\ \E d : NewCreditRow(q, d, req[q].number + 1)
          /\ level'[req[q].account] = "full"

LEMMA Recording ==
  ASSUME MarkInv, NEW q \in Requests,
         RecordOrder(q) \/ RecordCancel(q) \/ CreditFails(q) \/ RecordReissue(q)
  PROVE  Records(q)
<1>0. /\ req[q].at \in {"answer", "credit", "credited"} /\ req[q].at \in Holding
      /\ TypeInv /\ req[q] \in Request /\ WellFormed(req[q])
      /\ req[q].account \in Accounts /\ mark[req[q].account] # None
      /\ level \in [Accounts -> Levels]
  <2>1. req[q].at \in {"answer", "credit", "credited"} /\ req[q].at \in Holding
    BY DEF RecordOrder, RecordCancel, CreditFails, RecordReissue, Holding, Numbered
  <2> QED
    BY <2>1, Holder DEF OnlyItsOwn, Numbered, MarkInv, NumberInv, TypeInv, TypeOK
<1>1. UNCHANGED <<qInvoices, qCredits, seen, today, change, lastChange, sweep>>
  BY DEF RecordOrder, RecordCancel, CreditFails, RecordReissue, Quiet
<1>2. ASSUME NEW cleared \in BOOLEAN, Commit(q, cleared),
             \A b \in Accounts : b # req[q].account => level'[b] = level[b]
      PROVE  Finishes(q) /\ (~cleared => mark'[req[q].account] # None)
  BY <1>0, <1>1, <1>2, Committing DEF Finishes
<1>3. ASSUME Issued(req[q]), invoices' = invoices \cup {issuedInvoice(q)}
      PROVE  NewRow(q, issuedInvoice(q))
  <2>n. PICK i : i = issuedInvoice(q)
    OBVIOUS
  <2>1. i \in qInvoices /\ i.number = req[q].number
    BY <1>0, <1>3, <2>n, IssuedInvoice
  <2>2. i.account = req[q].account /\ i.replaces = req[q].target
    <3>1. i.number \in heldBy(i) /\ i.number \in usedBy(req[q])
      BY <2>1 DEF heldBy, usedBy
    <3> QED
      BY <1>3, <2>1, <3>1 DEF MarkInv, NumberInv, NumbersFresh
  <2>3. unrecordedInvoices(req[q].account) \subseteq {i}
    <3>1. \A j, k \in qInvoices : j.number = k.number => j = k
      <4>1. \A j \in qInvoices : j.number \in heldBy(j)
        BY DEF heldBy
      <4> QED
        BY <4>1 DEF MarkInv, NumberInv, NumbersApart
    <3>2. \A j \in unrecordedInvoices(req[q].account) : j.number = req[q].number
      BY <1>0, <1>3, Holder DEF OnlyItsOwn, Numbered, invoicesOut
    <3> QED
      BY <2>1, <3>1, <3>2 DEF unrecordedInvoices
  <2>4. \A j \in qInvoices : j.account = req[q].account => j \in invoices'
    BY <1>3, <2>n, <2>3 DEF unrecordedInvoices
  <2> QED
    BY <1>3, <2>n, <2>1, <2>2, <2>4 DEF NewRow
<1>4. ASSUME NEW owed, credits' = credits \cup {creditRow(q, owed)}
      PROVE  NewCreditRow(q, creditRow(q, owed), newCredit(q).number)
  BY <1>4 DEF NewCreditRow, creditRow
<1>5. CASE RecordOrder(q)
  <2>1. Issued(req[q])
    BY <1>5 DEF RecordOrder, Issued
  <2>2. Finishes(q)
    BY <1>0, <1>2, <1>5 DEF RecordOrder
  <2>3. level'[req[q].account] = "full" /\ NewRow(q, issuedInvoice(q)) /\ UNCHANGED credits
    BY <1>0, <1>3, <1>5, <2>1 DEF RecordOrder
  <2> QED
    BY <1>5, <2>2, <2>3 DEF Records, RecordOrder
<1>6. CASE RecordCancel(q)
  <2>1. Finishes(q)
    BY <1>0, <1>2, <1>6 DEF RecordCancel
  <2>2. level'[req[q].account] = "unlicensed" /\ UNCHANGED invoices
        /\ NewCreditRow(q, creditRow(q, req[q].owed), req[q].number)
    BY <1>0, <1>4, <1>6 DEF RecordCancel, newCredit
  <2> QED
    BY <1>6, <2>1, <2>2 DEF Records, RecordCancel
<1>7. CASE CreditFails(q)
  <2>1. Issued(req[q]) /\ req[q].kind = "reissue"
    BY <1>0, <1>7 DEF CreditFails, Issued, WellFormed
  <2>2. Finishes(q) /\ mark'[req[q].account] # None
    BY <1>0, <1>2, <1>7 DEF CreditFails
  <2>3. UNCHANGED <<credits, level>> /\ NewRow(q, issuedInvoice(q))
    BY <1>3, <1>7, <2>1 DEF CreditFails
  <2> QED
    BY <1>7, <2>1, <2>2, <2>3 DEF Records, CreditFails
<1>8. CASE RecordReissue(q)
  <2>1. Issued(req[q]) /\ req[q].kind = "reissue" /\ req[q].at = "credited"
    BY <1>0, <1>8 DEF RecordReissue, Issued, WellFormed
  <2>2. Finishes(q)
    BY <1>0, <1>2, <1>8 DEF RecordReissue
  <2>3. level'[req[q].account] = "full" /\ NewRow(q, issuedInvoice(q))
        /\ NewCreditRow(q, creditRow(q, FALSE), req[q].number + 1)
    BY <1>0, <1>3, <1>4, <1>8, <2>1 DEF RecordReissue, newCredit
  <2> QED
    BY <2>1, <2>2, <2>3 DEF Records
<1> QED
  BY <1>5, <1>6, <1>7, <1>8

\* An admin sets an account right: what Qonto has and misses is issued and recorded.
Checked(a) ==
    /\ mark[a] # None /\ lock[a] = None
    /\ UNCHANGED <<req, lock, mark, qInvoices, today, change, lastChange, sweep>>
    /\ \A b \in Accounts : b # a => seen'[b] = seen[b] /\ level'[b] = level[b]
    /\ qCredits' = qCredits \cup uncreditedReissues(a)
    /\ invoices' = invoices \cup unrecordedInvoices(a)
    /\ credits \subseteq credits'
    /\ \A d \in credits' \ credits :
         \E c \in unrecordedCredits(a) \cup uncreditedReissues(a) :
           d.number = c.number /\ d.of = c.of /\ d.account = a
    /\ \/ unrecordedInvoices(a) # {} /\ level'[a] = "full"
       \/ unrecordedInvoices(a) = {} /\ unrecordedCredits(a) # {} /\ level'[a] = "unlicensed"
       \/ unrecordedInvoices(a) = {} /\ unrecordedCredits(a) = {} /\ level'[a] = level[a]

LEMMA Checking ==
  ASSUME TypeInv, NEW a \in Accounts, CheckQonto(a)
  PROVE  Checked(a)
<1> DEFINE row(c) == [number |-> c.number, account |-> a, of |-> c.of,
                      refundOwed |-> c.of \in paid]
           found == unrecordedCredits(a) \cup uncreditedReissues(a)
<1>1. credits' = credits \cup {row(c) : c \in found}
  BY DEF CheckQonto
<1>2. ASSUME NEW d \in credits' \ credits
      PROVE  \E c \in found : d.number = c.number /\ d.of = c.of /\ d.account = a
  <2>1. PICK c \in found : d = row(c)
    BY <1>1, <1>2
  <2> QED
    BY <2>1
<1>3. /\ mark[a] # None /\ lock[a] = None
      /\ UNCHANGED <<req, lock, mark, qInvoices, today, change, lastChange, sweep>>
      /\ qCredits' = qCredits \cup uncreditedReissues(a)
      /\ invoices' = invoices \cup unrecordedInvoices(a)
  BY DEF CheckQonto, Free
<1>4. /\ \A b \in Accounts : b # a => seen'[b] = seen[b] /\ level'[b] = level[b]
      /\ \/ unrecordedInvoices(a) # {} /\ level'[a] = "full"
         \/ unrecordedInvoices(a) = {} /\ unrecordedCredits(a) # {} /\ level'[a] = "unlicensed"
         \/ unrecordedInvoices(a) = {} /\ unrecordedCredits(a) = {} /\ level'[a] = level[a]
  BY DEF CheckQonto, TypeInv, TypeOK
<1>5. credits \subseteq credits'
  BY <1>1
<1> HIDE DEF row
<1> QED
  BY <1>2, <1>3, <1>4, <1>5 DEF Checked

\* The steps of a request between its documents.
Onward == Rests /\ UNCHANGED <<seen, today, level, change, lastChange, sweep>>
ReadsOn(q) == Onward /\ req[q].at = "read" /\ GoesTo(q, "lock") /\ UNCHANGED <<lock, mark>>
TakesRow(q) ==
    /\ Onward /\ req[q].at = "lock" /\ GoesTo(q, "number") /\ UNCHANGED mark
    /\ req[q].kind # "renewal" /\ ~refusedUnderLock(req[q])
    /\ lock[req[q].account] = None /\ lock'[req[q].account] = q
    /\ \A b \in Accounts : b # req[q].account => lock'[b] = lock[b]
TakesNumber(q) ==
    /\ Onward /\ req[q].at = "number" /\ Others(q) /\ UNCHANGED <<lock, mark>>
    /\ req'[q].at = "mark" /\ req'[q].number = counter + 1
    /\ req'[q].kind = req[q].kind /\ req'[q].account = req[q].account
    /\ req'[q].day = req[q].day /\ req'[q].target = req[q].target
Marks(q) ==
    /\ Onward /\ req[q].at = "mark" /\ GoesTo(q, "ask") /\ UNCHANGED lock
    /\ mark'[req[q].account] # None
    /\ \A b \in Accounts : b # req[q].account => mark'[b] = mark[b]
KeepsOn(q) ==
    /\ Onward /\ req[q].at = "answer" /\ req[q].kind = "reissue" /\ GoesTo(q, "credit")
    /\ UNCHANGED <<lock, mark>>
GoesOn(q) == ReadsOn(q) \/ TakesRow(q) \/ TakesNumber(q) \/ Marks(q) \/ KeepsOn(q)

LEMMA GoingOn ==
  ASSUME MarkInv, NEW q \in Requests,
         ReadStatus(q) \/ Lock(q) \/ takeDocumentNumber(q) \/ markOrderCheck(q) \/ ReissueIssued(q)
  PROVE  Quits(q) \/ GoesOn(q)
<1>0. /\ TypeInv /\ LockInv /\ req[q].at # "idle" /\ req[q] \in Request
      /\ req[q].account \in Accounts
      /\ mark \in [Accounts -> Numbers \cup {None}] /\ lock \in [Accounts -> Requests \cup {None}]
  <2>1. TypeInv /\ LockInv /\ req[q].at # "idle"
    BY DEF MarkInv, NumberInv, ReadStatus, Lock, takeDocumentNumber, markOrderCheck, ReissueIssued
  <2> QED
    BY <2>1, Running DEF TypeInv, TypeOK, Request
<1>1. Onward
  BY DEF ReadStatus, Lock, takeDocumentNumber, markOrderCheck, ReissueIssued, Onward, Rests,
         docVars, accountVars, Quiet
<1>2. CASE ReadStatus(q)
  <2>1. req[q].at = "read" /\ UNCHANGED <<lock, mark>>
    BY <1>2 DEF ReadStatus, accountVars
  <2>2. CASE req' = [req EXCEPT ![q] = Idle]
    BY <1>2, <2>1, <2>2, Quitting
  <2>3. ASSUME NEW owed, req' = [req EXCEPT ![q].at = "lock", ![q].owed = owed]
        PROVE  GoesTo(q, "lock")
    BY <1>0, <2>3, Moving
  <2> QED
    BY <1>1, <1>2, <2>1, <2>2, <2>3 DEF ReadStatus, GoesOn, ReadsOn
<1>3. CASE Lock(q)
  <2>1. CASE req' = [req EXCEPT ![q] = Idle] /\ UNCHANGED lock
    BY <1>3, <2>1, Quitting
  <2>2. CASE /\ ~refusedUnderLock(req[q])
             /\ req' = [req EXCEPT ![q].at = "number"]
             /\ lock' = [lock EXCEPT ![req[q].account] = q]
    <3>1. GoesTo(q, "number")
      BY <1>0, <2>2, Moving
    <3>2. /\ lock'[req[q].account] = q
          /\ \A b \in Accounts : b # req[q].account => lock'[b] = lock[b]
      BY <1>0, <2>2
    <3> QED
      BY <1>1, <1>3, <2>2, <3>1, <3>2 DEF Lock, Free, GoesOn, TakesRow
  <2> QED
    BY <1>3, <2>1, <2>2 DEF Lock
<1>4. CASE takeDocumentNumber(q)
  <2>n. PICK new : new = [req[q] EXCEPT !.at = "mark", !.number = counter + 1]
    OBVIOUS
  <2>1. /\ new.at = "mark" /\ new.kind = req[q].kind /\ new.account = req[q].account
        /\ new.day = req[q].day /\ new.target = req[q].target /\ new.number = counter + 1
    BY <1>0, <2>n DEF Request
  <2>2. req' = [req EXCEPT ![q] = new]
    BY <1>4, <2>n DEF takeDocumentNumber
  <2>3. \A p \in Requests : req'[p] = IF p = q THEN new ELSE req[p]
    BY <1>0, <2>2, OneSlot
  <2>4. req[q].at = "number" /\ UNCHANGED <<lock, mark>>
    BY <1>4 DEF takeDocumentNumber, accountVars
  <2>5. TakesNumber(q)
    BY <1>1, <2>1, <2>3, <2>4 DEF TakesNumber, Others
  <2> QED
    BY <2>5 DEF GoesOn
<1>5. CASE markOrderCheck(q)
  <2>1. req[q].at = "mark" /\ UNCHANGED lock /\ GoesTo(q, "ask")
    BY <1>0, <1>5, Moving DEF markOrderCheck
  <2>2. req[q].number # None
    BY <2>1, Holder DEF Holding, Numbered
  <2>3. /\ mark'[req[q].account] # None
        /\ \A b \in Accounts : b # req[q].account => mark'[b] = mark[b]
    BY <1>0, <1>5, <2>2 DEF markOrderCheck
  <2> QED
    BY <1>1, <2>1, <2>3 DEF GoesOn, Marks
<1>6. CASE ReissueIssued(q)
  <2>1. req[q].at = "answer" /\ req[q].kind = "reissue" /\ UNCHANGED <<lock, mark>>
        /\ GoesTo(q, "credit")
    BY <1>0, <1>6, Moving DEF ReissueIssued, accountVars
  <2> QED
    BY <1>1, <2>1 DEF GoesOn, KeepsOn
<1> QED
  BY <1>2, <1>3, <1>4, <1>5, <1>6

\* Every step is one of these.
LEMMA EveryStep ==
  ASSUME ~ChecksMidOrder, MarkInv, [Next]_vars
  PROVE  \/ Aside /\ Scheduled
         \/ \E q \in Requests, a \in Accounts : Starts(q, a)
         \/ \E q \in Requests : \/ Quits(q) \/ GoesOn(q) \/ Records(q)
                                \/ \E i : AsksInvoice(q, i)
                                \/ \E c : AsksCredit(q, c)
         \/ \E a \in Accounts : Checked(a)
<1>0. TypeInv /\ today \in Nat
  BY BoundAssumption DEF MarkInv, NumberInv, TypeInv, TypeOK, Days
<1>1. ASSUME NEW q \in Requests, NEW a \in Accounts,
             placeOrder(q, a) \/ makeCancel(q, a) \/ reissueInvoice(q, a)
      PROVE  Starts(q, a)
  BY <1>0, <1>1, Starting
<1>2. ASSUME NEW q \in Requests, Progress(q) \/ Abort(q)
      PROVE  \/ Quits(q) \/ GoesOn(q) \/ Records(q)
             \/ \E i : AsksInvoice(q, i)
             \/ \E c : AsksCredit(q, c)
  <2>1. CASE cancelRenewal(q)
    <3>1. req' = [req EXCEPT ![q] = Idle] /\ UNCHANGED lock
      BY <2>1 DEF cancelRenewal
    <3> QED
      BY <2>1, <3>1, Quitting
  <2> QED
    BY <1>2, <2>1, Quitting, GoingOn, Recording, Issuing DEF Progress
<1>3. ASSUME NEW a \in Accounts, clearCheckedOrder(a) PROVE Aside /\ Scheduled
  <2>1. Rests /\ UNCHANGED <<req, lock, today>> /\ Passes
    BY <1>3 DEF clearCheckedOrder, Rests, docVars, Passes
  <2>2. seen' = [seen EXCEPT ![a] = None] /\ seen[a] # None
        /\ (mark' = mark \/ mark' = [mark EXCEPT ![a] = None])
    BY <1>3 DEF clearCheckedOrder
  <2>3. mark \in [Accounts -> Numbers \cup {None}] /\ seen \in [Accounts -> Numbers \cup {None}]
    BY <1>0 DEF TypeInv, TypeOK
  <2> QED
    BY <1>0, <2>1, <2>2, <2>3 DEF Aside, Scheduled
<1>4. ASSUME \/ \E n \in Numbers : PaymentArrives(n)
             \/ \E a \in Accounts : waiveMoneyBack(a) \/ revokeAccess(a) \/ logRevoke(a)
             \/ Run \/ AbortSweep \/ Midnight \/ UNCHANGED vars
      PROVE  Aside /\ Scheduled
  <2>1. Rests /\ UNCHANGED <<req, lock, mark, seen>> /\ (today' = today \/ today' = today + 1)
    BY <1>4
    DEF PaymentArrives, waiveMoneyBack, revokeAccess, logRevoke, Run, nonPaymentCandidates,
        readLiveInvoice, UnreadableInvoice, applyAndRecord, AbortSweep, Midnight, Rests, vars,
        docVars, accountVars
  <2>2. Aside
    BY <1>0, <2>1 DEF Aside
  <2>3. ASSUME NEW a \in Accounts, revokeAccess(a) PROVE Revokes(a)
    <3>1. /\ level' = [level EXCEPT ![a] = "unlicensed"] /\ level[a] = "full"
          /\ UNCHANGED <<change, sweep, today>>
          /\ lastChange' = [lastChange EXCEPT ![a] = "revoked"]
      BY <2>3 DEF revokeAccess
    <3> QED
      BY <1>0, <3>1 DEF Revokes, TypeInv, TypeOK
  <2>4. ASSUME NEW a \in Accounts, logRevoke(a) PROVE Logs(a)
    <3>1. /\ change' = [change EXCEPT ![a] = "revoked"] \/ change' = change
          /\ UNCHANGED <<level, lastChange, sweep, today>>
      BY <2>4 DEF logRevoke
    <3> QED
      BY <1>0, <3>1 DEF Logs, TypeInv, TypeOK
  <2> QED
    BY <1>4, <2>2, <2>3, <2>4
    DEF PaymentArrives, waiveMoneyBack, Scheduled, Passes, vars, docVars, accountVars
<1>5. ASSUME NEW a \in Accounts, CheckQonto(a) PROVE Checked(a)
  BY <1>0, <1>5, Checking
<1>6. ASSUME NEW a \in Accounts, CheckRunningOrder(a) PROVE FALSE
  BY <1>6 DEF CheckRunningOrder
<1>7. CASE Next
  BY <1>1, <1>2, <1>3, <1>4, <1>5, <1>6, <1>7 DEF Next
<1>8. CASE UNCHANGED vars
  BY <1>4, <1>8
<1> QED
  BY <1>7, <1>8

----------------------------------------------------------------------------
(* What documents and requests refer to *)

\* A reissue and a credit note refer to an older recorded invoice of their account,
\* a credit note's row to the credit note, and what is unrecorded is the newest.
DocRefs ==
    /\ \A i \in qInvoices : i.replaces # None =>
         \E k \in invoices : /\ k.number = i.replaces /\ k.account = i.account
                             /\ k.number < i.number /\ k.issue <= i.issue
    /\ \A c \in qCredits : \E k \in invoices : k.number = c.of /\ k.account = c.account
    /\ \A d \in credits : \E c \in qCredits :
         c.number = d.number /\ c.of = d.of /\ c.account = d.account
    /\ \A i \in qInvoices : i.issue <= today /\ i.issue <= i.end
    /\ \A i \in qInvoices \ invoices, k \in invoices : i.account = k.account => k.number < i.number

\* A request's target is a recorded invoice of its account, its number newer than
\* all that is recorded there, and what it had Qonto issue is there.
ReqRefs(r) ==
    r.at # "idle" =>
      /\ r.day <= today
      /\ r.target # None =>
           \E k \in invoices : k.number = r.target /\ k.account = r.account /\ k.issue <= r.day
      /\ r.at \in Numbered => \A k \in invoices : k.account = r.account => k.number < r.number
      /\ Issued(r) => \E i \in qInvoices : /\ i.number = r.number /\ i.account = r.account
                                           /\ i.replaces = r.target /\ i.issue = r.day
      /\ r.at = "answer" /\ r.kind = "cancel" =>
           \E c \in qCredits : c.number = r.number /\ c.of = r.target /\ c.account = r.account
      /\ r.at = "credited" =>
           \E c \in qCredits : c.number = r.number + 1 /\ c.of = r.target /\ c.account = r.account

RefRest == DocRefs /\ \A q \in Requests : ReqRefs(req[q])
RefInv == MarkInv /\ RefRest

\* The types that the comparisons need.
LEMMA LedgerTypes ==
  ASSUME MarkInv
  PROVE  /\ TypeInv /\ LockInv /\ today \in Nat /\ counter \in Nat
         /\ invoices \subseteq qInvoices
         /\ \A i \in qInvoices : /\ i.number \in Nat /\ i.issue \in Nat /\ i.end \in Nat
                                 /\ i.account \in Accounts /\ i.number <= counter
                                 /\ i.number # None /\ i.number \in Numbers
         /\ \A i, j \in qInvoices : i.number = j.number => i = j
         /\ \A c, d \in qCredits : c.number = d.number => c = d
         /\ \A q \in Requests : req[q].at # "idle" =>
              /\ req[q] \in Request /\ WellFormed(req[q])
              /\ req[q].day \in Nat /\ req[q].account \in Accounts
              /\ req[q].at \in Numbered => req[q].number \in Nat /\ req[q].number # None
         /\ \A q \in Requests : req[q].at \in Holding =>
              req[q].at # "idle" /\ lock[req[q].account] = q
<1>1. TypeInv /\ LockInv /\ TypeOK /\ NumbersApart /\ invoices \subseteq qInvoices
  BY DEF MarkInv, NumberInv, TypeInv
<1>2. /\ today \in Nat /\ counter \in Nat /\ Numbers \subseteq Nat /\ Days \subseteq Nat
      /\ 0 .. (LastDay + YEAR) \subseteq Nat /\ None \notin Nat
  BY <1>1, BoundAssumption, TermAssumption, NoneAssumption DEF TypeOK, Days, Numbers
<1>3. ASSUME NEW i \in qInvoices
      PROVE  /\ i.number \in Nat /\ i.issue \in Nat /\ i.end \in Nat /\ i.account \in Accounts
             /\ i.number <= counter /\ i.number # None /\ i.number \in Numbers
  <2>1. i \in Invoice /\ i.number \in heldBy(i)
    BY <1>1 DEF TypeOK, heldBy
  <2>2. i.number \in 1 .. counter
    BY <1>1, <2>1 DEF NumbersApart
  <2>3. /\ i.number \in Numbers /\ i.issue \in Days /\ i.end \in 0 .. (LastDay + YEAR)
        /\ i.account \in Accounts
    BY <2>1 DEF Invoice
  <2>4. i.number \in Nat /\ i.issue \in Nat /\ i.end \in Nat /\ i.number # None
    BY <1>2, <2>3
  <2> QED
    BY <1>2, <2>2, <2>3, <2>4
<1>4. \A i, j \in qInvoices : i.number = j.number => i = j
  <2>1. \A j \in qInvoices : j.number \in heldBy(j)
    BY DEF heldBy
  <2> QED
    BY <1>1, <2>1 DEF NumbersApart
<1>5. ASSUME NEW q \in Requests, req[q].at # "idle"
      PROVE  /\ req[q] \in Request /\ WellFormed(req[q])
             /\ req[q].day \in Nat /\ req[q].account \in Accounts
             /\ req[q].at \in Numbered => req[q].number \in Nat /\ req[q].number # None
  BY <1>1, <1>2, <1>5, Running DEF TypeInv, Request, WellFormed
<1>6. \A q \in Requests : req[q].at \in Holding => req[q].at # "idle" /\ lock[req[q].account] = q
  BY <1>1 DEF LockInv, Holding, Numbered
<1> QED
  BY <1>1, <1>2, <1>3, <1>4, <1>5, <1>6 DEF NumbersApart

\* What a request refers to stays, while others' invoices are recorded.
LEMMA RefsStay ==
  ASSUME NEW r, ReqRefs(r), qInvoices \subseteq qInvoices', qCredits \subseteq qCredits',
         invoices \subseteq invoices', today \in Nat, today' \in Nat, today <= today',
         r.at # "idle" => r.day \in Nat,
         r.at \in Numbered => \A k \in invoices' \ invoices : k.account # r.account
  PROVE  ReqRefs(r)'
  BY DEF ReqRefs

\* Two requests do not hold one account's row.
LEMMA Apart ==
  ASSUME MarkInv, NEW p \in Requests, NEW q \in Requests, p # q,
         req[p].at \in Holding, req[q].at \in Holding
  PROVE  req[p].account # req[q].account
  BY LedgerTypes

\* The day does not go back.
LEMMA DayGoesOn ==
  ASSUME MarkInv, Rests, UNCHANGED today
  PROVE  DocRefs => DocRefs'
  BY DEF DocRefs, Rests

LEMMA RefsAside ==
  ASSUME RefInv, Aside, today' \in Nat
  PROVE  RefRest'
<1>1. MarkInv /\ DocRefs /\ today \in Nat /\ UNCHANGED req /\ Rests /\ today <= today'
      /\ \A i \in qInvoices : i.issue \in Nat
  BY LedgerTypes DEF RefInv, RefRest, Aside
<1>2. DocRefs'
  BY <1>1 DEF DocRefs, Rests
<1>3. ASSUME NEW p \in Requests PROVE ReqRefs(req[p])'
  <2>1. ReqRefs(req[p]) /\ (req[p].at # "idle" => req[p].day \in Nat)
    BY <1>1, LedgerTypes DEF RefInv, RefRest
  <2> QED
    BY <1>1, <2>1 DEF ReqRefs, Rests
<1> QED
  BY <1>2, <1>3 DEF RefRest

\* A request that starts refers to a recorded invoice of its account, or to none.
LEMMA RefsStart ==
  ASSUME RefInv, NEW q \in Requests, NEW a \in Accounts, Starts(q, a)
  PROVE  RefRest'
<1>1. MarkInv /\ Rests /\ UNCHANGED today /\ Others(q) /\ today \in Days /\ TypeOK
  BY LedgerTypes DEF RefInv, Starts, TypeInv, TypeOK
<1>2. DocRefs'
  BY <1>1, DayGoesOn DEF RefInv, RefRest
<1>3. ASSUME NEW p \in Requests, p # q PROVE ReqRefs(req[p])'
  BY <1>1, <1>3 DEF RefInv, RefRest, ReqRefs, Others, Rests
<1>4. ReqRefs(req[q])'
  <2>1. /\ req'[q].at \in {"read", "lock"} /\ req'[q].account = a /\ req'[q].day = today
        /\ UNCHANGED invoices
    BY DEF Starts, Rests
  <2>2. req'[q].target # None => \E k \in invoices : k.number = req'[q].target /\ k.account = a /\ k.issue <= today
    <3>1. CASE running(a, today) # {} /\ req'[q].target = findActiveInvoice(a, today).number
      <4>1. findActiveInvoice(a, today) \in running(a, today)
        BY <1>1, <3>1, ActiveInvoice
      <4>2. findActiveInvoice(a, today) \in invoices /\ findActiveInvoice(a, today).account = a
        BY <4>1 DEF running, invoicesOf
      <4>3. findActiveInvoice(a, today).issue <= today
        BY <1>1, <4>2, LedgerTypes DEF RefInv, RefRest, DocRefs
      <4> QED
        BY <3>1, <4>2, <4>3
    <3> QED
      BY <3>1 DEF Starts
  <2>3. today <= today /\ req'[q].at \notin Numbered /\ ~Issued(req'[q])
    BY <1>1, <2>1, BoundAssumption DEF Numbered, Issued, Days
  <2> QED
    BY <1>1, <2>1, <2>2, <2>3 DEF ReqRefs
<1> QED
  BY <1>2, <1>3, <1>4 DEF RefRest

LEMMA RefsQuit ==
  ASSUME RefInv, NEW q \in Requests, Quits(q)
  PROVE  RefRest'
<1>1. MarkInv /\ Rests /\ UNCHANGED today /\ Leaves(q)
  BY DEF RefInv, Quits
<1>2. DocRefs'
  BY <1>1, DayGoesOn DEF RefInv, RefRest
<1>3. ASSUME NEW p \in Requests PROVE ReqRefs(req[p])'
  BY <1>1 DEF RefInv, RefRest, ReqRefs, Leaves, Others, Rests
<1> QED
  BY <1>2, <1>3 DEF RefRest

LEMMA RefsGoOn ==
  ASSUME RefInv, NEW q \in Requests, GoesOn(q)
  PROVE  RefRest'
<1>1. /\ MarkInv /\ Rests /\ UNCHANGED today /\ Others(q) /\ req[q].at # "idle"
      /\ req'[q].account = req[q].account /\ req'[q].day = req[q].day
      /\ req'[q].target = req[q].target /\ req'[q].kind = req[q].kind
  BY DEF RefInv, GoesOn, ReadsOn, TakesRow, TakesNumber, Marks, KeepsOn, Onward, GoesTo
<1>2. DocRefs'
  BY <1>1, DayGoesOn DEF RefInv, RefRest
<1>3. ASSUME NEW p \in Requests, p # q PROVE ReqRefs(req[p])'
  BY <1>1, <1>3 DEF RefInv, RefRest, ReqRefs, Others, Rests
<1>4. ReqRefs(req[q])
  BY DEF RefInv, RefRest
<1>5. ReqRefs(req[q])'
  <2>1. CASE ReadsOn(q) \/ TakesRow(q)
    <3>1. req'[q].at \notin Numbered /\ ~Issued(req'[q]) /\ req'[q].at \notin {"answer", "credited"}
      BY <2>1 DEF ReadsOn, TakesRow, GoesTo, Numbered, Issued
    <3> QED
      BY <1>1, <1>4, <3>1 DEF ReqRefs, Rests
  <2>2. CASE TakesNumber(q)
    <3>1. req'[q].at = "mark" /\ req'[q].number = counter + 1 /\ ~Issued(req'[q])
      BY <2>2 DEF TakesNumber, Issued
    <3>2. \A k \in invoices : k.number < counter + 1
      BY <1>1, LedgerTypes
    <3> QED
      BY <1>1, <1>4, <3>1, <3>2 DEF ReqRefs, Rests
  <2>3. CASE Marks(q)
    <3>1. /\ req[q].at = "mark" /\ req'[q].at = "ask" /\ req'[q].number = req[q].number
          /\ ~Issued(req'[q]) /\ req[q].at \in Numbered
      BY <2>3 DEF Marks, GoesTo, Issued, Numbered
    <3> QED
      BY <1>1, <1>4, <3>1 DEF ReqRefs, Rests
  <2>4. CASE KeepsOn(q)
    <3>1. /\ req[q].at = "answer" /\ req'[q].at = "credit" /\ req'[q].number = req[q].number
          /\ Issued(req[q]) /\ req[q].at \in Numbered
      BY <2>4 DEF KeepsOn, GoesTo, Issued, Numbered
    <3> QED
      BY <1>1, <1>4, <3>1 DEF ReqRefs, Rests
  <2> QED
    BY <2>1, <2>2, <2>3, <2>4 DEF GoesOn
<1> QED
  BY <1>2, <1>3, <1>5 DEF RefRest

LEMMA RefsAsk ==
  ASSUME RefInv, NEW q \in Requests,
         (\E i : AsksInvoice(q, i)) \/ (\E c : AsksCredit(q, c))
  PROVE  RefRest'
<1>0. MarkInv /\ ReqRefs(req[q]) /\ DocRefs /\ today \in Nat /\ req[q].at \in Numbered
  BY LedgerTypes DEF RefInv, RefRest, AsksInvoice, AsksCredit, Numbered
<1>1. CASE \E i : AsksInvoice(q, i)
  <2>1. PICK i : AsksInvoice(q, i)
    BY <1>1
  <2>2. /\ req[q].at = "ask" /\ qInvoices' = qInvoices \cup {i} /\ UNCHANGED <<qCredits, invoices, credits>>
        /\ i.number = req[q].number /\ i.account = req[q].account
        /\ i.replaces = req[q].target /\ i.issue = req[q].day /\ i.issue <= i.end
        /\ GoesTo(q, "answer") /\ UNCHANGED today /\ req[q].kind # "cancel"
    BY <2>1 DEF AsksInvoice
  <2>3. /\ \A k \in invoices : k.account = i.account => k.number < i.number
        /\ i.issue <= today
        /\ i.replaces # None => \E k \in invoices : /\ k.number = i.replaces /\ k.account = i.account
                                                     /\ k.number < i.number /\ k.issue <= i.issue
    BY <1>0, <2>2 DEF ReqRefs
  <2>4. DocRefs'
    BY <1>0, <2>2, <2>3 DEF DocRefs
  <2>5. ASSUME NEW p \in Requests, p # q PROVE ReqRefs(req[p])'
    <3>1. ReqRefs(req[p]) /\ req'[p] = req[p]
      BY <2>2, <2>5 DEF RefInv, RefRest, GoesTo, Others
    <3> QED
      BY <2>2, <3>1 DEF ReqRefs
  <2>6. ReqRefs(req[q])'
    <3>1. /\ req'[q].at = "answer" /\ req'[q].kind = req[q].kind /\ req'[q].account = req[q].account
          /\ req'[q].day = req[q].day /\ req'[q].target = req[q].target
          /\ req'[q].number = req[q].number /\ req[q].at # "idle"
      BY <2>2 DEF GoesTo
    <3>2. i \in qInvoices' /\ i.number = req'[q].number /\ i.account = req'[q].account
          /\ i.replaces = req'[q].target /\ i.issue = req'[q].day
      BY <2>2, <3>1
    <3> QED
      BY <1>0, <2>2, <3>1, <3>2 DEF ReqRefs
  <2> QED
    BY <2>4, <2>5, <2>6 DEF RefRest
<1>2. CASE \E c : AsksCredit(q, c)
  <2>1. PICK c : AsksCredit(q, c)
    BY <1>2
  <2>2. /\ qCredits' = qCredits \cup {c} /\ UNCHANGED <<qInvoices, invoices, credits, today>>
        /\ c.account = req[q].account /\ c.of = req[q].target /\ Others(q)
        /\ req'[q].kind = req[q].kind /\ req'[q].account = req[q].account
        /\ req'[q].day = req[q].day /\ req'[q].target = req[q].target
        /\ req'[q].number = req[q].number /\ req[q].at # "idle"
    BY <2>1 DEF AsksCredit, GoesTo
  <2>3. /\ \/ req[q].at = "ask" /\ req'[q].at = "answer" /\ req'[q].kind = "cancel" /\ c.number = req'[q].number
           \/ /\ req[q].at = "credit" /\ req'[q].at = "credited" /\ req'[q].kind = "reissue"
              /\ c.number = req'[q].number + 1
    BY <2>1 DEF AsksCredit, GoesTo
  <2>4. \E k \in invoices : k.number = c.of /\ k.account = c.account
    <3>1. req[q].target # None
      BY <1>0, <2>2, <2>3, LedgerTypes, NoneAssumption DEF WellFormed, Numbers
    <3> QED
      BY <1>0, <2>2, <3>1 DEF ReqRefs
  <2>5. DocRefs'
    BY <1>0, <2>2, <2>4 DEF DocRefs
  <2>6. ASSUME NEW p \in Requests, p # q PROVE ReqRefs(req[p])'
    <3>1. ReqRefs(req[p]) /\ req'[p] = req[p]
      BY <2>2, <2>6 DEF RefInv, RefRest, Others
    <3> QED
      BY <2>2, <3>1 DEF ReqRefs
  <2>7. ReqRefs(req[q])'
    <3>1. CASE req[q].at = "ask"
      BY <1>0, <2>2, <2>3, <3>1 DEF ReqRefs, Issued
    <3>2. CASE req[q].at = "credit"
      BY <1>0, <2>2, <2>3, <3>2 DEF ReqRefs, Issued
    <3> QED
      BY <2>3, <3>1, <3>2
  <2> QED
    BY <2>5, <2>6, <2>7 DEF RefRest
<1> QED
  BY <1>1, <1>2

\* A recorded invoice is its request's own, a credit note's row that of the credit note.
LEMMA RefsRecord ==
  ASSUME RefInv, NEW q \in Requests, Records(q)
  PROVE  RefRest'
<1>0. /\ MarkInv /\ ReqRefs(req[q]) /\ DocRefs /\ today \in Nat /\ Finishes(q)
      /\ req[q].at \in Holding /\ Leaves(q) /\ UNCHANGED <<qInvoices, qCredits, today>>
      /\ invoices \subseteq qInvoices
  BY LedgerTypes DEF RefInv, RefRest, Records, Finishes
<1>1. /\ UNCHANGED invoices \/ \E i : NewRow(q, i)
      /\ UNCHANGED credits \/ \E d \in credits' : /\ credits' = credits \cup {d}
                                                  /\ \E c \in qCredits : c.number = d.number /\ c.of = d.of
                                                                         /\ c.account = d.account
  <2>1. ASSUME NEW d, \/ NewCreditRow(q, d, req[q].number) /\ req[q].at = "answer" /\ req[q].kind = "cancel"
                      \/ NewCreditRow(q, d, req[q].number + 1) /\ req[q].at = "credited"
        PROVE  /\ d \in credits' /\ credits' = credits \cup {d}
               /\ \E c \in qCredits : c.number = d.number /\ c.of = d.of /\ c.account = d.account
    BY <1>0, <2>1 DEF NewCreditRow, ReqRefs
  <2> QED
    BY <2>1 DEF Records
<1>2. /\ invoices \subseteq invoices' /\ invoices' \subseteq qInvoices
      /\ \A i \in invoices' \ invoices : i.account = req[q].account
      /\ \A i \in qInvoices, k \in invoices' \ invoices : i.account = k.account => i \in invoices'
  BY <1>0, <1>1 DEF NewRow
<1>3. DocRefs'
  <2>1. \A d \in credits' : \E c \in qCredits : c.number = d.number /\ c.of = d.of /\ c.account = d.account
    BY <1>0, <1>1 DEF DocRefs
  <2>2. \A i \in qInvoices \ invoices', k \in invoices' : i.account = k.account => k.number < i.number
    BY <1>0, <1>2 DEF DocRefs
  <2> QED
    BY <1>0, <1>2, <2>1, <2>2 DEF DocRefs
<1>4. ASSUME NEW p \in Requests, p # q PROVE ReqRefs(req[p])'
  <2>1. req'[p] = req[p] /\ ReqRefs(req[p]) /\ (req[p].at # "idle" => req[p].day \in Nat)
    BY <1>0, <1>4, LedgerTypes DEF RefInv, RefRest, Leaves, Others
  <2>2. req[p].at \in Numbered => \A k \in invoices' \ invoices : k.account # req[p].account
    <3>1. req[p].at \in Numbered => req[p].at \in Holding
      BY DEF Holding
    <3> QED
      BY <1>0, <1>2, <1>4, <3>1, Apart
  <2>3. PICK r : r = req[p]
    OBVIOUS
  <2>4. ReqRefs(r)'
    BY <1>0, <1>2, <2>1, <2>2, <2>3, RefsStay
  <2> QED
    BY <2>1, <2>3, <2>4 DEF ReqRefs
<1>5. ReqRefs(req[q])'
  BY <1>0 DEF Leaves, ReqRefs
<1> QED
  BY <1>3, <1>4, <1>5 DEF RefRest

LEMMA RefsCheck ==
  ASSUME RefInv, NEW a \in Accounts, Checked(a)
  PROVE  RefRest'
<1>0. /\ MarkInv /\ DocRefs /\ today \in Nat /\ UNCHANGED <<req, qInvoices, today>> /\ lock[a] = None
      /\ invoices \subseteq qInvoices /\ invoices' = invoices \cup unrecordedInvoices(a)
      /\ qCredits' = qCredits \cup uncreditedReissues(a)
  BY LedgerTypes DEF RefInv, RefRest, Checked
<1>1. /\ invoices' \subseteq qInvoices
      /\ \A i \in invoices' \ invoices : i.account = a
      /\ \A i \in qInvoices, k \in invoices' \ invoices : i.account = k.account => i \in invoices'
  BY <1>0 DEF unrecordedInvoices
<1>2. \A c \in uncreditedReissues(a) : \E k \in invoices : k.number = c.of /\ k.account = c.account
  BY <1>0 DEF uncreditedReissues, DocRefs
<1>3. \A d \in credits' : \E c \in qCredits' : c.number = d.number /\ c.of = d.of /\ c.account = d.account
  <2>1. ASSUME NEW d \in credits' \ credits
        PROVE  \E c \in qCredits' : c.number = d.number /\ c.of = d.of /\ c.account = d.account
    <3>1. PICK c \in unrecordedCredits(a) \cup uncreditedReissues(a) :
            d.number = c.number /\ d.of = c.of /\ d.account = a
      BY DEF Checked
    <3>2. c.account = a /\ c \in qCredits'
      BY <1>0 DEF unrecordedCredits, uncreditedReissues
    <3> QED
      BY <3>1, <3>2
  <2> QED
    BY <1>0, <2>1 DEF DocRefs
<1>4. DocRefs'
  <2>1. \A c \in qCredits' : \E k \in invoices' : k.number = c.of /\ k.account = c.account
    BY <1>0, <1>2 DEF DocRefs
  <2>2. \A i \in qInvoices \ invoices', k \in invoices' : i.account = k.account => k.number < i.number
    BY <1>0, <1>1 DEF DocRefs
  <2>3. \A i \in qInvoices : i.replaces # None =>
         \E k \in invoices' : /\ k.number = i.replaces /\ k.account = i.account
                              /\ k.number < i.number /\ k.issue <= i.issue
    BY <1>0 DEF DocRefs
  <2> QED
    BY <1>0, <1>3, <2>1, <2>2, <2>3 DEF DocRefs
<1>5. ASSUME NEW p \in Requests PROVE ReqRefs(req[p])'
  <2>1. req'[p] = req[p] /\ ReqRefs(req[p]) /\ (req[p].at # "idle" => req[p].day \in Nat)
    BY <1>0, LedgerTypes DEF RefInv, RefRest
  <2>2. req[p].at \in Numbered => \A k \in invoices' \ invoices : k.account # req[p].account
    <3>1. req[p].at \in Numbered => lock[req[p].account] = p
      BY <1>0, LedgerTypes DEF Holding
    <3> QED
      BY <1>0, <1>1, <3>1, NoneAssumption
  <2>3. PICK r : r = req[p]
    OBVIOUS
  <2>4. ReqRefs(r)'
    BY <1>0, <2>1, <2>2, <2>3, RefsStay
  <2> QED
    BY <2>1, <2>3, <2>4 DEF ReqRefs
<1> QED
  BY <1>4, <1>5 DEF RefRest

LEMMA RefsKeep ==
  ASSUME ~ChecksMidOrder, RefInv, [Next]_vars, MarkInv'
  PROVE  RefInv'
<1>1. MarkInv /\ today' \in Nat
  BY BoundAssumption DEF RefInv, MarkInv, NumberInv, TypeInv, TypeOK, Days
<1>2. RefRest'
  BY <1>1, EveryStep, RefsAside, RefsStart, RefsQuit, RefsGoOn, RefsAsk, RefsRecord, RefsCheck
<1> QED
  BY <1>2 DEF RefInv

----------------------------------------------------------------------------
(* No invoice is credited twice, or reissued twice *)

\* Qonto has no credit note for invoice n.
Uncredited(n) == \A c \in qCredits : c.of # n

ReplacedOnce == \A i, j \in qInvoices : i.replaces # None /\ i.replaces = j.replaces => i = j

\* Every reissue of the account is followed by the credit note of what it replaced.
Settled(a) == \A i \in qInvoices : i.account = a /\ i.replaces # None => ~Uncredited(i.replaces)

\* Until it is credited by the request itself, a request's target is neither
\* credited nor reissued, and of its account at most its own reissue is unsettled.
ReqOnce(r) ==
    r.at \in Holding =>
      /\ \/ r.at \in {"number", "mark", "ask"} /\ r.kind \in {"cancel", "reissue"}
         \/ r.at \in {"answer", "credit"} /\ r.kind = "reissue"
         => Uncredited(r.target)
      /\ r.at \in {"number", "mark", "ask"} /\ r.kind = "reissue" =>
           \A i \in qInvoices : i.replaces # r.target
      /\ r.kind \in {"cancel", "reissue"} => ~credited(r.target)
      /\ \A i \in qInvoices : i.account = r.account /\ i.replaces # None /\ Uncredited(i.replaces)
           => i.number \in invoicesOut(r)

OnceRest ==
    /\ CreditedOnce
    /\ ReplacedOnce
    /\ \A q \in Requests : ReqOnce(req[q])
    /\ \A a \in Accounts : (mark[a] = None /\ lock[a] = None) \/ seen[a] # None => Settled(a)
OnceInv == RefInv /\ OnceRest

\* Whoever refers to a recorded invoice belongs to its account.
LEMMA SameAccount ==
  ASSUME MarkInv, DocRefs, NEW k \in invoices
  PROVE  /\ \A i \in qInvoices : i.replaces = k.number => i.account = k.account
         /\ \A c \in qCredits : c.of = k.number => c.account = k.account
         /\ \A d \in credits : d.of = k.number => d.account = k.account
<1>1. /\ \A i, j \in invoices : i.number = j.number => i = j
      /\ k.number # None
  BY LedgerTypes
<1> QED
  BY <1>1 DEF DocRefs

LEMMA SameAccountNext ==
  ASSUME MarkInv', DocRefs', NEW k \in invoices'
  PROVE  /\ \A i \in qInvoices' : i.replaces = k.number => i.account = k.account
         /\ \A c \in qCredits' : c.of = k.number => c.account = k.account
         /\ \A d \in credits' : d.of = k.number => d.account = k.account
<1>1. \A i, j \in qInvoices' : i.number = j.number => i = j
  <2>1. \A j \in qInvoices' : j.number \in heldBy(j)
    BY DEF heldBy
  <2> QED
    BY <2>1 DEF MarkInv, NumberInv, NumbersApart
<1>2. invoices' \subseteq qInvoices' /\ k.number # None
  <2>1. invoices' \subseteq qInvoices' /\ k \in Invoice
    BY DEF MarkInv, NumberInv, TypeInv, TypeOK
  <2> QED
    BY <2>1, NoneAssumption DEF Invoice, Numbers
<1> QED
  BY <1>1, <1>2 DEF DocRefs

\* What is true of a request's target stays while other accounts' documents change.
LEMMA OnceStays ==
  ASSUME OnceInv, RefInv', NEW p \in Requests, req'[p] = req[p],
         qInvoices \subseteq qInvoices', qCredits \subseteq qCredits', invoices \subseteq invoices',
         req[p].at \in Holding =>
           /\ \A i \in qInvoices' \ qInvoices : i.account # req[p].account
           /\ \A c \in qCredits' \ qCredits : c.account # req[p].account
           /\ \A d \in credits' \ credits : d.account # req[p].account
  PROVE  ReqOnce(req[p])'
<1> SUFFICES ASSUME req[p].at \in Holding PROVE ReqOnce(req[p])'
  BY DEF ReqOnce
<1>0. MarkInv /\ DocRefs /\ ReqRefs(req[p]) /\ ReqOnce(req[p]) /\ MarkInv' /\ DocRefs'
      /\ req[p].at # "idle" /\ WellFormed(req[p])
  BY LedgerTypes DEF OnceInv, OnceRest, RefInv, RefRest
<1>1. ASSUME req[p].kind \in {"cancel", "reissue"}
      PROVE  /\ Uncredited(req[p].target) => Uncredited(req[p].target)'
             /\ ~credited(req[p].target) => ~credited(req[p].target)'
             /\ (\A i \in qInvoices : i.replaces # req[p].target) =>
                  \A i \in qInvoices' : i.replaces # req[p].target
  <2>1. PICK k \in invoices : k.number = req[p].target /\ k.account = req[p].account
    BY <1>0, <1>1, NoneAssumption DEF ReqRefs, WellFormed, Numbers
  <2>2. /\ \A i \in qInvoices' : i.replaces = k.number => i.account = k.account
        /\ \A c \in qCredits' : c.of = k.number => c.account = k.account
        /\ \A d \in credits' : d.of = k.number => d.account = k.account
    BY <1>0, <2>1, SameAccountNext
  <2> QED
    BY <2>1, <2>2 DEF Uncredited, credited
<1>2. ASSUME NEW i \in qInvoices', i.account = req[p].account, i.replaces # None,
             Uncredited(i.replaces)'
      PROVE  i.number \in invoicesOut(req[p])
  <2>1. i \in qInvoices /\ Uncredited(i.replaces)
    BY <1>2 DEF Uncredited
  <2> QED
    BY <1>0, <1>2, <2>1 DEF ReqOnce
<1> QED
  BY <1>0, <1>1, <1>2 DEF ReqOnce, invoicesOut, Issued, Uncredited, credited

\* Where documents stay as they are, so does what is true of the requests.
LEMMA OnceRests ==
  ASSUME OnceInv, Rests
  PROVE  /\ CreditedOnce' /\ ReplacedOnce'
         /\ \A a \in Accounts : Settled(a) => Settled(a)'
         /\ \A p \in Requests : req'[p] = req[p] => ReqOnce(req[p])'
<1>1. /\ CreditedOnce /\ ReplacedOnce /\ \A p \in Requests : ReqOnce(req[p])
      /\ UNCHANGED <<qInvoices, qCredits, credits>>
  BY DEF OnceInv, OnceRest, Rests
<1>2. CreditedOnce' /\ ReplacedOnce'
  BY <1>1 DEF CreditedOnce, ReplacedOnce
<1>3. \A a \in Accounts : Settled(a) => Settled(a)'
  BY <1>1 DEF Settled, Uncredited
<1>4. ASSUME NEW p \in Requests, req'[p] = req[p] PROVE ReqOnce(req[p])'
  BY <1>1, <1>4 DEF ReqOnce, Uncredited, credited, invoicesOut, Issued
<1> QED
  BY <1>2, <1>3, <1>4

LEMMA OnceAside ==
  ASSUME OnceInv, \/ Aside
                  \/ \E q \in Requests : Quits(q) \/ \E a \in Accounts : Starts(q, a)
  PROVE  OnceRest'
<1>1. Rests
  BY DEF Aside, Quits, Starts
<1>2. \A p \in Requests : ReqOnce(req[p])
  BY DEF OnceInv, OnceRest
<1>3. ASSUME NEW p \in Requests PROVE ReqOnce(req[p])'
  <2>1. CASE req'[p] = req[p]
    BY <1>1, <2>1, OnceRests
  <2>2. CASE req'[p].at \notin Holding
    BY <2>2 DEF ReqOnce
  <2> QED
    BY <2>1, <2>2 DEF Aside, Quits, Starts, Leaves, Others, Holding, Numbered
<1>4. ASSUME NEW a \in Accounts, (mark'[a] = None /\ lock'[a] = None) \/ seen'[a] # None
      PROVE  Settled(a)
  <2>1. CASE (mark[a] = None /\ lock[a] = None) \/ seen[a] # None
    BY <2>1 DEF OnceInv, OnceRest
  <2>2. ASSUME NEW q \in Requests, req[q].at \in {"number", "mark", "ask"}, req[q].account = a
        PROVE  Settled(a)
    <3>1. req[q].at \in Holding /\ invoicesOut(req[q]) = {}
      BY <2>2 DEF Holding, Numbered, invoicesOut, Issued
    <3> QED
      BY <1>2, <2>2, <3>1 DEF ReqOnce, Settled
  <2>3. CASE Aside
    BY <1>4, <2>1, <2>3 DEF Aside
  <2>4. CASE \E q \in Requests : Quits(q)
    BY <1>4, <2>1, <2>2, <2>4 DEF Quits
  <2>5. CASE \E q \in Requests : \E b \in Accounts : Starts(q, b)
    BY <1>4, <2>1, <2>5 DEF Starts
  <2> QED
    BY <2>3, <2>4, <2>5
<1> QED
  BY <1>1, <1>3, <1>4, OnceRests DEF OnceRest

\* Whoever takes the row of an account without a mark finds all that Qonto has
\* issued for it recorded and settled.
LEMMA FindsSettled ==
  ASSUME OnceInv, NEW q \in Requests, TakesRow(q)
  PROVE  /\ Settled(req[q].account) /\ Recorded(req[q].account)
         /\ req[q].kind \in {"cancel", "reissue"} =>
              /\ Uncredited(req[q].target) /\ ~credited(req[q].target)
              /\ \A i \in qInvoices : i.replaces # req[q].target
<1>0. /\ MarkInv /\ DocRefs /\ ReqRefs(req[q]) /\ req[q].at = "lock" /\ WellFormed(req[q])
      /\ req[q].account \in Accounts
      /\ lock[req[q].account] = None /\ ~refusedUnderLock(req[q])
  <2>1. req[q].at = "lock" /\ req[q].at # "idle"
    BY DEF TakesRow
  <2> QED
    BY <2>1, LedgerTypes DEF OnceInv, RefInv, RefRest, TakesRow
<1>1. mark[req[q].account] = None
  BY <1>0 DEF refusedUnderLock
<1>2. Settled(req[q].account) /\ Recorded(req[q].account)
  BY <1>0, <1>1 DEF OnceInv, OnceRest, MarkInv, AccountOK
<1>3. ASSUME req[q].kind \in {"cancel", "reissue"}
      PROVE  /\ Uncredited(req[q].target) /\ ~credited(req[q].target)
             /\ \A i \in qInvoices : i.replaces # req[q].target
  <2>1. PICK k \in invoices : k.number = req[q].target /\ k.account = req[q].account
    BY <1>0, <1>3, NoneAssumption DEF ReqRefs, WellFormed, Numbers
  <2>2. ~credited(req[q].target)
    BY <1>0, <1>3 DEF refusedUnderLock
  <2>3. ASSUME NEW c \in qCredits, c.of = k.number PROVE FALSE
    <3>1. c.account = req[q].account
      BY <1>0, <2>1, <2>3, SameAccount
    <3>2. PICK d \in credits : d.number = c.number
      BY <1>2, <3>1 DEF Recorded, unrecordedCredits
    <3>3. PICK e \in qCredits : e.number = d.number /\ e.of = d.of
      BY <1>0 DEF DocRefs
    <3>4. e = c
      BY <1>0, <3>2, <3>3, LedgerTypes
    <3> QED
      BY <2>1, <2>2, <2>3, <3>3, <3>4 DEF credited
  <2>4. ASSUME NEW i \in qInvoices, i.replaces = k.number PROVE FALSE
    <3>1. i.account = req[q].account /\ i.replaces # None
      BY <1>0, <2>1, <2>4, SameAccount, LedgerTypes
    <3> QED
      BY <1>2, <2>3, <2>4, <3>1 DEF Settled, Uncredited
  <2> QED
    BY <2>1, <2>2, <2>3, <2>4 DEF Uncredited
<1> QED
  BY <1>2, <1>3

LEMMA OnceGoOn ==
  ASSUME OnceInv, NEW q \in Requests, GoesOn(q)
  PROVE  OnceRest'
<1>0. /\ MarkInv /\ Rests /\ Others(q) /\ UNCHANGED seen
      /\ req'[q].kind = req[q].kind /\ req'[q].account = req[q].account /\ req'[q].target = req[q].target
      /\ ReqOnce(req[q]) /\ UNCHANGED <<qInvoices, qCredits, credits>>
  BY DEF OnceInv, OnceRest, RefInv, GoesOn, ReadsOn, TakesRow, TakesNumber, Marks, KeepsOn, Onward,
         GoesTo, Rests
<1>1. ReqOnce(req[q])'
  <2>1. CASE ReadsOn(q)
    BY <2>1 DEF ReadsOn, GoesTo, ReqOnce, Holding, Numbered
  <2>2. CASE TakesRow(q)
    <3>1. /\ Settled(req[q].account)
          /\ req[q].kind \in {"cancel", "reissue"} =>
              /\ Uncredited(req[q].target) /\ ~credited(req[q].target)
              /\ \A i \in qInvoices : i.replaces # req[q].target
      BY <2>2, FindsSettled
    <3>2. req'[q].at = "number"
      BY <2>2 DEF TakesRow, GoesTo
    <3> QED
      BY <1>0, <3>1, <3>2 DEF ReqOnce, Settled, Uncredited, credited
  <2>3. CASE TakesNumber(q)
    <3>1. req[q].at = "number" /\ req'[q].at = "mark" /\ req[q].at \in Holding
      BY <2>3 DEF TakesNumber, Holding
    <3> QED
      BY <1>0, <3>1 DEF ReqOnce, Uncredited, credited, invoicesOut, Issued
  <2>4. CASE Marks(q)
    <3>1. req[q].at = "mark" /\ req'[q].at = "ask" /\ req[q].at \in Holding
      BY <2>4 DEF Marks, GoesTo, Holding, Numbered
    <3> QED
      BY <1>0, <3>1 DEF ReqOnce, Uncredited, credited, invoicesOut, Issued
  <2>5. CASE KeepsOn(q)
    <3>1. /\ req[q].at = "answer" /\ req'[q].at = "credit" /\ req[q].at \in Holding
          /\ req[q].kind = "reissue" /\ req'[q].number = req[q].number
      BY <2>5 DEF KeepsOn, GoesTo, Holding, Numbered
    <3> QED
      BY <1>0, <3>1 DEF ReqOnce, Uncredited, credited, invoicesOut, Issued
  <2> QED
    BY <2>1, <2>2, <2>3, <2>4, <2>5 DEF GoesOn
<1>2. \A p \in Requests : ReqOnce(req[p])'
  <2>1. ASSUME NEW p \in Requests, p # q PROVE ReqOnce(req[p])'
    BY <1>0, <2>1, OnceRests DEF Others
  <2> QED
    BY <1>1, <2>1
<1>3. ASSUME NEW a \in Accounts, (mark'[a] = None /\ lock'[a] = None) \/ seen'[a] # None
      PROVE  Settled(a)
  <2>1. mark'[a] = None /\ lock'[a] = None => mark[a] = None /\ lock[a] = None
    BY NoneAssumption DEF GoesOn, ReadsOn, TakesRow, TakesNumber, Marks, KeepsOn
  <2> QED
    BY <1>0, <1>3, <2>1 DEF OnceInv, OnceRest
<1> QED
  BY <1>0, <1>2, <1>3, OnceRests DEF OnceRest

LEMMA OnceAsk ==
  ASSUME OnceInv, RefInv', NEW q \in Requests,
         (\E i : AsksInvoice(q, i)) \/ (\E c : AsksCredit(q, c))
  PROVE  OnceRest'
<1>0. /\ MarkInv /\ ReqOnce(req[q]) /\ req[q].at \in Holding /\ req[q].account \in Accounts
      /\ lock[req[q].account] = q /\ CreditedOnce /\ ReplacedOnce
      /\ UNCHANGED <<lock, mark, seen>> /\ WellFormed(req[q])
  <2>1. req[q].at \in Holding /\ MarkInv
    BY DEF AsksInvoice, AsksCredit, Holding, Numbered, OnceInv, RefInv
  <2> QED
    BY <2>1, LedgerTypes DEF OnceInv, OnceRest, AsksInvoice, AsksCredit
<1>1. ASSUME NEW a \in Accounts, (mark'[a] = None /\ lock'[a] = None) \/ seen'[a] # None
      PROVE  Settled(a) /\ a # req[q].account
  <2>1. seen[a] # None => lock[a] = None
    BY <1>0 DEF MarkInv, AccountOK, Free
  <2> QED
    BY <1>0, <1>1, <2>1, NoneAssumption DEF OnceInv, OnceRest
<1>2. CASE \E i : AsksInvoice(q, i)
  <2>1. PICK i : AsksInvoice(q, i)
    BY <1>2
  <2>2. /\ req[q].at = "ask" /\ req'[q].at = "answer" /\ req[q].kind \in {"order", "reissue"}
        /\ req'[q].kind = req[q].kind /\ req'[q].account = req[q].account
        /\ req'[q].target = req[q].target /\ req'[q].number = req[q].number
        /\ qInvoices' = qInvoices \cup {i} /\ UNCHANGED <<qCredits, invoices, credits>>
        /\ i.number = req[q].number /\ i.account = req[q].account /\ i.replaces = req[q].target
        /\ Others(q)
    BY <2>1 DEF AsksInvoice, GoesTo
  <2>3. CreditedOnce' /\ ReplacedOnce'
    <3>1. i.replaces # None => req[q].kind = "reissue"
      BY <1>0, <2>2 DEF WellFormed
    <3> QED
      BY <1>0, <2>2, <3>1 DEF CreditedOnce, ReplacedOnce, ReqOnce
  <2>4. ReqOnce(req[q])'
    <3>1. i.number \in invoicesOut(req[q])' /\ invoicesOut(req[q]) = {}
      BY <2>2 DEF invoicesOut, Issued
    <3> QED
      BY <1>0, <2>2, <3>1 DEF ReqOnce, Uncredited, credited
  <2>5. ASSUME NEW p \in Requests, p # q PROVE ReqOnce(req[p])'
    BY <1>0, <2>2, <2>5, Apart, OnceStays DEF Others
  <2>6. ASSUME NEW a \in Accounts, Settled(a), a # req[q].account PROVE Settled(a)'
    BY <2>2, <2>6 DEF Settled, Uncredited
  <2> QED
    BY <1>1, <2>3, <2>4, <2>5, <2>6 DEF OnceRest
<1>3. CASE \E c : AsksCredit(q, c)
  <2>1. PICK c : AsksCredit(q, c)
    BY <1>3
  <2>2. /\ \/ req[q].at = "ask" /\ req'[q].at = "answer" /\ req[q].kind = "cancel"
           \/ req[q].at = "credit" /\ req'[q].at = "credited" /\ req[q].kind = "reissue"
        /\ req'[q].kind = req[q].kind /\ req'[q].account = req[q].account
        /\ req'[q].target = req[q].target /\ req'[q].number = req[q].number
        /\ qCredits' = qCredits \cup {c} /\ UNCHANGED <<qInvoices, invoices, credits>>
        /\ c.account = req[q].account /\ c.of = req[q].target
        /\ Others(q)
    BY <2>1 DEF AsksCredit, GoesTo
  <2>3. CreditedOnce' /\ ReplacedOnce'
    BY <1>0, <2>2 DEF CreditedOnce, ReplacedOnce, ReqOnce, Uncredited
  <2>4. ReqOnce(req[q])'
    <3>1. invoicesOut(req[q]) = invoicesOut(req[q])'
      BY <2>2 DEF invoicesOut, Issued
    <3> QED
      BY <1>0, <2>2, <3>1 DEF ReqOnce, Uncredited, credited
  <2>5. ASSUME NEW p \in Requests, p # q PROVE ReqOnce(req[p])'
    BY <1>0, <2>2, <2>5, Apart, OnceStays DEF Others
  <2>6. ASSUME NEW a \in Accounts, Settled(a) PROVE Settled(a)'
    BY <2>2, <2>6 DEF Settled, Uncredited
  <2> QED
    BY <1>1, <2>3, <2>4, <2>5, <2>6 DEF OnceRest
<1> QED
  BY <1>2, <1>3

\* A transaction that clears its mark leaves its account settled.
LEMMA OnceRecord ==
  ASSUME OnceInv, RefInv', NEW q \in Requests, Records(q)
  PROVE  OnceRest'
<1>0. /\ MarkInv /\ ReqOnce(req[q]) /\ ReqRefs(req[q]) /\ req[q].at \in Holding /\ req[q].at # "idle"
      /\ req[q].account \in Accounts
      /\ lock[req[q].account] = q /\ CreditedOnce /\ ReplacedOnce
      /\ Leaves(q) /\ UNCHANGED <<qInvoices, qCredits, seen>> /\ WellFormed(req[q])
      /\ \A b \in Accounts : b # req[q].account => lock'[b] = lock[b] /\ mark'[b] = mark[b]
  <2>1. req[q].at \in Holding /\ MarkInv
    BY DEF Records, Finishes, OnceInv, RefInv
  <2> QED
    BY <2>1, LedgerTypes DEF OnceInv, OnceRest, RefInv, RefRest, Records, Finishes
<1>1. CreditedOnce' /\ ReplacedOnce'
  BY <1>0 DEF CreditedOnce, ReplacedOnce
<1>2. \A a \in Accounts : Settled(a) => Settled(a)'
  BY <1>0 DEF Settled, Uncredited
<1>3. ReqOnce(req[q])'
  BY <1>0 DEF Leaves, ReqOnce, Holding, Numbered
<1>4. ASSUME NEW p \in Requests, p # q PROVE ReqOnce(req[p])'
  <2>1. /\ invoices \subseteq invoices' /\ \A d \in credits' \ credits : d.account = req[q].account
    BY DEF Records, NewRow, NewCreditRow
  <2> QED
    BY <1>0, <1>4, <2>1, Apart, OnceStays DEF Leaves, Others
<1>5. mark'[req[q].account] = None => Settled(req[q].account)
  <2>1. \A i \in qInvoices : i.account = req[q].account /\ i.replaces # None /\ Uncredited(i.replaces)
           => i.number \in invoicesOut(req[q])
    BY <1>0 DEF ReqOnce
  <2>2. CASE req[q].kind = "cancel"
    <3>1. invoicesOut(req[q]) = {}
      BY <1>0, <2>2 DEF Records, invoicesOut, Issued, WellFormed
    <3> QED
      BY <2>1, <3>1 DEF Settled
  <2>3. ASSUME NEW i, NewRow(q, i),
               req[q].kind = "order" \/ (req[q].at = "credited" /\ req[q].kind = "reissue")
        PROVE  Settled(req[q].account)
    <3>1. \A j \in qInvoices : j.number \in invoicesOut(req[q]) => j = i
      BY <1>0, <2>3, LedgerTypes DEF NewRow, invoicesOut
    <3>2. i.replaces = None \/ ~Uncredited(i.replaces)
      BY <1>0, <2>3 DEF NewRow, WellFormed, ReqRefs, Uncredited
    <3> QED
      BY <2>1, <3>1, <3>2 DEF Settled
  <2> QED
    BY <2>2, <2>3 DEF Records
<1>6. ASSUME NEW a \in Accounts, (mark'[a] = None /\ lock'[a] = None) \/ seen'[a] # None
      PROVE  Settled(a)
  <2>1. seen[a] # None => Settled(a) /\ lock[a] = None
    BY <1>0 DEF OnceInv, OnceRest, MarkInv, AccountOK, Free
  <2>2. CASE a = req[q].account
    BY <1>0, <1>5, <1>6, <2>1, <2>2
  <2>3. CASE a # req[q].account
    BY <1>0, <1>6, <2>1, <2>3 DEF OnceInv, OnceRest
  <2> QED
    BY <2>2, <2>3
<1> QED
  BY <1>1, <1>2, <1>3, <1>4, <1>6 DEF OnceRest

LEMMA OnceCheck ==
  ASSUME OnceInv, RefInv', NEW a \in Accounts, Checked(a)
  PROVE  OnceRest'
<1>0. /\ MarkInv /\ CreditedOnce /\ ReplacedOnce /\ lock[a] = None
      /\ UNCHANGED <<req, lock, mark, qInvoices>>
      /\ qCredits' = qCredits \cup uncreditedReissues(a) /\ invoices \subseteq invoices'
      /\ \A b \in Accounts : b # a => seen'[b] = seen[b]
      /\ \A d \in credits' \ credits : d.account = a
  BY DEF OnceInv, OnceRest, RefInv, Checked
<1>1. ASSUME NEW c \in uncreditedReissues(a)
      PROVE  /\ c.account = a /\ Uncredited(c.of)
             /\ \E i \in qInvoices : /\ i.replaces # None /\ c.of = i.replaces
                                     /\ c = [number |-> i.number + 1, account |-> a, of |-> i.replaces]
  <2>1. PICK i \in qInvoices : /\ i.account = a /\ i.replaces # None /\ \A e \in qCredits : e.of # i.replaces
                               /\ c = [number |-> i.number + 1, account |-> a, of |-> i.replaces]
    BY DEF uncreditedReissues
  <2> QED
    BY <2>1 DEF Uncredited
<1>2. CreditedOnce'
  <2>1. ASSUME NEW c \in uncreditedReissues(a), NEW d \in uncreditedReissues(a), c.of = d.of
        PROVE  c = d
    BY <1>0, <1>1, <2>1 DEF ReplacedOnce
  <2> QED
    BY <1>0, <1>1, <2>1 DEF CreditedOnce, Uncredited
<1>3. ReplacedOnce'
  BY <1>0 DEF ReplacedOnce
<1>4. ASSUME NEW p \in Requests PROVE ReqOnce(req[p])'
  <2>1. req[p].at \in Holding => req[p].account # a
    BY <1>0, LedgerTypes, NoneAssumption
  <2>2. req'[p] = req[p]
    BY <1>0
  <2> QED
    BY <1>0, <1>1, <2>1, <2>2, OnceStays
<1>5. Settled(a)'
  <2>1. ASSUME NEW i \in qInvoices, i.account = a, i.replaces # None, Uncredited(i.replaces)
        PROVE  \E c \in qCredits' : c.of = i.replaces
    <3>1. [number |-> i.number + 1, account |-> a, of |-> i.replaces] \in uncreditedReissues(a)
      BY <2>1 DEF uncreditedReissues, Uncredited
    <3>2. PICK c : c = [number |-> i.number + 1, account |-> a, of |-> i.replaces]
      OBVIOUS
    <3> QED
      BY <1>0, <3>1, <3>2
  <2> QED
    BY <1>0, <2>1 DEF Settled, Uncredited
<1>6. ASSUME NEW b \in Accounts, Settled(b) PROVE Settled(b)'
  BY <1>0, <1>6 DEF Settled, Uncredited
<1>7. ASSUME NEW b \in Accounts, (mark'[b] = None /\ lock'[b] = None) \/ seen'[b] # None
      PROVE  b = a \/ Settled(b)
  BY <1>0, <1>7 DEF OnceInv, OnceRest
<1> QED
  BY <1>2, <1>3, <1>4, <1>5, <1>6, <1>7 DEF OnceRest

LEMMA OnceKeep ==
  ASSUME ~ChecksMidOrder, OnceInv, [Next]_vars, RefInv'
  PROVE  OnceInv'
<1>1. MarkInv
  BY DEF OnceInv, RefInv
<1>2. OnceRest'
  BY <1>1, EveryStep, OnceAside, OnceGoOn, OnceAsk, OnceRecord, OnceCheck
<1> QED
  BY <1>2 DEF OnceInv

\* At the start nothing is issued and nobody asks for anything.
LEMMA NobodyAsks ==
  ASSUME Init
  PROVE  /\ qInvoices = {} /\ invoices = {} /\ qCredits = {} /\ credits = {} /\ sweep = {}
         /\ \A q \in Requests : req[q].at = "idle" /\ req[q].at \notin Holding
  BY IdleHoldsNothing DEF Init

LEMMA OnceAtStart == Init => OnceInv
<1> SUFFICES ASSUME Init PROVE OnceInv
  OBVIOUS
<1>1. RefRest
  BY NobodyAsks DEF RefRest, DocRefs, ReqRefs
<1>2. OnceRest
  BY NobodyAsks DEF OnceRest, CreditedOnce, ReplacedOnce, ReqOnce, Settled
<1> QED
  BY <1>1, <1>2, MarkAtStart DEF RefInv, OnceInv

LEMMA OnceStep ==
  ASSUME ~ChecksMidOrder, OnceInv, [Next]_vars
  PROVE  OnceInv'
<1>1. RefInv'
  BY MarkKeep, RefsKeep DEF OnceInv, RefInv
<1> QED
  BY <1>1, OnceKeep

\* No invoice is credited twice in Qonto, for any accounts, requests and bounds: of
\* two cancels, or a cancel and a reissue, the second finds under the lock the
\* first's credit note or its mark (cancel.ts, reissue.ts, order-check.ts).
THEOREM CreditedOnceAlways == ~ChecksMidOrder => (Spec => []CreditedOnce)
<1> SUFFICES ASSUME ~ChecksMidOrder PROVE Spec => []CreditedOnce
  OBVIOUS
<1>1. OnceInv /\ [Next]_vars => OnceInv'
  BY OnceStep
<1>2. OnceInv => CreditedOnce
  BY DEF OnceInv, OnceRest
<1> QED
  BY <1>1, <1>2, OnceAtStart, PTL DEF Spec

----------------------------------------------------------------------------
(* One open invoice *)

\* Of two uncredited invoices of an account, the later is the earlier's reissue, or
\* an order came after the earlier had ended, or a reissue came too late.
PairOK(i, j) ==
    i.account = j.account /\ i.number < j.number /\ Uncredited(i.number) /\ Uncredited(j.number) =>
      \/ j.replaces = i.number
      \/ \E o \in qInvoices : /\ o.account = i.account /\ o.replaces = None
                              /\ i.end < o.issue /\ o.number <= j.number
      \/ reissuedLate(i.account)

\* While an order runs, what its account has besides has ended or is credited.
ReqOpen(r) ==
    r.at \in Holding /\ r.kind = "order" =>
      \A i \in qInvoices : i.account = r.account =>
        i.number \in invoicesOut(r) \/ i.end < r.day \/ ~Uncredited(i.number)

OpenRest == (\A i, j \in qInvoices : PairOK(i, j)) /\ \A q \in Requests : ReqOpen(req[q])
OpenInv == OnceInv /\ OpenRest

\* Pairs stay in order while no invoice is issued.
LEMMA PairsStay ==
  ASSUME OpenRest, UNCHANGED qInvoices, qCredits \subseteq qCredits'
  PROVE  /\ \A i, j \in qInvoices' : PairOK(i, j)'
         /\ \A p \in Requests : req'[p] = req[p] => ReqOpen(req[p])'
<1>1. ASSUME NEW n, Uncredited(n)' PROVE Uncredited(n)
  BY <1>1 DEF Uncredited
<1>2. \A a : reissuedLate(a) => reissuedLate(a)'
  BY DEF reissuedLate
<1>3. ASSUME NEW i \in qInvoices', NEW j \in qInvoices' PROVE PairOK(i, j)'
  <2>1. PairOK(i, j)
    BY DEF OpenRest
  <2>2. reissuedLate(i.account) => reissuedLate(i.account)'
    BY <1>2
  <2> QED
    BY <1>1, <2>1, <2>2 DEF PairOK
<1>4. ASSUME NEW p \in Requests, req'[p] = req[p] PROVE ReqOpen(req[p])'
  BY <1>1, <1>4 DEF OpenRest, ReqOpen, invoicesOut, Issued
<1> QED
  BY <1>3, <1>4

\* An order that takes its account's row finds nothing that runs.
LEMMA OpenGoOn ==
  ASSUME OpenInv, NEW q \in Requests, GoesOn(q)
  PROVE  OpenRest'
<1>0. OpenRest /\ ReqOpen(req[q]) /\ Others(q) /\ UNCHANGED <<qInvoices, qCredits, invoices, credits>>
      /\ req'[q].kind = req[q].kind /\ req'[q].account = req[q].account /\ req'[q].day = req[q].day
  BY DEF OpenInv, OpenRest, GoesOn, ReadsOn, TakesRow, TakesNumber, Marks, KeepsOn, Onward, GoesTo, Rests
<1>1. /\ \A i, j \in qInvoices' : PairOK(i, j)'
      /\ \A p \in Requests : p # q => ReqOpen(req[p])'
  BY <1>0, PairsStay DEF Others
<1>2. ReqOpen(req[q])'
  <2>1. CASE TakesRow(q)
    <3>1. Recorded(req[q].account) /\ ~refusedUnderLock(req[q])
      BY <2>1, FindsSettled DEF OpenInv, TakesRow
    <3>2. ASSUME req[q].kind = "order", NEW i \in qInvoices, i.account = req[q].account,
                 ~(i.end < req[q].day)
          PROVE  ~Uncredited(i.number)
      <4>1. i \in invoicesOf(req[q].account)
        BY <3>1, <3>2 DEF Recorded, unrecordedInvoices, invoicesOf
      <4>2. i.end \in Nat /\ req[q].day \in Nat
        BY <2>1, LedgerTypes DEF OpenInv, OnceInv, RefInv, TakesRow
      <4>3. credited(i.number)
        BY <3>1, <3>2, <4>1, <4>2 DEF refusedUnderLock, running
      <4> QED
        BY <4>3 DEF OpenInv, OnceInv, RefInv, RefRest, DocRefs, credited, Uncredited
    <3> QED
      BY <1>0, <3>2 DEF ReqOpen, Uncredited
  <2>2. CASE ReadsOn(q)
    BY <2>2 DEF ReadsOn, GoesTo, ReqOpen, Holding, Numbered
  <2>3. CASE TakesNumber(q) \/ Marks(q) \/ KeepsOn(q)
    <3>1. req[q].at \in Holding
      BY <2>3 DEF TakesNumber, Marks, KeepsOn, Holding, Numbered
    <3>2. req[q].kind = "order" => invoicesOut(req[q]) = {}
      BY <2>3 DEF TakesNumber, Marks, KeepsOn, invoicesOut, Issued
    <3> QED
      BY <1>0, <3>1, <3>2 DEF ReqOpen, Uncredited
  <2> QED
    BY <2>1, <2>2, <2>3 DEF GoesOn
<1> QED
  BY <1>1, <1>2 DEF OpenRest, Others

\* A request that asks Qonto for an invoice has the newest number of its account,
\* and all that its account has is recorded.
LEMMA AsksNewest ==
  ASSUME RefInv, NEW q \in Requests, req[q].at = "ask"
  PROVE  \A i \in qInvoices : i.account = req[q].account => i \in invoices /\ i.number < req[q].number
<1>1. /\ req[q].at \in Numbered \ {"mark"} /\ req[q].at \in Holding /\ invoicesOut(req[q]) = {}
      /\ req[q].at # "idle"
  BY DEF Numbered, Holding, invoicesOut, Issued
<1>2. \A i \in unrecordedInvoices(req[q].account) : FALSE
  BY <1>1, Holder DEF OnlyItsOwn, RefInv
<1> QED
  BY <1>1, <1>2 DEF RefInv, RefRest, ReqRefs, unrecordedInvoices

LEMMA OpenAsk ==
  ASSUME OpenInv, NEW q \in Requests, NEW new, AsksInvoice(q, new)
  PROVE  OpenRest'
<1>0. /\ MarkInv /\ ReqOnce(req[q]) /\ ReqRefs(req[q]) /\ ReqOpen(req[q]) /\ req[q].at = "ask"
      /\ req[q].at \in Holding /\ req[q].at # "idle" /\ WellFormed(req[q]) /\ RefInv
      /\ invoicesOut(req[q]) = {}
  <2>1. req[q].at = "ask" /\ req[q].at \in Holding /\ MarkInv /\ invoicesOut(req[q]) = {}
    BY DEF AsksInvoice, Holding, Numbered, OpenInv, OnceInv, RefInv, invoicesOut, Issued
  <2> QED
    BY <2>1, Holder DEF OpenInv, OpenRest, OnceInv, OnceRest, RefInv, RefRest
<1>1. /\ qInvoices' = qInvoices \cup {new} /\ UNCHANGED qCredits /\ Others(q)
      /\ req[q].kind \in {"order", "reissue"}
      /\ new.number = req[q].number /\ new.account = req[q].account
      /\ new.replaces = req[q].target /\ new.issue = req[q].day
      /\ req'[q].at = "answer" /\ req'[q].kind = req[q].kind /\ req'[q].account = req[q].account
      /\ req'[q].day = req[q].day /\ req'[q].number = req[q].number
  BY DEF AsksInvoice, GoesTo
<1>2. \A i \in qInvoices : i.account = new.account => i \in invoices /\ i.number < new.number
  BY <1>0, <1>1, AsksNewest
<1>3. \A i \in qInvoices : i.number \in Nat
  BY <1>0, LedgerTypes
<1>4. new.number \in Nat
  BY <1>0, <1>1, LedgerTypes DEF Numbered
<1>5. \A a : reissuedLate(a) => reissuedLate(a)'
  BY <1>1 DEF reissuedLate
<1>6. ASSUME NEW i \in qInvoices, i.account = new.account, Uncredited(i.number)
      PROVE  PairOK(i, new)'
  <2>1. CASE req[q].kind = "order"
    <3>1. i.end < new.issue /\ new.replaces = None
      BY <1>0, <1>1, <1>6, <2>1 DEF ReqOpen, WellFormed
    <3>2. new.number <= new.number /\ new \in qInvoices'
      BY <1>1, <1>4
    <3> QED
      BY <1>6, <3>1, <3>2 DEF PairOK
  <2>2. CASE req[q].kind = "reissue"
    <3>1. PICK k \in invoices : k.number = req[q].target /\ k.account = req[q].account
      BY <1>0, <2>2, NoneAssumption DEF ReqRefs, WellFormed, Numbers
    <3>2. k \in qInvoices /\ Uncredited(k.number) /\ k.number < new.number /\ k.account = i.account
      BY <1>0, <1>1, <1>2, <1>6, <2>2, <3>1, LedgerTypes DEF ReqOnce
    <3>3. \A j \in qInvoices : j.account = req[q].account /\ j.replaces # None => ~Uncredited(j.replaces)
      BY <1>0 DEF ReqOnce
    <3>4. i.number # None /\ k.number # None
      BY <1>0, <3>2, LedgerTypes
    <3>5. CASE i.number < k.number
      <4>1. \/ \E o \in qInvoices : /\ o.account = i.account /\ o.replaces = None
                                    /\ i.end < o.issue /\ o.number <= k.number
            \/ reissuedLate(i.account)
        BY <1>1, <1>6, <3>2, <3>3, <3>4, <3>5 DEF OpenInv, OpenRest, PairOK
      <4>2. \A o \in qInvoices : o.number <= k.number => o.number <= new.number
        BY <1>3, <1>4, <3>2
      <4> QED
        BY <1>1, <1>5, <4>1, <4>2 DEF PairOK
    <3>6. CASE k.number < i.number
      <4>1. \/ \E o \in qInvoices : /\ o.account = k.account /\ o.replaces = None
                                    /\ k.end < o.issue /\ o.number <= i.number
            \/ reissuedLate(i.account)
        BY <1>1, <1>6, <3>2, <3>3, <3>4, <3>6 DEF OpenInv, OpenRest, PairOK
      <4>2. ASSUME NEW o \in qInvoices, o.account = k.account, o.replaces = None,
                   k.end < o.issue, o.number <= i.number
            PROVE  reissuedLate(i.account)'
        <5>1. o.number < new.number
          BY <1>2, <1>3, <1>4, <1>6, <4>2
        <5>2. o \in qInvoices' /\ k \in qInvoices' /\ new \in qInvoices' /\ new.replaces = k.number
          BY <1>1, <3>1, <3>2
        <5> QED
          BY <1>6, <3>2, <4>2, <5>1, <5>2 DEF reissuedLate
      <4> QED
        BY <1>5, <4>1, <4>2 DEF PairOK
    <3>7. CASE k.number = i.number
      BY <1>1, <3>1, <3>7 DEF PairOK
    <3> QED
      BY <1>3, <3>2, <3>5, <3>6, <3>7
  <2> QED
    BY <1>1, <2>1, <2>2
<1>7. ASSUME NEW i \in qInvoices', NEW j \in qInvoices' PROVE PairOK(i, j)'
  <2>1. CASE i \in qInvoices /\ j \in qInvoices
    <3>1. PairOK(i, j)
      BY <2>1 DEF OpenInv, OpenRest
    <3>2. reissuedLate(i.account) => reissuedLate(i.account)'
      BY <1>5
    <3> QED
      BY <1>1, <3>1, <3>2 DEF PairOK, Uncredited
  <2>2. CASE i \in qInvoices /\ j = new
    BY <1>1, <1>6, <2>2 DEF PairOK, Uncredited
  <2>3. CASE i = new
    <3>1. ~(i.account = j.account /\ i.number < j.number)
      BY <1>1, <1>2, <1>3, <1>4, <2>3
    <3> QED
      BY <3>1 DEF PairOK
  <2> QED
    BY <1>1, <2>1, <2>2, <2>3
<1>8. ReqOpen(req[q])'
  <2>1. invoicesOut(req[q])' = {new.number}
    BY <1>1 DEF invoicesOut, Issued
  <2> QED
    BY <1>0, <1>1, <2>1 DEF ReqOpen, Uncredited
<1>9. ASSUME NEW p \in Requests, p # q PROVE ReqOpen(req[p])'
  <2>1. req'[p] = req[p] /\ ReqOpen(req[p])
    BY <1>1, <1>9 DEF Others, OpenInv, OpenRest
  <2>2. req[p].at \in Holding => req[p].account # new.account
    BY <1>0, <1>1, <1>9, Apart
  <2> QED
    BY <1>1, <2>1, <2>2 DEF ReqOpen, Uncredited, invoicesOut, Issued
<1> QED
  BY <1>7, <1>8, <1>9 DEF OpenRest

LEMMA OpenStep ==
  ASSUME ~ChecksMidOrder, OpenInv, [Next]_vars
  PROVE  OpenInv'
<1>1. OnceInv' /\ MarkInv /\ OpenRest
  BY OnceStep DEF OpenInv, OnceInv, RefInv
<1>2. ASSUME NEW q \in Requests, Others(q), UNCHANGED qInvoices, qCredits \subseteq qCredits',
             req'[q].at \in Holding => req'[q].kind # "order"
      PROVE  OpenRest'
  <2>1. ReqOpen(req[q])'
    BY <1>2 DEF ReqOpen
  <2> QED
    BY <1>1, <1>2, <2>1, PairsStay DEF OpenRest, Others
<1>3. CASE Aside \/ \E a \in Accounts : Checked(a)
  <2>1. UNCHANGED <<req, qInvoices>> /\ qCredits \subseteq qCredits'
    BY <1>3 DEF Aside, Checked, Rests
  <2> QED
    BY <1>1, <2>1, PairsStay DEF OpenRest, OpenInv
<1>4. ASSUME NEW q \in Requests, Quits(q) \/ Records(q) \/ \E a \in Accounts : Starts(q, a)
      PROVE  OpenRest'
  <2>1. /\ Others(q) /\ UNCHANGED qInvoices /\ qCredits \subseteq qCredits'
        /\ req'[q].at \in {"idle", "read", "lock"}
    BY <1>4 DEF Quits, Records, Finishes, Starts, Leaves, Rests
  <2> QED
    BY <1>2, <2>1 DEF Holding, Numbered
<1>5. ASSUME NEW q \in Requests, NEW c, AsksCredit(q, c) PROVE OpenRest'
  <2>1. /\ Others(q) /\ UNCHANGED qInvoices /\ qCredits \subseteq qCredits'
        /\ req'[q].kind # "order"
    BY <1>5 DEF AsksCredit, GoesTo
  <2> QED
    BY <1>2, <2>1
<1> QED
  BY <1>1, <1>3, <1>4, <1>5, EveryStep, OpenGoOn, OpenAsk DEF OpenInv

\* An account without a mark has one open invoice at most, unless one of its was
\* reissued late: every request looks under the lock at all that earlier ones had
\* Qonto issue (place-order.ts, reissue.ts, order-check.ts).
THEOREM OneOpenAlways == ~ChecksMidOrder => (Spec => []OneOpenInvoice)
<1> SUFFICES ASSUME ~ChecksMidOrder PROVE Spec => []OneOpenInvoice
  OBVIOUS
<1>1. Init => OpenInv
  BY OnceAtStart, NobodyAsks DEF OpenInv, OpenRest, ReqOpen
<1>2. OpenInv /\ [Next]_vars => OpenInv'
  BY OpenStep
<1>3. ASSUME OpenInv PROVE OneOpenInvoice
  <2>0. MarkInv /\ RefInv /\ OnceRest /\ OpenRest
    BY <1>3 DEF OpenInv, OnceInv, RefInv
  <2>1. ASSUME NEW a \in Accounts, mark[a] = None PROVE Settled(a)
    <3>1. CASE lock[a] = None
      BY <2>0, <2>1, <3>1 DEF OnceRest
    <3>2. CASE lock[a] # None
      <4>1. PICK q \in Requests : req[q].at \in Holding /\ req[q].account = a
        BY <2>0, <3>2, HolderIsRunning, LedgerTypes
      <4>2. req[q].at \in {"number", "mark"}
        BY <2>0, <2>1, <4>1, Holder DEF OnlyItsOwn, Holding
      <4>3. invoicesOut(req[q]) = {}
        BY <4>2 DEF invoicesOut, Issued
      <4> QED
        BY <2>0, <4>1, <4>3 DEF OnceRest, ReqOnce, Settled
    <3> QED
      BY <3>1, <3>2
  <2>2. ASSUME NEW a \in Accounts, mark[a] = None, NEW i \in openAtQonto(a), NEW j \in openAtQonto(a),
               i.number < j.number
        PROVE  reissuedLate(a)
    <3>1. /\ i \in qInvoices /\ j \in qInvoices /\ i.account = a /\ j.account = a
          /\ Uncredited(i.number) /\ Uncredited(j.number) /\ i.end >= today
      BY DEF openAtQonto, Uncredited
    <3>2. PairOK(i, j)
      BY <2>0, <3>1 DEF OpenRest
    <3>3. j.replaces # i.number
      <4>1. i.number # None
        BY <2>0, <3>1, LedgerTypes
      <4> QED
        BY <2>1, <2>2, <3>1, <4>1 DEF Settled
    <3>4. ~\E o \in qInvoices : i.end < o.issue
      <4>1. i.end \in Nat /\ today \in Nat /\ \A o \in qInvoices : o.issue \in Nat /\ o.issue <= today
        BY <2>0, <3>1, LedgerTypes DEF RefInv, RefRest, DocRefs
      <4> QED
        BY <3>1, <4>1
    <3> QED
      BY <2>2, <3>1, <3>2, <3>3, <3>4 DEF PairOK
  <2>3. \A a \in Accounts : \A i, j \in openAtQonto(a) :
          i.number \in Nat /\ j.number \in Nat /\ (i.number = j.number => i = j)
    BY <2>0, LedgerTypes DEF openAtQonto
  <2> QED
    BY <2>2, <2>3 DEF OneOpenInvoice
<1> QED
  BY <1>1, <1>2, <1>3, PTL DEF Spec

----------------------------------------------------------------------------
(* What the hourly run acts on *)

\* The account of candidate c has a newer invoice than the one c is about.
Superseded(c) == \E i \in invoicesOf(c.account) : i.number > c.number

\* The latest access change of c's account is the run's suspension, or was a revoke
\* that the log did not show when the run read it.
OwnSuspension(c) == lastChange[c.account] = "suspended" \/ c.unrecorded

\* A candidate names an invoice of its account, past its due date if the account was
\* full.  If it was not, the account is still suspended by the run, unless it has a
\* newer invoice.
CandidateOK(c) ==
    /\ c.day <= today
    /\ \E i \in invoices : /\ i.number = c.number /\ i.account = c.account
                           /\ c.level = "full" => i.issue + MONTH < c.day
    /\ c.act = "reopen" => c.level # "full"
    /\ c.act = "suspend" => c.level = "full"
    /\ c.level # "full" =>
         Superseded(c) \/ (level[c.account] # "full" /\ OwnSuspension(c))

\* What the log shows last is the latest change, unless one of the two is a revoke.
LogOK == \A a \in Accounts : change[a] = lastChange[a] \/ "revoked" \in {change[a], lastChange[a]}

SweepRest ==
    /\ LogOK
    /\ \A c, d \in sweep : c.account = d.account => c = d
    /\ \A c \in sweep : CandidateOK(c)
SweepInv == RefInv /\ SweepRest

\* Where access does not change, or where an invoice is recorded with it, what is
\* true of a candidate stays.
LEMMA CandidateStays ==
  ASSUME NEW c, CandidateOK(c), c.day \in Nat, today \in Nat, today' \in Nat, today <= today',
         invoices \subseteq invoices',
         c.level # "full" /\ level[c.account] # "full" /\ OwnSuspension(c) =>
           Superseded(c)' \/ (level'[c.account] # "full" /\ OwnSuspension(c)')
  PROVE  CandidateOK(c)'
<1>1. Superseded(c) => Superseded(c)'
  BY DEF Superseded, invoicesOf
<1> QED
  BY <1>1 DEF CandidateOK

\* Candidates stand while only the steps of requests and admins touch access.
LEMMA SweepTypes ==
  ASSUME SweepInv
  PROVE  /\ MarkInv /\ TypeOK /\ today \in Nat /\ RefRest /\ SweepRest
         /\ \A c \in sweep : /\ c \in Candidate /\ c.day \in Nat /\ c.number \in Nat
                             /\ c.account \in Accounts
<1>1. MarkInv /\ TypeOK /\ today \in Nat /\ RefRest /\ SweepRest /\ sweep \subseteq Candidate
  BY LedgerTypes DEF SweepInv, RefInv, TypeInv, TypeOK
<1> QED
  BY <1>1, BoundAssumption DEF Candidate, Days, Numbers

LEMMA SweepStays ==
  ASSUME SweepInv, LogOK', UNCHANGED sweep, today' \in Nat, today <= today',
         invoices \subseteq invoices',
         \A c \in sweep :
           c.level # "full" /\ level[c.account] # "full" /\ OwnSuspension(c) =>
             Superseded(c)' \/ (level'[c.account] # "full" /\ OwnSuspension(c)')
  PROVE  SweepRest'
<1>1. \A c \in sweep : CandidateOK(c)'
  BY SweepTypes, CandidateStays DEF SweepRest
<1> QED
  BY <1>1, SweepTypes DEF SweepRest

\* A request that records an invoice makes it newer than any the run has read of.
LEMMA SweepRecord ==
  ASSUME SweepInv, LogOK', NEW q \in Requests, Records(q)
  PROVE  SweepRest'
<1>0. /\ Finishes(q) /\ req[q].at \in Holding /\ UNCHANGED <<sweep, today, change, lastChange>>
      /\ invoices \subseteq invoices'
      /\ \A b \in Accounts : b # req[q].account => level'[b] = level[b]
      /\ level'[req[q].account] = "full" => UNCHANGED level \/ \E i : NewRow(q, i)
  BY DEF Records, Finishes, NewRow
<1>1. ASSUME NEW c \in sweep, c.account = req[q].account, NEW i, NewRow(q, i)
      PROVE  Superseded(c)'
  <2>1. PICK k \in invoices : k.number = c.number /\ k.account = c.account
    BY SweepTypes DEF SweepRest, CandidateOK
  <2>2. /\ ReqRefs(req[q]) /\ req[q].at # "idle" /\ req[q].at \in Numbered
    BY <1>1, <1>0, SweepTypes, LedgerTypes DEF RefRest, Records, Numbered
  <2>3. k.number < req[q].number
    BY <1>1, <2>1, <2>2 DEF ReqRefs
  <2>4. i.number > c.number
    BY <1>1, <2>1, <2>2, <2>3, SweepTypes, LedgerTypes DEF NewRow
  <2> QED
    BY <1>1, <2>4 DEF Superseded, invoicesOf, NewRow
<1>2. ASSUME NEW c \in sweep, level[c.account] # "full", OwnSuspension(c)
      PROVE  Superseded(c)' \/ (level'[c.account] # "full" /\ OwnSuspension(c)')
  <2>1. c.account \in Accounts
    BY SweepTypes
  <2> QED
    BY <1>0, <1>1, <1>2, <2>1 DEF OwnSuspension
<1>3. today' \in Nat /\ today <= today'
  BY <1>0, SweepTypes
<1> QED
  BY <1>0, <1>2, <1>3, SweepStays

LEMMA SweepCheck ==
  ASSUME SweepInv, LogOK', NEW a \in Accounts, Checked(a)
  PROVE  SweepRest'
<1>0. /\ UNCHANGED <<sweep, today, change, lastChange>>
      /\ invoices' = invoices \cup unrecordedInvoices(a)
      /\ \A b \in Accounts : b # a => level'[b] = level[b]
      /\ level'[a] = "full" => level[a] = "full" \/ unrecordedInvoices(a) # {}
      /\ today' \in Nat /\ today <= today'
  BY SweepTypes DEF Checked
<1>1. ASSUME NEW c \in sweep, c.account = a, NEW i \in unrecordedInvoices(a)
      PROVE  Superseded(c)'
  <2>1. PICK k \in invoices : k.number = c.number /\ k.account = c.account
    BY SweepTypes DEF SweepRest, CandidateOK
  <2>2. i \in qInvoices \ invoices /\ i.account = a
    BY DEF unrecordedInvoices
  <2>3. k.number < i.number /\ i.number \in Nat
    BY <1>1, <2>1, <2>2, SweepTypes, LedgerTypes DEF RefRest, DocRefs
  <2>4. i \in invoices' /\ i.number > c.number
    BY <1>0, <2>1, <2>2, <2>3, SweepTypes
  <2> QED
    BY <1>1, <2>2, <2>4 DEF Superseded, invoicesOf
<1>2. ASSUME NEW c \in sweep, level[c.account] # "full", OwnSuspension(c)
      PROVE  Superseded(c)' \/ (level'[c.account] # "full" /\ OwnSuspension(c)')
  <2>1. c.account \in Accounts
    BY SweepTypes
  <2> QED
    BY <1>0, <1>1, <1>2, <2>1 DEF OwnSuspension
<1> QED
  BY <1>0, <1>2, SweepStays

\* The run reads its candidates, asks Qonto about one, or acts on it.
LEMMA SweepReads ==
  ASSUME SweepInv, LogOK', nonPaymentCandidates
  PROVE  SweepRest'
<1>0. /\ UNCHANGED <<today, invoices, level, change, lastChange>> /\ sweep = {}
      /\ today \in Nat /\ TypeOK
      /\ sweep' = {[account |-> a, level |-> level[a], number |-> latestInvoice(a).number,
                    day |-> today, act |-> "read",
                    unrecorded |-> lastChange[a] = "revoked" /\ change[a] # "revoked"] :
                      a \in {b \in Accounts : needsQonto(b)}}
  BY SweepTypes DEF nonPaymentCandidates, docVars, accountVars
<1>1. ASSUME NEW c \in sweep'
      PROVE  /\ c.account \in Accounts /\ needsQonto(c.account) /\ c.day = today /\ c.act = "read"
             /\ c.level = level[c.account] /\ c.number = latestInvoice(c.account).number
             /\ c.unrecorded = (lastChange[c.account] = "revoked" /\ change[c.account] # "revoked")
             /\ c = [account |-> c.account, level |-> level[c.account],
                     number |-> latestInvoice(c.account).number, day |-> today, act |-> "read",
                     unrecorded |-> /\ lastChange[c.account] = "revoked"
                                    /\ change[c.account] # "revoked"]
  <2>1. PICK a \in Accounts : needsQonto(a) /\
               c = [account |-> a, level |-> level[a], number |-> latestInvoice(a).number,
                    day |-> today, act |-> "read",
                    unrecorded |-> lastChange[a] = "revoked" /\ change[a] # "revoked"]
    BY <1>0
  <2> QED
    BY <2>1
<1>2. ASSUME NEW c \in sweep' PROVE CandidateOK(c)'
  <2>1. latestInvoice(c.account) \in invoicesOf(c.account)
    BY <1>0, <1>1, EndsOfLedger DEF needsQonto
  <2>2. PICK i : i = latestInvoice(c.account)
    OBVIOUS
  <2>3. /\ i \in invoices /\ i.account = c.account /\ i.number = c.number
        /\ \/ level[c.account] = "full" /\ today > i.issue + MONTH
           \/ level[c.account] # "full" /\ change[c.account] = "suspended"
    BY <1>1, <2>1, <2>2 DEF needsQonto, invoicesOf
  <2>4. c.level = "full" => i.issue + MONTH < c.day
    <3>1. i.issue \in Nat
      BY <2>3, SweepTypes, LedgerTypes
    <3> QED
      BY <1>0, <1>1, <2>3, <3>1, TermAssumption
  <2>5. c.day <= today
    BY <1>0, <1>1
  <2>6. change[c.account] = "suspended" => OwnSuspension(c)
    BY <1>1, SweepTypes DEF SweepRest, LogOK, OwnSuspension
  <2> QED
    BY <1>0, <1>1, <2>3, <2>4, <2>5, <2>6 DEF CandidateOK, OwnSuspension
<1> QED
  BY <1>1, <1>2 DEF SweepRest

\* A candidate that gets its answer keeps its fields.
LEMMA Answered ==
  ASSUME NEW c \in Candidate, NEW act
  PROVE  LET d == [c EXCEPT !.act = act]
         IN  d.account = c.account /\ d.level = c.level /\ d.number = c.number /\ d.day = c.day
             /\ d.act = act /\ d.unrecorded = c.unrecorded
  BY DEF Candidate

LEMMA SweepAnswers ==
  ASSUME SweepInv, LogOK', NEW c \in sweep, readLiveInvoice(c) \/ UnreadableInvoice(c)
  PROVE  SweepRest'
<1>0. /\ UNCHANGED <<today, invoices, level, change, lastChange>>
      /\ today \in Nat /\ c \in Candidate
      /\ today <= today'
  BY SweepTypes DEF readLiveInvoice, UnreadableInvoice, docVars, accountVars
<1>1. PICK act : /\ act \in {"suspend", "reopen"} => nonPaymentAction(c, qontoStatus(c.number)) = act
                 /\ sweep' \subseteq (sweep \ {c})
                                     \cup (IF act \in {"suspend", "reopen"} THEN {[c EXCEPT !.act = act]} ELSE {})
  <2>1. nonPaymentAction(c, qontoStatus(c.number)) \in {"read", "suspend", "reopen"}
    BY DEF nonPaymentAction
  <2> QED
    BY <2>1 DEF readLiveInvoice, UnreadableInvoice
<1>2. PICK e : e = [c EXCEPT !.act = act]
  OBVIOUS
<1>3. /\ e.account = c.account /\ e.level = c.level /\ e.number = c.number /\ e.day = c.day
      /\ e.act = act /\ e.unrecorded = c.unrecorded
  BY <1>0, <1>2, Answered
<1>4. \A d \in sweep : CandidateOK(d)'
  BY <1>0, SweepTypes, CandidateStays DEF SweepRest, OwnSuspension
<1>5. act \in {"suspend", "reopen"} => CandidateOK(e)'
  <2>1. act = "suspend" => c.level = "full"
    BY <1>1 DEF nonPaymentAction
  <2>2. act = "reopen" => c.level # "full"
    BY <1>1 DEF nonPaymentAction
  <2>3. CandidateOK(c)'
    BY <1>4
  <2> QED
    BY <1>3, <2>1, <2>2, <2>3 DEF CandidateOK, Superseded, OwnSuspension
<1>6. \A d \in sweep : d.account = c.account => d = c
  BY SweepTypes DEF SweepRest
<1>7. \A d \in sweep' : (d \in sweep /\ d # c) \/ (d = e /\ act \in {"suspend", "reopen"})
  BY <1>1, <1>2
<1> QED
  BY <1>3, <1>4, <1>5, <1>6, <1>7, SweepTypes DEF SweepRest

LEMMA SweepApplies ==
  ASSUME SweepInv, LogOK', NEW c \in sweep, applyAndRecord(c)
  PROVE  SweepRest'
<1>0. /\ UNCHANGED <<today, invoices>> /\ today \in Nat /\ today <= today' /\ TypeOK
      /\ sweep' = sweep \ {c}
      /\ \/ UNCHANGED <<level, change, lastChange>>
         \/ /\ level' = [level EXCEPT ![c.account] = IF c.act = "suspend" THEN "unlicensed" ELSE "full"]
            /\ \E new : lastChange' = [lastChange EXCEPT ![c.account] = new]
  BY SweepTypes DEF applyAndRecord, docVars
<1>1. \A b \in Accounts : b # c.account => level'[b] = level[b] /\ lastChange'[b] = lastChange[b]
  BY <1>0 DEF TypeOK
<1>2. ASSUME NEW d \in sweep' PROVE CandidateOK(d)'
  <2>1. d \in sweep /\ d.account # c.account /\ d.account \in Accounts
    BY <1>0, SweepTypes DEF SweepRest
  <2>2. CandidateOK(d) /\ d.day \in Nat
    BY <2>1, SweepTypes DEF SweepRest
  <2> QED
    BY <1>0, <1>1, <2>1, <2>2, CandidateStays DEF OwnSuspension
<1> QED
  BY <1>0, <1>2, SweepTypes DEF SweepRest

\* The log and the latest changes stay so: only a revoke and its row come apart.
LEMMA LogStays ==
  ASSUME ~ChecksMidOrder, SweepInv, [Next]_vars
  PROVE  LogOK'
<1>0. MarkInv /\ LogOK /\ TypeOK
  BY SweepTypes DEF SweepRest
<1>1. CASE UNCHANGED <<change, lastChange>>
  BY <1>0, <1>1 DEF LogOK
<1>2. ASSUME NEW a \in Accounts, Revokes(a) \/ Logs(a) PROVE LogOK'
  BY <1>0, <1>2 DEF LogOK, Revokes, Logs
<1>3. ASSUME NEW c \in sweep, applyAndRecord(c) PROVE LogOK'
  <2>1. CASE UNCHANGED <<level, change, lastChange>>
    BY <1>1, <2>1
  <2>2. ASSUME NEW new, change' = [change EXCEPT ![c.account] = new],
               lastChange' = [lastChange EXCEPT ![c.account] = change'[c.account]]
        PROVE  LogOK'
    BY <1>0, <2>2 DEF LogOK, TypeOK
  <2> QED
    BY <1>3, <2>1, <2>2 DEF applyAndRecord
<1>4. CASE Aside /\ Scheduled
  <2>1. CASE Passes \/ AbortSweep \/ Midnight
    BY <1>1, <2>1 DEF Passes, AbortSweep, Midnight, accountVars
  <2>2. CASE Run
    BY <1>1, <1>3, <2>2
    DEF Run, nonPaymentCandidates, readLiveInvoice, UnreadableInvoice, accountVars
  <2> QED
    BY <1>2, <1>4, <2>1, <2>2 DEF Scheduled
<1>5. ASSUME NEW q \in Requests,
             Quits(q) \/ GoesOn(q) \/ Records(q) \/ \E a \in Accounts : Starts(q, a)
      PROVE  LogOK'
  BY <1>1, <1>5 DEF Quits, GoesOn, ReadsOn, TakesRow, TakesNumber, Marks, KeepsOn, Onward,
                    Records, Finishes, Starts
<1>6. ASSUME NEW q \in Requests, (\E i : AsksInvoice(q, i)) \/ (\E c : AsksCredit(q, c))
      PROVE  LogOK'
  BY <1>1, <1>6 DEF AsksInvoice, AsksCredit
<1>7. ASSUME NEW a \in Accounts, Checked(a) PROVE LogOK'
  BY <1>1, <1>7 DEF Checked
<1> QED
  BY <1>0, <1>4, <1>5, <1>6, <1>7, EveryStep

LEMMA SweepStep ==
  ASSUME ~ChecksMidOrder, SweepInv, [Next]_vars
  PROVE  SweepInv'
<1>0. RefInv' /\ MarkInv /\ today' \in Nat /\ today \in Nat /\ LogOK'
  <2>1. MarkInv' /\ RefInv /\ MarkInv
    BY MarkKeep DEF SweepInv, RefInv
  <2> QED
    BY <2>1, LogStays, RefsKeep, SweepTypes, BoundAssumption
    DEF MarkInv, NumberInv, TypeInv, TypeOK, Days
<1>1. ASSUME UNCHANGED <<level, change, lastChange, sweep, today>>, invoices \subseteq invoices'
      PROVE  SweepRest'
  <2>1. today <= today'
    BY <1>0, <1>1
  <2> QED
    BY <1>0, <1>1, <2>1, SweepStays DEF OwnSuspension
<1>2. ASSUME Aside /\ Scheduled PROVE SweepRest'
  <2>0. invoices \subseteq invoices' /\ today <= today'
    BY <1>2 DEF Aside, Rests
  <2>1. CASE Passes
    BY <1>1, <2>0, <2>1 DEF Passes
  <2>2. ASSUME NEW a \in Accounts, Revokes(a) PROVE SweepRest'
    <3>1. /\ UNCHANGED <<sweep, today>> /\ level[a] = "full"
          /\ \A b \in Accounts : b # a => level'[b] = level[b] /\ lastChange'[b] = lastChange[b]
      BY <2>2 DEF Revokes
    <3>2. \A c \in sweep : c.account \in Accounts
      BY SweepTypes
    <3> QED
      BY <1>0, <2>0, <3>1, <3>2, SweepStays DEF OwnSuspension
  <2>3. CASE Run
    BY <1>0, <2>3, SweepReads, SweepAnswers, SweepApplies DEF Run
  <2>4. CASE AbortSweep
    BY <1>0, <2>4 DEF AbortSweep, SweepRest
  <2>5. CASE Midnight
    <3>1. UNCHANGED <<sweep, level, change, lastChange>>
      BY <2>5 DEF Midnight, accountVars
    <3> QED
      BY <1>0, <2>0, <3>1, SweepStays DEF OwnSuspension
  <2>6. ASSUME NEW a \in Accounts, Logs(a) PROVE SweepRest'
    <3>1. UNCHANGED <<sweep, level, lastChange, today>>
      BY <2>6 DEF Logs
    <3> QED
      BY <1>0, <2>0, <3>1, SweepStays DEF OwnSuspension
  <2> QED
    BY <1>2, <2>1, <2>2, <2>3, <2>4, <2>5, <2>6 DEF Scheduled
<1>3. ASSUME NEW q \in Requests, Quits(q) \/ GoesOn(q) \/ \E a \in Accounts : Starts(q, a)
      PROVE  SweepRest'
  BY <1>1, <1>3 DEF Quits, GoesOn, ReadsOn, TakesRow, TakesNumber, Marks, KeepsOn, Onward, Starts, Rests
<1>4. ASSUME NEW q \in Requests, (\E i : AsksInvoice(q, i)) \/ (\E c : AsksCredit(q, c))
      PROVE  SweepRest'
  BY <1>1, <1>4 DEF AsksInvoice, AsksCredit
<1>5. SweepRest'
  BY <1>0, <1>2, <1>3, <1>4, EveryStep, SweepRecord, SweepCheck
<1> QED
  BY <1>0, <1>5 DEF SweepInv

LEMMA SweepAtStart == Init => SweepInv
  BY OnceAtStart, NobodyAsks DEF OnceInv, SweepInv, SweepRest, LogOK, Init

\* The hourly run reopens only what it has suspended itself and nobody has revoked
\* since (non-payment.ts), for any accounts, requests and bounds.  The exceptions are
\* the code's own: an invoice newer than the one it read, and a revoke that was
\* committed but not logged when it read the log.
THEOREM ReopenedByItself == ~ChecksMidOrder => (Spec => ReopensOnlyItsOwn)
<1> SUFFICES ASSUME ~ChecksMidOrder PROVE Spec => ReopensOnlyItsOwn
  OBVIOUS
<1> DEFINE Own == \A c \in sweep :
                    /\ c \notin sweep' /\ level[c.account] # "full" /\ level'[c.account] = "full"
                    /\ latestInvoice(c.account).number = c.number
                    => lastChange[c.account] = "suspended" \/ c.unrecorded
<1>1. SweepInv /\ [Next]_vars => SweepInv'
  BY SweepStep
<1>2. ASSUME SweepInv, [Next]_vars PROVE Own
  <2> SUFFICES ASSUME NEW c \in sweep, c \notin sweep', level[c.account] # "full",
                      level'[c.account] = "full", latestInvoice(c.account).number = c.number
               PROVE  lastChange[c.account] = "suspended" \/ c.unrecorded
    OBVIOUS
  <2>0. MarkInv /\ TypeOK /\ c.account \in Accounts /\ CandidateOK(c) /\ c.number \in Nat
    BY <1>2, SweepTypes DEF SweepRest
  <2>1. ~(sweep' = sweep) /\ ~(level' = level)
    OBVIOUS
  <2>2. Aside /\ Scheduled
    <3>1. \A q \in Requests : ~Records(q) /\ ~Quits(q) /\ ~GoesOn(q) /\ \A a \in Accounts : ~Starts(q, a)
      BY <2>1 DEF Records, Finishes, Quits, GoesOn, ReadsOn, TakesRow, TakesNumber, Marks, KeepsOn,
                  Onward, Starts
    <3>2. \A q \in Requests : (\A i : ~AsksInvoice(q, i)) /\ \A d : ~AsksCredit(q, d)
      BY <2>1 DEF AsksInvoice, AsksCredit
    <3>3. \A a \in Accounts : ~Checked(a)
      BY <2>1 DEF Checked
    <3> QED
      BY <1>2, <2>0, <3>1, <3>2, <3>3, EveryStep
  <2>3. PICK d \in sweep : applyAndRecord(d)
    BY <2>1, <2>2 DEF Scheduled, Passes, Revokes, Logs, Run, nonPaymentCandidates, readLiveInvoice,
                      UnreadableInvoice, AbortSweep, Midnight, accountVars
  <2>4. d = c /\ c.act # "suspend" /\ c.act = "reopen"
    <3>1. d = c
      BY <2>3 DEF applyAndRecord
    <3> QED
      BY <2>0, <2>3, <3>1 DEF applyAndRecord, TypeOK
  <2>5. ~Superseded(c)
    <3>1. invoicesOf(c.account) # {}
      BY <2>0 DEF CandidateOK, invoicesOf
    <3>2. \A i \in invoicesOf(c.account) : i.number <= c.number /\ i.number \in Nat
      BY <2>0, <3>1, EndsOfLedger, LedgerTypes DEF invoicesOf
    <3> QED
      BY <2>0, <3>2 DEF Superseded
  <2> QED
    BY <2>0, <2>4, <2>5 DEF CandidateOK, OwnSuspension
<1>3. SweepInv /\ [Next]_vars => [Own]_vars
  BY <1>2
<1> QED
  BY <1>1, <1>3, SweepAtStart, PTL DEF Spec, ReopensOnlyItsOwn

----------------------------------------------------------------------------
(* Chains of reissues *)

\* With an invoice that Qonto has issued, S has the one that it replaces.
Closed(S) == \A i \in qInvoices : i.number \in S => i.replaces \in S \cup {None}

\* The chain of a number through all that Qonto has issued, recorded or not.
chainAtQonto(n) == {o \in Numbers : \A S \in SUBSET Numbers : n \in S /\ Closed(S) => o \in S}

\* The first invoice of its account, whatever is recorded later.
IsFirst(f) == f \in qInvoices /\ \A i \in qInvoices : i.account = f.account => f.number <= i.number

LEMMA ChainGrows ==
  ASSUME qInvoices \subseteq qInvoices', NEW n
  PROVE  chainAtQonto(n) \subseteq chainAtQonto(n)'
<1>1. \A S : Closed(S)' => Closed(S)
  BY DEF Closed
<1> QED
  BY <1>1 DEF chainAtQonto

\* No older chain runs through a new invoice.
LEMMA ChainStays ==
  ASSUME NEW new, qInvoices' = qInvoices \cup {new}, new.number \in Numbers,
         \A i \in qInvoices : i.number # new.number /\ i.replaces # new.number,
         NEW t \in qInvoices
  PROVE  chainAtQonto(t.number)' \subseteq chainAtQonto(t.number)
<1> SUFFICES ASSUME NEW o \in chainAtQonto(t.number)', NEW S \in SUBSET Numbers, t.number \in S, Closed(S)
             PROVE  o \in S
  BY DEF chainAtQonto
<1>1. PICK T : T = S \ {new.number}
  OBVIOUS
<1>2. T \in SUBSET Numbers /\ t.number \in T
  BY <1>1
<1>3. Closed(T)'
  BY <1>1 DEF Closed
<1> QED
  BY <1>1, <1>2, <1>3 DEF chainAtQonto

\* A new invoice's chain is that of what it replaces, and itself.
LEMMA ChainOfNew ==
  ASSUME NEW new, qInvoices' = qInvoices \cup {new}, new.number \in Numbers,
         new.replaces \in Numbers \cup {None},
         \A i \in qInvoices : i.number # new.number /\ i.replaces # new.number,
         NEW o \in chainAtQonto(new.number)', o # new.number
  PROVE  new.replaces # None /\ o \in chainAtQonto(new.replaces)
<1>1. new.replaces # None
  <2>1. SUFFICES ASSUME new.replaces = None PROVE FALSE
    OBVIOUS
  <2>2. PICK T : T = {new.number}
    OBVIOUS
  <2>3. T \in SUBSET Numbers /\ new.number \in T /\ Closed(T)'
    BY <2>1, <2>2 DEF Closed
  <2> QED
    BY <2>2, <2>3 DEF chainAtQonto
<1>2. ASSUME NEW S \in SUBSET Numbers, new.replaces \in S, Closed(S) PROVE o \in S
  <2>1. PICK T : T = S \cup {new.number}
    OBVIOUS
  <2>2. T \in SUBSET Numbers /\ new.number \in T
    BY <2>1
  <2>3. Closed(T)'
    BY <1>2, <2>1 DEF Closed
  <2>4. o \in T
    BY <2>2, <2>3 DEF chainAtQonto
  <2> QED
    BY <2>1, <2>4
<1> QED
  BY <1>1, <1>2 DEF chainAtQonto

\* Back along its chain, invoices are of one account and none is later.
LEMMA ChainOlder ==
  ASSUME RefInv, NEW t \in qInvoices, NEW f \in qInvoices, f.number \in chainAtQonto(t.number)
  PROVE  f.account = t.account /\ f.issue <= t.issue
<1>0. MarkInv /\ DocRefs
  BY DEF RefInv, RefRest
<1>1. PICK S : S = {n \in Numbers : \E i \in qInvoices : i.number = n /\ i.account = t.account
                                                         /\ i.issue <= t.issue}
  OBVIOUS
<1>2. S \in SUBSET Numbers /\ t.number \in S
  BY <1>0, <1>1, LedgerTypes
<1>3. Closed(S)
  <2>1. ASSUME NEW i \in qInvoices, i.number \in S, i.replaces # None PROVE i.replaces \in S
    <3>1. i.account = t.account /\ i.issue <= t.issue
      BY <1>0, <1>1, <2>1, LedgerTypes
    <3>2. PICK k \in invoices : k.number = i.replaces /\ k.account = i.account /\ k.issue <= i.issue
      BY <1>0, <2>1 DEF DocRefs
    <3>3. k \in qInvoices /\ k.number \in Numbers /\ k.issue <= t.issue
      BY <1>0, <3>1, <3>2, LedgerTypes
    <3> QED
      BY <1>1, <3>1, <3>2, <3>3
  <2> QED
    BY <2>1 DEF Closed
<1>4. f.number \in S
  BY <1>2, <1>3 DEF chainAtQonto
<1> QED
  BY <1>0, <1>1, <1>4, LedgerTypes

\* The start of a recorded invoice's chain is one of its numbers: the least.
LEMMA ChainStarts ==
  ASSUME RefInv, NEW i \in invoices
  PROVE  originalInvoice(i.number) \in chainAtQonto(i.number)
<1>0. /\ MarkInv /\ DocRefs /\ invoices \subseteq qInvoices /\ i.number \in Numbers
      /\ Numbers \subseteq Nat /\ None \notin Numbers
  BY LedgerTypes, NoneAssumption DEF RefInv, RefRest, Numbers
<1> DEFINE ClosedRows(S) == \A k \in invoices : k.number \in S => k.replaces \in S \cup {None}
<1>1. chain(i.number) \subseteq chainAtQonto(i.number)
  <2>1. \A S : Closed(S) => ClosedRows(S)
    BY <1>0 DEF Closed
  <2> QED
    BY <2>1 DEF chain, chainAtQonto
<1>2. i.number \in chain(i.number) /\ chain(i.number) \in SUBSET Nat
  BY <1>0 DEF chain
<1>3. PICK o \in chain(i.number) : \A m \in chain(i.number) : o <= m
  BY <1>2, LeastNatural
<1>4. PICK k \in invoices : k.number = o
  <2>1. PICK S : S = {n \in Numbers : \E k \in invoices : k.number = n}
    OBVIOUS
  <2>2. S \in SUBSET Numbers /\ i.number \in S
    BY <1>0, <2>1
  <2>3. ASSUME NEW k \in invoices, k.replaces # None PROVE k.replaces \in S
    <3>1. PICK l \in invoices : l.number = k.replaces
      BY <1>0, <2>3 DEF DocRefs
    <3> QED
      BY <1>0, <2>1, <3>1, LedgerTypes
  <2>4. ClosedRows(S)
    BY <2>3
  <2>5. o \in S
    BY <2>2, <2>4 DEF chain
  <2> QED
    BY <2>1, <2>5
<1>5. k.replaces = None
  <2> SUFFICES ASSUME k.replaces # None PROVE FALSE
    OBVIOUS
  <2>1. PICK l \in invoices : l.number = k.replaces /\ l.number < k.number
    BY <1>0, <1>4 DEF DocRefs
  <2>2. l.number \in Numbers /\ l.number \in Nat /\ k.number \in Nat
    BY <1>0, <2>1, LedgerTypes
  <2>3. l.number \in chain(i.number)
    BY <1>0, <1>4, <2>1, <2>2 DEF chain
  <2> QED
    BY <1>3, <1>4, <2>1, <2>2, <2>3
<1>6. invoiceRow(o).replaces = None
  <2>1. invoiceRow(o) \in invoices /\ invoiceRow(o).number = o
    BY <1>4 DEF invoiceRow
  <2>2. invoiceRow(o) = k
    BY <1>0, <1>4, <2>1, LedgerTypes
  <2> QED
    BY <1>5, <2>2
<1>7. originalInvoice(i.number) \in chain(i.number)
  BY <1>3, <1>6 DEF originalInvoice
<1> QED
  BY <1>1, <1>7

\* Money is given back on a chain that starts at the account's first invoice, and
\* within its month.
LEMMA MoneyBackOnFirst ==
  ASSUME RefInv, NEW i \in invoices, NEW day, moneyBack(i.account, i, day)
  PROVE  \E f \in invoices : /\ IsFirst(f) /\ f.account = i.account /\ day <= f.issue + MONTH
                             /\ f.number \in chainAtQonto(i.number)
<1>0. /\ MarkInv /\ DocRefs /\ invoices \subseteq qInvoices /\ TypeOK /\ i.account \in Accounts
  BY LedgerTypes DEF RefInv, RefRest, TypeInv
<1>1. invoicesOf(i.account) # {}
  BY DEF invoicesOf
<1>2. PICK f : f = firstInvoice(i.account)
  OBVIOUS
<1>3. f \in invoices /\ f.account = i.account /\ \A j \in invoicesOf(i.account) : f.number <= j.number
  BY <1>0, <1>1, <1>2, EndsOfLedger DEF invoicesOf
<1>4. f.number = originalInvoice(i.number) /\ day <= invoiceRow(f.number).issue + MONTH
  BY <1>2 DEF moneyBack
<1>5. invoiceRow(f.number) = f
  <2>1. invoiceRow(f.number) \in invoices /\ invoiceRow(f.number).number = f.number
    BY <1>3 DEF invoiceRow
  <2> QED
    BY <1>0, <1>3, <2>1, LedgerTypes
<1>6. IsFirst(f)
  <2>1. ASSUME NEW j \in qInvoices, j.account = f.account PROVE f.number <= j.number
    <3>1. f.number \in Nat /\ j.number \in Nat
      BY <1>0, <1>3, <2>1, LedgerTypes
    <3>2. CASE j \in invoices
      BY <1>3, <2>1, <3>2 DEF invoicesOf
    <3>3. CASE j \notin invoices
      BY <1>0, <1>3, <2>1, <3>1, <3>3 DEF DocRefs
    <3> QED
      BY <3>2, <3>3
  <2> QED
    BY <1>0, <1>3, <2>1 DEF IsFirst
<1>7. f.number \in chainAtQonto(i.number)
  BY <1>4, ChainStarts
<1> QED
  BY <1>3, <1>4, <1>5, <1>6, <1>7

----------------------------------------------------------------------------
(* Access that is paid for *)

\* Every invoice of the chain that starts at f has its credit note's row.
AllCredited(f) == \A t \in qInvoices : f.number \in chainAtQonto(t.number) => credited(t.number)

Invoiced(a) == \E i \in invoicesOf(a) : ~credited(i.number)
HasOpen(a) == \E i \in qInvoices : i.account = a /\ Uncredited(i.number)

\* What was reissued and not credited yet was reissued last.
ReissueOpen ==
    \A j, k \in qInvoices : j.replaces = k.number /\ Uncredited(k.number) =>
      Uncredited(j.number) /\ \A l \in qInvoices : l.replaces # j.number

\* What can be done about an account's first invoice only once its month is over or
\* its chain credited: an invoice of an earlier day, a suspension, a candidate for
\* reopening, and an order that it came before.
FirstOK(f) ==
    IsFirst(f) =>
      /\ (\E i \in qInvoices : i.account = f.account /\ i.issue < f.issue) => AllCredited(f)
      /\ change[f.account] = "suspended" => f.issue + MONTH < today \/ AllCredited(f)
      /\ \A c \in sweep : c.account = f.account /\ c.level # "full" =>
           f.issue + MONTH < c.day \/ AllCredited(f)
      /\ \A q \in Requests :
           /\ req[q].at \in Holding /\ req[q].kind = "order"
           /\ req[q].account = f.account /\ req[q].day < f.issue
           => AllCredited(f)

\* A cancel gives money back on the chain of the account's first invoice, in its month.
CancelOK(r) ==
    r.at # "idle" /\ r.kind = "cancel" =>
      \E f \in invoices : /\ IsFirst(f) /\ f.account = r.account /\ r.day <= f.issue + MONTH
                          /\ f.number \in chainAtQonto(r.target)

\* While the run considers reopening, no older request runs, and no cancel of that account.
NoCancel(c) ==
    c.level # "full" => \A q \in Requests : req[q].at # "idle" =>
      /\ c.day <= req[q].day
      /\ ~(req[q].account = c.account /\ req[q].kind = "cancel" /\ req[q].at \in Holding)

ReopenOK(c) == c.act = "reopen" => Invoiced(c.account) /\ HasOpen(c.account)

FullPaid == \A a \in Accounts : level[a] = "full" => Invoiced(a)
SuspendedOnce == \A a \in Accounts : change[a] = "suspended" => invoicesOf(a) # {}
PaidRest ==
    /\ FullPaid /\ SuspendedOnce /\ ReissueOpen
    /\ \A f \in qInvoices : FirstOK(f)
    /\ \A q \in Requests : CancelOK(req[q])
    /\ \A c \in sweep : NoCancel(c) /\ ReopenOK(c)
PaidInv == OnceInv /\ SweepRest /\ PaidRest

LEMMA PaidTypes ==
  ASSUME PaidInv
  PROVE  /\ OnceInv /\ RefInv /\ MarkInv /\ DocRefs /\ SweepInv /\ SweepRest /\ OnceRest /\ PaidRest
         /\ TypeOK /\ invoices \subseteq qInvoices
         /\ \A q \in Requests : ReqRefs(req[q]) /\ ReqOnce(req[q])
         /\ \A c \in sweep : c \in Candidate /\ c.day \in Nat /\ c.account \in Accounts
<1>1. OnceInv /\ RefInv /\ MarkInv /\ DocRefs /\ SweepInv /\ SweepRest /\ OnceRest /\ PaidRest
  BY DEF PaidInv, OnceInv, RefInv, RefRest, SweepInv
<1> QED
  BY <1>1, LedgerTypes, SweepTypes DEF OnceRest, RefInv, RefRest

\* An account's recorded uncredited invoice stays one, and its open invoice open,
\* while only other accounts' credit notes come.
LEMMA InvoicedStays ==
  ASSUME MarkInv', DocRefs', NEW b, invoices \subseteq invoices', Invoiced(b),
         \A d \in credits' \ credits : d.account # b
  PROVE  Invoiced(b)'
<1>1. PICK i \in invoices : i.account = b /\ ~credited(i.number)
  BY DEF Invoiced, invoicesOf
<1>2. \A d \in credits' : d.of = i.number => d.account = b
  BY <1>1, SameAccountNext
<1>3. ~credited(i.number)'
  BY <1>1, <1>2 DEF credited
<1> QED
  BY <1>1, <1>3 DEF Invoiced, invoicesOf

LEMMA OpenStays ==
  ASSUME MarkInv', DocRefs', NEW b, qInvoices \subseteq qInvoices', HasOpen(b),
         \A c \in qCredits' \ qCredits : c.account # b
  PROVE  HasOpen(b)'
<1>1. PICK i \in qInvoices : i.account = b /\ Uncredited(i.number)
  BY DEF HasOpen
<1>2. ASSUME NEW c \in qCredits', c.of = i.number PROVE c.account = b
  <2>1. PICK k \in invoices' : k.number = c.of /\ k.account = c.account
    BY DEF DocRefs
  <2>2. \A j, l \in qInvoices' : j.number = l.number => j = l
    <3>1. \A j \in qInvoices' : j.number \in heldBy(j)
      BY DEF heldBy
    <3> QED
      BY <3>1 DEF MarkInv, NumberInv, NumbersApart
  <2>3. k \in qInvoices' /\ i \in qInvoices'
    BY <1>1 DEF MarkInv
  <2> QED
    BY <1>1, <1>2, <2>1, <2>2, <2>3
<1>3. Uncredited(i.number)'
  BY <1>1, <1>2 DEF Uncredited
<1> QED
  BY <1>1, <1>3 DEF HasOpen

\* What is open at Qonto and all recorded is recorded as open.
LEMMA OpenIsInvoiced ==
  ASSUME DocRefs', NEW a, HasOpen(a)',
         \A i \in qInvoices' : i.account = a => i \in invoices'
  PROVE  Invoiced(a)'
  BY DEF HasOpen, Uncredited, Invoiced, invoicesOf, credited, DocRefs

\* The invoice that a request has had issued has no credit note.
LEMMA OwnUncredited ==
  ASSUME PaidInv, NEW q \in Requests, req[q].at \in Numbered, NEW i \in qInvoices,
         i.number = req[q].number, i.account = req[q].account
  PROVE  Uncredited(i.number) /\ ~credited(i.number) /\ i \notin invoices
<1>0. ReqRefs(req[q]) /\ req[q].at # "idle" /\ MarkInv /\ DocRefs
  BY PaidTypes DEF Numbered
<1>1. i \notin invoices
  <2>1. i.number \in Nat
    BY <1>0, LedgerTypes
  <2> QED
    BY <1>0, <2>1 DEF ReqRefs
<1>2. Uncredited(i.number)
  <2> SUFFICES ASSUME NEW c \in qCredits, c.of = i.number PROVE FALSE
    BY DEF Uncredited
  <2>1. PICK k \in invoices : k.number = i.number
    BY <1>0 DEF DocRefs
  <2>2. k = i
    BY <1>0, <2>1, LedgerTypes
  <2> QED
    BY <1>1, <2>2
<1>3. ~credited(i.number)
  BY <1>0, <1>2 DEF DocRefs, credited, Uncredited
<1> QED
  BY <1>1, <1>2, <1>3

\* Where a request records its invoice, the account has one that is not credited.
LEMMA RecordsInvoiced ==
  ASSUME PaidInv, MarkInv', DocRefs', NEW q \in Requests, Records(q), NEW i, NewRow(q, i),
         NEW a, req[q].account = a
  PROVE  Invoiced(a)'
<1>0. /\ req[q].at \in Numbered /\ i \in qInvoices /\ i.number = req[q].number
      /\ i.account = a /\ i \in invoices' /\ UNCHANGED qCredits
      /\ Uncredited(i.number)
  <2>1. req[q].at \in Numbered /\ UNCHANGED qCredits
    BY DEF Records, Finishes, Numbered
  <2> QED
    BY <2>1, OwnUncredited DEF NewRow
<1>1. ~credited(i.number)'
  BY <1>0 DEF DocRefs, credited, Uncredited
<1> QED
  BY <1>0, <1>1 DEF Invoiced, invoicesOf

\* What was open is open after a check, and recorded.
LEMMA ChecksOpen ==
  ASSUME PaidInv, MarkInv', DocRefs', NEW a \in Accounts, Checked(a)
  PROVE  /\ HasOpen(a) => HasOpen(a)' /\ Invoiced(a)'
         /\ unrecordedInvoices(a) # {} => Invoiced(a)'
         /\ unrecordedInvoices(a) = {} /\ unrecordedCredits(a) = {} /\ Invoiced(a) => Invoiced(a)'
<1>0. /\ qCredits' = qCredits \cup uncreditedReissues(a) /\ UNCHANGED qInvoices
      /\ invoices' = invoices \cup unrecordedInvoices(a) /\ credits \subseteq credits'
      /\ MarkInv /\ DocRefs /\ ReissueOpen /\ invoices \subseteq qInvoices
  BY PaidTypes DEF Checked, PaidRest
<1>1. ASSUME NEW c \in uncreditedReissues(a)
      PROVE  \E l \in qInvoices, k \in invoices :
               /\ l.account = a /\ l.replaces = k.number /\ c.of = k.number /\ Uncredited(k.number)
               /\ k.account = a
  <2>1. PICK l \in qInvoices : /\ l.account = a /\ l.replaces # None /\ \A e \in qCredits : e.of # l.replaces
                               /\ c = [number |-> l.number + 1, account |-> a, of |-> l.replaces]
    BY DEF uncreditedReissues
  <2>2. c.of = l.replaces
    BY <2>1
  <2> QED
    BY <1>0, <2>1, <2>2 DEF DocRefs, Uncredited
<1>2. ASSUME HasOpen(a) PROVE HasOpen(a)'
  <2>1. CASE uncreditedReissues(a) = {}
    BY <1>0, <1>2, <2>1 DEF HasOpen, Uncredited
  <2>2. CASE uncreditedReissues(a) # {}
    <3>1. PICK l \in qInvoices, k \in qInvoices :
            l.account = a /\ l.replaces = k.number /\ Uncredited(k.number)
      BY <1>0, <1>1, <2>2
    <3>2. Uncredited(l.number) /\ \A m \in qInvoices : m.replaces # l.number
      BY <1>0, <3>1 DEF ReissueOpen
    <3>3. \A c \in uncreditedReissues(a) : c.of # l.number
      BY <1>1, <3>2
    <3> QED
      BY <1>0, <3>1, <3>2, <3>3 DEF HasOpen, Uncredited
  <2> QED
    BY <2>1, <2>2
<1>3. \A i \in qInvoices' : i.account = a => i \in invoices'
  BY <1>0 DEF unrecordedInvoices
<1>4. unrecordedInvoices(a) # {} => Invoiced(a)'
  <2> SUFFICES ASSUME NEW i \in unrecordedInvoices(a) PROVE Invoiced(a)'
    OBVIOUS
  <2>1. i \in qInvoices /\ i.account = a /\ i \notin invoices /\ i \in invoices'
    BY <1>0 DEF unrecordedInvoices
  <2>2. ASSUME NEW d \in credits', d.of = i.number PROVE FALSE
    <3>1. PICK c \in qCredits' : c.of = i.number
      BY <2>2 DEF DocRefs
    <3>2. PICK k \in invoices : k.number = i.number
      BY <1>0, <1>1, <3>1 DEF DocRefs
    <3> QED
      BY <1>0, <2>1, <3>2, LedgerTypes
  <2> QED
    BY <2>1, <2>2 DEF Invoiced, invoicesOf, credited
<1>5. ASSUME unrecordedInvoices(a) = {}, unrecordedCredits(a) = {}, Invoiced(a) PROVE Invoiced(a)'
  <2>1. CASE uncreditedReissues(a) = {}
    <3>1. credits' = credits /\ invoices' = invoices
      BY <1>0, <1>5, <2>1 DEF Checked
    <3> QED
      BY <1>5, <3>1 DEF Invoiced, invoicesOf, credited
  <2>2. CASE uncreditedReissues(a) # {}
    <3>1. HasOpen(a)
      BY <1>0, <1>1, <2>2 DEF HasOpen, ReissueOpen
    <3> QED
      BY <1>2, <1>3, <3>1, OpenIsInvoiced
  <2> QED
    BY <2>1, <2>2
<1> QED
  BY <1>2, <1>3, <1>4, <1>5, OpenIsInvoiced

\* Where documents rest, so does what is said of them.
LEMMA PaidSame ==
  ASSUME Rests
  PROVE  /\ \A f : (IsFirst(f)' <=> IsFirst(f)) /\ (AllCredited(f)' <=> AllCredited(f))
         /\ \A a : (Invoiced(a)' <=> Invoiced(a)) /\ (HasOpen(a)' <=> HasOpen(a))
                   /\ invoicesOf(a)' = invoicesOf(a)
         /\ ReissueOpen' <=> ReissueOpen
         /\ \A n : chainAtQonto(n)' = chainAtQonto(n)
<1>1. UNCHANGED <<qInvoices, qCredits, invoices, credits>>
  BY DEF Rests
<1>2. \A S : Closed(S)' <=> Closed(S)
  BY <1>1 DEF Closed
<1>3. \A n : chainAtQonto(n)' = chainAtQonto(n)
  BY <1>2 DEF chainAtQonto
<1>4. \A n : (Uncredited(n)' <=> Uncredited(n)) /\ (credited(n)' <=> credited(n))
  BY <1>1 DEF Uncredited, credited
<1>5. \A a : invoicesOf(a)' = invoicesOf(a)
  BY <1>1 DEF invoicesOf
<1>6. \A f : (IsFirst(f)' <=> IsFirst(f)) /\ (AllCredited(f)' <=> AllCredited(f))
  BY <1>1, <1>3, <1>4 DEF IsFirst, AllCredited
<1>7. \A a : (Invoiced(a)' <=> Invoiced(a)) /\ (HasOpen(a)' <=> HasOpen(a))
  BY <1>1, <1>4, <1>5 DEF Invoiced, HasOpen
<1>8. ReissueOpen' <=> ReissueOpen
  BY <1>1, <1>4 DEF ReissueOpen
<1> QED
  BY <1>3, <1>5, <1>6, <1>7, <1>8

\* The month of the first invoice is over, or its chain credited.
Over(f, day) == f.issue + MONTH < day \/ AllCredited(f)

LEMMA PaidRests ==
  ASSUME PaidInv, Rests, today' \in Nat, today <= today',
         \A a \in Accounts : level'[a] = "full" => Invoiced(a),
         \A a \in Accounts : change'[a] = "suspended" =>
           invoicesOf(a) # {} /\ \A f \in qInvoices : IsFirst(f) /\ f.account = a => Over(f, today'),
         \A c \in sweep' : c.level # "full" =>
           \A f \in qInvoices : IsFirst(f) /\ f.account = c.account => Over(f, c.day),
         \A q \in Requests : req'[q].at \in Holding /\ req'[q].kind = "order" =>
           \A f \in qInvoices :
             IsFirst(f) /\ f.account = req'[q].account /\ req'[q].day < f.issue => AllCredited(f),
         \A q \in Requests : CancelOK(req[q])',
         \A c \in sweep' : NoCancel(c)' /\ (c.act = "reopen" => Invoiced(c.account) /\ HasOpen(c.account))
  PROVE  PaidRest'
<1>0. /\ ReissueOpen /\ UNCHANGED qInvoices
      /\ \A f \in qInvoices : FirstOK(f) /\ f.account \in Accounts
  BY PaidTypes, LedgerTypes DEF PaidRest, Rests
<1>1. FullPaid' /\ SuspendedOnce'
  BY PaidSame DEF FullPaid, SuspendedOnce
<1>2. ReissueOpen'
  BY <1>0, PaidSame
<1>3. ASSUME NEW f \in qInvoices PROVE FirstOK(f)'
  <2> SUFFICES ASSUME IsFirst(f)' PROVE FirstOK(f)'
    BY DEF FirstOK
  <2>0. IsFirst(f) /\ (AllCredited(f)' <=> AllCredited(f)) /\ f.account \in Accounts
    BY <1>0, PaidSame
  <2>1. (\E i \in qInvoices : i.account = f.account /\ i.issue < f.issue) => AllCredited(f)
    BY <1>0, <2>0 DEF FirstOK
  <2>2. change'[f.account] = "suspended" => Over(f, today')
    BY <2>0
  <2>3. \A c \in sweep' : c.account = f.account /\ c.level # "full" => Over(f, c.day)
    BY <2>0
  <2>4. \A q \in Requests : /\ req'[q].at \in Holding /\ req'[q].kind = "order"
                            /\ req'[q].account = f.account /\ req'[q].day < f.issue
                            => AllCredited(f)
    BY <2>0
  <2> QED
    BY <1>0, <2>0, <2>1, <2>2, <2>3, <2>4 DEF FirstOK, Over
<1>4. \A c \in sweep' : ReopenOK(c)'
  BY PaidSame DEF ReopenOK
<1> QED
  BY <1>0, <1>1, <1>2, <1>3, <1>4 DEF PaidRest

\* What PaidInv says of the first invoice, in those words.
LEMMA PaidSays ==
  ASSUME PaidInv
  PROVE  /\ \A a \in Accounts : level[a] = "full" => Invoiced(a)
         /\ \A a \in Accounts : change[a] = "suspended" =>
              invoicesOf(a) # {} /\ \A f \in qInvoices : IsFirst(f) /\ f.account = a => Over(f, today)
         /\ \A c \in sweep : c.level # "full" =>
              \A f \in qInvoices : IsFirst(f) /\ f.account = c.account => Over(f, c.day)
         /\ \A q \in Requests : req[q].at \in Holding /\ req[q].kind = "order" =>
              \A f \in qInvoices :
                IsFirst(f) /\ f.account = req[q].account /\ req[q].day < f.issue => AllCredited(f)
         /\ \A c \in sweep : c.act = "reopen" => Invoiced(c.account) /\ HasOpen(c.account)
<1>1. PaidRest
  BY DEF PaidInv
<1> QED
  BY <1>1 DEF PaidRest, FullPaid, SuspendedOnce, FirstOK, Over, ReopenOK

\* A request that stays as it is goes on meeting its promise while documents rest.
LEMMA CancelRests ==
  ASSUME Rests, NEW p \in Requests, req'[p] = req[p], CancelOK(req[p])
  PROVE  CancelOK(req[p])'
<1>1. UNCHANGED invoices
  BY DEF Rests
<1> QED
  BY <1>1, PaidSame DEF CancelOK

\* One request moves, and nothing else.
LEMMA PaidMoves ==
  ASSUME PaidInv, Rests, UNCHANGED <<level, change, lastChange, sweep, today>>,
         NEW q \in Requests, Others(q),
         req'[q].at \in Holding /\ req'[q].kind = "order" =>
           \A f \in qInvoices :
             IsFirst(f) /\ f.account = req'[q].account /\ req'[q].day < f.issue => AllCredited(f),
         CancelOK(req[q])',
         \A c \in sweep : c.level # "full" /\ req'[q].at # "idle" =>
           /\ c.day <= req'[q].day
           /\ ~(req'[q].account = c.account /\ req'[q].kind = "cancel" /\ req'[q].at \in Holding)
  PROVE  PaidRest'
<1>0. /\ today' \in Nat /\ today <= today' /\ PaidRest
      /\ \A p \in Requests : p # q => req'[p] = req[p]
  BY PaidTypes, LedgerTypes DEF Others
<1>1. \A p \in Requests : CancelOK(req[p])'
  <2>1. ASSUME NEW p \in Requests, p # q PROVE CancelOK(req[p])'
    BY <1>0, <2>1, CancelRests DEF PaidRest
  <2> QED
    BY <2>1
<1>2. \A p \in Requests : req'[p].at \in Holding /\ req'[p].kind = "order" =>
        \A f \in qInvoices :
          IsFirst(f) /\ f.account = req'[p].account /\ req'[p].day < f.issue => AllCredited(f)
  BY <1>0, PaidSays
<1>3. ASSUME NEW c \in sweep' PROVE NoCancel(c)'
  <2>1. c \in sweep /\ NoCancel(c)
    BY <1>0 DEF PaidRest
  <2>2. ASSUME NEW p \in Requests, c.level # "full", req'[p].at # "idle"
        PROVE  /\ c.day <= req'[p].day
               /\ ~(req'[p].account = c.account /\ req'[p].kind = "cancel" /\ req'[p].at \in Holding)
    BY <1>0, <2>1, <2>2 DEF NoCancel
  <2> QED
    BY <2>2 DEF NoCancel
<1>4. /\ \A a \in Accounts : level'[a] = "full" => Invoiced(a)
      /\ \A a \in Accounts : change'[a] = "suspended" =>
           invoicesOf(a) # {} /\ \A f \in qInvoices : IsFirst(f) /\ f.account = a => Over(f, today')
      /\ \A c \in sweep' : c.level # "full" =>
           \A f \in qInvoices : IsFirst(f) /\ f.account = c.account => Over(f, c.day)
      /\ \A c \in sweep' : c.act = "reopen" => Invoiced(c.account) /\ HasOpen(c.account)
  <2>1. level' = level /\ change' = change /\ sweep' = sweep /\ today' = today
    OBVIOUS
  <2> QED
    BY <2>1, PaidSays
<1> QED
  BY <1>0, <1>1, <1>2, <1>3, <1>4, PaidRests

LEMMA PaidStart ==
  ASSUME PaidInv, NEW q \in Requests, NEW a \in Accounts, Starts(q, a)
  PROVE  PaidRest'
<1>0. /\ Rests /\ Others(q) /\ UNCHANGED <<level, change, lastChange, sweep, today>>
      /\ req'[q].at \in {"read", "lock"} /\ req'[q].account = a /\ req'[q].day = today
      /\ today \in Days /\ TypeOK /\ RefInv
  BY PaidTypes DEF Starts, TypeOK
<1>1. req'[q].at \notin Holding
  BY <1>0 DEF Holding, Numbered
<1>2. CancelOK(req[q])'
  <2> SUFFICES ASSUME req'[q].kind = "cancel" PROVE CancelOK(req[q])'
    BY DEF CancelOK
  <2>1. PICK i : i = findActiveInvoice(a, today)
    OBVIOUS
  <2>2. running(a, today) # {} /\ req'[q].target = i.number /\ moneyBack(a, i, today)
    BY <2>1 DEF Starts
  <2>3. i \in invoices /\ i.account = a
    BY <1>0, <2>1, <2>2, ActiveInvoice DEF running, invoicesOf
  <2>4. PICK f \in invoices : /\ IsFirst(f) /\ f.account = a /\ today <= f.issue + MONTH
                              /\ f.number \in chainAtQonto(i.number)
    BY <1>0, <2>2, <2>3, MoneyBackOnFirst
  <2>5. f \in invoices' /\ IsFirst(f)' /\ f.number \in chainAtQonto(i.number)'
    BY <1>0, <2>4, PaidSame DEF Rests
  <2>6. \E g \in invoices' : /\ IsFirst(g)' /\ g.account = req'[q].account
                             /\ req'[q].day <= g.issue + MONTH
                             /\ g.number \in chainAtQonto(i.number)'
    BY <1>0, <2>4, <2>5
  <2> QED
    BY <2>2, <2>6 DEF CancelOK
<1>3. \A c \in sweep : c.day <= today
  BY PaidTypes DEF SweepRest, CandidateOK
<1> QED
  BY <1>0, <1>1, <1>2, <1>3, PaidMoves

LEMMA PaidQuit ==
  ASSUME PaidInv, NEW q \in Requests, Quits(q)
  PROVE  PaidRest'
<1>0. /\ Rests /\ Others(q) /\ req'[q].at = "idle"
      /\ UNCHANGED <<level, change, lastChange, sweep, today>>
  BY DEF Quits, Leaves
<1>1. req'[q].at \notin Holding /\ CancelOK(req[q])'
  BY <1>0 DEF Holding, Numbered, CancelOK
<1> QED
  BY <1>0, <1>1, PaidMoves

\* An order of an earlier day takes its account's row only when nothing of the
\* first invoice's chain runs.
LEMMA OrderFindsCredited ==
  ASSUME PaidInv, NEW q \in Requests, TakesRow(q), req[q].kind = "order",
         NEW f \in qInvoices, f.account = req[q].account, req[q].day < f.issue
  PROVE  AllCredited(f)
<1> SUFFICES ASSUME NEW t \in qInvoices, f.number \in chainAtQonto(t.number) PROVE credited(t.number)
  BY DEF AllCredited
<1>0. /\ RefInv /\ MarkInv /\ DocRefs /\ Recorded(req[q].account) /\ ~refusedUnderLock(req[q])
  BY PaidTypes, FindsSettled DEF TakesRow
<1>1. t.account = req[q].account /\ f.issue <= t.issue /\ t.issue <= t.end
  BY <1>0, ChainOlder DEF DocRefs
<1>2. req[q].day <= t.end
  BY <1>0, <1>1, LedgerTypes DEF TakesRow
<1>3. t \in invoicesOf(req[q].account)
  BY <1>0, <1>1 DEF Recorded, unrecordedInvoices, invoicesOf
<1> QED
  BY <1>0, <1>2, <1>3, LedgerTypes DEF refusedUnderLock, running, TakesRow

\* Where the month is over on an earlier day, a cancel's target is credited already.
LEMMA CancelTooLate ==
  ASSUME PaidInv, NEW q \in Requests, req[q].at # "idle", req[q].kind = "cancel",
         NEW day \in Nat, day <= req[q].day,
         \A f \in qInvoices : IsFirst(f) /\ f.account = req[q].account => Over(f, day)
  PROVE  credited(req[q].target)
<1>0. /\ ReqRefs(req[q]) /\ CancelOK(req[q]) /\ MarkInv /\ invoices \subseteq qInvoices
  BY PaidTypes DEF PaidRest
<1>1. PICK f \in invoices : /\ IsFirst(f) /\ f.account = req[q].account
                            /\ req[q].day <= f.issue + MONTH
                            /\ f.number \in chainAtQonto(req[q].target)
  BY <1>0 DEF CancelOK
<1>2. Over(f, day)
  BY <1>0, <1>1
<1>3. f.issue \in Nat /\ req[q].day \in Nat /\ req[q].target # None
  BY <1>0, <1>1, LedgerTypes, NoneAssumption DEF WellFormed, Numbers
<1>4. AllCredited(f)
  BY <1>1, <1>2, <1>3, TermAssumption DEF Over
<1>5. PICK k \in invoices : k.number = req[q].target
  BY <1>0, <1>3 DEF ReqRefs
<1> QED
  BY <1>0, <1>1, <1>4, <1>5 DEF AllCredited

\* So a cancel that overlaps with a candidate for reopening is refused under the lock.
LEMMA CancelFindsCredited ==
  ASSUME PaidInv, NEW q \in Requests, TakesRow(q), req[q].kind = "cancel",
         NEW c \in sweep, c.level # "full"
  PROVE  req[q].account # c.account
<1> SUFFICES ASSUME req[q].account = c.account PROVE FALSE
  OBVIOUS
<1>0. req[q].at = "lock" /\ ~refusedUnderLock(req[q]) /\ NoCancel(c) /\ c.day \in Nat
  BY PaidTypes DEF TakesRow, PaidRest
<1>1. /\ \A f \in qInvoices : IsFirst(f) /\ f.account = req[q].account => Over(f, c.day)
      /\ c.day <= req[q].day
  BY <1>0, PaidSays DEF NoCancel
<1> QED
  BY <1>0, <1>1, CancelTooLate DEF refusedUnderLock

LEMMA PaidGoOn ==
  ASSUME PaidInv, NEW q \in Requests, GoesOn(q)
  PROVE  PaidRest'
<1>0. /\ Rests /\ Others(q) /\ UNCHANGED <<level, change, lastChange, sweep, today>>
      /\ req'[q].kind = req[q].kind /\ req'[q].account = req[q].account
      /\ req'[q].day = req[q].day /\ req'[q].target = req[q].target
      /\ req[q].at # "idle" /\ PaidRest
  BY PaidTypes
  DEF GoesOn, ReadsOn, TakesRow, TakesNumber, Marks, KeepsOn, Onward, GoesTo
<1>1. TakesRow(q) \/ req'[q].at \notin Holding \/ req[q].at \in Holding
  BY DEF GoesOn, ReadsOn, TakesNumber, Marks, KeepsOn, GoesTo, Holding, Numbered
<1>2. req'[q].at \in Holding /\ req'[q].kind = "order" =>
        \A f \in qInvoices :
          IsFirst(f) /\ f.account = req'[q].account /\ req'[q].day < f.issue => AllCredited(f)
  BY <1>0, <1>1, OrderFindsCredited, PaidSays
<1>3. CancelOK(req[q])'
  <2> SUFFICES ASSUME req'[q].kind = "cancel" PROVE CancelOK(req[q])'
    BY DEF CancelOK
  <2>1. PICK f \in invoices : /\ IsFirst(f) /\ f.account = req[q].account
                              /\ req[q].day <= f.issue + MONTH
                              /\ f.number \in chainAtQonto(req[q].target)
    BY <1>0 DEF PaidRest, CancelOK
  <2>2. PICK n : n = req[q].target
    OBVIOUS
  <2>3. f \in invoices' /\ IsFirst(f)' /\ f.number \in chainAtQonto(n)'
    BY <1>0, <2>1, <2>2, PaidSame DEF Rests
  <2> QED
    BY <1>0, <2>1, <2>2, <2>3 DEF CancelOK
<1>4. ASSUME NEW c \in sweep, c.level # "full"
      PROVE  /\ c.day <= req'[q].day
             /\ ~(req'[q].account = c.account /\ req'[q].kind = "cancel" /\ req'[q].at \in Holding)
  <2>1. NoCancel(c)
    BY <1>0 DEF PaidRest
  <2> QED
    BY <1>0, <1>1, <1>4, <2>1, CancelFindsCredited DEF NoCancel
<1> QED
  BY <1>0, <1>2, <1>3, <1>4, PaidMoves

\* Requests rest, and the schedule, an admin or the clock takes a step.
LEMMA PaidAside ==
  ASSUME PaidInv, Aside, today' \in Nat,
         \A a \in Accounts : level'[a] = "full" => Invoiced(a),
         \A a \in Accounts : change'[a] = "suspended" =>
           invoicesOf(a) # {} /\ \A f \in qInvoices : IsFirst(f) /\ f.account = a => Over(f, today'),
         \A c \in sweep' : c.level # "full" =>
           \A f \in qInvoices : IsFirst(f) /\ f.account = c.account => Over(f, c.day),
         \A c \in sweep' : NoCancel(c) /\ (c.act = "reopen" => Invoiced(c.account) /\ HasOpen(c.account))
  PROVE  PaidRest'
<1>0. Rests /\ UNCHANGED req /\ today <= today' /\ PaidRest
  BY PaidTypes DEF Aside
<1>1. \A p \in Requests : CancelOK(req[p])'
  BY <1>0, CancelRests DEF PaidRest
<1>2. \A q \in Requests : req'[q].at \in Holding /\ req'[q].kind = "order" =>
        \A f \in qInvoices :
          IsFirst(f) /\ f.account = req'[q].account /\ req'[q].day < f.issue => AllCredited(f)
  BY <1>0, PaidSays
<1>3. \A c \in sweep' : NoCancel(c)' /\ (c.act = "reopen" => Invoiced(c.account) /\ HasOpen(c.account))
  BY <1>0 DEF NoCancel
<1> QED
  BY <1>0, <1>1, <1>2, <1>3, PaidRests

\* A candidate that was not full was suspended by the run, and nobody's cancel runs.
LEMMA PaidReads ==
  ASSUME PaidInv, nonPaymentCandidates, NEW c \in sweep'
  PROVE  /\ c.level # "full" =>
              \A f \in qInvoices : IsFirst(f) /\ f.account = c.account => Over(f, c.day)
         /\ NoCancel(c)
         /\ c.act = "read"
<1>0. /\ sweep' = {[account |-> a, level |-> level[a], number |-> latestInvoice(a).number,
                    day |-> today, act |-> "read",
                    unrecorded |-> lastChange[a] = "revoked" /\ change[a] # "revoked"] :
                      a \in {b \in Accounts : needsQonto(b)}}
      /\ SameDay \/ \A a \in Accounts : needsQonto(a) => level[a] = "full"
      /\ today \in Nat
  BY PaidTypes, LedgerTypes DEF nonPaymentCandidates
<1>1. PICK a \in Accounts : needsQonto(a) /\
             c = [account |-> a, level |-> level[a], number |-> latestInvoice(a).number,
                  day |-> today, act |-> "read",
                  unrecorded |-> lastChange[a] = "revoked" /\ change[a] # "revoked"]
  BY <1>0
<1>2. c.account = a /\ c.level = level[a] /\ c.day = today /\ c.act = "read"
  BY <1>1
<1>3. CASE level[a] = "full"
  BY <1>2, <1>3 DEF NoCancel
<1>4. CASE level[a] # "full"
  <2>1. change[a] = "suspended" /\ SameDay
    BY <1>0, <1>1, <1>4 DEF needsQonto
  <2>2. \A f \in qInvoices : IsFirst(f) /\ f.account = a => Over(f, today)
    BY <2>1, PaidSays
  <2>3. ASSUME NEW q \in Requests, req[q].at # "idle"
        PROVE  /\ today <= req[q].day
               /\ ~(req[q].account = a /\ req[q].kind = "cancel" /\ req[q].at \in Holding)
    <3>1. req[q].day = today /\ today <= req[q].day
      BY <1>0, <2>1, <2>3 DEF SameDay
    <3>2. req[q].account = a /\ req[q].kind = "cancel" => credited(req[q].target)
      BY <1>0, <2>2, <2>3, <3>1, CancelTooLate
    <3>3. req[q].at \in Holding /\ req[q].kind = "cancel" => ~credited(req[q].target)
      BY PaidTypes DEF ReqOnce
    <3> QED
      BY <3>1, <3>2, <3>3
  <2> QED
    BY <1>2, <2>2, <2>3 DEF NoCancel
<1> QED
  BY <1>2, <1>3, <1>4

\* A candidate that Qonto says is paid is not credited.
LEMMA PaidIsInvoiced ==
  ASSUME PaidInv, NEW c \in sweep, c.level # "full",
         nonPaymentAction(c, qontoStatus(c.number)) = "reopen"
  PROVE  Invoiced(c.account) /\ HasOpen(c.account)
<1>0. MarkInv /\ DocRefs /\ invoices \subseteq qInvoices
  BY PaidTypes
<1>1. PICK i \in invoices : i.number = c.number /\ i.account = c.account
  BY PaidTypes DEF SweepRest, CandidateOK
<1>2. Uncredited(i.number)
  BY <1>1 DEF nonPaymentAction, qontoStatus, Uncredited
<1> QED
  BY <1>0, <1>1, <1>2 DEF Invoiced, invoicesOf, HasOpen, credited, Uncredited, DocRefs

\* A suspension finds an invoice past its month.
LEMMA SuspendsOverdue ==
  ASSUME PaidInv, NEW c \in sweep, c.level = "full"
  PROVE  /\ invoicesOf(c.account) # {}
         /\ \A f \in qInvoices : IsFirst(f) /\ f.account = c.account => Over(f, today)
<1>0. MarkInv /\ invoices \subseteq qInvoices /\ c.day \in Nat /\ CandidateOK(c) /\ PaidRest
  BY PaidTypes DEF SweepRest
<1>1. PICK i \in invoices : i.account = c.account /\ i.issue + MONTH < c.day
  BY <1>0 DEF CandidateOK
<1>2. ASSUME NEW f \in qInvoices, IsFirst(f), f.account = c.account PROVE Over(f, today)
  <2>1. f.issue \in Nat /\ i.issue \in Nat /\ today \in Nat /\ c.day <= today
    BY <1>0, LedgerTypes DEF CandidateOK
  <2>2. CASE i.issue < f.issue
    BY <1>0, <1>1, <1>2, <2>2 DEF PaidRest, FirstOK, Over
  <2>3. CASE f.issue <= i.issue
    BY <1>0, <1>1, <2>1, <2>3, TermAssumption DEF Over
  <2> QED
    BY <2>1, <2>2, <2>3
<1> QED
  BY <1>1, <1>2 DEF invoicesOf

LEMMA PaidSchedule ==
  ASSUME PaidInv, Aside, Scheduled, today' \in Nat
  PROVE  PaidRest'
<1>0. /\ today \in Nat /\ today <= today' /\ PaidRest /\ TypeOK /\ SweepRest
      /\ \A f \in qInvoices : f.issue \in Nat
      /\ \A c \in sweep : NoCancel(c) /\ c.account \in Accounts /\ c \in Candidate
  BY PaidTypes, LedgerTypes DEF Aside, PaidRest
<1>1. ASSUME NEW f \in qInvoices, Over(f, today) PROVE Over(f, today')
  BY <1>0, <1>1, TermAssumption DEF Over
<1>2. \A c \in sweep : /\ NoCancel(c) /\ (c.act = "reopen" => Invoiced(c.account) /\ HasOpen(c.account))
                       /\ c.level # "full" =>
                            \A f \in qInvoices : IsFirst(f) /\ f.account = c.account => Over(f, c.day)
  BY <1>0, PaidSays
<1>3. CASE Passes \/ AbortSweep \/ Midnight
  <2>1. UNCHANGED <<level, change>> /\ sweep' \subseteq sweep
    BY <1>3 DEF Passes, AbortSweep, Midnight, accountVars
  <2> QED
    BY <1>1, <1>2, <2>1, PaidSays, PaidAside
<1>4. ASSUME NEW a \in Accounts, Revokes(a) \/ Logs(a) PROVE PaidRest'
  <2>1. \A b \in Accounts : /\ level'[b] = "full" => level[b] = "full"
                            /\ change'[b] = "suspended" => change[b] = "suspended"
    BY <1>4 DEF Revokes, Logs
  <2>2. sweep' = sweep
    BY <1>4 DEF Revokes, Logs
  <2> QED
    BY <1>1, <1>2, <2>1, <2>2, PaidSays, PaidAside
<1>5. CASE nonPaymentCandidates
  <2>1. UNCHANGED <<level, change>>
    BY <1>5 DEF nonPaymentCandidates, accountVars
  <2> QED
    BY <1>1, <1>5, <2>1, PaidReads, PaidSays, PaidAside
<1>6. ASSUME NEW c \in sweep, readLiveInvoice(c) \/ UnreadableInvoice(c) PROVE PaidRest'
  <2>1. UNCHANGED <<level, change>>
    BY <1>6 DEF readLiveInvoice, UnreadableInvoice, accountVars
  <2>2. PICK act : act = nonPaymentAction(c, qontoStatus(c.number))
    OBVIOUS
  <2>3. PICK e : e = [c EXCEPT !.act = act]
    OBVIOUS
  <2>4. e.account = c.account /\ e.level = c.level /\ e.day = c.day /\ e.act = act
    BY <1>0, <2>3, Answered
  <2>5. \A d \in sweep' : d \in sweep \/ d = e
    BY <1>6, <2>2, <2>3 DEF readLiveInvoice, UnreadableInvoice
  <2>6. act = "reopen" => c.level # "full"
    BY <2>2 DEF nonPaymentAction
  <2>7. act = "reopen" => Invoiced(c.account) /\ HasOpen(c.account)
    BY <2>2, <2>6, PaidIsInvoiced
  <2>8. NoCancel(e) /\ (e.level # "full" =>
          \A f \in qInvoices : IsFirst(f) /\ f.account = e.account => Over(f, e.day))
    BY <1>2, <2>4 DEF NoCancel
  <2> QED
    BY <1>1, <1>2, <2>1, <2>4, <2>5, <2>7, <2>8, PaidSays, PaidAside
<1>7. ASSUME NEW c \in sweep, applyAndRecord(c) PROVE PaidRest'
  <2>1. /\ sweep' = sweep \ {c} /\ c.account \in Accounts /\ CandidateOK(c)
        /\ c.act \in {"suspend", "reopen"} /\ today' = today
        /\ \/ UNCHANGED <<level, change>>
           \/ /\ level' = [level EXCEPT ![c.account] = IF c.act = "suspend" THEN "unlicensed" ELSE "full"]
              /\ change' = [change EXCEPT ![c.account] = IF c.act = "suspend" THEN "suspended"
                                                         ELSE "reopened"]
    BY <1>0, <1>7 DEF applyAndRecord, SweepRest
  <2>2. \A b \in Accounts : level'[b] = "full" => Invoiced(b)
    BY <1>0, <1>2, <2>1, PaidSays DEF TypeOK
  <2>3. c.act = "suspend" => c.level = "full"
    BY <2>1 DEF CandidateOK
  <2>4. ASSUME NEW b \in Accounts, change'[b] = "suspended"
        PROVE  invoicesOf(b) # {} /\ \A f \in qInvoices : IsFirst(f) /\ f.account = b => Over(f, today')
    <3>1. change[b] = "suspended" \/ (b = c.account /\ c.act = "suspend")
      BY <1>0, <2>1, <2>4 DEF TypeOK
    <3> QED
      BY <2>1, <2>3, <3>1, PaidSays, SuspendsOverdue
  <2> QED
    BY <1>2, <2>1, <2>2, <2>4, PaidAside
<1> QED
  BY <1>3, <1>4, <1>5, <1>6, <1>7 DEF Scheduled, Run

\* A request ends, or goes on as what it was.
Follows(p) ==
    \/ req'[p].at = "idle"
    \/ /\ req[p].at # "idle" /\ (req'[p].at \in Holding => req[p].at \in Holding)
       /\ req'[p].kind = req[p].kind /\ req'[p].account = req[p].account
       /\ req'[p].day = req[p].day /\ req'[p].target = req[p].target

LEMMA PaidFollows ==
  ASSUME PaidInv, UNCHANGED <<change, lastChange, sweep, today>>, qInvoices \subseteq qInvoices',
         invoices \subseteq invoices', \A p \in Requests : Follows(p),
         \A f \in invoices : IsFirst(f) => IsFirst(f)'
  PROVE  /\ SuspendedOnce'
         /\ \A p \in Requests : CancelOK(req[p])'
         /\ \A c \in sweep' : NoCancel(c)'
<1>0. PaidRest
  BY PaidTypes
<1>1. SuspendedOnce'
  <2>1. \A a : invoicesOf(a) \subseteq invoicesOf(a)'
    BY DEF invoicesOf
  <2> QED
    BY <1>0, <2>1 DEF PaidRest, SuspendedOnce
<1>2. ASSUME NEW p \in Requests PROVE CancelOK(req[p])'
  <2> SUFFICES ASSUME req'[p].at # "idle", req'[p].kind = "cancel" PROVE CancelOK(req[p])'
    BY DEF CancelOK
  <2>0. /\ CancelOK(req[p]) /\ req[p].at # "idle" /\ req'[p].kind = req[p].kind
        /\ req'[p].account = req[p].account /\ req'[p].day = req[p].day
        /\ req'[p].target = req[p].target
    BY <1>0 DEF Follows, PaidRest
  <2>1. PICK f \in invoices : /\ IsFirst(f) /\ f.account = req[p].account
                              /\ req[p].day <= f.issue + MONTH
                              /\ f.number \in chainAtQonto(req[p].target)
    BY <2>0 DEF CancelOK
  <2>2. PICK n : n = req[p].target
    OBVIOUS
  <2>3. f \in invoices' /\ IsFirst(f)' /\ f.number \in chainAtQonto(n)'
    BY <2>1, <2>2, ChainGrows
  <2> QED
    BY <2>0, <2>1, <2>2, <2>3 DEF CancelOK
<1>3. ASSUME NEW c \in sweep' PROVE NoCancel(c)'
  <2>1. NoCancel(c)
    BY <1>0 DEF PaidRest
  <2> QED
    BY <2>1 DEF NoCancel, Follows
<1> QED
  BY <1>1, <1>2, <1>3

LEMMA FirstFollows ==
  ASSUME PaidInv, UNCHANGED <<change, lastChange, sweep, today>>, \A p \in Requests : Follows(p),
         NEW f \in qInvoices, IsFirst(f)' => IsFirst(f), AllCredited(f) => AllCredited(f)',
         IsFirst(f) /\ (\E i \in qInvoices' : i.account = f.account /\ i.issue < f.issue)
           => AllCredited(f)
  PROVE  FirstOK(f)'
<1> SUFFICES ASSUME IsFirst(f)' PROVE FirstOK(f)'
  BY DEF FirstOK
<1>1. IsFirst(f) /\ FirstOK(f)
  BY PaidTypes DEF PaidRest
<1>2. ASSUME NEW q \in Requests, req'[q].at \in Holding, req'[q].kind = "order",
             req'[q].account = f.account, req'[q].day < f.issue
      PROVE  AllCredited(f)
  <2>1. /\ req[q].at \in Holding /\ req[q].kind = "order" /\ req[q].account = f.account
        /\ req[q].day < f.issue
    BY <1>2 DEF Follows, Holding, Numbered
  <2> QED
    BY <1>1, <2>1 DEF FirstOK
<1> QED
  BY <1>1, <1>2 DEF FirstOK

\* Where no invoice is issued, what is credited of a chain stays so.
LEMMA FirstStays ==
  ASSUME PaidInv, UNCHANGED <<qInvoices, change, lastChange, sweep, today>>,
         \A p \in Requests : Follows(p),
         credits \subseteq credits', NEW f \in qInvoices
  PROVE  FirstOK(f)'
<1>1. \A S : Closed(S)' <=> Closed(S)
  BY DEF Closed
<1>2. \A n : chainAtQonto(n)' = chainAtQonto(n)
  BY <1>1 DEF chainAtQonto
<1>3. \A n : credited(n) => credited(n)'
  BY DEF credited
<1>4. AllCredited(f) => AllCredited(f)'
  BY <1>2, <1>3 DEF AllCredited
<1>5. IsFirst(f)' => IsFirst(f)
  BY DEF IsFirst
<1>6. IsFirst(f) /\ (\E i \in qInvoices' : i.account = f.account /\ i.issue < f.issue)
      => AllCredited(f)
  BY PaidTypes DEF PaidRest, FirstOK
<1> QED
  BY <1>4, <1>5, <1>6, FirstFollows

LEMMA PaidRecord ==
  ASSUME PaidInv, MarkInv', DocRefs', NEW q \in Requests, Records(q)
  PROVE  PaidRest'
<1>0. /\ req[q].at \in Holding /\ Leaves(q)
      /\ UNCHANGED <<qInvoices, qCredits, change, lastChange, sweep, today>>
      /\ invoices \subseteq invoices' /\ credits \subseteq credits' /\ PaidRest
      /\ \A d \in credits' \ credits : d.account = req[q].account
      /\ \A b \in Accounts : b # req[q].account => level'[b] = level[b]
      /\ req[q].kind = "cancel" => level'[req[q].account] = "unlicensed"
      /\ req[q].kind = "cancel" \/ \E i : NewRow(q, i)
  BY PaidTypes DEF Records, Finishes, NewRow, NewCreditRow
<1>1. \A p \in Requests : Follows(p)
  BY <1>0 DEF Leaves, Others, Follows
<1>2. \A f \in invoices : IsFirst(f) => IsFirst(f)'
  BY <1>0 DEF IsFirst
<1>3. ASSUME NEW b, b # req[q].account, Invoiced(b) PROVE Invoiced(b)'
  BY <1>0, <1>3, InvoicedStays
<1>4. req[q].kind # "cancel" => \A b : b = req[q].account => Invoiced(b)'
  BY <1>0, RecordsInvoiced
<1>5. FullPaid'
  <2>1. ASSUME NEW b \in Accounts, level'[b] = "full" PROVE Invoiced(b)'
    BY <1>0, <1>3, <1>4, <2>1 DEF PaidRest, FullPaid
  <2> QED
    BY <2>1 DEF FullPaid
<1>6. ASSUME NEW c \in sweep' PROVE ReopenOK(c)'
  <2>1. c \in sweep /\ NoCancel(c) /\ ReopenOK(c) /\ (c.act = "reopen" => c.level # "full")
    BY <1>0, PaidTypes DEF PaidRest, SweepRest, CandidateOK
  <2>2. c.act = "reopen" /\ c.account = req[q].account => req[q].kind # "cancel"
    BY <1>0, <2>1 DEF NoCancel, Holding, Numbered
  <2>3. c.act = "reopen" => Invoiced(c.account)'
    BY <1>3, <1>4, <2>1, <2>2 DEF ReopenOK
  <2>4. HasOpen(c.account) => HasOpen(c.account)'
    BY <1>0 DEF HasOpen, Uncredited
  <2> QED
    BY <2>1, <2>3, <2>4 DEF ReopenOK
<1>7. ReissueOpen'
  BY <1>0 DEF PaidRest, ReissueOpen, Uncredited
<1>8. \A f \in qInvoices' : FirstOK(f)'
  BY <1>0, <1>1, FirstStays
<1> QED
  BY <1>0, <1>1, <1>2, <1>5, <1>6, <1>7, <1>8, PaidFollows DEF PaidRest

LEMMA PaidCheck ==
  ASSUME PaidInv, MarkInv', DocRefs', NEW a \in Accounts, Checked(a)
  PROVE  PaidRest'
<1>0. /\ UNCHANGED <<req, qInvoices, change, lastChange, sweep, today>>
      /\ invoices \subseteq invoices'
      /\ credits \subseteq credits' /\ qCredits \subseteq qCredits' /\ PaidRest
      /\ qCredits' = qCredits \cup uncreditedReissues(a)
      /\ \A d \in credits' \ credits : d.account = a
      /\ \A b \in Accounts : b # a => level'[b] = level[b]
      /\ invoices \subseteq qInvoices
  BY PaidTypes DEF Checked
<1>1. \A p \in Requests : Follows(p)
  BY <1>0 DEF Follows
<1>2. \A f \in invoices : IsFirst(f) => IsFirst(f)'
  BY <1>0 DEF IsFirst
<1>3. ASSUME NEW c \in uncreditedReissues(a)
      PROVE  c.account = a /\ \E l \in qInvoices : l.replaces = c.of
  BY DEF uncreditedReissues
<1>4. ASSUME NEW b, b # a PROVE /\ Invoiced(b) => Invoiced(b)'
                                /\ HasOpen(b) => HasOpen(b)'
  BY <1>0, <1>3, <1>4, InvoicedStays, OpenStays
<1>5. FullPaid'
  <2>1. level'[a] = "full" => Invoiced(a)'
    BY <1>0, ChecksOpen DEF Checked, PaidRest, FullPaid
  <2>2. ASSUME NEW b \in Accounts, level'[b] = "full" PROVE Invoiced(b)'
    BY <1>0, <1>4, <2>1, <2>2 DEF PaidRest, FullPaid
  <2> QED
    BY <2>2 DEF FullPaid
<1>6. ASSUME NEW c \in sweep' PROVE ReopenOK(c)'
  <2>1. ReopenOK(c)
    BY <1>0 DEF PaidRest
  <2> QED
    BY <1>4, <2>1, ChecksOpen DEF ReopenOK
<1>7. ReissueOpen'
  <2>1. ASSUME NEW j \in qInvoices, NEW k \in qInvoices, j.replaces = k.number, Uncredited(k.number)'
        PROVE  Uncredited(j.number)' /\ \A l \in qInvoices : l.replaces # j.number
    <3>1. Uncredited(j.number) /\ \A l \in qInvoices : l.replaces # j.number
      BY <1>0, <2>1 DEF PaidRest, ReissueOpen, Uncredited
    <3> QED
      BY <1>0, <1>3, <3>1 DEF Uncredited
  <2> QED
    BY <1>0, <2>1 DEF ReissueOpen
<1>8. \A f \in qInvoices' : FirstOK(f)'
  BY <1>0, <1>1, FirstStays
<1> QED
  BY <1>0, <1>1, <1>2, <1>5, <1>6, <1>7, <1>8, PaidFollows DEF PaidRest

\* A cancel's or a reissue's credit note credits no reissue that is still to follow.
LEMMA PaidAskCredit ==
  ASSUME PaidInv, MarkInv', DocRefs', NEW q \in Requests, NEW c, AsksCredit(q, c)
  PROVE  PaidRest'
<1>0. /\ UNCHANGED <<qInvoices, invoices, credits, level, change, lastChange, sweep, today>>
      /\ qCredits' = qCredits \cup {c} /\ c.account = req[q].account /\ c.of = req[q].target
      /\ req[q].at \in Numbered /\ req[q].at \in Holding /\ req[q].at # "idle"
      /\ \/ req[q].kind = "cancel" /\ invoicesOut(req[q]) = {}
         \/ req[q].kind = "reissue" /\ Issued(req[q]) /\ invoicesOut(req[q]) = {req[q].number}
      /\ PaidRest /\ MarkInv /\ ReqRefs(req[q]) /\ ReqOnce(req[q]) /\ Others(q)
      /\ req'[q].kind = req[q].kind /\ req'[q].account = req[q].account
      /\ req'[q].day = req[q].day /\ req'[q].target = req[q].target
  BY PaidTypes DEF AsksCredit, GoesTo, Numbered, Holding, invoicesOut, Issued
<1>1. \A p \in Requests : Follows(p)
  BY <1>0 DEF Others, Follows
<1>2. \A f \in invoices : IsFirst(f) => IsFirst(f)'
  BY <1>0 DEF IsFirst
<1>3. PICK k \in invoices : k.number = req[q].target /\ k.account = req[q].account
  <2>1. req[q].target # None
    BY <1>0, LedgerTypes, NoneAssumption DEF WellFormed, Numbers
  <2> QED
    BY <1>0, <2>1 DEF ReqRefs
<1>4. k \in qInvoices /\ k.number < req[q].number /\ k.number \in Nat /\ req[q].number \in Nat
  BY <1>0, <1>3, LedgerTypes DEF ReqRefs
<1>5. FullPaid'
  BY <1>0 DEF PaidRest, FullPaid, Invoiced, invoicesOf, credited
<1>6. ReissueOpen'
  <2>1. ASSUME NEW j \in qInvoices, NEW l \in qInvoices, j.replaces = l.number, Uncredited(l.number)'
        PROVE  Uncredited(j.number)' /\ \A m \in qInvoices : m.replaces # j.number
    <3>1. Uncredited(l.number) /\ Uncredited(j.number) /\ \A m \in qInvoices : m.replaces # j.number
      BY <1>0, <2>1 DEF PaidRest, ReissueOpen, Uncredited
    <3>2. c.of # j.number
      <4> SUFFICES ASSUME c.of = j.number PROVE FALSE
        OBVIOUS
      <4>1. j = k /\ j.account = req[q].account /\ j.replaces # None
        BY <1>0, <1>3, <1>4, <2>1, LedgerTypes
      <4>2. j.number \in invoicesOut(req[q])
        BY <1>0, <2>1, <3>1, <4>1 DEF ReqOnce
      <4>3. j.number = req[q].number
        BY <1>0, <4>2
      <4> QED
        BY <1>4, <4>1, <4>3
    <3> QED
      BY <1>0, <3>1, <3>2 DEF Uncredited
  <2> QED
    BY <1>0, <2>1 DEF ReissueOpen
<1>7. ASSUME NEW d \in sweep' PROVE ReopenOK(d)'
  <2> SUFFICES ASSUME d.act = "reopen" PROVE Invoiced(d.account)' /\ HasOpen(d.account)'
    BY DEF ReopenOK
  <2>1. /\ d \in sweep /\ NoCancel(d) /\ d.level # "full" /\ Invoiced(d.account) /\ HasOpen(d.account)
    BY <1>0, PaidTypes DEF PaidRest, SweepRest, CandidateOK, ReopenOK
  <2>2. Invoiced(d.account)'
    BY <1>0, <2>1 DEF Invoiced, invoicesOf, credited
  <2>3. CASE d.account # req[q].account
    <3>1. HasOpen(d.account)'
      BY <1>0, <2>1, <2>3, OpenStays
    <3> QED
      BY <2>2, <3>1
  <2>4. CASE d.account = req[q].account
    <3>1. req[q].kind = "reissue" /\ Issued(req[q])
      BY <1>0, <2>1, <2>4 DEF NoCancel
    <3>2. PICK i \in qInvoices : i.number = req[q].number /\ i.account = req[q].account
      BY <1>0, <3>1 DEF ReqRefs
    <3>3. Uncredited(i.number) /\ i.number # c.of
      BY <1>0, <1>3, <1>4, <3>2, OwnUncredited
    <3>4. HasOpen(d.account)'
      BY <1>0, <2>4, <3>2, <3>3 DEF HasOpen, Uncredited
    <3> QED
      BY <2>2, <3>4
  <2> QED
    BY <2>3, <2>4
<1>8. \A f \in qInvoices' : FirstOK(f)'
  BY <1>0, <1>1, FirstStays
<1> QED
  BY <1>0, <1>1, <1>2, <1>5, <1>6, <1>7, <1>8, PaidFollows DEF PaidRest

\* A new invoice opens no way around the first one's chain.
LEMMA PaidAskInvoice ==
  ASSUME PaidInv, MarkInv', DocRefs', NEW q \in Requests, NEW new, AsksInvoice(q, new)
  PROVE  PaidRest'
<1>0. /\ PaidRest /\ RefInv /\ MarkInv /\ DocRefs /\ SweepRest /\ invoices \subseteq qInvoices
      /\ ReqRefs(req[q]) /\ ReqOnce(req[q])
      /\ req[q].at = "ask" /\ req[q].at \in Holding /\ req[q].at # "idle"
      /\ req[q].kind \in {"order", "reissue"} /\ invoicesOut(req[q]) = {}
  BY PaidTypes DEF AsksInvoice, Holding, Numbered, invoicesOut, Issued
<1>1. /\ qInvoices' = qInvoices \cup {new} /\ UNCHANGED <<qCredits, invoices, credits>> /\ Others(q)
      /\ new.number = req[q].number /\ new.account = req[q].account
      /\ new.replaces = req[q].target /\ new.issue = req[q].day
      /\ req'[q].at = "answer" /\ req'[q].kind = req[q].kind /\ req'[q].account = req[q].account
      /\ req'[q].day = req[q].day /\ req'[q].target = req[q].target
      /\ UNCHANGED <<level, change, lastChange, sweep, today>>
  BY DEF AsksInvoice, GoesTo
<1>2. \A i \in qInvoices : i.account = new.account => i \in invoices /\ i.number < new.number
  BY <1>0, <1>1, AsksNewest
<1>3. /\ \A i \in qInvoices : i.number \in Numbers /\ i.number \in Nat /\ i.issue \in Nat
      /\ new.issue \in Nat /\ Numbers \subseteq Nat /\ None \notin Numbers
      /\ WellFormed(req[q]) /\ new.number \in Numbers /\ new.number \in Nat
      /\ new.replaces \in Numbers \cup {None}
  <2>1. \A i \in qInvoices : i.number \in Numbers /\ i.number \in Nat /\ i.issue \in Nat
    BY <1>0, LedgerTypes
  <2>2. new.issue \in Nat /\ WellFormed(req[q]) /\ new.replaces \in Numbers \cup {None}
    BY <1>0, <1>1, LedgerTypes DEF Request
  <2>3. new.number \in Numbers
    BY <1>0, <1>1, <2>2 DEF WellFormed, Numbered
  <2> QED
    BY <2>1, <2>2, <2>3, NoneAssumption DEF Numbers
<1>4. \A i \in qInvoices : i.number # new.number /\ i.replaces # new.number
  <2>1. \A i, j \in qInvoices' : i.number = j.number => i = j
    <3>1. \A j \in qInvoices' : j.number \in heldBy(j)
      BY DEF heldBy
    <3> QED
      BY <3>1 DEF MarkInv, NumberInv, NumbersApart
  <2>2. \A i \in qInvoices : i.number # new.number
    BY <1>1, <1>2, <1>3, <2>1
  <2> QED
    BY <1>0, <1>3, <2>2 DEF DocRefs
<1>5. req[q].kind = "reissue" =>
        \E k \in invoices : /\ k.number = new.replaces /\ k.account = new.account
                            /\ k.issue <= new.issue /\ ~credited(k.number)
                            /\ Uncredited(k.number) /\ \A i \in qInvoices : i.replaces # k.number
  <2>1. SUFFICES ASSUME req[q].kind = "reissue"
                 PROVE  \E k \in invoices : /\ k.number = new.replaces /\ k.account = new.account
                                            /\ k.issue <= new.issue /\ ~credited(k.number)
                                            /\ Uncredited(k.number)
                                            /\ \A i \in qInvoices : i.replaces # k.number
    OBVIOUS
  <2>2. PICK k \in invoices : k.number = req[q].target /\ k.account = req[q].account
                              /\ k.issue <= req[q].day
    BY <1>0, <1>3, <2>1 DEF ReqRefs, WellFormed
  <2> QED
    BY <1>0, <1>1, <2>1, <2>2 DEF ReqOnce
<1>6. \A p \in Requests : Follows(p)
  BY <1>0, <1>1 DEF Others, Follows, Holding, Numbered
<1>7. \A f \in qInvoices : IsFirst(f) <=> IsFirst(f)'
  <2>1. ASSUME NEW f \in qInvoices, IsFirst(f) PROVE IsFirst(f)'
    BY <1>1, <1>2, <1>3, <2>1 DEF IsFirst
  <2>2. ASSUME NEW f \in qInvoices, IsFirst(f)' PROVE IsFirst(f)
    BY <1>1, <2>2 DEF IsFirst
  <2> QED
    BY <2>1, <2>2
<1>8. ASSUME NEW f \in qInvoices, AllCredited(f) PROVE AllCredited(f)'
  <2>1. ASSUME NEW t \in qInvoices, f.number \in chainAtQonto(t.number)' PROVE credited(t.number)
    BY <1>1, <1>3, <1>4, <1>8, <2>1, ChainStays DEF AllCredited
  <2>2. ASSUME f.number \in chainAtQonto(new.number)' PROVE FALSE
    <3>1. new.replaces # None /\ f.number \in chainAtQonto(new.replaces)
      BY <1>1, <1>3, <1>4, <2>2, ChainOfNew
    <3>2. req[q].kind = "reissue"
      BY <1>0, <1>1, <1>3, <3>1 DEF WellFormed
    <3> QED
      BY <1>0, <1>5, <1>8, <3>1, <3>2 DEF AllCredited
  <2>3. \A n : credited(n)' <=> credited(n)
    BY <1>1 DEF credited
  <2> QED
    BY <1>1, <2>1, <2>2, <2>3 DEF AllCredited
<1>9. ASSUME NEW f \in qInvoices PROVE FirstOK(f)'
  <2>1. ASSUME IsFirst(f), NEW i \in qInvoices', i.account = f.account, i.issue < f.issue
        PROVE  AllCredited(f)
    <3>1. CASE i \in qInvoices
      BY <1>0, <2>1, <3>1 DEF PaidRest, FirstOK
    <3>2. CASE i = new /\ req[q].kind = "order"
      BY <1>0, <1>1, <2>1, <3>2, PaidSays
    <3>3. CASE i = new /\ req[q].kind = "reissue"
      <4>1. PICK k \in invoices : k.account = new.account /\ k.issue <= new.issue
        BY <1>5, <3>3
      <4>2. k \in qInvoices /\ k.account = f.account /\ k.issue < f.issue
        BY <1>0, <1>3, <2>1, <3>3, <4>1
      <4> QED
        BY <1>0, <2>1, <4>2 DEF PaidRest, FirstOK
    <3> QED
      BY <1>0, <1>1, <3>1, <3>2, <3>3
  <2> QED
    BY <1>1, <1>6, <1>7, <1>8, <2>1, FirstFollows
<1>10. FirstOK(new)'
  <2> SUFFICES ASSUME IsFirst(new)' PROVE FirstOK(new)'
    BY DEF FirstOK
  <2>1. \A i \in qInvoices : i.account # new.account
    BY <1>1, <1>2, <1>3 DEF IsFirst
  <2>2. \A i \in qInvoices' : i.account = new.account => ~(i.issue < new.issue)
    BY <1>1, <1>3, <2>1
  <2>3. change'[new.account] # "suspended"
    <3>1. new.account \in Accounts
      BY <1>0, <1>1, LedgerTypes
    <3> QED
      BY <1>0, <1>1, <2>1, <3>1 DEF PaidRest, SuspendedOnce, invoicesOf
  <2>4. \A c \in sweep' : c.account # new.account
    BY <1>0, <1>1, <2>1 DEF SweepRest, CandidateOK
  <2>5. ASSUME NEW p \in Requests, req'[p].at \in Holding, req'[p].account = new.account
        PROVE  ~(req'[p].day < new.issue)
    <3>1. p = q
      <4> SUFFICES ASSUME p # q PROVE FALSE
        OBVIOUS
      <4>1. req[p].at \in Holding /\ req[p].account = req[q].account
        BY <1>1, <2>5 DEF Others
      <4> QED
        BY <1>0, <4>1, Apart
    <3> QED
      BY <1>1, <1>3, <3>1
  <2> QED
    BY <2>2, <2>3, <2>4, <2>5 DEF FirstOK
<1>11. ReissueOpen'
  <2>1. \A n : Uncredited(n)' <=> Uncredited(n)
    BY <1>1 DEF Uncredited
  <2>2. Uncredited(new.number)
    <3> SUFFICES ASSUME NEW c \in qCredits, c.of = new.number PROVE FALSE
      BY DEF Uncredited
    <3> QED
      BY <1>0, <1>4 DEF DocRefs
  <2>3. ASSUME NEW j \in qInvoices', NEW k \in qInvoices', j.replaces = k.number, Uncredited(k.number)
        PROVE  Uncredited(j.number) /\ \A l \in qInvoices' : l.replaces # j.number
    <3>0. new.replaces # new.number
      BY <1>0, <1>1, <1>3, <1>4, <1>5 DEF WellFormed
    <3>1. k.number # None /\ k \in qInvoices
      BY <1>1, <1>3, <1>4, <2>3, <3>0
    <3>2. CASE j \in qInvoices
      <4>1. Uncredited(j.number) /\ \A l \in qInvoices : l.replaces # j.number
        BY <1>0, <2>3, <3>1, <3>2 DEF PaidRest, ReissueOpen
      <4>2. new.replaces # j.number
        <5> SUFFICES ASSUME new.replaces = j.number PROVE FALSE
          OBVIOUS
        <5>1. j.account = new.account
          <6>1. req[q].kind = "reissue"
            BY <1>0, <1>1, <1>3, <3>2 DEF WellFormed
          <6> QED
            BY <1>0, <1>5, <3>2, <6>1, LedgerTypes
        <5> QED
          BY <1>0, <1>1, <2>3, <3>1, <3>2, <5>1 DEF ReqOnce
      <4> QED
        BY <1>1, <4>1, <4>2
    <3>3. CASE j = new
      BY <1>1, <1>4, <2>2, <3>0, <3>3
    <3> QED
      BY <1>1, <3>2, <3>3
  <2> QED
    BY <2>1, <2>3 DEF ReissueOpen
<1>12. FullPaid' /\ \A c \in sweep' : ReopenOK(c)'
  <2>1. \A a : Invoiced(a) => Invoiced(a)'
    BY <1>1 DEF Invoiced, invoicesOf, credited
  <2>2. \A a : HasOpen(a) => HasOpen(a)'
    BY <1>1 DEF HasOpen, Uncredited
  <2>3. \A a \in Accounts : level'[a] = "full" => Invoiced(a)'
    BY <1>0, <1>1, <2>1 DEF PaidRest, FullPaid
  <2> QED
    BY <1>0, <1>1, <2>1, <2>2, <2>3 DEF PaidRest, FullPaid, ReopenOK
<1>13. \A f \in qInvoices' : FirstOK(f)'
  BY <1>1, <1>9, <1>10
<1>14. \A f \in invoices : IsFirst(f) => IsFirst(f)'
  BY <1>0, <1>7
<1> QED
  BY <1>1, <1>6, <1>11, <1>12, <1>13, <1>14, PaidFollows DEF PaidRest

LEMMA PaidAtStart == Init => PaidInv
<1> SUFFICES ASSUME Init PROVE PaidInv
  OBVIOUS
<1>1. \A a \in Accounts : level[a] # "full" /\ change[a] # "suspended"
  BY DEF Init
<1>2. PaidRest
  BY <1>1, NobodyAsks
  DEF PaidRest, FullPaid, SuspendedOnce, ReissueOpen, CancelOK
<1> QED
  BY <1>2, OnceAtStart, SweepAtStart DEF PaidInv, SweepInv

LEMMA PaidStep ==
  ASSUME ~ChecksMidOrder, PaidInv, [Next]_vars
  PROVE  PaidInv'
<1>0. OnceInv /\ SweepInv /\ MarkInv
  BY PaidTypes
<1>1. OnceInv' /\ SweepRest'
  BY <1>0, OnceStep, SweepStep DEF SweepInv
<1>2. MarkInv' /\ DocRefs' /\ today' \in Nat
  BY <1>1, BoundAssumption
  DEF OnceInv, RefInv, RefRest, MarkInv, NumberInv, TypeInv, TypeOK, Days
<1>3. PaidRest'
  BY <1>0, <1>2, EveryStep, PaidSchedule, PaidStart, PaidQuit, PaidGoOn, PaidRecord,
     PaidAskInvoice, PaidAskCredit, PaidCheck
<1> QED
  BY <1>1, <1>3 DEF PaidInv

\* Access is paid for, for any accounts, requests and bounds: whatever cancels, checks
\* by hand and runs of the schedule overlap, a full account has an invoice that is not
\* credited (cancel.ts, non-payment-schedule.ts).
THEOREM FullIsInvoiced == ~ChecksMidOrder => (Spec => []FullMeansInvoiced)
<1> SUFFICES ASSUME ~ChecksMidOrder PROVE Spec => []FullMeansInvoiced
  OBVIOUS
<1>1. PaidInv /\ [Next]_vars => PaidInv'
  BY PaidStep
<1>2. PaidInv => FullMeansInvoiced
  BY DEF PaidInv, PaidRest, FullPaid, Invoiced, FullMeansInvoiced
<1> QED
  BY <1>1, <1>2, PaidAtStart, PTL DEF Spec
=============================================================================
