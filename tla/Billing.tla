------------------------------ MODULE Billing ------------------------------
(***************************************************************************)
(* Orders, cancels and reissues of a billing account (lib/billing), the    *)
(* invoices and credit notes they have Qonto issue, and the hourly run     *)
(* that suspends an account for an unpaid invoice and reopens it.          *)
(*                                                                         *)
(* Two stores are kept in step without a transaction over both: Qonto's    *)
(* documents and the tables' rows that refer to them.  A request holds its *)
(* account's row lock from its checks to its commit; the number it takes   *)
(* and the mark it leaves (order_check) are committed on their own before  *)
(* Qonto is asked.  Any request can break off at any step: the transaction *)
(* is rolled back, and what was committed or issued stays.                 *)
(*                                                                         *)
(* A day stands for thirty: MONTH is at once the term of payment and the   *)
(* money back.  A request may straddle one midnight, not two.  Left out:   *)
(* who may order or cancel, prices and VAT, which Qonto client an order    *)
(* uses, mail and PDFs, refunds.  An order or cancel refused before it     *)
(* takes the lock changes nothing and is no action.  The two number series *)
(* are one sequence, since their prefixes keep them apart.  One hourly run *)
(* goes on at a time: a run that goes on although it has lost its advisory *)
(* lock, as the daily run of Deadlines may, is left out here.              *)
(***************************************************************************)
EXTENDS Naturals, FiniteSets

CONSTANTS Accounts,       \* billing_account ids
          Requests,       \* requests the servers can have in flight
          None,           \* no number, no mark, no request
          MONTH,          \* MONEY_BACK_DAYS and PAYMENT_TERM_DAYS
          YEAR,           \* the last day of the paid year, from its first
          LastDay,        \* bound: days
          LastNumber,     \* bound: document numbers
          ChecksMidOrder  \* whether a platform admin checks Qonto while an order still runs

ASSUME NoneAssumption == None \notin Nat /\ None \notin Requests
ASSUME TermAssumption == MONTH \in Nat /\ YEAR \in Nat
ASSUME BoundAssumption == LastDay \in Nat /\ LastNumber \in Nat
ASSUME ChecksAssumption == ChecksMidOrder \in BOOLEAN

VARIABLES today,      \* the Berlin calendar day
          counter,    \* document_number_counter: the last number taken
          qInvoices,  \* the invoices Qonto has issued
          qCredits,   \* the credit notes Qonto has issued
          paid,       \* numbers of the invoices Qonto has matched a payment to
          invoices,   \* invoice rows
          credits,    \* credit_note rows
          waived,     \* numbers of invoices whose money back was given up
          level,      \* level[a]: access_level, "full" or what is left without a licence
          stopped,    \* stopped[a]: renewal_canceled_at is set
          mark,       \* mark[a]: the document number of its order_check row, or None
          lock,       \* lock[a]: the request that holds the account's row, or None
          change,     \* change[a]: the latest access change in the audit log
          lastChange, \* history: lastChange[a] is the latest one there was, logged or not
          unlogged,   \* accounts revoked by an operator whose audit row is on its way
          req,        \* req[q]: the request q
          seen,       \* seen[a]: the mark a platform admin has checked in Qonto, or None
          sweep       \* candidates of the hourly run that it has not settled yet

docVars == <<counter, qInvoices, qCredits, paid, invoices, credits, waived>>
accountVars == <<level, stopped, mark, lock, change, lastChange, unlogged>>
vars == <<today, docVars, accountVars, req, seen, sweep>>

Days == 0 .. LastDay
Numbers == 1 .. LastNumber
Levels == {"full", "unlicensed"}
Changes == {"none", "suspended", "reopened", "revoked"}

\* end: the last day of the period it pays for; replaces: the invoice that it
\* was reissued for.
Invoice == [number : Numbers, account : Accounts, issue : Days, end : 0 .. (LastDay + YEAR),
            replaces : Numbers \cup {None}]
Credit == [number : Numbers, account : Accounts, of : Numbers]
CreditRow == [number : Numbers, account : Accounts, of : Numbers, refundOwed : BOOLEAN]

(* What a request is doing:
     read       has its current invoice, asks Qonto whether that is paid
     lock       waits for its account's row
     number     holds the row, takes a document number
     mark       has its number, commits the mark
     ask        has its mark, asks Qonto for the document
     answer     Qonto has issued it, and the answer is on its way
     credit     a reissue that asks Qonto to credit the old invoice
     credited   Qonto has credited it, and the answer is on its way *)
Steps == {"idle", "read", "lock", "number", "mark", "ask", "answer", "credit", "credited"}
Kinds == {"order", "cancel", "renewal", "reissue"}

\* day: the day it started on; target: the invoice it cancels or reissues;
\* owed: whether that was paid when it looked.
Request == [at : Steps, kind : Kinds, account : Accounts, day : Days,
            target : Numbers \cup {None}, owed : BOOLEAN, number : Numbers \cup {None}]
Idle == [at |-> "idle"]

\* act: what the run is about to do to the account, once it has Qonto's answer;
\* unrecorded: history, whether the log it read lacked a revoke of the account.
Candidate == [account : Accounts, level : Levels, number : Numbers, day : Days,
              act : {"read", "suspend", "reopen"}, unrecorded : BOOLEAN]

TypeOK ==
    /\ today \in Days
    /\ counter \in 0 .. LastNumber
    /\ qInvoices \subseteq Invoice /\ invoices \subseteq Invoice
    /\ qCredits \subseteq Credit /\ credits \subseteq CreditRow
    /\ paid \subseteq Numbers /\ waived \subseteq Numbers
    /\ level \in [Accounts -> Levels]
    /\ stopped \in [Accounts -> BOOLEAN]
    /\ mark \in [Accounts -> Numbers \cup {None}]
    /\ lock \in [Accounts -> Requests \cup {None}]
    /\ change \in [Accounts -> Changes] /\ lastChange \in [Accounts -> Changes]
    /\ unlogged \subseteq Accounts
    /\ req \in [Requests -> Request \cup {Idle}]
    /\ seen \in [Accounts -> Numbers \cup {None}]
    /\ sweep \subseteq Candidate

Init ==
    /\ today = 0
    /\ counter = 0
    /\ qInvoices = {} /\ invoices = {}
    /\ qCredits = {} /\ credits = {}
    /\ paid = {} /\ waived = {}
    /\ level = [a \in Accounts |-> "unlicensed"]
    /\ stopped = [a \in Accounts |-> FALSE]
    /\ mark = [a \in Accounts |-> None]
    /\ lock = [a \in Accounts |-> None]
    /\ change = [a \in Accounts |-> "none"] /\ lastChange = change
    /\ unlogged = {}
    /\ req = [q \in Requests |-> Idle]
    /\ seen = [a \in Accounts |-> None]
    /\ sweep = {}

----------------------------------------------------------------------------
(* What the tables say of an account *)

invoicesOf(a) == {i \in invoices : i.account = a}
credited(n) == \E c \in credits : c.of = n
invoiceRow(n) == CHOOSE i \in invoices : i.number = n

\* The uncredited invoices whose period has not ended on the day.
running(a, day) == {i \in invoicesOf(a) : i.end >= day /\ ~credited(i.number)}

\* The invoice that pays for the account: of the running ones, the one that
\* ends last.
findActiveInvoice(a, day) ==
    CHOOSE i \in running(a, day) : \A j \in running(a, day) : j.end <= i.end

\* Numbers are taken under the account's lock, so the newest invoice of an
\* account has the greatest.
latestInvoice(a) == CHOOSE i \in invoicesOf(a) : \A j \in invoicesOf(a) : j.number <= i.number
firstInvoice(a) == CHOOSE i \in invoicesOf(a) : \A j \in invoicesOf(a) : i.number <= j.number

\* The numbers of invoice n, of the invoice it was reissued for, and so on: the least
\* set with n in it and, with an invoice, the one that it replaces.
chain(n) ==
    {o \in Numbers : \A S \in SUBSET Numbers :
       n \in S /\ (\A i \in invoices : i.number \in S => i.replaces \in S \cup {None}) => o \in S}

\* The invoice at the start of the chain of reissues that ends in n.
originalInvoice(n) == CHOOSE o \in chain(n) : invoiceRow(o).replaces = None

\* Whether a cancel of invoice i gives the money back: the account's first
\* order, within its thirty days, and not given up.
moneyBack(a, i, day) ==
    LET first == originalInvoice(i.number)
    IN  /\ first = firstInvoice(a).number
        /\ day <= invoiceRow(first).issue + MONTH
        /\ first \notin waived

----------------------------------------------------------------------------
(* The steps all requests share *)

Free(a) == lock[a] = None
Quiet == UNCHANGED <<today, seen, sweep>>

\* Every request that runs was started today.
SameDay == \A q \in Requests : req[q].at # "idle" => req[q].day = today

Start(q, r) == /\ req[q].at = "idle"
               /\ req' = [req EXCEPT ![q] = r]
               /\ UNCHANGED <<docVars, accountVars>> /\ Quiet

\* billing.place or a close from platform admin: what is asked before the lock
\* (the VAT register, the seller's bank account) decides nothing about the account.
placeOrder(q, a) ==
    Start(q, [at |-> "lock", kind |-> "order", account |-> a, day |-> today,
              target |-> None, owed |-> FALSE, number |-> None])

\* The current invoice decides, by date, which cancel it is.
makeCancel(q, a) ==
    /\ running(a, today) # {}
    /\ LET i == findActiveInvoice(a, today)
           back == moneyBack(a, i, today)
       IN  Start(q, [at |-> IF back THEN "read" ELSE "lock",
                     kind |-> IF back THEN "cancel" ELSE "renewal",
                     account |-> a, day |-> today, target |-> i.number,
                     owed |-> FALSE, number |-> None])

reissueInvoice(q, a) ==
    /\ running(a, today) # {}
    /\ Start(q, [at |-> "read", kind |-> "reissue", account |-> a, day |-> today,
                 target |-> findActiveInvoice(a, today).number, owed |-> FALSE,
                 number |-> None])

\* Qonto's answer for invoice n.
qontoStatus(n) == IF \E c \in qCredits : c.of = n THEN "canceled"
                  ELSE IF n \in paid THEN "paid" ELSE "unpaid"

\* A cancel goes on for a paid or an unpaid invoice, a reissue for an unpaid
\* one; any other answer, or none, ends the request.
ReadStatus(q) ==
    /\ req[q].at = "read"
    /\ LET status == qontoStatus(req[q].target)
           wanted == IF req[q].kind = "cancel" THEN {"paid", "unpaid"} ELSE {"unpaid"}
       IN  \/ /\ status \in wanted
              /\ req' = [req EXCEPT ![q].at = "lock", ![q].owed = (status = "paid")]
           \/ req' = [req EXCEPT ![q] = Idle]
    /\ UNCHANGED <<docVars, accountVars>> /\ Quiet

\* MUTANT of refusedUnderLock: an order looks for a running invoice before it waits
\* for the lock and not again.
refusedBeforeLock(r) ==
    \/ mark[r.account] # None
    \/ r.kind \in {"cancel", "reissue"} /\ credited(r.target)

\* MUTANT of refusedUnderLock: cancel and reissue do not look for a credit note again.
refusedUncredited(r) ==
    \/ mark[r.account] # None
    \/ r.kind = "order" /\ running(r.account, r.day) # {}

\* What a request looks at once it holds the account's row.
refusedUnderLock(r) ==
    \/ mark[r.account] # None
    \/ r.kind = "order" /\ running(r.account, r.day) # {}
    \/ r.kind \in {"cancel", "reissue"} /\ credited(r.target)

\* MUTANT of taken: a reissue's credit note gets the number after its invoice's,
\* which is not taken.
takenOnce(q) == 1

\* A reissue takes two numbers, the second for the credit note.
taken(q) == IF req[q].kind = "reissue" THEN 2 ELSE 1

\* LastNumber bounds the run: a request that finds no number left ends.
NumbersLeft(q) == counter + taken(q) <= LastNumber

Lock(q) ==
    /\ req[q].at = "lock"
    /\ req[q].kind # "renewal"
    /\ Free(req[q].account)
    /\ \/ /\ refusedUnderLock(req[q]) \/ ~NumbersLeft(q)
          /\ req' = [req EXCEPT ![q] = Idle]
          /\ UNCHANGED lock
       \/ /\ ~refusedUnderLock(req[q]) /\ NumbersLeft(q)
          /\ req' = [req EXCEPT ![q].at = "number"]
          /\ lock' = [lock EXCEPT ![req[q].account] = q]
    /\ UNCHANGED <<docVars, level, stopped, mark, change, lastChange, unlogged>> /\ Quiet

\* No money back: the paid year runs out and does not renew.
cancelRenewal(q) ==
    /\ req[q].at = "lock"
    /\ req[q].kind = "renewal"
    /\ Free(req[q].account)
    /\ req' = [req EXCEPT ![q] = Idle]
    /\ stopped' = IF mark[req[q].account] # None THEN stopped
                  ELSE [stopped EXCEPT ![req[q].account] = TRUE]
    /\ UNCHANGED <<docVars, level, mark, lock, change, lastChange, unlogged>> /\ Quiet

\* Committed on its own: a request that breaks off leaves a gap.
takeDocumentNumber(q) ==
    /\ req[q].at = "number"
    /\ NumbersLeft(q)
    /\ counter' = counter + taken(q)
    /\ req' = [req EXCEPT ![q].at = "mark", ![q].number = counter + 1]
    /\ UNCHANGED <<qInvoices, qCredits, paid, invoices, credits, waived, accountVars>>
    /\ Quiet

\* Committed on its own, before Qonto is asked.
markOrderCheck(q) ==
    /\ req[q].at = "mark"
    /\ mark' = [mark EXCEPT ![req[q].account] = IF @ = None THEN req[q].number ELSE @]
    /\ req' = [req EXCEPT ![q].at = "ask"]
    /\ UNCHANGED <<docVars, level, stopped, lock, change, lastChange, unlogged>> /\ Quiet

----------------------------------------------------------------------------
(* Qonto is asked, and answers or does not *)

\* The invoice an order or a reissue asks for, which pays until the day end.
newInvoice(q, end) ==
    [number |-> req[q].number, account |-> req[q].account, issue |-> req[q].day,
     end |-> end, replaces |-> req[q].target]

\* The credit note a cancel asks for, or a reissue with its second number.
newCredit(q) ==
    [number |-> IF req[q].kind = "reissue" THEN req[q].number + 1 ELSE req[q].number,
     account |-> req[q].account, of |-> req[q].target]

\* An order pays for a year; the period of a reissue is what the admin entered.
Ends(q) == IF req[q].kind = "order" THEN {req[q].day + YEAR}
           ELSE req[q].day .. req[q].day + YEAR

\* Qonto issues the document.
QontoIssues(q) ==
    /\ \/ /\ req[q].at = "ask" /\ req[q].kind = "cancel"
          /\ qCredits' = qCredits \cup {newCredit(q)}
          /\ req' = [req EXCEPT ![q].at = "answer"]
          /\ UNCHANGED qInvoices
       \/ /\ req[q].at = "ask" /\ req[q].kind # "cancel"
          /\ \E end \in Ends(q) : qInvoices' = qInvoices \cup {newInvoice(q, end)}
          /\ req' = [req EXCEPT ![q].at = "answer"]
          /\ UNCHANGED qCredits
       \/ /\ req[q].at = "credit"
          /\ qCredits' = qCredits \cup {newCredit(q)}
          /\ req' = [req EXCEPT ![q].at = "credited"]
          /\ UNCHANGED qInvoices
    /\ UNCHANGED <<counter, paid, invoices, credits, waived, accountVars>> /\ Quiet

\* What Qonto has issued for request q.
issuedInvoice(q) == CHOOSE i \in qInvoices : i.number = req[q].number

\* The transaction ends: its account's row is free, and its mark goes or stays.
Commit(q, cleared) ==
    /\ lock' = [lock EXCEPT ![req[q].account] = None]
    /\ mark' = IF cleared THEN [mark EXCEPT ![req[q].account] = None] ELSE mark
    /\ req' = [req EXCEPT ![q] = Idle]

\* Qonto refuses (a 4xx): nothing was issued.
Refused(q) ==
    /\ req[q].at = "ask"
    /\ Commit(q, TRUE)
    /\ UNCHANGED <<docVars, level, stopped, change, lastChange, unlogged>> /\ Quiet

\* MUTANT of Unclear: every failed call counts as a refusal.
UnclearCleared(q) ==
    /\ req[q].at \in {"ask", "answer"}
    /\ Commit(q, TRUE)
    /\ UNCHANGED <<docVars, level, stopped, change, lastChange, unlogged>> /\ Quiet

\* A timeout, a 5xx, an answer without an id: the document may or may not exist.
Unclear(q) ==
    /\ req[q].at \in {"ask", "answer"}
    /\ Commit(q, FALSE)
    /\ UNCHANGED <<docVars, level, stopped, change, lastChange, unlogged>> /\ Quiet

\* The invoice is recorded: a new paid year, with nothing stopped.
RecordOrder(q) ==
    /\ req[q].at = "answer" /\ req[q].kind = "order"
    /\ invoices' = invoices \cup {issuedInvoice(q)}
    /\ level' = [level EXCEPT ![req[q].account] = "full"]
    /\ stopped' = [stopped EXCEPT ![req[q].account] = FALSE]
    /\ Commit(q, TRUE)
    /\ UNCHANGED <<counter, qInvoices, qCredits, paid, credits, waived,
                   change, lastChange, unlogged>> /\ Quiet

creditRow(q, owed) == [number |-> newCredit(q).number, account |-> req[q].account,
                       of |-> req[q].target, refundOwed |-> owed]

\* MUTANT of RecordCancel: the account keeps its access.
RecordCancelFull(q) ==
    /\ req[q].at = "answer" /\ req[q].kind = "cancel"
    /\ credits' = credits \cup {creditRow(q, req[q].owed)}
    /\ Commit(q, TRUE)
    /\ UNCHANGED <<counter, qInvoices, qCredits, paid, invoices, waived, level, stopped,
                   change, lastChange, unlogged>>
    /\ Quiet

\* The credit note is recorded, and what the account has without payment is left.
RecordCancel(q) ==
    /\ req[q].at = "answer" /\ req[q].kind = "cancel"
    /\ credits' = credits \cup {creditRow(q, req[q].owed)}
    /\ level' = [level EXCEPT ![req[q].account] = "unlicensed"]
    /\ Commit(q, TRUE)
    /\ UNCHANGED <<counter, qInvoices, qCredits, paid, invoices, waived, stopped,
                   change, lastChange, unlogged>>
    /\ Quiet

\* The new invoice's row is written, not yet committed; the old one is credited next.
ReissueIssued(q) ==
    /\ req[q].at = "answer" /\ req[q].kind = "reissue"
    /\ req' = [req EXCEPT ![q].at = "credit"]
    /\ UNCHANGED <<docVars, accountVars>> /\ Quiet

\* No credit note, or no answer: both invoices stand, and so does the mark.
CreditFails(q) ==
    /\ req[q].at \in {"credit", "credited"}
    /\ invoices' = invoices \cup {issuedInvoice(q)}
    /\ Commit(q, FALSE)
    /\ UNCHANGED <<counter, qInvoices, qCredits, paid, credits, waived, level, stopped,
                   change, lastChange, unlogged>>
    /\ Quiet

RecordReissue(q) ==
    /\ req[q].at = "credited"
    /\ invoices' = invoices \cup {issuedInvoice(q)}
    /\ credits' = credits \cup {creditRow(q, FALSE)}
    /\ level' = [level EXCEPT ![req[q].account] = "full"]
    /\ Commit(q, TRUE)
    /\ UNCHANGED <<counter, qInvoices, qCredits, paid, waived, stopped,
                   change, lastChange, unlogged>> /\ Quiet

\* A restart, a lost connection, a failed insert: the transaction is rolled back.
Abort(q) ==
    /\ req[q].at # "idle"
    /\ req' = [req EXCEPT ![q] = Idle]
    /\ lock' = [a \in Accounts |-> IF lock[a] = q THEN None ELSE lock[a]]
    /\ UNCHANGED <<docVars, level, stopped, mark, change, lastChange, unlogged>> /\ Quiet

----------------------------------------------------------------------------
(* An order check is cleared by hand *)

unrecordedInvoices(a) == {i \in qInvoices : i.account = a /\ i \notin invoices}
unrecordedCredits(a) ==
    {c \in qCredits : c.account = a /\ \A d \in credits : d.number # c.number}

\* The invoices of a that were reissued and whose credit note is missing in
\* Qonto, with the number that was taken for it.
uncreditedReissues(a) ==
    {[number |-> i.number + 1, account |-> a, of |-> i.replaces] :
       i \in {j \in qInvoices : j.account = a /\ j.replaces # None
                                /\ \A c \in qCredits : c.of # j.replaces}}

\* A platform admin looks up the marked number in Qonto and sets right by hand
\* what the operators' mail asks for: the missing credit note is issued, the
\* missing rows are written, access is set.
CheckQonto(a) ==
    LET found == unrecordedCredits(a) \cup uncreditedReissues(a)
        rows == {[number |-> c.number, account |-> a, of |-> c.of,
                  refundOwed |-> c.of \in paid] : c \in found}
    IN  /\ mark[a] # None /\ seen[a] = None
        /\ Free(a)
        /\ qCredits' = qCredits \cup uncreditedReissues(a)
        /\ credits' = credits \cup rows
        /\ invoices' = invoices \cup unrecordedInvoices(a)
        /\ level' = IF unrecordedInvoices(a) # {} THEN [level EXCEPT ![a] = "full"]
                    ELSE IF unrecordedCredits(a) # {} THEN [level EXCEPT ![a] = "unlicensed"]
                    ELSE level
        /\ seen' = [seen EXCEPT ![a] = mark[a]]
        /\ UNCHANGED <<today, counter, qInvoices, paid, waived, stopped, mark, lock, change,
                       lastChange, unlogged, req, sweep>>

\* The admin finds nothing in Qonto, while the order that left the mark still runs.
CheckRunningOrder(a) ==
    /\ ChecksMidOrder
    /\ mark[a] # None /\ seen[a] = None
    /\ ~Free(a)
    /\ unrecordedInvoices(a) = {} /\ unrecordedCredits(a) = {}
    /\ seen' = [seen EXCEPT ![a] = mark[a]]
    /\ UNCHANGED <<today, docVars, accountVars, req, sweep>>

\* Waits for an order that still runs, and clears only the mark that was checked.
clearCheckedOrder(a) ==
    /\ seen[a] # None
    /\ Free(a)
    /\ mark' = IF mark[a] = seen[a] THEN [mark EXCEPT ![a] = None] ELSE mark
    /\ seen' = [seen EXCEPT ![a] = None]
    /\ UNCHANGED <<today, docVars, level, stopped, lock, change, lastChange, unlogged, req, sweep>>

----------------------------------------------------------------------------
(* Payment, waiver, revoke and the hourly run *)

\* Qonto matches a transfer to an invoice that is not credited.
PaymentArrives(n) ==
    /\ \E i \in qInvoices : i.number = n
    /\ qontoStatus(n) = "unpaid"
    /\ paid' = paid \cup {n}
    /\ UNCHANGED <<today, counter, qInvoices, qCredits, invoices, credits, waived, accountVars,
                   req, seen, sweep>>

\* A first export or sign-off, confirmed, ends the money back of the order.
waiveMoneyBack(a) ==
    /\ level[a] = "full"
    /\ running(a, today) # {}
    /\ LET i == findActiveInvoice(a, today)
       IN  /\ moneyBack(a, i, today)
           /\ waived' = waived \cup {originalInvoice(i.number)}
    /\ UNCHANGED <<today, counter, qInvoices, qCredits, paid, invoices, credits, accountVars,
                   req, seen, sweep>>

\* An operator revokes a full account, which is committed before the log is written.
\* One such row per account is on its way at a time.
revokeAccess(a) ==
    /\ level[a] = "full" /\ Free(a) /\ a \notin unlogged
    /\ level' = [level EXCEPT ![a] = "unlicensed"]
    /\ lastChange' = [lastChange EXCEPT ![a] = "revoked"]
    /\ unlogged' = unlogged \cup {a}
    /\ UNCHANGED <<today, docVars, stopped, mark, lock, change, req, seen, sweep>>

\* The audit row of a revoke is written; a failure to write it is swallowed.
logRevoke(a) ==
    /\ a \in unlogged
    /\ \E written \in BOOLEAN :
         change' = IF written THEN [change EXCEPT ![a] = "revoked"] ELSE change
    /\ unlogged' = unlogged \ {a}
    /\ UNCHANGED <<today, docVars, level, stopped, mark, lock, lastChange, req, seen, sweep>>

\* MUTANT of needsQonto: an invoice seen paid is not asked about again, though its
\* account was suspended.
needsQontoUnpaid(a) ==
    /\ invoicesOf(a) # {}
    /\ LET i == latestInvoice(a)
       IN  /\ ~credited(i.number) /\ i.number \notin paid
           /\ \/ level[a] = "full" /\ today > i.issue + MONTH
              \/ level[a] # "full" /\ change[a] = "suspended" /\ today <= i.end

\* MUTANT of needsQonto: any account below full may be reopened, whoever took its access.
needsQontoWhoever(a) ==
    /\ invoicesOf(a) # {}
    /\ LET i == latestInvoice(a)
       IN  /\ ~credited(i.number)
           /\ \/ level[a] = "full" /\ today > i.issue + MONTH
              \/ level[a] # "full" /\ today <= i.end

\* Whether the run asks Qonto about the account: its latest invoice is not
\* credited, and it is full and past the due date, or suspended by this run
\* within the paid year.
needsQonto(a) ==
    /\ invoicesOf(a) # {}
    /\ LET i == latestInvoice(a)
       IN  /\ ~credited(i.number)
           /\ \/ level[a] = "full" /\ today > i.issue + MONTH
              \/ level[a] # "full" /\ change[a] = "suspended" /\ today <= i.end

\* All candidates are read at once, one run at a time (the lost lock is left out).
\* A request does not outlive an hour: when the run comes back to an account it
\* has suspended, the requests of the day before have ended.
nonPaymentCandidates ==
    /\ sweep = {}
    /\ \E a \in Accounts : needsQonto(a)
    /\ SameDay \/ \A a \in Accounts : needsQonto(a) => level[a] = "full"
    /\ sweep' = {[account |-> a, level |-> level[a], number |-> latestInvoice(a).number,
                  day |-> today, act |-> "read",
                  unrecorded |-> lastChange[a] = "revoked" /\ change[a] # "revoked"] :
                 a \in {b \in Accounts : needsQonto(b)}}
    /\ UNCHANGED <<today, docVars, accountVars, req, seen>>

\* What the run makes of Qonto's answer: "read" when nothing is to be done.
nonPaymentAction(c, status) ==
    IF c.level = "full" /\ status = "unpaid" THEN "suspend"
    ELSE IF c.level # "full" /\ status = "paid" THEN "reopen"
    ELSE "read"

\* One candidate after the other, each asked for at Qonto.
readLiveInvoice(c) ==
    /\ \A d \in sweep : d.act = "read"
    /\ LET act == nonPaymentAction(c, qontoStatus(c.number))
       IN  sweep' = (sweep \ {c}) \cup (IF act = "read" THEN {} ELSE {[c EXCEPT !.act = act]})
    /\ UNCHANGED <<today, docVars, accountVars, req, seen>>

\* An unreadable answer changes nothing.
UnreadableInvoice(c) ==
    /\ \A d \in sweep : d.act = "read"
    /\ sweep' = sweep \ {c}
    /\ UNCHANGED <<today, docVars, accountVars, req, seen>>

\* The change and its audit row land together, and only where there is
\* something to change: a suspension of a full account, a reopening of any other.
applyAndRecord(c) ==
    /\ c.act \in {"suspend", "reopen"}
    /\ Free(c.account)
    /\ LET a == c.account
       IN  IF (c.act = "suspend") # (level[a] = "full")
             THEN UNCHANGED <<level, change, lastChange>>
             ELSE /\ level' = [level EXCEPT ![a] = IF c.act = "suspend" THEN "unlicensed" ELSE "full"]
                  /\ change' = [change EXCEPT ![a] = IF c.act = "suspend" THEN "suspended"
                                                     ELSE "reopened"]
                  /\ lastChange' = [lastChange EXCEPT ![a] = change'[a]]
    /\ sweep' = sweep \ {c}
    /\ UNCHANGED <<today, docVars, stopped, mark, lock, unlogged, req, seen>>

\* A restart in the middle of the run; the next hour starts over.
AbortSweep ==
    /\ sweep # {}
    /\ sweep' = {}
    /\ UNCHANGED <<today, docVars, accountVars, req, seen>>

Midnight ==
    /\ today < LastDay
    /\ SameDay
    /\ \A c \in sweep : c.day = today
    /\ today' = today + 1
    /\ UNCHANGED <<docVars, accountVars, req, seen, sweep>>

----------------------------------------------------------------------------
Progress(q) ==
    \/ ReadStatus(q) \/ Lock(q) \/ cancelRenewal(q)
    \/ takeDocumentNumber(q) \/ markOrderCheck(q)
    \/ QontoIssues(q) \/ Refused(q) \/ Unclear(q)
    \/ RecordOrder(q) \/ RecordCancel(q)
    \/ ReissueIssued(q) \/ CreditFails(q) \/ RecordReissue(q)

Run ==
    \/ nonPaymentCandidates
    \/ \E c \in sweep : readLiveInvoice(c) \/ UnreadableInvoice(c) \/ applyAndRecord(c)

Next ==
    \/ \E q \in Requests, a \in Accounts : placeOrder(q, a) \/ makeCancel(q, a) \/ reissueInvoice(q, a)
    \/ \E q \in Requests : Progress(q) \/ Abort(q)
    \/ \E a \in Accounts : \/ CheckQonto(a) \/ CheckRunningOrder(a) \/ clearCheckedOrder(a)
                           \/ waiveMoneyBack(a) \/ revokeAccess(a) \/ logRevoke(a)
    \/ \E n \in Numbers : PaymentArrives(n)
    \/ Run \/ AbortSweep \/ Midnight

Spec == Init /\ [][Next]_vars

\* A request that runs ends, the schedule ticks every hour, and a Qonto that can be
\* read now and again and an account that is free now and again are met in the
\* end.  Nobody has to pay, no day has to pass, no call has to be refused.
Fairness ==
    /\ \A q \in Requests : WF_vars(Progress(q))
    /\ WF_vars(nonPaymentCandidates)
    /\ SF_vars(\E c \in sweep : readLiveInvoice(c))
    /\ SF_vars(\E c \in sweep : applyAndRecord(c))

FairSpec == Spec /\ Fairness
=============================================================================
