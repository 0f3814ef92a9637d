------------------------- MODULE BillingProperties -------------------------
(***************************************************************************)
(* What the billing of an account promises while requests overlap, break   *)
(* off and are answered unclearly, and while the hourly run works from     *)
(* what it read before.                                                    *)
(***************************************************************************)
EXTENDS Billing

\* Every invoice and credit note that Qonto holds for an account has its row, or
\* the account's order_check mark stands: an answer that was lost, a restart or a
\* failed insert never leaves a document that nothing points to (order-check.ts).
MarkedWhileUnsure ==
    \A a \in Accounts :
      unrecordedInvoices(a) # {} \/ unrecordedCredits(a) # {} => mark[a] # None

\* Uncredited at Qonto and not ended.
openAtQonto(a) == {i \in qInvoices : /\ i.account = a /\ i.end >= today
                                     /\ \A c \in qCredits : c.of # i.number}

\* An invoice of the account was reissued that had ended before a later order.
reissuedLate(a) ==
    \E o, k, j \in qInvoices :
      /\ o.account = a /\ k.account = a /\ j.account = a
      /\ o.replaces = None /\ j.replaces = k.number
      /\ k.end < o.issue /\ o.number < j.number

\* A customer never owes two running invoices, unless the account is marked: the
\* looks under the lock (place-order.ts, reissue.ts) see every earlier request.  But
\* a reissue does not look again whether its invoice has ended in the meantime.
OneOpenInvoice ==
    \A a \in Accounts : mark[a] = None => reissuedLate(a) \/ \A i, j \in openAtQonto(a) : i = j

\* No invoice is credited twice in Qonto: of two cancels, or a cancel and a
\* reissue, of one invoice the second finds the first's credit note or its mark.
CreditedOnce ==
    \A c, d \in qCredits : c.of = d.of => c = d

\* No two documents carry one number, though a request that breaks off leaves the
\* number it took (document-number.ts).
OneNumberEach ==
    /\ \A i, j \in qInvoices : i.number = j.number => i = j
    /\ \A c, d \in qCredits : c.number = d.number => c = d
    /\ \A i \in qInvoices, c \in qCredits : i.number # c.number

\* A full account has an uncredited invoice, marked or not: no cancel, no check by
\* hand and no run of the schedule, in whatever order they land, leaves access that
\* nobody pays for.
FullMeansInvoiced ==
    \A a \in Accounts : level[a] = "full" => \E i \in invoicesOf(a) : ~credited(i.number)

\* The hourly run reopens only an account whose latest access change, logged or not, is its
\* own suspension: a revoke since is not undone (non-payment.ts).  Except that the account has
\* a newer invoice than the one the run asked Qonto about, or that the revoke's audit row was
\* not written, or not yet, when the run read the log.
ReopensOnlyItsOwn ==
    [][\A c \in sweep :
         /\ c \notin sweep' /\ level[c.account] # "full" /\ level'[c.account] = "full"
         /\ latestInvoice(c.account).number = c.number
         => lastChange[c.account] = "suspended" \/ c.unrecorded]_vars

\* Suspended for an invoice that is paid now and neither credited nor run out.
paidAndSuspended(a) ==
    /\ level[a] # "full" /\ change[a] = "suspended"
    /\ LET i == latestInvoice(a)
       IN  qontoStatus(i.number) = "paid" /\ ~credited(i.number) /\ today <= i.end

\* A paying customer is let in again: an account that the run suspended and whose
\* latest invoice is paid does not stay suspended, whatever requests break off and
\* runs are restarted, while its licence year lasts (AGB B9).
PaidReopens ==
    \A a \in Accounts : paidAndSuspended(a) ~> ~paidAndSuspended(a)
=============================================================================
