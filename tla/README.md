# Verification of open-isms

open-isms is a compliance application. A company works through the requirements
of a framework (NIS 2, GDPR, ...); people sign requirements off; reviewers approve
them; data changes, reopenings and a daily run take sign-offs back. Around that
core there are licences and invoices, reminders and escalations, codes that are
mailed, and AI assistants that sign in for a person.

This directory specifies five parts of it in TLA+: the sign-off core, billing,
the daily deadlines run, the sign-ins of assistants and the codes that are
mailed. TLC checks each on small instances, and TLAPS proves its main safety
properties for every instance. Paths below are relative to `src/`.

## 1. Inventory

All server state is in PostgreSQL at its default isolation level (read
committed); there are several server processes and no application-level lock
outside the database except session advisory locks in the scheduled jobs. So a
request is a sequence of statements, other requests run between any two of
them, and what protects a decision is one of: a row lock held to the commit, a
condition repeated in the `UPDATE`, a unique index, or nothing.

| Component | State | Operations | What is hard | What makes it correct |
|---|---|---|---|---|
| Sign-off core (`server/trpc/routers/assessment.ts`, helpers `sign-off-*`, `withdraw-sign-off`, `status-lock`, `roster`) | `company_requirement_status`, `requirement_assignment`, `sign_off_history` | `signOff`, `confirmModuleRef`, two bulk paths, `updateRequirementStatus`, `reopenRequirement` | signatures of several people at once, batches over many rows, checks before locks | chain and signature agree; status and signature agree; a row closes only when nobody still has to sign; no deadlock |
| Cross-framework credit (`assessment-helpers.ts`) | the same rows in other assessments | `propagateSatisfaction`, `recalculateProgress` | runs after the source's commit, may fail alone | credits what is still open and nothing else |
| Answer saves (`routers/intake.ts`) | intake answers, status row | save, `moveToInProgress` | a save races a signature or an approval | new answers never stand behind an old signature |
| Review (`routers/review.ts`) | status row | `approve`, `reject` | an approval lands while someone reopens | only a completed, signed row is decided on |
| Assignment and membership (`routers/assignment.ts`, `routers/team.ts`) | signer rows, memberships | assign, unassign, remove a member | removals race assignments and withdrawals | nobody waits for a person who has left |
| Module recheck (`lib/compliance/module-recheck.ts`) | status rows | `invalidateModuleSignOffs` | background, two steps, lost in a restart | takes back old signatures and no new one |
| Evidence (`routers/evidence.ts`) | evidence, status row | upload, `deleteEvidence` | check and write apart | a signature does not outlive what it rested on; an approval is ended by a reviewer |
| Daily run (`lib/cron/deadlines*.ts`, `lib/cron/in-app.ts`) | review dates, notifications, advisory lock, day record | five phases on rows and notifications, once a day, from a schedule in each server or an endpoint | rows read, then written one by one; failures, restarts, repeats | one run at a time; due rows come up; no rule is told again; news is shown |
| Reminders and escalation (`lib/compliance/schedule-notifications.ts`, `escalation.ts`) | notifications | schedule, cancel, escalate, in the background after a sign-off | three statements, may be lost | stale reminders do not outlive their review |
| Billing (`lib/billing`) | accounts, invoice and credit note rows, number counter, `order_check` marks | order, cancel, reissue, waive, revoke, hourly non-payment run | an external service between two commits, lost answers | no second open invoice, credit note or number; what is unsure is marked; paid accounts reopen |
| Assistant sign-ins (`lib/mcp`, `api/oauth/token`) | connections, key version, windows of what was spent | redeem, refresh, make a key, disconnect | lost answers, replays, tokens nobody stores | a code connects once; a copied chain is noticed; one key at a time |
| Mailed codes (`lib/auth/otp.ts`) | `email_otp` | request, verify | bursts, overlapping replacements | a code works once; attempts are bounded; there is always one |
| Second factor (`lib/auth/two-factor`) | secret, last step, failures | set up, check, remove | check and replacement at once | a step is accepted once |
| Guided walk (`routers/durchgang.ts`, `lib/durchgang`) | status rows, audit events | decline, approve, sign | its own locks and guards on the same rows | the rules of the core hold for it |
| Digest outbox (`lib/mail/digest-outbox.ts`) | claims | claim, send | crash between the two | at most one mail per person and day |
| Ownership, policies, suppliers, erasure, training, partners, storage, rate limits, platform screens, packages, web application | see `PROJECT.json` | | | |

The parts interact almost only through rows: the core, credits, saves, reviews,
the recheck, evidence, the daily run and the walk all write the status rows.
`SignOff` therefore has one action for each of these writers (except the walk).
`Deadlines` takes the same rows from the other side: it reduces a row to open,
done or under review, and adds dates, notifications and the run itself. Billing,
assistant sign-ins and mailed codes share no row with them or each other.

`PROJECT.json` lists the hazards of this code, each at its line, with the
properties that cover it or the reason none does.

## 2. Modules

| Module | What it is |
|---|---|
| `Attestations` | the abstract specification of the core: per row an append-only, numbered chain and at most one standing signature; attest a set of rows, withdraw one |
| `SignOff` | the core: state, one action per step of each operation, `Spec`, `FairSpec` |
| `Billing` | orders, cancels, reissues, the order check and the hourly run, beside an external Qonto |
| `Deadlines` | review dates, notifications, background tasks, and the daily run with its schedule and lock |
| `McpGrants` | codes, refresh tokens, pasted keys and connections of one person |
| `EmailCodes` | codes of one address and purpose |
| `<Module>Properties` | invariants, action properties, liveness, the refinement; for `SignOff` also three statements of the repository that do not hold |
| `MC<Module>` | constants for TLC |
| `SignOffProofs`, `SignOffSafetyProofs` | types; the inductive invariant and what it implies for states and steps, no deadlock, refinement |
| `BillingProofs`, `BillingSafetyProofs`, `BillingLedgerProofs` | types; locks, numbers and marks; what documents, access and the hourly run owe each other |
| `DeadlinesProofs`, `McpGrantsProofs`, `EmailCodesProofs` | types and safety of each |

### 2.1 Sign-off core

#### State

`status`, `applicable` and `signature` are columns of
`company_requirement_status`; `signers[r][u]` is `u`'s row of
`requirement_assignment` (none, pending, or signed: `signed_off_at` null or
not); `history[r]` is the row's `sign_off_history`; `members` the company's
members. `req[q]` is a request in flight: its operation, user, the rows it has
still to treat (`todo`), the rows it has locked (`held`), the chain versions it
derived from the heads it read (`next`), and what else it read and will use
(`arg`, `seen`, `at`). `cronRows`, `unread` and `recheck` are what the
background jobs have read and not yet acted on.

Time is compared in two places, a signature with a change of module data and
a signature with an upload, so `clock` counts the changes and a time is a
number of changes. The time a transaction stamps on a signature is read
somewhere between its lock and its commit; `SignOffCommit` leaves open where.

#### Actions

| Action | Code |
|---|---|
| `SignOffBegin`, `ConfirmBegin` | `signOff`, `confirmModuleRef` up to the lock of the status row and its signer rows, with the checks made under it |
| `SignOffPartial` | `signOff` when others still owe a signature |
| `SignOffCommit` | the last or only signature: receipt, row, chain entry, one commit; then the credit, if there are linked rows |
| `BulkRead`, `CreditRead`, `RosterRead` | the reads before a batch: rows, then rosters and the batch's time |
| `BatchTake`, `BatchCommit` | the batch's transaction: per row, in id order, a guarded `UPDATE` and the head of the chain; one commit |
| `SetStatusRead`, `SetStatusWrite` | `updateRequirementStatus`: checks on the row, then the guarded `UPDATE` |
| `ReopenBegin`, `SaveAnswersBegin`, `WithdrawCommit` | `reopenRequirement` and `moveToInProgress` through `withdrawSignOff` |
| `SaveAnswersUnsigned` | `moveToInProgress` on a row without a sign-off |
| `Approve`, `Reject` | `review.approve`, `review.reject` |
| `AssignRead`, `AssignWrite`, `Unassign`, `RemoveMember` | `assignRequirement`, `unassignRequirement`, `removeMember` |
| `EvidenceRead`, `EvidenceWrite` | `deleteEvidence` |
| `CronRead`, `CronWrite` | phase 1 of `runDeadlines`: read, then one unconditional write per row |
| `DataChange`, `RecheckRead`, `RecheckWrite` | a save of module data, `signedOffByModule`, `revertSignOffs` |
| `Abandon`, `Restart` | a lost connection (its transaction rolls back, nothing after its commit happens); a restart of the servers |

Row locks: a status row taken `FOR UPDATE` or by an `UPDATE` has one holder
until the commit; a guarded `UPDATE` outside a longer transaction waits for
that holder (its action is disabled) and evaluates its condition afterwards.
An insert of a signer row takes `FOR KEY SHARE` on the status row through its
foreign key, which conflicts with `FOR UPDATE` and not with the lock of an
`UPDATE` of other columns: `LockedForUpdate` makes that distinction, and both
`ClosingLeavesNobodyToSign` (holds) and `BatchLeavesRostersAlone` (does not)
depend on it.

#### What is abstracted

- Gates before the first read of a row (ownership of category and assessment,
  billing, not found), and the extra conditions that only refuse (a
  requirement that leaves no choice cannot be set aside, framework scope): the
  model allows more than the code.
- Review dates: the daily run may find any done row due. Upload times of
  evidence: any time so far.
- Snapshots, template versions, reasons, roles in the chain entry, audit
  entries, notifications, progress percentages.
- `Holds` fixes who may sign which row; roles do not change.
- `moveToInProgress` also locks the intake row, which no other writer of the
  status row takes; that lock is left out.
- The credit reads its time before its rosters, the batches after; the model
  reads both at once. No property relates the two.
- The signer rows of a row are locked together with the row, which the code
  does in a second statement. `NoWaitCycle` is about status rows only: the locks
  that `removeMember` takes, on the company's row and on signer rows, are not in
  the model.

### 2.2 Billing

`qInvoices`, `qCredits` and `paid` are what Qonto holds; `invoices`, `credits`,
`waived`, `level`, `stopped`, `mark` (`order_check`), `counter` and `change` (the
newest access change in the audit log) are rows. A revoke is committed before
its audit row: `unlogged` has the accounts for which that row is on its way, and
the history variable `lastChange` the latest change there was, logged or not. A request goes from `read`
through `lock`, `number`, `mark`, `ask`, `answer` (and `credit`, `credited` for a
reissue) to its commit; the number and the mark are committed on their own,
all else at the end. `sweep` is what the hourly run has read and not settled;
`unrecorded` notes of each whether the log it read lacked a revoke.

| Action | Code |
|---|---|
| `placeOrder`, `makeCancel`, `reissueInvoice`, `ReadStatus`, `Lock` | the begin of a request, its look at Qonto, the row lock and the checks repeated under it |
| `cancelRenewal` | the cancel that issues nothing |
| `takeDocumentNumber`, `markOrderCheck` | the counter and the mark, each committed at once |
| `QontoIssues`, `Refused`, `Unclear` | Qonto has issued; it refused; the answer was lost or unreadable, before or after it issued |
| `RecordOrder`, `RecordCancel`, `ReissueIssued`, `CreditFails`, `RecordReissue` | what is written once Qonto has answered |
| `Abort` | a restart or a lost connection, at any step |
| `CheckQonto`, `CheckRunningOrder`, `clearCheckedOrder` | an admin looks into Qonto, then clears the mark that was looked at |
| `PaymentArrives`, `waiveMoneyBack` | Qonto matches a payment; a customer |
| `revokeAccess`, `logRevoke` | an operator's revoke; its audit row, which follows or is lost |
| `nonPaymentCandidates`, `readLiveInvoice`, `UnreadableInvoice`, `applyAndRecord`, `AbortSweep` | the hourly run |

Abstracted. Qonto is done with a call before its caller gives up on it; a call
that took effect later would be a longer `Unclear`. One day stands for thirty,
so `MONTH` is both the term of payment and the money back. A request straddles
at most one midnight and does not outlive an hour. The two number series are
one sequence, since their prefixes keep them apart. A reissue ends by the day a
new order would end, while the code lets an operator choose a period of up to
two years. The latest invoice of an account is the one with the highest number;
the code takes the latest issue date and creation, which differs only when a
reissue commits out of turn. The `seenPaid` cache of the
run is left out: it only saves calls. So is the loss of its
lock, which section 2.3 has for the daily run: with it two runs could overlap, and
one could reopen, from what it read before, an account that was revoked after the
other had reopened it. Qonto and the admins are external. A
request that finds no number left below `LastNumber` ends there. Who may order or
cancel, prices, VAT, Qonto's client records, mail, PDFs and refunds are not
state.

### 2.3 Deadlines

`status` (open, done, review) and `due` are the row's. Of its notifications, each
standing for its rows of both channels and of all recipients, `pending` has those
not shown yet, `standing` says whether one is shown and neither cancelled nor
acknowledged, and `told` is the last of the six escalation rules that made one
(what never leaves the table, and what `maxLevel` is taken over). `tasks` is what
goes on in the background after a request; `run[c]`, the daily run a caller has
started, its phase and what it has read; `lock`, whose session holds the advisory
lock; `recorded`, the days in the audit log; `settled`, the schedules that need not
look again today. `lossFree` is history: neither this run nor one it began beside
has lost its lock.

| Action | Code |
|---|---|
| `signOff`, `confirmModuleRef`, `setAside`, `withdrawSignOff`, `acknowledge`, `acknowledgePending` | people at work; the first, and the fourth where somebody loses a signature, with the background task the code starts |
| `scheduleDate`, `cancelPending`, `insertReminders`, `announceWithdrawal`, `TaskLost` | the statements of a task, and a task that fails |
| `deadlinesOnce`, `ranFor`, `recordRun`, `RunFails`, `Restart` | the lock, the look at the audit log, the record, failures |
| `LockLost` | the lock's connection is lost: the lock is free, and the run goes on |
| `beginPhase` | what a phase reads |
| `moveToReview`, `backfillPace`, `planReminders`, `makeReminders`, `planEscalation`, `processEscalation`, `markSent` | the loops of the five phases, one row or notification at a time |

The rules are walked as a list, with two for level 3: for a P0 row both may apply
at once, since `maxLevel` is read once per row (finding in section 5).
`LevelsToldOnce` is therefore about rules.

After a lost lock another run can begin beside the first, and the model lets
it: `lossFree` is then FALSE for both, and for any run that begins before they
have ended. A run of the same server's next tick is one more caller; the model has
one run per caller.

Abstracted. Rows recur; one that does not gets no date when it is signed.
Somebody can always be reminded. A run straddles at most one midnight, and
none before its first phase. The phases on progress figures, the supplier
portal and erasures are left out: they fail on their own.

### 2.4 Assistant sign-ins

No token is stored, so `codes` and `tokens` hold every one ever made, and anybody
may present any of them at any time. The server's memory is `connections`,
`version` (`mcp_key_version`), and `usedCodes`, `usedSteps`: windows of the rate
limiter that outlive the token by `LEDGER_MARGIN_S`. `req[q]` is a request in one
of the steps of `redeem`, `refresh` or `createMcpKey`; `userLock` the person's row.

| Action | Code |
|---|---|
| `allow` | the person lets an assistant in: a code |
| `redeem`, `spendCode`, `codeVersion`, `connect` | the steps of a code |
| `refresh`, `tokenVersion`, `connectionOpen`, `spendStep`, `revoke` | the steps of a refresh; a late presentation disconnects |
| `createMcpKey`, `lockPerson`, `endKeys`, `keyCommitted` | a pasted key |
| `disconnectMcp`, `endMcpConnection` | the person disconnects all, or one |
| `RequestFails`, `Tick` | a request breaks off; a minute passes |

Abstracted. A request is over within a tick. A refused hit and the reading of
what is left of the window are one step. Signatures, client registration, PKCE
and the calls made with an access key are left out; access keys are made with
a refresh token and do not outlive it.

### 2.5 Mailed codes

A code is named by the time its transaction began, which is what `created_at`
tells and `verifyOtp` sorts by. `row[c]` has its attempts, by what it was
consumed, and an age. `compared` and `accepted` are history variables.

| Action | Code |
|---|---|
| `requestOtp`, `begin`, `scan`, `invalidate`, `issue` | the count; the transaction: its `UPDATE` finds rows in a snapshot, waits for those another transaction has written, looks at them again and writes them; the insert and the commit |
| `verifyOtp`, `claim`, `compare`, `consume` | the newest live code; one conditional `UPDATE` per attempt; the comparison; the conditional `UPDATE` that consumes |
| `Ages` | a code leaves the window of the limit, then its life, oldest first |
| `RequestFails` | a statement fails or the server restarts; a transaction is rolled back |

Abstracted. An `UPDATE` of several rows waits for all of them and then writes
them at once; the order in which it locks them is left out. Two codes that
happen to be equal are ignored, and so is what a verified code is used for. The
run mirrors `scripts/ci/otp-concurrency-drill.ts`, which asks the same of a real
database for one burst.

## 3. Runs

| Run | Instance | Shows |
|---|---|---|
| `one_row` | one row with a module, two members (one a reviewer), two requests, at most three sign-offs of the row; about 1.4 million states | types, `DecidedUnderLock`, `ChainVouchesForSignature`, `StatusAgreesWithSignature`, `ClosingLeavesNobodyToSign`, `ApprovalWithdrawnByReviewer`, refinement of `Attestations` |
| `two_rows` | two rows, the first crediting the second, one person without review access, two requests (of that person or of two devices); at most two sign-offs in all (`FewSignOffs`); about 1.6 million states | `NoWaitCycle`, `BatchSkipsDecided`, chains and refinement over batches |
| `requests_end` | one module row, one person (a reviewer), two requests, one change of its data, `FairSpec`; about 160 thousand states | `EveryRequestEnds` |
| `approval_ended`, `roster_in_batch`, `left_signer` | as `one_row` without a module, at most two sign-offs | three findings, each a counterexample |
| `billing` | one account, two requests, two days, three numbers; about 1.76 million states | `MarkedWhileUnsure`, `OneOpenInvoice`, `CreditedOnce`, `OneNumberEach`, `FullMeansInvoiced`, `ReopensOnlyItsOwn` |
| `billing_reopens` | one account, one request, two numbers, `FairSpec`; about 78 thousand states | `PaidReopens` |
| `order_checked_early` | one request, an admin who checks an order that still runs | a finding: the mark is cleared too early |
| `deadlines` | one row, which is P0, a server and the endpoint, whose run may lose its lock while it makes up reminders; two days, one background task, two tasks and runs in all, `FairSpec`; about 596 thousand states, two minutes | `RunsOnce`, `LevelsToldOnce`, `DueRowsComeUp`, `NewsIsShown` |
| `grants` | two requests, five ticks, one code, two connections, two refreshes each; about 3.5 million states, two minutes | `CodeConnectsOnce`, `StepsTakenTogether`, `LedgerOutlivesTokens`, `SignInEnds`, `OneKeyAtATime` |
| `email_codes` | two requests, three codes, two attempts each, a limit of one; about 1.3 million states | `AttemptsCapped`, `AcceptedOnce`, `NeverWithoutCode`, `RateLimitKept` |

Deadlock is checked in the runs of the core (the system can always begin
something); the others stop at their bounds.

Bounds, `SignOff`. `MaxSignOffs` bounds the chain of a row: an action that may
lead to a sign-off is enabled only while there is room for it and for every
signing request in flight (`RoomToSign`), so the bound never blocks a commit.
`MaxChanges` bounds changes of module data. `FewSignOffs` cuts the two-row run
at two entries in both chains together; the second entry is the interesting
one (it must follow a head that another transaction wrote), a third repeats
it. Two requests are enough for every race of the code, since each is between
one writer and whatever changed under it; the reviewer's decisions, removals,
the daily run and the recheck need no request and interleave as well. Two rows
are enough for a cycle of two transactions.

Bounds, the others. `Billing`: with `LastDay` 1 an invoice of the first day falls
due, is found by the run, and is suspended or paid on the second, and a reissue
whose year ended on the first day is over on the second. Three numbers are an order and a reissue with both its numbers; no
action relates two accounts. A fourth number at `LastDay` 2 adds a second order before
that reissue, and shows the exception that `OneOpenInvoice` makes for a late reissue
(`reissuedLate`, finding in section 5); within the bounds of the run the exception
never applies, and the proof covers it for all bounds. `Deadlines`: with
`LastDay` 1 a row is signed, falls due, is reminded of, and on the second day told
of to admins and, by both rules, to management; a week, a fortnight and a month
are one day, so that all rules meet in one plan, which a run may break off in
the middle and another repeat. `Lossy` says whose run may lose its lock and when:
the endpoint's while it makes up reminders, so that it still escalates and
dispatches beside a run of the server. `MaxTasks` and `MaxAtOnce` bound what goes on
at a time; two runs, and a run and a task, are possible. `McpGrants`: a sign-in
of five ticks outlives its first refresh token, so late presentations, windows
that end and the last, shortened token all occur; the margin equals the grace,
so that it is fully used. `EmailCodes`: three codes are the smallest number with
a code that is older and one that is newer than the one a request holds; at two
attempts and two requests the cap is met by both together. The proofs have
none of these bounds. Requests are told apart by no definition, so they are
symmetric in the runs without liveness.

Every property has a mutant in `PROJECT.json`: a plausible slip in the code
(a missing lock, a forgotten condition, a wrong version, unsorted rows, `<=` for
`<`, a statement outside its transaction) under which TLC finds it violated.
Their definitions stand in the modules, each before the operator it mutates and
marked `MUTANT of`.

### Fairness

`SignOff`: `FairSpec` adds strong fairness of what each request in flight does
next (`Continue`) and nothing else: no request has to begin, no job has to run,
no connection has to be lost. The database answers a statement it can execute
(weak fairness), and it grants a row lock in the order of its waiters, so a
transaction that waits for a row is not passed over for ever although the row
is free only now and then (strong fairness). `EveryRequestEnds` then says that
every request ends, which is about lock waits and about branches that never
answer: a batch all of whose rows were decided meanwhile still commits.

`Billing`: a request that runs goes on (weak); the schedule ticks every hour
(weak, `nonPaymentCandidates`); of the candidates some can be read from Qonto and
some account is free again and again, and then the run gets through with them
(strong: the timer repeats, and Qonto is asked with a time limit every time).
Nobody has to pay and no day has to pass; no run is kept from breaking off.

`Deadlines`: days pass; a run that is not broken off goes on to its end; every
server looks for a due run again and again (the half-hourly timer). Beyond
that, from some time on runs do not break off and the endpoint is not called
(`<>[]`): a run that breaks off every day, or a caller that takes the lock every
time, would keep any due row waiting, and the code promises nothing then.

## 4. Proofs

Assumptions are named in the modules and evaluated by TLC in every run.
`SignOff`: rows are a finite set of numbers, which stands for the total order on
ids; reviewers and holders are users; `Nobody` is neither a user nor a
signature; no row credits itself. `Billing`, `Deadlines`, `McpGrants`, `EmailCodes`: `None`
is none of the things it is told from; terms and bounds are numbers; reminders
lie before the review; `REFRESH_GRACE_S <= LEDGER_MARGIN_S`; the limit on codes is
not zero, and the requests that can be in flight are finitely many, since they
are counted. Everywhere else requests, users, accounts and rows are arbitrary.

### Sign-off core

None of `ChainVouchesForSignature`, `StatusAgreesWithSignature` and the action
properties is inductive: a commit writes what the request read when it took its
lock. `SafetyInv` adds what makes them so: `TypeOK`; `LockDiscipline` (a held row has
one holder; who signs or withdraws alone holds one row; a batch has taken every
row it holds before those it has yet to take, in the order of ids);
`DecidedUnderLock` (the chain still has the length a holder read; a row in a
batch is not done; an approved row is withdrawn by a reviewer; a row that is
signed alone has nobody assigned). Each action either changes only rows nobody
holds, and then disturbs no decision, or is the holder's own commit, after
which it holds nothing.

| Theorem | Statement |
|---|---|
| `TypeCorrect` | `Spec => []TypeOK` |
| `Safety` | `Spec => []SafetyInv` |
| `ChainVouches`, `StatusAgrees`, `DecisionsHold` | the invariants of the runs |
| `BatchesSkipDecided`, `ApprovalsFallToReviewers`, `ClosingLeavesNobody` | the action properties |
| `NoDeadlock` | `Spec => []NoWaitCycle`: among any requests, one waits for none of the others. It takes the request that waits for the highest row; whoever holds that row waits for a higher one or for none |
| `ImplementsLedger` | `Spec => LedgerSpec`: every step is an `Attest`, a `Withdraw` or a stutter of `Attestations` |

### Billing

`TypeInv` adds to the types that requests are well formed for the step they are
at. `NumbersUnique` rests on `LockInv` (from the number on, a request holds its
account's row, and nobody else does), `NumbersApart` (what requests, invoices and
credit notes have taken is disjoint and below the counter) and `NumbersFresh`.
`DocumentsMarked` is `~ChecksMidOrder => (Spec => []MarkedWhileUnsure)`: of the account
whose row a request holds, nothing is unrecorded but the document that request
is about (`OnlyItsOwn`), and an account nobody holds is recorded or marked, and
recorded while an admin has just looked (`AccountOK`). The assumption is needed:
`order_checked_early` is the counterexample without it.

`BillingLedgerProofs` builds on that, under the same assumption. It first reduces
each action to what it does to requests, documents and access (`EveryStep`: a
request starts, goes on, ends, has a document issued, records one; an admin
checks; everything else), and then shows five invariants: `OnceInv`, `OpenInv` and
`SweepInv` contain `RefInv`, `OpenInv` contains `OnceInv`, and `PaidInv` contains `OnceInv`
and `SweepInv`.

| Invariant | What it adds | Theorem |
|---|---|---|
| `RefInv` | a credit note and a reissue refer to an older recorded invoice of their account; who holds a row has a number above all recorded ones and knows what it had issued | |
| `OnceInv` | until a request itself credits its target, the target is neither credited nor reissued; of its account at most its own reissue is unsettled; an account that is free and unmarked has no unsettled reissue | `CreditedOnceAlways` |
| `OpenInv` | of two uncredited invoices of an account the later is the earlier's reissue, or follows an order that the earlier had ended before, or a reissue came late; what an order found under the lock stays so | `OneOpenAlways` |
| `SweepInv` | a candidate that was not full when read is still suspended by the run, or its account has a newer invoice, or the log it was read by lacked a revoke; the log's newest change is the latest there was unless one of the two is a revoke (`LogOK`) | `ReopenedByItself` |
| `PaidInv` | see below | `FullIsInvoiced` |

`FullMeansInvoiced` is the hard one: the run decides to reopen from an old read, and
nothing under the lock asks again whether the invoice has been credited since.
What saves it is a question of dates: only the account's first
invoice, or what it was reissued as, is ever cancelled for money back, and only
within its month; the run suspends only after a month; so by the time an account
can be reopened its money back is over or already given. `PaidInv` says this
(`FirstOK`, `CancelOK`): a suspension, a candidate for reopening, or an order that the
first invoice came after imply that the first invoice's month is past or its
whole chain of reissues is credited; a cancel in flight is for that chain and
within that month. Hence no cancel holds the row of a candidate that may be
reopened (`NoCancel`), and the candidate's account keeps an uncredited invoice both
at Qonto and in the tables (`ReopenOK`), also when a check by hand credits what was
reissued (`ReissueOpen`). A request that outlives an hour would break the
argument; `nonPaymentCandidates` says where the model assumes that none does.
`chain` is defined as a least closed set of numbers rather than by recursion, so
that it can be reasoned about without induction over data.

### Deadlines

The inductive invariant (`SafeInv`) is the types with `RunsOnce` and `LevelsToldOnce`
themselves and `LockKept`: a run without a loss has the lock. A lock is lost
at any step of any run, so what is shown of a run must not lean on the others: it
leans on `lossFree`, which a run that begins takes from those under way. While such
a run goes on no other does, so the plan of an escalation, made from what was told
before, is carried out rule by rule against a `told` that only it raises.
`OneRun` and `LevelsOnce` are the theorems.

### Assistant sign-ins

`TypeInv` includes that no token outlives the connection it belongs to and that
what a request presents exists, which gives `SignInsEnd`. `OneKey` needs that a key's
transaction has ended all others before it inserts (`KeyInv`). `StepsTogether` and
`LedgerLasts` are one induction (`ChainInv`): the first presentation of a step
fixes its window; every later one that still gets a token falls into the grace
after it; so tokens of a step differ by at most the grace, and the window, which
lasts a margin longer than the first, outlives them all, if the margin is at
least the grace. `CodeOnce` (`CodeInv`) follows a code from its window to the one
request that may connect with it.

### Mailed codes

`EmailInv` adds to the properties: each transaction has a code of its own that is
not there yet, and what is verified is there (`CodesMade`); of each code, its
comparisons and the requests about to compare are together at most its
attempts (`AttemptsCounted`); the codes of the window and the requests that are
making one are together fewer than the limit and all requests (`Counted`). The
last two count sets that grow and shrink by one request. `TypeOK` itself says what
the waits of an `UPDATE` are for: what a transaction has written is unconsumed and
has no other writer. `Capped`, `Once`, `AlwaysOne` and `Limited` are the theorems.

### Only model-checked

Liveness (`EveryRequestEnds`, `PaidReopens`, `DueRowsComeUp`, `NewsIsShown`) is out of the
prover's reach: it needs `ENABLED` and fairness. Every invariant and action property
of the passing runs, and the refinement, is stated by a theorem. The statements
of the repository that do not hold are refuted by runs and have none.

## 5. Findings

Four statements of the repository that TLC refutes, each by a run of its own
(`PROJECT.json` quotes the lines):

1. A member without review access can end an approval: by deleting evidence
   while the approval lands, and by signing an approved row again
   (`approval_ended`). The signature under the approval is safe all the same
   (`ApprovalWithdrawnByReviewer`).
2. A batch signs over a signer assigned after it read the rosters
   (`roster_in_batch`).
3. A person removed while an assignment or a withdrawal is in flight is left
   owing a signature (`left_signer`).
4. An admin who looks into Qonto while an order still runs, and clears once it
   has ended without a clear answer, removes the only trace of an invoice
   (`order_checked_early`).

The others were met while modelling and have no run of their own, mostly
because two steps suffice: a row set aside as not applicable can be signed off;
the daily run writes status and sent marks by id with no condition; a signature
stamped before a change that commits after the recheck's read stands; the
non-payment run suspends for an invoice that was replaced; confirmations,
batches and credits do not schedule the next review; an escalation level told
in an earlier cycle is not told again; a late refresh token disconnects
assistants signed in since; requests for codes pass the limit together; of two
overlapping codes the one mailed last may be the one that does not count; a
reissue that waits past the end of its invoice's period, behind a new order,
issues a second running invoice (met while proving `OneOpenInvoice`, which had to
except it); a daily run that loses its lock's connection goes on, and another may
run beside it for the same day; a P0 requirement far overdue is told to management
twice in one run; a revoke is committed before its audit row, and the hourly run
may reopen the account by the log without it (TLC finds this in 24 states when
`ReopensOnlyItsOwn` does not except it); and a
comment about a race that the row lock in fact closes.

## 6. Not modelled

The map covers a small share of the repository's lines, and would with any
model: most of them are pages, components, translations, course and reference
texts, seeds and forms over a single row. What has a protocol of its own and is
still not modelled:

- the guided walk: declines, owner approvals and signatures under locks of its
  own, with a state that is derived from the newest audit event beside the
  status row. As an extension of `SignOff` its writers would be as many again, and
  every invariant of section 4 would have to be shown for them. One hazard of it
  is in the list;
- the second factor: the check reads a secret and writes the accepted step
  under a guard that does not name it (in the list);
- transfer of a company, policies and their approval, supplier questionnaires,
  erasure of a user, training: each one transaction or one guarded statement,
  except erasure, which rewrites dozens of tables in one transaction;
- the digest outbox: one insert under a unique index, then a send;
- pure functions over the content (which requirements credit which): a constant
  of `SignOff`, so that what is checked holds for any result.

`PROJECT.json` gives the reason for each component. Of the modelled ones, what
section 2 lists as abstracted.
