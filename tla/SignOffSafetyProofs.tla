------------------------- MODULE SignOffSafetyProofs -------------------------
(***************************************************************************)
(* The inductive invariant of the sign-off core, what follows from it for  *)
(* steps, and that the core implements the attestation ledger.             *)
(***************************************************************************)
EXTENDS SignOffProofs, FiniteSetTheorems, WellFoundedInduction

----------------------------------------------------------------------------
(* What one step does to the locks *)

\* What a step of q may make of its slot: no other slot changes, the rows q holds
\* now it held before or nobody did, and it holds them as it should.
GoodSlot(q) ==
    /\ \A p \in Requests : p # q => req'[p] = req[p]
    /\ \A r \in req'[q].held : r \in req[q].held \/ ~Locked(r)
    /\ WellLocked(req'[q])
    /\ Decided(req[q])'

\* A slot that holds no row, and is not about to sign one, holds them as it should.
LEMMA EmptySlot ==
  ASSUME NEW q \in Requests, \A p \in Requests : p # q => req'[p] = req[p],
         req'[q].held = {}, req'[q].op \notin {"sign", "confirm"}
  PROVE  GoodSlot(q)
  BY DEF GoodSlot, WellLocked, Decided

\* Writing an empty slot is the usual end of a request.
LEMMA IdleSlot ==
  ASSUME TypeOK, NEW q \in Requests, req' = [req EXCEPT ![q] = Idle]
  PROVE  GoodSlot(q)
<1>1. req'[q] = Idle /\ \A p \in Requests : p # q => req'[p] = req[p]
  BY DEF TypeOK
<1>2. req'[q].held = {} /\ req'[q].op = "idle"
  <2>1. Idle.held = {} /\ Idle.op = "idle"
    BY DEF Idle
  <2> QED
    BY <1>1, <2>1
<1> QED
  BY <1>1, <1>2, EmptySlot

\* While the rows stand still, so does what a request decides about them.
LEMMA RowsStill ==
  ASSUME UNCHANGED rowVars, NEW r \in Rows
  PROVE  /\ nextVersion(r)' = nextVersion(r)
         /\ pendingSignersOf(r)' = pendingSignersOf(r)
         /\ Done(r)' = Done(r)
         /\ status'[r] = status[r]
  BY DEF rowVars, nextVersion, pendingSignersOf, Done

\* A request that starts holds one row that nobody held, or none.
LEMMA BeginSlot ==
  ASSUME TypeOK, NEW q \in Requests, Begin(q)
  PROVE  GoodSlot(q)
<1>0. req \in [Requests -> Request]
  BY DEF TypeOK
<1>1. PICK u \in Users : \/ \E r \in Rows :
                             \/ SignOffBegin(q, u, r)
                             \/ ConfirmBegin(q, u, r)
                             \/ ReopenBegin(q, u, r)
                             \/ SaveAnswersBegin(q, u, r)
                             \/ \E to \in MANUAL_STATUSES : SetStatusRead(q, u, r, to)
                             \/ AssignRead(q, r, u)
                             \/ \E uploaded \in Stamps : EvidenceRead(q, u, r, uploaded)
                         \/ \E S \in SUBSET Rows : BulkRead(q, u, S)
  BY DEF Begin
<1>2. ASSUME NEW r \in Rows, SignOffBegin(q, u, r) PROVE GoodSlot(q)
  <2>1. /\ \A p \in Requests : p # q => req'[p] = req[p]
        /\ ~Locked(r) /\ UNCHANGED rowVars
    BY <1>0, <1>2 DEF SignOffBegin
  <2>2. /\ req'[q].held = {r} /\ req'[q].op = "sign"
        /\ req'[q].next[r] = nextVersion(r)
        /\ req'[q].arg = IF pendingSignersOf(r) # {} THEN "roster" ELSE "alone"
    BY <1>0, <1>2 DEF SignOffBegin, Idle
  <2>3. WellLocked(req'[q])
    BY <2>2 DEF WellLocked
  <2>4. Decided(req[q])'
    BY <2>1, <2>2, RowsStill DEF Decided
  <2> QED
    BY <2>1, <2>2, <2>3, <2>4 DEF GoodSlot
<1>3. ASSUME NEW r \in Rows, ConfirmBegin(q, u, r) PROVE GoodSlot(q)
  <2>1. /\ \A p \in Requests : p # q => req'[p] = req[p]
        /\ ~Locked(r) /\ UNCHANGED rowVars /\ pendingSignersOf(r) = {}
    BY <1>0, <1>3 DEF ConfirmBegin
  <2>2. /\ req'[q].held = {r} /\ req'[q].op = "confirm" /\ req'[q].arg = "alone"
        /\ req'[q].next[r] = nextVersion(r)
    BY <1>0, <1>3 DEF ConfirmBegin, Idle
  <2>3. WellLocked(req'[q])
    BY <2>2 DEF WellLocked
  <2>4. Decided(req[q])'
    BY <2>1, <2>2, RowsStill DEF Decided
  <2> QED
    BY <2>1, <2>2, <2>3, <2>4 DEF GoodSlot
<1>4. ASSUME NEW r \in Rows, WithdrawBegin(q, u, r), ~Locked(r),
             status[r] = "approved" => u \in Reviewers
      PROVE  GoodSlot(q)
  <2>1. /\ \A p \in Requests : p # q => req'[p] = req[p]
        /\ UNCHANGED rowVars
    BY <1>0, <1>4 DEF WithdrawBegin
  <2>2. req'[q].held = {r} /\ req'[q].op = "withdraw" /\ req'[q].user = u
    BY <1>0, <1>4 DEF WithdrawBegin, Idle
  <2>3. WellLocked(req'[q])
    BY <2>2 DEF WellLocked
  <2>4. Decided(req[q])'
    BY <1>4, <2>1, <2>2, RowsStill DEF Decided
  <2> QED
    BY <1>4, <2>1, <2>2, <2>3, <2>4 DEF GoodSlot
<1>5. ASSUME NEW r \in Rows, NEW to \in MANUAL_STATUSES, SetStatusRead(q, u, r, to)
      PROVE  GoodSlot(q)
  BY <1>0, <1>5, EmptySlot DEF SetStatusRead, Idle
<1>6. ASSUME NEW r \in Rows, AssignRead(q, r, u) PROVE GoodSlot(q)
  BY <1>0, <1>6, EmptySlot DEF AssignRead, Idle
<1>7. ASSUME NEW r \in Rows, NEW uploaded \in Stamps, EvidenceRead(q, u, r, uploaded)
      PROVE  GoodSlot(q)
  BY <1>0, <1>7, EmptySlot DEF EvidenceRead, Idle
<1>8. ASSUME NEW S \in SUBSET Rows, BulkRead(q, u, S) PROVE GoodSlot(q)
  BY <1>0, <1>8, EmptySlot DEF BulkRead, Idle
<1> QED
  BY <1>1, <1>2, <1>3, <1>4, <1>5, <1>6, <1>7, <1>8
  DEF ReopenBegin, SaveAnswersBegin, reopenChange

\* A request in flight lets go of what it holds, or is a batch that takes the
\* smallest row it still has to take.
LEMMA ContinueSlot ==
  ASSUME TypeOK, LockDiscipline, DecidedUnderLock, NEW q \in Requests, Continue(q)
  PROVE  GoodSlot(q)
<1>0. req \in [Requests -> Request] /\ WellLocked(req[q]) /\ Decided(req[q])
  BY DEF TypeOK, LockDiscipline, DecidedUnderLock
<1>1. ASSUME NEW r \in Rows, SignOffCommit(q, r) PROVE GoodSlot(q)
  <2>1. /\ \A p \in Requests : p # q => req'[p] = req[p]
        /\ req'[q].held = {} /\ req'[q].op \in {"idle", "credit"}
    BY <1>0, <1>1 DEF SignOffCommit, ThenCredit, Idle
  <2> QED
    BY <2>1, EmptySlot
<1>2. ASSUME NEW r \in Rows, BatchTake(q, r) PROVE GoodSlot(q)
  <2>1. /\ \A p \in Requests : p # q => req'[p] = req[p]
        /\ ~Locked(r) /\ UNCHANGED rowVars
        /\ req[q].op = "tx" /\ IsNext(q, r)
    BY <1>0, <1>2 DEF BatchTake, TakeRow
  <2>2. /\ req'[q].op = "tx" /\ req'[q].todo = req[q].todo \ {r}
        /\ req'[q].held = IF Done(r) THEN req[q].held ELSE req[q].held \cup {r}
        /\ req'[q].next = IF Done(r) THEN req[q].next
                          ELSE [req[q].next EXCEPT ![r] = nextVersion(r)]
    BY <1>0, <1>2 DEF BatchTake, TakeRow, Request
  <2>3. req[q].held \subseteq Rows /\ req[q].todo \subseteq Rows /\ req[q].next \in [Rows -> Nat]
    BY <1>0 DEF Request
  <2>4. WellLocked(req'[q])
    <3>1. ASSUME NEW h \in req'[q].held, NEW s \in req'[q].todo PROVE h < s
      <4>1. s \in req[q].todo /\ s # r /\ r <= s /\ r \in Nat /\ s \in Nat
        BY <2>1, <2>2, <2>3, <3>1, RowsAssumption DEF IsNext
      <4>2. h = r \/ h \in req[q].held
        BY <2>2, <3>1
      <4> QED
        BY <1>0, <2>1, <4>1, <4>2 DEF WellLocked
    <3> QED
      BY <2>2, <3>1 DEF WellLocked
  <2>5. ASSUME NEW s \in req'[q].held
        PROVE  req'[q].next[s] = nextVersion(s) /\ ~Done(s)
    BY <1>0, <2>1, <2>2, <2>3, <2>5 DEF Decided
  <2>6. Decided(req[q])'
    BY <2>1, <2>2, <2>3, <2>5, RowsStill DEF Decided
  <2> QED
    BY <2>1, <2>2, <2>4, <2>6 DEF GoodSlot
<1>3. CASE CreditRead(q)
  BY <1>0, <1>3, EmptySlot DEF CreditRead, WellLocked, Request
<1>4. CASE RosterRead(q)
  BY <1>0, <1>4, EmptySlot DEF RosterRead, WellLocked, Request
<1>5. ASSUME \/ \E r \in Rows : \/ SignOffPartial(q, r) \/ SetStatusWrite(q, r)
                                \/ WithdrawCommit(q, r) \/ EvidenceWrite(q, r)
                                \/ \E who \in Users : AssignWrite(q, r, who)
             \/ BatchCommit(q)
      PROVE  GoodSlot(q)
  BY <1>5, IdleSlot
  DEF SignOffPartial, SetStatusWrite, WithdrawCommit, EvidenceWrite, AssignWrite, BatchCommit
<1> QED
  BY <1>1, <1>2, <1>3, <1>4, <1>5 DEF Continue

\* What a step leaves alone for whoever holds row r: its status, its signature and
\* its chain, and, if the holder signs, who has to sign.
Stands(q, r) ==
    /\ status'[r] = status[r]
    /\ signature'[r] = signature[r]
    /\ history'[r] = history[r]
    /\ req[q].op \in {"sign", "confirm"} =>
         \A u \in Users : signers'[r][u] = "pending" => signers[r][u] = "pending"

\* No request writes a row that another one holds.
LEMMA ContinueStands ==
  ASSUME TypeOK, LockDiscipline, NEW p \in Requests, Continue(p),
         NEW q \in Requests, p # q, NEW r \in req[q].held
  PROVE  Stands(q, r)
<1>0. r \in Rows /\ r \notin req[p].held /\ Locked(r)
  BY DEF TypeOK, Request, LockDiscipline, Locked
<1> USE DEF TypeOK
<1>1. ASSUME NEW s \in Rows, SignOffPartial(p, s) PROVE Stands(q, r)
  BY <1>0, <1>1 DEF SignOffPartial, Receipt, Stands
<1>2. ASSUME NEW s \in Rows, SignOffCommit(p, s) PROVE Stands(q, r)
  BY <1>0, <1>2 DEF SignOffCommit, Complete, CompleteRow, Receipt, Stands
<1>3. ASSUME NEW s \in Rows, SetStatusWrite(p, s) PROVE Stands(q, r)
  BY <1>0, <1>3 DEF SetStatusWrite, Stands
<1>4. ASSUME NEW s \in Rows, WithdrawCommit(p, s) PROVE Stands(q, r)
  BY <1>0, <1>4 DEF WithdrawCommit, Stands
<1>5. ASSUME NEW s \in Rows, EvidenceWrite(p, s) PROVE Stands(q, r)
  BY <1>0, <1>5 DEF EvidenceWrite, Stands
<1>6. ASSUME NEW s \in Rows, NEW who \in Users, AssignWrite(p, s, who) PROVE Stands(q, r)
  BY <1>0, <1>6 DEF AssignWrite, LockedForUpdate, Stands
<1>7. CASE BatchCommit(p)
  BY <1>0, <1>7 DEF BatchCommit, Complete, CompleteRow, Stands
<1>8. ASSUME UNCHANGED rowVars PROVE Stands(q, r)
  BY <1>8 DEF rowVars, Stands
<1> QED
  BY <1>1, <1>2, <1>3, <1>4, <1>5, <1>6, <1>7, <1>8
  DEF Continue, BatchTake, TakeRow, CreditRead, RosterRead

\* Nor does anything that is not a request.
LEMMA OtherStands ==
  ASSUME TypeOK, Direct \/ Background, NEW q \in Requests, NEW r \in req[q].held
  PROVE  Stands(q, r)
<1>0. r \in Rows /\ Locked(r)
  BY DEF TypeOK, Request, Locked
<1> USE DEF TypeOK
<1>1. ASSUME NEW u \in Users, NEW s \in Rows, SaveAnswersUnsigned(u, s) PROVE Stands(q, r)
  BY <1>0, <1>1 DEF SaveAnswersUnsigned, Stands
<1>2. ASSUME NEW u \in Users, NEW s \in Rows, Approve(u, s) \/ Reject(u, s) PROVE Stands(q, r)
  BY <1>0, <1>2 DEF Approve, Reject, Decide, Stands
<1>3. ASSUME NEW u \in Users, NEW s \in Rows, Unassign(s, u) PROVE Stands(q, r)
  BY <1>0, <1>3 DEF Unassign, Stands
<1>4. ASSUME NEW u \in Users, RemoveMember(u) PROVE Stands(q, r)
  BY <1>0, <1>4 DEF RemoveMember, Stands
<1>5. ASSUME NEW s \in Rows, CronWrite(s) PROVE Stands(q, r)
  BY <1>0, <1>5 DEF CronWrite, Stands
<1>6. ASSUME NEW c \in Changes, RecheckWrite(c) PROVE Stands(q, r)
  BY <1>0, <1>6 DEF RecheckWrite, Stands
<1>7. ASSUME UNCHANGED rowVars PROVE Stands(q, r)
  BY <1>7 DEF rowVars, Stands
<1> QED
  BY <1>1, <1>2, <1>3, <1>4, <1>5, <1>6, <1>7
  DEF Direct, Background, CronRead, DataChange, RecheckRead

\* A holder's decision stands with its rows.
LEMMA DecisionStands ==
  ASSUME TypeOK, NEW q \in Requests, Decided(req[q]), req'[q] = req[q],
         \A r \in req[q].held : Stands(q, r)
  PROVE  Decided(req[q])'
<1> SUFFICES ASSUME NEW r \in req[q].held
             PROVE  /\ nextVersion(r)' = nextVersion(r)
                    /\ Done(r)' = Done(r)
                    /\ status'[r] = status[r]
                    /\ req[q].op \in {"sign", "confirm"}
                         => pendingSignersOf(r)' \subseteq pendingSignersOf(r)
  BY DEF Decided
<1> QED
  BY DEF Stands, nextVersion, Done, pendingSignersOf

\* A request that starts writes no row.
LEMMA BeginReads ==
  ASSUME NEW q \in Requests, Begin(q)
  PROVE  UNCHANGED rowVars
<1>1. PICK u \in Users : \/ \E r \in Rows :
                             \/ SignOffBegin(q, u, r)
                             \/ ConfirmBegin(q, u, r)
                             \/ WithdrawBegin(q, u, r)
                             \/ \E to \in MANUAL_STATUSES : SetStatusRead(q, u, r, to)
                             \/ AssignRead(q, r, u)
                             \/ \E uploaded \in Stamps : EvidenceRead(q, u, r, uploaded)
                         \/ \E S \in SUBSET Rows : BulkRead(q, u, S)
  BY DEF Begin, ReopenBegin, SaveAnswersBegin
<1>2. ASSUME NEW r \in Rows, \/ SignOffBegin(q, u, r) \/ ConfirmBegin(q, u, r)
                             \/ WithdrawBegin(q, u, r) \/ AssignRead(q, r, u)
      PROVE  UNCHANGED rowVars
  BY <1>2 DEF SignOffBegin, ConfirmBegin, WithdrawBegin, AssignRead
<1>3. ASSUME NEW r \in Rows, NEW to \in MANUAL_STATUSES, SetStatusRead(q, u, r, to)
      PROVE  UNCHANGED rowVars
  BY <1>3 DEF SetStatusRead
<1>4. ASSUME NEW r \in Rows, NEW uploaded \in Stamps, EvidenceRead(q, u, r, uploaded)
      PROVE  UNCHANGED rowVars
  BY <1>4 DEF EvidenceRead
<1>5. ASSUME NEW S \in SUBSET Rows, BulkRead(q, u, S) PROVE UNCHANGED rowVars
  BY <1>5 DEF BulkRead
<1> QED
  BY <1>1, <1>2, <1>3, <1>4, <1>5

\* Locks are kept, and what was decided under them stays so.
LEMMA LocksKept ==
  ASSUME TypeOK, LockDiscipline, DecidedUnderLock, [Next]_vars
  PROVE  LockDiscipline' /\ DecidedUnderLock'
<1>1. ASSUME NEW q \in Requests, GoodSlot(q),
             \A p \in Requests : p # q => \A r \in req[p].held : Stands(p, r)
      PROVE  LockDiscipline' /\ DecidedUnderLock'
  <2>1. \A p \in Requests : p # q => req'[p] = req[p] /\ WellLocked(req[p]) /\ Decided(req[p])
    BY <1>1 DEF GoodSlot, LockDiscipline, DecidedUnderLock
  <2>2. \A p \in Requests : p # q => Decided(req[p])'
    BY <1>1, <2>1, DecisionStands
  <2>3. \A p \in Requests : p # q => req[p].held \cap req'[q].held = {}
    BY <1>1 DEF GoodSlot, LockDiscipline, Locked
  <2>4. LockDiscipline'
    BY <1>1, <2>1, <2>3 DEF GoodSlot, LockDiscipline
  <2>5. DecidedUnderLock'
    BY <1>1, <2>2 DEF GoodSlot, DecidedUnderLock
  <2> QED
    BY <2>4, <2>5
<1>2. ASSUME req' = req, \A p \in Requests : \A r \in req[p].held : Stands(p, r)
      PROVE  LockDiscipline' /\ DecidedUnderLock'
  <2>1. LockDiscipline'
    BY <1>2 DEF LockDiscipline
  <2>2. DecidedUnderLock'
    BY <1>2, DecisionStands DEF DecidedUnderLock
  <2> QED
    BY <2>1, <2>2
<1>3. ASSUME UNCHANGED rowVars
      PROVE  \A p \in Requests : \A r \in req[p].held : Stands(p, r)
  BY <1>3 DEF rowVars, Stands
<1>4. ASSUME NEW q \in Requests, Begin(q) PROVE LockDiscipline' /\ DecidedUnderLock'
  <2>1. UNCHANGED rowVars
    BY <1>4, BeginReads
  <2> QED
    BY <1>1, <1>3, <1>4, <2>1, BeginSlot
<1>5. ASSUME NEW q \in Requests, Continue(q) PROVE LockDiscipline' /\ DecidedUnderLock'
  BY <1>1, <1>5, ContinueSlot, ContinueStands
<1>6. ASSUME NEW q \in Requests, Abandon(q) PROVE LockDiscipline' /\ DecidedUnderLock'
  BY <1>1, <1>3, <1>6, IdleSlot DEF Abandon
<1>7. CASE Direct \/ Background
  <2>1. req' = req
    BY <1>7 DEF Direct, Background, SaveAnswersUnsigned, Approve, Reject, Decide, Unassign,
                RemoveMember, CronRead, CronWrite, DataChange, RecheckRead, RecheckWrite
  <2> QED
    BY <1>2, <1>7, <2>1, OtherStands
<1>8. CASE Restart
  <2>1. \A q \in Requests : req'[q].held = {} /\ req'[q].op = "idle"
    BY <1>8 DEF Restart, Idle
  <2> QED
    BY <2>1 DEF LockDiscipline, DecidedUnderLock, WellLocked, Decided
<1>9. CASE UNCHANGED vars
  BY <1>2, <1>3, <1>9 DEF vars
<1> QED
  BY <1>4, <1>5, <1>6, <1>7, <1>8, <1>9 DEF Next

----------------------------------------------------------------------------
(* What one step does to the rows *)

\* The record of row r: its chain is numbered and vouches for its signature.
RowVouched(r) ==
    /\ \A i \in 1 .. Len(history[r]) : history[r][i].version = i
    /\ signature[r] # Nobody => /\ history[r] # <<>>
                                /\ history[r][Len(history[r])].by = signature[r].by

\* Row r claims no more and no less than its signature allows.
RowAgrees(r) ==
    /\ status[r] \in {"completed", "approved", "rejected"} => signature[r] # Nobody
    /\ status[r] = "not_started" => signature[r] = Nobody

\* The next version at the end of a chain keeps it numbered and vouched for.
LEMMA AppendChain ==
  ASSUME NEW h \in Seq(ChainEntries), \A i \in 1 .. Len(h) : h[i].version = i,
         NEW e \in ChainEntries, e.version = Len(h) + 1
  PROVE  /\ \A i \in 1 .. Len(Append(h, e)) : Append(h, e)[i].version = i
         /\ Append(h, e) # <<>>
         /\ Append(h, e)[Len(Append(h, e))] = e
<1>1. /\ Len(Append(h, e)) = Len(h) + 1 /\ Len(h) \in Nat
      /\ \A i \in 1 .. Len(h) : Append(h, e)[i] = h[i]
      /\ Append(h, e)[Len(h) + 1] = e
  OBVIOUS
<1>2. ASSUME NEW i \in 1 .. Len(Append(h, e)) PROVE Append(h, e)[i].version = i
  <2>1. i \in 1 .. Len(h) \/ i = Len(h) + 1
    BY <1>1
  <2> QED
    BY <1>1, <2>1
<1>3. Append(h, e) # <<>>
  <2>1. Len(Append(h, e)) # 0 /\ Len(<<>>) = 0
    BY <1>1
  <2> QED
    BY <2>1
<1> QED
  BY <1>1, <1>2, <1>3

\* Completing the rows a request holds records each signature with its entry.
LEMMA CompleteRows ==
  ASSUME TypeOK, ChainVouchesForSignature, StatusAgreesWithSignature,
         NEW q \in Requests, req[q].op \in {"sign", "confirm", "tx"}, Decided(req[q]),
         NEW stamp \in Stamps, Complete(q, stamp)
  PROVE  ChainVouchesForSignature' /\ StatusAgreesWithSignature'
<1>1. req[q] \in Request /\ req[q].user \in Users
  BY DEF TypeOK, WellFormed, SigningOps
<1>2. ASSUME NEW r \in Rows, r \in req[q].held PROVE RowVouched(r)' /\ RowAgrees(r)'
  <2> DEFINE e == [version |-> req[q].next[r], by |-> req[q].user]
  <2>1. /\ status'[r] = "completed"
        /\ signature'[r] = [by |-> req[q].user, at |-> stamp]
        /\ history'[r] = Append(history[r], e)
    BY <1>2 DEF Complete, CompleteRow
  <2>2. signature'[r] # Nobody /\ signature'[r].by = req[q].user
    <3>1. [by |-> req[q].user, at |-> stamp] \in [by : Users, at : Nat]
      BY <1>1 DEF Stamps
    <3> QED
      BY <2>1, <3>1, NobodyAssumption
  <2>3. e \in ChainEntries /\ e.version = Len(history[r]) + 1 /\ e.by = req[q].user
    BY <1>1, <1>2 DEF Decided, nextVersion, ChainEntries, Request
  <2>4. history[r] \in Seq(ChainEntries)
    BY DEF TypeOK
  <2>5. \A i \in 1 .. Len(history[r]) : history[r][i].version = i
    BY DEF ChainVouchesForSignature
  <2> HIDE DEF e
  <2>6. /\ \A i \in 1 .. Len(history'[r]) : history'[r][i].version = i
        /\ history'[r] # <<>>
        /\ history'[r][Len(history'[r])] = e
    BY <2>1, <2>3, <2>4, <2>5, AppendChain
  <2> QED
    BY <2>1, <2>2, <2>3, <2>6 DEF RowVouched, RowAgrees
<1>3. ASSUME NEW r \in Rows, r \notin req[q].held PROVE RowVouched(r)' /\ RowAgrees(r)'
  <2>1. status'[r] = status[r] /\ signature'[r] = signature[r] /\ history'[r] = history[r]
    BY <1>3 DEF Complete, CompleteRow
  <2> QED
    BY <2>1 DEF ChainVouchesForSignature, StatusAgreesWithSignature, RowVouched, RowAgrees
<1> QED
  BY <1>2, <1>3 DEF ChainVouchesForSignature, StatusAgreesWithSignature, RowVouched, RowAgrees

\* A step that signs nothing may take signatures away with their rows put back in
\* progress, and may move a status where the signature allows it.
LEMMA UnsigningRows ==
  ASSUME ChainVouchesForSignature, StatusAgreesWithSignature,
         UNCHANGED history,
         \A r \in Rows : \/ signature'[r] = signature[r] /\ (status'[r] = status[r] \/ RowAgrees(r)')
                         \/ signature'[r] = Nobody /\ status'[r] = "in_progress"
  PROVE  ChainVouchesForSignature' /\ StatusAgreesWithSignature'
  BY DEF ChainVouchesForSignature, StatusAgreesWithSignature, RowAgrees

\* The row invariants are kept by every step.
LEMMA RowsKept ==
  ASSUME TypeOK, DecidedUnderLock, ChainVouchesForSignature, StatusAgreesWithSignature,
         [Next]_vars
  PROVE  ChainVouchesForSignature' /\ StatusAgreesWithSignature'
<1>0. /\ status \in [Rows -> Statuses] /\ signature \in [Rows -> Signatures \cup {Nobody}]
      /\ \A q \in Requests : req[q] \in Request /\ WellFormed(req[q]) /\ Decided(req[q])
  BY DEF TypeOK, DecidedUnderLock
<1>1. ASSUME UNCHANGED rowVars
      PROVE  ChainVouchesForSignature' /\ StatusAgreesWithSignature'
  BY <1>1 DEF rowVars, ChainVouchesForSignature, StatusAgreesWithSignature
<1>2. ASSUME NEW q \in Requests, NEW r \in Rows, SignOffPartial(q, r)
      PROVE  ChainVouchesForSignature' /\ StatusAgreesWithSignature'
  BY <1>0, <1>2, UnsigningRows DEF SignOffPartial, RowAgrees
<1>3. ASSUME NEW q \in Requests, NEW r \in Rows, SignOffCommit(q, r)
      PROVE  ChainVouchesForSignature' /\ StatusAgreesWithSignature'
  <2>1. PICK stamp \in req[q].at .. clock : Complete(q, stamp)
    BY <1>3 DEF SignOffCommit
  <2>2. stamp \in Stamps /\ req[q].op \in {"sign", "confirm", "tx"}
    BY <1>0, <1>3, BoundAssumption DEF SignOffCommit, TypeOK, Request, Stamps
  <2> QED
    BY <1>0, <2>1, <2>2, CompleteRows
<1>4. ASSUME NEW q \in Requests, BatchCommit(q)
      PROVE  ChainVouchesForSignature' /\ StatusAgreesWithSignature'
  <2>1. req[q].at \in Stamps /\ req[q].op = "tx" /\ Complete(q, req[q].at)
    BY <1>0, <1>4 DEF BatchCommit, Request
  <2> QED
    BY <1>0, <2>1, CompleteRows
<1>5. ASSUME NEW q \in Requests, NEW r \in Rows, SetStatusWrite(q, r)
      PROVE  ChainVouchesForSignature' /\ StatusAgreesWithSignature'
  <2>1. req[q].arg \in {"not_started", "in_progress", "not_applicable"}
    BY <1>0, <1>5 DEF SetStatusWrite, WellFormed, MANUAL_STATUSES, WORK_STATUSES
  <2>2. UNCHANGED <<signature, history>>
    BY <1>5 DEF SetStatusWrite
  <2>3. ASSUME NEW s \in Rows PROVE status'[s] = status[s] \/ RowAgrees(s)'
    BY <1>0, <1>5, <2>1, <2>2 DEF SetStatusWrite, StillUnsigned, RowAgrees
  <2> QED
    BY <2>2, <2>3, UnsigningRows
<1>6. ASSUME NEW q \in Requests, NEW r \in Rows, WithdrawCommit(q, r)
      PROVE  ChainVouchesForSignature' /\ StatusAgreesWithSignature'
  BY <1>0, <1>6, UnsigningRows DEF WithdrawCommit
<1>7. ASSUME NEW q \in Requests, NEW r \in Rows, EvidenceWrite(q, r)
      PROVE  ChainVouchesForSignature' /\ StatusAgreesWithSignature'
  BY <1>0, <1>7, UnsigningRows DEF EvidenceWrite, RowAgrees
<1>8. ASSUME NEW q \in Requests, NEW r \in Rows, NEW who \in Users, AssignWrite(q, r, who)
      PROVE  ChainVouchesForSignature' /\ StatusAgreesWithSignature'
  BY <1>8, UnsigningRows DEF AssignWrite
<1>9. ASSUME NEW q \in Requests, Continue(q)
      PROVE  ChainVouchesForSignature' /\ StatusAgreesWithSignature'
  BY <1>1, <1>2, <1>3, <1>4, <1>5, <1>6, <1>7, <1>8, <1>9
  DEF Continue, BatchTake, TakeRow, CreditRead, RosterRead
<1>10. ASSUME NEW u \in Users, NEW r \in Rows, SaveAnswersUnsigned(u, r)
       PROVE  ChainVouchesForSignature' /\ StatusAgreesWithSignature'
  BY <1>0, <1>10, UnsigningRows DEF SaveAnswersUnsigned, RowAgrees
<1>11. ASSUME NEW u \in Users, NEW r \in Rows, Approve(u, r) \/ Reject(u, r)
       PROVE  ChainVouchesForSignature' /\ StatusAgreesWithSignature'
  <2>1. PICK verdict \in {"approved", "rejected"} : Decide(u, r, verdict)
    BY <1>11 DEF Approve, Reject
  <2>2. signature[r] # Nobody
    BY <2>1 DEF Decide, StatusAgreesWithSignature
  <2> QED
    BY <1>0, <2>1, <2>2, UnsigningRows DEF Decide, RowAgrees
<1>12. ASSUME NEW u \in Users, NEW r \in Rows, Unassign(r, u)
       PROVE  ChainVouchesForSignature' /\ StatusAgreesWithSignature'
  BY <1>12, UnsigningRows DEF Unassign
<1>13. ASSUME NEW u \in Users, RemoveMember(u)
       PROVE  ChainVouchesForSignature' /\ StatusAgreesWithSignature'
  BY <1>13, UnsigningRows DEF RemoveMember
<1>14. ASSUME NEW r \in Rows, CronWrite(r)
       PROVE  ChainVouchesForSignature' /\ StatusAgreesWithSignature'
  BY <1>0, <1>14, UnsigningRows DEF CronWrite, RowAgrees
<1>15. ASSUME NEW c \in Changes, RecheckWrite(c)
       PROVE  ChainVouchesForSignature' /\ StatusAgreesWithSignature'
  BY <1>0, <1>15, UnsigningRows DEF RecheckWrite, RowAgrees
<1>16. CASE Direct \/ Background
  BY <1>1, <1>10, <1>11, <1>12, <1>13, <1>14, <1>15, <1>16
  DEF Direct, Background, CronRead, DataChange, RecheckRead
<1>17. CASE \E q \in Requests : Begin(q) \/ Abandon(q)
  BY <1>1, <1>17, BeginReads DEF Abandon
<1>18. CASE Restart \/ UNCHANGED vars
  BY <1>1, <1>18 DEF Restart, vars
<1> QED
  BY <1>9, <1>16, <1>17, <1>18 DEF Next

----------------------------------------------------------------------------
(* Theorems *)

\* The inductive invariant: types, one holder per row, what each holder decided
\* still true, and each row's record and status in agreement with its signature.
THEOREM Safety == Spec => []SafetyInv
<1>1. Init => SafetyInv
  <2> SUFFICES ASSUME Init PROVE SafetyInv
    OBVIOUS
  <2>1. TypeOK
    BY InitType
  <2>2. \A q \in Requests : req[q].held = {} /\ req[q].op = "idle"
    BY DEF Init, Idle
  <2>3. LockDiscipline /\ DecidedUnderLock
    BY <2>2 DEF LockDiscipline, DecidedUnderLock, WellLocked, Decided
  <2>4. ChainVouchesForSignature /\ StatusAgreesWithSignature
    BY DEF Init, ChainVouchesForSignature, StatusAgreesWithSignature
  <2> QED
    BY <2>1, <2>3, <2>4 DEF SafetyInv
<1>2. SafetyInv /\ [Next]_vars => SafetyInv'
  BY StepType, LocksKept, RowsKept DEF SafetyInv
<1> QED
  BY <1>1, <1>2, PTL DEF Spec

\* The chain of every row stays numbered, and vouches for the row's signature.
THEOREM ChainVouches == Spec => []ChainVouchesForSignature
<1>1. SafetyInv => ChainVouchesForSignature
  BY DEF SafetyInv
<1> QED
  BY <1>1, Safety, PTL

\* No race leaves a row's status and its signature apart.
THEOREM StatusAgrees == Spec => []StatusAgreesWithSignature
<1>1. SafetyInv => StatusAgreesWithSignature
  BY DEF SafetyInv
<1> QED
  BY <1>1, Safety, PTL

\* What a request decided when it locked its rows holds until it writes them.
THEOREM DecisionsHold == Spec => []DecidedUnderLock
<1>1. SafetyInv => DecidedUnderLock
  BY DEF SafetyInv
<1> QED
  BY <1>1, Safety, PTL

----------------------------------------------------------------------------
(* What it says of steps *)

\* A step after which the chains and the signatures are what they were.
RecordStands == UNCHANGED <<signature, history>>

\* Only three kinds of step touch the record.
LEMMA RecordSteps ==
  ASSUME [Next]_vars
  PROVE  \/ RecordStands
         \/ \E q \in Requests, r \in Rows : SignOffCommit(q, r) \/ WithdrawCommit(q, r)
         \/ \E q \in Requests : BatchCommit(q)
<1>1. ASSUME UNCHANGED rowVars PROVE RecordStands
  BY <1>1 DEF rowVars, RecordStands
<1>2. ASSUME NEW q \in Requests, Continue(q)
      PROVE  \/ RecordStands
             \/ \E r \in Rows : SignOffCommit(q, r) \/ WithdrawCommit(q, r)
             \/ BatchCommit(q)
  <2>1. ASSUME NEW r \in Rows, \/ SignOffPartial(q, r) \/ SetStatusWrite(q, r)
                               \/ EvidenceWrite(q, r)
                               \/ \E who \in Users : AssignWrite(q, r, who)
        PROVE  RecordStands
    BY <2>1 DEF SignOffPartial, SetStatusWrite, EvidenceWrite, AssignWrite, RecordStands
  <2>2. ASSUME \/ \E r \in Rows : BatchTake(q, r)
               \/ CreditRead(q) \/ RosterRead(q)
        PROVE  RecordStands
    BY <1>1, <2>2 DEF BatchTake, TakeRow, CreditRead, RosterRead
  <2> QED
    BY <1>2, <2>1, <2>2 DEF Continue
<1>3. CASE Direct
  BY <1>3 DEF Direct, SaveAnswersUnsigned, Approve, Reject, Decide, Unassign, RemoveMember,
              RecordStands
<1>4. CASE Background
  BY <1>1, <1>4
  DEF Background, CronRead, CronWrite, DataChange, RecheckRead, RecheckWrite, RecordStands
<1>5. CASE \E q \in Requests : Begin(q) \/ Abandon(q)
  BY <1>1, <1>5, BeginReads DEF Abandon
<1>6. CASE Restart \/ UNCHANGED vars
  BY <1>1, <1>6 DEF Restart, vars
<1> QED
  BY <1>2, <1>3, <1>4, <1>5, <1>6 DEF Next

----------------------------------------------------------------------------
(* Action properties *)

\* No batch signs over a row that somebody has decided since the batch read it.
THEOREM BatchesSkipDecided == Spec => BatchSkipsDecided
<1>1. ASSUME SafetyInv, NEW q \in Requests, NEW r \in Rows, SignsNow(q, r), req[q].op = "tx"
      PROVE  ~Done(r)
  BY <1>1 DEF SafetyInv, DecidedUnderLock, Decided, SignsNow
<1>2. SafetyInv =>
        \A q \in Requests, r \in Rows : SignsNow(q, r) /\ req[q].op = "tx" => ~Done(r)
  BY <1>1
<1> QED
  BY <1>2, Safety, PTL DEF BatchSkipsDecided

\* An approval and the signature under it fall only to someone with review access.
THEOREM ApprovalsFallToReviewers == Spec => ApprovalWithdrawnByReviewer
<1>1. ASSUME SafetyInv, [Next]_vars, NEW r \in Rows,
             status[r] = "approved", signature[r] # Nobody, signature'[r] = Nobody
      PROVE  \E q \in Requests : r \in req[q].held /\ req[q].user \in Reviewers
  <2>1. TypeOK /\ DecidedUnderLock
    BY <1>1 DEF SafetyInv
  <2>2. ~RecordStands
    BY <1>1 DEF RecordStands
  <2>3. ASSUME NEW q \in Requests, NEW stamp \in Stamps, WellFormed(req[q]),
               req[q].op \in SigningOps, Complete(q, stamp)
        PROVE  FALSE
    <3>1. [by |-> req[q].user, at |-> stamp] \in [by : Users, at : Nat]
      BY <2>3 DEF WellFormed, Stamps
    <3>2. signature'[r] = [by |-> req[q].user, at |-> stamp] \/ signature'[r] = signature[r]
      BY <2>3 DEF Complete, CompleteRow
    <3> QED
      BY <1>1, <3>1, <3>2, NobodyAssumption
  <2>4. ASSUME NEW q \in Requests, NEW s \in Rows, SignOffCommit(q, s) PROVE FALSE
    <3>1. PICK stamp \in req[q].at .. clock : Complete(q, stamp)
      BY <2>4 DEF SignOffCommit
    <3>2. stamp \in Stamps /\ req[q].op \in SigningOps /\ WellFormed(req[q])
      BY <2>1, <2>4, BoundAssumption DEF SignOffCommit, TypeOK, Request, Stamps, SigningOps
    <3> QED
      BY <2>3, <3>1, <3>2
  <2>5. ASSUME NEW q \in Requests, BatchCommit(q) PROVE FALSE
    <3>1. req[q].at \in Stamps /\ req[q].op \in SigningOps /\ WellFormed(req[q])
      BY <2>1, <2>5 DEF BatchCommit, TypeOK, Request, SigningOps
    <3> QED
      BY <2>3, <2>5, <3>1 DEF BatchCommit
  <2>6. PICK q \in Requests, s \in Rows : WithdrawCommit(q, s)
    BY <1>1, <2>2, <2>4, <2>5, RecordSteps
  <2>7. r = s /\ r \in req[q].held /\ req[q].op = "withdraw"
    BY <1>1, <2>1, <2>6 DEF WithdrawCommit, TypeOK
  <2> QED
    BY <1>1, <2>1, <2>7 DEF DecidedUnderLock, Decided
<1>2. SafetyInv /\ [Next]_vars =>
        \A r \in Rows :
          status[r] = "approved" /\ signature[r] # Nobody /\ signature'[r] = Nobody
          => \E q \in Requests : r \in req[q].held /\ req[q].user \in Reviewers
  BY <1>1
<1> QED
  BY <1>2, Safety, PTL DEF ApprovalWithdrawnByReviewer, Spec

\* Whoever closes a row through its roster, or signs it alone, leaves no assigned
\* signer of it behind.
THEOREM ClosingLeavesNobody == Spec => ClosingLeavesNobodyToSign
<1>1. ASSUME SafetyInv, [Next]_vars, NEW q \in Requests, NEW r \in Rows,
             SignsNow(q, r), req[q].op \in {"sign", "confirm"}
      PROVE  \A u \in Users : signers'[r][u] # "pending"
  <2>1. TypeOK /\ LockDiscipline /\ DecidedUnderLock /\ WellLocked(req[q]) /\ Decided(req[q])
    BY <1>1 DEF SafetyInv, LockDiscipline, DecidedUnderLock
  <2>2. r \in req[q].held /\ history'[r] # history[r]
    BY <1>1 DEF SignsNow
  <2>3. ASSUME NEW p \in Requests, p # q, Continue(p) PROVE FALSE
    BY <2>1, <2>2, <2>3, ContinueStands DEF Stands
  <2>4. ~RecordStands
    BY <2>2 DEF RecordStands
  <2>5. ASSUME NEW p \in Requests, NEW s \in Rows, WithdrawCommit(p, s) PROVE FALSE
    BY <2>2, <2>5 DEF WithdrawCommit
  <2>6. PICK s \in Rows : SignOffCommit(q, s)
    <3>1. ASSUME NEW p \in Requests, NEW s \in Rows, SignOffCommit(p, s) PROVE p = q
      BY <2>3, <3>1 DEF Continue
    <3>2. ASSUME NEW p \in Requests, BatchCommit(p) PROVE FALSE
      <4>1. p = q
        BY <2>3, <3>2 DEF Continue
      <4> QED
        BY <1>1, <3>2, <4>1 DEF BatchCommit
    <3> QED
      BY <1>1, <2>4, <2>5, <3>1, <3>2, RecordSteps
  <2>7. s = r /\ req[q].arg \in {"roster", "alone"}
    BY <1>1, <2>1, <2>2, <2>6 DEF WellLocked, SignOffCommit
  <2>8. \A u \in Users : signers[r][u] = "pending" => u = req[q].user
    BY <1>1, <2>1, <2>2, <2>6, <2>7 DEF SignOffCommit, Decided, pendingSignersOf
  <2>9. /\ signers' = [signers EXCEPT ![r] = [signers[r] EXCEPT ![req[q].user] = "signed"]]
        /\ signers \in [Rows -> [Users -> {"none", "pending", "signed"}]]
    BY <2>1, <2>6, <2>7 DEF SignOffCommit, Receipt, TypeOK
  <2> QED
    BY <2>8, <2>9
<1>2. SafetyInv /\ [Next]_vars =>
        \A q \in Requests, r \in Rows :
          SignsNow(q, r) /\ req[q].op \in {"sign", "confirm"}
          => \A u \in Users : signers'[r][u] # "pending"
  BY <1>1
<1> QED
  BY <1>2, Safety, PTL DEF ClosingLeavesNobodyToSign, Spec

----------------------------------------------------------------------------
(* No deadlock *)

\* Any natural numbers have a least one.
LEMMA LeastNatural ==
  ASSUME NEW T \in SUBSET Nat, T # {}
  PROVE  \E n \in T : \A m \in T : n <= m
<1>1. PICK n \in T : \A m \in T : <<m, n>> \notin OpToRel(<, Nat)
  BY NatLessThanWellFounded, WFMin, Zenon
<1>2. ASSUME NEW m \in T PROVE n <= m
  <2>1. m \in Nat /\ n \in Nat /\ <<m, n>> \notin OpToRel(<, Nat)
    BY <1>1
  <2> QED
    BY <2>1, SMT DEF OpToRel
<1> QED
  BY <1>2

\* Any rows have a last one in lock order.
LEMMA LastRow ==
  ASSUME NEW M \in SUBSET Rows, M # {}
  PROVE  \E r \in M : \A s \in M : s <= r
<1> DEFINE above(r) == {s \in M : s > r}
           sizes == {Cardinality(above(r)) : r \in M}
<1>1. IsFiniteSet(M) /\ M \subseteq Nat
  BY RowsAssumption, FS_Subset
<1>2. \A r \in M : IsFiniteSet(above(r)) /\ Cardinality(above(r)) \in Nat
  BY <1>1, FS_Subset, FS_CardinalityType
<1>3. PICK r \in M : \A s \in M : Cardinality(above(r)) <= Cardinality(above(s))
  <2>1. sizes \subseteq Nat /\ sizes # {}
    BY <1>2
  <2>2. PICK n \in sizes : \A m \in sizes : n <= m
    <3> HIDE DEF sizes
    <3> QED
      BY <2>1, LeastNatural
  <2>3. PICK r \in M : n = Cardinality(above(r))
    OBVIOUS
  <2> QED
    BY <2>2, <2>3
<1>4. ASSUME NEW s \in M, s > r PROVE FALSE
  <2>1. s \in above(r) /\ s \notin above(s)
    BY <1>1, <1>4
  <2>2. ASSUME NEW t \in above(s) PROVE t \in above(r)
    <3>1. r \in Nat /\ s \in Nat /\ t \in Nat /\ t > s
      BY <1>1
    <3> QED
      BY <1>4, <3>1
  <2>3. Cardinality(above(s)) <= Cardinality(above(r))
        /\ Cardinality(above(s)) # Cardinality(above(r))
    BY <1>2, <2>1, <2>2, FS_Subset
  <2> QED
    BY <1>2, <1>3, <2>3
<1> QED
  BY <1>1, <1>4

\* No set of requests waits on itself: of those that wait, the one that waits for
\* the last row waits for a request that waits for nobody.
THEOREM NoDeadlock == Spec => []NoWaitCycle
<1>1. ASSUME SafetyInv, NEW S \in SUBSET Requests, S # {}
      PROVE  \E p \in S : \A q \in S : ~WaitsFor(p, q)
  <2> DEFINE wanted == {r \in Rows : \E p \in S : req[p].op = "tx" /\ IsNext(p, r)}
  <2>1. /\ \A q \in Requests : WellLocked(req[q])
        /\ \A q \in Requests : req[q].held \subseteq Rows
    BY <1>1 DEF SafetyInv, LockDiscipline, TypeOK, Request
  <2>2. ASSUME NEW p \in S, NEW q \in S, WaitsFor(p, q)
        PROVE  \E r \in wanted : r \in req[q].held /\ IsNext(p, r) /\ req[p].op = "tx"
    BY <2>1, <2>2 DEF WaitsFor
  <2>3. CASE wanted = {}
    BY <1>1, <2>2, <2>3
  <2>4. CASE wanted # {}
    <3>1. PICK r \in wanted : \A s \in wanted : s <= r
      BY <2>4, LastRow
    <3>2. PICK p \in S : req[p].op = "tx" /\ IsNext(p, r)
      OBVIOUS
    <3>3. ASSUME NEW q \in S, WaitsFor(p, q), NEW o \in S, WaitsFor(q, o) PROVE FALSE
      <4>1. PICK r1 \in wanted : r1 \in req[q].held /\ IsNext(p, r1)
        BY <2>2, <3>3
      <4>2. PICK r2 \in wanted : IsNext(q, r2) /\ req[q].op = "tx"
        BY <2>2, <3>3
      <4>3. r \in Nat /\ r1 \in Nat /\ r2 \in Nat
        BY RowsAssumption
      <4>4. r1 = r
        BY <3>2, <4>1, <4>3 DEF IsNext
      <4>5. r1 < r2
        BY <2>1, <4>1, <4>2 DEF WellLocked, IsNext
      <4> QED
        BY <3>1, <4>3, <4>4, <4>5
    <3> QED
      BY <3>2, <3>3
  <2> QED
    BY <2>3, <2>4
<1>2. SafetyInv => NoWaitCycle
  BY <1>1 DEF NoWaitCycle
<1> QED
  BY <1>2, Safety, PTL

----------------------------------------------------------------------------
(* Implementing the attestation ledger *)

\* The row's signer, as the ledger sees it.
Standing == [r \in Rows |-> signerOf(r)]

\* Completing the rows a request holds attests them, in the ledger's terms.
LEMMA CompleteAttests ==
  ASSUME TypeOK, NEW q \in Requests, req[q].op \in {"sign", "confirm", "tx"}, Decided(req[q]),
         NEW stamp \in Stamps, Complete(q, stamp)
  PROVE  Ledger!Next
<1>1. req[q] \in Request /\ req[q].user \in Users
  BY DEF TypeOK, WellFormed, SigningOps
<1>2. req[q].held \in SUBSET Rows
  BY <1>1 DEF Request
<1>3. history' = [r \in Rows |->
                    IF r \in req[q].held
                    THEN Append(history[r], [version |-> Len(history[r]) + 1, by |-> req[q].user])
                    ELSE history[r]]
  BY <1>2 DEF Complete, CompleteRow, Decided, nextVersion
<1>4. ASSUME NEW r \in Rows
      PROVE  signerOf(r)' = IF r \in req[q].held THEN req[q].user ELSE signerOf(r)
  <2>1. CASE r \in req[q].held
    <3>1. signature'[r] = [by |-> req[q].user, at |-> stamp]
      BY <2>1 DEF Complete, CompleteRow
    <3>2. [by |-> req[q].user, at |-> stamp] \in [by : Users, at : Nat]
      BY <1>1 DEF Stamps
    <3> QED
      BY <2>1, <3>1, <3>2, NobodyAssumption DEF signerOf
  <2>2. CASE r \notin req[q].held
    BY <2>2 DEF Complete, CompleteRow, signerOf
  <2> QED
    BY <2>1, <2>2
<1>5. Standing' = [r \in Rows |-> IF r \in req[q].held THEN req[q].user ELSE Standing[r]]
  BY <1>4 DEF Standing
<1>6. Ledger!Attest(req[q].held, req[q].user)
  BY <1>3, <1>5 DEF Ledger!Attest, Standing
<1> QED
  BY <1>1, <1>2, <1>6 DEF Ledger!Next

\* Every step of the sign-off core is a step of the ledger or leaves it alone:
\* a signature and its chain entry land together, whatever is interleaved.
THEOREM ImplementsLedger == Spec => LedgerSpec
<1>1. Init => Ledger!Init
  BY DEF Init, Ledger!Init, signerOf
<1>2. ASSUME SafetyInv, [Next]_vars PROVE [Ledger!Next]_(Ledger!attestationVars)
  <2>1. TypeOK /\ \A q \in Requests : req[q] \in Request /\ Decided(req[q])
    BY <1>2 DEF SafetyInv, DecidedUnderLock, TypeOK
  <2>2. CASE RecordStands
    <3>1. history' = history /\ \A r \in Rows : signerOf(r)' = signerOf(r)
      BY <2>2 DEF RecordStands, signerOf
    <3>2. Standing' = Standing
      BY <3>1 DEF Standing
    <3> QED
      BY <3>1, <3>2 DEF Ledger!attestationVars, Standing
  <2>3. ASSUME NEW q \in Requests, NEW r \in Rows, SignOffCommit(q, r) PROVE Ledger!Next
    <3>1. PICK stamp \in req[q].at .. clock : Complete(q, stamp)
      BY <2>3 DEF SignOffCommit
    <3>2. stamp \in Stamps /\ req[q].op \in {"sign", "confirm", "tx"}
      BY <2>1, <2>3, BoundAssumption DEF SignOffCommit, TypeOK, Request, Stamps
    <3> QED
      BY <2>1, <3>1, <3>2, CompleteAttests
  <2>4. ASSUME NEW q \in Requests, BatchCommit(q) PROVE Ledger!Next
    <3>1. req[q].at \in Stamps /\ req[q].op = "tx" /\ Complete(q, req[q].at)
      BY <2>1, <2>4 DEF BatchCommit, Request
    <3> QED
      BY <2>1, <3>1, CompleteAttests
  <2>5. ASSUME NEW q \in Requests, NEW r \in Rows, WithdrawCommit(q, r) PROVE Ledger!Next
    <3>1. history' = history /\ signature' = [signature EXCEPT ![r] = Nobody]
      BY <2>5 DEF WithdrawCommit
    <3>2. \A s \in Rows : signerOf(s)' = IF s = r THEN Nobody ELSE signerOf(s)
      BY <2>1, <3>1 DEF signerOf, TypeOK
    <3>3. Standing' = [Standing EXCEPT ![r] = Nobody]
      BY <3>2 DEF Standing
    <3>4. Ledger!Withdraw(r)
      BY <3>1, <3>3 DEF Ledger!Withdraw, Standing
    <3> QED
      BY <3>4 DEF Ledger!Next
  <2> QED
    BY <1>2, <2>2, <2>3, <2>4, <2>5, RecordSteps
<1>3. SafetyInv /\ [Next]_vars => [Ledger!Next]_(Ledger!attestationVars)
  BY <1>2
<1> QED
  BY <1>1, <1>3, Safety, PTL DEF Spec, LedgerSpec, Ledger!Spec
=============================================================================
