---------------------------- MODULE SignOffProofs ----------------------------
(* Theorems about the sign-off core, for every value of its constants. *)
EXTENDS SignOffProperties, TLAPS

----------------------------------------------------------------------------
(* Types *)

\* A request slot that holds nothing is well-typed.
LEMMA IdleType == Idle \in Request
  BY BoundAssumption DEF Idle, Request, Ops, Args, Statuses, Stamps

\* What the type invariant says of the request slots.
RequestsOK ==
    /\ req \in [Requests -> Request]
    /\ \A q \in Requests : WellFormed(req[q])

\* A well-typed request can take the place of any other.
LEMMA SlotType ==
  ASSUME RequestsOK, NEW q \in Requests, NEW new \in Request,
         WellFormed(new),
         req' = [req EXCEPT ![q] = new]
  PROVE  RequestsOK'
  BY DEF RequestsOK

\* A receipt is a state of a signer row.
LEMMA ReceiptType ==
  ASSUME signers \in [Rows -> [Users -> {"none", "pending", "signed"}]],
         NEW q \in Requests, NEW r \in Rows
  PROVE  Receipt(q, r) \in [Rows -> [Users -> {"none", "pending", "signed"}]]
<1>1. [signers[r] EXCEPT ![req[q].user] = "signed"] \in [Users -> {"none", "pending", "signed"}]
  OBVIOUS
<1> QED
  BY <1>1 DEF Receipt

\* Completing the rows a signing request holds keeps the types of their columns.
LEMMA CompleteType ==
  ASSUME TypeOK, NEW q \in Requests, req[q].user \in Users, NEW stamp \in Stamps,
         Complete(q, stamp)
  PROVE  /\ status' \in [Rows -> Statuses]
         /\ applicable' \in [Rows -> BOOLEAN]
         /\ signature' \in [Rows -> Signatures \cup {Nobody}]
         /\ history' \in [Rows -> Seq(ChainEntries)]
<1>1. req[q] \in Request
  BY DEF TypeOK
<1>2. signature' \in [Rows -> Signatures \cup {Nobody}]
  BY <1>1 DEF TypeOK, Complete, CompleteRow, Signatures
<1>3. history' \in [Rows -> Seq(ChainEntries)]
  <2> DEFINE entry(r) == [version |-> req[q].next[r], by |-> req[q].user]
  <2>1. history \in [Rows -> Seq(ChainEntries)]
    BY DEF TypeOK
  <2>2. ASSUME NEW r \in Rows PROVE Append(history[r], entry(r)) \in Seq(ChainEntries)
    <3>1. entry(r) \in ChainEntries
      BY <1>1 DEF ChainEntries, Request
    <3> QED
      BY <2>1, <3>1
  <2>3. history' = [r \in Rows |-> IF r \in req[q].held THEN Append(history[r], entry(r))
                                                        ELSE history[r]]
    BY DEF Complete, CompleteRow
  <2> QED
    BY <2>1, <2>2, <2>3
<1>4. status' \in [Rows -> Statuses]
  BY DEF TypeOK, Complete, CompleteRow, Statuses
<1>5. applicable' \in [Rows -> BOOLEAN]
  BY DEF TypeOK, Complete, CompleteRow
<1> QED
  BY <1>2, <1>3, <1>4, <1>5

\* Every step of a request in flight keeps the types.
LEMMA ContinueType ==
  ASSUME TypeOK, NEW q \in Requests, Continue(q)
  PROVE  TypeOK'
<1>0. req[q] \in Request /\ RequestsOK
  BY DEF TypeOK, RequestsOK
<1>i. ASSUME req' = [req EXCEPT ![q] = Idle] PROVE RequestsOK'
  BY <1>0, <1>i, IdleType, SlotType DEF Idle, SigningOps, WellFormed
<1>1. ASSUME NEW r \in Rows, SignOffPartial(q, r) PROVE TypeOK'
  BY <1>1, <1>i, ReceiptType DEF TypeOK, RequestsOK, jobVars, SignOffPartial, Statuses
<1>2. ASSUME NEW r \in Rows, SignOffCommit(q, r) PROVE TypeOK'
  <2>1. PICK stamp \in req[q].at .. clock : Complete(q, stamp)
    BY <1>2 DEF SignOffCommit
  <2>2. stamp \in Stamps
    BY <1>0, BoundAssumption DEF TypeOK, Request, Stamps
  <2>3. req[q].user \in Users
    BY <1>0, <1>2 DEF RequestsOK, WellFormed, SignOffCommit, SigningOps
  <2>4. RequestsOK'
    <3> DEFINE new == [Idle EXCEPT !.op = "credit", !.user = req[q].user, !.todo = Linked[r]]
    <3>1. new \in Request /\ WellFormed(new)
      BY <2>3, IdleType, LinkAssumption DEF Request, Ops, Idle, WellFormed, SigningOps
    <3>2. CASE Linked[r] = {}
      BY <1>2, <1>i, <3>2 DEF SignOffCommit, ThenCredit
    <3>3. CASE Linked[r] # {}
      <4>1. req' = [req EXCEPT ![q] = new]
        BY <1>2, <3>3 DEF SignOffCommit, ThenCredit
      <4> QED
        BY <1>0, <3>1, <4>1, SlotType
    <3> QED
      BY <3>2, <3>3
  <2>5. signers' \in [Rows -> [Users -> {"none", "pending", "signed"}]]
    BY <1>2, ReceiptType DEF TypeOK, SignOffCommit
  <2> QED
    BY <1>2, <2>1, <2>2, <2>3, <2>4, <2>5, CompleteType
    DEF TypeOK, RequestsOK, SignOffCommit, jobVars
<1>3. ASSUME NEW r \in Rows, BatchTake(q, r) PROVE TypeOK'
  <2> DEFINE skip == [req[q] EXCEPT !.todo = req[q].todo \ {r}]
             take == [req[q] EXCEPT !.todo = req[q].todo \ {r}, !.held = req[q].held \cup {r},
                                    !.next[r] = nextVersion(r)]
  <2>1. skip \in Request /\ WellFormed(skip)
    BY <1>0 DEF RequestsOK, Request, WellFormed
  <2>2. nextVersion(r) \in Nat
    BY DEF nextVersion, TypeOK
  <2>3. take \in Request /\ WellFormed(take)
    BY <1>0, <2>2 DEF RequestsOK, Request, WellFormed
  <2>4. req' = [req EXCEPT ![q] = skip] \/ req' = [req EXCEPT ![q] = take]
    BY <1>3 DEF BatchTake, TakeRow
  <2>5. RequestsOK'
    BY <1>0, <2>1, <2>3, <2>4, SlotType
  <2> QED
    BY <1>3, <2>5 DEF TypeOK, RequestsOK, BatchTake, TakeRow, rowVars, jobVars
<1>4. ASSUME NEW r \in Rows, SetStatusWrite(q, r) PROVE TypeOK'
  <2>1. req[q].arg \in Statuses
    BY <1>0, <1>4 DEF RequestsOK, WellFormed, SetStatusWrite, MANUAL_STATUSES, WORK_STATUSES, Statuses
  <2> QED
    BY <1>4, <1>i, <2>1 DEF TypeOK, RequestsOK, SetStatusWrite, jobVars
<1>5. ASSUME NEW r \in Rows, WithdrawCommit(q, r) PROVE TypeOK'
  BY <1>5, <1>i DEF TypeOK, RequestsOK, WithdrawCommit, Statuses, jobVars
<1>6. ASSUME NEW r \in Rows, EvidenceWrite(q, r) PROVE TypeOK'
  BY <1>6, <1>i DEF TypeOK, RequestsOK, EvidenceWrite, Statuses, jobVars
<1>7. ASSUME NEW r \in Rows, NEW who \in Users, AssignWrite(q, r, who) PROVE TypeOK'
  BY <1>7, <1>i DEF TypeOK, RequestsOK, AssignWrite, jobVars
<1>8. CASE CreditRead(q)
  <2> DEFINE new == [req[q] EXCEPT !.op = "bulk", !.todo = Signable(req[q].user, req[q].todo)]
  <2>1. new \in Request /\ WellFormed(new)
    BY <1>0, <1>8 DEF CreditRead, RequestsOK, Request, Ops, Signable, SigningOps, WellFormed
  <2>2. RequestsOK'
    BY <1>0, <1>8, <2>1, SlotType DEF CreditRead
  <2> QED
    BY <1>8, <2>2 DEF TypeOK, RequestsOK, CreditRead, rowVars, jobVars
<1>9. CASE RosterRead(q)
  <2> DEFINE new == [req[q] EXCEPT !.op = "tx", !.at = clock,
                                   !.todo = req[q].todo \ rosteredOf(req[q].todo)]
  <2>1. new \in Request /\ WellFormed(new)
    BY <1>0, <1>9 DEF RosterRead, RequestsOK, Request, Ops, SigningOps, WellFormed, TypeOK
  <2>2. RequestsOK'
    BY <1>0, <1>9, <2>1, SlotType DEF RosterRead
  <2> QED
    BY <1>9, <2>2 DEF TypeOK, RequestsOK, RosterRead, rowVars, jobVars
<1>10. CASE BatchCommit(q)
  <2>1. req[q].at \in Stamps /\ req[q].user \in Users
    BY <1>0, <1>10 DEF BatchCommit, RequestsOK, Request, SigningOps, WellFormed
  <2> QED
    BY <1>10, <1>i, <2>1, CompleteType DEF TypeOK, RequestsOK, BatchCommit, jobVars
<1> QED
  BY <1>1, <1>2, <1>3, <1>4, <1>5, <1>6, <1>7, <1>8, <1>9, <1>10 DEF Continue

\* Every first step of a request keeps the types.
LEMMA BeginType ==
  ASSUME TypeOK, NEW q \in Requests, Begin(q)
  PROVE  TypeOK'
<1>0. RequestsOK
  BY DEF TypeOK, RequestsOK
<1>1. ASSUME NEW new \in Request, WellFormed(new), req' = [req EXCEPT ![q] = new],
             UNCHANGED <<rowVars, members, jobVars>>
      PROVE  TypeOK'
  BY <1>0, <1>1, SlotType DEF TypeOK, RequestsOK, rowVars, jobVars
<1>2. PICK u \in Users : \/ \E r \in Rows :
                             \/ SignOffBegin(q, u, r)
                             \/ ConfirmBegin(q, u, r)
                             \/ ReopenBegin(q, u, r)
                             \/ SaveAnswersBegin(q, u, r)
                             \/ \E to \in MANUAL_STATUSES : SetStatusRead(q, u, r, to)
                             \/ AssignRead(q, r, u)
                             \/ \E uploaded \in Stamps : EvidenceRead(q, u, r, uploaded)
                         \/ \E S \in SUBSET Rows : BulkRead(q, u, S)
  BY DEF Begin
<1>3. ASSUME NEW r \in Rows PROVE nextVersion(r) \in Nat
  BY DEF TypeOK, nextVersion
<1>4. clock \in Stamps /\ members \subseteq Users
  BY DEF TypeOK
<1> USE IdleType DEF Idle, Request, WellFormed, SigningOps, Ops, Args
<1>5. ASSUME NEW r \in Rows, SignOffBegin(q, u, r) PROVE TypeOK'
  <2> DEFINE new(path) == [Idle EXCEPT !.op = "sign", !.user = u, !.held = {r}, !.at = clock,
                                       !.next[r] = nextVersion(r), !.arg = path]
  <2>1. ASSUME NEW path \in {"roster", "alone"} PROVE new(path) \in Request /\ WellFormed(new(path))
    BY <1>3, <1>4
  <2>2. UNCHANGED <<rowVars, members, jobVars>>
    BY <1>5 DEF SignOffBegin
  <2>3. CASE pendingSignersOf(r) # {}
    <3>1. req' = [req EXCEPT ![q] = new("roster")]
      BY <1>5, <2>3 DEF SignOffBegin
    <3> QED
      BY <1>1, <2>1, <2>2, <3>1
  <2>4. CASE pendingSignersOf(r) = {}
    <3>1. req' = [req EXCEPT ![q] = new("alone")]
      BY <1>5, <2>4 DEF SignOffBegin
    <3> QED
      BY <1>1, <2>1, <2>2, <3>1
  <2> QED
    BY <2>3, <2>4
<1>6. ASSUME NEW r \in Rows, ConfirmBegin(q, u, r) PROVE TypeOK'
  BY <1>1, <1>3, <1>4, <1>6 DEF ConfirmBegin
<1>7. ASSUME NEW r \in Rows, WithdrawBegin(q, u, r) PROVE TypeOK'
  BY <1>1, <1>4, <1>7 DEF WithdrawBegin
<1>8. ASSUME NEW r \in Rows, NEW to \in MANUAL_STATUSES, SetStatusRead(q, u, r, to)
      PROVE  TypeOK'
  BY <1>1, <1>8 DEF SetStatusRead, MANUAL_STATUSES, WORK_STATUSES, Statuses
<1>9. ASSUME NEW r \in Rows, AssignRead(q, r, u) PROVE TypeOK'
  BY <1>1, <1>9 DEF AssignRead
<1>10. ASSUME NEW r \in Rows, NEW uploaded \in Stamps, EvidenceRead(q, u, r, uploaded)
       PROVE  TypeOK'
  BY <1>1, <1>10 DEF EvidenceRead
<1>11. ASSUME NEW S \in SUBSET Rows, BulkRead(q, u, S) PROVE TypeOK'
  BY <1>1, <1>11 DEF BulkRead, Signable
<1> QED
  BY <1>2, <1>5, <1>6, <1>7, <1>8, <1>9, <1>10, <1>11 DEF ReopenBegin, SaveAnswersBegin

\* Every step that belongs to no request in flight keeps the types.
LEMMA OtherType ==
  ASSUME TypeOK, Direct \/ Background \/ Restart \/ \E q \in Requests : Abandon(q)
  PROVE  TypeOK'
<1> USE DEF TypeOK, Statuses
<1>1. ASSUME NEW u \in Users, NEW r \in Rows, SaveAnswersUnsigned(u, r) PROVE TypeOK'
  BY <1>1 DEF SaveAnswersUnsigned, jobVars
<1>2. ASSUME NEW u \in Users, NEW r \in Rows, Approve(u, r) PROVE TypeOK'
  BY <1>2 DEF Approve, Decide, jobVars
<1>3. ASSUME NEW u \in Users, NEW r \in Rows, Reject(u, r) PROVE TypeOK'
  BY <1>3 DEF Reject, Decide, jobVars
<1>4. ASSUME NEW u \in Users, NEW r \in Rows, Unassign(r, u) PROVE TypeOK'
  BY <1>4 DEF Unassign, jobVars
<1>5. ASSUME NEW u \in Users, RemoveMember(u) PROVE TypeOK'
  BY <1>5 DEF RemoveMember, jobVars
<1>6. ASSUME NEW S \in SUBSET Rows, CronRead(S) PROVE TypeOK'
  BY <1>6 DEF CronRead, rowVars
<1>7. ASSUME NEW r \in Rows, CronWrite(r) PROVE TypeOK'
  BY <1>7 DEF CronWrite
<1>8. CASE DataChange
  BY <1>8, BoundAssumption DEF DataChange, rowVars, Stamps, Changes
<1>9. ASSUME NEW c \in Changes, RecheckRead(c) PROVE TypeOK'
  BY <1>9, LinkAssumption DEF RecheckRead, rowVars
<1>10. ASSUME NEW c \in Changes, RecheckWrite(c) PROVE TypeOK'
  BY <1>10 DEF RecheckWrite
<1>11. CASE Restart
  BY <1>11, IdleType DEF Restart, rowVars, Idle, WellFormed, SigningOps
<1>12. ASSUME NEW q \in Requests, Abandon(q) PROVE TypeOK'
  BY <1>12, IdleType DEF Abandon, rowVars, jobVars, Idle, WellFormed, SigningOps
<1> QED
  BY <1>1, <1>2, <1>3, <1>4, <1>5, <1>6, <1>7, <1>8, <1>9, <1>10, <1>11, <1>12
  DEF Direct, Background

\* The initial state is well-typed.
LEMMA InitType == Init => TypeOK
<1> SUFFICES ASSUME Init PROVE TypeOK
  OBVIOUS
<1>1. req \in [Requests -> Request] /\ \A q \in Requests : WellFormed(req[q])
  BY IdleType DEF Init, Idle, WellFormed, SigningOps
<1>2. history \in [Rows -> Seq(ChainEntries)]
  BY DEF Init
<1>3. status \in [Rows -> Statuses] /\ clock \in Stamps
  BY BoundAssumption DEF Init, Statuses, Stamps
<1> QED
  BY <1>1, <1>2, <1>3 DEF Init, TypeOK

\* Every step keeps the types.
LEMMA StepType == TypeOK /\ [Next]_vars => TypeOK'
<1>1. ASSUME TypeOK, Next PROVE TypeOK'
  BY <1>1, BeginType, ContinueType, OtherType DEF Next
<1>2. ASSUME TypeOK, UNCHANGED vars PROVE TypeOK'
  BY <1>2 DEF TypeOK, vars, rowVars, jobVars
<1> QED
  BY <1>1, <1>2

\* The columns, slots and job variables keep their types: no interleaving writes
\* a status, signer state or chain entry the schema does not know.
THEOREM TypeCorrect == Spec => []TypeOK
  BY InitType, StepType, PTL DEF Spec
=============================================================================
