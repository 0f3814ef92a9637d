------------------------------ MODULE SignOff ------------------------------
(***************************************************************************)
(* The sign-off core: the requirement status rows of one company, the      *)
(* signers assigned to them, and the append-only chain of sign-offs.       *)
(*                                                                         *)
(* A request is a sequence of database calls, and other requests run       *)
(* between two of them.  A transaction that holds its row locks to the     *)
(* commit is two kinds of step: taking the lock, with what it reads under  *)
(* it, and the commit, which makes all its writes visible at once.  A      *)
(* single guarded UPDATE is one step, enabled while nobody holds the row.  *)
(*                                                                         *)
(* The gates that only refuse a request before it reads a row (category    *)
(* ownership, billing, NOT_FOUND) are left out: a request here is one they *)
(* let through.  Whether a row's review date has passed is left out too:   *)
(* the daily run may find any done row due.                                *)
(***************************************************************************)
EXTENDS Naturals, Sequences, FiniteSets

CONSTANTS Rows,         \* company_requirement_status ids, in lock order
          Users,        \* people who are or were members of the company
          Reviewers,    \* those with review access (a reviewer or an admin)
          Holds,        \* Holds[r]: who holds the role row r asks for, or is management
          ModuleRows,   \* rows whose requirement names a module (moduleRef)
          Linked,       \* Linked[r]: rows of other frameworks that r's signature credits
          Requests,     \* requests the servers can have in flight
          Nobody,       \* the signer of an unsigned row, the user of a free request slot
          MaxSignOffs,  \* bound: entries in a row's chain
          MaxChanges    \* bound: changes to module data

ASSUME RowsAssumption == Rows \subseteq Nat /\ IsFiniteSet(Rows)
ASSUME PeopleAssumption == Reviewers \subseteq Users /\ Holds \in [Rows -> SUBSET Users]
ASSUME NobodyAssumption == Nobody \notin Users /\ Nobody \notin [by : Users, at : Nat]
ASSUME LinkAssumption == /\ ModuleRows \subseteq Rows
                         /\ Linked \in [Rows -> SUBSET Rows]
                         /\ \A r \in Rows : r \notin Linked[r]
ASSUME BoundAssumption == MaxSignOffs \in Nat /\ MaxChanges \in Nat

VARIABLES status,      \* status[r]: the row's item_status
          applicable,  \* applicable[r]: is_applicable
          signature,   \* signature[r]: signed_off_by and signed_off_at, or Nobody
          signers,     \* signers[r][u]: requirement_assignment of u on r
          history,     \* history[r]: the row's sign_off_history
          members,     \* who is a member of the company
          req,         \* req[q]: the request q, and what it has read and locked
          cronRows,    \* rows the daily run has read and not yet written
          clock,       \* how many changes to module data there have been
          unread,      \* changes whose recheck has not read the signed rows yet
          recheck      \* recheck[c]: rows change c's recheck has read and not yet written

rowVars == <<status, applicable, signature, signers, history>>
jobVars == <<cronRows, clock, unread, recheck>>
vars == <<rowVars, members, req, jobVars>>

Statuses == {"not_started", "in_progress", "completed", "approved", "rejected",
             "needs_review", "not_applicable"}
DONE_STATUSES == {"completed", "approved", "not_applicable"}
WORK_STATUSES == {"not_started", "in_progress"}
MANUAL_STATUSES == WORK_STATUSES \cup {"not_applicable"}

\* The only thing a signature's time is compared with is the time of a change
\* to module data, so a time is the number of changes before it.
Changes == 1 .. MaxChanges
Stamps == 0 .. MaxChanges

Signatures == [by : Users, at : Stamps]
ChainEntries == [version : Nat, by : Users]

(* What a request is doing:
     sign, confirm   holds its row; "roster" or "alone" says which path it is on
     bulk            has read the rows it may sign, not yet their rosters
     credit          has signed its row, goes on to the linked rows
     tx              the batch transaction, taking its rows one by one
     set             has checked its row for a hand-set status, held in arg
     withdraw        holds the row whose sign-off it takes back
     assign          has seen that the person in seen is a member
     evidence        has checked the row whose evidence, uploaded at at, it deletes *)
Ops == {"idle", "sign", "confirm", "bulk", "credit", "tx", "set", "withdraw", "assign",
        "evidence"}
SigningOps == {"sign", "confirm", "bulk", "credit", "tx"}
Args == {"", "roster", "alone"} \cup Statuses

\* todo: rows it has still to go through; held: rows it has locked; next: the
\* chain version it read the head of the chain to find, per held row.
Request == [op : Ops, user : Users \cup {Nobody}, todo : SUBSET Rows,
            held : SUBSET Rows, next : [Rows -> Nat], at : Stamps, arg : Args,
            seen : SUBSET Users]

Idle == [op |-> "idle", user |-> Nobody, todo |-> {}, held |-> {},
         next |-> [r \in Rows |-> 0], at |-> 0, arg |-> "", seen |-> {}]

WellFormed(x) ==
    /\ x.op \in SigningOps => x.user \in Users
    /\ x.op = "set" => x.arg \in MANUAL_STATUSES

TypeOK ==
    /\ status \in [Rows -> Statuses]
    /\ applicable \in [Rows -> BOOLEAN]
    /\ signature \in [Rows -> Signatures \cup {Nobody}]
    /\ signers \in [Rows -> [Users -> {"none", "pending", "signed"}]]
    /\ history \in [Rows -> Seq(ChainEntries)]
    /\ members \subseteq Users
    /\ req \in [Requests -> Request]
    /\ \A q \in Requests : WellFormed(req[q])
    /\ cronRows \subseteq Rows
    /\ clock \in Stamps
    /\ unread \subseteq Changes
    /\ recheck \in [Changes -> SUBSET Rows]

Init ==
    /\ status = [r \in Rows |-> "not_started"]
    /\ applicable = [r \in Rows |-> TRUE]
    /\ signature = [r \in Rows |-> Nobody]
    /\ signers = [r \in Rows |-> [u \in Users |-> "none"]]
    /\ history = [r \in Rows |-> <<>>]
    /\ members = Users
    /\ req = [q \in Requests |-> Idle]
    /\ cronRows = {}
    /\ clock = 0
    /\ unread = {}
    /\ recheck = [c \in Changes |-> {}]

----------------------------------------------------------------------------
(* Reading and locking rows *)

Done(r) == status[r] \in DONE_STATUSES

\* The row still carries a sign-off that putting it back in progress withdraws.
hasSignOffToWithdraw(r) == Done(r) \/ signature[r] # Nobody

\* The assigned signers of r who have not signed yet.
pendingSignersOf(r) == {u \in Users : signers[r][u] = "pending"}

\* The rows of S whose assigned signers still owe a signature.
rosteredOf(S) == {r \in S : pendingSignersOf(r) # {}}

Locked(r) == \E q \in Requests : r \in req[q].held

\* MUTANT of LockedForUpdate: signOff locks its row FOR NO KEY UPDATE.
LockedForUpdateNoKey(r) ==
    \E q \in Requests : r \in req[q].held /\ req[q].op \in {"confirm", "withdraw"}

\* A signer row can be inserted unless the status row is locked FOR UPDATE: the
\* foreign key takes FOR KEY SHARE on it, which a plain UPDATE's lock allows.
LockedForUpdate(r) ==
    \E q \in Requests : r \in req[q].held /\ req[q].op \in {"sign", "confirm", "withdraw"}

\* signOff and confirmModuleRef lock the signer rows they find as well.
SignersLocked(r) ==
    \E q \in Requests : r \in req[q].held /\ req[q].op \in {"sign", "confirm"}

\* MaxSignOffs with room for every signing request in flight.
RoomToSign(S) ==
    \A r \in S : Len(history[r])
        + Cardinality({q \in Requests : req[q].op \in SigningOps}) < MaxSignOffs

\* MUTANT of nextVersion: the version of the head, not the one after it.
nextVersionOfHead(r) == IF history[r] = <<>> THEN 1 ELSE Len(history[r])

\* The version the next entry of r's chain takes: the head's and one.
nextVersion(r) == Len(history[r]) + 1

----------------------------------------------------------------------------
(* Signing one row: assessment.signOff and assessment.confirmModuleRef *)

\* MUTANT of SignOffBegin: reads the row without locking it.
SignOffBeginUnlocked(q, u, r) ==
    /\ req[q].op = "idle" /\ u \in members
    /\ RoomToSign({r} \cup Linked[r])
    /\ u \in Holds[r]
    /\ pendingSignersOf(r) # {} => u \in pendingSignersOf(r)
    /\ req' = [req EXCEPT ![q] = [Idle EXCEPT
                !.op = "sign", !.user = u, !.held = {r}, !.at = clock,
                !.next[r] = nextVersion(r),
                !.arg = IF pendingSignersOf(r) # {} THEN "roster" ELSE "alone"]]
    /\ UNCHANGED <<rowVars, members, jobVars>>

\* The transaction opens: the row is locked, then its signer rows, and what the
\* person may do is decided on what is read under the lock.
SignOffBegin(q, u, r) ==
    /\ req[q].op = "idle" /\ u \in members
    /\ RoomToSign({r} \cup Linked[r])
    /\ ~Locked(r)
    /\ u \in Holds[r]
    /\ pendingSignersOf(r) # {} => u \in pendingSignersOf(r)
    /\ req' = [req EXCEPT ![q] = [Idle EXCEPT
                !.op = "sign", !.user = u, !.held = {r}, !.at = clock,
                !.next[r] = nextVersion(r),
                !.arg = IF pendingSignersOf(r) # {} THEN "roster" ELSE "alone"]]
    /\ UNCHANGED <<rowVars, members, jobVars>>

ConfirmBegin(q, u, r) ==
    /\ req[q].op = "idle" /\ u \in members
    /\ RoomToSign({r} \cup Linked[r])
    /\ ~Locked(r)
    /\ r \in ModuleRows
    /\ pendingSignersOf(r) = {}
    /\ u \in Holds[r]
    /\ req' = [req EXCEPT ![q] = [Idle EXCEPT
                !.op = "confirm", !.user = u, !.held = {r}, !.at = clock,
                !.next[r] = nextVersion(r), !.arg = "alone"]]
    /\ UNCHANGED <<rowVars, members, jobVars>>

\* What Complete and its mutants write to the rows themselves.
CompleteRow(q, stamp) ==
    /\ status' = [r \in Rows |-> IF r \in req[q].held THEN "completed" ELSE status[r]]
    /\ signature' = [r \in Rows |-> IF r \in req[q].held
                                    THEN [by |-> req[q].user, at |-> stamp]
                                    ELSE signature[r]]
    /\ UNCHANGED applicable

\* MUTANT of Complete: a batch leaves no chain entry.
CompleteUnrecorded(q, stamp) ==
    /\ CompleteRow(q, stamp)
    /\ history' = [r \in Rows |->
                     IF r \in req[q].held /\ req[q].op # "tx"
                     THEN Append(history[r], [version |-> req[q].next[r], by |-> req[q].user])
                     ELSE history[r]]

\* MUTANT of Complete: the chain entry loses its signer.
CompleteUnnamed(q, stamp) ==
    /\ CompleteRow(q, stamp)
    /\ history' = [r \in Rows |->
                     IF r \in req[q].held
                     THEN Append(history[r], [version |-> req[q].next[r], by |-> Nobody])
                     ELSE history[r]]

\* completedSignOffValues on the rows q holds, each with its chain entry.
Complete(q, stamp) ==
    /\ CompleteRow(q, stamp)
    /\ history' = [r \in Rows |->
                     IF r \in req[q].held
                     THEN Append(history[r], [version |-> req[q].next[r], by |-> req[q].user])
                     ELSE history[r]]

\* The signer's own receipt, written before the row is closed.
Receipt(q, r) == [signers EXCEPT ![r][req[q].user] = "signed"]

\* The request goes on to the linked rows once its own row has been committed.
ThenCredit(q, r) ==
    req' = [req EXCEPT ![q] =
              IF Linked[r] = {} THEN Idle
              ELSE [Idle EXCEPT !.op = "credit", !.user = req[q].user, !.todo = Linked[r]]]

\* An assigned signer signs and others still owe a signature: the row is put in
\* progress, whatever it was, and nothing else about it changes.
SignOffPartial(q, r) ==
    /\ req[q].op = "sign" /\ r \in req[q].held /\ req[q].arg = "roster"
    /\ pendingSignersOf(r) \ {req[q].user} # {}
    /\ signers' = Receipt(q, r)
    /\ status' = [status EXCEPT ![r] = "in_progress"]
    /\ req' = [req EXCEPT ![q] = Idle]
    /\ UNCHANGED <<applicable, signature, history, members, jobVars>>

\* The last assigned signer, or someone signing a row nobody is assigned to.  The
\* time is read somewhere between the lock and the commit.
SignOffCommit(q, r) ==
    /\ req[q].op \in {"sign", "confirm"} /\ r \in req[q].held
    /\ req[q].arg = "roster" => pendingSignersOf(r) \ {req[q].user} = {}
    /\ signers' = Receipt(q, r)
    /\ \E stamp \in req[q].at .. clock : Complete(q, stamp)
    /\ ThenCredit(q, r)
    /\ UNCHANGED <<members, jobVars>>

----------------------------------------------------------------------------
(* Signing rows in a batch: signOffRows behind bulkSignOffCategory and       *)
(* bulkConfirmModuleRef, and propagateSatisfaction, which has the same shape *)

\* The rows of S this person may sign as they stand now.
Signable(u, S) == {r \in S : ~Done(r) /\ u \in Holds[r]}

BulkRead(q, u, S) ==
    /\ req[q].op = "idle" /\ u \in members
    /\ RoomToSign(S)
    /\ Signable(u, S) # {}
    /\ req' = [req EXCEPT ![q] = [Idle EXCEPT
                !.op = "bulk", !.user = u, !.todo = Signable(u, S)]]
    /\ UNCHANGED <<rowVars, members, jobVars>>

CreditRead(q) ==
    /\ req[q].op = "credit"
    /\ req' = [req EXCEPT ![q] = [req[q] EXCEPT
                !.op = "bulk", !.todo = Signable(req[q].user, req[q].todo)]]
    /\ UNCHANGED <<rowVars, members, jobVars>>

\* The rosters are read, and the batch's one signing time taken, before the
\* transaction opens.
RosterRead(q) ==
    /\ req[q].op = "bulk"
    /\ req' = [req EXCEPT ![q] = [req[q] EXCEPT
                !.op = "tx", !.at = clock, !.todo = req[q].todo \ rosteredOf(req[q].todo)]]
    /\ UNCHANGED <<rowVars, members, jobVars>>

\* MUTANT of IsNext: the rows are updated in no particular order.
IsNextUnsorted(q, r) == r \in req[q].todo

\* The row the batch's transaction updates next: a stable lock order.
IsNext(q, r) == r \in req[q].todo /\ \A s \in req[q].todo : r <= s

\* What BatchTake and its mutant make of row r.
TakeRow(q, r) ==
    [req[q] EXCEPT !.todo = req[q].todo \ {r}, !.held = req[q].held \cup {r},
                   !.next[r] = nextVersion(r)]

\* MUTANT of BatchTake: does not repeat the status condition.
BatchTakeBlind(q, r) ==
    /\ req[q].op = "tx" /\ IsNext(q, r)
    /\ ~Locked(r)
    /\ req' = [req EXCEPT ![q] = TakeRow(q, r)]
    /\ UNCHANGED <<rowVars, members, jobVars>>

\* The UPDATE waits for the row, then repeats the status condition on it; a row
\* it takes gets its chain entry next.
BatchTake(q, r) ==
    /\ req[q].op = "tx" /\ IsNext(q, r)
    /\ ~Locked(r)
    /\ req' = [req EXCEPT ![q] = IF Done(r) THEN [req[q] EXCEPT !.todo = req[q].todo \ {r}]
                                ELSE TakeRow(q, r)]
    /\ UNCHANGED <<rowVars, members, jobVars>>

\* MUTANT of BatchCommit: a batch that took no row never answers.
BatchCommitSome(q) ==
    /\ req[q].op = "tx" /\ req[q].todo = {} /\ req[q].held # {}
    /\ Complete(q, req[q].at)
    /\ req' = [req EXCEPT ![q] = Idle]
    /\ UNCHANGED <<signers, members, jobVars>>

BatchCommit(q) ==
    /\ req[q].op = "tx" /\ req[q].todo = {}
    /\ Complete(q, req[q].at)
    /\ req' = [req EXCEPT ![q] = Idle]
    /\ UNCHANGED <<signers, members, jobVars>>

----------------------------------------------------------------------------
(* Setting a status by hand: assessment.updateRequirementStatus *)

\* The checks on the row as first read; setting it aside also takes the role and
\* an empty roster.
SetStatusRead(q, u, r, to) ==
    /\ req[q].op = "idle" /\ u \in members
    /\ status[r] # "approved"
    /\ ~hasSignOffToWithdraw(r)
    /\ to = "not_applicable" => u \in Holds[r] /\ pendingSignersOf(r) = {}
    /\ req' = [req EXCEPT ![q] = [Idle EXCEPT
                !.op = "set", !.user = u, !.todo = {r}, !.arg = to]]
    /\ UNCHANGED <<rowVars, members, jobVars>>

\* MUTANT of StillUnsigned: a row under review counts as unsigned.
StillOpen(r) == ~Done(r)

\* The condition the UPDATE repeats, so that a signature since the read stands.
StillUnsigned(r) == ~Done(r) /\ signature[r] = Nobody

SetStatusWrite(q, r) ==
    /\ req[q].op = "set" /\ r \in req[q].todo
    /\ ~Locked(r)
    /\ IF StillUnsigned(r)
       THEN /\ status' = [status EXCEPT ![r] = req[q].arg]
            /\ applicable' = [applicable EXCEPT ![r] = @ /\ req[q].arg # "not_applicable"]
       ELSE UNCHANGED <<status, applicable>>
    /\ req' = [req EXCEPT ![q] = Idle]
    /\ UNCHANGED <<signature, signers, history, members, jobVars>>

----------------------------------------------------------------------------
(* Withdrawing a sign-off: assessment.reopenRequirement and an answer save *)

\* Locks the row, decides on it, and reads who is a member.
WithdrawBegin(q, u, r) ==
    /\ req' = [req EXCEPT ![q] = [Idle EXCEPT
                !.op = "withdraw", !.user = u, !.held = {r}, !.seen = members]]
    /\ UNCHANGED <<rowVars, members, jobVars>>

reopenChange(u, r) ==
    /\ hasSignOffToWithdraw(r)
    /\ status[r] = "approved" => u \in Reviewers

ReopenBegin(q, u, r) ==
    /\ req[q].op = "idle" /\ u \in members
    /\ ~Locked(r)
    /\ reopenChange(u, r)
    /\ WithdrawBegin(q, u, r)

\* Saved answers no longer stand behind a signature.  A row set aside stays so.
SaveAnswersBegin(q, u, r) ==
    /\ req[q].op = "idle" /\ u \in members
    /\ ~Locked(r)
    /\ status[r] = "approved" => u \in Reviewers
    /\ status[r] # "not_applicable" /\ hasSignOffToWithdraw(r)
    /\ WithdrawBegin(q, u, r)

\* Answers saved on a row that carries no sign-off: only the status moves.
SaveAnswersUnsigned(u, r) ==
    /\ u \in members
    /\ ~Locked(r)
    /\ ~hasSignOffToWithdraw(r)
    /\ status' = [status EXCEPT ![r] = "in_progress"]
    /\ UNCHANGED <<applicable, signature, signers, history, members, req, jobVars>>

\* withdrawSignOff and reopenedSignOffValues: signers who have left are deleted,
\* the others owe their signature again, and the row carries none.
WithdrawCommit(q, r) ==
    /\ req[q].op = "withdraw" /\ r \in req[q].held
    /\ signers' = [signers EXCEPT ![r] = [u \in Users |->
                     IF signers[r][u] = "none" \/ u \notin req[q].seen
                     THEN "none" ELSE "pending"]]
    /\ status' = [status EXCEPT ![r] = "in_progress"]
    /\ applicable' = [applicable EXCEPT ![r] = TRUE]
    /\ signature' = [signature EXCEPT ![r] = Nobody]
    /\ req' = [req EXCEPT ![q] = Idle]
    /\ UNCHANGED <<history, members, jobVars>>

----------------------------------------------------------------------------
(* A reviewer's decision: review.approve and review.reject *)

\* MUTANT of Decide: does not wait for the row.
DecideUnlocked(u, r, verdict) ==
    /\ u \in members \cap Reviewers
    /\ status[r] = "completed"
    /\ status' = [status EXCEPT ![r] = verdict]
    /\ UNCHANGED <<applicable, signature, signers, history, members, req, jobVars>>

Decide(u, r, verdict) ==
    /\ u \in members \cap Reviewers
    /\ ~Locked(r)
    /\ status[r] = "completed"
    /\ status' = [status EXCEPT ![r] = verdict]
    /\ UNCHANGED <<applicable, signature, signers, history, members, req, jobVars>>

Approve(u, r) == Decide(u, r, "approved")
Reject(u, r) == Decide(u, r, "rejected")

----------------------------------------------------------------------------
(* Assigned signers and members: assignment.assignRequirement,               *)
(* assignment.unassignRequirement and team.removeMember                      *)

AssignRead(q, r, who) ==
    /\ req[q].op = "idle"
    /\ who \in members
    /\ req' = [req EXCEPT ![q] = [Idle EXCEPT
                !.op = "assign", !.todo = {r}, !.seen = {who}]]
    /\ UNCHANGED <<rowVars, members, jobVars>>

AssignWrite(q, r, who) ==
    /\ req[q].op = "assign" /\ r \in req[q].todo /\ who \in req[q].seen
    /\ ~LockedForUpdate(r)
    /\ signers' = IF signers[r][who] = "none"
                  THEN [signers EXCEPT ![r][who] = "pending"] ELSE signers
    /\ req' = [req EXCEPT ![q] = Idle]
    /\ UNCHANGED <<status, applicable, signature, history, members, jobVars>>

Unassign(r, who) ==
    /\ signers[r][who] # "none"
    /\ ~SignersLocked(r)
    /\ signers' = [signers EXCEPT ![r][who] = "none"]
    /\ UNCHANGED <<status, applicable, signature, history, members, req, jobVars>>

\* Only the pending rows of a removed member go; a receipt stays as evidence.
RemoveMember(who) ==
    /\ who \in members
    /\ \A r \in Rows : signers[r][who] # "none" => ~SignersLocked(r)
    /\ signers' = [r \in Rows |-> IF signers[r][who] = "pending"
                                  THEN [signers[r] EXCEPT ![who] = "none"]
                                  ELSE signers[r]]
    /\ members' = members \ {who}
    /\ UNCHANGED <<status, applicable, signature, history, req, jobVars>>

----------------------------------------------------------------------------
(* Background jobs: phase 1 of the daily run, and the module recheck *)

\* Reads the done rows whose review date has passed.
CronRead(S) ==
    /\ cronRows = {}
    /\ S # {} /\ \A r \in S : Done(r)
    /\ cronRows' = S
    /\ UNCHANGED <<rowVars, members, req, clock, unread, recheck>>

\* Writes each by id, with no condition on what the row has become since.
CronWrite(r) ==
    /\ r \in cronRows
    /\ ~Locked(r)
    /\ status' = [status EXCEPT ![r] = "needs_review"]
    /\ cronRows' = cronRows \ {r}
    /\ UNCHANGED <<applicable, signature, signers, history, members, req,
                   clock, unread, recheck>>

\* A module's data changes: invalidateModuleSignOffs starts, after the save.
DataChange ==
    /\ clock < MaxChanges
    /\ clock' = clock + 1
    /\ unread' = unread \cup {clock + 1}
    /\ UNCHANGED <<rowVars, members, req, cronRows, recheck>>

SignedOff(r) == status[r] \in {"completed", "approved"}

\* signedOffByModule.
RecheckRead(c) ==
    /\ c \in unread
    /\ unread' = unread \ {c}
    /\ recheck' = [recheck EXCEPT ![c] = {r \in ModuleRows : SignedOff(r)}]
    /\ UNCHANGED <<rowVars, members, req, cronRows, clock>>

signedBefore(r, c) == signature[r] = Nobody \/ signature[r].at < c

\* revertSignOffs, one UPDATE: a row signed again since the change keeps its
\* signature.
RecheckWrite(c) ==
    /\ recheck[c] # {}
    /\ \A r \in recheck[c] : ~Locked(r)
    /\ status' = [r \in Rows |->
                    IF r \in recheck[c] /\ SignedOff(r) /\ signedBefore(r, c)
                    THEN "needs_review" ELSE status[r]]
    /\ recheck' = [recheck EXCEPT ![c] = {}]
    /\ UNCHANGED <<applicable, signature, signers, history, members, req,
                   cronRows, clock, unread>>

----------------------------------------------------------------------------
(* Deleting evidence: evidence.deleteEvidence *)

\* The check on the row as first read.  When the deleted file was uploaded is
\* left open.
EvidenceRead(q, u, r, uploaded) ==
    /\ req[q].op = "idle" /\ u \in members
    /\ status[r] = "approved" => u \in Reviewers
    /\ uploaded <= clock
    /\ req' = [req EXCEPT ![q] = [Idle EXCEPT
                !.op = "evidence", !.user = u, !.todo = {r}, !.at = uploaded]]
    /\ UNCHANGED <<rowVars, members, jobVars>>

\* A signature the file stood behind is up for review again.
RestedOn(r, uploaded) ==
    status[r] \in {"completed", "approved"} /\ signature[r] # Nobody /\ signature[r].at >= uploaded

EvidenceWrite(q, r) ==
    /\ req[q].op = "evidence" /\ r \in req[q].todo
    /\ ~Locked(r)
    /\ status' = [status EXCEPT ![r] = IF RestedOn(r, req[q].at) THEN "needs_review" ELSE @]
    /\ req' = [req EXCEPT ![q] = Idle]
    /\ UNCHANGED <<applicable, signature, signers, history, members, jobVars>>

----------------------------------------------------------------------------
(* Failure *)

\* A request's connection is lost: its open transaction rolls back, and what it
\* would have done after its commit does not happen.
Abandon(q) ==
    /\ req[q].op # "idle"
    /\ req' = [req EXCEPT ![q] = Idle]
    /\ UNCHANGED <<rowVars, members, jobVars>>

\* The server restarts: every request and every background job is gone.
Restart ==
    /\ req' = [q \in Requests |-> Idle]
    /\ cronRows' = {}
    /\ unread' = {}
    /\ recheck' = [c \in Changes |-> {}]
    /\ UNCHANGED <<rowVars, members, clock>>

----------------------------------------------------------------------------

\* What a request in flight does next.
Continue(q) ==
    \/ \E r \in Rows :
         \/ SignOffPartial(q, r)
         \/ SignOffCommit(q, r)
         \/ BatchTake(q, r)
         \/ SetStatusWrite(q, r)
         \/ WithdrawCommit(q, r)
         \/ EvidenceWrite(q, r)
         \/ \E who \in Users : AssignWrite(q, r, who)
    \/ CreditRead(q)
    \/ RosterRead(q)
    \/ BatchCommit(q)

Begin(q) ==
    \E u \in Users :
      \/ \E r \in Rows :
           \/ SignOffBegin(q, u, r)
           \/ ConfirmBegin(q, u, r)
           \/ ReopenBegin(q, u, r)
           \/ SaveAnswersBegin(q, u, r)
           \/ \E to \in MANUAL_STATUSES : SetStatusRead(q, u, r, to)
           \/ AssignRead(q, r, u)
           \/ \E uploaded \in Stamps : EvidenceRead(q, u, r, uploaded)
      \/ \E S \in SUBSET Rows : BulkRead(q, u, S)

Direct ==
    \E u \in Users :
      \/ \E r \in Rows :
           \/ SaveAnswersUnsigned(u, r)
           \/ Approve(u, r)
           \/ Reject(u, r)
           \/ Unassign(r, u)
      \/ RemoveMember(u)

Background ==
    \/ \E S \in SUBSET Rows : CronRead(S)
    \/ \E r \in Rows : CronWrite(r)
    \/ DataChange
    \/ \E c \in Changes : RecheckRead(c) \/ RecheckWrite(c)

Next ==
    \/ \E q \in Requests : Begin(q) \/ Continue(q) \/ Abandon(q)
    \/ Direct
    \/ Background
    \/ Restart

Spec == Init /\ [][Next]_vars

\* The database answers, and grants a row lock to whoever has waited for it.
FairSpec == Spec /\ \A q \in Requests : SF_vars(Continue(q))
=============================================================================
