-------------------------- MODULE SignOffProperties --------------------------
(***************************************************************************)
(* What the sign-off core is to guarantee, whatever the requests, jobs and *)
(* restarts do to each other; and three statements the repository makes of *)
(* it that it does not keep.                                               *)
(***************************************************************************)
EXTENDS SignOff

----------------------------------------------------------------------------
(* The record *)

\* Whose signature the row carries.
signerOf(r) == IF signature[r] = Nobody THEN Nobody ELSE signature[r].by

\* The sign-off core implements the attestation ledger: a signature and its
\* chain entry land together or not at all, in the next version of the chain,
\* and nothing but a withdrawal takes a signature away (sign-off-chain.ts and
\* the transactions around recordSignOffChainEntry).
Ledger == INSTANCE Attestations WITH chain <- history, standing <- [r \in Rows |-> signerOf(r)]
LedgerSpec == Ledger!Spec

\* The chain of a row is numbered without a gap or a repeat, although every
\* writer reads the head before it inserts, and a row that carries a signature
\* has that signer's entry at the head of its chain.
ChainVouchesForSignature ==
    \A r \in Rows :
      /\ \A i \in 1 .. Len(history[r]) : history[r][i].version = i
      /\ signature[r] # Nobody => /\ history[r] # <<>>
                                  /\ history[r][Len(history[r])].by = signature[r].by

----------------------------------------------------------------------------
(* Status against signature *)

\* A row that claims a signed outcome carries the signature, and a row whose
\* work has not started carries none: no hand-set status, review decision or
\* reopening that races a sign-off leaves the two apart.
StatusAgreesWithSignature ==
    \A r \in Rows :
      /\ status[r] \in {"completed", "approved", "rejected"} => signature[r] # Nobody
      /\ status[r] = "not_started" => signature[r] = Nobody

\* The signature under a reviewer's approval is withdrawn only by someone with
\* review access, also when the approval lands after the withdrawing request
\* looked at the row (reopenRequirement and moveToInProgress decide under the
\* lock for this reason).
ApprovalWithdrawnByReviewer ==
    [][\A r \in Rows :
         status[r] = "approved" /\ signature[r] # Nobody /\ signature'[r] = Nobody
         => \E q \in Requests : r \in req[q].held /\ req[q].user \in Reviewers]_vars

----------------------------------------------------------------------------
(* Rosters and batches *)

\* What q's step adds to the chain of r.
SignsNow(q, r) == r \in req[q].held /\ req'[q] # req[q] /\ history'[r] # history[r]

\* When a signer closes a row through signOff or confirmModuleRef, no assigned
\* signer of that row is still to sign: not the one who was assigned while the
\* last signature was being given, and not one of two signing at once.
ClosingLeavesNobodyToSign ==
    [][\A q \in Requests, r \in Rows :
         SignsNow(q, r) /\ req[q].op \in {"sign", "confirm"}
         => \A u \in Users : signers'[r][u] # "pending"]_vars

\* A batch signs over no decision: a row somebody completed, approved or set
\* aside between the batch's read and its write keeps what they recorded.
BatchSkipsDecided ==
    [][\A q \in Requests, r \in Rows :
         SignsNow(q, r) /\ req[q].op = "tx" => ~Done(r)]_vars

\* p's transaction waits for a row that q's transaction holds.
WaitsFor(p, q) == req[p].op = "tx" /\ \E r \in req[q].held : IsNext(p, r)

\* No set of requests is stuck waiting on itself: batches and credits take their
\* rows in one order, and a request that locks a single row waits for no other.
NoWaitCycle ==
    \A S \in SUBSET Requests :
      S # {} => \E p \in S : \A q \in S : ~WaitsFor(p, q)

\* Every request ends, however often the rows it waits for are taken by others.
EveryRequestEnds ==
    \A q \in Requests : req[q].op # "idle" ~> req[q].op = "idle"

----------------------------------------------------------------------------
(* Locks: with the types, what makes the properties above inductive *)

\* Only a request that signs or withdraws holds rows, one row unless it is a
\* batch, and a batch has taken what it holds before what it still has to take.
WellLocked(x) ==
    /\ x.held # {} => x.op \in {"sign", "confirm", "withdraw", "tx"}
    /\ x.op \in {"sign", "confirm"} => x.arg \in {"roster", "alone"}
    /\ x.op # "tx" => \A r, s \in x.held : r = s
    /\ x.op = "tx" => \A r \in x.held, s \in x.todo : r < s

\* What the request x decided when it took its rows: the chain has the length it
\* read, a row in a batch is not done, an approved row is withdrawn by a reviewer,
\* and nobody has to sign a row signed alone.
Decided(x) ==
    \A r \in x.held :
      /\ x.op \in {"sign", "confirm", "tx"} => x.next[r] = nextVersion(r)
      /\ x.op = "tx" => ~Done(r)
      /\ x.op = "withdraw" /\ status[r] = "approved" => x.user \in Reviewers
      /\ x.op \in {"sign", "confirm"} /\ x.arg = "alone" => pendingSignersOf(r) = {}

\* Requests lock rows in the one order lockStatusRow and signOffRows describe,
\* and a locked status row has one holder: no more than the guards of the steps that
\* lock, and what DecidedUnderLock and NoWaitCycle rest on.
LockDiscipline ==
    \A q \in Requests :
      /\ WellLocked(req[q])
      /\ \A p \in Requests : p # q => req[p].held \cap req[q].held = {}

\* What a request decided under the lock is still so while it holds the lock: no
\* approval, sign-off or assignment slips in between the check and the write.
DecidedUnderLock == \A q \in Requests : Decided(req[q])

SafetyInv ==
    TypeOK /\ LockDiscipline /\ DecidedUnderLock /\ ChainVouchesForSignature
           /\ StatusAgreesWithSignature

----------------------------------------------------------------------------
(* What the repository says and the code does not keep *)

\* An approved row leaves approved at a person's hand only if they have review
\* access ("a member erasing a reviewer's approval is not [ordinary work]").
ApprovalEndedByReviewer ==
    [][\A q \in Requests, r \in Rows :
         /\ status[r] = "approved" /\ status'[r] # "approved"
         /\ req'[q] # req[q] /\ r \in req[q].held \cup req[q].todo
         => req[q].user \in Reviewers]_vars

\* Rows whose assigned signers still owe a signature "are signed one by one
\* through the assignment flow, never in a batch" (roster.ts).
BatchLeavesRostersAlone ==
    [][\A q \in Requests, r \in Rows :
         SignsNow(q, r) /\ req[q].op = "tx" => pendingSignersOf(r) = {}]_vars

\* "A removed person can never sign, so a roster still waiting on them would
\* block its requirement for good" (removeMember): nobody waits on them.
RostersWaitOnMembers ==
    \A r \in Rows : pendingSignersOf(r) \subseteq members
=============================================================================
