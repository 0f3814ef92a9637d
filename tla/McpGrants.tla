----------------------------- MODULE McpGrants -----------------------------
(***************************************************************************)
(* Sign-ins of AI assistants: codes, rotating refresh tokens, pasted keys  *)
(* and the connections behind them (lib/mcp/oauth, lib/mcp/connections),   *)
(* for one person in one company.                                          *)
(*                                                                         *)
(* No token is stored: whoever holds one may present it at any time and as *)
(* often as they like, so every token ever made is in "codes" or "tokens". *)
(* A server remembers only the connections, the person's key version and   *)
(* what was spent, in windows of the rate limiter that last a while longer *)
(* than the token.  A request waits for the database between its steps and *)
(* may break off at each.                                                  *)
(*                                                                         *)
(* A tick of the clock is a minute; a request is over within a tick.       *)
(* Signatures, clients and PKCE are left out: a token is presented by its  *)
(* client.  Access keys are left out: they are made with a refresh token,  *)
(* for the same connection, and do not outlive it.                         *)
(***************************************************************************)
EXTENDS Integers, Sequences, FiniteSets

CONSTANTS Requests,        \* requests of the token endpoint and of Settings
          None,
          CODE_SECONDS,    \* life of a code
          REFRESH_SECONDS, \* life of a refresh token
          GRANT_SECONDS,   \* life of a sign-in, and of a pasted key
          REFRESH_GRACE_S, \* how long a spent refresh token still works
          LEDGER_MARGIN_S, \* how much longer than a token its window lasts
          LastTime,        \* bound: ticks
          MaxVersion,      \* bound: key versions
          MaxCodes,        \* bound: codes
          MaxConnections,  \* bound: connections
          MaxSteps         \* bound: refreshes of a sign-in

ASSUME NoneAssumption == None \notin Requests
ASSUME TermAssumption ==
    /\ CODE_SECONDS \in Nat /\ REFRESH_SECONDS \in Nat /\ GRANT_SECONDS \in Nat
    /\ REFRESH_GRACE_S \in Nat /\ LEDGER_MARGIN_S \in Nat
    /\ REFRESH_GRACE_S <= LEDGER_MARGIN_S
ASSUME BoundAssumption ==
    /\ LastTime \in Nat /\ MaxVersion \in Nat \ {0} /\ MaxCodes \in Nat
    /\ MaxConnections \in Nat /\ MaxSteps \in Nat

VARIABLES now,
          version,     \* user.mcp_key_version
          connections, \* rows of mcp_connection, in the order they were made
          codes,       \* codes the person has sent an assistant back with
          tokens,      \* refresh tokens that were made
          usedCodes,   \* windows of the codes that were presented
          usedSteps,   \* windows of the steps that were presented
          userLock,    \* the request that holds the person's row, or None
          req          \* req[q]: the request q that is running

spentVars == <<usedCodes, usedSteps>>
vars == <<now, version, connections, codes, tokens, spentVars, userLock, req>>

Times == 0 .. LastTime
Versions == 1 .. MaxVersion

Code == [ver : Versions, exp : Nat]
Connection == [kind : {"key", "signin"}, ver : Versions, code : Code \cup {None},
               expires : Nat, ended : BOOLEAN]

\* The refresh tokens of a sign-in, which has one connection, are a chain of steps.
Token == [con : 1 .. MaxConnections, ver : Versions, step : Nat, since : Times, exp : Nat]

\* closing: the open keys that its transaction ends.
Redeem == [at : {"spend", "version", "connect"}, code : Code]
Refresh == [at : {"check", "open", "take", "revoke"}, token : Token]
Key == [at : {"begin", "end", "insert"}, ver : Versions, closing : SUBSET (1 .. MaxConnections)]
Idle == [at |-> "idle"]

TypeOK ==
    /\ now \in Times /\ version \in Versions
    /\ connections \in Seq(Connection) /\ Len(connections) <= MaxConnections
    /\ codes \subseteq Code
    /\ tokens \subseteq Token
    /\ usedCodes \subseteq [code : Code, until : Nat]
    /\ usedSteps \subseteq [con : 1 .. MaxConnections, step : Nat, until : Nat]
    /\ req \in [Requests -> Redeem \cup Refresh \cup Key \cup {Idle}]
    /\ userLock \in Requests \cup {None}
    /\ \A q \in Requests : userLock = q <=> req[q].at \in {"end", "insert"}

Init ==
    /\ now = 0 /\ version = 1
    /\ connections = <<>>
    /\ codes = {} /\ tokens = {}
    /\ usedCodes = {} /\ usedSteps = {}
    /\ userLock = None
    /\ req = [q \in Requests |-> Idle]

----------------------------------------------------------------------------
(* Time, connections and versions *)

Tick ==
    /\ now < LastTime
    /\ \A q \in Requests : req[q] = Idle
    /\ now' = now + 1
    /\ UNCHANGED <<version, connections, codes, tokens, spentVars, userLock, req>>

isOpen(c) == ~connections[c].ended /\ now < connections[c].expires
openKeys == {c \in DOMAIN connections : connections[c].kind = "key" /\ isOpen(c)}

\* An UPDATE of the person's row, which waits for a lock on it.
bumpMcpKeyVersion ==
    /\ userLock = None
    /\ version < MaxVersion
    /\ version' = version + 1

\* All the person's assistants at once: by the person, a new password, the end of a
\* membership, or an admin who turns assistants off.
disconnectMcp ==
    /\ bumpMcpKeyVersion
    /\ UNCHANGED <<now, connections, codes, tokens, spentVars, userLock, req>>

endMcpConnection(c) ==
    /\ isOpen(c)
    /\ connections' = [connections EXCEPT ![c].ended = TRUE]
    /\ UNCHANGED <<now, version, codes, tokens, spentVars, userLock, req>>

\* The person allows an assistant on the consent page.
allow ==
    /\ Cardinality(codes) < MaxCodes
    /\ codes' = codes \cup {[ver |-> version, exp |-> now + CODE_SECONDS]}
    /\ UNCHANGED <<now, version, connections, tokens, spentVars, userLock, req>>

----------------------------------------------------------------------------
(* Requests *)

Goes(q, r) == req' = [req EXCEPT ![q] = r]

\* MUTANT of Ends: the lock outlives its transaction.
EndsLocked(q) ==
    /\ Goes(q, Idle)
    /\ UNCHANGED userLock

\* The answer, or an error; a transaction under way is rolled back.
Ends(q) ==
    /\ Goes(q, Idle)
    /\ userLock' = IF userLock = q THEN None ELSE userLock

RequestFails(q) ==
    /\ req[q] # Idle
    /\ Ends(q)
    /\ UNCHANGED <<now, version, connections, codes, tokens, spentVars>>

\* A connection's row.
openConnection(kind, ver, code) ==
    [kind |-> kind, ver |-> ver, code |-> code, expires |-> now + GRANT_SECONDS, ended |-> FALSE]

\* MUTANT of tokenOf: every token lives its full life.
tokenOfFull(con, ver, step, since) ==
    [con |-> con, ver |-> ver, step |-> step, since |-> since, exp |-> now + REFRESH_SECONDS]

\* The next token of a sign-in, which does not outlive the sign-in.
tokenOf(con, ver, step, since) ==
    LET left == since + GRANT_SECONDS - now
    IN  [con |-> con, ver |-> ver, step |-> step, since |-> since,
         exp |-> now + (IF REFRESH_SECONDS < left THEN REFRESH_SECONDS ELSE left)]

----------------------------------------------------------------------------
(* A code for a connection *)

redeem(q) ==
    /\ req[q] = Idle
    /\ \E code \in codes :
         /\ now < code.exp
         /\ Goes(q, [at |-> "spend", code |-> code])
    /\ UNCHANGED <<now, version, connections, codes, tokens, spentVars, userLock>>

\* One statement of the rate limiter: the window is opened, again once it is over, or
\* the hit is refused.
codeWindow(code) == {u \in usedCodes : u.code = code /\ now < u.until}

\* MUTANT of spendCode: a code works again for a while, as a refresh token does.
spendCodeGraced(q) ==
    /\ req[q].at = "spend"
    /\ \/ /\ codeWindow(req[q].code) # {}
          /\ \A u \in codeWindow(req[q].code) :
               now + CODE_SECONDS + LEDGER_MARGIN_S - u.until > REFRESH_GRACE_S
          /\ Ends(q)
          /\ UNCHANGED usedCodes
       \/ /\ \/ codeWindow(req[q].code) = {}
             \/ \E u \in codeWindow(req[q].code) :
                  now + CODE_SECONDS + LEDGER_MARGIN_S - u.until <= REFRESH_GRACE_S
          /\ usedCodes' = {u \in usedCodes : u.code # req[q].code} \cup
                {[code |-> req[q].code, until |-> now + CODE_SECONDS + LEDGER_MARGIN_S]}
          /\ Goes(q, [req[q] EXCEPT !.at = "version"])
          /\ UNCHANGED userLock
    /\ UNCHANGED <<now, version, connections, codes, tokens, usedSteps>>

spendCode(q) ==
    /\ req[q].at = "spend"
    /\ \/ /\ codeWindow(req[q].code) # {}
          /\ Ends(q)
          /\ UNCHANGED usedCodes
       \/ /\ codeWindow(req[q].code) = {}
          /\ usedCodes' = {u \in usedCodes : u.code # req[q].code} \cup
                {[code |-> req[q].code, until |-> now + CODE_SECONDS + LEDGER_MARGIN_S]}
          /\ Goes(q, [req[q] EXCEPT !.at = "version"])
          /\ UNCHANGED userLock
    /\ UNCHANGED <<now, version, connections, codes, tokens, usedSteps>>

codeVersion(q) ==
    /\ req[q].at = "version"
    /\ \/ version # req[q].code.ver /\ Ends(q)
       \/ version = req[q].code.ver /\ Goes(q, [req[q] EXCEPT !.at = "connect"])
          /\ UNCHANGED userLock
    /\ UNCHANGED <<now, version, connections, codes, tokens, spentVars>>

\* The connection, and its first token unless the answer fails.
connect(q) ==
    /\ req[q].at = "connect"
    /\ Len(connections) < MaxConnections
    /\ connections' = Append(connections, openConnection("signin", req[q].code.ver, req[q].code))
    /\ \E made \in {{}, {tokenOf(Len(connections) + 1, req[q].code.ver, 0, now)}} :
         tokens' = tokens \cup made
    /\ Ends(q)
    /\ UNCHANGED <<now, version, codes, spentVars>>

----------------------------------------------------------------------------
(* A refresh token for the next *)

refresh(q) ==
    /\ req[q] = Idle
    /\ \E t \in tokens :
         /\ now < t.exp /\ t.step < MaxSteps
         /\ Goes(q, [at |-> "check", token |-> t])
    /\ UNCHANGED <<now, version, connections, codes, tokens, spentVars, userLock>>

tokenVersion(q) ==
    /\ req[q].at = "check"
    /\ \/ version # req[q].token.ver /\ Ends(q)
       \/ version = req[q].token.ver /\ Goes(q, [req[q] EXCEPT !.at = "open"])
          /\ UNCHANGED userLock
    /\ UNCHANGED <<now, version, connections, codes, tokens, spentVars>>

connectionOpen(q) ==
    /\ req[q].at = "open"
    /\ \/ ~isOpen(req[q].token.con) /\ Ends(q)
       \/ isOpen(req[q].token.con) /\ Goes(q, [req[q] EXCEPT !.at = "take"])
          /\ UNCHANGED userLock
    /\ UNCHANGED <<now, version, connections, codes, tokens, spentVars>>

sameStep(u, t) == u.con = t.con /\ u.step = t.step
stepWindow(t) == {u \in usedSteps : sameStep(u, t) /\ now < u.until}

\* MUTANT of stepWindowS: a window lasts as long as a token.
stepWindowSExpiry == REFRESH_SECONDS
stepWindowS == REFRESH_SECONDS + LEDGER_MARGIN_S

\* How long ago a window that ends then was opened.
sinceS(until) == now + stepWindowS - until

successor(t) == tokenOf(t.con, t.ver, t.step + 1, t.since)

\* MUTANT of late: a token that was spent works for as long as it lives.
lateNever(t) == FALSE
late(t) == \E u \in stepWindow(t) : sinceS(u.until) > REFRESH_GRACE_S

\* The first to present a step opens its window; others get a token of the same next
\* step for a while, and later than that the person is disconnected.
spendStep(q) ==
    LET t == req[q].token
    IN  /\ req[q].at = "take"
        /\ \/ /\ stepWindow(t) = {}
              /\ usedSteps' = {u \in usedSteps : ~sameStep(u, t)} \cup
                    {[con |-> t.con, step |-> t.step, until |-> now + stepWindowS]}
              /\ tokens' = tokens \cup {successor(t)}
              /\ Ends(q)
           \/ /\ stepWindow(t) # {} /\ ~late(t)
              /\ tokens' = tokens \cup {successor(t)}
              /\ Ends(q)
              /\ UNCHANGED usedSteps
           \/ /\ late(t)
              /\ Goes(q, [req[q] EXCEPT !.at = "revoke"])
              /\ UNCHANGED <<usedSteps, tokens, userLock>>
        /\ UNCHANGED <<now, version, connections, codes, usedCodes>>

revoke(q) ==
    /\ req[q].at = "revoke"
    /\ bumpMcpKeyVersion
    /\ Goes(q, Idle)
    /\ UNCHANGED <<now, connections, codes, tokens, spentVars, userLock>>

----------------------------------------------------------------------------
(* A key to paste *)

createMcpKey(q) ==
    /\ req[q] = Idle
    /\ Goes(q, [at |-> "begin", ver |-> version, closing |-> {}])
    /\ UNCHANGED <<now, version, connections, codes, tokens, spentVars, userLock>>

\* MUTANT of lockPerson: the transaction does not lock the person's row.
lockPersonNot(q) ==
    /\ req[q].at = "begin"
    /\ userLock' = q
    /\ Goes(q, [req[q] EXCEPT !.at = "end"])
    /\ UNCHANGED <<now, version, connections, codes, tokens, spentVars>>

lockPerson(q) ==
    /\ req[q].at = "begin"
    /\ userLock = None
    /\ userLock' = q
    /\ Goes(q, [req[q] EXCEPT !.at = "end"])
    /\ UNCHANGED <<now, version, connections, codes, tokens, spentVars>>

\* What the transaction writes is seen when it commits.
endKeys(q) ==
    /\ req[q].at = "end"
    /\ Goes(q, [req[q] EXCEPT !.at = "insert", !.closing = openKeys])
    /\ UNCHANGED <<now, version, connections, codes, tokens, spentVars, userLock>>

keyCommitted(q) ==
    /\ req[q].at = "insert"
    /\ Len(connections) < MaxConnections
    /\ connections' =
         Append([c \in DOMAIN connections |->
                    [connections[c] EXCEPT !.ended = @ \/ c \in req[q].closing]],
                openConnection("key", req[q].ver, None))
    /\ Ends(q)
    /\ UNCHANGED <<now, version, codes, tokens, spentVars>>

----------------------------------------------------------------------------
Next ==
    \/ Tick \/ disconnectMcp \/ allow
    \/ \E c \in DOMAIN connections : endMcpConnection(c)
    \/ \E q \in Requests :
         \/ RequestFails(q)
         \/ redeem(q) \/ spendCode(q) \/ codeVersion(q) \/ connect(q)
         \/ refresh(q) \/ tokenVersion(q) \/ connectionOpen(q) \/ spendStep(q) \/ revoke(q)
         \/ createMcpKey(q) \/ lockPerson(q) \/ endKeys(q) \/ keyCommitted(q)

Spec == Init /\ [][Next]_vars
=============================================================================
