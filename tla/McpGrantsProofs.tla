-------------------------- MODULE McpGrantsProofs --------------------------
(***************************************************************************)
(* Sign-ins of assistants for any requests, terms and bounds: types, a     *)
(* chain of tokens that nobody runs beside another, a ledger that outlives *)
(* the tokens it remembers, codes that connect once and one key at a time. *)
(***************************************************************************)
EXTENDS McpGrantsProperties, SequenceTheorems, TLAPS

----------------------------------------------------------------------------
(* Types *)

\* What kind of request is at which step.
LEMMA Kinds ==
  ASSUME TypeOK, NEW q \in Requests
  PROVE  /\ req[q].at \in {"spend", "version", "connect"} => req[q] \in Redeem
         /\ req[q].at \in {"check", "open", "take", "revoke"} => req[q] \in Refresh
         /\ req[q].at \in {"begin", "end", "insert"} => req[q] \in Key
         /\ req[q].at = "idle" <=> req[q] = Idle
  BY DEF TypeOK, Redeem, Refresh, Key, Idle

\* The table of connections, and a row that is added to it.
LEMMA Rows ==
  ASSUME TypeOK
  PROVE  /\ DOMAIN connections = 1 .. Len(connections) /\ Len(connections) \in Nat
         /\ DOMAIN connections \subseteq 1 .. MaxConnections
         /\ \A c \in DOMAIN connections : connections[c] \in Connection
<1>1. connections \in Seq(Connection)
  BY DEF TypeOK
<1>2. DOMAIN connections = 1 .. Len(connections) /\ Len(connections) \in Nat
  BY <1>1, LenProperties
<1>3. DOMAIN connections \subseteq 1 .. MaxConnections
  BY <1>2, BoundAssumption DEF TypeOK
<1>4. \A c \in DOMAIN connections : connections[c] \in Connection
  BY <1>1, <1>2, ElementOfSeq
<1> QED
  BY <1>2, <1>3, <1>4

LEMMA NewRow ==
  ASSUME NEW rows \in Seq(Connection), NEW row \in Connection
  PROVE  /\ Append(rows, row) \in Seq(Connection)
         /\ Len(Append(rows, row)) = Len(rows) + 1
         /\ DOMAIN Append(rows, row) = DOMAIN rows \cup {Len(rows) + 1}
         /\ \A c \in DOMAIN rows : Append(rows, row)[c] = rows[c]
         /\ Append(rows, row)[Len(rows) + 1] = row
         /\ Len(rows) + 1 \notin DOMAIN rows
<1>1. DOMAIN rows = 1 .. Len(rows) /\ Len(rows) \in Nat
  BY LenProperties
<1>2. /\ Append(rows, row) \in Seq(Connection)
      /\ Len(Append(rows, row)) = Len(rows) + 1
      /\ \A i \in 1 .. Len(rows) : Append(rows, row)[i] = rows[i]
      /\ Append(rows, row)[Len(rows) + 1] = row
  BY AppendProperties
<1>3. DOMAIN Append(rows, row) = 1 .. (Len(rows) + 1)
  BY <1>2, LenProperties
<1> QED
  BY <1>1, <1>2, <1>3

LEMMA OpenedRow ==
  ASSUME TypeOK, NEW kind \in {"key", "signin"}, NEW ver \in Versions, NEW code \in Code \cup {None}
  PROVE  openConnection(kind, ver, code) \in Connection
<1>1. now + GRANT_SECONDS \in Nat
  BY TermAssumption, BoundAssumption DEF TypeOK, Times
<1> QED
  BY <1>1 DEF openConnection, Connection

\* A token does not outlive the sign-in, nor its own life.
LEMMA MadeToken ==
  ASSUME TypeOK, NEW con \in 1 .. MaxConnections, NEW ver \in Versions, NEW step \in Nat,
         NEW since \in Times, now <= since + GRANT_SECONDS
  PROVE  /\ tokenOf(con, ver, step, since) \in Token
         /\ tokenOf(con, ver, step, since).exp <= since + GRANT_SECONDS
         /\ tokenOf(con, ver, step, since).exp <= now + REFRESH_SECONDS
         /\ \/ tokenOf(con, ver, step, since).exp = since + GRANT_SECONDS
            \/ tokenOf(con, ver, step, since).exp = now + REFRESH_SECONDS
<1> DEFINE left == since + GRANT_SECONDS - now
<1>1. now \in Nat /\ since \in Nat /\ REFRESH_SECONDS \in Nat /\ GRANT_SECONDS \in Nat
  BY TermAssumption, BoundAssumption DEF TypeOK, Times
<1>2. PICK exp : exp = now + (IF REFRESH_SECONDS < left THEN REFRESH_SECONDS ELSE left)
  OBVIOUS
<1>3. exp \in Nat /\ exp <= since + GRANT_SECONDS /\ exp <= now + REFRESH_SECONDS
      /\ (exp = since + GRANT_SECONDS \/ exp = now + REFRESH_SECONDS)
  BY <1>1, <1>2
<1>4. tokenOf(con, ver, step, since)
        = [con |-> con, ver |-> ver, step |-> step, since |-> since, exp |-> exp]
  BY <1>2 DEF tokenOf
<1> QED
  BY <1>3, <1>4 DEF Token

----------------------------------------------------------------------------
(* The invariant behind the types: a request for the next token presents a live one, *)
(* and no token outlives the connection it belongs to. *)

AnyRequest == Redeem \cup Refresh \cup Key \cup {Idle}
AtRedeem == {"spend", "version", "connect"}
AtRefresh == {"check", "open", "take", "revoke"}
AtLock == {"end", "insert"}

RequestsOK ==
  /\ req \in [Requests -> AnyRequest]
  /\ userLock \in Requests \cup {None}
  /\ \A q \in Requests : userLock = q <=> req[q].at \in AtLock

TablesOK ==
  /\ now \in Times /\ version \in Versions
  /\ connections \in Seq(Connection) /\ Len(connections) <= MaxConnections
  /\ codes \subseteq Code
  /\ tokens \subseteq Token
  /\ usedCodes \subseteq [code : Code, until : Nat]
  /\ usedSteps \subseteq [con : 1 .. MaxConnections, step : Nat, until : Nat]

OfConnection(t) ==
  /\ t.con \in DOMAIN connections
  /\ connections[t.con].expires = t.since + GRANT_SECONDS
  /\ t.exp <= t.since + GRANT_SECONDS

TokensOK == \A t \in tokens : OfConnection(t)

CodesPresented ==
  \A q \in Requests :
    req[q].at \in AtRedeem => req[q].code \in codes /\ now < req[q].code.exp

TokensPresented ==
  \A q \in Requests :
    req[q].at \in AtRefresh => req[q].token \in tokens /\ now < req[q].token.exp

TypeInv == TablesOK /\ RequestsOK /\ TokensOK /\ CodesPresented /\ TokensPresented

LEMMA Types == TypeOK <=> TablesOK /\ RequestsOK
  BY DEF TypeOK, TablesOK, RequestsOK, AnyRequest, AtLock

LEMMA TypeInit == Init => TypeInv
<1> SUFFICES ASSUME Init PROVE TypeInv
  OBVIOUS
<1> USE DEF Init
<1>1. TablesOK
  <2>1. 0 \in Times /\ 1 \in Versions
    BY BoundAssumption DEF Times, Versions
  <2>2. <<>> \in Seq(Connection) /\ Len(<<>>) = 0
    BY EmptySeq
  <2> QED
    BY <2>1, <2>2, BoundAssumption DEF TablesOK
<1>2. RequestsOK
  BY NoneAssumption DEF RequestsOK, AnyRequest, Idle, AtLock
<1>3. TokensOK /\ CodesPresented /\ TokensPresented
  BY DEF TokensOK, CodesPresented, TokensPresented, Idle, AtRedeem, AtRefresh
<1> QED
  BY <1>1, <1>2, <1>3 DEF TypeInv

\* A request that goes on without taking or giving back the lock.
LEMMA GoesOn ==
  ASSUME TypeInv, NEW q \in Requests, NEW r \in AnyRequest, Goes(q, r), userLock' = userLock,
         r.at \in AtLock <=> req[q].at \in AtLock
  PROVE  RequestsOK' /\ req'[q] = r /\ \A p \in Requests \ {q} : req'[p] = req[p]
  BY DEF TypeInv, RequestsOK, Goes

LEMMA Ended ==
  ASSUME TypeInv, NEW q \in Requests, Ends(q)
  PROVE  RequestsOK' /\ req'[q] = Idle /\ \A p \in Requests \ {q} : req'[p] = req[p]
<1>1. req'[q] = Idle /\ req' \in [Requests -> AnyRequest]
      /\ \A p \in Requests \ {q} : req'[p] = req[p]
  BY DEF TypeInv, RequestsOK, Ends, Goes, AnyRequest
<1>2. userLock' \in Requests \cup {None}
  BY DEF TypeInv, RequestsOK, Ends
<1>3. ASSUME NEW p \in Requests PROVE userLock' = p <=> req'[p].at \in AtLock
  <2>1. CASE p = q
    BY <2>1, <1>1, NoneAssumption DEF TypeInv, RequestsOK, Ends, Idle, AtLock
  <2>2. CASE p # q
    BY <2>2, <1>1, NoneAssumption DEF TypeInv, RequestsOK, Ends
  <2> QED
    BY <2>1, <2>2
<1> QED
  BY <1>1, <1>2, <1>3 DEF RequestsOK

\* What the other requests presented is still there, and live within the tick.
LEMMA Presented ==
  ASSUME TypeInv, NEW q \in Requests, now' = now, codes \subseteq codes', tokens \subseteq tokens',
         \A p \in Requests \ {q} : req'[p] = req[p],
         req'[q].at \in AtRedeem => req'[q].code \in codes /\ now < req'[q].code.exp,
         req'[q].at \in AtRefresh => req'[q].token \in tokens /\ now < req'[q].token.exp
  PROVE  CodesPresented' /\ TokensPresented'
  BY DEF TypeInv, CodesPresented, TokensPresented

\* Rows that keep their terms keep their tokens.
LEMMA TokensKept ==
  ASSUME TypeInv, DOMAIN connections \subseteq DOMAIN connections',
         \A c \in DOMAIN connections : connections'[c].expires = connections[c].expires,
         NEW t \in tokens
  PROVE  OfConnection(t)'
  BY DEF TypeInv, TokensOK, OfConnection

\* A step that leaves the requests alone.
RequestsRest == UNCHANGED <<req, userLock>>

LEMMA RestOK ==
  ASSUME TypeInv, RequestsRest, now' = now, codes \subseteq codes', tokens \subseteq tokens'
  PROVE  RequestsOK' /\ CodesPresented' /\ TokensPresented'
  BY DEF TypeInv, RequestsRest, RequestsOK, CodesPresented, TokensPresented

LEMMA TypeOutside ==
  ASSUME TypeInv,
         Tick \/ disconnectMcp \/ allow \/ \E c \in DOMAIN connections : endMcpConnection(c)
  PROVE  TypeInv'
<1>0. TypeOK
  BY Types DEF TypeInv
<1>1. CASE Tick
  <2>1. now' \in Times
    BY <1>1, BoundAssumption DEF Tick, TypeInv, TablesOK, Times
  <2>2. TablesOK'
    BY <1>1, <2>1 DEF Tick, TypeInv, TablesOK, spentVars
  <2>3. RequestsOK' /\ TokensOK'
    BY <1>1 DEF Tick, TypeInv, RequestsOK, TokensOK, OfConnection
  <2>4. CodesPresented' /\ TokensPresented'
    BY <1>1 DEF Tick, CodesPresented, TokensPresented, Idle, AtRedeem, AtRefresh
  <2> QED
    BY <2>2, <2>3, <2>4 DEF TypeInv
<1>2. CASE disconnectMcp
  <2>1. version' \in Versions
    BY <1>2, BoundAssumption DEF disconnectMcp, bumpMcpKeyVersion, TypeInv, TablesOK, Versions
  <2>2. TablesOK' /\ TokensOK'
    BY <1>2, <2>1 DEF disconnectMcp, TypeInv, TablesOK, spentVars, TokensOK, OfConnection
  <2>3. RequestsOK' /\ CodesPresented' /\ TokensPresented'
    BY <1>2, RestOK DEF disconnectMcp, RequestsRest
  <2> QED
    BY <2>2, <2>3 DEF TypeInv
<1>3. CASE allow
  <2>1. now + CODE_SECONDS \in Nat
    BY TermAssumption, BoundAssumption DEF TypeInv, TablesOK, Times
  <2>2. TablesOK' /\ TokensOK'
    BY <1>3, <2>1 DEF allow, TypeInv, TablesOK, spentVars, TokensOK, OfConnection, Code
  <2>3. RequestsOK' /\ CodesPresented' /\ TokensPresented'
    BY <1>3, RestOK DEF allow, RequestsRest
  <2> QED
    BY <2>2, <2>3 DEF TypeInv
<1>4. ASSUME NEW c \in DOMAIN connections, endMcpConnection(c)
      PROVE  TypeInv'
  <2>1. /\ DOMAIN connections' = DOMAIN connections
        /\ \A d \in DOMAIN connections :
             /\ connections'[d] \in Connection
             /\ connections'[d].expires = connections[d].expires
    BY <1>4, <1>0, Rows DEF endMcpConnection, Connection
  <2>2. connections' \in Seq(Connection) /\ Len(connections') = Len(connections)
    <3>1. connections' = [d \in 1 .. Len(connections) |-> connections'[d]]
      BY <1>4, <1>0, Rows DEF endMcpConnection
    <3> QED
      BY <3>1, <2>1, <1>0, Rows, SeqDef, LenProperties
  <2>3. TablesOK'
    BY <1>4, <2>2 DEF endMcpConnection, TypeInv, TablesOK, spentVars
  <2>4. TokensOK'
    BY <1>4, <2>1, TokensKept DEF endMcpConnection, TokensOK
  <2>5. RequestsOK' /\ CodesPresented' /\ TokensPresented'
    BY <1>4, RestOK DEF endMcpConnection, RequestsRest
  <2> QED
    BY <2>3, <2>4, <2>5 DEF TypeInv
<1> QED
  BY <1>1, <1>2, <1>3, <1>4

\* A request that ends and changes no table.
LEMMA TypeEnds ==
  ASSUME TypeInv, NEW q \in Requests, Ends(q),
         UNCHANGED <<now, version, connections, codes, tokens, spentVars>>
  PROVE  TypeInv'
<1>1. RequestsOK' /\ CodesPresented' /\ TokensPresented'
  BY Ended, Presented DEF Idle, AtRedeem, AtRefresh
<1>2. TablesOK' /\ TokensOK'
  BY DEF TypeInv, TablesOK, spentVars, TokensOK, OfConnection
<1> QED
  BY <1>1, <1>2 DEF TypeInv

LEMMA TypeRedeem ==
  ASSUME TypeInv, NEW q \in Requests,
         redeem(q) \/ spendCode(q) \/ codeVersion(q) \/ connect(q)
  PROVE  TypeInv'
<1>0. TypeOK
  BY Types DEF TypeInv
<1>1. CASE redeem(q)
  <2>1. PICK code \in codes : now < code.exp /\ Goes(q, [at |-> "spend", code |-> code])
    BY <1>1 DEF redeem
  <2>2. [at |-> "spend", code |-> code] \in AnyRequest
    BY DEF TypeInv, TablesOK, AnyRequest, Redeem
  <2>3. RequestsOK' /\ CodesPresented' /\ TokensPresented'
    BY <1>1, <2>1, <2>2, GoesOn, Presented DEF redeem, Idle, AtLock, AtRedeem, AtRefresh
  <2>4. TablesOK' /\ TokensOK'
    BY <1>1 DEF redeem, TypeInv, TablesOK, spentVars, TokensOK, OfConnection
  <2> QED
    BY <2>3, <2>4 DEF TypeInv
<1>2. CASE spendCode(q)
  <2>1. req[q] \in Redeem /\ req[q].code \in codes /\ now < req[q].code.exp
    BY <1>2, <1>0, Kinds DEF spendCode, TypeInv, CodesPresented, AtRedeem
  <2>2. now + CODE_SECONDS + LEDGER_MARGIN_S \in Nat
    BY TermAssumption, BoundAssumption DEF TypeInv, TablesOK, Times
  <2>3. TablesOK' /\ TokensOK'
    BY <1>2, <2>1, <2>2 DEF spendCode, TypeInv, TablesOK, TokensOK, OfConnection, Redeem
  <2>4. RequestsOK' /\ CodesPresented' /\ TokensPresented'
    <3>1. CASE Ends(q)
      BY <1>2, <3>1, Ended, Presented DEF spendCode, Idle, AtRedeem, AtRefresh
    <3>2. CASE Goes(q, [req[q] EXCEPT !.at = "version"]) /\ UNCHANGED userLock
      <4>1. PICK r : r = [req[q] EXCEPT !.at = "version"]
        OBVIOUS
      <4>2. r \in AnyRequest /\ r.at = "version" /\ r.code = req[q].code
        BY <4>1, <2>1 DEF AnyRequest, Redeem
      <4> QED
        BY <1>2, <3>2, <4>1, <4>2, <2>1, GoesOn, Presented
           DEF spendCode, AtLock, AtRedeem, AtRefresh
    <3> QED
      BY <1>2, <3>1, <3>2 DEF spendCode
  <2> QED
    BY <2>3, <2>4 DEF TypeInv
<1>3. CASE codeVersion(q)
  <2>1. req[q] \in Redeem /\ req[q].code \in codes /\ now < req[q].code.exp
    BY <1>3, <1>0, Kinds DEF codeVersion, TypeInv, CodesPresented, AtRedeem
  <2>2. CASE Ends(q)
    BY <1>3, <2>2, TypeEnds DEF codeVersion
  <2>3. CASE Goes(q, [req[q] EXCEPT !.at = "connect"]) /\ UNCHANGED userLock
    <3>1. PICK r : r = [req[q] EXCEPT !.at = "connect"]
      OBVIOUS
    <3>2. r \in AnyRequest /\ r.at = "connect" /\ r.code = req[q].code
      BY <3>1, <2>1 DEF AnyRequest, Redeem
    <3>3. RequestsOK' /\ CodesPresented' /\ TokensPresented'
      BY <1>3, <2>3, <3>1, <3>2, <2>1, GoesOn, Presented
         DEF codeVersion, AtLock, AtRedeem, AtRefresh
    <3>4. TablesOK' /\ TokensOK'
      BY <1>3 DEF codeVersion, TypeInv, TablesOK, spentVars, TokensOK, OfConnection
    <3> QED
      BY <3>3, <3>4 DEF TypeInv
  <2> QED
    BY <1>3, <2>2, <2>3 DEF codeVersion
<1>4. CASE connect(q)
  <2>1. req[q] \in Redeem /\ req[q].code \in Code /\ req[q].code.ver \in Versions
    BY <1>4, <1>0, Kinds DEF connect, Redeem, Code
  <2> DEFINE row == openConnection("signin", req[q].code.ver, req[q].code)
  <2> DEFINE con == Len(connections) + 1
  <2> DEFINE new == tokenOf(con, req[q].code.ver, 0, now)
  <2>2. row \in Connection /\ row.expires = now + GRANT_SECONDS
    BY <2>1, <1>0, OpenedRow DEF openConnection
  <2>3. /\ connections' \in Seq(Connection) /\ Len(connections') = con
        /\ DOMAIN connections' = DOMAIN connections \cup {con}
        /\ \A c \in DOMAIN connections : connections'[c] = connections[c]
        /\ connections'[con].expires = now + GRANT_SECONDS
    <3>1. connections \in Seq(Connection) /\ connections' = Append(connections, row)
      BY <1>4 DEF connect, TypeInv, TablesOK
    <3>2. PICK added \in Connection : added = row /\ added.expires = now + GRANT_SECONDS
      BY <2>2
    <3> QED
      BY <3>1, <3>2, NewRow
  <2>4. con \in 1 .. MaxConnections
    BY <1>4, <1>0, Rows, BoundAssumption DEF connect
  <2>5. new \in Token /\ new.con = con /\ new.since = now /\ new.exp <= now + GRANT_SECONDS
    <3>1. now \in Times /\ now <= now + GRANT_SECONDS
      BY TermAssumption, BoundAssumption DEF TypeInv, TablesOK, Times
    <3>2. 0 \in Nat
      OBVIOUS
    <3>3. new.con = con /\ new.since = now
      BY DEF tokenOf
    <3> QED
      BY <3>1, <3>2, <3>3, <2>1, <2>4, <1>0, MadeToken
  <2>6. PICK made \in {{}, {new}} : tokens' = tokens \cup made
    BY <1>4 DEF connect
  <2>7. TablesOK'
    <3>1. tokens' \subseteq Token
      BY <2>5, <2>6 DEF TypeInv, TablesOK
    <3>2. Len(connections') <= MaxConnections
      BY <2>3, <2>4
    <3> QED
      BY <1>4, <2>3, <3>1, <3>2 DEF connect, TypeInv, TablesOK, spentVars
  <2>8. TokensOK'
    <3> SUFFICES ASSUME NEW t \in tokens' PROVE OfConnection(t)'
      BY DEF TokensOK
    <3>1. CASE t \in tokens
      BY <3>1, <2>3, TokensKept
    <3>2. CASE t = new
      BY <3>2, <2>3, <2>5 DEF OfConnection
    <3> QED
      BY <2>6, <3>1, <3>2
  <2>9. RequestsOK' /\ CodesPresented' /\ TokensPresented'
    <3>1. tokens \subseteq tokens' /\ Ends(q) /\ now' = now /\ codes' = codes
      BY <1>4, <2>6 DEF connect
    <3> QED
      BY <3>1, Ended, Presented DEF Idle, AtRedeem, AtRefresh
  <2> QED
    BY <2>7, <2>8, <2>9 DEF TypeInv
<1> QED
  BY <1>1, <1>2, <1>3, <1>4

\* The next token of a live one.
LEMMA SuccessorMade ==
  ASSUME TypeOK, TokensOK, NEW t \in tokens, now < t.exp
  PROVE  /\ successor(t) \in Token
         /\ successor(t).con = t.con /\ successor(t).since = t.since
         /\ successor(t).step = t.step + 1
         /\ successor(t).exp <= t.since + GRANT_SECONDS
         /\ successor(t).exp <= now + REFRESH_SECONDS
         /\ \/ successor(t).exp = t.since + GRANT_SECONDS
            \/ successor(t).exp = now + REFRESH_SECONDS
<1>1. /\ t.con \in 1 .. MaxConnections /\ t.ver \in Versions /\ t.step + 1 \in Nat
      /\ t.since \in Times /\ t.exp \in Nat
  BY DEF TypeOK, Token
<1>2. now <= t.since + GRANT_SECONDS
  BY <1>1, TermAssumption, BoundAssumption DEF TypeOK, TokensOK, OfConnection, Times
<1>3. successor(t).con = t.con /\ successor(t).since = t.since /\ successor(t).step = t.step + 1
  BY DEF successor, tokenOf
<1>4. PICK next \in Nat : next = t.step + 1
  BY <1>1
<1>5. /\ tokenOf(t.con, t.ver, next, t.since) \in Token
      /\ tokenOf(t.con, t.ver, next, t.since).exp <= t.since + GRANT_SECONDS
      /\ tokenOf(t.con, t.ver, next, t.since).exp <= now + REFRESH_SECONDS
      /\ \/ tokenOf(t.con, t.ver, next, t.since).exp = t.since + GRANT_SECONDS
         \/ tokenOf(t.con, t.ver, next, t.since).exp = now + REFRESH_SECONDS
  BY <1>1, <1>2, MadeToken
<1>6. successor(t) = tokenOf(t.con, t.ver, next, t.since)
  BY <1>4 DEF successor
<1> QED
  BY <1>3, <1>5, <1>6

LEMMA TypeRefresh ==
  ASSUME TypeInv, NEW q \in Requests,
         refresh(q) \/ tokenVersion(q) \/ connectionOpen(q) \/ spendStep(q) \/ revoke(q)
  PROVE  TypeInv'
<1>0. TypeOK
  BY Types DEF TypeInv
<1>t. req[q].at \in AtRefresh =>
        /\ req[q] \in Refresh /\ req[q].token \in tokens /\ now < req[q].token.exp
        /\ req[q].token \in Token
  BY <1>0, Kinds DEF TypeInv, TablesOK, TokensPresented, AtRefresh
<1>1. CASE refresh(q)
  <2>1. PICK t \in tokens : now < t.exp /\ Goes(q, [at |-> "check", token |-> t])
    BY <1>1 DEF refresh
  <2>2. [at |-> "check", token |-> t] \in AnyRequest
    BY DEF TypeInv, TablesOK, AnyRequest, Refresh
  <2>3. RequestsOK' /\ CodesPresented' /\ TokensPresented'
    BY <1>1, <2>1, <2>2, GoesOn, Presented DEF refresh, Idle, AtLock, AtRedeem, AtRefresh
  <2>4. TablesOK' /\ TokensOK'
    BY <1>1 DEF refresh, TypeInv, TablesOK, spentVars, TokensOK, OfConnection
  <2> QED
    BY <2>3, <2>4 DEF TypeInv
<1>2. CASE tokenVersion(q) \/ connectionOpen(q)
  <2>1. req[q].at \in {"check", "open"} /\ UNCHANGED <<now, version, connections, codes, tokens, spentVars>>
    BY <1>2 DEF tokenVersion, connectionOpen
  <2>2. CASE Ends(q)
    BY <2>1, <2>2, TypeEnds
  <2>3. ASSUME NEW at \in {"open", "take"}, Goes(q, [req[q] EXCEPT !.at = at]), UNCHANGED userLock
        PROVE  TypeInv'
    <3>1. PICK r : r = [req[q] EXCEPT !.at = at]
      OBVIOUS
    <3>2. r \in AnyRequest /\ r.at = at /\ r.token = req[q].token
      BY <3>1, <2>1, <1>t DEF AnyRequest, Refresh, AtRefresh
    <3>3. RequestsOK' /\ CodesPresented' /\ TokensPresented'
      BY <2>1, <2>3, <3>1, <3>2, <1>t, GoesOn, Presented DEF AtLock, AtRedeem, AtRefresh
    <3>4. TablesOK' /\ TokensOK'
      BY <2>1 DEF TypeInv, TablesOK, spentVars, TokensOK, OfConnection
    <3> QED
      BY <3>3, <3>4 DEF TypeInv
  <2> QED
    BY <1>2, <2>2, <2>3 DEF tokenVersion, connectionOpen
<1>3. CASE spendStep(q)
  <2>0. PICK t : t = req[q].token
    OBVIOUS
  <2>1. t \in tokens /\ t \in Token /\ now < t.exp /\ req[q] \in Refresh
    BY <2>0, <1>3, <1>t DEF spendStep, AtRefresh
  <2>s. PICK next : next = successor(t)
    OBVIOUS
  <2>2. /\ next \in Token /\ next.con = t.con /\ next.since = t.since
        /\ next.exp <= t.since + GRANT_SECONDS
    BY <2>s, <2>1, <1>0, SuccessorMade DEF TypeInv
  <2>3. OfConnection(next)'
    BY <1>3, <2>1, <2>2 DEF spendStep, TypeInv, TokensOK, OfConnection
  <2>4. now + stepWindowS \in Nat
    BY TermAssumption, BoundAssumption DEF TypeInv, TablesOK, Times, stepWindowS
  <2>5. tokens \subseteq tokens' /\ tokens' \subseteq tokens \cup {next}
    BY <2>0, <2>s, <1>3 DEF spendStep
  <2>6. TablesOK' /\ TokensOK'
    <3>0. connections' = connections
      BY <1>3 DEF spendStep
    <3>1. usedSteps' \subseteq [con : 1 .. MaxConnections, step : Nat, until : Nat]
      BY <1>3, <2>0, <2>1, <2>4 DEF spendStep, TypeInv, TablesOK, Token
    <3>2. \A s \in tokens' : OfConnection(s)'
      BY <1>3, <2>3, <2>5, <3>0, TokensKept
    <3> QED
      BY <1>3, <2>2, <2>5, <3>1, <3>2 DEF spendStep, TypeInv, TablesOK, TokensOK
  <2>7. RequestsOK' /\ CodesPresented' /\ TokensPresented'
    <3>1. CASE Ends(q)
      BY <1>3, <2>5, <3>1, Ended, Presented DEF spendStep, Idle, AtRedeem, AtRefresh
    <3>2. CASE Goes(q, [req[q] EXCEPT !.at = "revoke"]) /\ UNCHANGED userLock
      <4>1. PICK r : r = [req[q] EXCEPT !.at = "revoke"]
        OBVIOUS
      <4>2. r \in AnyRequest /\ r.at = "revoke" /\ r.token = t
        BY <4>1, <2>0, <2>1 DEF AnyRequest, Refresh
      <4> QED
        BY <1>3, <2>5, <3>2, <4>1, <4>2, <2>1, GoesOn, Presented
           DEF spendStep, AtLock, AtRedeem, AtRefresh
    <3> QED
      BY <1>3, <3>1, <3>2 DEF spendStep
  <2> QED
    BY <2>6, <2>7 DEF TypeInv
<1>4. CASE revoke(q)
  <2>1. version' \in Versions
    BY <1>4, BoundAssumption DEF revoke, bumpMcpKeyVersion, TypeInv, TablesOK, Versions
  <2>2. TablesOK' /\ TokensOK'
    BY <1>4, <2>1 DEF revoke, TypeInv, TablesOK, spentVars, TokensOK, OfConnection
  <2>3. RequestsOK' /\ CodesPresented' /\ TokensPresented'
    <3>1. Idle \in AnyRequest
      BY DEF AnyRequest
    <3> QED
      BY <1>4, <3>1, GoesOn, Presented DEF revoke, Idle, AtLock, AtRedeem, AtRefresh
  <2> QED
    BY <2>2, <2>3 DEF TypeInv
<1> QED
  BY <1>1, <1>2, <1>3, <1>4

\* The commit of a key: the keys its transaction has read are ended, and it is added.
LEMMA KeyRow ==
  ASSUME TypeOK, NEW q \in Requests, keyCommitted(q)
  PROVE  /\ connections' \in Seq(Connection) /\ Len(connections') = Len(connections) + 1
         /\ DOMAIN connections' = DOMAIN connections \cup {Len(connections) + 1}
         /\ \A c \in DOMAIN connections :
              /\ connections'[c].kind = connections[c].kind
              /\ connections'[c].code = connections[c].code
              /\ connections'[c].expires = connections[c].expires
              /\ connections[c].ended \/ c \in req[q].closing => connections'[c].ended
         /\ connections'[Len(connections) + 1].code = None
<1> DEFINE ended == [c \in DOMAIN connections |->
                       [connections[c] EXCEPT !.ended = @ \/ c \in req[q].closing]]
<1>1. /\ DOMAIN ended = DOMAIN connections
      /\ \A c \in DOMAIN connections :
           /\ ended[c] \in Connection
           /\ ended[c].kind = connections[c].kind
           /\ ended[c].code = connections[c].code
           /\ ended[c].expires = connections[c].expires
           /\ connections[c].ended \/ c \in req[q].closing => ended[c].ended
  BY Rows DEF Connection
<1>2. PICK row \in Connection : row.code = None /\ connections' = Append(ended, row)
  <2>1. req[q].ver \in Versions
    BY Kinds DEF keyCommitted, Key
  <2> QED
    BY <2>1, OpenedRow DEF keyCommitted, openConnection
<1>3. ended \in Seq(Connection) /\ Len(ended) = Len(connections)
  <2>1. ended \in [1 .. Len(connections) -> Connection] /\ Len(connections) \in Nat
    BY <1>1, Rows
  <2> HIDE DEF ended
  <2> QED
    BY <2>1, SeqDef, LenProperties
<1> HIDE DEF ended
<1> QED
  BY <1>1, <1>2, <1>3, NewRow

LEMMA TypeKey ==
  ASSUME TypeInv, NEW q \in Requests,
         createMcpKey(q) \/ lockPerson(q) \/ endKeys(q) \/ keyCommitted(q)
  PROVE  TypeInv'
<1>0. TypeOK
  BY Types DEF TypeInv
<1>1. CASE createMcpKey(q)
  <2>1. PICK r : r = [at |-> "begin", ver |-> version, closing |-> {}]
    OBVIOUS
  <2>2. r \in AnyRequest /\ r.at = "begin"
    BY <2>1 DEF TypeInv, TablesOK, AnyRequest, Key
  <2>3. RequestsOK' /\ CodesPresented' /\ TokensPresented'
    BY <1>1, <2>1, <2>2, GoesOn, Presented DEF createMcpKey, Idle, AtLock, AtRedeem, AtRefresh
  <2>4. TablesOK' /\ TokensOK'
    BY <1>1 DEF createMcpKey, TypeInv, TablesOK, spentVars, TokensOK, OfConnection
  <2> QED
    BY <2>3, <2>4 DEF TypeInv
<1>2. CASE lockPerson(q)
  <2>1. PICK r : r = [req[q] EXCEPT !.at = "end"]
    OBVIOUS
  <2>2. r \in AnyRequest /\ r.at = "end"
    BY <1>2, <2>1, <1>0, Kinds DEF lockPerson, AnyRequest, Key
  <2>3. /\ req' \in [Requests -> AnyRequest] /\ req'[q] = r
        /\ \A p \in Requests \ {q} : req'[p] = req[p]
    BY <1>2, <2>1, <2>2 DEF lockPerson, Goes, TypeInv, RequestsOK
  <2>4. RequestsOK'
    <3>1. userLock = None /\ userLock' = q
      BY <1>2 DEF lockPerson
    <3>2. \A p \in Requests : userLock' = p <=> req'[p].at \in AtLock
      BY <2>2, <2>3, <3>1, NoneAssumption DEF TypeInv, RequestsOK, AtLock
    <3> QED
      BY <2>3, <3>1, <3>2 DEF RequestsOK
  <2>5. CodesPresented' /\ TokensPresented'
    BY <1>2, <2>2, <2>3, Presented DEF lockPerson, AtRedeem, AtRefresh
  <2>6. TablesOK' /\ TokensOK'
    BY <1>2 DEF lockPerson, TypeInv, TablesOK, spentVars, TokensOK, OfConnection
  <2> QED
    BY <2>4, <2>5, <2>6 DEF TypeInv
<1>3. CASE endKeys(q)
  <2>1. PICK r : r = [req[q] EXCEPT !.at = "insert", !.closing = openKeys]
    OBVIOUS
  <2>2. openKeys \subseteq 1 .. MaxConnections
    BY <1>0, Rows DEF openKeys
  <2>3. r \in AnyRequest /\ r.at = "insert"
    BY <1>3, <2>1, <2>2, <1>0, Kinds DEF endKeys, AnyRequest, Key
  <2>4. RequestsOK' /\ CodesPresented' /\ TokensPresented'
    BY <1>3, <2>1, <2>3, GoesOn, Presented DEF endKeys, AtLock, AtRedeem, AtRefresh
  <2>5. TablesOK' /\ TokensOK'
    BY <1>3 DEF endKeys, TypeInv, TablesOK, spentVars, TokensOK, OfConnection
  <2> QED
    BY <2>4, <2>5 DEF TypeInv
<1>4. CASE keyCommitted(q)
  <2>5. /\ connections' \in Seq(Connection) /\ Len(connections') = Len(connections) + 1
        /\ DOMAIN connections \subseteq DOMAIN connections'
        /\ \A c \in DOMAIN connections : connections'[c].expires = connections[c].expires
    BY <1>4, <1>0, KeyRow
  <2>6. TablesOK'
    <3>1. Len(connections') <= MaxConnections
      BY <1>4, <2>5, <1>0, Rows, BoundAssumption DEF keyCommitted
    <3> QED
      BY <1>4, <2>5, <3>1 DEF keyCommitted, TypeInv, TablesOK, spentVars
  <2>7. TokensOK'
    BY <1>4, <2>5, TokensKept DEF keyCommitted, TokensOK
  <2>8. RequestsOK' /\ CodesPresented' /\ TokensPresented'
    BY <1>4, Ended, Presented DEF keyCommitted, Idle, AtRedeem, AtRefresh
  <2> QED
    BY <2>6, <2>7, <2>8 DEF TypeInv
<1> QED
  BY <1>1, <1>2, <1>3, <1>4

LEMMA TypeStep == TypeInv /\ [Next]_vars => TypeInv'
<1> SUFFICES ASSUME TypeInv, [Next]_vars PROVE TypeInv'
  OBVIOUS
<1>1. CASE Tick \/ disconnectMcp \/ allow \/ \E c \in DOMAIN connections : endMcpConnection(c)
  BY <1>1, TypeOutside
<1>2. ASSUME NEW q \in Requests,
             \/ RequestFails(q)
             \/ redeem(q) \/ spendCode(q) \/ codeVersion(q) \/ connect(q)
             \/ refresh(q) \/ tokenVersion(q) \/ connectionOpen(q) \/ spendStep(q) \/ revoke(q)
             \/ createMcpKey(q) \/ lockPerson(q) \/ endKeys(q) \/ keyCommitted(q)
      PROVE  TypeInv'
  <2>1. CASE RequestFails(q)
    BY <2>1, TypeEnds DEF RequestFails
  <2> QED
    BY <1>2, <2>1, TypeRedeem, TypeRefresh, TypeKey
<1>3. CASE UNCHANGED vars
  BY <1>3 DEF vars, spentVars, TypeInv, TablesOK, RequestsOK, TokensOK, OfConnection,
              CodesPresented, TokensPresented
<1> QED
  BY <1>1, <1>2, <1>3 DEF Next

\* Every table, token and request stays of its type, and the lock on the person's row is
\* held by the one request that is in its transaction.
THEOREM TypeCorrect == Spec => []TypeOK
<1>1. TypeInv => TypeOK
  BY Types DEF TypeInv
<1> QED
  BY <1>1, TypeInit, TypeStep, PTL DEF Spec

----------------------------------------------------------------------------
(* What the types and the terms of a token already give *)

\* A sign-in ends with its connection: however often it is refreshed, by whom and beside
\* what, no token of it outlives the row.
THEOREM SignInsEnd == Spec => []SignInEnds
<1>1. TypeInv => SignInEnds
  BY DEF TypeInv, TokensOK, OfConnection, SignInEnds
<1> QED
  BY <1>1, TypeInit, TypeStep, PTL DEF Spec

----------------------------------------------------------------------------
(* One key at a time.  The transaction that makes a key has read every key that is open: *)
(* no other can make one before it is over, as it holds the person's row. *)

ClosesAllKeys == \A q \in Requests : req[q].at = "insert" => openKeys \subseteq req[q].closing
KeyInv == TypeInv /\ OneKeyAtATime /\ ClosesAllKeys

LEMMA KeyInit == Init => KeyInv
<1>1. Init => OneKeyAtATime /\ ClosesAllKeys
  BY EmptySeq DEF Init, OneKeyAtATime, ClosesAllKeys, openKeys, Idle
<1> QED
  BY <1>1, TypeInit DEF KeyInv

\* No key is opened but by the transaction that makes one.
LEMMA KeysClose ==
  ASSUME KeyInv, openKeys' \subseteq openKeys,
         \A q \in Requests : req'[q].at = "insert" =>
             \/ req'[q] = req[q]
             \/ req'[q].closing = openKeys
  PROVE  OneKeyAtATime' /\ ClosesAllKeys'
  BY DEF KeyInv, OneKeyAtATime, ClosesAllKeys

LEMMA SameKeys ==
  ASSUME connections' = connections, now' = now
  PROVE  openKeys' = openKeys
  BY DEF openKeys, isOpen

\* A step that takes no request into the transaction's last step.
LEMMA NotInserting ==
  ASSUME TypeInv, NEW q \in Requests, NEW r, Goes(q, r), r.at # "insert"
  PROVE  \A p \in Requests : req'[p].at = "insert" => req'[p] = req[p]
  BY DEF TypeInv, RequestsOK, Goes

LEMMA KeyOutside ==
  ASSUME KeyInv,
         Tick \/ disconnectMcp \/ allow \/ \E c \in DOMAIN connections : endMcpConnection(c)
  PROVE  OneKeyAtATime' /\ ClosesAllKeys'
<1>0. TypeOK /\ req' = req
  BY Types DEF KeyInv, TypeInv, Tick, disconnectMcp, allow, endMcpConnection
<1>1. CASE Tick
  <2>1. now \in Nat /\ \A c \in DOMAIN connections : connections[c].expires \in Nat
    BY <1>0, Rows, BoundAssumption DEF TypeOK, Times, Connection
  <2>2. openKeys' \subseteq openKeys
    BY <1>1, <2>1 DEF Tick, openKeys, isOpen
  <2> QED
    BY <2>2, <1>0, KeysClose
<1>2. CASE disconnectMcp \/ allow
  BY <1>0, <1>2, SameKeys, KeysClose DEF disconnectMcp, allow
<1>3. ASSUME NEW c \in DOMAIN connections, endMcpConnection(c)
      PROVE  OneKeyAtATime' /\ ClosesAllKeys'
  <2>1. DOMAIN connections' = DOMAIN connections
        /\ \A d \in DOMAIN connections :
             /\ connections'[d].kind = connections[d].kind
             /\ connections'[d].expires = connections[d].expires
             /\ connections[d].ended => connections'[d].ended
    BY <1>0, <1>3, Rows DEF endMcpConnection, Connection
  <2>2. openKeys' \subseteq openKeys
    BY <1>3, <2>1 DEF openKeys, isOpen, endMcpConnection
  <2> QED
    BY <2>2, <1>0, KeysClose
<1> QED
  BY <1>1, <1>2, <1>3

LEMMA KeyRequest ==
  ASSUME KeyInv, NEW q \in Requests,
         \/ RequestFails(q)
         \/ redeem(q) \/ spendCode(q) \/ codeVersion(q) \/ connect(q)
         \/ refresh(q) \/ tokenVersion(q) \/ connectionOpen(q) \/ spendStep(q) \/ revoke(q)
         \/ createMcpKey(q) \/ lockPerson(q) \/ endKeys(q) \/ keyCommitted(q)
  PROVE  OneKeyAtATime' /\ ClosesAllKeys'
<1>0. TypeInv /\ TypeOK
  BY Types DEF KeyInv, TypeInv
<1>e. Ends(q) => \A p \in Requests : req'[p].at = "insert" => req'[p] = req[p]
  BY <1>0, NotInserting DEF Ends, Idle
<1>1. CASE RequestFails(q) \/ spendCode(q) \/ codeVersion(q) \/ tokenVersion(q)
           \/ connectionOpen(q) \/ spendStep(q)
  <2>1. connections' = connections /\ now' = now
    BY <1>1 DEF RequestFails, spendCode, codeVersion, tokenVersion, connectionOpen, spendStep
  <2>2. \/ Ends(q)
        \/ \E at \in {"version", "connect", "open", "take", "revoke"} :
             req[q] \in Redeem \cup Refresh /\ Goes(q, [req[q] EXCEPT !.at = at])
    BY <1>0, <1>1, Kinds
       DEF RequestFails, spendCode, codeVersion, tokenVersion, connectionOpen, spendStep
  <2>3. ASSUME NEW at \in {"version", "connect", "open", "take", "revoke"},
               req[q] \in Redeem \cup Refresh, Goes(q, [req[q] EXCEPT !.at = at])
        PROVE  \A p \in Requests : req'[p].at = "insert" => req'[p] = req[p]
    <3>1. PICK r : r = [req[q] EXCEPT !.at = at]
      OBVIOUS
    <3>2. r.at # "insert"
      BY <2>3, <3>1 DEF Redeem, Refresh
    <3> QED
      BY <2>3, <3>1, <3>2, <1>0, NotInserting
  <2> QED
    BY <2>1, <2>2, <2>3, <1>e, SameKeys, KeysClose
<1>2. CASE redeem(q) \/ refresh(q) \/ createMcpKey(q) \/ revoke(q)
  <2>1. \A p \in Requests : req'[p].at = "insert" => req'[p] = req[p]
    <3>1. CASE redeem(q)
      <4>1. PICK code \in codes : Goes(q, [at |-> "spend", code |-> code])
        BY <3>1 DEF redeem
      <4> QED
        BY <4>1, <1>0, NotInserting
    <3>2. CASE refresh(q)
      <4>1. PICK t \in tokens : Goes(q, [at |-> "check", token |-> t])
        BY <3>2 DEF refresh
      <4> QED
        BY <4>1, <1>0, NotInserting
    <3>3. CASE createMcpKey(q)
      BY <3>3, <1>0, NotInserting DEF createMcpKey
    <3>4. CASE revoke(q)
      BY <3>4, <1>0, NotInserting DEF revoke, Idle
    <3> QED
      BY <1>2, <3>1, <3>2, <3>3, <3>4
  <2>2. connections' = connections /\ now' = now
    BY <1>2 DEF redeem, refresh, createMcpKey, revoke
  <2> QED
    BY <2>1, <2>2, SameKeys, KeysClose
<1>3. CASE connect(q)
  <2>1. PICK row \in Connection :
          row.kind = "signin" /\ connections' = Append(connections, row)
    <3>1. req[q].code \in Code /\ req[q].code.ver \in Versions
      BY <1>0, <1>3, Kinds DEF connect, Redeem, Code
    <3> QED
      BY <1>0, <1>3, <3>1, OpenedRow DEF connect, openConnection
  <2>2. /\ DOMAIN connections' = DOMAIN connections \cup {Len(connections) + 1}
        /\ \A c \in DOMAIN connections : connections'[c] = connections[c]
        /\ connections'[Len(connections) + 1].kind = "signin"
    BY <1>0, <2>1, NewRow DEF TypeOK
  <2>3. openKeys' \subseteq openKeys
    BY <1>3, <2>2 DEF connect, openKeys, isOpen
  <2> QED
    BY <1>3, <2>3, <1>e, KeysClose DEF connect
<1>4. CASE lockPerson(q)
  <2>1. PICK r : r = [req[q] EXCEPT !.at = "end"]
    OBVIOUS
  <2>2. r.at # "insert"
    BY <1>0, <1>4, <2>1, Kinds DEF lockPerson, Key
  <2> QED
    BY <1>0, <1>4, <2>1, <2>2, NotInserting, SameKeys, KeysClose DEF lockPerson
<1>5. CASE endKeys(q)
  <2>1. req[q] \in Key /\ connections' = connections /\ now' = now
    BY <1>0, <1>5, Kinds DEF endKeys
  <2>2. req'[q].closing = openKeys /\ \A p \in Requests \ {q} : req'[p] = req[p]
    BY <1>0, <1>5, <2>1 DEF endKeys, Goes, Key, TypeInv, RequestsOK
  <2> QED
    BY <2>1, <2>2, SameKeys, KeysClose
<1>6. CASE keyCommitted(q)
  <2>5. now' = now /\ openKeys \subseteq req[q].closing
    BY <1>6 DEF keyCommitted, KeyInv, ClosesAllKeys
  <2>6. openKeys' \subseteq {Len(connections) + 1}
    <3> SUFFICES ASSUME NEW c \in openKeys', c \in DOMAIN connections PROVE FALSE
      BY <1>0, <1>6, KeyRow DEF openKeys
    <3>1. c \in openKeys
      BY <1>0, <1>6, <2>5, KeyRow DEF openKeys, isOpen
    <3>2. connections'[c].ended
      BY <1>0, <1>6, <2>5, <3>1, KeyRow
    <3> QED
      BY <3>2 DEF openKeys, isOpen
  <2>7. \A p \in Requests : req'[p].at # "insert"
    <3>1. userLock = q
      BY <1>0, <1>6 DEF keyCommitted, TypeInv, RequestsOK, AtLock
    <3>2. req'[q] = Idle /\ \A p \in Requests \ {q} : req'[p] = req[p]
      BY <1>0, <1>6, Ended DEF keyCommitted
    <3>3. \A p \in Requests \ {q} : req[p].at # "insert"
      BY <1>0, <3>1 DEF TypeInv, RequestsOK, AtLock
    <3> QED
      BY <3>2, <3>3 DEF Idle
  <2> QED
    BY <2>6, <2>7 DEF OneKeyAtATime, ClosesAllKeys
<1> QED
  BY <1>1, <1>2, <1>3, <1>4, <1>5, <1>6

\* The person holds one pasted key at a time, however many are made at once, and whatever
\* breaks off in between.
THEOREM OneKey == Spec => []OneKeyAtATime
<1>1. KeyInv /\ [Next]_vars => KeyInv'
  <2> SUFFICES ASSUME KeyInv, [Next]_vars PROVE KeyInv'
    OBVIOUS
  <2>1. TypeInv'
    BY TypeStep DEF KeyInv
  <2>2. CASE UNCHANGED vars
    BY <2>1, <2>2 DEF vars, KeyInv, OneKeyAtATime, ClosesAllKeys, openKeys, isOpen
  <2> QED
    BY <2>1, <2>2, KeyOutside, KeyRequest DEF Next, KeyInv
<1>2. KeyInv => OneKeyAtATime
  BY DEF KeyInv
<1> QED
  BY <1>1, <1>2, KeyInit, PTL DEF Spec

----------------------------------------------------------------------------
(* The chain of a sign-in.  A step is spent in one window, after the step before it; its *)
(* tokens were all made within the grace of the window of the step before, so none *)
(* outlives the window that remembers that it was spent. *)

OneWindow == \A u, v \in usedSteps : sameStep(u, v) => u = v
WindowsOpened ==
  \A u \in usedSteps : u.until <= now + stepWindowS /\ u.con \in DOMAIN connections
WindowsInOrder ==
  \A u \in usedSteps :
    u.step > 0 => \E v \in usedSteps : v.con = u.con /\ v.step + 1 = u.step /\ v.until <= u.until

\* t was made with the step that window u remembers, within the grace of it.
MadeIn(u, t) ==
  /\ u.con = t.con /\ u.step + 1 = t.step
  /\ t.exp + LEDGER_MARGIN_S <= u.until + REFRESH_GRACE_S
  /\ u.until <= t.exp + LEDGER_MARGIN_S \/ t.exp = t.since + GRANT_SECONDS

TokensMade == \A t \in tokens : t.exp <= now + REFRESH_SECONDS
OneFirstToken ==
  \A s, t \in tokens : s.con = t.con /\ s.step = 0 /\ t.step = 0 => s.exp = t.exp
StepsSpent == \A t \in tokens : t.step > 0 => \E u \in usedSteps : MadeIn(u, t)

Ledger == OneWindow /\ WindowsOpened /\ WindowsInOrder
Chain == TokensMade /\ OneFirstToken /\ StepsSpent
ChainInv == TypeInv /\ Ledger /\ Chain /\ LedgerOutlivesTokens

LEMMA ChainInit == Init => ChainInv
<1>1. Init => Ledger /\ Chain /\ LedgerOutlivesTokens
  BY DEF Init, Ledger, OneWindow, WindowsOpened, WindowsInOrder, Chain, TokensMade,
         OneFirstToken, StepsSpent, LedgerOutlivesTokens
<1> QED
  BY <1>1, TypeInit DEF ChainInv

LEMMA Numbers ==
  ASSUME TypeInv
  PROVE  /\ now \in Nat /\ stepWindowS = REFRESH_SECONDS + LEDGER_MARGIN_S /\ stepWindowS \in Nat
         /\ \A t \in tokens : t.exp \in Nat /\ t.step \in Nat /\ t.since \in Nat
         /\ \A u \in usedSteps : u.until \in Nat /\ u.step \in Nat
  BY TermAssumption, BoundAssumption DEF TypeInv, TablesOK, Times, Token, stepWindowS

\* The tokens of a step, which lie in the one window of the step before.
LEMMA Together == ChainInv => StepsTakenTogether
<1> SUFFICES ASSUME ChainInv, NEW s \in tokens, NEW t \in tokens, s.con = t.con, s.step = t.step
             PROVE  t.exp <= s.exp + REFRESH_GRACE_S
  BY DEF StepsTakenTogether
<1>0. TypeInv /\ now \in Nat /\ s.exp \in Nat /\ t.exp \in Nat /\ s.step \in Nat /\ t.step \in Nat
      /\ s.since \in Nat /\ t.since \in Nat
  BY Numbers DEF ChainInv
<1>1. CASE s.step = 0
  <2>1. s.exp = t.exp
    BY <1>1 DEF ChainInv, Chain, OneFirstToken
  <2> QED
    BY <1>0, <2>1, TermAssumption
<1>2. CASE s.step > 0
  <2>1. PICK u \in usedSteps : MadeIn(u, s)
    BY <1>2 DEF ChainInv, Chain, StepsSpent
  <2>2. PICK v \in usedSteps : MadeIn(v, t)
    BY <1>2 DEF ChainInv, Chain, StepsSpent
  <2>3. u.until \in Nat /\ v.until \in Nat /\ u.step \in Nat /\ v.step \in Nat
    BY <1>0, Numbers
  <2>4. u = v
    BY <1>0, <2>1, <2>2, <2>3 DEF MadeIn, ChainInv, Ledger, OneWindow, sameStep
  <2>5. t.exp <= s.since + GRANT_SECONDS
    BY <1>0, TermAssumption DEF TypeInv, TokensOK, OfConnection
  <2>6. t.exp + LEDGER_MARGIN_S <= u.until + REFRESH_GRACE_S
    BY <2>2, <2>4 DEF MadeIn
  <2>7. u.until <= s.exp + LEDGER_MARGIN_S \/ s.exp = s.since + GRANT_SECONDS
    BY <2>1 DEF MadeIn
  <2> QED
    BY <1>0, <2>3, <2>5, <2>6, <2>7, TermAssumption
<1> QED
  BY <1>0, <1>1, <1>2

\* A step that makes no token and spends none.
LEMMA ChainKept ==
  ASSUME ChainInv, now' \in Nat, now <= now', tokens' = tokens, usedSteps' = usedSteps,
         DOMAIN connections \subseteq DOMAIN connections'
  PROVE  Ledger' /\ Chain' /\ LedgerOutlivesTokens'
<1>0. TypeInv
  BY DEF ChainInv
<1>1. WindowsOpened'
  <2>1. stepWindowS' = stepWindowS
    BY DEF stepWindowS
  <2> QED
    BY <1>0, <2>1, Numbers DEF ChainInv, Ledger, WindowsOpened
<1>2. TokensMade'
  BY <1>0, Numbers, TermAssumption DEF ChainInv, Chain, TokensMade
<1> QED
  BY <1>1, <1>2 DEF ChainInv, Ledger, OneWindow, WindowsInOrder, Chain, OneFirstToken, StepsSpent,
                    MadeIn, LedgerOutlivesTokens, sameStep

LEMMA ChainConnect ==
  ASSUME ChainInv, NEW q \in Requests, connect(q)
  PROVE  Ledger' /\ Chain' /\ LedgerOutlivesTokens'
<1>0. TypeInv /\ TypeOK
  BY Types DEF ChainInv, TypeInv
<1>1. req[q].code \in Code /\ req[q].code.ver \in Versions
  BY <1>0, Kinds DEF connect, Redeem, Code
<1>2. PICK new : new = tokenOf(Len(connections) + 1, req[q].code.ver, 0, now)
  OBVIOUS
<1>3. /\ new \in Token /\ new.con = Len(connections) + 1 /\ new.step = 0
      /\ new.exp <= now + REFRESH_SECONDS
  <2>1. Len(connections) + 1 \in 1 .. MaxConnections
    BY <1>0, Rows, BoundAssumption DEF connect
  <2>2. now \in Times /\ now <= now + GRANT_SECONDS /\ 0 \in Nat
    BY <1>0, TermAssumption, BoundAssumption DEF TypeOK, Times
  <2>3. new.con = Len(connections) + 1 /\ new.step = 0
    BY <1>2 DEF tokenOf
  <2> QED
    BY <1>0, <1>1, <1>2, <2>1, <2>2, <2>3, MadeToken
<1>4. PICK made \in {{}, {new}} : tokens' = tokens \cup made
  BY <1>2 DEF connect
<1>5. now' = now /\ usedSteps' = usedSteps /\ DOMAIN connections \subseteq DOMAIN connections'
  <2>1. PICK row \in Connection : connections' = Append(connections, row)
    BY <1>0, <1>1, OpenedRow DEF connect
  <2> QED
    BY <1>0, <2>1, NewRow DEF connect, TypeOK, spentVars
<1>6. \A t \in tokens : t.con # new.con
  BY <1>0, <1>3, Rows DEF TypeInv, TokensOK, OfConnection
<1>7. \A u \in usedSteps : u.con # new.con
  BY <1>0, <1>3, Rows DEF ChainInv, Ledger, WindowsOpened
<1>8. Ledger'
  BY <1>5 DEF ChainInv, Ledger, OneWindow, WindowsOpened, WindowsInOrder, sameStep, stepWindowS
<1>9. Chain'
  <2>1. TokensMade'
    BY <1>3, <1>4, <1>5 DEF ChainInv, Chain, TokensMade
  <2>2. OneFirstToken'
    BY <1>3, <1>4, <1>6 DEF ChainInv, Chain, OneFirstToken
  <2>3. StepsSpent'
    BY <1>3, <1>4, <1>5 DEF ChainInv, Chain, StepsSpent, MadeIn
  <2> QED
    BY <2>1, <2>2, <2>3 DEF Chain
<1>10. LedgerOutlivesTokens'
  BY <1>4, <1>5, <1>7 DEF ChainInv, LedgerOutlivesTokens, sameStep
<1> QED
  BY <1>8, <1>9, <1>10

\* The first to present a step opens its window.
LEMMA ChainSpent ==
  ASSUME ChainInv, NEW t \in tokens, now < t.exp, NEW next, next = successor(t), NEW new,
         new = [con |-> t.con, step |-> t.step, until |-> now + stepWindowS],
         stepWindow(t) = {}, now' = now, connections' = connections,
         usedSteps' = {u \in usedSteps : ~sameStep(u, t)} \cup {new},
         tokens' = tokens \cup {next}
  PROVE  Ledger' /\ Chain' /\ LedgerOutlivesTokens'
<1>0. TypeInv /\ TypeOK
  BY Types DEF ChainInv, TypeInv
<1>1. /\ next.con = t.con /\ next.since = t.since /\ next.step = t.step + 1 /\ next.exp \in Nat
      /\ next.exp <= now + REFRESH_SECONDS
      /\ next.exp = next.since + GRANT_SECONDS \/ next.exp = now + REFRESH_SECONDS
  BY <1>0, SuccessorMade DEF TypeInv, Token
<1>2. \A u \in usedSteps : ~sameStep(u, t)
  BY <1>0, Numbers DEF stepWindow, ChainInv, LedgerOutlivesTokens
<1>3. usedSteps' = usedSteps \cup {new}
  BY <1>2
<1>4. stepWindowS' = stepWindowS
  BY DEF stepWindowS
<1>5. t.con \in DOMAIN connections
  BY DEF ChainInv, TypeInv, TokensOK, OfConnection
<1>6. \A u \in usedSteps : u.con = t.con => u.step # t.step + 1
  <2> SUFFICES ASSUME NEW u \in usedSteps, u.con = t.con, u.step = t.step + 1 PROVE FALSE
    OBVIOUS
  <2>1. u.step > 0 /\ t.step \in Nat
    BY <1>0, Numbers
  <2>2. PICK v \in usedSteps : v.con = u.con /\ v.step + 1 = u.step
    BY <2>1 DEF ChainInv, Ledger, WindowsInOrder
  <2>3. v.step = t.step
    BY <1>0, <2>1, <2>2, Numbers
  <2> QED
    BY <1>2, <2>2, <2>3 DEF sameStep
<1>7. Ledger'
  <2>1. OneWindow'
    BY <1>2, <1>3 DEF ChainInv, Ledger, OneWindow, sameStep
  <2>2. WindowsOpened'
    BY <1>0, <1>3, <1>4, <1>5, Numbers DEF ChainInv, Ledger, WindowsOpened
  <2>3. WindowsInOrder'
    <3> SUFFICES ASSUME NEW u \in usedSteps', u.step > 0
                 PROVE  \E v \in usedSteps' :
                          v.con = u.con /\ v.step + 1 = u.step /\ v.until <= u.until
      BY DEF WindowsInOrder
    <3>1. CASE u \in usedSteps
      BY <1>3, <3>1 DEF ChainInv, Ledger, WindowsInOrder
    <3>2. CASE u = new
      <4>1. PICK v \in usedSteps : MadeIn(v, t)
        BY <3>2 DEF ChainInv, Chain, StepsSpent
      <4>2. v.until <= now + stepWindowS
        BY DEF ChainInv, Ledger, WindowsOpened
      <4> QED
        BY <1>3, <3>2, <4>1, <4>2 DEF MadeIn
    <3> QED
      BY <1>3, <3>1, <3>2
  <2> QED
    BY <2>1, <2>2, <2>3 DEF Ledger
<1>8. Chain'
  <2>1. TokensMade'
    BY <1>1 DEF ChainInv, Chain, TokensMade
  <2>2. OneFirstToken'
    BY <1>0, <1>1, Numbers DEF ChainInv, Chain, OneFirstToken
  <2>3. MadeIn(new, next)
    BY <1>0, <1>1, Numbers, TermAssumption DEF MadeIn
  <2>4. StepsSpent'
    BY <1>3, <2>3 DEF ChainInv, Chain, StepsSpent, MadeIn
  <2> QED
    BY <2>1, <2>2, <2>4 DEF Chain
<1>9. LedgerOutlivesTokens'
  <2> SUFFICES ASSUME NEW s \in tokens', NEW u \in usedSteps', sameStep(u, s)
               PROVE  s.exp <= u.until
    BY DEF LedgerOutlivesTokens, sameStep
  <2>1. CASE u = new
    <3>1. s.exp <= now + REFRESH_SECONDS /\ s.exp \in Nat
      BY <1>0, <1>1, Numbers DEF ChainInv, Chain, TokensMade
    <3> QED
      BY <1>0, <2>1, <3>1, Numbers, TermAssumption
  <2>2. CASE u \in usedSteps /\ s \in tokens
    BY <2>2 DEF ChainInv, LedgerOutlivesTokens
  <2>3. CASE u \in usedSteps /\ s = next
    BY <1>1, <1>6, <2>3 DEF sameStep
  <2> QED
    BY <1>3, <2>1, <2>2, <2>3
<1> QED
  BY <1>7, <1>8, <1>9

\* A copy, within the grace, gets a token of the same next step.
LEMMA ChainCopied ==
  ASSUME ChainInv, NEW t \in tokens, now < t.exp, NEW next, next = successor(t),
         stepWindow(t) # {}, ~late(t), now' = now, connections' = connections,
         usedSteps' = usedSteps, tokens' = tokens \cup {next}
  PROVE  Ledger' /\ Chain' /\ LedgerOutlivesTokens'
<1>0. TypeInv /\ TypeOK
  BY Types DEF ChainInv, TypeInv
<1>1. /\ next.con = t.con /\ next.since = t.since /\ next.step = t.step + 1 /\ next.exp \in Nat
      /\ next.exp <= now + REFRESH_SECONDS
      /\ next.exp = next.since + GRANT_SECONDS \/ next.exp = now + REFRESH_SECONDS
  BY <1>0, SuccessorMade DEF TypeInv, Token
<1>2. PICK u \in usedSteps : sameStep(u, t) /\ now < u.until /\ sinceS(u.until) <= REFRESH_GRACE_S
  <2>1. PICK v \in stepWindow(t) : ~(sinceS(v.until) > REFRESH_GRACE_S)
    BY DEF late
  <2>2. v \in usedSteps /\ sameStep(v, t) /\ now < v.until
    BY <2>1 DEF stepWindow
  <2>3. sinceS(v.until) <= REFRESH_GRACE_S
    <3>1. sinceS(v.until) \in Int
      BY <1>0, <2>2, Numbers DEF sinceS
    <3> QED
      BY <2>1, <3>1, TermAssumption
  <2> QED
    BY <2>2, <2>3
<1>3. now + REFRESH_SECONDS + LEDGER_MARGIN_S <= u.until + REFRESH_GRACE_S
  BY <1>0, <1>2, Numbers, TermAssumption DEF sinceS
<1>4. Ledger'
  BY DEF ChainInv, Ledger, OneWindow, WindowsOpened, WindowsInOrder, sameStep, stepWindowS
<1>5. Chain'
  <2>1. TokensMade'
    BY <1>1 DEF ChainInv, Chain, TokensMade
  <2>2. OneFirstToken'
    BY <1>0, <1>1, Numbers DEF ChainInv, Chain, OneFirstToken
  <2>3. MadeIn(u, next)
    <3>1. u.until <= now + REFRESH_SECONDS + LEDGER_MARGIN_S
      BY <1>0, Numbers, TermAssumption DEF ChainInv, Ledger, WindowsOpened
    <3> QED
      BY <1>0, <1>1, <1>2, <1>3, <3>1, Numbers, TermAssumption DEF MadeIn, sameStep
  <2>4. StepsSpent'
    BY <2>3 DEF ChainInv, Chain, StepsSpent, MadeIn
  <2> QED
    BY <2>1, <2>2, <2>4 DEF Chain
<1>6. LedgerOutlivesTokens'
  <2> SUFFICES ASSUME NEW s \in tokens', NEW v \in usedSteps, sameStep(v, s)
               PROVE  s.exp <= v.until
    BY DEF LedgerOutlivesTokens, sameStep
  <2>1. CASE s \in tokens
    BY <2>1 DEF ChainInv, LedgerOutlivesTokens
  <2>2. CASE s = next
    <3>1. v.con = t.con /\ v.step = t.step + 1 /\ t.step \in Nat
      BY <1>0, <1>1, <2>2, Numbers DEF sameStep
    <3>2. PICK w \in usedSteps : w.con = v.con /\ w.step + 1 = v.step /\ w.until <= v.until
      BY <3>1 DEF ChainInv, Ledger, WindowsInOrder
    <3>3. w = u
      BY <1>0, <1>2, <3>1, <3>2, Numbers DEF ChainInv, Ledger, OneWindow, sameStep
    <3> QED
      BY <1>0, <1>1, <1>3, <2>2, <3>2, <3>3, Numbers, TermAssumption
  <2> QED
    BY <2>1, <2>2
<1> QED
  BY <1>4, <1>5, <1>6

LEMMA ChainStep == ChainInv /\ [Next]_vars => ChainInv'
<1> SUFFICES ASSUME ChainInv, [Next]_vars PROVE Ledger' /\ Chain' /\ LedgerOutlivesTokens'
  BY TypeStep DEF ChainInv
<1>0. TypeInv /\ TypeOK /\ now \in Nat
  BY Types, Numbers DEF ChainInv, TypeInv
<1>1. CASE Tick
  <2>1. now' \in Nat /\ now <= now'
    BY <1>0, <1>1 DEF Tick
  <2> QED
    BY <1>1, <2>1, ChainKept DEF Tick, spentVars
<1>2. CASE disconnectMcp \/ allow
  BY <1>0, <1>2, ChainKept DEF disconnectMcp, allow, spentVars
<1>3. ASSUME NEW c \in DOMAIN connections, endMcpConnection(c)
      PROVE  Ledger' /\ Chain' /\ LedgerOutlivesTokens'
  <2>1. DOMAIN connections' = DOMAIN connections
    BY <1>3 DEF endMcpConnection
  <2> QED
    BY <1>0, <1>3, <2>1, ChainKept DEF endMcpConnection, spentVars
<1>4. ASSUME NEW q \in Requests,
             \/ RequestFails(q)
             \/ redeem(q) \/ spendCode(q) \/ codeVersion(q)
             \/ refresh(q) \/ tokenVersion(q) \/ connectionOpen(q) \/ revoke(q)
             \/ createMcpKey(q) \/ lockPerson(q) \/ endKeys(q)
      PROVE  Ledger' /\ Chain' /\ LedgerOutlivesTokens'
  <2>1. UNCHANGED <<now, connections, tokens, usedSteps>>
    BY <1>4 DEF RequestFails, redeem, spendCode, codeVersion, refresh, tokenVersion, connectionOpen,
                revoke, createMcpKey, lockPerson, endKeys, spentVars
  <2> QED
    BY <1>0, <2>1, ChainKept
<1>5. ASSUME NEW q \in Requests, keyCommitted(q)
      PROVE  Ledger' /\ Chain' /\ LedgerOutlivesTokens'
  <2>1. DOMAIN connections \subseteq DOMAIN connections'
    BY <1>0, <1>5, KeyRow
  <2> QED
    BY <1>0, <1>5, <2>1, ChainKept DEF keyCommitted, spentVars
<1>6. ASSUME NEW q \in Requests, spendStep(q)
      PROVE  Ledger' /\ Chain' /\ LedgerOutlivesTokens'
  <2>0. PICK t : t = req[q].token
    OBVIOUS
  <2>1. t \in tokens /\ now < t.exp
    BY <1>0, <1>6, <2>0 DEF spendStep, TypeInv, TokensPresented, AtRefresh
  <2>2. PICK next : next = successor(t)
    OBVIOUS
  <2>3. CASE /\ stepWindow(t) = {}
             /\ usedSteps' = {u \in usedSteps : ~sameStep(u, t)} \cup
                   {[con |-> t.con, step |-> t.step, until |-> now + stepWindowS]}
             /\ tokens' = tokens \cup {successor(t)}
    <3>1. PICK new : new = [con |-> t.con, step |-> t.step, until |-> now + stepWindowS]
      OBVIOUS
    <3> QED
      BY <1>6, <2>1, <2>2, <2>3, <3>1, ChainSpent DEF spendStep
  <2>4. CASE /\ stepWindow(t) # {} /\ ~late(t)
             /\ tokens' = tokens \cup {successor(t)}
             /\ UNCHANGED usedSteps
    BY <1>6, <2>1, <2>2, <2>4, ChainCopied DEF spendStep
  <2>5. CASE UNCHANGED <<usedSteps, tokens>>
    BY <1>0, <1>6, <2>5, ChainKept DEF spendStep
  <2> QED
    BY <1>6, <2>0, <2>3, <2>4, <2>5 DEF spendStep
<1>7. CASE UNCHANGED vars
  BY <1>0, <1>7, ChainKept DEF vars, spentVars
<1> QED
  BY <1>1, <1>2, <1>3, <1>4, <1>5, <1>6, <1>7, ChainConnect DEF Next

\* However often and however simultaneously the tokens of a sign-in are presented, by the
\* assistant and by whoever copied one, those of one step lie within the grace of each
\* other: a chain that goes its own pace is noticed at its next step.
THEOREM StepsTogether == Spec => []StepsTakenTogether
  BY ChainInit, ChainStep, Together, PTL DEF Spec

\* The ledger outlives what it remembers, for any grace that is no longer than the margin.
THEOREM LedgerLasts == Spec => []LedgerOutlivesTokens
<1>1. ChainInv => LedgerOutlivesTokens
  BY DEF ChainInv
<1> QED
  BY <1>1, ChainInit, ChainStep, PTL DEF Spec

----------------------------------------------------------------------------
(* Codes.  Between its window and its connection a code is one request's, and its window *)
(* lasts at least as long as anyone may present it. *)

AtSpent == {"version", "connect"}
spentCode(code) == \E u \in usedCodes : u.code = code /\ code.exp <= u.until

CodesMade == \A code \in codes : code.exp <= now + CODE_SECONDS
CodesSpent ==
  /\ \A q \in Requests : req[q].at \in AtSpent => spentCode(req[q].code)
  /\ \A c \in DOMAIN connections :
       connections[c].code # None => spentCode(connections[c].code)
OneRequest ==
  \A p, q \in Requests :
    req[p].at \in AtSpent /\ req[q].at \in AtSpent /\ req[p].code = req[q].code => p = q
NotYetConnected ==
  \A q \in Requests, c \in DOMAIN connections :
    req[q].at \in AtSpent /\ connections[c].code # None => connections[c].code # req[q].code

CodeRules == CodesMade /\ CodesSpent /\ OneRequest /\ NotYetConnected /\ CodeConnectsOnce
CodeInv == TypeInv /\ CodeRules

LEMMA CodeInit == Init => CodeInv
<1>1. Init => CodeRules
  BY EmptySeq DEF Init, CodeRules, CodesMade, CodesSpent, OneRequest, NotYetConnected,
                  CodeConnectsOnce, AtSpent, Idle
<1> QED
  BY <1>1, TypeInit DEF CodeInv

\* A step that spends no code and connects none.
LEMMA CodeKept ==
  ASSUME CodeInv, CodesMade', usedCodes' = usedCodes,
         \A q \in Requests :
           req'[q].at \in AtSpent => req[q].at \in AtSpent /\ req'[q].code = req[q].code,
         \A c \in DOMAIN connections' :
           \/ c \in DOMAIN connections /\ connections'[c].code = connections[c].code
           \/ connections'[c].code = None
  PROVE  CodeRules'
<1>1. CodesSpent'
  BY DEF CodeInv, CodeRules, CodesSpent, spentCode
<1>2. OneRequest' /\ NotYetConnected' /\ CodeConnectsOnce'
  BY DEF CodeInv, CodeRules, OneRequest, NotYetConnected, CodeConnectsOnce
<1> QED
  BY <1>1, <1>2 DEF CodeRules

LEMMA SameCodes ==
  ASSUME CodeInv, codes' = codes, now' = now
  PROVE  CodesMade'
  BY DEF CodeInv, CodeRules, CodesMade

\* A request that goes on, and was not between its window and its connection.
LEMMA Elsewhere ==
  ASSUME TypeInv, NEW q \in Requests, NEW r, Goes(q, r), r.at \notin AtSpent
  PROVE  \A p \in Requests :
           req'[p].at \in AtSpent => req[p].at \in AtSpent /\ req'[p].code = req[p].code
  BY DEF TypeInv, RequestsOK, Goes

LEMMA CodeOutside ==
  ASSUME CodeInv,
         Tick \/ disconnectMcp \/ allow \/ \E c \in DOMAIN connections : endMcpConnection(c)
  PROVE  CodeRules'
<1>0. TypeInv /\ TypeOK /\ now \in Nat /\ req' = req /\ usedCodes' = usedCodes
  BY Types, Numbers DEF CodeInv, TypeInv, Tick, disconnectMcp, allow, endMcpConnection, spentVars
<1>1. CodesMade'
  <2>1. CASE Tick
    BY <1>0, <2>1, TermAssumption DEF Tick, CodeInv, CodeRules, CodesMade, TypeOK, Code
  <2>2. CASE allow
    BY <1>0, <2>2, TermAssumption DEF allow, CodeInv, CodeRules, CodesMade
  <2> QED
    BY <2>1, <2>2, SameCodes DEF disconnectMcp, endMcpConnection
<1>2. \A c \in DOMAIN connections' :
        c \in DOMAIN connections /\ connections'[c].code = connections[c].code
  <2>1. CASE connections' = connections
    BY <2>1
  <2>2. ASSUME NEW d \in DOMAIN connections, endMcpConnection(d)
        PROVE  \A c \in DOMAIN connections' :
                 c \in DOMAIN connections /\ connections'[c].code = connections[c].code
    BY <1>0, <2>2, Rows DEF endMcpConnection, Connection
  <2> QED
    BY <2>1, <2>2 DEF Tick, disconnectMcp, allow
<1> QED
  BY <1>0, <1>1, <1>2, CodeKept

LEMMA CodeSpent ==
  ASSUME CodeInv, NEW q \in Requests, spendCode(q)
  PROVE  CodeRules'
<1>0. TypeInv /\ TypeOK /\ now \in Nat
  BY Types, Numbers DEF CodeInv, TypeInv
<1>1. /\ req[q] \in Redeem /\ req[q].code \in codes /\ req[q].code \in Code
      /\ now < req[q].code.exp /\ req[q].code.exp \in Nat
  BY <1>0, Kinds DEF spendCode, TypeInv, CodesPresented, AtRedeem, TypeOK, Code
<1>2. now' = now /\ codes' = codes /\ connections' = connections
  BY DEF spendCode
<1>3. CodesMade'
  BY <1>2, SameCodes
<1>4. CASE Ends(q) /\ UNCHANGED usedCodes
  BY <1>0, <1>2, <1>3, <1>4, Elsewhere, CodeKept DEF Ends, Idle, AtSpent
<1>5. ASSUME codeWindow(req[q].code) = {},
             usedCodes' = {u \in usedCodes : u.code # req[q].code} \cup
                {[code |-> req[q].code, until |-> now + CODE_SECONDS + LEDGER_MARGIN_S]},
             Goes(q, [req[q] EXCEPT !.at = "version"])
      PROVE  CodeRules'
  <2>1. PICK k : k = req[q].code
    OBVIOUS
  <2>2. PICK new : new = [code |-> k, until |-> now + CODE_SECONDS + LEDGER_MARGIN_S]
    OBVIOUS
  <2>3. usedCodes' = {u \in usedCodes : u.code # k} \cup {new}
    BY <1>5, <2>1, <2>2
  <2>4. ~spentCode(k)
    BY <1>0, <1>1, <1>5, <2>1 DEF spentCode, codeWindow, TypeOK
  <2>5. new.code = k /\ k.exp <= new.until
    BY <1>0, <1>1, <2>1, <2>2, TermAssumption DEF CodeInv, CodeRules, CodesMade
  <2>6. ASSUME NEW code, code = k \/ spentCode(code)
        PROVE  \E u \in usedCodes' : u.code = code /\ code.exp <= u.until
    BY <2>3, <2>5, <2>6 DEF spentCode
  <2>7. /\ req'[q].at = "version" /\ req'[q].code = k
        /\ \A p \in Requests \ {q} : req'[p] = req[p]
    BY <1>0, <1>1, <1>5, <2>1 DEF Goes, TypeInv, RequestsOK, Redeem
  <2>8. \A p \in Requests : req[p].at \in AtSpent => req[p].code # k
    BY <2>4 DEF CodeInv, CodeRules, CodesSpent
  <2>9. CodesSpent'
    <3>1. ASSUME NEW p \in Requests, req'[p].at \in AtSpent
          PROVE  \E u \in usedCodes' : u.code = req'[p].code /\ req'[p].code.exp <= u.until
      BY <2>6, <2>7, <3>1 DEF CodeInv, CodeRules, CodesSpent
    <3>2. ASSUME NEW c \in DOMAIN connections, connections[c].code # None
          PROVE  \E u \in usedCodes' :
                   u.code = connections[c].code /\ connections[c].code.exp <= u.until
      BY <2>6, <3>2 DEF CodeInv, CodeRules, CodesSpent
    <3> QED
      BY <1>2, <3>1, <3>2 DEF CodesSpent, spentCode
  <2>10. OneRequest'
    BY <2>7, <2>8 DEF CodeInv, CodeRules, OneRequest
  <2>11. NotYetConnected'
    <3>1. \A c \in DOMAIN connections : connections[c].code # None => connections[c].code # k
      BY <2>4 DEF CodeInv, CodeRules, CodesSpent
    <3> QED
      BY <1>2, <2>7, <3>1 DEF CodeInv, CodeRules, NotYetConnected
  <2> QED
    BY <1>2, <1>3, <2>9, <2>10, <2>11 DEF CodeInv, CodeRules, CodeConnectsOnce
<1> QED
  BY <1>4, <1>5 DEF spendCode

LEMMA CodeConnected ==
  ASSUME CodeInv, NEW q \in Requests, connect(q)
  PROVE  CodeRules'
<1>0. TypeInv /\ TypeOK
  BY Types DEF CodeInv, TypeInv
<1>1. PICK k : k = req[q].code
  OBVIOUS
<1>2. k \in Code /\ k.ver \in Versions
  BY <1>0, <1>1, Kinds DEF connect, Redeem, Code
<1>3. PICK row \in Connection : row.code = k /\ connections' = Append(connections, row)
  BY <1>0, <1>1, <1>2, OpenedRow DEF connect, openConnection
<1>4. /\ DOMAIN connections' = DOMAIN connections \cup {Len(connections) + 1}
      /\ \A c \in DOMAIN connections : connections'[c] = connections[c]
      /\ connections'[Len(connections) + 1].code = k
  BY <1>0, <1>3, NewRow DEF TypeOK
<1>5. now' = now /\ codes' = codes /\ usedCodes' = usedCodes /\ req[q].at \in AtSpent
  BY DEF connect, spentVars, AtSpent
<1>6. req'[q].at \notin AtSpent /\ \A p \in Requests \ {q} : req'[p] = req[p]
  BY <1>0, Ended DEF connect, Idle, AtSpent
<1>7. CodesSpent'
  <2>1. spentCode(k)
    BY <1>1, <1>5 DEF CodeInv, CodeRules, CodesSpent
  <2> QED
    BY <1>4, <1>5, <1>6, <2>1 DEF CodeInv, CodeRules, CodesSpent, spentCode
<1>8. OneRequest'
  BY <1>6 DEF CodeInv, CodeRules, OneRequest
<1>9. NotYetConnected'
  BY <1>1, <1>4, <1>5, <1>6 DEF CodeInv, CodeRules, NotYetConnected, OneRequest
<1>10. CodeConnectsOnce'
  BY <1>1, <1>4, <1>5 DEF CodeInv, CodeRules, NotYetConnected, CodeConnectsOnce
<1> QED
  BY <1>5, <1>7, <1>8, <1>9, <1>10, SameCodes DEF CodeRules

LEMMA CodeStep == CodeInv /\ [Next]_vars => CodeInv'
<1> SUFFICES ASSUME CodeInv, [Next]_vars PROVE CodeRules'
  BY TypeStep DEF CodeInv
<1>0. TypeInv /\ TypeOK
  BY Types DEF CodeInv, TypeInv
<1>1. ASSUME NEW q \in Requests,
             \/ RequestFails(q) \/ codeVersion(q)
             \/ tokenVersion(q) \/ connectionOpen(q) \/ spendStep(q)
             \/ lockPerson(q) \/ endKeys(q)
      PROVE  CodeRules'
  <2>1. UNCHANGED <<now, connections, codes, usedCodes>>
    BY <1>1 DEF RequestFails, codeVersion, tokenVersion, connectionOpen, spendStep, lockPerson,
                endKeys, spentVars
  <2>2. CodesMade'
    BY <2>1, SameCodes
  <2>3. \A p \in Requests :
          req'[p].at \in AtSpent => req[p].at \in AtSpent /\ req'[p].code = req[p].code
    <3>1. CASE Ends(q)
      BY <1>0, <3>1, Elsewhere DEF Ends, Idle, AtSpent
    <3>2. CASE codeVersion(q) /\ Goes(q, [req[q] EXCEPT !.at = "connect"])
      BY <1>0, <3>2, Kinds DEF codeVersion, Goes, TypeInv, RequestsOK, Redeem, AtSpent
    <3>3. ASSUME NEW at \in {"open", "take", "revoke"}, req[q] \in Refresh,
                 Goes(q, [req[q] EXCEPT !.at = at])
          PROVE  \A p \in Requests :
                   req'[p].at \in AtSpent => req[p].at \in AtSpent /\ req'[p].code = req[p].code
      <4>1. PICK r : r = [req[q] EXCEPT !.at = at]
        OBVIOUS
      <4>2. r.at \notin AtSpent
        BY <3>3, <4>1 DEF Refresh, AtSpent
      <4> QED
        BY <1>0, <3>3, <4>1, <4>2, Elsewhere
    <3>4. CASE lockPerson(q)
      <4>1. PICK r : r = [req[q] EXCEPT !.at = "end"]
        OBVIOUS
      <4>2. r.at \notin AtSpent
        BY <1>0, <3>4, <4>1, Kinds DEF lockPerson, Key, AtSpent
      <4> QED
        BY <1>0, <3>4, <4>1, <4>2, Elsewhere DEF lockPerson
    <3>5. CASE endKeys(q)
      <4>1. PICK r : r = [req[q] EXCEPT !.at = "insert", !.closing = openKeys]
        OBVIOUS
      <4>2. r.at \notin AtSpent
        BY <1>0, <3>5, <4>1, Kinds DEF endKeys, Key, AtSpent
      <4> QED
        BY <1>0, <3>5, <4>1, <4>2, Elsewhere DEF endKeys
    <3>6. \/ Ends(q)
          \/ codeVersion(q) /\ Goes(q, [req[q] EXCEPT !.at = "connect"])
          \/ \E at \in {"open", "take", "revoke"} :
               req[q] \in Refresh /\ Goes(q, [req[q] EXCEPT !.at = at])
          \/ lockPerson(q)
          \/ endKeys(q)
      BY <1>0, <1>1, Kinds DEF RequestFails, codeVersion, tokenVersion, connectionOpen, spendStep
    <3> QED
      BY <3>1, <3>2, <3>3, <3>4, <3>5, <3>6
  <2> QED
    BY <2>1, <2>2, <2>3, CodeKept
<1>2. ASSUME NEW q \in Requests, redeem(q) \/ refresh(q) \/ revoke(q) \/ createMcpKey(q)
      PROVE  CodeRules'
  <2>1. UNCHANGED <<now, connections, codes, usedCodes>>
    BY <1>2 DEF redeem, refresh, revoke, createMcpKey, spentVars
  <2>2. CodesMade'
    BY <2>1, SameCodes
  <2>3. \A p \in Requests :
          req'[p].at \in AtSpent => req[p].at \in AtSpent /\ req'[p].code = req[p].code
    <3>1. CASE redeem(q)
      <4>1. PICK code \in codes : Goes(q, [at |-> "spend", code |-> code])
        BY <3>1 DEF redeem
      <4> QED
        BY <1>0, <4>1, Elsewhere DEF AtSpent
    <3>2. CASE refresh(q)
      <4>1. PICK t \in tokens : Goes(q, [at |-> "check", token |-> t])
        BY <3>2 DEF refresh
      <4> QED
        BY <1>0, <4>1, Elsewhere DEF AtSpent
    <3>3. CASE revoke(q)
      BY <1>0, <3>3, Elsewhere DEF revoke, Idle, AtSpent
    <3>4. CASE createMcpKey(q)
      BY <1>0, <3>4, Elsewhere DEF createMcpKey, AtSpent
    <3> QED
      BY <1>2, <3>1, <3>2, <3>3, <3>4
  <2> QED
    BY <2>1, <2>2, <2>3, CodeKept
<1>3. ASSUME NEW q \in Requests, keyCommitted(q)
      PROVE  CodeRules'
  <2>1. CodesMade' /\ usedCodes' = usedCodes
    BY <1>3, SameCodes DEF keyCommitted, spentVars
  <2>2. \A p \in Requests :
          req'[p].at \in AtSpent => req[p].at \in AtSpent /\ req'[p].code = req[p].code
    BY <1>0, <1>3, Elsewhere DEF keyCommitted, Ends, Idle, AtSpent
  <2> QED
    BY <1>0, <1>3, <2>1, <2>2, KeyRow, CodeKept
<1>4. CASE UNCHANGED vars
  <2>1. UNCHANGED <<now, connections, codes, usedCodes, req>>
    BY <1>4 DEF vars, spentVars
  <2> QED
    BY <2>1, SameCodes, CodeKept
<1> QED
  BY <1>1, <1>2, <1>3, <1>4, CodeOutside, CodeSpent, CodeConnected DEF Next

\* A code connects one assistant, whoever presents it, however often, at once or later,
\* and wherever a request breaks off.
THEOREM CodeOnce == Spec => []CodeConnectsOnce
<1>1. CodeInv => CodeConnectsOnce
  BY DEF CodeInv, CodeRules
<1> QED
  BY <1>1, CodeInit, CodeStep, PTL DEF Spec
=============================================================================
