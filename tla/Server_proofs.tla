------------------------------ MODULE Server_proofs ------------------------------
(***************************************************************************)
(* Proofs about what the server answers and how it runs, for every value   *)
(* of the constants: HttpServer, how it closes, who writes, how many a     *)
(* limiter lets pass and what the audit log holds; and Search, what a      *)
(* client sees that lists page after page while others write, what is      *)
(* shown of a search and what its total counts.                            *)
(***************************************************************************)
EXTENDS HttpServer, Search, FiniteSetTheorems, SequenceTheorems, WellFoundedInduction, TLAPS

-----------------------------------------------------------------------------
(***************************************************************************)
(* The server                                                              *)
(***************************************************************************)

Windows == [Limiters \X Clients -> [count : Nat, resetAt : -1..(MaxClock + WindowLength)]]
Tokens == [kind : {"token"}, iat : Nat, exp : Nat, scopes : {{"read", "write"}}]
CredentialSet == {NoCredential, Key} \cup Tokens \cup ForeignTokens
Requests == [client : Clients, kind : Kinds, credential : CredentialSet]
Events == [kind : Kinds, at : Nat, result : {"success", "denied", "failure"}]
Services == [kind : Kinds, credential : CredentialSet, at : Nat, status : {200, 400},
             database : BOOLEAN]

(* What the variables hold, as far as the steps read it. *)
Typed ==
  /\ windows \in Windows
  /\ tokens \subseteq Tokens
  /\ audit \in Seq(Events)
  /\ pending \subseteq Requests
  /\ served \in Seq(Services)
  /\ listening \in BOOLEAN /\ databaseOpen \in BOOLEAN /\ handlersOn \in BOOLEAN

(* A token that the server issued is one that it answered to the holder of *)
(* the key.                                                                *)
TokensAreIssued ==
  \A t \in tokens : \E j \in 1..Len(served) : served[j].kind = "token" /\ served[j].at = t.iat

(* A request that is arriving has a connection, one that the close waits   *)
(* for once the server no longer listens; the database is closed in the    *)
(* step after that wait.                                                   *)
ClosingSoFar ==
  /\ handlersOn <=> closing = "no"
  /\ listening => closing = "no" /\ readiness = "ok"
  /\ readiness = "ok" => listening
  /\ \A r \in pending : listening \/ r.client \in connected
  /\ connected # {} => closing = "connections"
  /\ databaseOpen <=> closing # "telemetry"
  /\ ended # "no" => closing # "no"
  /\ ended = "exit" => closing = "telemetry"

IInv == TypeOK /\ Typed /\ TokensAreIssued /\ ClosingSoFar /\ ClosesInOrder /\ WritersHoldTheKey

-----------------------------------------------------------------------------
(* Entries that are made *)

(* A record goes to the end of the sequence, and the others stay.          *)
LEMMA AppendKeeps ==
  ASSUME NEW S, NEW s \in Seq(S), NEW x \in S
  PROVE  /\ Append(s, x) \in Seq(S)
         /\ Len(Append(s, x)) = Len(s) + 1
         /\ \A i \in 1..Len(s) : Append(s, x)[i] = s[i]
         /\ Append(s, x)[Len(s) + 1] = x
BY SMT

(* The log takes an event and keeps to its length. *)
LEMMA LogKeepsLength ==
  ASSUME audit \in Seq(Events), Len(audit) <= MaxEvents, NEW e \in Events
  PROVE  Log(e) \in Seq(Events) /\ Len(Log(e)) <= MaxEvents
<1>1. MaxEvents \in Nat \ {0}
  BY ConfigAssumption DEF ConfigAssumption
<1>2. CASE Len(audit) >= MaxEvents
  <2>1. audit # <<>>
    BY <1>1, <1>2
  <2>2. Tail(audit) \in Seq(Events) /\ Len(Tail(audit)) = Len(audit) - 1
    BY <2>1
  <2>3. Len(Append(Tail(audit), e)) = Len(audit)
    BY <2>2
  <2>4. QED
    BY <1>1, <1>2, <2>2, <2>3 DEF Log
<1>3. CASE ~(Len(audit) >= MaxEvents)
  BY <1>1, <1>3 DEF Log
<1>4. QED
  BY <1>2, <1>3

(* A request that is counted leaves an entry of the store. *)
LEMMA CountKeepsType ==
  ASSUME TypeOK, Typed, NEW r \in Requests, Count(r), UNCHANGED now
  PROVE  windows' \in Windows
<1>1. <<LimiterOf(r.kind), r.client>> \in Limiters \X Clients
  BY DEF LimiterOf, Limiters, Requests
<1>2. MaxClock \in Nat /\ WindowLength \in Nat /\ now \in 0..MaxClock
  BY ConfigAssumption DEF ConfigAssumption, TypeOK
<1>3. \A w \in Limiters \X Clients :
        Counted(windows[w]) \in [count : Nat, resetAt : -1..(MaxClock + WindowLength)]
  <2>1. SUFFICES ASSUME NEW w \in Limiters \X Clients
                 PROVE  Counted(windows[w])
                          \in [count : Nat, resetAt : -1..(MaxClock + WindowLength)]
    OBVIOUS
  <2>2. windows[w] \in [count : Nat, resetAt : -1..(MaxClock + WindowLength)]
    BY DEF Typed, Windows
  <2>3. QED
    BY <1>2, <2>2 DEF Counted
<1>4. QED
  BY <1>1, <1>3 DEF Count, Typed, Windows

-----------------------------------------------------------------------------
(* Who is let through *)

(* Whoever is let through to write holds the key or a token not yet too old. *)
LEMMA WhoWrites ==
  ASSUME TypeOK, Typed, NEW r \in Requests, r.kind \in Unsafe, AuthStatus(r, RequireAuth) = 200
  PROVE  \/ r.credential = Key
         \/ r.credential \in tokens /\ now - r.credential.iat < TokenTtl + Skew
         \/ r.credential \in ForeignTokens /\ "write" \in r.credential.scopes
<1>1. Authenticated(r.kind, r.credential, RequireAuth)
  BY DEF AuthStatus
<1>2. CASE ValidateApiKey(r.credential)
  BY <1>2 DEF ValidateApiKey
<1>3. CASE VerifyToken(r.credential) /\ r.credential \in tokens
  <2>1. r.credential.exp = r.credential.iat + TokenTtl /\ r.credential.iat \in Nat
    BY <1>3 DEF TypeOK, Typed, Tokens
  <2>2. r.credential.exp > now - Skew
    BY <1>3 DEF VerifyToken
  <2>3. TokenTtl \in Nat /\ Skew \in Nat /\ now \in Nat
    BY ConfigAssumption DEF ConfigAssumption, TypeOK
  <2>4. now - r.credential.iat < TokenTtl + Skew
    BY <2>1, <2>2, <2>3
  <2>5. QED
    BY <1>3, <2>4
<1>4. CASE /\ VerifyToken(r.credential) /\ r.credential \in ForeignTokens
           /\ RequiredScopes(r.kind, RequireAuth) \subseteq r.credential.scopes
  BY <1>4 DEF RequiredScopes
<1>5. QED
  BY <1>1, <1>2, <1>3, <1>4 DEF Authenticated, VerifyToken

(* The two invariants about tokens survive one more entry of `served', if  *)
(* that entry is justified, and one more token, if that entry issued it.   *)
LEMMA ServedKeepsTokens ==
  ASSUME Typed, TokensAreIssued, WritersHoldTheKey,
         NEW x \in Services, served' = Append(served, x),
         tokens \subseteq tokens',
         \A t \in tokens' \ tokens : x.kind = "token" /\ x.at = t.iat,
         x.kind \in Unsafe =>
           \/ x.credential = Key
           \/ x.credential \in tokens /\ x.at - x.credential.iat < TokenTtl + Skew
           \/ x.credential \in ForeignTokens /\ "write" \in x.credential.scopes
  PROVE  TokensAreIssued' /\ WritersHoldTheKey'
<1>1. /\ Len(served') = Len(served) + 1 /\ Len(served) \in Nat
      /\ \A i \in 1..Len(served) : served'[i] = served[i]
      /\ served'[Len(served) + 1] = x
      /\ DOMAIN served' = 1..(Len(served) + 1)
      /\ DOMAIN served = 1..Len(served)
  BY AppendKeeps DEF Typed
<1>2. TokensAreIssued'
  <2>1. SUFFICES ASSUME NEW t \in tokens'
                 PROVE  \E j \in 1..Len(served') : served'[j].kind = "token" /\ served'[j].at = t.iat
    BY DEF TokensAreIssued
  <2>2. CASE t \in tokens
    <3>1. PICK j \in 1..Len(served) : served[j].kind = "token" /\ served[j].at = t.iat
      BY <2>2 DEF TokensAreIssued
    <3>2. j \in 1..Len(served') /\ served'[j] = served[j]
      BY <1>1
    <3>3. QED
      BY <3>1, <3>2
  <2>3. CASE t \notin tokens
    <3>1. Len(served) + 1 \in 1..Len(served')
      BY <1>1
    <3>2. served'[Len(served) + 1].kind = "token" /\ served'[Len(served) + 1].at = t.iat
      BY <1>1, <2>3
    <3>3. QED
      BY <3>1, <3>2
  <2>4. QED
    BY <2>2, <2>3
<1>3. WritersHoldTheKey'
  <2>1. SUFFICES ASSUME NEW i \in DOMAIN served', served'[i].kind \in Unsafe
                 PROVE  \/ served'[i].credential = Key
                        \/ /\ served'[i].credential \in tokens'
                           /\ served'[i].at - served'[i].credential.iat < TokenTtl + Skew
                           /\ \E j \in 1..(i - 1) :
                                /\ served'[j].kind = "token"
                                /\ served'[j].at = served'[i].credential.iat
                        \/ /\ served'[i].credential \in ForeignTokens
                           /\ "write" \in served'[i].credential.scopes
    BY DEF WritersHoldTheKey
  <2>2. CASE i \in 1..Len(served)
    <3>1. served'[i] = served[i] /\ i \in DOMAIN served
      BY <1>1, <2>2
    <3>2. \A j \in 1..(i - 1) : j \in 1..Len(served) /\ served'[j] = served[j]
      BY <1>1, <2>2
    <3>3. QED
      BY <2>1, <3>1, <3>2 DEF WritersHoldTheKey
  <2>3. CASE i = Len(served) + 1
    <3>1. served'[i] = x /\ i - 1 = Len(served)
      BY <1>1, <2>3
    <3>2. CASE x.credential \in tokens /\ x.at - x.credential.iat < TokenTtl + Skew
      <4>1. PICK j \in 1..Len(served) :
              served[j].kind = "token" /\ served[j].at = x.credential.iat
        BY <3>2 DEF TokensAreIssued
      <4>2. j \in 1..(i - 1) /\ served'[j] = served[j]
        BY <1>1, <3>1
      <4>3. QED
        BY <3>1, <3>2, <4>1, <4>2
    <3>3. QED
      BY <2>1, <3>1, <3>2
  <2>4. QED
    BY <1>1, <2>2, <2>3
<1>4. QED
  BY <1>2, <1>3

LEMMA TokensStand ==
  ASSUME TokensAreIssued, WritersHoldTheKey, UNCHANGED <<tokens, served>>
  PROVE  TokensAreIssued' /\ WritersHoldTheKey'
BY DEF TokensAreIssued, WritersHoldTheKey

-----------------------------------------------------------------------------
(* Requests *)

(* While a request is pending, the database is open: a handler that runs   *)
(* has one, and changes nothing of the life of the process.                *)
LEMMA HandlerKeepsClosing ==
  ASSUME IInv, TypeOK', pending # {}, pending' \subseteq pending, UNCHANGED state,
         \/ UNCHANGED served
         \/ \E x \in Services : x.database = databaseOpen /\ served' = Append(served, x)
  PROVE  ClosingSoFar' /\ ClosesInOrder'
<1>1. databaseOpen
  BY DEF IInv, ClosingSoFar
<1>2. \A i \in DOMAIN served' : served'[i].database
  <2>1. CASE UNCHANGED served
    BY <2>1 DEF IInv, ClosesInOrder
  <2>2. CASE \E x \in Services : x.database = databaseOpen /\ served' = Append(served, x)
    <3>1. PICK x \in Services : x.database = databaseOpen /\ served' = Append(served, x)
      BY <2>2
    <3>2. /\ \A i \in 1..Len(served) : served'[i] = served[i]
          /\ served'[Len(served) + 1] = x
          /\ DOMAIN served' = 1..(Len(served) + 1)
          /\ DOMAIN served = 1..Len(served) /\ Len(served) \in Nat
      BY <3>1, AppendKeeps DEF IInv, Typed
    <3>3. SUFFICES ASSUME NEW i \in DOMAIN served'
                   PROVE  served'[i].database
      BY SMTT(60)
    <3>4. CASE i = Len(served) + 1
      BY <1>1, <3>1, <3>2, <3>4
    <3>5. CASE i \in 1..Len(served)
      BY <3>2, <3>5 DEF IInv, ClosesInOrder
    <3>6. QED
      BY <3>2, <3>4, <3>5
  <2>3. QED
    BY <2>1, <2>2
<1>3. ClosingSoFar'
  BY DEF IInv, ClosingSoFar, state
<1>4. ClosesInOrder'
  BY <1>2 DEF IInv, ClosesInOrder, ReadyStatus, state
<1>5. QED
  BY <1>3, <1>4

(* What the chain leaves in `served' of a request that came through it.    *)
Entry(r, status) ==
  [kind |-> r.kind, credential |-> r.credential, at |-> now,
   status |-> status, database |-> databaseOpen]

LEMMA EntryIsService ==
  ASSUME TypeOK, Typed, NEW r \in Requests, NEW status \in {200, 400}
  PROVE  Entry(r, status) \in Services
<1>1. now \in Nat
  BY ConfigAssumption DEF ConfigAssumption, TypeOK
<1>2. QED
  BY <1>1 DEF Typed, Entry, Services, Requests

LEMMA HandleApiKeepsIInv ==
  ASSUME IInv, NEW r \in pending, HandleApi(r)
  PROVE  IInv'
<1>1. r \in Requests /\ pending' \subseteq pending /\ UNCHANGED <<now, arrivals, state>>
  BY DEF IInv, Typed, HandleApi, Takes
<1>2. windows' \in Windows
  BY <1>1, CountKeepsType DEF IInv, HandleApi
<1>3. CASE UNCHANGED <<tokens, audit, served>>
  <2>1. Typed' /\ TypeOK'
    BY <1>1, <1>2, <1>3 DEF IInv, Typed, TypeOK, state, Windows
  <2>2. QED
    BY <1>1, <1>3, <2>1, TokensStand, HandlerKeepsClosing DEF IInv
<1>4. CASE /\ AuthStatus(r, RequireAuth) = 200
           /\ \E status \in {200, 400} :
                /\ Serve(r, status)
                /\ audit' = IF AuditAction(r.kind)
                            THEN Log([kind |-> r.kind, at |-> now, result |-> AuditResult(status)])
                            ELSE audit
                /\ UNCHANGED tokens
  <2>1. PICK status \in {200, 400} :
          /\ Serve(r, status)
          /\ audit' = IF AuditAction(r.kind)
                      THEN Log([kind |-> r.kind, at |-> now, result |-> AuditResult(status)])
                      ELSE audit
          /\ UNCHANGED tokens
    BY <1>4
  <2>2. now \in Nat
    BY ConfigAssumption DEF ConfigAssumption, IInv, TypeOK
  <2>3. [kind |-> r.kind, at |-> now, result |-> AuditResult(status)] \in Events
    BY <1>1, <2>2 DEF Requests, Events, AuditResult
  <2>4. audit' \in Seq(Events) /\ Len(audit') <= MaxEvents
    BY <2>1, <2>3, LogKeepsLength DEF IInv, TypeOK, Typed
  <2>5. Entry(r, status) \in Services
    BY <1>1, EntryIsService DEF IInv
  <2>6. CASE UNCHANGED served
    <3>1. Typed' /\ TypeOK'
      BY <1>1, <1>2, <2>1, <2>4, <2>6 DEF IInv, Typed, TypeOK, state, Windows
    <3>2. QED
      BY <1>1, <2>1, <2>6, <3>1, TokensStand, HandlerKeepsClosing DEF IInv
  <2>7. CASE served' = Append(served, Entry(r, status))
    <3>1. served' \in Seq(Services)
      BY <2>5, <2>7, AppendKeeps DEF IInv, Typed
    <3>2. Typed' /\ TypeOK'
      BY <1>1, <1>2, <2>1, <2>4, <3>1 DEF IInv, Typed, TypeOK, state, Windows
    <3>3. Entry(r, status).database = databaseOpen
      BY DEF Entry
    <3>4. ClosingSoFar' /\ ClosesInOrder'
      BY <1>1, <2>5, <2>7, <3>2, <3>3, HandlerKeepsClosing
    <3>5. r.kind \in Unsafe =>
            \/ r.credential = Key
            \/ r.credential \in tokens /\ now - r.credential.iat < TokenTtl + Skew
            \/ r.credential \in ForeignTokens /\ "write" \in r.credential.scopes
      BY <1>1, <1>4, WhoWrites DEF IInv
    <3>6. /\ Entry(r, status).kind = r.kind /\ Entry(r, status).credential = r.credential
          /\ Entry(r, status).at = now
      BY DEF Entry
    <3>7. TokensAreIssued' /\ WritersHoldTheKey'
      BY <2>1, <2>5, <2>7, <3>5, <3>6, ServedKeepsTokens DEF IInv
    <3>8. QED
      BY <3>2, <3>4, <3>7 DEF IInv
  <2>8. QED
    BY <2>1, <2>6, <2>7 DEF Serve, Entry
<1>5. QED
  BY <1>3, <1>4 DEF HandleApi, NotServed

LEMMA HandleTokenKeepsIInv ==
  ASSUME IInv, NEW r \in pending, HandleToken(r)
  PROVE  IInv'
<1>1. r \in Requests /\ pending' \subseteq pending /\ UNCHANGED <<now, audit, arrivals, state>>
  BY DEF IInv, Typed, HandleToken, Takes
<1>2. windows' \in Windows
  BY <1>1, CountKeepsType DEF IInv, HandleToken
<1>3. CASE UNCHANGED <<tokens, served>>
  <2>1. Typed' /\ TypeOK'
    BY <1>1, <1>2, <1>3 DEF IInv, Typed, TypeOK, state, Windows
  <2>2. QED
    BY <1>1, <1>3, <2>1, TokensStand, HandlerKeepsClosing DEF IInv
<1>4. CASE tokens' = tokens \cup {IssuedToken} /\ Serve(r, 200)
  <2>1. now \in Nat /\ TokenTtl \in Nat
    BY ConfigAssumption DEF ConfigAssumption, IInv, TypeOK
  <2>2. /\ IssuedToken \in Tokens /\ IssuedToken.iat = now
        /\ IssuedToken.exp = IssuedToken.iat + TokenTtl
    BY <2>1 DEF IssuedToken, Token, Credential, Tokens
  <2>3. Entry(r, 200) \in Services
    BY <1>1, EntryIsService DEF IInv
  <2>4. served' = Append(served, Entry(r, 200)) /\ r.kind = "token"
    BY <1>4 DEF Serve, Entry, HandleToken
  <2>5. served' \in Seq(Services)
    BY <2>3, <2>4, AppendKeeps DEF IInv, Typed
  <2>6. Typed' /\ TypeOK'
    BY <1>1, <1>2, <1>4, <2>2, <2>5 DEF IInv, Typed, TypeOK, state, Windows
  <2>7. /\ Entry(r, 200).kind = "token" /\ Entry(r, 200).at = now
        /\ Entry(r, 200).database = databaseOpen
    BY <2>4 DEF Entry
  <2>8. ClosingSoFar' /\ ClosesInOrder'
    BY <1>1, <2>3, <2>4, <2>6, <2>7, HandlerKeepsClosing
  <2>9. TokensAreIssued' /\ WritersHoldTheKey'
    <3>1. Entry(r, 200).kind \notin Unsafe
      BY <2>7 DEF Unsafe
    <3>2. \A t \in tokens' \ tokens : Entry(r, 200).kind = "token" /\ Entry(r, 200).at = t.iat
      BY <1>4, <2>2, <2>7
    <3>3. QED
      BY <1>4, <2>3, <2>4, <3>1, <3>2, ServedKeepsTokens DEF IInv
  <2>10. QED
    BY <2>6, <2>8, <2>9 DEF IInv
<1>5. QED
  BY <1>3, <1>4 DEF HandleToken

LEMMA HandleLogsKeepsIInv ==
  ASSUME IInv, NEW r \in pending, HandleLogs(r)
  PROVE  IInv'
<1>1. r \in Requests /\ pending' \subseteq pending /\ UNCHANGED <<now, tokens, audit, arrivals, state>>
  BY DEF IInv, Typed, HandleLogs, Takes
<1>2. windows' \in Windows
  <2>1. CASE UNCHANGED windows
    BY <2>1 DEF IInv, Typed
  <2>2. CASE Count(r)
    BY <1>1, <2>2, CountKeepsType DEF IInv
  <2>3. QED
    BY <2>1, <2>2 DEF HandleLogs
<1>3. UNCHANGED served
  BY DEF HandleLogs, Serve, IInv, ClosingSoFar
<1>4. Typed' /\ TypeOK'
  BY <1>1, <1>2, <1>3 DEF IInv, Typed, TypeOK, state, Windows
<1>5. QED
  BY <1>1, <1>3, <1>4, TokensStand, HandlerKeepsClosing DEF IInv

-----------------------------------------------------------------------------
(* Everything else leaves alone what handlers wrote. *)

LEMMA ArriveKeepsIInv ==
  ASSUME IInv, NEW c \in Clients, NEW k \in Kinds, NEW x \in Credentials, Arrive(c, k, x)
  PROVE  IInv'
<1>1. x \in CredentialSet
  BY DEF IInv, Typed, Credentials, CredentialSet
<1>2. UNCHANGED <<now, windows, tokens, audit, state, admitted, served>>
  BY DEF Arrive
<1>3. pending' \subseteq Requests
  BY <1>1 DEF IInv, Typed, Arrive, Requests
<1>4. Typed' /\ TypeOK'
  BY <1>2, <1>3 DEF IInv, Typed, TypeOK, state
<1>5. ClosingSoFar' /\ ClosesInOrder'
  <2>1. \A r \in pending' : r \in pending \/ r.client = c
    BY DEF Arrive
  <2>2. listening \/ c \in connected
    BY DEF Arrive
  <2>3. QED
    BY <1>2, <1>4, <2>1, <2>2 DEF IInv, ClosingSoFar, ClosesInOrder, ReadyStatus, state
<1>6. QED
  BY <1>2, <1>4, <1>5, TokensStand DEF IInv

(* A request that is given up, the timer, and the clock. *)
LEMMA AsideKeepsIInv ==
  ASSUME IInv, CleanUp \/ Tick \/ \E r \in pending : Abandon(r)
  PROVE  IInv'
<1>1. UNCHANGED <<tokens, audit, state, served>> /\ pending' \subseteq pending
  BY DEF CleanUp, Tick, Abandon
<1>2. windows' \in Windows
  <2>1. CASE CleanUp
    BY <2>1, ConfigAssumption DEF ConfigAssumption, IInv, Typed, Windows, CleanUp, NoEntry
  <2>2. CASE UNCHANGED windows
    BY <2>2 DEF IInv, Typed
  <2>3. QED
    BY <2>1, <2>2 DEF Tick, Abandon
<1>3. now' \in 0..MaxClock
  BY ConfigAssumption DEF ConfigAssumption, IInv, TypeOK, CleanUp, Tick, Abandon
<1>4. Typed' /\ TypeOK'
  BY <1>1, <1>2, <1>3 DEF IInv, Typed, TypeOK, state, Windows
<1>5. ClosingSoFar' /\ ClosesInOrder'
  BY <1>1, <1>4 DEF IInv, ClosingSoFar, ClosesInOrder, ReadyStatus, state
<1>6. QED
  BY <1>1, <1>4, <1>5, TokensStand DEF IInv

HangsUp == \E c \in Clients : HangUp(c)

Life == \/ Listen \/ BeginClose \/ DieOfSecond \/ HangsUp
        \/ ConnectionsClosed \/ CloseDatabase \/ Exit

LEMMA LifeKeepsIInv ==
  ASSUME IInv, Life
  PROVE  IInv'
<1>1. UNCHANGED Work
  BY DEF Life, Listen, BeginClose, DieOfSecond, HangsUp, HangUp, ConnectionsClosed,
         CloseDatabase, Exit
<1>2. Typed'
  BY <1>1 DEF IInv, Typed, Work, Life, Listen, BeginClose, DieOfSecond, HangsUp, HangUp,
              Connected, ConnectionsClosed, CloseDatabase, Exit
<1>3. TypeOK'
  <2>1. Connected \subseteq Clients
    BY DEF IInv, Typed, TypeOK, Connected, Requests
  <2>2. connected' \subseteq Clients
    BY <2>1 DEF IInv, TypeOK, Life, Listen, BeginClose, DieOfSecond, HangsUp, HangUp,
                ConnectionsClosed, CloseDatabase, Exit
  <2>3. QED
    BY <1>1, <2>2 DEF IInv, TypeOK, Work, Life, Listen, BeginClose, DieOfSecond, HangsUp, HangUp,
                      ConnectionsClosed, CloseDatabase, Exit
<1>4. ClosingSoFar' /\ ClosesInOrder'
  <2>1. \A i \in DOMAIN served' : served'[i].database
    BY <1>1 DEF IInv, ClosesInOrder, Work
  <2>2. CASE Listen
    BY <1>1, <1>3, <2>1, <2>2 DEF IInv, ClosingSoFar, ClosesInOrder, ReadyStatus, Work, Listen
  <2>3. CASE BeginClose
    BY <1>1, <1>3, <2>1, <2>3 DEF IInv, ClosingSoFar, ClosesInOrder, ReadyStatus, Work, BeginClose,
                                            Connected
  <2>4. CASE DieOfSecond
    BY <1>1, <1>3, <2>1, <2>4 DEF IInv, ClosingSoFar, ClosesInOrder, ReadyStatus, Work, DieOfSecond
  <2>5. CASE ConnectionsClosed
    BY <1>1, <1>3, <2>1, <2>5
    DEF IInv, ClosingSoFar, ClosesInOrder, ReadyStatus, Work, ConnectionsClosed
  <2>6. CASE HangsUp
    BY <1>1, <1>3, <2>1, <2>6
    DEF IInv, ClosingSoFar, ClosesInOrder, ReadyStatus, Work, HangsUp, HangUp
  <2>7. CASE CloseDatabase
    BY <1>1, <1>3, <2>1, <2>7
    DEF IInv, ClosingSoFar, ClosesInOrder, ReadyStatus, Work, CloseDatabase
  <2>8. CASE Exit
    BY <1>1, <1>3, <2>1, <2>8 DEF IInv, ClosingSoFar, ClosesInOrder, ReadyStatus, Work, Exit
  <2>9. QED
    BY <2>2, <2>3, <2>4, <2>5, <2>6, <2>7, <2>8 DEF Life
<1>5. QED
  BY <1>1, <1>2, <1>3, <1>4, TokensStand DEF IInv, Work

-----------------------------------------------------------------------------
LEMMA InitIInv == Init => IInv
<1>1. SUFFICES ASSUME Init PROVE IInv
  OBVIOUS
<1>2. windows \in Windows
  BY <1>1, ConfigAssumption DEF ConfigAssumption, Init, Windows, NoEntry
<1>3. Typed /\ TypeOK
  <2>1. <<>> \in Seq(Events) /\ <<>> \in Seq(Services) /\ Len(<<>>) = 0
    OBVIOUS
  <2>2. Typed
    BY <1>1, <1>2, <2>1 DEF Init, Typed
  <2>3. \A w \in DOMAIN windows :
          windows[w].count \in Nat /\ windows[w].resetAt \in -1..(MaxClock + WindowLength)
    BY <1>2 DEF Windows
  <2>4. 0 \in 0..MaxClock /\ 0 <= MaxEvents
    BY ConfigAssumption DEF ConfigAssumption
  <2>5. TypeOK
    BY <1>1, <2>1, <2>3, <2>4 DEF Init, TypeOK
  <2>6. QED
    BY <2>2, <2>5
<1>4. ClosingSoFar /\ ClosesInOrder
  BY <1>1, <1>3 DEF Init, ClosingSoFar, ClosesInOrder, ReadyStatus
<1>5. TokensAreIssued /\ WritersHoldTheKey
  BY <1>1 DEF Init, TokensAreIssued, WritersHoldTheKey
<1>6. QED
  BY <1>3, <1>4, <1>5 DEF IInv

LEMMA NextIInv == IInv /\ [Next]_vars => IInv'
<1>1. SUFFICES ASSUME IInv, [Next]_vars PROVE IInv'
  OBVIOUS
<1>2. CASE \E c \in Clients, k \in Kinds, x \in Credentials : Arrive(c, k, x)
  BY <1>1, <1>2, ArriveKeepsIInv
<1>3. CASE (\E r \in pending : Abandon(r)) \/ CleanUp \/ Tick
  BY <1>1, <1>3, AsideKeepsIInv
<1>4. CASE Handle
  BY <1>1, <1>4, HandleApiKeepsIInv, HandleTokenKeepsIInv, HandleLogsKeepsIInv DEF Handle
<1>5. CASE Life
  BY <1>1, <1>5, LifeKeepsIInv
<1>6. CASE UNCHANGED vars
  <2>1. Typed' /\ TypeOK'
    BY <1>1, <1>6 DEF IInv, Typed, TypeOK, vars, state
  <2>2. ClosingSoFar' /\ ClosesInOrder'
    BY <1>1, <1>6, <2>1 DEF IInv, ClosingSoFar, ClosesInOrder, ReadyStatus, vars, state
  <2>3. QED
    BY <1>1, <1>6, <2>1, <2>2, TokensStand DEF IInv, vars
<1>7. QED
  BY <1>1, <1>2, <1>3, <1>4, <1>5, <1>6 DEF Next, Life, HangsUp

(* The server closes in order (closeServerResources): while it says that it *)
(* is ready it accepts requests and has its database, no handler runs       *)
(* without one, and the end that it chooses itself cuts off no request and  *)
(* leaves no database open.                                                 *)
THEOREM ServerClosesInOrder == Spec => []ClosesInOrder
<1>1. IInv => ClosesInOrder
  BY DEF IInv
<1>2. QED
  BY <1>1, InitIInv, NextIInv, PTL DEF Spec

(* Only a holder of the key, of a token that such a one was issued lately   *)
(* enough, or of a foreign token that may write, has anything written       *)
(* (createAuthMiddleware).                                                  *)
THEOREM OnlyHoldersWrite == Spec => []WritersHoldTheKey
<1>1. IInv => WritersHoldTheKey
  BY DEF IInv
<1>2. QED
  BY <1>1, InitIInv, NextIInv, PTL DEF Spec

-----------------------------------------------------------------------------
(* The limiters *)

(* A set of numbers that is not empty has a smallest one. *)
LEMMA SmallestOf ==
  ASSUME NEW T \in SUBSET Nat, T # {}
  PROVE  \E x \in T : \A y \in T : x <= y
<1> DEFINE R == OpToRel(<, Nat)
<1>1. IsWellFoundedOn(R, Nat)
  BY NatLessThanWellFounded
<1>2. \A x, y \in Nat : <<x, y>> \in R <=> x < y
  BY DEF OpToRel
<1> HIDE DEF R
<1>3. PICK x \in T : \A y \in T : ~ (<<y, x>> \in R)
  BY <1>1, WFMin
<1>4. ASSUME NEW y \in T PROVE x <= y
  <2>1. x \in Nat /\ y \in Nat /\ <<y, x>> \notin R
    BY <1>3
  <2>2. ~(y < x)
    BY <1>2, <2>1
  <2>3. QED
    BY <2>1, <2>2
<1>5. QED
  BY <1>4

(* Numbers less than k apart are at most k. *)
LEMMA AtMostWithin ==
  ASSUME NEW T \in SUBSET Nat, NEW k \in Nat, \A i, j \in T : j < i + k
  PROVE  Cardinality(T) <= k
<1>1. CASE T = {}
  BY <1>1, FS_EmptySet
<1>2. CASE T # {}
  <2>1. PICK x \in T : \A y \in T : x <= y
    BY <1>2, SmallestOf
  <2>2. x \in Nat /\ T \subseteq x..(x + k - 1)
    BY <2>1
  <2>3. k > 0
    BY <2>1
  <2>4. IsFiniteSet(x..(x + k - 1)) /\ Cardinality(x..(x + k - 1)) = k
    <3>1. x + k - 1 \in Int /\ ~(x > x + k - 1) /\ (x + k - 1) - x + 1 = k
      BY <2>2, <2>3
    <3>2. QED
      BY <2>2, <3>1, FS_Interval
  <2>5. QED
    BY ZenonT(60), <2>2, <2>4, FS_Subset
<1>3. QED
  BY <1>1, <1>2

(* The requests that a limiter let pass, by the beginnings of their windows: *)
(* one window follows another by more than its length, lets pass what is     *)
(* allowed, and counts what it let pass; only the last can still be open.    *)
Accounted(passed, start, entry, allowed, t) ==
  LET n == Len(passed)
  IN /\ \A i \in 1..n : /\ start[i] <= passed[i] /\ passed[i] <= start[i] + WindowLength
                         /\ passed[i] <= t
     /\ \A i, j \in 1..n : i <= j =>
          passed[i] <= passed[j] /\ (start[i] = start[j] \/ start[i] + WindowLength < start[j])
     /\ \A i \in 1..n : i + allowed <= n => start[i + allowed] # start[i]
     /\ \A i \in 1..n : \/ start[i] + WindowLength < t
                        \/ start[i] + WindowLength = entry.resetAt /\ n - i < entry.count
     /\ entry.resetAt >= t =>
          /\ WindowLength <= entry.resetAt /\ entry.resetAt <= t + WindowLength
          /\ \A i \in 1..n : \/ start[i] + WindowLength = entry.resetAt
                             \/ start[i] + WindowLength < entry.resetAt - WindowLength

IsAccounted(w) ==
  \E start \in [1..Len(admitted[w]) -> Nat] :
    Accounted(admitted[w], start, windows[w], Allowed(w[1]), now)

WindowsAreAccounted ==
  /\ admitted \in [Limiters \X Clients -> Seq(Nat)]
  /\ \A w \in Limiters \X Clients : IsAccounted(w)

LInv == IInv /\ WindowsAreAccounted

LEMMA AllowedIsPositive ==
  ASSUME NEW limiter
  PROVE  Allowed(limiter) \in Nat \ {0}
BY ConfigAssumption DEF ConfigAssumption, Allowed, MaxOf

(* The requests of three windows span more than the length of one. *)
LEMMA ThirdWindow ==
  ASSUME NEW passed \in Seq(Nat), NEW m \in Nat \ {0}, NEW start \in [1..Len(passed) -> Nat],
         NEW entry, NEW t, Accounted(passed, start, entry, m, t),
         NEW i \in 1..Len(passed), i + 2 * m <= Len(passed)
  PROVE  passed[i] + WindowLength < passed[i + 2 * m]
<1>1. WindowLength \in Nat
  BY ConfigAssumption DEF ConfigAssumption
<1>2. i + m \in 1..Len(passed) /\ i + 2 * m \in 1..Len(passed) /\ (i + m) + m = i + 2 * m
  OBVIOUS
<1>3. start[i + m] # start[i] /\ start[(i + m) + m] # start[i + m]
  BY <1>2 DEF Accounted
<1>4. start[i] + WindowLength < start[i + m] /\ start[i + m] + WindowLength < start[i + 2 * m]
  BY <1>2, <1>3 DEF Accounted
<1>5. passed[i] <= start[i] + WindowLength /\ start[i + 2 * m] <= passed[i + 2 * m]
  BY <1>2 DEF Accounted
<1>6. start[i] \in Nat /\ start[i + m] \in Nat /\ start[i + 2 * m] \in Nat
  BY <1>2
<1>7. passed[i] \in Nat /\ passed[i + 2 * m] \in Nat
  <2>1. \A k \in 1..Len(passed) : passed[k] \in Nat
    OBVIOUS
  <2>2. QED
    BY <1>2, <2>1
<1> DEFINE k == i + 2 * m
           j == i + m
<1>8. /\ start[i] \in Nat /\ start[j] \in Nat /\ start[k] \in Nat
      /\ passed[i] \in Nat /\ passed[k] \in Nat
      /\ start[i] + WindowLength < start[j] /\ start[j] + WindowLength < start[k]
      /\ passed[i] <= start[i] + WindowLength /\ start[k] <= passed[k]
  BY <1>4, <1>5, <1>6, <1>7
<1>9. \A r, x, z \in Nat : r + WindowLength < x /\ x + WindowLength < z
                             => r + WindowLength + WindowLength < z
  BY <1>1
<1>10. start[i] + WindowLength + WindowLength < start[k]
  <2> HIDE DEF j, k
  <2>1. QED
    BY <1>8, <1>9
<1>11. passed[i] + WindowLength < passed[k]
  <2>1. \A p, y, r, z \in Nat : p <= r + WindowLength /\ r + WindowLength + WindowLength < z /\ z <= y
                                => p + WindowLength < y
    BY <1>1
  <2> HIDE DEF j, k
  <2>2. QED
    BY <1>1, <1>8, <1>10, <2>1
<1>12. QED
  BY <1>11

LEMMA AccountsBound == LInv => TwiceAtMost
<1>1. SUFFICES ASSUME LInv, NEW w \in Limiters \X Clients, NEW t \in 0..MaxClock
               PROVE  Passed(w, t, t + WindowLength) <= 2 * Allowed(w[1])
  BY DEF TwiceAtMost
<1> DEFINE a == admitted[w]
           m == Allowed(w[1])
           S == {i \in DOMAIN admitted[w] : t <= admitted[w][i] /\ admitted[w][i] < t + WindowLength}
<1>2. a \in Seq(Nat) /\ DOMAIN a = 1..Len(a) /\ Len(a) \in Nat
  BY <1>1 DEF LInv, WindowsAreAccounted
<1>3. m \in Nat \ {0} /\ t \in Nat /\ WindowLength \in Nat
  BY AllowedIsPositive, ConfigAssumption DEF ConfigAssumption
<1>4. PICK start \in [1..Len(a) -> Nat] : Accounted(a, start, windows[w], m, now)
  BY <1>1 DEF LInv, WindowsAreAccounted, IsAccounted
<1>5. S \in SUBSET Nat /\ \A i \in S : i \in 1..Len(a) /\ t <= a[i] /\ a[i] < t + WindowLength
  BY <1>2
<1> HIDE DEF a, m, S
<1>6. ASSUME NEW i \in S, NEW j \in S PROVE j < i + 2 * m
  <2>1. i \in 1..Len(a) /\ j \in 1..Len(a)
    BY <1>5
  <2>2. SUFFICES ASSUME i + 2 * m <= j PROVE FALSE
    BY <1>2, <1>3, <2>1
  <2>3. i + 2 * m <= Len(a) /\ i + 2 * m \in 1..Len(a)
    BY <1>2, <1>3, <2>1, <2>2
  <2>4. a[i] + WindowLength < a[i + 2 * m]
    BY <1>2, <1>3, <1>4, <2>1, <2>3, ThirdWindow
  <2>5. a[i + 2 * m] <= a[j]
    BY <1>4, <2>1, <2>2, <2>3 DEF Accounted
  <2>6. a[i] \in Nat /\ a[j] \in Nat /\ a[i + 2 * m] \in Nat
    BY <1>2, <2>1, <2>3
  <2>7. t <= a[i] /\ a[j] < t + WindowLength
    BY <1>5
  <2>8. QED
    BY SMTT(60), <1>3, <2>4, <2>5, <2>6, <2>7
<1>7. Cardinality(S) <= 2 * m
  <2>1. 2 * m \in Nat
    BY <1>3
  <2>2. QED
    BY <1>5, <1>6, <2>1, AtMostWithin
<1>8. QED
  BY <1>7 DEF S, m, Passed

(* One more request passes at t, in a window that began at s and whose     *)
(* entry is now e.                                                         *)
LEMMA OneMorePasses ==
  ASSUME NEW passed \in Seq(Nat), NEW m \in Nat \ {0}, NEW start \in [1..Len(passed) -> Nat],
         NEW entry, NEW t \in Nat, Accounted(passed, start, entry, m, t),
         NEW s \in Nat, NEW e \in [count : Nat \ {0}, resetAt : Nat],
         s <= t, t <= s + WindowLength, e.resetAt = s + WindowLength,
         \A i \in 1..Len(passed) : start[i] = s \/ start[i] + WindowLength < s,
         \A i \in 1..Len(passed) : i + m = Len(passed) + 1 => start[i] # s,
         \A i \in 1..Len(passed) :
           start[i] = s => Len(passed) + 1 - i < e.count
  PROVE  \E s2 \in [1..Len(Append(passed, t)) -> Nat] :
           Accounted(Append(passed, t), s2, e, m, t)
<1> DEFINE n == Len(passed)
           a == Append(passed, t)
           s2 == [i \in 1..(n + 1) |-> IF i = n + 1 THEN s ELSE start[i]]
<1>1. /\ n \in Nat /\ Len(a) = n + 1 /\ a[n + 1] = t
      /\ \A i \in 1..n : a[i] = passed[i] /\ passed[i] \in Nat /\ i # n + 1
      /\ \A i \in 1..(n + 1) : i \in 1..n \/ i = n + 1
  BY SMTT(60), AppendKeeps
<1>2. s2 \in [1..(n + 1) -> Nat] /\ s2[n + 1] = s /\ \A i \in 1..n : s2[i] = start[i] /\ start[i] \in Nat
  <2>1. \A i \in 1..n : start[i] \in Nat
    OBVIOUS
  <2>2. n + 1 \in 1..(n + 1) /\ \A i \in 1..n : i \in 1..(n + 1)
    BY <1>1
  <2> HIDE DEF n
  <2>3. QED
    BY <1>1, <2>1, <2>2
<1>3. WindowLength \in Nat
  BY ConfigAssumption DEF ConfigAssumption
<1>4. /\ \A i \in 1..n : start[i] = s \/ start[i] + WindowLength < s
      /\ \A i \in 1..n : i + m = n + 1 => start[i] # s
      /\ \A i \in 1..n : start[i] = s => n + 1 - i < e.count
  OBVIOUS
<1>5. /\ \A i \in 1..n : start[i] <= passed[i] /\ passed[i] <= start[i] + WindowLength /\ passed[i] <= t
      /\ \A i, j \in 1..n : i <= j =>
           passed[i] <= passed[j] /\ (start[i] = start[j] \/ start[i] + WindowLength < start[j])
      /\ \A i \in 1..n : i + m <= n => start[i + m] # start[i]
  BY DEF Accounted
<1> HIDE DEF n, a, s2
<1>6. \A i \in 1..(n + 1) : s2[i] <= a[i] /\ a[i] <= s2[i] + WindowLength /\ a[i] <= t
  <2>1. SUFFICES ASSUME NEW i \in 1..(n + 1)
                 PROVE  s2[i] <= a[i] /\ a[i] <= s2[i] + WindowLength /\ a[i] <= t
    OBVIOUS
  <2>2. CASE i \in 1..n
    BY <1>1, <1>2, <1>5, <2>2
  <2>3. CASE i = n + 1
    BY <1>1, <1>2, <2>3
  <2>4. QED
    BY <1>1, <2>2, <2>3
<1>7. ASSUME NEW i \in 1..(n + 1), NEW j \in 1..(n + 1), i <= j
      PROVE  a[i] <= a[j] /\ (s2[i] = s2[j] \/ s2[i] + WindowLength < s2[j])
  <2>1. CASE i \in 1..n /\ j \in 1..n
    BY <1>1, <1>2, <1>5, <1>7, <2>1
  <2>2. CASE i \in 1..n /\ j = n + 1
    BY <1>1, <1>2, <1>4, <1>5, <2>2
  <2>3. CASE i = n + 1 /\ j = n + 1
    BY <1>1, <2>3
  <2>4. QED
    BY <1>1, <1>7, <2>1, <2>2, <2>3
<1>8. ASSUME NEW i \in 1..(n + 1), i + m <= n + 1
      PROVE  s2[i + m] # s2[i]
  <2>1. i \in 1..n
    BY <1>1, <1>8
  <2>2. CASE i + m = n + 1
    BY <1>2, <1>4, <2>1, <2>2
  <2>3. CASE i + m <= n
    <3>1. i + m \in 1..n
      BY <1>1, <2>1, <2>3
    <3>2. start[i + m] # start[i]
      BY <1>5, <2>1, <2>3
    <3>3. QED
      BY <1>2, <2>1, <3>1, <3>2
  <2>4. QED
    BY <1>1, <1>8, <2>1, <2>2, <2>3
<1>9. \A i \in 1..(n + 1) :
        \/ s2[i] + WindowLength < t
        \/ s2[i] + WindowLength = e.resetAt /\ n + 1 - i < e.count
  <2>1. SUFFICES ASSUME NEW i \in 1..(n + 1)
                 PROVE  \/ s2[i] + WindowLength < t
                        \/ s2[i] + WindowLength = e.resetAt /\ n + 1 - i < e.count
    OBVIOUS
  <2>2. e.count \in Nat \ {0}
    OBVIOUS
  <2>3. CASE i = n + 1
    BY <1>1, <1>2, <2>2, <2>3
  <2>4. CASE i \in 1..n /\ start[i] = s
    BY <1>2, <1>4, <2>4
  <2>5. CASE i \in 1..n /\ start[i] + WindowLength < s
    BY <1>2, <1>3, <2>5
  <2>6. QED
    BY <1>1, <1>4, <2>3, <2>4, <2>5
<1>10. /\ WindowLength <= e.resetAt /\ e.resetAt <= t + WindowLength
       /\ \A i \in 1..(n + 1) :
            \/ s2[i] + WindowLength = e.resetAt
            \/ s2[i] + WindowLength < e.resetAt - WindowLength
  <2>1. e.resetAt - WindowLength = s /\ e.resetAt = s + WindowLength
    BY <1>3
  <2>2. WindowLength <= e.resetAt /\ e.resetAt <= t + WindowLength
    BY <1>3, <2>1
  <2>3. \A i \in 1..n : s2[i] = s \/ s2[i] + WindowLength < s
    BY <1>2, <1>4
  <2>4. \A i \in 1..(n + 1) : s2[i] = s \/ s2[i] + WindowLength < s
    BY <1>1, <1>2, <2>3
  <2>5. QED
    BY <2>1, <2>2, <2>4
<1>11. Accounted(a, s2, e, m, t)
  BY <1>1, <1>6, <1>7, <1>8, <1>9, <1>10 DEF Accounted
<1>12. QED
  <2>1. s2 \in [1..Len(a) -> Nat]
    BY <1>1, <1>2
  <2>2. QED
    BY <1>11, <2>1 DEF a
(* What counting a request does to the accounts of its window. *)
LEMMA CountedIsAccounted ==
  ASSUME Typed, now \in Nat, NEW w \in Limiters \X Clients, IsAccounted(w),
         admitted[w] \in Seq(Nat),
         windows'[w] = Counted(windows[w]), UNCHANGED now,
         admitted'[w] = IF Passes(w[1], windows[w]) THEN Append(admitted[w], now) ELSE admitted[w]
  PROVE  IsAccounted(w)'
<1> DEFINE e == windows[w]
           a == admitted[w]
           n == Len(a)
           m == Allowed(w[1])
<1>1. PICK start \in [1..n -> Nat] : Accounted(a, start, e, m, now)
  BY DEF IsAccounted
<1>2. e.count \in Nat /\ e.resetAt \in Int /\ WindowLength \in Nat /\ m \in Nat \ {0} /\ n \in Nat
  BY ConfigAssumption, AllowedIsPositive DEF ConfigAssumption, Typed, Windows
<1>3. MaxOf(w[1]) \in Nat /\ (m = MaxOf(w[1]) \/ MaxOf(w[1]) = 0)
  BY ConfigAssumption DEF ConfigAssumption, MaxOf, Allowed
<1>4. \A i \in 1..n : start[i] \in Nat
  OBVIOUS
<1>5. /\ \A i \in 1..n : \/ start[i] + WindowLength < now
                         \/ start[i] + WindowLength = e.resetAt /\ n - i < e.count
      /\ e.resetAt >= now =>
           /\ WindowLength <= e.resetAt /\ e.resetAt <= now + WindowLength
           /\ \A i \in 1..n : \/ start[i] + WindowLength = e.resetAt
                              \/ start[i] + WindowLength < e.resetAt - WindowLength
  BY <1>1 DEF Accounted
<1>6. SUFFICES \E s2 \in [1..Len(admitted'[w]) -> Nat] :
                  Accounted(admitted'[w], s2, Counted(e), m, now)
  BY DEF IsAccounted
<1>7. CASE Expired(e)
  <2>1. Counted(e) = [count |-> 1, resetAt |-> now + WindowLength] /\ admitted'[w] = Append(a, now)
    BY <1>7 DEF Counted, Passes
  <2>2. e.resetAt < now
    BY <1>7 DEF Expired, NoEntry
  <2>3. \A i \in 1..n : start[i] + WindowLength < now
    BY <1>2, <1>4, <1>5, <2>2
  <2>4. Counted(e) \in [count : Nat \ {0}, resetAt : Nat] /\ Counted(e).resetAt = now + WindowLength
    BY <1>2, <2>1
  <2>5. \A i \in 1..n : start[i] # now
    BY <1>2, <1>4, <2>3
  <2>6. now <= now /\ now <= now + WindowLength
    BY <1>2
  <2>7. a \in Seq(Nat)
    OBVIOUS
  <2>8. /\ \A i \in 1..n : start[i] = now \/ start[i] + WindowLength < now
        /\ \A i \in 1..n : i + m = n + 1 => start[i] # now
        /\ \A i \in 1..n : start[i] = now => n + 1 - i < Counted(e).count
    BY <2>3, <2>5
  <2>9. \E s2 \in [1..Len(Append(a, now)) -> Nat] :
          Accounted(Append(a, now), s2, Counted(e), m, now)
    <3> DEFINE e2 == Counted(e)
    <3> HIDE DEF e, a, m, e2
    <3>1. QED
      BY <1>1, <1>2, <2>4, <2>6, <2>7, <2>8, OneMorePasses DEF e2
  <2>10. QED
    BY <2>1, <2>9
<1>8. CASE ~Expired(e) /\ e.count + 1 <= MaxOf(w[1])
  <2> DEFINE s == e.resetAt - WindowLength
  <2>1. Counted(e) = [e EXCEPT !.count = e.count + 1] /\ admitted'[w] = Append(a, now)
    BY <1>8 DEF Counted, Passes
  <2>2. e.resetAt >= now
    BY <1>2, <1>8 DEF Expired
  <2>3. s \in Nat /\ s <= now /\ now <= s + WindowLength /\ e.resetAt = s + WindowLength
    <3>1. WindowLength <= e.resetAt /\ e.resetAt <= now + WindowLength
      BY <1>5, <2>2
    <3>2. \A x \in Int : WindowLength <= x /\ x <= now + WindowLength /\ x >= now =>
            /\ x - WindowLength \in Nat /\ x - WindowLength <= now
            /\ now <= (x - WindowLength) + WindowLength /\ x = (x - WindowLength) + WindowLength
      BY <1>2
    <3> HIDE DEF e
    <3>3. QED
      BY <1>2, <2>2, <3>1, <3>2
  <2>4. Counted(e).resetAt = e.resetAt /\ Counted(e).count = e.count + 1
    BY <2>1 DEF Typed, Windows
  <2>5. Counted(e) \in [count : Nat \ {0}, resetAt : Nat]
    <3>1. e \in [count : Nat, resetAt : -1..(MaxClock + WindowLength)]
      BY DEF Typed, Windows
    <3>2. e.resetAt \in Nat
      BY <1>2, <2>3
    <3>3. QED
      BY SMTT(60), <1>2, <2>1, <3>1, <3>2
  <2>6. \A i \in 1..n : start[i] = s \/ start[i] + WindowLength < s
    BY SMTT(60), <1>2, <1>4, <1>5, <2>2
  <2>7. \A i \in 1..n : start[i] = s => n - i < e.count
    BY SMTT(60), <1>2, <1>4, <1>5, <2>2
  <2>8. m = MaxOf(w[1])
    BY <1>2, <1>3, <1>8
  <2> HIDE DEF e, a, m, s, n
  <2>9. \A i \in 1..n : i + m = n + 1 => start[i] # s
    BY SMTT(60), <1>2, <1>8, <2>7, <2>8
  <2>10. \A i \in 1..n : start[i] = s => n + 1 - i < Counted(e).count
    BY <1>2, <2>4, <2>7
  <2>11. a \in Seq(Nat)
    BY DEF a
  <2>12. \E s2 \in [1..Len(Append(a, now)) -> Nat] :
           Accounted(Append(a, now), s2, Counted(e), m, now)
    <3> DEFINE e2 == Counted(e)
    <3>1. e2 \in [count : Nat \ {0}, resetAt : Nat] /\ e2.resetAt = s + WindowLength
      BY <2>3, <2>4, <2>5
    <3>2. /\ \A i \in 1..Len(a) : start[i] = s \/ start[i] + WindowLength < s
          /\ \A i \in 1..Len(a) : i + m = Len(a) + 1 => start[i] # s
          /\ \A i \in 1..Len(a) : start[i] = s => Len(a) + 1 - i < e2.count
      BY <2>6, <2>9, <2>10 DEF n
    <3>3. start \in [1..Len(a) -> Nat] /\ s \in Nat /\ s <= now /\ now <= s + WindowLength
      BY <1>1, <2>3 DEF n
    <3> HIDE DEF e2
    <3>4. QED
      BY <1>1, <1>2, <2>11, <3>1, <3>2, <3>3, OneMorePasses DEF e2
  <2>13. QED
    BY <2>1, <2>12 DEF a
<1>9. CASE ~Expired(e) /\ ~(e.count + 1 <= MaxOf(w[1]))
  <2>1. /\ Counted(e).resetAt = e.resetAt /\ Counted(e).count = e.count + 1
        /\ admitted'[w] = a
    BY <1>9 DEF Counted, Passes, Typed, Windows
  <2>2. \A i \in 1..n : \/ start[i] + WindowLength < now
                        \/ start[i] + WindowLength = e.resetAt /\ n - i < e.count + 1
    BY SMTT(60), <1>2, <1>5
  <2>3. Accounted(a, start, Counted(e), m, now)
    BY <1>1, <2>1, <2>2 DEF Accounted
  <2>4. QED
    BY <2>1, <2>3
<1>10. QED
  BY <1>7, <1>8, <1>9

LEMMA CountKeepsAccounts ==
  ASSUME IInv, WindowsAreAccounted, NEW r \in Requests, Count(r), UNCHANGED now
  PROVE  WindowsAreAccounted'
<1> DEFINE w0 == <<LimiterOf(r.kind), r.client>>
<1>1. w0 \in Limiters \X Clients /\ now \in Nat
  BY ConfigAssumption DEF ConfigAssumption, IInv, TypeOK, LimiterOf, Limiters, Requests
<1>2. CASE UNCHANGED <<windows, admitted>>
  BY <1>2 DEF WindowsAreAccounted, IsAccounted
<1>3. CASE /\ windows' = [windows EXCEPT ![w0] = Counted(@)]
           /\ admitted' = IF Passes(w0[1], windows[w0])
                          THEN [admitted EXCEPT ![w0] = Append(@, now)] ELSE admitted
  <2>1. windows \in Windows /\ admitted \in [Limiters \X Clients -> Seq(Nat)]
    BY DEF IInv, Typed, WindowsAreAccounted
  <2>2. windows'[w0] = Counted(windows[w0])
    BY <1>1, <1>3, <2>1 DEF Windows
  <2>3. admitted'[w0] = IF Passes(w0[1], windows[w0]) THEN Append(admitted[w0], now) ELSE admitted[w0]
    BY <1>1, <1>3, <2>1
  <2>4. admitted' \in [Limiters \X Clients -> Seq(Nat)]
    <3>1. Append(admitted[w0], now) \in Seq(Nat)
      BY <1>1, <2>1
    <3> HIDE DEF w0
    <3>2. QED
      BY <1>1, <1>3, <2>1, <3>1
  <2>5. \A w \in Limiters \X Clients : w # w0 => windows'[w] = windows[w] /\ admitted'[w] = admitted[w]
    <3> HIDE DEF w0
    <3>1. QED
      BY <1>1, <1>3, <2>1 DEF Windows
  <2>6. ASSUME NEW w \in Limiters \X Clients PROVE IsAccounted(w)'
    <3>1. IsAccounted(w) /\ admitted[w] \in Seq(Nat)
      BY <2>1 DEF WindowsAreAccounted
    <3>2. CASE w # w0
      BY <2>5, <3>1, <3>2 DEF IsAccounted
    <3>3. CASE w = w0
      <4> HIDE DEF w0
      <4>1. QED
        BY <1>1, <2>2, <2>3, <3>1, <3>3, CountedIsAccounted DEF IInv
    <3>4. QED
      BY <3>2, <3>3
  <2>7. QED
    BY <2>4, <2>6 DEF WindowsAreAccounted
<1>4. QED
  BY <1>2, <1>3 DEF Count

(* A window that is past is past for good, and then may be cleared away. *)
LEMMA LaterIsAccounted ==
  ASSUME Typed, now \in Nat, now' \in Nat, now <= now',
         NEW w \in Limiters \X Clients, IsAccounted(w), UNCHANGED admitted, admitted[w] \in Seq(Nat),
         windows'[w] = windows[w] \/ (windows[w].resetAt < now /\ windows'[w] = NoEntry)
  PROVE  IsAccounted(w)'
<1> DEFINE e == windows[w]
           a == admitted[w]
           n == Len(a)
           m == Allowed(w[1])
<1>1. PICK start \in [1..n -> Nat] : Accounted(a, start, e, m, now)
  BY DEF IsAccounted
<1>2. e.count \in Nat /\ e.resetAt \in Int /\ WindowLength \in Nat /\ n \in Nat
  <2>1. MaxClock \in Nat /\ WindowLength \in Nat
    BY ConfigAssumption
  <2>2. e \in [count : Nat, resetAt : -1..(MaxClock + WindowLength)]
    BY DEF Typed, Windows
  <2>3. e.count \in Nat /\ e.resetAt \in Int
    BY <2>1, <2>2
  <2>4. n \in Nat
    OBVIOUS
  <2>5. QED
    BY <2>1, <2>3, <2>4
<1>3. \A i \in 1..n : start[i] \in Nat /\ a[i] \in Nat
  OBVIOUS
<1>4. \A i \in 1..n : a[i] <= now'
  <2>1. \A i \in 1..n : a[i] <= now
    BY <1>1 DEF Accounted
  <2> HIDE DEF a, n
  <2>2. QED
    BY <1>3, <2>1
<1>5. /\ \A i \in 1..n : \/ start[i] + WindowLength < now
                         \/ start[i] + WindowLength = e.resetAt /\ n - i < e.count
      /\ e.resetAt >= now =>
           /\ WindowLength <= e.resetAt /\ e.resetAt <= now + WindowLength
           /\ \A i \in 1..n : \/ start[i] + WindowLength = e.resetAt
                              \/ start[i] + WindowLength < e.resetAt - WindowLength
  BY <1>1 DEF Accounted
<1>6. SUFFICES Accounted(a, start, windows'[w], m, now')
  BY DEF IsAccounted
<1>7. CASE windows'[w] = e
  <2>1. \A i \in 1..n : \/ start[i] + WindowLength < now'
                        \/ start[i] + WindowLength = e.resetAt /\ n - i < e.count
    BY SMTT(60), <1>2, <1>3, <1>5
  <2>2. e.resetAt >= now' => e.resetAt >= now /\ e.resetAt <= now' + WindowLength
    BY <1>2, <1>5
  <2>3. QED
    BY <1>1, <1>4, <1>5, <1>7, <2>1, <2>2 DEF Accounted
<1>8. CASE e.resetAt < now /\ windows'[w] = NoEntry
  <2>1. \A i \in 1..n : start[i] + WindowLength < now'
    BY SMTT(60), <1>2, <1>3, <1>5, <1>8
  <2>2. ~(windows'[w].resetAt >= now')
    BY <1>8 DEF NoEntry
  <2>3. QED
    BY <1>1, <1>4, <2>1, <2>2 DEF Accounted
<1>9. QED
  BY <1>7, <1>8

LEMMA AsideKeepsAccounts ==
  ASSUME IInv, WindowsAreAccounted, CleanUp \/ Tick
  PROVE  WindowsAreAccounted'
<1>1. now \in Nat /\ now' \in Nat /\ now <= now' /\ UNCHANGED admitted
  BY ConfigAssumption DEF ConfigAssumption, IInv, TypeOK, CleanUp, Tick
<1>2. ASSUME NEW w \in Limiters \X Clients
      PROVE  windows'[w] = windows[w] \/ (windows[w].resetAt < now /\ windows'[w] = NoEntry)
  <2>1. CASE CleanUp
    BY <2>1 DEF IInv, Typed, Windows, CleanUp
  <2>2. CASE Tick
    BY <2>2 DEF Tick
  <2>3. QED
    BY <2>1, <2>2
<1>3. ASSUME NEW w \in Limiters \X Clients PROVE IsAccounted(w)'
  BY <1>1, <1>2, LaterIsAccounted DEF IInv, WindowsAreAccounted
<1>4. QED
  BY <1>1, <1>3 DEF WindowsAreAccounted

LEMMA InitLInv == Init => LInv
<1>1. SUFFICES ASSUME Init PROVE WindowsAreAccounted
  BY InitIInv DEF LInv
<1>2. ASSUME NEW w \in Limiters \X Clients PROVE IsAccounted(w)
  <2>1. admitted[w] = <<>> /\ windows[w] = NoEntry /\ now = 0 /\ Len(<<>>) = 0
    BY <1>1 DEF Init
  <2>2. PICK start \in [1..0 -> Nat] : TRUE
    <3>1. [i \in 1..0 |-> 0] \in [1..0 -> Nat]
      OBVIOUS
    <3>2. QED
      BY <3>1
  <2>3. ~(windows[w].resetAt >= now)
    BY <2>1 DEF NoEntry
  <2>4. \A i \in 1..0 : FALSE
    OBVIOUS
  <2>5. Accounted(<<>>, start, windows[w], Allowed(w[1]), now)
    BY <2>1, <2>3, <2>4 DEF Accounted
  <2>6. QED
    BY <2>1, <2>2, <2>5 DEF IsAccounted
<1>3. admitted \in [Limiters \X Clients -> Seq(Nat)]
  BY <1>1 DEF Init
<1>4. QED
  BY <1>2, <1>3 DEF WindowsAreAccounted

LEMMA NextLInv == LInv /\ [Next]_vars => LInv'
<1>1. SUFFICES ASSUME LInv, [Next]_vars PROVE WindowsAreAccounted'
  BY NextIInv DEF LInv
<1>2. CASE UNCHANGED <<now, windows, admitted>>
  BY <1>1, <1>2 DEF LInv, WindowsAreAccounted, IsAccounted
<1>3. CASE (\E c \in Clients, k \in Kinds, x \in Credentials : Arrive(c, k, x))
           \/ (\E r \in pending : Abandon(r)) \/ Life \/ UNCHANGED vars
  BY <1>2, <1>3 DEF Arrive, Abandon, Life, Listen, BeginClose, DieOfSecond, HangsUp, HangUp,
                    ConnectionsClosed, CloseDatabase, Exit, Work, vars
<1>4. CASE CleanUp \/ Tick
  BY <1>1, <1>4, AsideKeepsAccounts DEF LInv
<1>5. CASE Handle
  <2>1. PICK r \in pending : HandleApi(r) \/ HandleToken(r) \/ HandleLogs(r)
    BY <1>5 DEF Handle
  <2>2. r \in Requests
    BY <1>1 DEF LInv, IInv, Typed
  <2>3. UNCHANGED now /\ (Count(r) \/ UNCHANGED <<windows, admitted>>)
    BY <2>1 DEF HandleApi, HandleToken, HandleLogs
  <2>4. QED
    BY <1>1, <1>2, <2>2, <2>3, CountKeepsAccounts DEF LInv
<1>6. QED
  BY <1>1, <1>3, <1>4, <1>5 DEF Next, Life, HangsUp

(* A fixed window lets pass, in any stretch of its own length, at most what *)
(* two windows allow (createMemoryStore), whatever the maximum and the      *)
(* length, and in spite of its timer and of the requests that it blocks.    *)
THEOREM AtMostTwice == Spec => []TwiceAtMost
<1>1. QED
  BY AccountsBound, InitLInv, NextLInv, PTL DEF Spec


-----------------------------------------------------------------------------
(* The audit log *)

(* The changes of prompts that were answered, and those after one of them. *)
IsChange(service) == service.kind = "write prompts"
Changes == {i \in DOMAIN served : IsChange(served[i])}
Later(i) == {j \in Changes : j > i}
Since(i) == Cardinality(Later(i))

LogIsFull == Len(audit) = IF Cardinality(Changes) < MaxEvents THEN Cardinality(Changes) ELSE MaxEvents

Recorded(event, service) ==
  event.at = service.at /\ (event.result = "success") = (service.status = 200)

LogHoldsNewest ==
  \A i \in Changes : Since(i) < Len(audit) => Recorded(audit[Len(audit) - Since(i)], served[i])

LEMMA NewestIsLog == AuditIsNewest <=> LogIsFull /\ LogHoldsNewest
BY DEF AuditIsNewest, LogIsFull, LogHoldsNewest, Changes, Later, Since, Recorded, IsChange

(* There are finitely many changes. *)
LEMMA CountsOfChanges ==
  ASSUME served \in Seq(Services)
  PROVE  /\ Changes \subseteq 1..Len(served) /\ IsFiniteSet(Changes) /\ Cardinality(Changes) \in Nat
         /\ \A i : IsFiniteSet(Later(i)) /\ Since(i) \in Nat
<1>1. Changes \in SUBSET (1..Len(served)) /\ IsFiniteSet(1..Len(served))
  <2>1. Len(served) \in Nat /\ DOMAIN served = 1..Len(served)
    OBVIOUS
  <2>2. QED
    BY <2>1, FS_Interval DEF Changes
<1>2. IsFiniteSet(Changes)
  BY <1>1, FS_Subset
<1>3. ASSUME NEW i PROVE IsFiniteSet(Later(i))
  <2>1. Later(i) \in SUBSET Changes
    BY DEF Later
  <2>2. QED
    BY <1>2, <2>1, FS_Subset
<1>4. QED
  BY <1>1, <1>2, <1>3, FS_CardinalityType DEF Since

LEMMA LogStands ==
  ASSUME AuditIsNewest, UNCHANGED <<audit, served>>
  PROVE  AuditIsNewest'
<1>1. audit' = audit /\ served' = served
  OBVIOUS
<1>2. Changes' = Changes /\ \A i : Since(i)' = Since(i)
  BY <1>1 DEF Changes, Since, Later
<1>3. LogIsFull' /\ LogHoldsNewest'
  BY <1>1, <1>2, NewestIsLog DEF LogIsFull, LogHoldsNewest
<1>4. AuditIsNewest' <=> LogIsFull' /\ LogHoldsNewest'
  BY DEF AuditIsNewest, LogIsFull, LogHoldsNewest, Changes, Later, Since, Recorded, IsChange
<1>5. QED
  BY <1>3, <1>4

(* One more service that is no change leaves the changes as they are. *)
LEMMA OtherServices ==
  ASSUME served \in Seq(Services), AuditIsNewest, UNCHANGED audit,
         NEW x \in Services, ~IsChange(x), served' = Append(served, x)
  PROVE  AuditIsNewest'
<1>1. /\ DOMAIN served' = 1..(Len(served) + 1) /\ DOMAIN served = 1..Len(served) /\ Len(served) \in Nat
      /\ \A i \in 1..Len(served) : served'[i] = served[i]
      /\ served'[Len(served) + 1] = x
  BY AppendKeeps
<1>2. Changes' = Changes
  BY <1>1 DEF Changes
<1>3. \A i : Since(i)' = Since(i)
  BY <1>2 DEF Since, Later
<1>4. \A i \in Changes : served'[i] = served[i]
  BY <1>1 DEF Changes
<1>5. LogIsFull' /\ LogHoldsNewest'
  BY <1>2, <1>3, <1>4, NewestIsLog DEF LogIsFull, LogHoldsNewest
<1>6. QED
  <2>1. AuditIsNewest' <=> LogIsFull' /\ LogHoldsNewest'
    BY DEF AuditIsNewest, LogIsFull, LogHoldsNewest, Changes, Later, Since, Recorded, IsChange
  <2>2. QED
    BY <1>5, <2>1

(* A change is recorded at the end of the log, which gives up its oldest   *)
(* event if it is full.                                                    *)
LEMMA LogTakesChange ==
  ASSUME served \in Seq(Services), audit \in Seq(Events), AuditIsNewest,
         NEW x \in Services, IsChange(x), served' = Append(served, x),
         NEW e \in Events, Recorded(e, x), audit' = Log(e)
  PROVE  AuditIsNewest'
<1> DEFINE n == Len(served)
           len == Len(audit)
<1>1. /\ DOMAIN served' = 1..(n + 1) /\ DOMAIN served = 1..n /\ n \in Nat
      /\ \A i \in 1..n : served'[i] = served[i]
      /\ served'[n + 1] = x
  BY AppendKeeps
<1>2. Changes \subseteq 1..n /\ IsFiniteSet(Changes) /\ Cardinality(Changes) \in Nat
  BY CountsOfChanges
<1>3. \A i : IsFiniteSet(Later(i)) /\ Since(i) \in Nat
  BY CountsOfChanges
<1>4. LogIsFull /\ LogHoldsNewest /\ len \in Nat /\ MaxEvents \in Nat \ {0}
  BY NewestIsLog, ConfigAssumption DEF ConfigAssumption
<1> HIDE DEF n, len
<1>5. Changes' = Changes \cup {n + 1} /\ n + 1 \notin Changes
  BY <1>1, <1>2 DEF Changes
<1>6. Cardinality(Changes') = Cardinality(Changes) + 1
  BY <1>2, <1>5, FS_AddElement
<1>7. ASSUME NEW i \in Changes PROVE Since(i)' = Since(i) + 1
  <2>1. Later(i)' = Later(i) \cup {n + 1} /\ n + 1 \notin Later(i)
    BY <1>1, <1>2, <1>5 DEF Later
  <2>2. QED
    BY <1>3, <2>1, FS_AddElement DEF Since
<1>8. \A i \in Changes' : i = n + 1 => Since(i)' = 0
  <2>1. SUFFICES ASSUME NEW i \in Changes', i = n + 1 PROVE Since(i)' = 0
    OBVIOUS
  <2>2. \A j \in Changes' : ~(j > i)
    BY <1>1, <1>2, <1>5, <2>1
  <2>3. Later(i)' = {}
    BY <2>2 DEF Later
  <2>4. QED
    BY <2>3, FS_EmptySet DEF Since
<1>9. /\ LogIsFull'
      /\ Len(audit') \in Nat \ {0} /\ audit'[Len(audit')] = e
      /\ \A i \in Changes : Since(i) + 1 < Len(audit') =>
           /\ Since(i) < len
           /\ audit'[Len(audit') - (Since(i) + 1)] = audit[len - Since(i)]
  <2>1. CASE len >= MaxEvents
    <3>1. len = MaxEvents /\ Cardinality(Changes) >= MaxEvents
      BY <1>2, <1>4, <2>1 DEF LogIsFull, len
    <3>2. audit' = Append(Tail(audit), e) /\ audit # <<>>
      BY <1>4, <2>1, <3>1 DEF Log, len
    <3>3. /\ Tail(audit) \in Seq(Events) /\ Len(Tail(audit)) = len - 1
          /\ \A k \in 1..(len - 1) : Tail(audit)[k] = audit[k + 1]
      BY <3>2 DEF len
    <3>4. /\ Len(audit') = len /\ audit'[len] = e
          /\ \A k \in 1..(len - 1) : audit'[k] = audit[k + 1]
      BY <1>4, <3>2, <3>3, AppendKeeps
    <3>5. LogIsFull'
      BY <1>2, <1>4, <1>6, <3>1, <3>4 DEF LogIsFull
    <3>6. ASSUME NEW i \in Changes, Since(i) + 1 < len
          PROVE  audit'[len - (Since(i) + 1)] = audit[len - Since(i)]
      <4>1. Since(i) \in Nat
        BY <1>3
      <4>2. /\ len - (Since(i) + 1) \in 1..(len - 1)
            /\ (len - (Since(i) + 1)) + 1 = len - Since(i)
        BY <1>4, <3>6, <4>1
      <4>3. QED
        BY <3>4, <4>2
    <3>7. \A i \in Changes : Since(i) + 1 < len => Since(i) < len
      BY <1>3, <1>4
    <3>8. QED
      BY <1>4, <3>1, <3>4, <3>5, <3>6, <3>7
  <2>2. CASE ~(len >= MaxEvents)
    <3>1. audit' = Append(audit, e)
      BY <2>2 DEF Log, len
    <3>2. /\ Len(audit') = len + 1 /\ audit'[len + 1] = e
          /\ \A k \in 1..len : audit'[k] = audit[k]
      BY <3>1, AppendKeeps DEF len
    <3>3. len = Cardinality(Changes) /\ len < MaxEvents
      BY <1>2, <1>4, <2>2 DEF LogIsFull, len
    <3>4. LogIsFull'
      BY <1>2, <1>4, <1>6, <3>2, <3>3 DEF LogIsFull
    <3>5. ASSUME NEW i \in Changes, Since(i) + 1 < len + 1
          PROVE  /\ Since(i) < len
                 /\ audit'[(len + 1) - (Since(i) + 1)] = audit[len - Since(i)]
      <4>1. Since(i) \in Nat
        BY <1>3
      <4>2. /\ Since(i) < len /\ len - Since(i) \in 1..len
            /\ (len + 1) - (Since(i) + 1) = len - Since(i)
        BY <1>4, <3>5, <4>1
      <4>3. QED
        BY <3>2, <4>2
    <3>6. QED
      BY <1>4, <3>2, <3>4, <3>5
  <2>3. QED
    BY <2>1, <2>2
<1>10. LogHoldsNewest'
  <2>1. SUFFICES ASSUME NEW i \in Changes', Since(i)' < Len(audit')
                 PROVE  Recorded(audit'[Len(audit') - Since(i)'], served'[i])
    BY DEF LogHoldsNewest, Recorded
  <2>2. CASE i = n + 1
    <3>1. Since(i)' = 0
      BY <1>8, <2>1, <2>2
    <3>2. Len(audit') - Since(i)' = Len(audit')
      BY <1>9, <3>1
    <3>3. audit'[Len(audit') - Since(i)'] = e /\ served'[i] = x
      BY <1>1, <1>9, <2>2, <3>2
    <3>4. QED
      BY <3>3
  <2>3. CASE i \in Changes
    <3>1. Since(i)' = Since(i) + 1 /\ served'[i] = served[i]
      BY <1>1, <1>2, <1>7, <2>3
    <3>2. Since(i) < len /\ audit'[Len(audit') - Since(i)'] = audit[len - Since(i)]
      BY <1>9, <2>1, <2>3, <3>1
    <3>3. Recorded(audit[len - Since(i)], served[i])
      BY <1>4, <2>3, <3>2 DEF LogHoldsNewest, len
    <3>4. QED
      BY <3>1, <3>2, <3>3
  <2>4. QED
    BY <1>5, <2>2, <2>3
<1>11. AuditIsNewest' <=> LogIsFull' /\ LogHoldsNewest'
  BY DEF AuditIsNewest, LogIsFull, LogHoldsNewest, Changes, Later, Since, Recorded, IsChange
<1>12. QED
  BY <1>9, <1>10, <1>11

AInv == IInv /\ AuditIsNewest

LEMMA InitAInv == Init => AInv
<1>1. SUFFICES ASSUME Init PROVE AuditIsNewest
  BY InitIInv DEF AInv
<1>2. served = <<>> /\ audit = <<>> /\ DOMAIN served = {} /\ Len(<<>>) = 0
  BY <1>1 DEF Init
<1>3. Changes = {}
  BY <1>2 DEF Changes
<1>4. LogIsFull
  BY <1>2, <1>3, FS_EmptySet, ConfigAssumption DEF LogIsFull, ConfigAssumption
<1>5. QED
  BY <1>3, <1>4, NewestIsLog DEF LogHoldsNewest

LEMMA HandleApiKeepsLog ==
  ASSUME AInv, NEW r \in pending, HandleApi(r)
  PROVE  AuditIsNewest'
<1>1. r \in Requests
  BY DEF AInv, IInv, Typed
<1>2. CASE UNCHANGED <<audit, served>>
  BY <1>2, LogStands DEF AInv
<1>3. CASE \E status \in {200, 400} :
             /\ Serve(r, status)
             /\ audit' = IF AuditAction(r.kind)
                         THEN Log([kind |-> r.kind, at |-> now, result |-> AuditResult(status)])
                         ELSE audit
  <2>1. PICK status \in {200, 400} :
          /\ Serve(r, status)
          /\ audit' = IF AuditAction(r.kind)
                      THEN Log([kind |-> r.kind, at |-> now, result |-> AuditResult(status)])
                      ELSE audit
    BY <1>3
  <2>2. Entry(r, status) \in Services
    BY <1>1, EntryIsService DEF AInv, IInv
  <2>3. /\ Entry(r, status).kind = r.kind /\ Entry(r, status).at = now
        /\ Entry(r, status).status = status /\ (IsChange(Entry(r, status)) <=> IsChange(r))
    BY DEF Entry, IsChange
  <2>4. served \in Seq(Services) /\ audit \in Seq(Events) /\ AuditIsNewest /\ now \in Nat
    BY ConfigAssumption DEF AInv, IInv, Typed, TypeOK, ConfigAssumption
  <2>5. CASE IsChange(r)
    <3> DEFINE e == [kind |-> r.kind, at |-> now, result |-> AuditResult(status)]
    <3>1. e \in Events
      BY <1>1, <2>4 DEF Requests, Events, AuditResult
    <3>2. e.at = now /\ (e.result = "success") = (status = 200)
      BY DEF AuditResult
    <3>3. audit' = Log(e) /\ served' = Append(served, Entry(r, status))
      BY <2>1, <2>5 DEF AuditAction, Serve, Entry, IsChange
    <3>4. Recorded(e, Entry(r, status))
      BY <2>3, <3>2 DEF Recorded
    <3> HIDE DEF e
    <3>5. QED
      BY <2>2, <2>3, <2>4, <2>5, <3>1, <3>3, <3>4, LogTakesChange
  <2>6. CASE ~IsChange(r)
    <3>1. UNCHANGED audit
      BY <2>1, <2>6 DEF AuditAction, IsChange
    <3>2. UNCHANGED served \/ served' = Append(served, Entry(r, status))
      BY <2>1 DEF Serve, Entry
    <3>3. QED
      BY <1>2, <2>2, <2>3, <2>4, <2>6, <3>1, <3>2, OtherServices
  <2>7. QED
    BY <2>5, <2>6
<1>4. QED
  BY <1>2, <1>3 DEF HandleApi, NotServed

LEMMA HandleTokenKeepsLog ==
  ASSUME AInv, NEW r \in pending, HandleToken(r)
  PROVE  AuditIsNewest'
<1>1. r \in Requests /\ UNCHANGED audit /\ r.kind = "token"
  BY DEF AInv, IInv, Typed, HandleToken
<1>2. CASE UNCHANGED served
  BY <1>1, <1>2, LogStands DEF AInv
<1>3. CASE Serve(r, 200)
  <2>1. Entry(r, 200) \in Services
    BY <1>1, EntryIsService DEF AInv, IInv
  <2>2. ~IsChange(Entry(r, 200)) /\ served' = Append(served, Entry(r, 200))
    BY <1>1, <1>3 DEF Serve, Entry, IsChange
  <2>3. QED
    BY <1>1, <2>1, <2>2, OtherServices DEF AInv, IInv, Typed
<1>4. QED
  BY <1>2, <1>3 DEF HandleToken

LEMMA NextAInv == AInv /\ [Next]_vars => AInv'
<1>1. SUFFICES ASSUME AInv, [Next]_vars PROVE AuditIsNewest'
  BY NextIInv DEF AInv
<1>2. CASE UNCHANGED <<audit, served>>
  BY <1>1, <1>2, LogStands DEF AInv
<1>3. CASE (\E c \in Clients, k \in Kinds, x \in Credentials : Arrive(c, k, x))
           \/ (\E r \in pending : Abandon(r)) \/ CleanUp \/ Tick \/ Life \/ UNCHANGED vars
  BY <1>2, <1>3 DEF Arrive, Abandon, CleanUp, Tick, Life, Listen, BeginClose, DieOfSecond,
                    HangsUp, HangUp, ConnectionsClosed, CloseDatabase, Exit, Work, vars
<1>4. CASE Handle
  <2>1. PICK r \in pending : HandleApi(r) \/ HandleToken(r) \/ HandleLogs(r)
    BY <1>4 DEF Handle
  <2>2. CASE HandleLogs(r)
    BY ZenonT(60), <1>1, <1>2, <2>2 DEF HandleLogs, Serve, AInv, IInv, ClosingSoFar
  <2>3. QED
    BY <1>1, <2>1, <2>2, HandleApiKeepsLog, HandleTokenKeepsLog
<1>5. QED
  BY <1>1, <1>3, <1>4 DEF Next, Life, HangsUp

(* The audit log (AuditLogger) holds the newest changes of prompts, as many *)
(* as there were or as it has room for, each once and in the order in which *)
(* they were answered, and none that was turned away.                       *)
THEOREM AuditHoldsNewest == Spec => []AuditIsNewest
<1>1. AInv => AuditIsNewest
  BY DEF AInv
<1>2. QED
  BY <1>1, InitAInv, NextAInv, PTL DEF Spec

-----------------------------------------------------------------------------
(***************************************************************************)
(* Listing and searching                                                   *)
(***************************************************************************)

(* Recursive functions on sequences: they exist, and are their own value.  *)

LEMMA UpTo ==
  ASSUME NEW n \in Nat, NEW S, 0 \in S, \A i \in 1..n : i - 1 \in S => i \in S
  PROVE  \A i \in 0..n : i \in S
<1> DEFINE C == {i \in 0..n : i \notin S}
<1>1. SUFFICES ASSUME C # {}
               PROVE  FALSE
  OBVIOUS
<1>2. C \in SUBSET Nat
  OBVIOUS
<1>3. PICK m \in C : \A k \in C : m <= k
  BY <1>1, <1>2, SmallestOf
<1>4. m \in 1..n /\ m - 1 \in 0..n
  BY <1>3
<1>5. m - 1 \notin C
  BY <1>3, <1>4
<1>6. QED
  BY <1>3, <1>4, <1>5

(* A function that is defined from each number to the next one exists. *)
Walks(g, n, base, step) == g[0] = base /\ \A i \in 1..n : g[i] = step[<<g[i - 1], i>>]

LEMMA StepByStep ==
  ASSUME NEW n \in Nat, NEW V, NEW base \in V, NEW step \in [V \X (1..n) -> V]
  PROVE  \E g \in [0..n -> V] : Walks(g, n, base, step)
<1> DEFINE Are(g, m) == /\ g[0] = base
                        /\ \A i \in 1..m : g[i] = step[<<g[i - 1], i>>]
           S == {m \in 0..n : \E g \in [0..n -> V] : Are(g, m)}
<1>1. 0 \in S
  <2>1. [i \in 0..n |-> base] \in [0..n -> V] /\ Are([i \in 0..n |-> base], 0)
    OBVIOUS
  <2> HIDE DEF Are
  <2>2. QED
    BY <2>1
<1>2. ASSUME NEW m \in 1..n, m - 1 \in S
      PROVE  m \in S
  <2>1. PICK g \in [0..n -> V] : Are(g, m - 1)
    BY <1>2
  <2> DEFINE h == [g EXCEPT ![m] = step[<<g[m - 1], m>>]]
  <2>2. h \in [0..n -> V]
    <3>1. m - 1 \in 0..n /\ <<g[m - 1], m>> \in V \X (1..n)
      OBVIOUS
    <3>2. step[<<g[m - 1], m>>] \in V
      BY <3>1
    <3>3. QED
      BY <3>2
  <2>3. h[0] = base
    BY <2>1
  <2>4. ASSUME NEW i \in 1..m
        PROVE  h[i] = step[<<h[i - 1], i>>]
    <3>1. h[i - 1] = g[i - 1]
      OBVIOUS
    <3>2. CASE i = m
      BY SMTT(60), <3>1, <3>2
    <3>3. CASE i # m
      <4>1. i \in 1..(m - 1) /\ h[i] = g[i]
        BY <3>3
      <4>2. QED
        BY <2>1, <3>1, <4>1
    <3>4. QED
      BY <3>2, <3>3
  <2> HIDE DEF h
  <2>5. Are(h, m) /\ m \in 0..n
    BY <2>3, <2>4
  <2> HIDE DEF Are
  <2>6. QED
    BY <2>2, <2>5
<1>3. n \in S
  <2> HIDE DEF S
  <2>1. \A i \in 1..n : i - 1 \in S => i \in S
    BY <1>2
  <2>2. n \in 0..n
    OBVIOUS
  <2>3. QED
    BY <1>1, <2>1, <2>2, UpTo
<1>4. QED
  BY <1>3 DEF Walks

Matched == [id : Ids, times : Nat]

LEMMA SumIs ==
  ASSUME NEW found \in Seq(Matched)
  PROVE  \E sum \in [0..Len(found) -> Nat] :
           /\ sum[0] = 0
           /\ \A i \in 1..Len(found) : sum[i] = sum[i - 1] + found[i].times
           /\ Sum(found) = sum[Len(found)]
<1> DEFINE n == Len(found)
           Are(f) == f = [i \in 0..n |-> IF i = 0 THEN 0 ELSE f[i - 1] + found[i].times]
           step == [p \in Nat \X (1..n) |-> p[1] + found[p[2]].times]
<1>1. n \in Nat /\ \A i \in 1..n : found[i].times \in Nat
  <2>1. \A i \in 1..n : found[i] \in Matched
    OBVIOUS
  <2>2. QED
    BY <2>1 DEF Matched
<1>2. 0 \in Nat /\ step \in [Nat \X (1..n) -> Nat]
  BY <1>1
<1>3. \E g \in [0..n -> Nat] : Walks(g, n, 0, step)
  <2>1. n \in Nat
    BY <1>1
  <2> HIDE DEF step, n
  <2>2. QED
    BY <1>2, <2>1, StepByStep
<1>4. PICK g \in [0..n -> Nat] : g[0] = 0 /\ \A i \in 1..n : g[i] = step[<<g[i - 1], i>>]
  BY <1>3 DEF Walks
<1>5. \A i \in 1..n : g[i] = g[i - 1] + found[i].times
  <2>1. \A i \in 1..n : <<g[i - 1], i>> \in Nat \X (1..n)
    BY SMTT(60), <1>1
  <2>2. QED
    BY <1>4, <2>1
<1>6. Are(g)
  BY <1>4, <1>5
<1>7. PICK f : Are(f) /\ Sum(found) = f[n]
  <2>1. Sum(found) = (CHOOSE f : Are(f))[n]
    BY DEF Sum
  <2> HIDE DEF Are
  <2>2. QED
    BY <1>6, <2>1
<1>8. f[0] = 0 /\ \A i \in 1..n : f[i] = f[i - 1] + found[i].times
  BY <1>1, <1>7
<1>9. f \in [0..n -> Nat]
  <2> DEFINE T == {i \in 0..n : f[i] \in Nat}
  <2>1. 0 \in T
    BY <1>1, <1>8
  <2>2. ASSUME NEW i \in 1..n, i - 1 \in T
        PROVE  i \in T
    <3>1. i \in 0..n /\ f[i - 1] \in Nat /\ found[i].times \in Nat
      BY <1>1, <2>2
    <3>2. f[i - 1] + found[i].times \in Nat
      BY <3>1
    <3>3. f[i] \in Nat
      BY <1>8, <2>2, <3>2
    <3>4. QED
      BY <3>1, <3>3
  <2> HIDE DEF T
  <2>3. \A i \in 0..n : i \in T
    BY <1>1, <2>1, <2>2, UpTo
  <2>4. \A i \in 0..n : f[i] \in Nat
    BY <2>3 DEF T
  <2>5. f = [i \in 0..n |-> f[i]]
    BY <1>7
  <2>6. QED
    BY <2>4, <2>5
<1>10. QED
  BY <1>7, <1>8, <1>9

LEMMA SumAppend ==
  ASSUME NEW found \in Seq(Matched), NEW row \in Matched
  PROVE  Sum(found) \in Nat /\ Sum(Append(found, row)) = Sum(found) + row.times
<1> DEFINE n == Len(found)
           longer == Append(found, row)
<1>1. n \in Nat /\ longer \in Seq(Matched) /\ Len(longer) = n + 1 /\ longer[n + 1] = row
      /\ \A i \in 1..n : longer[i] = found[i]
  OBVIOUS
<1>2. PICK sum \in [0..n -> Nat] :
        /\ sum[0] = 0
        /\ \A i \in 1..n : sum[i] = sum[i - 1] + found[i].times
        /\ Sum(found) = sum[n]
  BY SumIs
<1> HIDE DEF longer
<1>3. PICK more \in [0..(n + 1) -> Nat] :
        /\ more[0] = 0
        /\ \A i \in 1..(n + 1) : more[i] = more[i - 1] + longer[i].times
        /\ Sum(longer) = more[n + 1]
  BY <1>1, SumIs
<1> HIDE DEF n
<1>4. \A i \in 0..n : more[i] = sum[i]
  <2> DEFINE T == {i \in 0..n : more[i] = sum[i]}
  <2>1. 0 \in T
    BY <1>1, <1>2, <1>3
  <2>2. ASSUME NEW i \in 1..n, i - 1 \in T
        PROVE  i \in T
    <3>1. i \in 1..(n + 1) /\ more[i - 1] = sum[i - 1] /\ longer[i] = found[i]
      BY <1>1, <2>2
    <3>2. more[i] = sum[i]
      BY <1>2, <1>3, <3>1
    <3>3. QED
      BY <3>2
  <2> HIDE DEF T
  <2>3. \A i \in 0..n : i \in T
    BY <1>1, <2>1, <2>2, UpTo
  <2>4. QED
    BY <2>3 DEF T
<1>5. n \in 0..n /\ n + 1 \in 1..(n + 1) /\ (n + 1) - 1 = n
  BY <1>1
<1>6. more[n + 1] = more[n] + row.times
  BY <1>1, <1>3, <1>5
<1>7. QED
  BY <1>2, <1>3, <1>4, <1>5, <1>6 DEF longer

LEMMA FoundIs ==
  ASSUME NEW rows \in Seq(Matched)
  PROVE  \E f \in [0..Len(rows) -> Seq(Matched)] :
           /\ f[0] = <<>>
           /\ \A i \in 1..Len(rows) : f[i] = Take(f[i - 1], rows[i])
           /\ Found(rows) = f[Len(rows)]
<1> DEFINE n == Len(rows)
           V == Seq(Matched)
           Are(f) == f = [i \in 0..n |-> IF i = 0 THEN <<>> ELSE Take(f[i - 1], rows[i])]
           step == [p \in V \X (1..n) |-> Take(p[1], rows[p[2]])]
<1>1. n \in Nat /\ \A i \in 1..n : rows[i] \in Matched
  OBVIOUS
<1>2. \A found \in V, i \in 1..n : Take(found, rows[i]) \in V
  BY <1>1 DEF Take
<1>3. <<>> \in V
  OBVIOUS
<1> HIDE DEF V
<1>4. step \in [V \X (1..n) -> V]
  BY <1>1, <1>2
<1>5. PICK g \in [0..n -> V] : Walks(g, n, <<>>, step)
  <2>1. n \in Nat
    BY <1>1
  <2> HIDE DEF step, n
  <2>2. QED
    BY <1>3, <1>4, <2>1, StepByStep
<1>6. \A i \in 1..n : g[i] = Take(g[i - 1], rows[i])
  <2>1. \A i \in 1..n : <<g[i - 1], i>> \in V \X (1..n)
    BY SMTT(60), <1>1
  <2>2. QED
    BY <1>5, <2>1 DEF Walks
<1>7. Are(g)
  BY <1>5, <1>6 DEF Walks
<1>8. PICK f : Are(f) /\ Found(rows) = f[n]
  <2>1. Found(rows) = (CHOOSE f : Are(f))[n]
    BY DEF Found
  <2> HIDE DEF Are
  <2>2. QED
    BY <1>7, <2>1
<1>9. f[0] = <<>> /\ \A i \in 1..n : f[i] = Take(f[i - 1], rows[i])
  BY <1>1, <1>8
<1>10. f \in [0..n -> V]
  <2> DEFINE T == {i \in 0..n : f[i] \in V}
  <2>1. 0 \in T
    BY <1>1, <1>3, <1>9
  <2>2. \A i \in 1..n : i - 1 \in T => i \in T
    BY <1>1, <1>2, <1>9
  <2> HIDE DEF T
  <2>3. \A i \in 0..n : i \in T
    BY <1>1, <2>1, <2>2, UpTo
  <2>4. \A i \in 0..n : f[i] \in V
    BY <2>3 DEF T
  <2>5. f = [i \in 0..n |-> f[i]]
    BY <1>8
  <2>6. QED
    BY <2>4, <2>5
<1>11. QED
  BY <1>8, <1>9, <1>10 DEF V

(* The elements that are kept are wanted, and were there. *)
LEMMA KeptIs ==
  ASSUME NEW S, NEW ids \in Seq(S), NEW wanted
  PROVE  Kept(ids, wanted) \in Seq(ToSet(ids) \cap wanted)
<1> DEFINE n == Len(ids)
           V == Seq(ToSet(ids) \cap wanted)
           next(kept, i) == IF ids[i] \in wanted THEN Append(kept, ids[i]) ELSE kept
           Are(f) == f = [i \in 0..n |-> IF i = 0 THEN <<>> ELSE next(f[i - 1], i)]
           step == [p \in V \X (1..n) |-> next(p[1], p[2])]
<1>1. n \in Nat /\ \A i \in 1..n : ids[i] \in ToSet(ids)
  BY DEF ToSet
<1>2. \A kept \in V, i \in 1..n : next(kept, i) \in V
  BY <1>1
<1>3. <<>> \in V /\ step \in [V \X (1..n) -> V]
  <2>1. <<>> \in V
    OBVIOUS
  <2> HIDE DEF V, next
  <2>2. QED
    BY <1>1, <1>2, <2>1
<1>4. PICK g \in [0..n -> V] : Walks(g, n, <<>>, step)
  <2>1. n \in Nat
    BY <1>1
  <2> HIDE DEF step, n, V
  <2>2. QED
    BY <1>3, <2>1, StepByStep
<1>5. \A i \in 1..n : g[i] = next(g[i - 1], i)
  <2> HIDE DEF V, next
  <2>1. \A i \in 1..n : <<g[i - 1], i>> \in V \X (1..n)
    BY SMTT(60), <1>1
  <2>2. QED
    BY <1>4, <2>1 DEF Walks
<1>6. Are(g)
  <2> HIDE DEF V, next
  <2>1. QED
    BY <1>4, <1>5 DEF Walks
<1>7. PICK f : Are(f) /\ Kept(ids, wanted) = f[n]
  <2>1. Kept(ids, wanted) = (CHOOSE f : Are(f))[n]
    BY DEF Kept
  <2> HIDE DEF Are
  <2>2. QED
    BY <1>6, <2>1
<1>8. \A i \in 0..n : f[i] \in V
  <2> DEFINE T == {i \in 0..n : f[i] \in V}
  <2> HIDE DEF V, next
  <2>1. 0 \in T
    BY <1>1, <1>3, <1>7
  <2>2. \A i \in 1..n : i - 1 \in T => i \in T
    BY <1>1, <1>2, <1>7
  <2> HIDE DEF T
  <2>3. \A i \in 0..n : i \in T
    BY <1>1, <2>1, <2>2, UpTo
  <2>4. QED
    BY <2>3 DEF T
<1>9. QED
  BY <1>1, <1>7, <1>8

-----------------------------------------------------------------------------
(* What an advanced search takes of a page. *)

Room(found, rows, i) ==
  /\ found \in Seq(Matched) /\ Len(found) <= i /\ Sum(found) <= MaxTotalMatches
  /\ ToSet(found) \subseteq ToSet(rows)
  /\ \A k \in 1..i : \/ rows[k] \in ToSet(found) \/ rows[k].times = 0
                     \/ Sum(found) + rows[k].times > MaxTotalMatches

LEMMA TakeKeepsRoom ==
  ASSUME NEW rows \in Seq(Matched), Len(rows) <= MaxResults, NEW i \in 1..Len(rows),
         NEW found, Room(found, rows, i - 1)
  PROVE  Room(Take(found, rows[i]), rows, i)
<1> DEFINE row == rows[i]
<1>1. row \in Matched /\ row \in ToSet(rows) /\ row.times \in Nat /\ found \in Seq(Matched)
      /\ MaxTotalMatches \in Nat /\ MaxResults \in Nat
  <2>1. row \in Matched /\ row \in ToSet(rows)
    BY DEF ToSet
  <2>2. QED
    BY <2>1, LimitsAssumption DEF Matched, Room
<1>2. Sum(found) \in Nat /\ Sum(Append(found, row)) = Sum(found) + row.times
  BY <1>1, SumAppend
<1>3. Len(found) < MaxResults /\ Len(found) \in Nat
  BY <1>1 DEF Room
<1>4. \A k \in 1..Len(rows) : rows[k].times \in Nat
  <2>1. \A k \in 1..Len(rows) : rows[k] \in Matched
    OBVIOUS
  <2>2. QED
    BY <2>1 DEF Matched
<1>5. CASE row.times = 0 \/ Sum(found) + row.times > MaxTotalMatches
  <2>1. Take(found, row) = found
    BY <1>5 DEF Take
  <2>2. \A k \in 1..i : \/ rows[k] \in ToSet(found) \/ rows[k].times = 0
                        \/ Sum(found) + rows[k].times > MaxTotalMatches
    <3>1. \A k \in 1..i : k = i \/ k \in 1..(i - 1)
      OBVIOUS
    <3>2. QED
      BY <1>5, <3>1 DEF Room
  <2>3. Len(found) <= i
    BY <1>3 DEF Room
  <2>4. QED
    BY <2>1, <2>2, <2>3 DEF Room
<1>6. CASE ~(row.times = 0 \/ Sum(found) + row.times > MaxTotalMatches)
  <2> DEFINE more == Append(found, row)
  <2>1. Take(found, row) = more
    BY SMTT(60), <1>1, <1>2, <1>3, <1>6 DEF Take
  <2>2. more \in Seq(Matched) /\ Len(more) <= i /\ ToSet(more) = ToSet(found) \cup {row}
    <3>1. more \in Seq(Matched) /\ Len(more) = Len(found) + 1
      BY <1>1
    <3>2. \A k \in 1..Len(found) : more[k] = found[k]
      BY <1>1
    <3>3. more[Len(found) + 1] = row
      BY <1>1
    <3>4. DOMAIN more = 1..(Len(found) + 1) /\ DOMAIN found = 1..Len(found)
      BY <1>1, <3>1
    <3>5. Len(found) + 1 <= i
      BY <1>3 DEF Room
    <3> HIDE DEF more
    <3>6. ToSet(more) = ToSet(found) \cup {row}
      <4>1. \A k \in 1..(Len(found) + 1) : k = Len(found) + 1 \/ k \in 1..Len(found)
        BY <1>3
      <4>2. \A k \in 1..Len(found) : k \in 1..(Len(found) + 1)
        BY <1>3
      <4>3. Len(found) + 1 \in 1..(Len(found) + 1)
        BY <1>3
      <4>4. QED
        BY <3>2, <3>3, <3>4, <4>1, <4>2, <4>3 DEF ToSet
    <3>7. QED
      BY <3>1, <3>5, <3>6
  <2>3. Sum(more) = Sum(found) + row.times
    BY <1>2
  <2> HIDE DEF more
  <2>4. \A k \in 1..i : \/ rows[k] \in ToSet(more) \/ rows[k].times = 0
                        \/ Sum(more) + rows[k].times > MaxTotalMatches
    <3>1. TAKE k \in 1..i
    <3>2. CASE k = i
      BY <2>2, <3>2
    <3>3. CASE k # i
      <4>1. k \in 1..(i - 1) /\ rows[k].times \in Nat
        BY <1>4, <3>3
      <4>2. \/ rows[k] \in ToSet(found) \/ rows[k].times = 0
            \/ Sum(found) + rows[k].times > MaxTotalMatches
        BY <4>1 DEF Room
      <4>3. CASE rows[k] \in ToSet(found) \/ rows[k].times = 0
        BY <2>2, <4>3
      <4>4. CASE Sum(found) + rows[k].times > MaxTotalMatches
        BY SMTT(60), <1>1, <1>2, <2>3, <4>1, <4>4
      <4>5. QED
        BY <4>2, <4>3, <4>4
    <3>4. QED
      BY <3>2, <3>3
  <2>5. Sum(more) <= MaxTotalMatches
    BY <1>1, <1>2, <1>6, <2>3
  <2>6. ToSet(more) \subseteq ToSet(rows)
    BY <1>1, <2>2 DEF Room
  <2>7. QED
    BY <2>1, <2>2, <2>4, <2>5, <2>6 DEF Room
<1>7. QED
  BY <1>5, <1>6

LEMMA FoundHasRoom ==
  ASSUME NEW rows \in Seq(Matched), Len(rows) <= MaxResults
  PROVE  Room(Found(rows), rows, Len(rows))
<1> DEFINE n == Len(rows)
<1>1. n \in Nat
  OBVIOUS
<1>2. PICK f \in [0..n -> Seq(Matched)] :
        /\ f[0] = <<>>
        /\ \A i \in 1..n : f[i] = Take(f[i - 1], rows[i])
        /\ Found(rows) = f[n]
  BY FoundIs
<1> DEFINE T == {i \in 0..n : Room(f[i], rows, i)}
<1>3. 0 \in T
  <2>1. <<>> \in Seq(Matched) /\ Len(<<>>) = 0
    OBVIOUS
  <2>2. Sum(<<>>) = 0
    BY <2>1, SumIs
  <2>3. ToSet(<<>>) = {}
    BY DEF ToSet
  <2>4. 0 <= MaxTotalMatches
    BY LimitsAssumption
  <2>5. Room(<<>>, rows, 0)
    BY <2>1, <2>2, <2>3, <2>4 DEF Room
  <2>6. QED
    BY <1>1, <1>2, <2>5
<1>4. ASSUME NEW i \in 1..n, i - 1 \in T
      PROVE  i \in T
  <2>1. Room(f[i - 1], rows, i - 1)
    BY <1>4
  <2>2. Room(Take(f[i - 1], rows[i]), rows, i)
    BY <2>1, TakeKeepsRoom
  <2>3. QED
    BY <1>2, <2>2
<1> HIDE DEF T
<1>5. \A i \in 0..n : i \in T
  BY <1>1, <1>3, <1>4, UpTo
<1>6. QED
  BY <1>1, <1>2, <1>5 DEF T

-----------------------------------------------------------------------------
(* The prompts, the order in which they are listed, and the pages.         *)

Asked == Queries \cup {NoQuery}

LEMMA AskedIs ==
  ASSUME NEW q \in Asked
  PROVE  q.size \in Nat \ {0} /\ q.cut \in Nat
<1>1. NoQuery.size = 1 /\ NoQuery.cut = 1
  BY DEF NoQuery, Query
<1>2. QED
  BY <1>1, LimitsAssumption DEF Asked

(* The rows as the tables allow them, no two of one time. *)
LibraryOK ==
  /\ prompts \in [DOMAIN prompts -> Row] /\ DOMAIN prompts \subseteq Ids /\ writes \in Nat
  /\ \A a \in DOMAIN prompts :
       /\ prompts[a].updated <= Cardinality(Ids) + writes
       /\ \A b \in DOMAIN prompts : prompts[a].updated = prompts[b].updated => a = b

(* The prompts that are listed before one. *)
Above(q, id) == {other \in Hits(q) : prompts[other].updated > prompts[id].updated}

LEMMA HitsAre ==
  ASSUME LibraryOK, NEW q
  PROVE  /\ Hits(q) \subseteq DOMAIN prompts /\ Hits(q) \subseteq Ids
         /\ IsFiniteSet(Hits(q)) /\ Cardinality(Hits(q)) \in Nat
         /\ \A id \in Hits(q) : prompts[id].updated \in Nat
<1>1. Hits(q) \subseteq DOMAIN prompts /\ Hits(q) \subseteq Ids
  BY DEF Hits, LibraryOK
<1>2. IsFiniteSet(Ids)
  BY LibraryAssumption
<1>3. IsFiniteSet(Hits(q)) /\ Cardinality(Hits(q)) \in Nat
  BY <1>1, <1>2, FS_Subset, FS_CardinalityType
<1>4. \A id \in DOMAIN prompts : prompts[id].updated \in Nat
  <2>1. \A id \in DOMAIN prompts : prompts[id] \in Row
    BY DEF LibraryOK
  <2>2. QED
    BY <2>1 DEF Row
<1>5. QED
  BY <1>1, <1>3, <1>4

LEMMA CountTo ==
  ASSUME NEW n \in Nat
  PROVE  IsFiniteSet(1..n) /\ Cardinality(1..n) = n
BY FS_Interval

LEMMA ImageCount ==
  ASSUME NEW n \in Nat, NEW f, f = [k \in 1..n |-> f[k]],
         \A i, k \in 1..n : f[i] = f[k] => i = k
  PROVE  Cardinality({f[k] : k \in 1..n}) = n
<1> DEFINE T == {f[k] : k \in 1..n}
<1>1. f \in Injection(1..n, T) /\ f \in Surjection(1..n, T)
  BY DEF Injection, IsInjective, Surjection
<1> HIDE DEF T
<1>2. IsFiniteSet(1..n) /\ Cardinality(1..n) = n
  BY CountTo
<1>3. Cardinality(T) = Cardinality(1..n)
  BY <1>1, <1>2, FS_Surjection
<1>4. QED
  BY <1>2, <1>3 DEF T

(* Each hit has one place in the listing, after those that come before it. *)
LEMMA OrderIs ==
  ASSUME LibraryOK, NEW q, NEW order \in Orders(q)
  PROVE  /\ order \in [1..Cardinality(Hits(q)) -> Hits(q)]
         /\ Len(order) = Cardinality(Hits(q))
         /\ \A id \in Hits(q) : \E k \in 1..Cardinality(Hits(q)) : order[k] = id
         /\ ~ByRelevance(q) =>
              \A k \in 1..Cardinality(Hits(q)) : Cardinality(Above(q, order[k])) = k - 1
<1> DEFINE n == Cardinality(Hits(q))
           D == 1..n
<1>1. n \in Nat /\ IsFiniteSet(Hits(q)) /\ \A id \in Hits(q) : prompts[id].updated \in Nat
  BY HitsAre
<1>2. order \in [D -> Hits(q)] /\ \A i, j \in D : i # j => order[i] # order[j]
  BY DEF Orders, SetToSeqs
<1>3. Len(order) = n
  BY <1>1, <1>2
<1>4. \A id \in Hits(q) : \E k \in D : order[k] = id
  <2> HIDE DEF n
  <2>1. order \in Injection(D, Hits(q))
    BY <1>2 DEF Injection, IsInjective
  <2>2. Cardinality(D) = n
    BY <1>1, CountTo
  <2>3. Cardinality(D) = Cardinality(Hits(q))
    BY <2>2 DEF n
  <2> HIDE DEF D
  <2>4. order \in Surjection(D, Hits(q))
    BY <1>1, <2>1, <2>3, FS_Injection
  <2>5. QED
    BY <2>4 DEF Surjection
<1>5. ASSUME ~ByRelevance(q), NEW k \in D
      PROVE  Cardinality(Above(q, order[k])) = k - 1
  <2>1. \A i, j \in D : i < j => prompts[order[i]].updated > prompts[order[j]].updated
    <3>1. \A i, j \in DOMAIN order : i < j => ComesBefore(order[i], order[j])
      BY <1>5 DEF Orders
    <3>2. DOMAIN order = D
      BY <1>2
    <3>3. QED
      BY <3>1, <3>2 DEF ComesBefore
  <2> DEFINE f == [i \in 1..(k - 1) |-> order[i]]
  <2>2. k - 1 \in Nat /\ \A i \in 1..(k - 1) : i \in D /\ i < k
    BY <1>1
  <2>3. \A i, j \in 1..(k - 1) : f[i] = f[j] => i = j
    BY <1>2, <2>2
  <2>4. Above(q, order[k]) = {f[i] : i \in 1..(k - 1)}
    <3>1. ASSUME NEW id \in Above(q, order[k])
          PROVE  id \in {f[i] : i \in 1..(k - 1)}
      <4>1. PICK j \in D : order[j] = id
        BY <1>4, <3>1 DEF Above
      <4>2. prompts[order[j]].updated > prompts[order[k]].updated
        BY <3>1, <4>1 DEF Above
      <4>3. prompts[order[j]].updated \in Nat /\ prompts[order[k]].updated \in Nat
        BY <1>1, <1>2
      <4>4. ~(k < j) /\ j # k
        BY <2>1, <4>2, <4>3
      <4>5. j \in 1..(k - 1)
        BY <1>1, <4>4
      <4>6. QED
        BY <4>1, <4>5
    <3>2. ASSUME NEW i \in 1..(k - 1)
          PROVE  f[i] \in Above(q, order[k])
      <4>1. i \in D /\ i < k
        BY <2>2
      <4>2. QED
        BY <1>2, <2>1, <4>1 DEF Above
    <3>3. QED
      BY <3>1, <3>2
  <2>5. f = [i \in 1..(k - 1) |-> f[i]]
    OBVIOUS
  <2> HIDE DEF f
  <2>6. Cardinality({f[i] : i \in 1..(k - 1)}) = k - 1
    BY <2>2, <2>3, <2>5, ImageCount
  <2>7. QED
    BY <2>4, <2>6
<1>6. QED
  BY <1>2, <1>3, <1>4, <1>5

LEMMA SmallerOf ==
  ASSUME NEW a \in Int, NEW b \in Int
  PROVE  Min({a, b}) = IF a <= b THEN a ELSE b
BY DEF Min

LEMMA LargerOf ==
  ASSUME NEW a \in Int, NEW b \in Int
  PROVE  Max({a, b}) = IF a >= b THEN a ELSE b
BY DEF Max

LEMMA MatchesAre ==
  ASSUME NEW id
  PROVE  MatchesIn(id) \in Nat
<1>1. \A field : Occurrences(field) \in Nat
  BY DEF Occurrences
<1>2. Occurrences(prompts[id].title) + Occurrences(Latest(id).body) \in Nat
  BY <1>1
<1>3. QED
  BY <1>2, SmallerOf, LimitsAssumption DEF MatchesIn

(* A page is a stretch of the listing; one that is not full is its end. *)
LEMMA PageIs ==
  ASSUME NEW q \in Asked, NEW n \in Nat, NEW order \in [1..n -> Ids], NEW page \in Nat
  PROVE  LET rows == PageOf(order, q, page)
             offset == page * q.size
         IN /\ rows \in Seq(Matched) /\ Len(rows) \in Nat
            /\ Len(rows) <= q.size /\ (q.kind = "advanced" => Len(rows) <= MaxResults)
            /\ offset \in Nat
            /\ \A i \in 1..Len(rows) : offset + i \in 1..n /\ rows[i].id = order[offset + i]
            /\ q.kind # "advanced" /\ Len(rows) < q.size => n <= offset + Len(rows)
<1> DEFINE rows == PageOf(order, q, page)
           offset == page * q.size
           limit == Limit(q)
           rest == Len(order) - Offset(q, page)
           small == Min({limit, rest})
           m == Max({0, small})
<1>1. q.size \in Nat \ {0} /\ MaxResults \in Nat \ {0}
  BY AskedIs, LimitsAssumption
<1>2. limit \in Nat /\ limit <= q.size /\ (q.kind = "advanced" => limit <= MaxResults)
      /\ (q.kind # "advanced" => limit = q.size)
  BY <1>1, SmallerOf DEF Limit
<1>3. offset \in Nat /\ rest = n - offset
  BY <1>1 DEF Offset
<1> HIDE DEF limit, offset, rest
<1>4. m = IF rest <= 0 THEN 0 ELSE IF limit <= rest THEN limit ELSE rest
  <2>1. small = IF limit <= rest THEN limit ELSE rest
    BY <1>2, <1>3, SmallerOf
  <2>2. small \in Int /\ 0 \in Int
    BY <1>2, <1>3, <2>1
  <2> HIDE DEF small
  <2>3. m = IF 0 >= small THEN 0 ELSE small
    BY <2>2, LargerOf
  <2>4. QED
    BY <1>2, <1>3, <2>1, <2>3
<1> HIDE DEF m
<1>5. m \in Nat /\ m <= limit /\ (m < limit => n <= offset + m)
      /\ \A i \in 1..m : offset + i \in 1..n
  BY <1>2, <1>3, <1>4
<1>6. rows = [i \in 1..m |-> [id |-> order[offset + i], times |-> MatchesIn(order[offset + i])]]
  BY DEF rows, m, small, limit, rest, PageOf, Offset, offset
<1>7. \A i \in 1..m : rows[i] \in Matched /\ rows[i].id = order[offset + i]
  BY <1>5, <1>6, MatchesAre DEF Matched
<1>8. rows \in Seq(Matched) /\ Len(rows) = m
  BY <1>5, <1>6, <1>7
<1>9. /\ m <= q.size
      /\ q.kind = "advanced" => m <= MaxResults
      /\ q.kind # "advanced" /\ m < q.size => n <= offset + m
  BY <1>1, <1>2, <1>5
<1> HIDE DEF rows
<1>10. /\ rows \in Seq(Matched) /\ Len(rows) \in Nat
       /\ Len(rows) <= q.size /\ (q.kind = "advanced" => Len(rows) <= MaxResults)
       /\ offset \in Nat
       /\ \A i \in 1..Len(rows) : offset + i \in 1..n /\ rows[i].id = order[offset + i]
       /\ q.kind # "advanced" /\ Len(rows) < q.size => n <= offset + Len(rows)
  BY <1>3, <1>5, <1>7, <1>8, <1>9
<1>11. QED
  BY <1>10 DEF rows, offset

-----------------------------------------------------------------------------
(* The invariant.                                                          *)

Listings ==
  [phase : {"none", "ask", "count", "rows", "done"}, query : Asked, page : Nat,
   allowed : [is : BOOLEAN, ids : SUBSET Ids], total : Nat, rows : Seq(Matched),
   found : Seq(Matched), answer : Seq(Ids), seen : Seq(Ids)]

(* A prompt that was listed, or that comes after the pages listed so far. *)
Reached(id) ==
  \/ id \in ToSet(listing.seen)
  \/ /\ listing.phase # "done"
     /\ listing.page * listing.query.size <= Cardinality(Above(listing.query, id))

(* When nobody writes, what was seen is the beginning of one listing. *)
SeenInOrder ==
  /\ \A i \in 1..Len(listing.seen) :
       /\ listing.seen[i] \in Hits(listing.query)
       /\ Cardinality(Above(listing.query, listing.seen[i])) = i - 1
  /\ listing.phase # "done" => Len(listing.seen) = listing.page * listing.query.size

PagesSoFar ==
  Unfiltered =>
    /\ listing.phase \in {"count", "rows"} => listing.allowed.is = FALSE
    /\ ~left => \A id \in Hits(listing.query) \ touched : Reached(id)
    /\ touched = {} => SeenInOrder

(* An advanced search has one page, and shows nothing before it. *)
NothingFound == listing.query.kind = "advanced" /\ listing.phase # "done" => listing.found = <<>>

SInv ==
  /\ LibraryOK /\ NothingFound
  /\ listing \in Listings /\ Len(listing.rows) <= listing.query.size
  /\ PagesSoFar
  /\ RoomIsUsed

LEMMA NoListingIs ==
  /\ NoListing \in Listings
  /\ NoListing.page = 0 /\ NoListing.seen = <<>> /\ NoListing.rows = <<>>
  /\ NoListing.found = <<>> /\ NoListing.phase = "none" /\ NoListing.query = NoQuery
BY DEF NoListing, Listings, NoFilter, Asked

LEMMA AnsweredIs ==
  ASSUME NEW l \in Listings, NEW answer \in Seq(Ids), NEW total \in Nat
  PROVE  LET new == Answered(l, answer, total)
             ends == Len(answer) < l.query.size \/ l.query.kind # "list"
         IN /\ new \in Listings
            /\ new.query = l.query /\ new.rows = l.rows /\ new.found = l.found
            /\ new.allowed = l.allowed /\ new.answer = answer /\ new.seen = l.seen \o answer
            /\ ends => new.phase = "done" /\ new.page = l.page
            /\ ~ends => new.phase = "ask" /\ new.page = l.page + 1
<1>1. l.seen \o answer \in Seq(Ids) /\ l.page + 1 \in Nat
  BY DEF Listings
<1>2. QED
  BY <1>1 DEF Answered, Listings

LEMMA ShownIs ==
  ASSUME NEW q \in Asked, NEW S, NEW ids \in Seq(S)
  PROVE  /\ Shown(q, ids) \in Seq(S)
         /\ q.kind = "list" \/ q.kind = "advanced" => Shown(q, ids) = ids
<1>1. Kept(ids, {id \in ToSet(ids) : Occurrences(Latest(id).body) > 0}) \in Seq(S)
  <2> DEFINE wanted == {id \in ToSet(ids) : Occurrences(Latest(id).body) > 0}
             T == ToSet(ids) \cap wanted
  <2>1. T \subseteq S
    BY DEF ToSet
  <2> HIDE DEF wanted
  <2>2. Kept(ids, wanted) \in Seq(T)
    BY KeptIs
  <2> HIDE DEF T
  <2>3. Kept(ids, wanted) \in Seq(S)
    BY <2>1, <2>2, SeqMonotonic
  <2>4. QED
    BY <2>3 DEF wanted
<1>2. SubSeq(ids, 1, Min({q.cut, Len(ids)})) \in Seq(S)
  <2>1. q.cut \in Nat /\ Len(ids) \in Nat
    BY AskedIs
  <2>2. Min({q.cut, Len(ids)}) \in Nat /\ Min({q.cut, Len(ids)}) <= Len(ids)
    BY <2>1, SmallerOf
  <2> DEFINE m == Min({q.cut, Len(ids)})
  <2>3. m \in Nat /\ m <= Len(ids)
    BY <2>2
  <2> HIDE DEF m
  <2>4. \A i \in 1..m : ids[i] \in S
    BY <2>3
  <2>5. SubSeq(ids, 1, m) = [i \in 1..m |-> ids[i]]
    BY <2>3
  <2>6. SubSeq(ids, 1, m) \in Seq(S)
    BY <2>3, <2>4, <2>5
  <2>7. QED
    BY <2>6 DEF m
<1>3. QED
  BY <1>1, <1>2 DEF Shown

(* What others write. *)

Writes(id, rows) ==
  /\ rows \in [DOMAIN rows -> Row] /\ DOMAIN rows \subseteq Ids
  /\ \A i \in Ids : i # id =>
       /\ i \in DOMAIN rows <=> i \in DOMAIN prompts
       /\ i \in DOMAIN prompts => rows[i] = prompts[i]
  /\ id \in DOMAIN rows =>
       \/ rows[id].updated = Cardinality(Ids) + writes + 1
       \/ id \in DOMAIN prompts /\ rows[id].updated = prompts[id].updated

LEMMA WriteKeeps ==
  ASSUME SInv, NEW id, NEW rows, Writes(id, rows), Write(id, rows)
  PROVE  SInv'
<1> DEFINE q == listing.query
<1>1. prompts' = rows /\ writes' = writes + 1 /\ touched' = touched \cup {id}
      /\ UNCHANGED <<indexed, listing>>
      /\ left' = (left \/ (id \in Hits(q) /\ id \notin Hits(q)'))
  BY DEF Write
<1>2. Cardinality(Ids) \in Nat /\ writes \in Nat /\ IsFiniteSet(Ids)
  BY FS_CardinalityType, LibraryAssumption DEF SInv, LibraryOK
<1>3. /\ \A i \in DOMAIN prompts : prompts[i].updated \in Nat /\ i \in Ids
      /\ \A i \in DOMAIN rows : rows[i].updated \in Nat /\ i \in Ids
  <2>1. /\ \A i \in DOMAIN prompts : prompts[i] \in Row /\ i \in Ids
        /\ \A i \in DOMAIN rows : rows[i] \in Row /\ i \in Ids
    BY DEF SInv, LibraryOK, Writes
  <2>2. QED
    BY <2>1 DEF Row
<1>4. \A i \in DOMAIN prompts : prompts[i].updated <= Cardinality(Ids) + writes
  BY DEF SInv, LibraryOK
<1>5. LibraryOK'
  <2>1. rows \in [DOMAIN rows -> Row] /\ DOMAIN rows \subseteq Ids
    BY DEF Writes
  <2>2. ASSUME NEW a \in DOMAIN rows
        PROVE  rows[a].updated <= Cardinality(Ids) + (writes + 1)
    <3>1. CASE a = id
      BY <1>2, <1>3, <1>4, <3>1 DEF Writes
    <3>2. CASE a # id
      <4>1. a \in DOMAIN prompts /\ rows[a] = prompts[a]
        BY <1>3, <3>2 DEF Writes
      <4>2. QED
        BY <1>2, <1>3, <1>4, <4>1
    <3>3. QED
      BY <3>1, <3>2
  <2>3. ASSUME NEW a \in DOMAIN rows, NEW b \in DOMAIN rows, rows[a].updated = rows[b].updated
        PROVE  a = b
    <3>1. \A i \in DOMAIN rows : i = id \/ (i \in DOMAIN prompts /\ rows[i] = prompts[i])
      BY <1>3 DEF Writes
    <3>2. \A i \in DOMAIN prompts :
            prompts[i].updated # Cardinality(Ids) + writes + 1
      BY <1>2, <1>3, <1>4
    <3>3. \A i, j \in DOMAIN prompts : prompts[i].updated = prompts[j].updated => i = j
      BY DEF SInv, LibraryOK
    <3>4. QED
      BY <2>3, <3>1, <3>2, <3>3 DEF Writes
  <2>4. writes' \in Nat
    BY <1>1, <1>2
  <2>5. QED
    BY <1>1, <2>1, <2>2, <2>3, <2>4 DEF LibraryOK
<1>6. ASSUME NEW x, x # id, x \in Hits(q)'
      PROVE  x \in Hits(q)
  <2>1. x \in DOMAIN rows
    BY <1>1, <1>6 DEF Hits
  <2>2. x \in DOMAIN prompts /\ rows[x] = prompts[x]
    BY <1>3, <1>6, <2>1 DEF Writes
  <2>3. QED
    BY <1>1, <1>6, <2>2 DEF Hits, Where, Latest, InIndex, Likes
<1>7. ASSUME NEW x, x # id, x \in Hits(q)
      PROVE  x \in Hits(q)'
  <2>1. x \in DOMAIN prompts
    BY <1>7 DEF Hits
  <2>2. x \in DOMAIN rows /\ rows[x] = prompts[x]
    BY <1>3, <1>7, <2>1 DEF Writes
  <2>3. QED
    BY <1>1, <1>7, <2>2 DEF Hits, Where, Latest, InIndex, Likes
<1>8. ASSUME ~left', NEW x \in Hits(q)', x # id
      PROVE  Cardinality(Above(q, x)) <= Cardinality(Above(q, x)')
             /\ Cardinality(Above(q, x)) \in Nat /\ Cardinality(Above(q, x)') \in Nat
  <2>1. x \in DOMAIN prompts /\ rows[x] = prompts[x]
    <3>1. x \in DOMAIN rows
      BY <1>1 DEF Hits
    <3>2. QED
      BY <1>3, <1>8, <3>1 DEF Writes
  <2>2. ASSUME NEW y \in Above(q, x)
        PROVE  y \in Above(q, x)'
    <3>1. y \in Hits(q) /\ prompts[y].updated > prompts[x].updated /\ y \in DOMAIN prompts
      BY DEF Above, Hits
    <3>2. y \in Hits(q)'
      <4>1. CASE y = id
        BY <1>1, <1>8, <3>1, <4>1
      <4>2. CASE y # id
        BY <1>7, <3>1, <4>2
      <4>3. QED
        BY <4>1, <4>2
    <3>3. y \in DOMAIN rows
      BY <1>1, <3>2 DEF Hits
    <3>4. rows[y].updated > rows[x].updated
      <4>1. CASE y = id /\ rows[id].updated = Cardinality(Ids) + writes + 1
        BY <1>2, <1>3, <1>4, <2>1, <4>1
      <4>2. CASE y # id \/ rows[y].updated = prompts[y].updated
        <5>1. rows[y].updated = prompts[y].updated
          BY <1>3, <3>1, <4>2 DEF Writes
        <5>2. QED
          BY <2>1, <3>1, <5>1
      <4>3. QED
        BY <3>3, <4>1, <4>2 DEF Writes
    <3>5. QED
      BY <1>1, <3>2, <3>4 DEF Above
  <2>3. IsFiniteSet(Above(q, x)')
    <3>1. Above(q, x)' \subseteq DOMAIN rows
      BY <1>1 DEF Above, Hits
    <3>2. Above(q, x)' \subseteq Ids
      BY <1>3, <3>1
    <3>3. QED
      BY <1>2, <3>2, FS_Subset
  <2>4. Above(q, x) \subseteq Above(q, x)'
    BY <2>2
  <2>5. QED
    BY <2>3, <2>4, FS_Subset, FS_CardinalityType
<1>9. listing' \in Listings /\ Len(listing'.rows) <= listing'.query.size
  BY <1>1 DEF SInv
<1>10. RoomIsUsed' /\ NothingFound'
  BY <1>1 DEF SInv, RoomIsUsed, NothingFound
<1>11. ASSUME Unfiltered'
       PROVE  /\ listing'.phase \in {"count", "rows"} => listing'.allowed.is = FALSE
              /\ ~left' => \A x \in Hits(q)' \ touched' : Reached(x)'
              /\ touched' # {}
  <2>1. Unfiltered
    BY <1>1, <1>11 DEF Unfiltered, TagIds, ByRelevance
  <2>2. ASSUME ~left', NEW x \in Hits(q)' \ touched'
        PROVE  Reached(x)'
    <3>1. x # id /\ x \in Hits(q) \ touched /\ ~left
      BY <1>1, <1>6, <2>2
    <3>2. Reached(x)
      BY <2>1, <3>1 DEF SInv, PagesSoFar
    <3>3. listing.page * q.size \in Nat
      <4>1. listing.page \in Nat /\ q \in Asked
        BY DEF SInv, Listings
      <4>2. q.size \in Nat
        BY <4>1, AskedIs
      <4>3. QED
        BY <4>1, <4>2
    <3>4. Cardinality(Above(q, x)) <= Cardinality(Above(q, x)')
          /\ Cardinality(Above(q, x)) \in Nat /\ Cardinality(Above(q, x)') \in Nat
      BY <1>8, <2>2, <3>1
    <3>5. Above(listing.query, x)' = Above(q, x)'
      BY <1>1
    <3> HIDE DEF q
    <3>6. QED
      BY <1>1, <3>2, <3>3, <3>4, <3>5 DEF Reached, q
  <2>3. listing.phase \in {"count", "rows"} => listing.allowed.is = FALSE
    BY <2>1 DEF SInv, PagesSoFar
  <2>4. QED
    BY <1>1, <2>2, <2>3
<1>12. PagesSoFar'
  BY <1>1, <1>11 DEF PagesSoFar
<1>13. QED
  BY <1>5, <1>9, <1>10, <1>12 DEF SInv

-----------------------------------------------------------------------------
(* The steps of the listing.                                               *)

LEMMA AboveIs ==
  ASSUME LibraryOK, NEW q, NEW id
  PROVE  IsFiniteSet(Above(q, id)) /\ Cardinality(Above(q, id)) \in Nat
<1>1. IsFiniteSet(Hits(q)) /\ Above(q, id) \subseteq Hits(q)
  BY HitsAre DEF Above
<1>2. QED
  BY <1>1, FS_Subset, FS_CardinalityType

LEMMA InitIs ==
  ASSUME SearchInit
  PROVE  SInv
<1>1. listing = NoListing /\ touched = {} /\ left = FALSE /\ prompts = Library /\ writes = 0
  BY DEF SearchInit
<1>2. LibraryOK
  <2>1. Cardinality(Ids) \in Nat
    BY LibraryAssumption, FS_CardinalityType
  <2>2. \A a \in DOMAIN Library : Library[a] \in Row
    BY LibraryAssumption
  <2>3. \A a \in DOMAIN Library : Library[a].updated <= Cardinality(Ids) + 0
    BY <2>1, <2>2, LibraryAssumption DEF Row
  <2>4. QED
    BY <1>1, <2>3, LibraryAssumption DEF LibraryOK
<1>3. listing \in Listings /\ Len(listing.rows) <= listing.query.size
  <2>1. NoQuery.size \in Nat /\ Len(<<>>) = 0
    BY DEF NoQuery, Query
  <2>2. QED
    BY <1>1, <2>1, NoListingIs
<1>4. PagesSoFar
  <2>1. listing.phase = "none" /\ listing.page = 0 /\ listing.seen = <<>> /\ listing.query = NoQuery
    BY <1>1, NoListingIs
  <2>2. listing.page * listing.query.size = 0
    BY <2>1 DEF NoQuery, Query
  <2>3. \A id \in Hits(listing.query) : Reached(id)
    BY <1>2, <2>1, <2>2, AboveIs DEF Reached
  <2>4. SeenInOrder
    BY <2>1, <2>2 DEF SeenInOrder
  <2>5. QED
    BY <2>1, <2>3, <2>4 DEF PagesSoFar
<1>5. RoomIsUsed /\ NothingFound
  BY <1>1, NoListingIs DEF RoomIsUsed, NothingFound
<1>6. QED
  BY <1>2, <1>3, <1>4, <1>5 DEF SInv

(* A step of the client leaves the prompts as they are. *)
LEMMA Unwritten ==
  ASSUME UNCHANGED <<prompts, indexed>>
  PROVE  /\ \A q : Hits(q)' = Hits(q) /\ (\A id : Above(q, id)' = Above(q, id))
         /\ \A q : ByRelevance(q)' = ByRelevance(q)
BY DEF Hits, Above, Where, Latest, InIndex, Likes, ByRelevance

LEMMA AskKeeps ==
  ASSUME SInv, NEW q \in Queries, Ask(q)
  PROVE  SInv'
<1>1. /\ listing' = [NoListing EXCEPT !.phase = "ask", !.query = q]
      /\ touched' = {} /\ left' = FALSE /\ UNCHANGED <<prompts, indexed, writes>>
  BY DEF Ask
<1>2. LibraryOK /\ LibraryOK'
  BY <1>1 DEF SInv, LibraryOK
<1>3. /\ listing' \in Listings /\ listing'.phase = "ask" /\ listing'.query = q
      /\ listing'.page = 0 /\ listing'.seen = <<>> /\ listing'.rows = <<>>
      /\ listing'.found = <<>>
  BY <1>1, NoListingIs DEF Listings, Asked
<1>4. q.size \in Nat
  BY LimitsAssumption
<1>5. Len(listing'.rows) <= listing'.query.size
  BY <1>3, <1>4
<1>6. listing'.page * listing'.query.size = 0
  BY <1>3, <1>4
<1>7. \A id : Cardinality(Above(q, id)) \in Nat
  BY <1>2, AboveIs
<1>8. \A id : Reached(id)'
  <2>1. TAKE id
  <2>2. Above(listing.query, id)' = Above(q, id)
    BY <1>1, <1>3, Unwritten DEF Above, Hits, Where, Latest, InIndex, Likes
  <2>3. QED
    BY <1>3, <1>6, <1>7, <2>2 DEF Reached
<1>9. SeenInOrder'
  BY <1>3, <1>6 DEF SeenInOrder
<1>10. PagesSoFar'
  BY <1>3, <1>8, <1>9 DEF PagesSoFar
<1>11. RoomIsUsed' /\ NothingFound'
  BY <1>3 DEF RoomIsUsed, NothingFound
<1>12. QED
  BY <1>2, <1>3, <1>5, <1>10, <1>11 DEF SInv

(* What a step of the client that shows nothing has to keep. *)
LEMMA SameListing ==
  ASSUME SInv, UNCHANGED <<prompts, indexed, writes, touched, left>>,
         listing' \in Listings, listing'.query = listing.query, listing'.page = listing.page,
         listing'.seen = listing.seen, listing'.rows = listing.rows,
         listing'.found = listing.found,
         listing.phase # "done", listing'.phase # "done",
         Unfiltered /\ listing'.phase \in {"count", "rows"} => listing'.allowed.is = FALSE
  PROVE  SInv'
<1>1. LibraryOK'
  BY DEF SInv, LibraryOK
<1>2. Len(listing'.rows) <= listing'.query.size
  BY DEF SInv
<1>3. /\ \A id : Reached(id)' <=> Reached(id)
      /\ Hits(listing.query)' = Hits(listing.query)
      /\ \A id : Above(listing.query, id)' = Above(listing.query, id)
  <2>1. /\ Hits(listing.query)' = Hits(listing.query)
        /\ \A id : Above(listing.query, id)' = Above(listing.query, id)
    BY DEF Above, Hits, Where, Latest, InIndex, Likes
  <2>2. QED
    BY <2>1 DEF Reached
<1>4. SeenInOrder' <=> SeenInOrder
  BY <1>3 DEF SeenInOrder
<1>5. Unfiltered' <=> Unfiltered
  BY DEF Unfiltered, TagIds, ByRelevance
<1>6. PagesSoFar'
  BY <1>3, <1>4, <1>5 DEF PagesSoFar, SInv
<1>7. RoomIsUsed' /\ NothingFound'
  BY DEF RoomIsUsed, NothingFound, SInv
<1>8. QED
  BY <1>1, <1>2, <1>6, <1>7 DEF SInv

LEMMA LookUpKeeps ==
  ASSUME SInv, LookUp
  PROVE  SInv'
<1> DEFINE tags == TagIds(listing.query)
           allowed == IF tags = {} THEN NoFilter ELSE [is |-> TRUE, ids |-> Tagged(tags)]
           empty == allowed.is /\ allowed.ids = {}
           l == [listing EXCEPT !.rows = <<>>]
<1>1. /\ listing.phase = "ask" /\ UNCHANGED <<prompts, indexed, writes, touched, left>>
      /\ listing' = IF empty THEN Answered(l, <<>>, 0)
                    ELSE [listing EXCEPT !.phase = "count", !.allowed = allowed]
  BY DEF LookUp
<1>2. listing \in Listings /\ listing.query \in Asked
  BY DEF SInv, Listings
<1>3. allowed \in [is : BOOLEAN, ids : SUBSET Ids]
  <2>1. Tagged(tags) \subseteq Ids
    BY DEF SInv, LibraryOK, Tagged
  <2>2. QED
    BY <2>1 DEF NoFilter
<1>4. Unfiltered => allowed = NoFilter
  BY DEF Unfiltered
<1> HIDE DEF allowed
<1>5. CASE ~empty
  <2>1. listing' = [listing EXCEPT !.phase = "count", !.allowed = allowed]
    BY <1>1, <1>5
  <2>2. /\ listing' \in Listings /\ listing'.query = listing.query
        /\ listing'.page = listing.page /\ listing'.seen = listing.seen
        /\ listing'.rows = listing.rows /\ listing'.found = listing.found
        /\ listing'.phase = "count" /\ listing'.allowed = allowed
    BY <1>2, <1>3, <2>1 DEF Listings
  <2>3. Unfiltered => listing'.allowed.is = FALSE
    BY <1>4, <2>2 DEF NoFilter
  <2>4. QED
    BY <1>1, <2>2, <2>3, SameListing
<1>6. CASE empty
  <2>1. listing' = Answered(l, <<>>, 0)
    BY <1>1, <1>6
  <2>2. l \in Listings /\ l.rows = <<>> /\ l.query = listing.query /\ l.found = listing.found
    <3>1. <<>> \in Seq(Matched)
      OBVIOUS
    <3>2. QED
      BY <1>2, <3>1 DEF Listings
  <2>3. <<>> \in Seq(Ids) /\ Len(<<>>) = 0 /\ 0 \in Nat /\ listing.query.size \in Nat \ {0}
    BY <1>2, AskedIs
  <2> HIDE DEF l
  <2>4. /\ listing' \in Listings /\ listing'.phase = "done" /\ listing'.rows = <<>>
        /\ listing'.query = listing.query /\ listing'.found = listing.found
    <3> DEFINE none == <<>>
               new == Answered(l, none, 0)
    <3>1. none \in Seq(Ids) /\ Len(none) < l.query.size
      BY <2>2, <2>3
    <3> HIDE DEF none
    <3>2. /\ new \in Listings /\ new.query = l.query /\ new.rows = l.rows
          /\ new.found = l.found /\ new.phase = "done"
      BY <2>2, <2>3, <3>1, AnsweredIs
    <3>3. listing' = new
      BY <2>1 DEF none
    <3> HIDE DEF new
    <3>4. QED
      BY <2>2, <3>2, <3>3
  <2>5. ~Unfiltered /\ ~Unfiltered'
    <3>1. ~Unfiltered
      BY <1>4, <1>6 DEF NoFilter
    <3>2. QED
      BY <1>1, <2>4, <3>1 DEF Unfiltered, TagIds, ByRelevance
  <2>6. RoomIsUsed'
    <3>1. ASSUME listing'.query.kind = "advanced"
          PROVE  listing'.found = <<>> /\ ToSet(listing'.found) = {} /\ ToSet(listing'.rows) = {}
                 /\ Sum(listing'.found) = 0 /\ Len(listing'.found) = 0
      <4>1. listing'.found = <<>>
        BY <1>1, <2>4, <3>1 DEF SInv, NothingFound
      <4>2. ToSet(<<>>) = {} /\ Len(<<>>) = 0
        BY DEF ToSet
      <4>3. Sum(<<>>) = 0
        <5>1. <<>> \in Seq(Matched)
          OBVIOUS
        <5>2. QED
          BY <4>2, <5>1, SumIs
      <4>4. QED
        BY <2>4, <4>1, <4>2, <4>3
    <3>2. MaxTotalMatches \in Nat /\ MaxResults \in Nat
      BY LimitsAssumption
    <3>3. QED
      BY <3>1, <3>2 DEF RoomIsUsed
  <2>7. LibraryOK' /\ NothingFound'
    BY <1>1, <2>4 DEF SInv, LibraryOK, NothingFound
  <2>8. QED
    BY <2>3, <2>4, <2>5, <2>6, <2>7 DEF SInv, PagesSoFar
<1>7. QED
  BY <1>5, <1>6

LEMMA TotalIs ==
  ASSUME LibraryOK, NEW q
  PROVE  LET counted == {id \in DOMAIN prompts :
                           \E v \in ToSet(prompts[id].versions) : Where(id, v, q)}
         IN IsFiniteSet(counted) /\ Total(q) = Cardinality(counted) /\ Total(q) \in Nat
<1> DEFINE counted == {id \in DOMAIN prompts :
                         \E v \in ToSet(prompts[id].versions) : Where(id, v, q)}
<1>1. counted \subseteq Ids /\ Total(q) = Cardinality(counted)
  BY DEF LibraryOK, Total
<1> HIDE DEF counted
<1>2. IsFiniteSet(counted) /\ Cardinality(counted) \in Nat
  BY <1>1, FS_Subset, FS_CardinalityType, LibraryAssumption
<1>3. QED
  BY <1>1, <1>2 DEF counted

LEMMA CountKeeps ==
  ASSUME SInv, CountHits
  PROVE  SInv'
<1>1. /\ listing.phase = "count" /\ UNCHANGED <<prompts, indexed, writes, touched, left>>
      /\ listing' = [listing EXCEPT !.phase = "rows", !.total = Total(listing.query)]
  BY DEF CountHits
<1>2. listing \in Listings /\ Total(listing.query) \in Nat
  BY TotalIs DEF SInv
<1>3. /\ listing' \in Listings /\ listing'.query = listing.query
      /\ listing'.page = listing.page /\ listing'.seen = listing.seen
      /\ listing'.rows = listing.rows /\ listing'.found = listing.found
      /\ listing'.phase = "rows" /\ listing'.allowed = listing.allowed
  BY <1>1, <1>2 DEF Listings
<1>4. Unfiltered => listing'.allowed.is = FALSE
  BY <1>1, <1>3 DEF SInv, PagesSoFar
<1>5. QED
  BY <1>1, <1>3, <1>4, SameListing

(* What Select makes of one order of the hits. *)
Page(order) == PageOf(order, listing.query, listing.page)
Taken(order) == IF listing.query.kind = "advanced" THEN Found(Page(order)) ELSE Page(order)
IdsOf(found) == [i \in DOMAIN found |-> found[i].id]
Told(order) == Shown(listing.query, Filtered(IdsOf(Taken(order))))

LEMMA SelectIs ==
  ASSUME Select
  PROVE  /\ listing.phase = "rows" /\ UNCHANGED <<prompts, indexed, writes, touched, left>>
         /\ \E order \in Orders(listing.query) :
              listing' = Answered([listing EXCEPT !.rows = Page(order), !.found = Taken(order)],
                                  Told(order),
                                  IF listing.allowed.is THEN Len(Filtered(IdsOf(Taken(order))))
                                  ELSE listing.total)
BY DEF Select, Page, Taken, IdsOf, Told

LEMMA PageHolds ==
  ASSUME LibraryOK, listing \in Listings, NEW order \in Orders(listing.query)
  PROVE  LET rows == Page(order)
             q == listing.query
             offset == listing.page * listing.query.size
         IN /\ rows \in Seq(Matched) /\ Len(rows) \in Nat
            /\ Len(rows) <= q.size /\ (q.kind = "advanced" => Len(rows) <= MaxResults)
            /\ offset \in Nat
            /\ \A i \in 1..Len(rows) :
                 offset + i \in 1..Cardinality(Hits(q)) /\ rows[i].id = order[offset + i]
            /\ q.kind # "advanced" /\ Len(rows) < q.size => Cardinality(Hits(q)) <= offset + Len(rows)
<1> DEFINE q == listing.query
           n == Cardinality(Hits(q))
<1>1. q \in Asked /\ listing.page \in Nat
  BY DEF Listings
<1>2. n \in Nat /\ Hits(q) \subseteq Ids
  BY HitsAre
<1>3. order \in [1..n -> Hits(q)]
  BY OrderIs
<1> HIDE DEF n
<1>4. order \in [1..n -> Ids]
  BY <1>2, <1>3
<1> HIDE DEF q
<1>5. LET rows == PageOf(order, q, listing.page)
          offset == listing.page * q.size
      IN /\ rows \in Seq(Matched) /\ Len(rows) \in Nat
         /\ Len(rows) <= q.size /\ (q.kind = "advanced" => Len(rows) <= MaxResults)
         /\ offset \in Nat
         /\ \A i \in 1..Len(rows) : offset + i \in 1..n /\ rows[i].id = order[offset + i]
         /\ q.kind # "advanced" /\ Len(rows) < q.size => n <= offset + Len(rows)
  BY <1>1, <1>2, <1>4, PageIs
<1>6. QED
  BY <1>5 DEF n, q, Page

LEMMA IdsOfIs ==
  ASSUME NEW found \in Seq(Matched)
  PROVE  /\ IdsOf(found) \in Seq(Ids) /\ Len(IdsOf(found)) = Len(found)
         /\ \A i \in 1..Len(found) : IdsOf(found)[i] = found[i].id
<1>1. DOMAIN found = 1..Len(found) /\ Len(found) \in Nat /\ \A i \in 1..Len(found) : found[i] \in Matched
  OBVIOUS
<1>2. \A i \in 1..Len(found) : found[i].id \in Ids
  BY <1>1 DEF Matched
<1>3. IdsOf(found) = [i \in 1..Len(found) |-> found[i].id]
  BY <1>1 DEF IdsOf
<1>4. QED
  BY <1>1, <1>2, <1>3

LEMMA TakenIs ==
  ASSUME LibraryOK, listing \in Listings, NEW order \in Orders(listing.query)
  PROVE  /\ Taken(order) \in Seq(Matched)
         /\ listing.query.kind = "advanced" =>
              Room(Taken(order), Page(order), Len(Page(order))) /\ Len(Page(order)) <= MaxResults
         /\ listing.query.kind # "advanced" => Taken(order) = Page(order)
<1>1. Page(order) \in Seq(Matched)
      /\ (listing.query.kind = "advanced" => Len(Page(order)) <= MaxResults)
  BY PageHolds
<1>2. CASE listing.query.kind = "advanced"
  <2>1. Taken(order) = Found(Page(order))
    BY <1>2 DEF Taken
  <2>2. Room(Found(Page(order)), Page(order), Len(Page(order)))
    BY <1>1, <1>2, FoundHasRoom
  <2>3. QED
    BY <1>1, <1>2, <2>1, <2>2 DEF Room
<1>3. CASE listing.query.kind # "advanced"
  BY <1>1, <1>3 DEF Taken
<1>4. QED
  BY <1>2, <1>3

LEMMA ToldIs ==
  ASSUME LibraryOK, listing \in Listings, NEW order \in Orders(listing.query)
  PROVE  LET kept == Filtered(IdsOf(Taken(order)))
         IN /\ kept \in Seq(Ids) /\ Told(order) \in Seq(Ids)
            /\ listing.query.kind = "list" /\ listing.allowed.is = FALSE =>
                 Told(order) = IdsOf(Page(order))
<1> DEFINE ids == IdsOf(Taken(order))
           kept == Filtered(ids)
<1>1. listing.query \in Asked
  BY DEF Listings
<1>2. ids \in Seq(Ids) /\ (listing.query.kind # "advanced" => ids = IdsOf(Page(order)))
  BY TakenIs, IdsOfIs
<1> HIDE DEF ids
<1>3. Kept(ids, listing.allowed.ids) \in Seq(Ids)
  <2>1. Kept(ids, listing.allowed.ids) \in Seq(ToSet(ids) \cap listing.allowed.ids)
    BY <1>2, KeptIs
  <2>2. ToSet(ids) \cap listing.allowed.ids \subseteq Ids
    BY <1>2 DEF ToSet
  <2> DEFINE T == ToSet(ids) \cap listing.allowed.ids
  <2> HIDE DEF T
  <2>3. T \subseteq Ids /\ Kept(ids, listing.allowed.ids) \in Seq(T)
    BY <2>1, <2>2 DEF T
  <2>4. QED
    BY <2>3, SeqMonotonic
<1>4. kept \in Seq(Ids) /\ (listing.allowed.is = FALSE => kept = ids)
  BY <1>2, <1>3 DEF Filtered
<1> HIDE DEF kept
<1>5. Shown(listing.query, kept) \in Seq(Ids)
      /\ (listing.query.kind = "list" => Shown(listing.query, kept) = kept)
  BY <1>1, <1>4, ShownIs
<1>6. Told(order) = Shown(listing.query, kept)
  BY DEF Told, kept, ids
<1>7. QED
  BY <1>2, <1>4, <1>5, <1>6 DEF kept, ids

LEMMA JoinIs ==
  ASSUME NEW S, NEW s \in Seq(S), NEW t \in Seq(S)
  PROVE  /\ Len(s \o t) = Len(s) + Len(t)
         /\ \A i \in 1..Len(s) : (s \o t)[i] = s[i]
         /\ \A i \in 1..Len(t) : (s \o t)[Len(s) + i] = t[i]
         /\ ToSet(s) \subseteq ToSet(s \o t)
<1> DEFINE r == s \o t
<1>1. Len(s) \in Nat /\ Len(t) \in Nat /\ Len(r) = Len(s) + Len(t)
  OBVIOUS
<1>2. \A i \in 1..Len(s) : r[i] = s[i]
  OBVIOUS
<1>3. \A i \in 1..Len(t) : r[Len(s) + i] = t[i]
  BY <1>1
<1> HIDE DEF r
<1>4. ToSet(s) \subseteq ToSet(r)
  BY <1>1, <1>2 DEF ToSet
<1>5. QED
  BY <1>1, <1>2, <1>3, <1>4 DEF r

LEMMA SelectKeeps ==
  ASSUME SInv, Select
  PROVE  SInv'
<1> DEFINE q == listing.query
           n == Cardinality(Hits(q))
           offset == listing.page * q.size
<1>1. /\ LibraryOK /\ listing \in Listings /\ listing.phase = "rows"
      /\ UNCHANGED <<prompts, indexed, writes, touched, left>>
  BY SelectIs DEF SInv
<1>2. PICK order \in Orders(q) :
        listing' = Answered([listing EXCEPT !.rows = Page(order), !.found = Taken(order)], Told(order),
                            IF listing.allowed.is THEN Len(Filtered(IdsOf(Taken(order))))
                            ELSE listing.total)
  BY SelectIs
<1> DEFINE rows == Page(order)
           answer == Told(order)
           total == IF listing.allowed.is THEN Len(Filtered(IdsOf(Taken(order)))) ELSE listing.total
           l == [listing EXCEPT !.rows = Page(order), !.found = Taken(order)]
           ends == Len(answer) < q.size \/ q.kind # "list"
<1>3. /\ rows \in Seq(Matched) /\ Len(rows) \in Nat /\ Len(rows) <= q.size
      /\ (q.kind = "advanced" => Len(rows) <= MaxResults)
      /\ offset \in Nat /\ \A i \in 1..Len(rows) : offset + i \in 1..n /\ rows[i].id = order[offset + i]
      /\ q.kind # "advanced" /\ Len(rows) < q.size => n <= offset + Len(rows)
  BY <1>1, PageHolds
<1>4. Taken(order) \in Seq(Matched)
      /\ (q.kind = "advanced" => Room(Taken(order), rows, Len(rows)))
  BY <1>1, TakenIs
<1>5. /\ answer \in Seq(Ids) /\ total \in Nat
      /\ q.kind = "list" /\ listing.allowed.is = FALSE => answer = IdsOf(rows)
  <2>1. LET kept == Filtered(IdsOf(Taken(order)))
        IN /\ kept \in Seq(Ids) /\ Told(order) \in Seq(Ids)
           /\ q.kind = "list" /\ listing.allowed.is = FALSE => Told(order) = IdsOf(Page(order))
    BY <1>1, ToldIs
  <2>2. Len(Filtered(IdsOf(Taken(order)))) \in Nat /\ listing.total \in Nat
    BY <1>1, <2>1 DEF Listings
  <2>3. QED
    BY <2>1, <2>2
<1>6. l \in Listings /\ l.query = q /\ l.rows = rows /\ l.found = Taken(order)
      /\ l.seen = listing.seen /\ l.page = listing.page
  BY <1>1, <1>3, <1>4 DEF Listings
<1>7. listing' = Answered(l, answer, total)
  BY <1>2
<1> HIDE DEF rows, answer, total, l
<1>8. /\ listing' \in Listings /\ listing'.query = q /\ listing'.rows = rows
      /\ listing'.found = Taken(order) /\ listing'.seen = listing.seen \o answer
      /\ ends => listing'.phase = "done" /\ listing'.page = listing.page
      /\ ~ends => listing'.phase = "ask" /\ listing'.page = listing.page + 1
  <2> DEFINE new == Answered(l, answer, total)
  <2>1. /\ new \in Listings /\ new.query = l.query /\ new.rows = l.rows /\ new.found = l.found
        /\ new.seen = l.seen \o answer
        /\ (Len(answer) < l.query.size \/ l.query.kind # "list") => new.phase = "done" /\ new.page = l.page
        /\ ~(Len(answer) < l.query.size \/ l.query.kind # "list") => new.phase = "ask" /\ new.page = l.page + 1
    BY ZenonT(60), <1>5, <1>6, AnsweredIs
  <2>2. listing' = new
    BY <1>7
  <2> HIDE DEF new
  <2>3. QED
    BY <1>6, <2>1, <2>2
<1>9. LibraryOK'
  BY <1>1 DEF LibraryOK
<1>10. NothingFound'
  BY <1>8 DEF NothingFound
<1>11. RoomIsUsed'
  <2>1. SUFFICES ASSUME q.kind = "advanced"
                 PROVE  /\ Sum(listing'.found) <= MaxTotalMatches /\ Len(listing'.found) <= MaxResults
                        /\ ToSet(listing'.found) \subseteq ToSet(listing'.rows)
                        /\ \A row \in ToSet(listing'.rows) \ ToSet(listing'.found) :
                             row.times = 0 \/ Sum(listing'.found) + row.times > MaxTotalMatches
    BY <1>8 DEF RoomIsUsed
  <2>2. Room(Taken(order), rows, Len(rows)) /\ Len(rows) <= MaxResults /\ MaxResults \in Nat
    BY <1>3, <1>4, <2>1, LimitsAssumption
  <2>3. Len(Taken(order)) \in Nat
    BY <1>4
  <2>4. Len(Taken(order)) <= MaxResults
    BY <1>3, <2>2, <2>3 DEF Room
  <2>5. \A row \in ToSet(rows) : \E k \in 1..Len(rows) : row = rows[k]
    BY DEF ToSet
  <2>6. QED
    BY <1>8, <2>2, <2>4, <2>5 DEF Room
<1>12. ASSUME Unfiltered'
       PROVE  /\ ~left' => \A id \in Hits(q)' \ touched' : Reached(id)'
              /\ touched' = {} => SeenInOrder'
  <2>1. Unfiltered /\ q.kind = "list" /\ ~ByRelevance(q) /\ listing.allowed.is = FALSE
    <3>1. Unfiltered
      BY <1>1, <1>8, <1>12 DEF Unfiltered, TagIds, ByRelevance
    <3>2. QED
      BY <1>1, <3>1 DEF Unfiltered, SInv, PagesSoFar
  <2>2. Len(answer) = Len(rows) /\ \A i \in 1..Len(rows) : answer[i] = order[offset + i]
    BY <1>3, <1>5, <2>1, IdsOfIs
  <2>3. /\ n \in Nat /\ \A id \in Hits(q) : \E k \in 1..n : order[k] = id
        /\ \A k \in 1..n : Cardinality(Above(q, order[k])) = k - 1 /\ order[k] \in Hits(q)
    <3>1. n \in Nat
      BY <1>1, HitsAre
    <3>2. /\ order \in [1..n -> Hits(q)]
          /\ \A id \in Hits(q) : \E k \in 1..n : order[k] = id
          /\ \A k \in 1..n : Cardinality(Above(q, order[k])) = k - 1
      <4> HIDE DEF q
      <4>1. QED
        BY <1>1, <2>1, OrderIs
    <3> HIDE DEF n, q
    <3>3. QED
      BY <3>1, <3>2
  <2>4. /\ Hits(q)' = Hits(q) /\ \A id : Above(q, id)' = Above(q, id)
        /\ Hits(listing.query)' = Hits(q) /\ \A id : Above(listing.query, id)' = Above(q, id)
    BY <1>1, <1>8 DEF Above, Hits, Where, Latest, InIndex, Likes
  <2>5. q.size \in Nat \ {0} /\ listing.page \in Nat /\ listing.seen \in Seq(Ids)
        /\ Len(listing.seen) \in Nat
    BY <1>1, AskedIs DEF Listings
  <2>6. ends <=> Len(rows) < q.size
    BY <2>1, <2>2
  <2>7. /\ ends => listing'.phase = "done" /\ n <= offset + Len(rows)
        /\ ~ends => Len(rows) = q.size /\ listing'.page * q.size = offset + q.size
    <3>1. ends => listing'.phase = "done" /\ n <= offset + Len(rows)
      BY <1>3, <1>8, <2>1, <2>6
    <3>2. ASSUME ~ends
          PROVE  Len(rows) = q.size /\ listing'.page * q.size = offset + q.size
      <4>1. Len(rows) = q.size
        BY <1>3, <2>5, <2>6, <3>2
      <4>2. listing'.page = listing.page + 1
        BY <1>8, <3>2
      <4>3. (listing.page + 1) * q.size = listing.page * q.size + q.size
        BY SMTT(60), <2>5
      <4>4. QED
        BY <4>1, <4>2, <4>3
    <3>3. QED
      BY <3>1, <3>2
  <2>8. /\ Len(listing'.seen) = Len(listing.seen) + Len(rows)
        /\ \A i \in 1..Len(listing.seen) : listing'.seen[i] = listing.seen[i]
        /\ \A i \in 1..Len(rows) : listing'.seen[Len(listing.seen) + i] = answer[i]
        /\ ToSet(listing.seen) \subseteq ToSet(listing'.seen)
        /\ \A i \in 1..Len(rows) : answer[i] \in ToSet(listing'.seen)
    <3>1. /\ Len(listing'.seen) = Len(listing.seen) + Len(rows)
          /\ \A i \in 1..Len(listing.seen) : listing'.seen[i] = listing.seen[i]
          /\ \A i \in 1..Len(rows) : listing'.seen[Len(listing.seen) + i] = answer[i]
          /\ ToSet(listing.seen) \subseteq ToSet(listing'.seen)
      <4> DEFINE s == listing.seen
      <4>1. s \in Seq(Ids) /\ answer \in Seq(Ids) /\ listing'.seen = s \o answer
            /\ Len(answer) = Len(rows)
        BY <1>5, <1>8, <2>2, <2>5
      <4> HIDE DEF s
      <4>2. /\ Len(s \o answer) = Len(s) + Len(answer)
            /\ \A i \in 1..Len(s) : (s \o answer)[i] = s[i]
            /\ \A i \in 1..Len(answer) : (s \o answer)[Len(s) + i] = answer[i]
            /\ ToSet(s) \subseteq ToSet(s \o answer)
        BY <4>1, JoinIs
      <4>3. QED
        BY <4>1, <4>2 DEF s
    <3>3. ASSUME NEW i \in 1..Len(rows)
          PROVE  answer[i] \in ToSet(listing'.seen)
      <4>1. Len(listing.seen) + i \in 1..Len(listing'.seen)
        BY <1>3, <2>5, <3>1
      <4>2. listing'.seen[Len(listing.seen) + i] = answer[i]
        BY <3>1
      <4>3. QED
        BY <4>1, <4>2 DEF ToSet
    <3>4. QED
      BY <3>1, <3>3
  <2> HIDE DEF offset, n, ends
  <2>9. ASSUME ~left', NEW id \in Hits(q)' \ touched'
        PROVE  Reached(id)'
    <3>1. id \in Hits(q) /\ Reached(id)
      BY <1>1, <2>1, <2>4, <2>9 DEF SInv, PagesSoFar
    <3>2. PICK k \in 1..n : order[k] = id /\ Cardinality(Above(q, id)) = k - 1
      BY <2>3, <3>1
    <3>3. CASE id \in ToSet(listing.seen)
      BY <2>8, <3>3 DEF Reached
    <3>4. CASE offset < k /\ k <= offset + Len(rows)
      <4>1. k - offset \in 1..Len(rows) /\ offset + (k - offset) = k
        BY <1>3, <2>3, <3>4
      <4>2. answer[k - offset] = id
        BY <2>2, <3>2, <4>1
      <4>3. QED
        BY <2>8, <4>1, <4>2 DEF Reached
    <3>5. CASE k > offset + Len(rows)
      <4>1. ~ends
        BY <1>3, <2>3, <2>7, <3>5
      <4>2. listing'.page * q.size <= k - 1 /\ listing'.phase # "done"
        <5>1. Len(rows) = q.size /\ listing'.page * q.size = offset + q.size
          BY <2>7, <4>1
        <5>2. listing'.phase = "ask"
          BY <1>8, <4>1
        <5>3. offset + q.size <= k - 1
          BY <1>3, <2>3, <2>5, <3>5, <5>1
        <5>4. QED
          BY <5>1, <5>2, <5>3
      <4>3. QED
        BY <1>8, <2>4, <3>2, <4>2 DEF Reached
    <3>6. id \in ToSet(listing.seen) \/ offset <= k - 1
      BY <3>1, <3>2 DEF Reached, offset
    <3>7. QED
      BY <1>3, <2>3, <3>3, <3>4, <3>5, <3>6
  <2>10. ASSUME touched' = {}
         PROVE  SeenInOrder'
    <3>1. SeenInOrder /\ Len(listing.seen) = offset
      BY <1>1, <2>1, <2>10 DEF SInv, PagesSoFar, SeenInOrder, offset
    <3>2. ASSUME NEW i \in 1..Len(listing'.seen)
          PROVE  /\ listing'.seen[i] \in Hits(q)
                 /\ Cardinality(Above(q, listing'.seen[i])) = i - 1
      <4>1. CASE i <= offset
        <5>1. i \in 1..Len(listing.seen) /\ listing'.seen[i] = listing.seen[i]
          BY <1>3, <2>5, <2>8, <3>1, <4>1
        <5>2. QED
          BY <3>1, <5>1 DEF SeenInOrder
      <4>2. CASE i > offset
        <5>1. i - offset \in 1..Len(rows) /\ offset + (i - offset) = i
          BY <1>3, <2>8, <3>1, <4>2
        <5>2. i \in 1..n /\ answer[i - offset] = order[i]
          BY <1>3, <2>2, <5>1
        <5>3. listing'.seen[i] = order[i]
          BY <2>8, <3>1, <5>1, <5>2
        <5>4. QED
          BY <2>3, <5>2, <5>3
      <4>3. QED
        BY <1>3, <4>1, <4>2
    <3>3. listing'.phase # "done" => Len(listing'.seen) = listing'.page * q.size
      BY <2>7, <2>8, <3>1
    <3>4. QED
      BY <1>8, <2>4, <3>2, <3>3 DEF SeenInOrder
  <2>11. QED
    BY <2>9, <2>10
<1>13. PagesSoFar'
  <2>1. listing'.phase \notin {"count", "rows"}
    BY <1>8
  <2>2. Hits(listing.query)' = Hits(q)'
    BY <1>8 DEF Hits, Where, Latest, InIndex, Likes
  <2>3. QED
    BY <1>12, <2>1, <2>2 DEF PagesSoFar
<1>14. Len(listing'.rows) <= listing'.query.size
  BY <1>3, <1>8
<1>15. QED
  BY <1>8, <1>9, <1>10, <1>11, <1>13, <1>14 DEF SInv

-----------------------------------------------------------------------------
(* The steps of others.                                                    *)

LEMMA RenewedIs ==
  ASSUME LibraryOK, NEW row \in Row
  PROVE  Renewed(row) \in Row /\ Renewed(row).updated = Cardinality(Ids) + writes + 1
<1>1. Cardinality(Ids) + writes + 1 \in Nat
  BY LibraryAssumption, FS_CardinalityType DEF LibraryOK
<1>2. QED
  BY <1>1 DEF Renewed, Row

LEMMA CreateKeeps ==
  ASSUME SInv, NEW row \in New, CreatePrompt(row)
  PROVE  SInv'
<1>1. PICK id \in Ids \ DOMAIN prompts :
        Write(id, [i \in DOMAIN prompts \cup {id} |-> IF i = id THEN Renewed(row) ELSE prompts[i]])
  BY DEF CreatePrompt
<1> DEFINE rows == [i \in DOMAIN prompts \cup {id} |-> IF i = id THEN Renewed(row) ELSE prompts[i]]
<1>2. LibraryOK /\ row \in Row
  BY LibraryAssumption DEF SInv
<1>3. Renewed(row) \in Row /\ Renewed(row).updated = Cardinality(Ids) + writes + 1
  BY <1>2, RenewedIs
<1>4. Writes(id, rows)
  <2>1. DOMAIN rows = DOMAIN prompts \cup {id} /\ rows[id] = Renewed(row)
        /\ \A i \in DOMAIN prompts : i # id /\ rows[i] = prompts[i]
    OBVIOUS
  <2>2. rows \in [DOMAIN rows -> Row]
    BY <1>2, <1>3 DEF LibraryOK
  <2>3. DOMAIN rows \subseteq Ids
    BY <1>2 DEF LibraryOK
  <2> HIDE DEF rows
  <2>4. QED
    BY <1>3, <2>1, <2>2, <2>3 DEF Writes
<1>5. QED
  BY <1>1, <1>4, WriteKeeps

(* An edit of one row. *)
LEMMA EditKeeps ==
  ASSUME SInv, NEW id \in DOMAIN prompts, NEW row \in Row,
         Write(id, [prompts EXCEPT ![id] = row]),
         \/ row.updated = Cardinality(Ids) + writes + 1
         \/ row.updated = prompts[id].updated
  PROVE  SInv'
<1> DEFINE rows == [prompts EXCEPT ![id] = row]
<1>1. LibraryOK
  BY DEF SInv
<1>2. DOMAIN rows = DOMAIN prompts /\ rows[id] = row
      /\ \A i \in DOMAIN prompts : i # id => rows[i] = prompts[i]
  BY <1>1 DEF LibraryOK
<1>3. rows \in [DOMAIN rows -> Row] /\ DOMAIN rows \subseteq Ids
  BY <1>1 DEF LibraryOK
<1> HIDE DEF rows
<1>4. Writes(id, rows)
  BY <1>2, <1>3 DEF Writes
<1>5. QED
  BY <1>4, WriteKeeps DEF rows

LEMMA AddVersionKeeps ==
  ASSUME SInv, NEW id \in DOMAIN prompts, NEW version \in Edits, AddVersion(id, version)
  PROVE  SInv'
<1> DEFINE old == prompts[id]
           new == [old EXCEPT !.versions = Append(old.versions, version)]
<1>1. LibraryOK /\ old \in Row /\ version \in Version
  BY LibraryAssumption DEF SInv, LibraryOK
<1>2. new \in Row
  <2>1. old.versions \in Seq(Version)
    BY <1>1 DEF Row
  <2> DEFINE versions == Append(old.versions, version)
  <2>2. versions \in Seq(Version) /\ Len(versions) = Len(old.versions) + 1 /\ Len(old.versions) \in Nat
    BY <1>1, <2>1
  <2>3. Len(versions) # 0 /\ Len(<<>>) = 0
    BY <2>2
  <2> HIDE DEF versions, old
  <2>4. [old EXCEPT !.versions = versions] \in Row
    BY <1>1, <2>2, <2>3 DEF Row
  <2>5. QED
    BY <2>4 DEF versions
<1>3. Write(id, [prompts EXCEPT ![id] = Renewed(new)])
  BY DEF AddVersion
<1> HIDE DEF new
<1>4. Renewed(new) \in Row /\ Renewed(new).updated = Cardinality(Ids) + writes + 1
  BY <1>1, <1>2, RenewedIs
<1>5. QED
  BY <1>3, <1>4, EditKeeps

LEMMA TrashKeeps ==
  ASSUME SInv, NEW id \in DOMAIN prompts, NEW trashed \in BOOLEAN, SetTrashed(id, trashed)
  PROVE  SInv'
<1> DEFINE old == prompts[id]
           new == [old EXCEPT !.trashed = trashed]
<1>1. old \in Row
  BY DEF SInv, LibraryOK
<1>2. new \in Row /\ new.updated = old.updated
  BY <1>1 DEF Row
<1>3. Write(id, [prompts EXCEPT ![id] = new])
  BY DEF SetTrashed
<1> HIDE DEF new
<1>4. QED
  BY <1>2, <1>3, EditKeeps

LEMMA LabelsKeep ==
  ASSUME SInv, NEW id \in DOMAIN prompts, NEW labels \in SUBSET Known, SetLabels(id, labels)
  PROVE  SInv'
<1> DEFINE old == prompts[id]
           new == [old EXCEPT !.labels = labels]
<1>1. LibraryOK /\ old \in Row
  BY DEF SInv, LibraryOK
<1>2. new \in Row
  BY <1>1 DEF Row
<1>3. Write(id, [prompts EXCEPT ![id] = Renewed(new)])
  BY DEF SetLabels
<1> HIDE DEF new
<1>4. Renewed(new) \in Row /\ Renewed(new).updated = Cardinality(Ids) + writes + 1
  BY <1>1, <1>2, RenewedIs
<1>5. QED
  BY <1>3, <1>4, EditKeeps

LEMMA DeleteKeeps ==
  ASSUME SInv, NEW id \in DOMAIN prompts, PermanentlyDelete(id)
  PROVE  SInv'
<1> DEFINE rows == [i \in DOMAIN prompts \ {id} |-> prompts[i]]
<1>1. LibraryOK /\ Write(id, rows)
  BY DEF SInv, PermanentlyDelete
<1>2. Writes(id, rows)
  <2>1. DOMAIN rows = DOMAIN prompts \ {id} /\ \A i \in DOMAIN rows : rows[i] = prompts[i]
    OBVIOUS
  <2>2. rows \in [DOMAIN rows -> Row] /\ DOMAIN rows \subseteq Ids
    BY <1>1 DEF LibraryOK
  <2> HIDE DEF rows
  <2>3. QED
    BY <2>1, <2>2 DEF Writes
<1>3. QED
  BY <1>1, <1>2, WriteKeeps

LEMMA StepKeeps ==
  ASSUME SInv, [SearchNext]_searchVars
  PROVE  SInv'
<1>1. CASE \E q \in Queries : Ask(q)
  BY <1>1, AskKeeps
<1>2. CASE LookUp
  BY <1>2, LookUpKeeps
<1>3. CASE CountHits
  BY <1>3, CountKeeps
<1>4. CASE Select
  BY <1>4, SelectKeeps
<1>5. CASE \E row \in New : CreatePrompt(row)
  BY <1>5, CreateKeeps
<1>6. ASSUME NEW id \in DOMAIN prompts,
             \/ \E v \in Edits : AddVersion(id, v)
             \/ \E t \in BOOLEAN : SetTrashed(id, t)
             \/ \E labels \in SUBSET Known : SetLabels(id, labels)
             \/ PermanentlyDelete(id)
      PROVE  SInv'
  BY <1>6, AddVersionKeeps, TrashKeeps, LabelsKeep, DeleteKeeps
<1>7. CASE UNCHANGED searchVars
  <2>1. /\ Hits(listing.query)' = Hits(listing.query)
        /\ \A id : Above(listing.query, id)' = Above(listing.query, id)
    BY <1>7 DEF searchVars, Above, Hits, Where, Latest, InIndex, Likes
  <2>2. (\A id : Reached(id)' <=> Reached(id)) /\ (SeenInOrder' <=> SeenInOrder)
    BY <1>7, <2>1 DEF searchVars, Reached, SeenInOrder
  <2>3. Unfiltered' <=> Unfiltered
    BY <1>7 DEF searchVars, Unfiltered, TagIds, ByRelevance
  <2>4. PagesSoFar'
    BY <1>7, <2>1, <2>2, <2>3 DEF searchVars, SInv, PagesSoFar
  <2>5. LibraryOK' /\ NothingFound' /\ RoomIsUsed'
    BY <1>7 DEF searchVars, SInv, LibraryOK, NothingFound, RoomIsUsed
  <2>6. QED
    BY <1>7, <2>4, <2>5 DEF searchVars, SInv
<1>8. QED
  BY <1>1, <1>2, <1>3, <1>4, <1>5, <1>6, <1>7 DEF SearchNext

LEMMA SInvHolds == SearchSpec => []SInv
<1>1. SearchInit => SInv
  BY InitIs
<1>2. SInv /\ [SearchNext]_searchVars => SInv'
  BY StepKeeps
<1>3. QED
  BY <1>1, <1>2, PTL DEF SearchSpec

-----------------------------------------------------------------------------
(* What follows.                                                           *)

LEMMA InvImpliesTypes ==
  ASSUME SInv
  PROVE  SearchTypes
<1>1. /\ \A id \in DOMAIN prompts :
           /\ prompts[id] \in Row
           /\ \A i \in DOMAIN prompts : prompts[i].updated = prompts[id].updated => i = id
      /\ DOMAIN prompts \subseteq Ids
  BY DEF SInv, LibraryOK
<1>2. \A id \in DOMAIN prompts :
        /\ prompts[id].title \in Fields /\ prompts[id].labels \subseteq Known
        /\ prompts[id].versions # <<>>
  BY <1>1 DEF Row
<1>3. listing.phase \in {"none", "ask", "count", "rows", "done"} /\ listing.total \in Nat
  BY DEF SInv, Listings
<1>4. QED
  BY <1>1, <1>2, <1>3 DEF SInv, SearchTypes

LEMMA InvImpliesCover ==
  ASSUME SInv
  PROVE  PagesCover
<1>1. ASSUME listing.phase = "done", Unfiltered, ~left
      PROVE  Hits(listing.query) \ touched \subseteq ToSet(listing.seen)
  BY <1>1 DEF SInv, PagesSoFar, Reached
<1>2. ASSUME Unfiltered, touched = {}
      PROVE  IsInjective(listing.seen)
  <2>1. \A i \in 1..Len(listing.seen) : Cardinality(Above(listing.query, listing.seen[i])) = i - 1
    BY <1>2 DEF SInv, PagesSoFar, SeenInOrder
  <2>2. listing.seen \in Seq(Ids)
    BY DEF SInv, Listings
  <2>3. DOMAIN listing.seen = 1..Len(listing.seen) /\ Len(listing.seen) \in Nat
    BY <2>2
  <2>4. ASSUME NEW i \in 1..Len(listing.seen), NEW j \in 1..Len(listing.seen),
               listing.seen[i] = listing.seen[j]
        PROVE  i = j
    <3>1. i - 1 = j - 1
      BY <2>1, <2>4
    <3>2. QED
      BY <2>3, <3>1
  <2>5. QED
    BY <2>3, <2>4 DEF IsInjective
<1>3. QED
  BY <1>1, <1>2, InvImpliesTypes DEF PagesCover

LEMMA OccurrencesAre ==
  ASSUME NEW field
  PROVE  Occurrences(field) \in Nat
BY DEF Occurrences

(* The documented conditions are those of the statement on the latest      *)
(* version.                                                                *)
LEMMA WantedIs ==
  ASSUME NEW id, NEW q
  PROVE  Wanted(id, q) <=> Where(id, Latest(id), q)
<1> DEFINE title == prompts[id].title
           body == Latest(id).body
<1>1. Occurrences(title) + Occurrences(body) > 0
        <=> \E f \in {title, body} : Occurrences(f) > 0
  <2>1. Occurrences(title) \in Nat /\ Occurrences(body) \in Nat
    BY OccurrencesAre
  <2>2. Occurrences(title) + Occurrences(body) > 0
          <=> Occurrences(title) > 0 \/ Occurrences(body) > 0
    BY <2>1
  <2> HIDE DEF title, body
  <2>3. QED
    BY <2>2
<1>2. CASE indexed
  BY <1>2 DEF Wanted, Where, InIndex
<1>3. CASE ~indexed
  BY <1>1, <1>3 DEF Wanted, Where, Likes
<1>4. QED
  BY <1>2, <1>3

LEMMA ToldAreHits ==
  ASSUME LibraryOK, listing \in Listings, NEW order \in Orders(listing.query),
         NEW id \in ToSet(Told(order))
  PROVE  id \in Hits(listing.query) /\ (listing.allowed.is => id \in listing.allowed.ids)
<1> DEFINE q == listing.query
           H == Hits(q)
           A == IF listing.allowed.is THEN H \cap listing.allowed.ids ELSE H
           ids == IdsOf(Taken(order))
<1>1. q \in Asked
  BY DEF Listings
<1>2. order \in [1..Cardinality(H) -> H]
  BY OrderIs
<1>3. \A i \in 1..Len(Page(order)) : Page(order)[i].id \in H
  <2>1. \A i \in 1..Len(Page(order)) :
          LET offset == listing.page * q.size
          IN offset + i \in 1..Cardinality(H) /\ Page(order)[i].id = order[offset + i]
    BY PageHolds
  <2> HIDE DEF H
  <2>2. QED
    BY <1>2, <2>1
<1>4. Taken(order) \in Seq(Matched) /\ ToSet(Taken(order)) \subseteq ToSet(Page(order))
  BY TakenIs DEF Room
<1>5. ids \in Seq(H)
  <2>1. /\ ids \in Seq(Ids) /\ Len(ids) = Len(Taken(order))
        /\ \A i \in 1..Len(Taken(order)) : ids[i] = Taken(order)[i].id
    BY <1>4, IdsOfIs
  <2>2. \A i \in 1..Len(Taken(order)) : \E k \in 1..Len(Page(order)) : Taken(order)[i] = Page(order)[k]
    <3>1. TAKE i \in 1..Len(Taken(order))
    <3>2. Taken(order)[i] \in ToSet(Page(order))
      BY <1>4 DEF ToSet
    <3>3. QED
      BY <3>2 DEF ToSet
  <2> HIDE DEF ids, H
  <2>3. \A i \in 1..Len(ids) : ids[i] \in H
    BY <1>3, <2>1, <2>2
  <2>4. QED
    BY <2>1, <2>3
<1> HIDE DEF ids
<1>6. Filtered(ids) \in Seq(A)
  <2>1. CASE listing.allowed.is
    <3> DEFINE T == ToSet(ids) \cap listing.allowed.ids
    <3>1. Kept(ids, listing.allowed.ids) \in Seq(T)
      BY <1>5, KeptIs
    <3>2. T \subseteq A
      BY <1>5, <2>1 DEF ToSet
    <3>3. Filtered(ids) = Kept(ids, listing.allowed.ids)
      BY <2>1 DEF Filtered
    <3> HIDE DEF T, A
    <3>4. QED
      BY <3>1, <3>2, <3>3, SeqMonotonic
  <2>2. CASE ~listing.allowed.is
    BY <1>5, <2>2 DEF Filtered
  <2>3. QED
    BY <2>1, <2>2
<1> HIDE DEF A
<1>7. Shown(q, Filtered(ids)) \in Seq(A)
  BY <1>1, <1>6, ShownIs
<1>8. Told(order) \in Seq(A)
  BY <1>7 DEF Told, ids
<1>9. id \in A
  BY <1>8 DEF ToSet
<1>10. QED
  BY <1>9 DEF A

(* Pages cover: a client that lists by time, unfiltered by tags, and stops *)
(* at the first page that is not full has seen every prompt that nobody    *)
(* wrote to and that was there throughout, when none left the result; and  *)
(* no prompt twice when nobody writes.                                     *)
THEOREM PagesAlwaysCover == SearchSpec => []PagesCover
<1>1. SInv => PagesCover
  BY InvImpliesCover
<1>2. QED
  BY <1>1, SInvHolds, PTL

(* An advanced search never shows more than its limits, nothing that the   *)
(* page does not hold, and passes over nothing that had room.              *)
THEOREM RoomIsAlwaysUsed == SearchSpec => []RoomIsUsed
<1>1. SInv => RoomIsUsed
  BY DEF SInv
<1>2. QED
  BY <1>1, SInvHolds, PTL

(* Whatever the two statements of a search read and whatever is written    *)
(* before them, each prompt that is shown satisfies the query as it is     *)
(* documented, at the moment of the last statement.                        *)
THEOREM ShownAreWanted == SearchSpec => ShowsWanted
<1> DEFINE Shows == listing.phase = "rows" /\ listing'.phase # "rows" =>
                      \A id \in ToSet(listing'.answer) :
                        Wanted(id, listing.query)
                        /\ (listing.allowed.is => id \in listing.allowed.ids)
<1>1. ASSUME SInv, [SearchNext]_searchVars
      PROVE  [Shows]_searchVars
  <2>1. SUFFICES ASSUME SearchNext, listing.phase = "rows", listing'.phase # "rows",
                        NEW id \in ToSet(listing'.answer)
                 PROVE  Wanted(id, listing.query)
                        /\ (listing.allowed.is => id \in listing.allowed.ids)
    BY <1>1
  <2>2. Select
    BY <2>1 DEF SearchNext, Ask, LookUp, CountHits, CreatePrompt, AddVersion, SetTrashed,
                SetLabels, PermanentlyDelete, Write
  <2>3. LibraryOK /\ listing \in Listings
    BY <1>1 DEF SInv
  <2>4. PICK order \in Orders(listing.query) : listing'.answer = Told(order)
    <3>1. PICK order \in Orders(listing.query) :
            listing' = Answered([listing EXCEPT !.rows = Page(order), !.found = Taken(order)], Told(order),
                                IF listing.allowed.is THEN Len(Filtered(IdsOf(Taken(order))))
                                ELSE listing.total)
      BY <2>2, SelectIs
    <3> DEFINE l == [listing EXCEPT !.rows = Page(order), !.found = Taken(order)]
    <3>2. DOMAIN l = DOMAIN listing /\ "answer" \in DOMAIN listing
      BY <2>3 DEF Listings
    <3> HIDE DEF l
    <3>3. listing'.answer = Told(order)
      BY <3>1, <3>2 DEF Answered, l
    <3>4. QED
      BY <3>3
  <2>5. id \in Hits(listing.query) /\ (listing.allowed.is => id \in listing.allowed.ids)
    BY <2>1, <2>3, <2>4, ToldAreHits
  <2>6. QED
    BY <2>5, WantedIs DEF Hits
<1> HIDE DEF Shows
<1>2. SearchSpec => [][Shows]_searchVars
  BY <1>1, SInvHolds, PTL DEF SearchSpec
<1>3. QED
  BY <1>2 DEF ShowsWanted, Shows

(* The total that is announced is never less than what can be shown, and   *)
(* is exactly that when no format and no unindexed text is asked for.      *)
THEOREM TotalsCover == SearchSpec => TotalCovers
<1> DEFINE Covers == listing.phase = "count" /\ listing'.phase = "rows" => Counts
<1>1. ASSUME SInv, [SearchNext]_searchVars
      PROVE  [Covers]_searchVars
  <2> DEFINE q == listing.query
             wanted == {id \in DOMAIN prompts : Wanted(id, q)}
             counted == {id \in DOMAIN prompts :
                           \E v \in ToSet(prompts[id].versions) : Where(id, v, q)}
  <2>1. SUFFICES ASSUME SearchNext, listing.phase = "count", listing'.phase = "rows"
                 PROVE  /\ listing'.total >= Cardinality(wanted)
                        /\ q.formats = {} /\ (q.text => indexed) =>
                             listing'.total = Cardinality(wanted)
    BY <1>1 DEF Counts
  <2>2. CountHits
    BY <2>1 DEF SearchNext, Ask, LookUp, Select, CreatePrompt, AddVersion, SetTrashed,
                SetLabels, PermanentlyDelete, Write
  <2>3. LibraryOK /\ listing \in Listings
    BY <1>1 DEF SInv
  <2>4. listing'.total = Total(q)
    BY <2>2, <2>3 DEF CountHits, Listings
  <2>5. IsFiniteSet(counted) /\ Total(q) = Cardinality(counted) /\ Total(q) \in Nat
    BY <2>3, TotalIs
  <2>6. \A id \in DOMAIN prompts : Latest(id) \in ToSet(prompts[id].versions)
    <3>1. TAKE id \in DOMAIN prompts
    <3>2. prompts[id].versions \in Seq(Version) \ {<<>>}
      <4>1. prompts[id] \in Row
        BY <2>3 DEF LibraryOK
      <4>2. QED
        BY <4>1 DEF Row
    <3>3. Len(prompts[id].versions) \in 1..Len(prompts[id].versions)
      BY <3>2
    <3>4. QED
      BY <3>3 DEF Latest, Last, ToSet
  <2>7. wanted \subseteq counted
    BY <2>6, WantedIs
  <2>8. ASSUME q.formats = {}, q.text => indexed
        PROVE  counted \subseteq wanted
    <3>1. ASSUME NEW id, NEW v, Where(id, v, q)
          PROVE  Where(id, Latest(id), q)
      BY <2>8, <3>1 DEF Where
    <3>2. QED
      BY <3>1, WantedIs
  <2> HIDE DEF wanted, counted
  <2>9. Cardinality(wanted) <= Cardinality(counted) /\ Cardinality(wanted) \in Nat
    BY <2>5, <2>7, FS_Subset, FS_CardinalityType
  <2>10. QED
    BY <2>4, <2>5, <2>7, <2>8, <2>9
<1> HIDE DEF Covers
<1>2. SearchSpec => [][Covers]_searchVars
  BY <1>1, SInvHolds, PTL DEF SearchSpec
<1>3. QED
  BY <1>2 DEF TotalCovers, Covers

=============================================================================
