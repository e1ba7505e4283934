------------------------------ MODULE HttpServer ------------------------------
(***************************************************************************)
(* The HTTP server (server-internal.ts): the chain of middleware that a    *)
(* request passes, with its rate limiters, its authentication and its      *)
(* audit log, and the life of the process from listening to its end.       *)
(*                                                                         *)
(* A request is pending while it arrives: from the opening of its          *)
(* connection, or from its first byte on one that was kept alive, to the   *)
(* end of its body.  Once it is there, the chain and the handler run       *)
(* without giving way: what they await has been settled already            *)
(* (better-sqlite3 and the sidecar are synchronous), so that neither a     *)
(* timer nor a signal nor another request comes between.                   *)
(*                                                                         *)
(* Abstractions: a token is its claims, as its signature can only be made  *)
(* with the secret; time is counted in units of the clock skew allowed;    *)
(* keys are all one key; bodies, headers and answers are their status.     *)
(***************************************************************************)
EXTENDS Integers, Sequences, FiniteSets, SequencesExt, FiniteSetsExt

CONSTANTS
  Clients, LocalClients,   \* addresses, and those of this machine
  RequireAuth, LocalhostOnly, HasSecret, RateLimitEnabled,
  MaxApi, MaxAuth,         \* requests per window of /api and /logs, and of /auth
  WindowLength, TokenTtl, Skew, CleanUpEvery,
  ForeignTokens,           \* tokens made elsewhere with the same secret
  MaxEvents,               \* length of the audit log
  MaxClock, MaxArrivals, MaxPending  \* bounds

ASSUME ConfigAssumption ==
  /\ MaxApi \in Nat /\ MaxAuth \in Nat /\ WindowLength \in Nat \ {0}
  /\ TokenTtl \in Nat /\ Skew \in Nat /\ MaxEvents \in Nat \ {0}
  /\ MaxClock \in Nat /\ LocalClients \subseteq Clients

VARIABLES
  now,
  windows,    \* [limiter, client] -> the entry of the store, if there is one
  tokens,     \* tokens issued
  audit,      \* the events held in memory
  pending,    \* requests that are arriving
  arrivals,
  listening, databaseOpen, readiness, handlersOn,
  closing,    \* how far closeServerResources has come
  connected,  \* clients with a connection that server.close waits for
  ended,      \* how the process ended
  admitted,   \* ghost: when a limiter let a request pass
  served,     \* ghost: what handlers wrote and issued, in order, or did without a database
  dropped     \* ghost: requests cut off by the end of the process

state == <<listening, databaseOpen, readiness, handlersOn, closing, connected, ended, dropped>>
vars == <<now, windows, tokens, audit, pending, arrivals, state, admitted, served>>

Limiters == {"api", "auth", "logs"}
NoEntry == [count |-> 0, resetAt |-> -1]
Unsafe == {"write prompts", "write other"}
Kinds == Unsafe \cup {"read", "token", "logs"}
Credential(kind, iat, exp, scopes) == [kind |-> kind, iat |-> iat, exp |-> exp, scopes |-> scopes]
Token(iat, exp, scopes) == Credential("token", iat, exp, scopes)
NoCredential == Credential("none", 0, 0, {})
Key == Credential("key", 0, 0, {})

LimiterOf(kind) == CASE kind = "token" -> "auth" [] kind = "logs" -> "logs" [] OTHER -> "api"
MaxOf(limiter) == IF limiter = "auth" THEN MaxAuth ELSE MaxApi

-----------------------------------------------------------------------------
(* rate-limit.ts: a fixed window.  Blocked requests count too. *)

(* Fault: the beginning of a window is taken for its end. *)
ExpiredAtStart(entry) == entry = NoEntry \/ entry.resetAt - WindowLength <= now

Expired(entry) == entry = NoEntry \/ entry.resetAt < now

Counted(entry) ==
  IF Expired(entry) THEN [count |-> 1, resetAt |-> now + WindowLength]
  ELSE [entry EXCEPT !.count = @ + 1]

(* A new window lets its first request pass, whatever the maximum. *)
Passes(limiter, entry) == Expired(entry) \/ Counted(entry).count <= MaxOf(limiter)

Limited(limiter) == limiter = "auth" \/ RateLimitEnabled

CleanUp ==
  /\ now % CleanUpEvery = 0
  /\ windows' = [w \in DOMAIN windows |->
                   IF windows[w].resetAt < now THEN NoEntry ELSE windows[w]]
  /\ windows' # windows
  /\ ended = "no"
  /\ UNCHANGED <<now, tokens, audit, pending, arrivals, state, admitted, served>>

-----------------------------------------------------------------------------
(* auth.ts *)

ValidateApiKey(credential) == credential = Key

(* generateToken and POST /token: only with a key, and only with a secret. *)
IssuedToken == Token(now, now + TokenTtl, {"read", "write"})

(* Fault: the lifetime of a token is not looked at. *)
VerifyTokenForever(credential) == HasSecret /\ credential \in tokens \cup ForeignTokens

VerifyToken(credential) ==
  /\ HasSecret
  /\ credential \in tokens \cup ForeignTokens
  /\ credential.exp > credential.iat
  /\ credential.iat <= now + Skew
  /\ credential.exp > now - Skew

RequiredScopes(kind, requireAuth) ==
  IF kind \in Unsafe THEN {"write"} ELSE IF requireAuth THEN {"read"} ELSE {}

(* A key has every scope. *)
Authenticated(kind, credential, requireAuth) ==
  \/ ValidateApiKey(credential)
  \/ VerifyToken(credential) /\ RequiredScopes(kind, requireAuth) \subseteq credential.scopes

AuthStatus(r, requireAuth) ==
  IF LocalhostOnly /\ r.client \notin LocalClients THEN 403
  ELSE IF (requireAuth \/ r.kind \in Unsafe)
          /\ ~Authenticated(r.kind, r.credential, requireAuth) THEN 401
  ELSE 200

-----------------------------------------------------------------------------
(* audit.ts *)

(* Fault: a log that is full takes no more. *)
LogWhileRoom(event) == IF Len(audit) >= MaxEvents THEN audit ELSE Append(audit, event)

Log(event) ==
  IF Len(audit) >= MaxEvents THEN Append(Tail(audit), event) ELSE Append(audit, event)

(* createAutoAuditMiddleware knows the routes of /prompts only; a snapshot, *)
(* a restore or an import of a bundle of another path has no action.        *)
AuditAction(kind) == kind = "write prompts"

AuditResult(status) ==
  IF status = 200 THEN "success" ELSE IF status \in {401, 403} THEN "denied" ELSE "failure"

GetEvents(limit) == SubSeq(audit, Max({1, Len(audit) - limit + 1}), Len(audit))

-----------------------------------------------------------------------------
(* The chain of a request.  `/logs' authenticates first, the others count  *)
(* first; `/auth' does not authenticate.                                   *)

(* A server that closes takes no new connection, and still serves the ones *)
(* that it waits for.                                                      *)
Arrive(client, kind, credential) ==
  /\ (listening \/ client \in connected) /\ ended = "no"
  /\ arrivals < MaxArrivals /\ arrivals' = arrivals + 1
  /\ Cardinality(pending) < MaxPending
  /\ pending' = pending \cup {[client |-> client, kind |-> kind, credential |-> credential]}
  /\ UNCHANGED <<now, windows, tokens, audit, state, admitted, served>>

(* The client goes away, or its time is up while the server listens: the   *)
(* limit on the time of a request is no longer looked at once it closes.   *)
Abandon(r) ==
  /\ ended = "no"
  /\ pending' = pending \ {r}
  /\ UNCHANGED <<now, windows, tokens, audit, arrivals, state, admitted, served>>

Count(r) ==
  LET w == <<LimiterOf(r.kind), r.client>>
  IN IF Limited(w[1])
     THEN /\ windows' = [windows EXCEPT ![w] = Counted(@)]
          /\ admitted' = IF Passes(w[1], windows[w])
                         THEN [admitted EXCEPT ![w] = Append(@, now)] ELSE admitted
     ELSE UNCHANGED <<windows, admitted>>

LimitStatus(r) ==
  LET w == <<LimiterOf(r.kind), r.client>>
  IN IF Limited(w[1]) /\ ~Passes(w[1], windows[w]) THEN 429 ELSE 200

Takes(r) == ended = "no" /\ r \in pending /\ pending' = pending \ {r}
Serve(r, status) ==
  served' = IF r.kind \in {"read", "logs"} /\ databaseOpen THEN served
            ELSE Append(served, [kind |-> r.kind, credential |-> r.credential, at |-> now,
                                 status |-> status, database |-> databaseOpen])
NotServed == UNCHANGED <<tokens, audit, served>>

(* A handler answers 200, or an error of the service or of validation. *)
HandleApi(r) ==
  /\ Takes(r) /\ r.kind \in Unsafe \cup {"read"}
  /\ Count(r)
  /\ IF LimitStatus(r) # 200 \/ AuthStatus(r, RequireAuth) # 200 THEN NotServed
     ELSE \E status \in {200, 400} :
            /\ Serve(r, status)
            /\ audit' = IF AuditAction(r.kind)
                        THEN Log([kind |-> r.kind, at |-> now, result |-> AuditResult(status)])
                        ELSE audit
            /\ UNCHANGED tokens
  /\ UNCHANGED <<now, arrivals, state>>

HandleToken(r) ==
  /\ Takes(r) /\ r.kind = "token"
  /\ Count(r)
  /\ IF LimitStatus(r) = 200 /\ ValidateApiKey(r.credential) /\ HasSecret
     THEN tokens' = tokens \cup {IssuedToken} /\ Serve(r, 200)
     ELSE UNCHANGED <<tokens, served>>
  /\ UNCHANGED <<now, audit, arrivals, state>>

HandleLogs(r) ==
  /\ Takes(r) /\ r.kind = "logs"
  /\ IF AuthStatus(r, TRUE) # 200 THEN UNCHANGED <<windows, admitted, served>>
     ELSE /\ Count(r)
          /\ IF LimitStatus(r) = 200 THEN Serve(r, 200) ELSE UNCHANGED served
  /\ UNCHANGED <<now, tokens, audit, arrivals, state>>

Tick ==
  /\ ended = "no" /\ now < MaxClock /\ now' = now + 1
  /\ UNCHANGED <<windows, tokens, audit, pending, arrivals, state, admitted, served>>

-----------------------------------------------------------------------------
(* The life of the process. *)

Work == <<now, windows, tokens, audit, pending, arrivals, admitted, served>>

Listen ==
  /\ closing = "no" /\ ~listening /\ readiness = "initialising"
  /\ listening' = TRUE /\ readiness' = "ok"
  /\ UNCHANGED <<databaseOpen, handlersOn, closing, connected, ended, dropped>>
  /\ UNCHANGED Work

(* server.close drops the connections that are idle. *)
Connected == IF listening THEN {r.client : r \in pending} ELSE connected

(* Fault: the database is closed before the connections are. *)
CloseDatabaseFirst ==
  /\ closing = "no" /\ handlersOn
  /\ closing' = IF listening THEN "connections" ELSE "telemetry"
  /\ databaseOpen' = FALSE /\ connected' = Connected
  /\ handlersOn' = FALSE /\ readiness' = "shutdown" /\ listening' = FALSE
  /\ UNCHANGED <<ended, dropped>> /\ UNCHANGED Work

(* A signal, an uncaught exception, a rejection that nobody handles, or a   *)
(* port that is taken: closeServerResources begins.                         *)
BeginClose ==
  /\ closing = "no" /\ handlersOn
  /\ closing' = IF listening THEN "connections" ELSE "database"
  /\ connected' = Connected
  /\ handlersOn' = FALSE /\ readiness' = "shutdown" /\ listening' = FALSE
  /\ UNCHANGED <<databaseOpen, ended, dropped>> /\ UNCHANGED Work

(* With its handlers taken off, the process dies of the next one. *)
DieOfSecond ==
  /\ ended = "no" /\ ~handlersOn
  /\ ended' = "killed" /\ dropped' = pending
  /\ UNCHANGED <<listening, databaseOpen, readiness, handlersOn, closing, connected>>
  /\ UNCHANGED Work

(* A connection without a request ends: the client leaves, or it has been  *)
(* idle for longer than keepAliveTimeout.                                  *)
HangUp(client) ==
  /\ client \in connected /\ ended = "no"
  /\ \A r \in pending : r.client # client
  /\ connected' = connected \ {client}
  /\ UNCHANGED <<listening, databaseOpen, readiness, handlersOn, closing, ended, dropped>>
  /\ UNCHANGED Work

(* Fault: only the end of a request counts as the end of a connection. *)
ConnectionsClosedIfServed ==
  /\ closing = "connections" /\ connected = {} /\ arrivals > 0 /\ ended = "no"
  /\ closing' = "database"
  /\ UNCHANGED <<listening, databaseOpen, readiness, handlersOn, connected, ended, dropped>>
  /\ UNCHANGED Work

(* server.close calls back when the last connection has ended. *)
ConnectionsClosed ==
  /\ closing = "connections" /\ connected = {} /\ ended = "no"
  /\ closing' = "database"
  /\ UNCHANGED <<listening, databaseOpen, readiness, handlersOn, connected, ended, dropped>>
  /\ UNCHANGED Work

CloseDatabase ==
  /\ closing = "database" /\ ended = "no"
  /\ closing' = "telemetry" /\ databaseOpen' = FALSE
  /\ UNCHANGED <<listening, readiness, handlersOn, connected, ended, dropped>> /\ UNCHANGED Work

(* observability.shutdown, then process.exit *)
Exit ==
  /\ closing = "telemetry" /\ ended = "no"
  /\ ended' = "exit" /\ dropped' = pending
  /\ UNCHANGED <<listening, databaseOpen, readiness, handlersOn, closing, connected>>
  /\ UNCHANGED Work

(* healthServer.ts and createObservabilityRouter.ts *)
ReadyStatus == IF readiness = "ok" THEN 200 ELSE 503

-----------------------------------------------------------------------------
Init ==
  /\ now = 0 /\ windows = [w \in Limiters \X Clients |-> NoEntry]
  /\ tokens = {} /\ audit = <<>> /\ pending = {} /\ arrivals = 0
  /\ listening = FALSE /\ databaseOpen = TRUE /\ readiness = "initialising"
  /\ handlersOn = TRUE /\ closing = "no" /\ connected = {} /\ ended = "no"
  /\ admitted = [w \in Limiters \X Clients |-> <<>>] /\ served = <<>> /\ dropped = {}

Credentials == {NoCredential, Key} \cup tokens \cup ForeignTokens

Handle == \E r \in pending : HandleApi(r) \/ HandleToken(r) \/ HandleLogs(r)

Next ==
  \/ \E c \in Clients, k \in Kinds, x \in Credentials : Arrive(c, k, x)
  \/ \E r \in pending : Abandon(r)
  \/ Handle \/ CleanUp \/ Tick
  \/ Listen \/ BeginClose \/ DieOfSecond
  \/ \E c \in Clients : HangUp(c)
  \/ ConnectionsClosed \/ CloseDatabase \/ Exit

(* Node drops a connection that stays idle, and runs the callbacks that are *)
(* due.  Nothing makes a request arrive to its end.                         *)
Fairness ==
  /\ \A c \in Clients : WF_vars(HangUp(c))
  /\ WF_vars(ConnectionsClosed) /\ WF_vars(CloseDatabase) /\ WF_vars(Exit)

Spec == Init /\ [][Next]_vars /\ Fairness

-----------------------------------------------------------------------------
TypeOK ==
  /\ now \in 0..MaxClock
  /\ \A w \in DOMAIN windows : windows[w].count \in Nat /\ windows[w].resetAt \in -1..(MaxClock + WindowLength)
  /\ \A t \in tokens : t.exp = t.iat + TokenTtl
  /\ Len(audit) <= MaxEvents
  /\ readiness \in {"initialising", "ok", "shutdown"}
  /\ closing \in {"no", "connections", "database", "telemetry"}
  /\ connected \subseteq Clients
  /\ ended \in {"no", "exit", "killed"}

Passed(w, from, to) ==
  Cardinality({i \in DOMAIN admitted[w] : from <= admitted[w][i] /\ admitted[w][i] < to})

(* A new window lets its first request pass even if none is allowed. *)
Allowed(limiter) == IF MaxOf(limiter) = 0 THEN 1 ELSE MaxOf(limiter)

(* A fixed window lets pass, in any stretch of its own length, at most what   *)
(* two windows allow, in spite of the timer that takes entries away and of    *)
(* the requests that are blocked and counted all the same.                    *)
TwiceAtMost ==
  \A w \in Limiters \X Clients, t \in 0..MaxClock :
    Passed(w, t, t + WindowLength) <= 2 * Allowed(w[1])

(* Nothing is written for somebody who neither holds the key nor got a token  *)
(* with it, or from the holder of the secret, no longer ago than the lifetime *)
(* of a token and the skew allowed.                                           *)
WritersHoldTheKey ==
  \A i \in DOMAIN served :
    served[i].kind \in Unsafe =>
      \/ served[i].credential = Key
      \/ /\ served[i].credential \in tokens
         /\ served[i].at - served[i].credential.iat < TokenTtl + Skew
         /\ \E j \in 1..(i - 1) :
              served[j].kind = "token" /\ served[j].at = served[i].credential.iat
      \/ served[i].credential \in ForeignTokens /\ "write" \in served[i].credential.scopes

(* The audit log holds the newest changes of prompts, as many as there were or *)
(* as it has room for, each one once and in the order in which they were       *)
(* answered, and none that was turned away.                                    *)
AuditIsNewest ==
  LET changes == {i \in DOMAIN served : served[i].kind = "write prompts"}
      Since(i) == Cardinality({j \in changes : j > i})
  IN /\ Len(audit) = IF Cardinality(changes) < MaxEvents THEN Cardinality(changes) ELSE MaxEvents
     /\ \A i \in changes : Since(i) < Len(audit) =>
          LET event == audit[Len(audit) - Since(i)]
          IN event.at = served[i].at /\ (event.result = "success") = (served[i].status = 200)

(* While it says that it is ready, the server accepts requests and has its     *)
(* database; no handler ever runs without one; and the end that the server     *)
(* chooses itself cuts off no request and leaves no database open.             *)
ClosesInOrder ==
  /\ TypeOK
  /\ ReadyStatus = 200 => listening /\ databaseOpen
  /\ \A i \in DOMAIN served : served[i].database
  /\ ended = "exit" => ~databaseOpen /\ dropped = {}

(* The first signal ends the process, unless the clients that the server    *)
(* waits for never leave off: one that stalls its request, or sends another *)
(* one each time, keeps the process from its end.                           *)
CloseEnds == <>[](pending = {}) => (closing # "no" ~> ended # "no")

=============================================================================
