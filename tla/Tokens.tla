------------------------------- MODULE Tokens -------------------------------
(***************************************************************************)
(* The life of a token between 08-identity-provider/auth_server.py, which  *)
(* issues, verifies and revokes it, and middleware.py, by which another    *)
(* service asks /verify before it serves a request.  A call of the         *)
(* middleware and the server thread that answers it are two processes:     *)
(* the call gives up when httpx has waited too long, the thread does not.  *)
(*                                                                         *)
(* Revocations are in SQLite and tokens in the hands of their owners, so   *)
(* both outlive a restart of the provider.  told, began and barred are     *)
(* history, and outlive it too.                                            *)
(***************************************************************************)
EXTENDS Integers

CONSTANTS Call,       \* exchanges between a protected service and the provider
          Jti,        \* token identifiers
          Scope,
          Allowed,    \* IDP_SCOPES
          TTL,        \* IDP_TOKEN_TTL
          Patience,   \* the longest that the waits of one httpx request can last
          MaxClock    \* bound on the clock

ASSUME TokensAssumption ==
    Allowed \subseteq Scope /\ {TTL, Patience} \subseteq Nat \ {0} /\ MaxClock \in Nat

VARIABLES clock,
          exp,      \* the exp claim of each token issued; 0 before that
          scope,    \* its scope claim
          revoked,  \* the table revoked
          told,     \* when somebody first got the answer that it is revoked
          login,    \* stamps of the logins past the limiter
          pc,       \* the server thread of each call
          guard,    \* what the middleware has concluded
          tok,      \* the token presented
          need,     \* the scopes the protected route asks for
          answer,   \* the status of /verify
          began,    \* when the call was made
          barred    \* somebody had been told by then that its token is revoked

issuing == <<exp, scope, login>>
calls   == <<pc, guard, tok, need, answer, began, barred>>
vars    == <<clock, issuing, revoked, told, calls>>

Never == -1

Init ==
    /\ clock = 0
    /\ exp = [j \in Jti |-> 0]
    /\ scope = [j \in Jti |-> {}]
    /\ revoked = {}
    /\ told = [j \in Jti |-> Never]
    /\ login = {}
    /\ pc = [c \in Call |-> "idle"]
    /\ guard = [c \in Call |-> "none"]
    /\ tok \in [Call -> Jti]
    /\ need = [c \in Call |-> {}]
    /\ answer = [c \in Call |-> "none"]
    /\ began = [c \in Call |-> 0]
    /\ barred = [c \in Call |-> FALSE]

\* Mutant of Tick: the request to /verify has no timeout.
TickPast == /\ clock < MaxClock
            /\ clock' = clock + 1
            /\ UNCHANGED <<issuing, revoked, told, calls>>

\* No request outlives its timeouts.
Tick == /\ clock < MaxClock
        /\ \A c \in Call : guard[c] = "asking" => clock < began[c] + Patience
        /\ clock' = clock + 1
        /\ UNCHANGED <<issuing, revoked, told, calls>>

\* A login takes its stamp (LoginLimiter has the way in) ...
LoginBegins ==
    /\ login' = login \cup {clock}
    /\ UNCHANGED <<clock, exp, scope, revoked, told, calls>>
\* Mutant of LoginEnds: whatever scope is asked for is granted.
LoginEndsUnchecked(now, j, asked) ==
    /\ now \in login /\ exp[j] = 0
    /\ login' = login \ {now}
    /\ exp' = [exp EXCEPT ![j] = now + TTL]
    /\ scope' = [scope EXCEPT ![j] = asked]
    /\ UNCHANGED <<clock, revoked, told, calls>>

\* ... and with good credentials ends in a token with a fresh jti, for the
\* scopes asked for or all the account has; asking for more is answered 403.
LoginEnds(now, j, asked) ==
    /\ now \in login
    /\ login' = login \ {now}
    /\ IF asked \subseteq Allowed
         THEN /\ exp[j] = 0
              /\ exp' = [exp EXCEPT ![j] = now + TTL]
              /\ scope' = [scope EXCEPT ![j] = IF asked = {} THEN Allowed ELSE asked]
         ELSE UNCHANGED <<exp, scope>>
    /\ UNCHANGED <<clock, revoked, told, calls>>

\* A service receives a request with bearer token j for a route that needs some
\* scopes.  (Without a bearer it answers 401 and asks nobody.)
Ask(c, j, scopes) ==
    /\ guard[c] # "asking" /\ pc[c] = "idle"
    /\ exp[j] > 0
    /\ guard' = [guard EXCEPT ![c] = "asking"]
    /\ pc' = [pc EXCEPT ![c] = "decode"]
    /\ tok' = [tok EXCEPT ![c] = j]
    /\ need' = [need EXCEPT ![c] = scopes]
    /\ answer' = [answer EXCEPT ![c] = "none"]
    /\ began' = [began EXCEPT ![c] = clock]
    /\ barred' = [barred EXCEPT ![c] = told[j] # Never]
    /\ UNCHANGED <<clock, issuing, revoked, told>>

Answers(c, status) ==
    /\ pc' = [pc EXCEPT ![c] = "answered"]
    /\ answer' = [answer EXCEPT ![c] = status]
\* Mutant of Decode: exp is not required.
DecodeUndated(c) ==
    /\ pc[c] = "decode"
    /\ pc' = [pc EXCEPT ![c] = "lookup"]
    /\ UNCHANGED <<clock, issuing, revoked, told, guard, tok, need, answer, began, barred>>

\* Signature and claims first: jwt.decode compares exp with the clock ...
Decode(c) ==
    /\ pc[c] = "decode"
    /\ IF clock < exp[tok[c]] THEN pc' = [pc EXCEPT ![c] = "lookup"] /\ UNCHANGED answer
                              ELSE Answers(c, "401")
    /\ UNCHANGED <<clock, issuing, revoked, told, guard, tok, need, began, barred>>

\* ... then the table of revocations, then the scopes.
Lookup(c) ==
    /\ pc[c] = "lookup"
    /\ Answers(c, IF tok[c] \in revoked THEN "401"
                  ELSE IF need[c] \subseteq scope[tok[c]] THEN "active" ELSE "403")
    /\ UNCHANGED <<clock, issuing, revoked, told, guard, tok, need, began, barred>>

\* A database error is not among the handled ones.
LookupFails(c) ==
    /\ pc[c] = "lookup"
    /\ Answers(c, "500")
    /\ UNCHANGED <<clock, issuing, revoked, told, guard, tok, need, began, barred>>

\* The middleware reads the answer; anything but a clear yes or no is a 503.
Deliver(c) ==
    /\ guard[c] = "asking" /\ pc[c] = "answered"
    /\ guard' = [guard EXCEPT ![c] =
                    IF answer[c] = "active" /\ need[c] \subseteq scope[tok[c]] THEN "granted"
                    ELSE IF answer[c] \in {"401", "403"} THEN answer[c] ELSE "503"]
    /\ pc' = [pc EXCEPT ![c] = "idle"]
    /\ UNCHANGED <<clock, issuing, revoked, told, tok, need, answer, began, barred>>

\* No answer in time, or no connection at all.
TimesOut(c) ==
    /\ guard[c] = "asking"
    /\ guard' = [guard EXCEPT ![c] = "503"]
    /\ UNCHANGED <<clock, issuing, revoked, told, pc, tok, need, answer, began, barred>>

\* The answer to a call that gave up is dropped with its connection.
Drop(c) ==
    /\ guard[c] # "asking" /\ pc[c] = "answered"
    /\ pc' = [pc EXCEPT ![c] = "idle"]
    /\ UNCHANGED <<clock, issuing, revoked, told, guard, tok, need, answer, began, barred>>

Heard(j) == [told EXCEPT ![j] = IF @ = Never THEN clock ELSE @]

\* POST /revoke with the administrator's token: INSERT OR IGNORE of any jti.  The
\* answer may be lost on its way.
Revoke(j) ==
    /\ revoked' = revoked \cup {j}
    /\ told' \in {told, Heard(j)}
    /\ UNCHANGED <<clock, issuing, calls>>

\* Mutant of Restart: the table is in memory.
RestartForgets ==
    /\ pc' = [c \in Call |-> "idle"]
    /\ guard' = [c \in Call |-> IF guard[c] = "asking" THEN "503" ELSE guard[c]]
    /\ login' = {} /\ revoked' = {}
    /\ UNCHANGED <<clock, exp, scope, told, tok, need, answer, began, barred>>

\* The provider stops and starts: its threads are gone, the callers notice.
Restart ==
    /\ pc' = [c \in Call |-> "idle"]
    /\ guard' = [c \in Call |-> IF guard[c] = "asking" THEN "503" ELSE guard[c]]
    /\ login' = {}
    /\ UNCHANGED <<clock, exp, scope, revoked, told, tok, need, answer, began, barred>>

Handle(c) == Decode(c) \/ Lookup(c) \/ LookupFails(c) \/ Deliver(c) \/ TimesOut(c) \/ Drop(c)

Provider ==
    \/ Tick \/ Restart \/ LoginBegins
    \/ \E now \in login, j \in Jti, asked \in SUBSET Scope : LoginEnds(now, j, asked)
    \/ \E c \in Call : Handle(c) \/ \E j \in Jti, s \in SUBSET Scope : Ask(c, j, s)

Next == Provider \/ \E j \in Jti : Revoke(j)

Spec == Init /\ [][Next]_vars

-----------------------------------------------------------------------------
TypeOK ==
    /\ clock \in 0..MaxClock
    /\ exp \in [Jti -> 0..MaxClock + TTL]
    /\ scope \in [Jti -> SUBSET Allowed]
    /\ revoked \subseteq Jti
    /\ told \in [Jti -> Never..MaxClock]
    /\ login \subseteq 0..MaxClock
    /\ pc \in [Call -> {"idle", "decode", "lookup", "answered"}]
    /\ guard \in [Call -> {"none", "asking", "granted", "401", "403", "503"}]
    /\ tok \in [Call -> Jti]
    /\ need \in [Call -> SUBSET Scope]
    /\ answer \in [Call -> {"none", "active", "401", "403", "500"}]
    /\ began \in [Call -> 0..MaxClock]
    /\ barred \in [Call -> BOOLEAN]

\* A request made after somebody was told that its token is revoked is not granted,
\* through restarts of the provider, slow answers and calls that gave up
\* (middleware.py:1, auth_server.py:67-69, 121).
RevocationHolds == \A c \in Call : guard[c] = "granted" => ~barred[c]

\* Every grant is for a token that was alive when the service asked, carried the
\* scopes the route needs and got them from the account: an outage or an error
\* never opens a route (middleware.py:18-27).
GrantsDeserved ==
    \A c \in Call : guard[c] = "granted" =>
        /\ began[c] < exp[tok[c]]
        /\ need[c] \subseteq scope[tok[c]] \cap Allowed

\* A route is opened no later than Patience after somebody was told that the token
\* is revoked, and sooner than that after it expired: a yes that the provider gave
\* before does not stay good (middleware.py:14-27, auth_server.py:61-69, 121).
RevocationTakesHold ==
    [][\A c \in Call : guard[c] # "granted" /\ guard'[c] = "granted" =>
          /\ told[tok[c]] # Never => clock <= told[tok[c]] + Patience
          /\ clock < exp[tok[c]] + Patience]_vars

=============================================================================
