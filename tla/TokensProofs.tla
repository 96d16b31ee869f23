---------------------------- MODULE TokensProofs ----------------------------
(***************************************************************************)
(* Tokens, for any tokens, scopes and number of calls: the types, and the  *)
(* promises of the middleware.  None of them is inductive: between the     *)
(* lookup and the answer the yes is on its way (OnItsWay), what has been   *)
(* checked by then must still hold of the token (Checked), and the answer  *)
(* must not be too old when it comes (InTime, ToldAfter).  Then Response:  *)
(* the same provider beside the webhook that revokes.                      *)
(***************************************************************************)
EXTENDS Response, TLAPS

\* Nobody is told of a revocation that is not in the table, nor forgets it.
ToldIsRevoked == \A j \in Jti : told[j] # Never => j \in revoked
BarredIsTold  == \A c \in Call : barred[c] => told[tok[c]] # Never

\* A call that waits has not waited too long, and if its token was not known to be
\* revoked when it began, whoever learnt it since learnt it later.
InTime == \A c \in Call : guard[c] = "asking" => clock <= began[c] + Patience
ToldAfter ==
    \A c \in Call : guard[c] = "asking" /\ ~barred[c] /\ told[tok[c]] # Never =>
        began[c] <= told[tok[c]]

\* After jwt.decode the token was alive when the call was made.
Checked ==
    \A c \in Call : /\ began[c] <= clock
                    /\ pc[c] = "lookup" => began[c] < exp[tok[c]]

\* A yes on its way to the middleware is deserved.
OnItsWay ==
    \A c \in Call : pc[c] = "answered" /\ answer[c] = "active" =>
        /\ ~barred[c]
        /\ began[c] < exp[tok[c]]
        /\ need[c] \subseteq scope[tok[c]]

IInv == /\ TypeOK /\ RevocationHolds /\ GrantsDeserved
        /\ ToldIsRevoked /\ BarredIsTold /\ InTime /\ ToldAfter /\ Checked /\ OnItsWay

-----------------------------------------------------------------------------
\* The initial states satisfy the invariant.
LEMMA InitEstablishes == Init => IInv
BY TokensAssumption DEF Init, IInv, TypeOK, RevocationHolds, GrantsDeserved,
      ToldIsRevoked, BarredIsTold, InTime, ToldAfter, Checked, OnItsWay, Never

\* An action that leaves the calls alone and lets no token lose anything.
LEMMA Around ==
    ASSUME IInv, UNCHANGED calls, TypeOK', clock <= clock',
           InTime', ToldIsRevoked',
           \A j \in Jti : told'[j] = told[j] \/ (told[j] = Never /\ told'[j] = clock'),
           \A j \in Jti : exp[j] > 0 => exp'[j] = exp[j] /\ scope'[j] = scope[j]
    PROVE  IInv'
<1>1. \A c \in Call : began[c] < exp[tok[c]] =>
          exp'[tok[c]] = exp[tok[c]] /\ scope'[tok[c]] = scope[tok[c]]
  BY TokensAssumption DEF IInv, TypeOK
<1>2. RevocationHolds' /\ BarredIsTold' /\ ToldAfter'
  <2>1. RevocationHolds'
    BY DEF IInv, calls, RevocationHolds
  <2>2. ASSUME NEW c \in Call
        PROVE  /\ tok'[c] = tok[c] /\ tok[c] \in Jti /\ UNCHANGED <<barred, guard, began>>
               /\ began[c] \in Nat /\ began[c] <= clock'
    BY TokensAssumption DEF IInv, TypeOK, calls, Checked
  <2>3. BarredIsTold'
    BY <2>2 DEF IInv, BarredIsTold
  <2>4. ToldAfter'
    BY <2>2 DEF IInv, ToldAfter
  <2> QED BY <2>1, <2>3, <2>4
<1>3. Checked'
  BY <1>1, TokensAssumption DEF IInv, TypeOK, calls, Checked
<1>4. GrantsDeserved' /\ OnItsWay'
  BY <1>1 DEF IInv, calls, GrantsDeserved, OnItsWay
<1> QED BY <1>2, <1>3, <1>4 DEF IInv

\* Every variable keeps its type.
LEMMA TypeStep == TypeOK /\ [Next]_vars => TypeOK'
<1> SUFFICES ASSUME TypeOK, [Next]_vars PROVE TypeOK'
  OBVIOUS
<1> USE TokensAssumption
<1>1. CASE Tick
  BY <1>1 DEF TypeOK, Tick, issuing, calls
<1>2. CASE Restart
  BY <1>2 DEF TypeOK, Restart
<1>3. CASE LoginBegins
  BY <1>3 DEF TypeOK, LoginBegins, calls
<1>4. ASSUME NEW now \in login, NEW j \in Jti, NEW asked \in SUBSET Scope,
             LoginEnds(now, j, asked)
      PROVE  TypeOK'
  <2>1. login' \subseteq 0..MaxClock /\ UNCHANGED <<clock, revoked, told, calls>>
    BY <1>4 DEF TypeOK, LoginEnds
  <2>2. exp' \in [Jti -> 0..MaxClock + TTL]
    <3>1. now + TTL \in 0..MaxClock + TTL
      BY DEF TypeOK
    <3> QED BY <1>4, <3>1 DEF TypeOK, LoginEnds
  <2>3. scope' \in [Jti -> SUBSET Allowed]
    BY <1>4 DEF TypeOK, LoginEnds
  <2> QED BY <2>1, <2>2, <2>3 DEF TypeOK, calls
<1>5. ASSUME NEW c \in Call, Handle(c) PROVE TypeOK'
  <2>1. CASE Decode(c)
    BY <2>1 DEF TypeOK, Decode, Answers, issuing
  <2>2. CASE Lookup(c)
    BY <2>2 DEF TypeOK, Lookup, Answers, issuing
  <2>3. CASE LookupFails(c)
    BY <2>3 DEF TypeOK, LookupFails, Answers, issuing
  <2>4. CASE Deliver(c)
    BY <2>4 DEF TypeOK, Deliver, issuing
  <2>5. CASE TimesOut(c)
    BY <2>5 DEF TypeOK, TimesOut, issuing
  <2>6. CASE Drop(c)
    BY <2>6 DEF TypeOK, Drop, issuing
  <2> QED BY <1>5, <2>1, <2>2, <2>3, <2>4, <2>5, <2>6 DEF Handle
<1>6. ASSUME NEW c \in Call, NEW j \in Jti, NEW s \in SUBSET Scope, Ask(c, j, s)
      PROVE  TypeOK'
  BY <1>6 DEF TypeOK, Ask, issuing
<1>7. ASSUME NEW j \in Jti, Revoke(j) PROVE TypeOK'
  BY <1>7 DEF TypeOK, Revoke, Heard, Never, issuing, calls
<1>8. CASE UNCHANGED vars
  BY <1>8 DEF TypeOK, vars, issuing, calls
<1> QED BY <1>1, <1>2, <1>3, <1>4, <1>5, <1>6, <1>7, <1>8 DEF Next, Provider

\* One call at a time moves; a grant was a yes on its way, and a yes was checked.
LEMMA CallStep ==
    ASSUME IInv, TypeOK', NEW c \in Call, Handle(c) PROVE IInv'
<1> USE DEF IInv, TypeOK
<1>1. CASE Decode(c)
  BY <1>1 DEF Decode, Answers, issuing, RevocationHolds, GrantsDeserved,
      ToldIsRevoked, BarredIsTold, InTime, ToldAfter, Checked, OnItsWay
<1>2. CASE Lookup(c)
  BY <1>2 DEF Lookup, Answers, issuing, RevocationHolds, GrantsDeserved,
      ToldIsRevoked, BarredIsTold, InTime, ToldAfter, Checked, OnItsWay
<1>3. CASE LookupFails(c)
  BY <1>3 DEF LookupFails, Answers, issuing, RevocationHolds, GrantsDeserved,
      ToldIsRevoked, BarredIsTold, InTime, ToldAfter, Checked, OnItsWay
<1>4. CASE Deliver(c)
  BY <1>4 DEF Deliver, issuing, RevocationHolds, GrantsDeserved,
      ToldIsRevoked, BarredIsTold, InTime, ToldAfter, Checked, OnItsWay
<1>5. CASE TimesOut(c)
  BY <1>5 DEF TimesOut, issuing, RevocationHolds, GrantsDeserved,
      ToldIsRevoked, BarredIsTold, InTime, ToldAfter, Checked, OnItsWay
<1>6. CASE Drop(c)
  BY <1>6 DEF Drop, issuing, RevocationHolds, GrantsDeserved,
      ToldIsRevoked, BarredIsTold, InTime, ToldAfter, Checked, OnItsWay
<1> QED BY <1>1, <1>2, <1>3, <1>4, <1>5, <1>6 DEF Handle

\* The invariant is kept by every step.
LEMMA StepKeeps == IInv /\ [Next]_vars => IInv'
<1> SUFFICES ASSUME IInv, [Next]_vars PROVE IInv'
  OBVIOUS
<1>0. TypeOK' /\ clock \in Nat
  BY TypeStep, TokensAssumption DEF IInv, TypeOK
<1>1. CASE Tick
  <2>1. InTime'
    BY <1>1, TokensAssumption DEF IInv, TypeOK, Tick, calls, InTime
  <2>2. ToldIsRevoked'
    BY <1>1 DEF IInv, Tick, ToldIsRevoked
  <2>3. UNCHANGED <<issuing, calls, told, revoked>> /\ clock <= clock'
    BY <1>0, <1>1 DEF Tick
  <2> QED BY <1>0, <2>1, <2>2, <2>3, Around DEF issuing
<1>2. CASE Restart
  BY <1>0, <1>2 DEF IInv, TypeOK, Restart, RevocationHolds, GrantsDeserved,
      ToldIsRevoked, BarredIsTold, InTime, ToldAfter, Checked, OnItsWay
<1>3. CASE LoginBegins
  <2>1. InTime' /\ ToldIsRevoked'
    BY <1>3 DEF IInv, LoginBegins, calls, InTime, ToldIsRevoked
  <2>2. UNCHANGED <<clock, exp, scope, calls, told, revoked>>
    BY <1>3 DEF LoginBegins
  <2> QED BY <1>0, <2>1, <2>2, Around
<1>4. ASSUME NEW now \in login, NEW j \in Jti, NEW asked \in SUBSET Scope,
             LoginEnds(now, j, asked)
      PROVE  IInv'
  <2>1. \A k \in Jti : exp[k] > 0 => exp'[k] = exp[k] /\ scope'[k] = scope[k]
    BY <1>4 DEF IInv, TypeOK, LoginEnds
  <2>2. UNCHANGED <<clock, revoked, told, calls>>
    BY <1>4 DEF LoginEnds
  <2>3. InTime' /\ ToldIsRevoked'
    BY <2>2 DEF IInv, calls, InTime, ToldIsRevoked
  <2> QED BY <1>0, <2>1, <2>2, <2>3, Around
<1>5. ASSUME NEW c \in Call, Handle(c) PROVE IInv'
  BY <1>0, <1>5, CallStep
<1>6. ASSUME NEW c \in Call, NEW j \in Jti, NEW s \in SUBSET Scope, Ask(c, j, s)
      PROVE  IInv'
  <2>1. \A d \in Call : d # c => /\ tok'[d] = tok[d] /\ barred'[d] = barred[d]
                                /\ pc'[d] = pc[d] /\ guard'[d] = guard[d]
                                /\ began'[d] = began[d]
    BY <1>6 DEF IInv, TypeOK, Ask
  <2>2. /\ tok'[c] = j /\ pc'[c] = "decode" /\ guard'[c] = "asking" /\ began'[c] = clock
        /\ UNCHANGED <<clock, revoked, told>>
    BY <1>6 DEF IInv, TypeOK, Ask
  <2>3. barred'[c] = (told[j] # Never)
    BY <1>6, Zenon DEF IInv, TypeOK, Ask
  <2>4. RevocationHolds' /\ BarredIsTold' /\ ToldIsRevoked'
    <3>1. RevocationHolds'
      BY <2>1, <2>2 DEF IInv, RevocationHolds
    <3>2. BarredIsTold'
      BY <2>1, <2>2, <2>3 DEF IInv, BarredIsTold
    <3> QED BY <2>2, <3>1, <3>2 DEF IInv, ToldIsRevoked
  <2>5. InTime' /\ ToldAfter'
    <3>1. InTime'
      BY <2>1, <2>2, TokensAssumption DEF IInv, TypeOK, InTime
    <3>2. ToldAfter'
      BY <2>1, <2>2, <2>3 DEF IInv, ToldAfter
    <3> QED BY <3>1, <3>2
  <2>6. GrantsDeserved' /\ Checked'
    BY <1>6, TokensAssumption DEF IInv, TypeOK, Ask, issuing, GrantsDeserved, Checked
  <2>7. OnItsWay'
    BY <1>6, <2>1, <2>2 DEF IInv, TypeOK, Ask, issuing, OnItsWay
  <2> QED BY <1>0, <2>4, <2>5, <2>6, <2>7 DEF IInv
<1>7. ASSUME NEW j \in Jti, Revoke(j) PROVE IInv'
  <2>1. \A k \in Jti : told'[k] = told[k] \/ (k = j /\ told[k] = Never /\ told'[k] = clock)
    BY <1>7 DEF IInv, TypeOK, Revoke, Heard
  <2>2. InTime' /\ ToldIsRevoked'
    BY <1>7, <2>1 DEF IInv, Revoke, calls, InTime, ToldIsRevoked
  <2>3. /\ UNCHANGED <<clock, issuing, calls>>
        /\ revoked \subseteq revoked'
    BY <1>7 DEF Revoke
  <2> QED BY <1>0, <2>1, <2>2, <2>3, Around DEF issuing
<1>8. CASE UNCHANGED vars
  <2>1. InTime' /\ ToldIsRevoked'
    BY <1>8 DEF IInv, vars, calls, InTime, ToldIsRevoked
  <2>2. UNCHANGED <<clock, issuing, calls, told, revoked>>
    BY <1>8 DEF vars
  <2> QED BY <1>0, <2>1, <2>2, Around DEF issuing
<1> QED BY <1>1, <1>2, <1>3, <1>4, <1>5, <1>6, <1>7, <1>8 DEF Next, Provider

\* The invariant holds in every reachable state.
THEOREM Inductive == Spec => []IInv
BY InitEstablishes, StepKeeps, PTL DEF Spec

\* Types (auth_server.py:61-122, middleware.py:10-27).
THEOREM TypeCorrect == Spec => []TypeOK
<1>1. IInv => TypeOK
  BY DEF IInv
<1> QED BY <1>1, Inductive, PTL

\* A request made after somebody was told that its token is revoked is never granted,
\* for any number of calls, tokens and restarts (middleware.py:1, auth_server.py:67-69).
THEOREM RevocationBinds == Spec => []RevocationHolds
<1>1. IInv => RevocationHolds
  BY DEF IInv
<1> QED BY <1>1, Inductive, PTL

\* A route is opened at most Patience after somebody learnt that the token is
\* revoked, and at most Patience after it expired, for any number of calls, tokens
\* and restarts and any TTL (middleware.py:14-27, auth_server.py:61-69, 121).
THEOREM RevocationSoonBinds == Spec => RevocationTakesHold
<1> DEFINE Timely(c) == /\ told[tok[c]] # Never => clock <= told[tok[c]] + Patience
                        /\ clock < exp[tok[c]] + Patience
<1>1. ASSUME IInv, [Next]_vars, NEW c \in Call, guard[c] # "granted", guard'[c] = "granted"
      PROVE  Timely(c)
  <2>1. Deliver(c)
    <3>1. ASSUME NEW d \in Call, Handle(d) PROVE Deliver(c)
      <4>1. guard'[c] # guard[c] /\ guard[c] \in {"none", "asking", "granted", "401", "403", "503"}
        BY <1>1 DEF IInv, TypeOK
      <4>2. CASE Deliver(d)
        BY <1>1, <4>2 DEF IInv, TypeOK, Deliver
      <4>3. CASE TimesOut(d)
        BY <1>1, <4>3 DEF IInv, TypeOK, TimesOut
      <4> QED BY <3>1, <4>1, <4>2, <4>3 DEF Handle, Decode, Lookup, LookupFails, Drop
    <3>2. ASSUME NEW d \in Call, NEW j \in Jti, NEW s \in SUBSET Scope, Ask(d, j, s) PROVE FALSE
      BY <1>1, <3>2 DEF IInv, TypeOK, Ask
    <3>3. CASE Restart
      BY <1>1, <3>3 DEF IInv, TypeOK, Restart
    <3>4. CASE UNCHANGED guard
      BY <1>1, <3>4
    <3> QED BY <1>1, <3>1, <3>2, <3>3, <3>4
         DEF Next, Provider, Tick, LoginBegins, LoginEnds, Revoke, calls, vars
  <2>2. guard[c] = "asking" /\ pc[c] = "answered" /\ answer[c] = "active"
    BY <1>1, <2>1 DEF IInv, TypeOK, Deliver
  <2>3. ~barred[c] /\ began[c] < exp[tok[c]] /\ clock <= began[c] + Patience
    BY <1>1, <2>2 DEF IInv, OnItsWay, InTime
  <2>4. told[tok[c]] # Never => began[c] <= told[tok[c]]
    BY <1>1, <2>2, <2>3 DEF IInv, ToldAfter
  <2>5. /\ {clock, began[c], exp[tok[c]], Patience} \subseteq Nat
        /\ told[tok[c]] \in Int
    BY <1>1, TokensAssumption DEF IInv, TypeOK, Never
  <2> QED BY <2>3, <2>4, <2>5
<1>2. IInv /\ [Next]_vars =>
          [\A c \in Call : guard[c] # "granted" /\ guard'[c] = "granted" => Timely(c)]_vars
  BY <1>1
<1> QED BY <1>2, Inductive, PTL DEF Spec, RevocationTakesHold

\* Every grant is for a live token with the scopes asked for (middleware.py:18-27).
THEOREM EveryGrantDeserved == Spec => []GrantsDeserved
<1>1. IInv => GrantsDeserved
  BY DEF IInv
<1> QED BY <1>1, Inductive, PTL

-----------------------------------------------------------------------------
(***************************************************************************)
(* The webhook beside the provider (Response).  SoarProofs says of the     *)
(* webhook that every real effect of a step is behind its record; what is  *)
(* added here is that the effect of revoke_token is behind a row of the    *)
(* provider's table, whichever process of the webhook had it (Delivered).  *)
(* So whoever got its 200 was told the truth (RemediedTold).               *)
(***************************************************************************)
SP == INSTANCE SoarProofs WITH pc <- webhook

\* The results of revoke_token are those that revoke_token returns.
Configured ==
    \A i \in S!Identity : ledger[i]["revoke_token"] # "not_configured"

\* A token whose revocation took effect is in the provider's table.
Delivered ==
    \A i \in S!Identity :
        performed[i]["revoke_token"] > 0 => /\ i.alert \in Revoking
                                            /\ JtiOf[i.alert] \in revoked

\* What the webhook had answered when the call began, the table had too.
LateIsBarred == \A c \in Call : late[c] => barred[c]

\* Whoever got the 200 of a live webhook knows of the revocation.
RemediedTold == \A j \in Remedied : told[j] # Never

RInv == IInv /\ SP!IInv /\ Configured /\ Delivered /\ LateIsBarred /\ RemediedTold

-----------------------------------------------------------------------------
\* The webhook of SoarProofs is the webhook of Response.
LEMMA SameWebhook ==
    /\ S!Init <=> SP!Init
    /\ S!Next <=> SP!Next
    /\ S!Identity = SP!Identity
    /\ UNCHANGED soar => UNCHANGED SP!vars
BY DEF soar, S!Step, SP!Step, S!Rank, SP!Rank, S!Url, SP!Url, S!Real, SP!Real,
        S!Result, SP!Result, S!Identity, SP!Identity, S!store, SP!store,
        S!threads, SP!threads, S!vars, SP!vars, S!NoResult, SP!NoResult,
        S!Id, SP!Id, S!StepsOf, SP!StepsOf, S!Pending, SP!Pending, S!IsNext,
        SP!IsNext, S!Outcome, SP!Outcome, S!Refused, SP!Refused, S!Holds,
        SP!Holds, S!LockFree, SP!LockFree, S!Effect, SP!Effect, S!InFlight,
        SP!InFlight, S!LoseInFlight, SP!LoseInFlight, S!Answer, SP!Answer,
        S!Fault, SP!Fault, S!Init, SP!Init, S!Receive, SP!Receive, S!Load,
        SP!Load, S!LoadFails, SP!LoadFails, S!Perform, SP!Perform,
        S!PerformRefused, SP!PerformRefused, S!PerformFails,
        SP!PerformFails, S!Checkpoint, SP!Checkpoint, S!CheckpointFails,
        SP!CheckpointFails, S!Restart, SP!Restart, S!Serve, SP!Serve,
        S!Next, SP!Next

\* The webhook's own invariant, seen from here.
LEMMA WebhookInv ==
    /\ RInit => SP!IInv
    /\ SP!IInv /\ [S!Next]_soar => SP!IInv'
<1>1. SP!SoarAssumption
  BY ResponseAssumption DEF S!Url, SP!Url
<1>2. RInit => SP!IInv
  BY <1>1, SP!InvInit, SameWebhook DEF RInit
<1>3. SP!IInv /\ [S!Next]_soar => SP!IInv'
  BY <1>1, SP!InvStep, SameWebhook
<1> QED BY <1>2, <1>3

\* Only an alert that carries a token revokes one.
LEMMA RevokesOwn ==
    ASSUME SP!IInv, S!Next, NEW i \in S!Identity,
           performed'[i]["revoke_token"] # performed[i]["revoke_token"]
    PROVE  i.alert \in Revoking
<1>1. PICK r \in Request, s \in SP!Step : SP!IsNext(r, s) /\ SP!Effect(SP!Id(req[r]), s)
  BY SameWebhook DEF SP!Next, SP!Serve, SP!Receive, SP!Load, SP!LoadFails, SP!Perform,
     SP!PerformRefused, SP!PerformFails, SP!Checkpoint, SP!CheckpointFails, SP!Restart,
     SP!store
<1>2. performed \in [SP!Identity -> [SP!Step -> Nat]] /\ req[r] \in Alert
  BY DEF SP!IInv, SP!TypeOK
<1>3. i = SP!Id(req[r]) /\ s = "revoke_token"
  BY <1>1, <1>2, SameWebhook DEF SP!Effect
<1>4. req[r] \in Revoking
  BY <1>1, <1>3 DEF SP!IsNext, SP!Pending, SP!StepsOf
<1> QED BY <1>3, <1>4 DEF SP!Id

\* The row of an alert gets the result of its own step.
LEMMA ConfiguredStep ==
    ASSUME SP!IInv, Configured, S!Next PROVE Configured'
<1>1. CASE UNCHANGED ledger
  BY <1>1, SameWebhook DEF Configured
<1>2. CASE ~UNCHANGED ledger
  <2>1. PICK r \in Request : SP!Checkpoint(r)
    BY <1>2, SameWebhook DEF SP!Next, SP!Serve, SP!Receive, SP!Load, SP!LoadFails, SP!Perform,
       SP!PerformRefused, SP!PerformFails, SP!CheckpointFails, SP!Restart, SP!store
  <2>2. PICK s \in SP!Step :
          results[r] = [ledger[SP!Id(req[r])] EXCEPT ![s] = SP!Outcome(s)]
    BY <2>1 DEF SP!Checkpoint, SP!IInv, SP!Current, SP!CurrentAt
  <2>3. SP!Id(req[r]) \in SP!Identity /\ ledger \in [SP!Identity -> [SP!Step -> SP!Result]]
    BY ResponseAssumption DEF SP!IInv, SP!TypeOK, SP!Id, SP!Identity, S!Url
  <2>4. "revoke_token" \in SP!Step
    BY DEF SP!Step
  <2>5. results[r]["revoke_token"] # "not_configured"
    BY <2>2, <2>3, <2>4, SameWebhook DEF Configured, SP!Outcome
  <2> QED BY <2>1, <2>3, <2>5, SameWebhook DEF Configured, SP!Checkpoint
<1> QED BY <1>1, <1>2

\* What the webhook has answered for, the table has.
LEMMA RemediedRevoked ==
    SP!IInv /\ Configured /\ Delivered => Remedied \subseteq revoked
<1> SUFFICES ASSUME SP!IInv, Configured, Delivered, NEW a \in Revoking, ~conf.dryRun,
                    NEW r \in Request, req[r] = a, reply[r] \in {"ok", "duplicate"}
             PROVE  JtiOf[a] \in revoked
  BY DEF Remedied
<1> DEFINE i == SP!Id(a)
<1>1. i \in SP!Identity /\ i.alert = a /\ ~i.dry
  BY ResponseAssumption DEF SP!IInv, SP!TypeOK, SP!Id, SP!Identity, S!Url
<1>2. "revoke_token" \in SP!StepsOf(a) /\ "revoke_token" \in SP!Step
  BY DEF SP!StepsOf, SP!Step
<1>3. ledger[i]["revoke_token"] # "none"
  BY <1>2 DEF SP!IInv, SP!AnsweredComplete
<1>4. ledger[i]["revoke_token"] \in SP!Real
  BY <1>1, <1>2, <1>3, SameWebhook
     DEF SP!IInv, SP!TypeOK, SP!ModesApart, Configured, SP!Result
<1>5. performed[i]["revoke_token"] > 0
  BY <1>1, <1>2, <1>4 DEF SP!IInv, SP!TypeOK, SP!Accounted
<1> QED BY <1>1, <1>5, SameWebhook DEF Delivered

\* The same of the next state.
LEMMA RemediedRevokedNext ==
    (SP!IInv /\ Configured /\ Delivered)' => (Remedied \subseteq revoked)'
BY RemediedRevoked, PTL

\* The webhook revokes; nothing else changes at the provider.
LEMMA WebhookStepKeeps ==
    ASSUME RInv, WebhookStep PROVE RInv'
<1>1. SP!IInv' /\ Configured'
  BY WebhookInv, ConfiguredStep DEF RInv, WebhookStep
<1>2. \A i \in S!Identity : /\ performed[i]["revoke_token"] \in Nat
                              /\ performed'[i]["revoke_token"] \in Nat
  BY <1>1, SameWebhook DEF RInv, SP!IInv, SP!TypeOK, SP!Step
<1>3. RevokedNow \subseteq Jti
  <2>1. ASSUME NEW i \in S!Identity,
               performed'[i]["revoke_token"] > performed[i]["revoke_token"]
        PROVE  i.alert \in Revoking
    BY <2>1, <1>2, RevokesOwn DEF RInv, WebhookStep
  <2> QED BY <2>1, ResponseAssumption DEF RevokedNow
<1>4. Delivered'
  <2> SUFFICES ASSUME NEW i \in S!Identity, performed'[i]["revoke_token"] > 0
               PROVE  i.alert \in Revoking /\ JtiOf[i.alert] \in revoked'
    BY DEF Delivered, S!Identity
  <2>1. CASE performed'[i]["revoke_token"] > performed[i]["revoke_token"]
    BY <2>1, <1>2, RevokesOwn DEF RInv, WebhookStep, RevokedNow
  <2>2. CASE ~(performed'[i]["revoke_token"] > performed[i]["revoke_token"])
    BY <2>2, <1>2 DEF RInv, Delivered, WebhookStep
  <2> QED BY <2>1, <2>2
<1>5. \A j \in Jti : \/ told'[j] = told[j] /\ j \notin Remedied'
                     \/ told'[j] = told[j] /\ told[j] # Never
                     \/ told[j] = Never /\ told'[j] = clock /\ j \in Remedied'
  BY DEF WebhookStep
<1>6. /\ UNCHANGED <<clock, issuing, calls, late>>
      /\ revoked \subseteq revoked'
      /\ clock \in Nat
  BY TokensAssumption DEF RInv, IInv, TypeOK, WebhookStep
<1>7. IInv'
  <2>1. TypeOK'
    BY <1>3, TokensAssumption DEF RInv, IInv, TypeOK, WebhookStep, Never, issuing, calls
  <2>2. ToldIsRevoked'
    <3>1. Remedied' \subseteq revoked'
      BY <1>1, <1>4, RemediedRevokedNext
    <3> QED BY <1>5, <1>6, <3>1 DEF RInv, IInv, ToldIsRevoked
  <2>3. InTime'
    BY <1>6 DEF RInv, IInv, InTime, calls
  <2>4. \A j \in Jti : told'[j] = told[j] \/ (told[j] = Never /\ told'[j] = clock')
    BY <1>5, <1>6
  <2> QED BY <1>6, <2>1, <2>2, <2>3, <2>4, Around DEF RInv, issuing
<1>8. LateIsBarred'
  BY DEF RInv, LateIsBarred, WebhookStep, calls
<1>9. RemediedTold'
  <2>1. Remedied' \subseteq Jti
    BY <1>1, <1>4, <1>7, RemediedRevokedNext DEF IInv, TypeOK
  <2>2. clock # Never
    BY <1>6 DEF Never
  <2> QED BY <1>5, <2>1, <2>2 DEF RemediedTold
<1> QED BY <1>1, <1>4, <1>7, <1>8, <1>9 DEF RInv

\* A call of the middleware begins with an Ask, and with what holds then.
LEMMA CallsBegin ==
    ASSUME TypeOK, Next, NEW c \in Call
    PROVE  \/ guard[c] # "asking" /\ guard'[c] = "asking" /\ (told[tok'[c]] # Never => barred'[c])
           \/ ~(guard[c] # "asking" /\ guard'[c] = "asking") /\ barred'[c] = barred[c]
<1>1. ASSUME NEW d \in Call, NEW j \in Jti, NEW s \in SUBSET Scope, Ask(d, j, s)
      PROVE  \/ /\ c = d /\ guard[c] # "asking" /\ guard'[c] = "asking"
                /\ tok'[c] = j /\ barred'[c] = (told[j] # Never)
             \/ c # d /\ guard'[c] = guard[c] /\ barred'[c] = barred[c]
  BY <1>1, Zenon DEF TypeOK, Ask
<1>2. ASSUME NEW d \in Call, Handle(d)
      PROVE  UNCHANGED barred /\ (guard'[c] = "asking" => guard[c] = "asking")
  BY <1>2 DEF TypeOK, Handle, Decode, Lookup, LookupFails, Deliver, TimesOut, Drop
<1>3. CASE Tick \/ LoginBegins \/ \E j \in Jti : Revoke(j)
  BY <1>3 DEF Tick, LoginBegins, Revoke, calls
<1>4. CASE Restart
  BY <1>4 DEF TypeOK, Restart
<1>5. CASE \E now \in login, j \in Jti, asked \in SUBSET Scope : LoginEnds(now, j, asked)
  BY <1>5 DEF LoginEnds, calls
<1> QED BY <1>1, <1>2, <1>3, <1>4, <1>5 DEF Next, Provider

\* The provider never forgets a revocation, and does not touch the webhook.
LEMMA ProviderStepKeeps ==
    ASSUME RInv, ProviderStep PROVE RInv'
<1>1. IInv'
  BY StepKeeps DEF RInv, ProviderStep
<1>2. SP!IInv'
  BY WebhookInv DEF RInv, ProviderStep
<1>3. Configured'
  BY DEF RInv, Configured, ProviderStep, soar, S!Identity
<1>4. revoked \subseteq revoked'
  BY DEF ProviderStep, Next, Provider, Handle, Tick, Restart, LoginBegins, LoginEnds, Ask, Revoke,
         Decode, Lookup, LookupFails, Deliver, TimesOut, Drop
<1>5. Delivered'
  BY <1>4 DEF RInv, Delivered, ProviderStep, soar, S!Identity
<1>6. LateIsBarred'
  <2> SUFFICES ASSUME NEW c \in Call, late'[c] PROVE barred'[c]
    BY DEF LateIsBarred
  <2>1. CASE guard[c] # "asking" /\ guard'[c] = "asking"
    <3>1. told[tok'[c]] # Never
      BY <2>1 DEF RInv, RemediedTold, ProviderStep
    <3> QED BY <2>1, <3>1, CallsBegin DEF RInv, IInv, ProviderStep
  <2>2. CASE ~(guard[c] # "asking" /\ guard'[c] = "asking")
    <3>1. late'[c] = late[c]
      BY <2>2 DEF ProviderStep
    <3>2. barred'[c] = barred[c]
      BY <2>2, CallsBegin DEF RInv, IInv, ProviderStep
    <3> QED BY <3>1, <3>2 DEF RInv, LateIsBarred
  <2> QED BY <2>1, <2>2
<1>7. RemediedTold'
  <2>1. Remedied' = Remedied
    BY DEF Remedied, ProviderStep, soar
  <2>2. Remedied \subseteq Jti
    BY RemediedRevoked DEF RInv, IInv, TypeOK
  <2>3. \A j \in Jti : told[j] # Never => told'[j] # Never
    <3>1. ASSUME NEW j \in Jti, Revoke(j)
          PROVE  \A k \in Jti : told[k] # Never => told'[k] # Never
      BY <3>1, TokensAssumption DEF RInv, IInv, TypeOK, Revoke, Heard, Never
    <3> QED BY <3>1 DEF ProviderStep, Next, Provider, Handle, Tick, Restart, LoginBegins, LoginEnds,
            Ask, Decode, Lookup, LookupFails, Deliver, TimesOut, Drop
  <2> QED BY <2>1, <2>2, <2>3 DEF RInv, RemediedTold
<1> QED BY <1>1, <1>2, <1>3, <1>5, <1>6, <1>7 DEF RInv

\* The invariant of the two services together holds in every reachable state.
LEMMA Together == RSpec => []RInv
<1>1. RInit => RInv
  <2>1. RInit => Configured /\ Delivered
    BY DEF RInit, Configured, Delivered, S!Init, S!NoResult, S!Step
  <2>2. RInit => LateIsBarred
    BY DEF RInit, LateIsBarred
  <2>3. RInit => Remedied = {}
    BY DEF RInit, Remedied, S!Init
  <2> QED BY <2>1, <2>2, <2>3, InitEstablishes, WebhookInv DEF RInit, RInv, RemediedTold
<1>2. RInv /\ [RNext]_<<vars, soar, late>> => RInv'
  <2> SUFFICES ASSUME RInv, [RNext]_<<vars, soar, late>> PROVE RInv'
    OBVIOUS
  <2>1. CASE UNCHANGED <<vars, soar, late>>
    <3>1. IInv' /\ SP!IInv'
      BY <2>1, StepKeeps, WebhookInv DEF RInv
    <3>2. Configured' /\ Delivered' /\ LateIsBarred' /\ RemediedTold'
      BY <2>1 DEF RInv, Configured, Delivered, LateIsBarred, RemediedTold, Remedied,
                  soar, vars, calls, S!Identity
    <3> QED BY <3>1, <3>2 DEF RInv
  <2> QED BY <2>1, WebhookStepKeeps, ProviderStepKeeps DEF RNext
<1> QED BY <1>1, <1>2, PTL DEF RSpec

\* A token whose remediation the live webhook has answered with a 200 opens no
\* route from then on, for any alerts, tokens, threads, faults, restarts and mode
\* switches of either service (app.py:60-71, actions.py:28-38, middleware.py:10-27).
THEOREM RemediationHolds == RSpec => []RemediationBars
<1>1. RInv => RemediationBars
  BY DEF RInv, LateIsBarred, RemediationBars, IInv, RevocationHolds
<1> QED BY <1>1, Together, PTL

=============================================================================
