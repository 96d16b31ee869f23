----------------------------- MODULE SoarProofs -----------------------------
(***************************************************************************)
(* For every set of alerts, threads and environments and every bound on    *)
(* the faults: Soar keeps its types, accounts for every effect, records    *)
(* the steps in order, never replays a recorded step, and implements       *)
(* Playbook.                                                               *)
(***************************************************************************)
EXTENDS Soar, TLAPS

\* At most one thread is inside the with-statement.
Exclusive == \A q, r \in Request : Holds(q) /\ Holds(r) => q = r

\* The dictionary of the thread inside is the row it will overwrite, with one
\* result more once it has carried out the step that is due.
DueStep(r, s) ==
    /\ s \in StepsOf(req[r])
    /\ ledger[Id(req[r])][s] = "none"
    /\ \A t \in StepsOf(req[r]) : Rank[t] < Rank[s] => ledger[Id(req[r])][t] # "none"

CurrentAt(r) ==
    /\ pc[r] = "running" => results[r] = ledger[Id(req[r])]
    /\ pc[r] = "acted" => \E s \in Step :
          /\ DueStep(r, s)
          /\ results[r] = [ledger[Id(req[r])] EXCEPT ![s] = Outcome(s)]

Current == \A r \in Request : CurrentAt(r)

IInv == /\ TypeOK /\ Exclusive /\ Current
        /\ Accounted /\ InOrder /\ ModesApart /\ AnsweredComplete

-----------------------------------------------------------------------------
\* The identity of an alert is its own, in the mode of the configuration.
LEMMA IdType ==
  ASSUME TypeOK, NEW a \in Alert
  PROVE  Id(a) \in Identity /\ Id(a).alert = a /\ Id(a).dry = conf.dryRun
  BY SoarAssumption DEF TypeOK, Id, Identity

\* A step that was performed has a result.
LEMMA OutcomeType ==
  ASSUME NEW s \in Step
  PROVE  Outcome(s) \in Result /\ Outcome(s) # "none"
  BY DEF Outcome, Result, Real

\* The row of an identity that was never seen.
LEMMA NoResultType == NoResult \in [Step -> Result]
  BY DEF NoResult, Result

\* An effect counts once and blocks the alert's own address only.
LEMMA EffectType ==
  ASSUME TypeOK, NEW i \in Identity, NEW s \in Step, Effect(i, s)
  PROVE  /\ performed' \in [Identity -> [Step -> Nat]]
         /\ firewall' \subseteq Ip
  <1>1. AlertIp[i.alert] \in Ip
    BY SoarAssumption DEF Identity
  <1>2. performed \in [Identity -> [Step -> Nat]] /\ firewall \subseteq Ip
    BY DEF TypeOK
  <1>. QED
    BY <1>1, <1>2 DEF Effect

\* A thread that answers is idle and has no results.
LEMMA AnswerType ==
  ASSUME TypeOK, NEW r \in Request, NEW c \in {"ok", "duplicate", "failed", "error"},
         Answer(r, c)
  PROVE  /\ pc' \in [Request -> {"idle", "waiting", "running", "acted"}]
         /\ results' \in [Request -> [Step -> Result]]
         /\ reply' \in [Request -> {"none", "ok", "duplicate", "failed", "error"}]
  BY NoResultType DEF TypeOK, Answer

\* Faults are counted up to their bound.
LEMMA FaultType == TypeOK /\ Fault => faults' \in 0..MaxFaults
  BY SoarAssumption DEF TypeOK, Fault

\* An effect that is lost is counted.
LEMMA LostType == TypeOK /\ LoseInFlight => lost' \in [Identity -> [Step -> Nat]]
  BY DEF TypeOK, LoseInFlight

\* Every variable keeps its type.
LEMMA TypeStep == TypeOK /\ [Next]_vars => TypeOK'
  <1> SUFFICES ASSUME TypeOK, [Next]_vars PROVE TypeOK'
    OBVIOUS
  <1>1. ASSUME NEW r \in Request, NEW a \in Alert, Receive(r, a) PROVE TypeOK'
    BY <1>1 DEF TypeOK, Receive, store
  <1>2. ASSUME NEW r \in Request, Load(r) PROVE TypeOK'
    <2>1. req[r] \in Alert /\ ledger[Id(req[r])] \in [Step -> Result]
      BY IdType DEF TypeOK
    <2>2. CASE Answer(r, "duplicate")
      BY <1>2, <2>2, AnswerType DEF TypeOK, Load, store
    <2>3. CASE ~Answer(r, "duplicate")
      BY <1>2, <2>1, <2>3 DEF TypeOK, Load, store
    <2>. QED BY <2>2, <2>3
  <1>3. ASSUME NEW r \in Request, LoadFails(r) PROVE TypeOK'
    BY <1>3, AnswerType, FaultType DEF TypeOK, LoadFails, store
  <1>4. ASSUME NEW r \in Request, Perform(r) PROVE TypeOK'
    <2>1. PICK s \in Step :
            /\ results' = [results EXCEPT ![r][s] = Outcome(s)]
            /\ IF Outcome(s) \in Real THEN Effect(Id(req[r]), s)
                                      ELSE UNCHANGED <<performed, firewall>>
      BY <1>4 DEF Perform
    <2>2. results' \in [Request -> [Step -> Result]]
      BY <2>1, OutcomeType DEF TypeOK
    <2>3. performed' \in [Identity -> [Step -> Nat]] /\ firewall' \subseteq Ip
      <3>1. Id(req[r]) \in Identity
        BY IdType DEF TypeOK
      <3>. QED BY <2>1, <3>1, EffectType DEF TypeOK
    <2>. QED BY <1>4, <2>2, <2>3 DEF TypeOK, Perform
  <1>5. ASSUME NEW r \in Request, PerformRefused(r) PROVE TypeOK'
    BY <1>5, AnswerType DEF TypeOK, PerformRefused, store
  <1>6. ASSUME NEW r \in Request, PerformFails(r) PROVE TypeOK'
    <2>1. CASE UNCHANGED store
      BY <1>6, <2>1, AnswerType, FaultType DEF TypeOK, PerformFails, store
    <2>2. CASE ~UNCHANGED store
      <3>1. PICK s \in Step : /\ Effect(Id(req[r]), s)
                              /\ lost' = [lost EXCEPT ![Id(req[r])][s] = @ + 1]
                              /\ UNCHANGED ledger
        BY <1>6, <2>2 DEF PerformFails
      <3>2. Id(req[r]) \in Identity
        BY IdType DEF TypeOK
      <3>3. performed' \in [Identity -> [Step -> Nat]] /\ firewall' \subseteq Ip
        BY <3>1, <3>2, EffectType
      <3>4. lost' \in [Identity -> [Step -> Nat]]
        BY <3>1, <3>2 DEF TypeOK
      <3>. QED
        BY <1>6, <3>1, <3>3, <3>4, AnswerType, FaultType DEF TypeOK, PerformFails
    <2>. QED BY <2>1, <2>2
  <1>7. ASSUME NEW r \in Request, Checkpoint(r) PROVE TypeOK'
    <2>1. ledger' \in [Identity -> [Step -> Result]]
      BY <1>7, IdType DEF TypeOK, Checkpoint
    <2>2. CASE Answer(r, "ok")
      BY <1>7, <2>1, <2>2, AnswerType DEF TypeOK, Checkpoint
    <2>3. CASE ~Answer(r, "ok")
      BY <1>7, <2>1, <2>3 DEF TypeOK, Checkpoint
    <2>. QED BY <2>2, <2>3
  <1>8. ASSUME NEW r \in Request, CheckpointFails(r) PROVE TypeOK'
    BY <1>8, AnswerType, FaultType, LostType DEF TypeOK, CheckpointFails
  <1>9. ASSUME NEW c \in Config, Restart(c) PROVE TypeOK'
    <2>1. lost' \in [Identity -> [Step -> Nat]] /\ faults' \in 0..MaxFaults
      BY <1>9, FaultType, LostType DEF Restart
    <2>. QED BY <1>9, <2>1, NoResultType DEF TypeOK, Restart
  <1>10. CASE UNCHANGED vars
    BY <1>10 DEF TypeOK, vars, store, threads
  <1>. QED
    BY <1>1, <1>2, <1>3, <1>4, <1>5, <1>6, <1>7, <1>8, <1>9, <1>10 DEF Next, Serve

\* The initial states are well typed.
LEMMA TypeInit == Init => TypeOK
  BY SoarAssumption, NoResultType DEF Init, TypeOK

\* Every variable keeps its type: no thread reaches a place, an answer or a
\* recorded result that app.py does not have.
THEOREM TypeCorrect == Spec => []TypeOK
  BY TypeInit, TypeStep, PTL DEF Spec

-----------------------------------------------------------------------------
\* With one thread inside, the only effect in flight is that of its step.
LEMMA NothingInFlight ==
  ASSUME \A q \in Request : pc[q] # "acted"
  PROVE  \A i \in Identity, t \in Step : ~InFlight(i, t)
  BY DEF InFlight

\* With the lock held by a thread that has acted, the effect in flight is its own.
LEMMA OneInFlight ==
  ASSUME TypeOK, Exclusive, NEW r \in Request, pc[r] = "acted",
         NEW s \in Step, DueStep(r, s),
         results[r] = [ledger[Id(req[r])] EXCEPT ![s] = Outcome(s)]
  PROVE  \A i \in Identity, t \in Step :
            InFlight(i, t) <=> i = Id(req[r]) /\ t = s /\ Outcome(s) \in Real
  <1>1. \A q \in Request : pc[q] = "acted" => q = r
    BY DEF Exclusive, Holds
  <1>2. Id(req[r]) \in Identity
    BY IdType DEF TypeOK
  <1>3. ledger[Id(req[r])] \in [Step -> Result]
    BY <1>2 DEF TypeOK
  <1>4. results[r][s] = Outcome(s) /\ ledger[Id(req[r])][s] = "none"
    BY <1>3 DEF DueStep
  <1>5. \A t \in Step : t # s => results[r][t] = ledger[Id(req[r])][t]
    BY <1>3
  <1>6. "none" \notin Real
    BY DEF Real
  <1>7. \A i \in Identity, t \in Step :
          InFlight(i, t) <=> /\ i = Id(req[r]) /\ ledger[i][t] = "none"
                             /\ results[r][t] \in Real
    BY <1>1 DEF InFlight
  <1>. QED
    BY <1>2, <1>4, <1>5, <1>6, <1>7

\* What the steps that touch neither the store nor a thread between its action
\* and its checkpoint cannot disturb.
Books == Accounted /\ InOrder /\ ModesApart

\* The books need the tables, and of the threads only those that have acted.
LEMMA BooksKept ==
  ASSUME Books, UNCHANGED <<conf, store>>,
         \A q \in Request : pc'[q] = "acted" <=> pc[q] = "acted",
         \A q \in Request : pc[q] = "acted" =>
                              results'[q] = results[q] /\ req'[q] = req[q]
  PROVE  Books'
  <1>1. \A i \in Identity, s \in Step : InFlight(i, s)' = InFlight(i, s)
    BY Zenon DEF InFlight, store, Id
  <1>. QED
    BY <1>1 DEF Books, Accounted, InOrder, ModesApart, store

\* The next step of a running thread is due.
LEMMA NextIsDue ==
  ASSUME TypeOK, Current, NEW r \in Request, pc[r] = "running",
         NEW s \in Step, IsNext(r, s)
  PROVE  DueStep(r, s) /\ results[r] = ledger[Id(req[r])]
  <1>1. \A t \in Step : Rank[t] \in Int
    BY DEF Rank, Step
  <1>2. StepsOf(req[r]) \subseteq Step
    BY DEF StepsOf, Step
  <1>3. results[r] = ledger[Id(req[r])]
    BY DEF Current, CurrentAt
  <1>4. \A t \in StepsOf(req[r]) : Rank[t] < Rank[s] => t \notin Pending(r)
    BY <1>1, <1>2 DEF IsNext
  <1>. QED
    BY <1>3, <1>4 DEF IsNext, Pending, DueStep

\* Writing down a finished step.
LEMMA OutcomeMode ==
  ASSUME NEW s \in Step
  PROVE  IF conf.dryRun THEN Outcome(s) \notin Real ELSE Outcome(s) # "simulated"
  BY DEF Outcome, Real
-----------------------------------------------------------------------------
\* A step elsewhere leaves a thread's dictionary current.
LEMMA CurrentKept ==
  ASSUME NEW q \in Request, CurrentAt(q), UNCHANGED <<conf, ledger>>,
         pc'[q] = pc[q] \/ pc'[q] \notin {"running", "acted"},
         results'[q] = results[q] \/ pc'[q] \notin {"running", "acted"},
         req'[q] = req[q] \/ pc'[q] \notin {"running", "acted"}
  PROVE  CurrentAt(q)'
  <1>1. CASE pc'[q] \notin {"running", "acted"}
    BY <1>1 DEF CurrentAt
  <1>2. CASE pc'[q] = pc[q] /\ results'[q] = results[q] /\ req'[q] = req[q]
    <2>1. Id(req[q])' = Id(req[q])
      BY <1>2 DEF Id
    <2>2. \A s \in Step : DueStep(q, s)' = DueStep(q, s) /\ Outcome(s)' = Outcome(s)
      BY <1>2, <2>1, Zenon DEF DueStep, Outcome
    <2>. QED BY <1>2, <2>1, <2>2 DEF CurrentAt
  <1>. QED BY <1>1, <1>2

\* One step of each kind preserves the inductive invariant.
LEMMA ReceiveInv ==
  ASSUME IInv, NEW r \in Request, NEW a \in Alert, Receive(r, a)
  PROVE  Exclusive' /\ Current' /\ Books' /\ AnsweredComplete'
  <1>. USE DEF IInv
  <1>1. /\ pc[r] = "idle" /\ pc'[r] = "waiting" /\ reply'[r] = "none"
        /\ \A q \in Request : q # r =>
             pc'[q] = pc[q] /\ req'[q] = req[q] /\ reply'[q] = reply[q]
        /\ UNCHANGED <<conf, store, results>>
    BY DEF Receive, TypeOK
  <1>2. Exclusive'
    BY <1>1 DEF Exclusive, Holds
  <1>3. Current'
    BY <1>1, CurrentKept DEF Current, store
  <1>4. Books'
    BY <1>1, BooksKept DEF Books
  <1>5. AnsweredComplete'
    BY <1>1 DEF AnsweredComplete, Id, store
  <1>. QED BY <1>2, <1>3, <1>4, <1>5

\* A thread that answers leaves the others where they are.
LEMMA Leaves ==
  ASSUME IInv, NEW r \in Request, NEW c, Answer(r, c), UNCHANGED <<conf, ledger, req>>,
         c \in {"ok", "duplicate"} =>
            \A s \in StepsOf(req[r]) : ledger[Id(req[r])][s] # "none"
  PROVE  Exclusive' /\ Current' /\ AnsweredComplete'
  <1>. USE DEF IInv
  <1>1. /\ pc'[r] = "idle" /\ reply'[r] = c
        /\ \A q \in Request : q # r =>
             pc'[q] = pc[q] /\ results'[q] = results[q] /\ reply'[q] = reply[q]
    BY DEF Answer, TypeOK
  <1>2. Exclusive'
    BY <1>1 DEF Exclusive, Holds
  <1>3. Current'
    BY <1>1, CurrentKept DEF Current
  <1>4. AnsweredComplete'
    BY <1>1 DEF AnsweredComplete, Id
  <1>. QED BY <1>2, <1>3, <1>4

\* Loading the row, failing to, and a step that is refused.
LEMMA LoadInv ==
  ASSUME IInv, NEW r \in Request, Load(r) \/ LoadFails(r) \/ PerformRefused(r)
  PROVE  Exclusive' /\ Current' /\ Books' /\ AnsweredComplete'
  <1>. USE DEF IInv
  <1>1. pc[r] # "acted" /\ UNCHANGED <<conf, store, req>>
    BY DEF Load, LoadFails, PerformRefused
  <1>2. CASE \E c \in {"duplicate", "error", "failed"} : Answer(r, c)
    <2>1. PICK c \in {"duplicate", "error", "failed"} :
            /\ Answer(r, c)
            /\ c = "duplicate" =>
                 \A s \in StepsOf(req[r]) : ledger[Id(req[r])][s] # "none"
      BY <1>2 DEF Load, LoadFails, PerformRefused, Answer, TypeOK
    <2>2. Exclusive' /\ Current' /\ AnsweredComplete'
      BY <1>1, <2>1, Leaves DEF store
    <2>3. \A q \in Request : /\ pc'[q] = "acted" <=> pc[q] = "acted"
                             /\ pc[q] = "acted" => results'[q] = results[q]
      BY <1>1, <2>1 DEF Answer, TypeOK
    <2>. QED BY <1>1, <2>2, <2>3, BooksKept DEF Books
  <1>3. CASE ~\E c \in {"duplicate", "error", "failed"} : Answer(r, c)
    <2>1. /\ LockFree /\ pc[r] = "waiting"
          /\ results' = [results EXCEPT ![r] = ledger[Id(req[r])]]
          /\ pc' = [pc EXCEPT ![r] = "running"] /\ UNCHANGED reply
      BY <1>3 DEF Load, LoadFails, PerformRefused
    <2>2. /\ pc'[r] = "running" /\ results'[r] = ledger[Id(req[r])]
          /\ \A q \in Request : q # r => pc'[q] = pc[q] /\ results'[q] = results[q]
      BY <2>1 DEF TypeOK
    <2>3. Exclusive'
      BY <2>1, <2>2 DEF Exclusive, LockFree, Holds
    <2>4. Current'
      <3>1. \A q \in Request \ {r} : CurrentAt(q)'
        BY <1>1, <2>2, CurrentKept DEF Current, store
      <3>2. CurrentAt(r)'
        BY <1>1, <2>2 DEF CurrentAt, Id, store
      <3>. QED BY <3>1, <3>2 DEF Current
    <2>5. Books'
      BY <1>1, <2>2, BooksKept DEF Books
    <2>6. AnsweredComplete'
      BY <1>1, <2>1 DEF AnsweredComplete, Id, store
    <2>. QED BY <2>3, <2>4, <2>5, <2>6
  <1>. QED BY <1>2, <1>3

\* Carrying out the due step puts its effect, if any, in flight.
LEMMA PerformInv ==
  ASSUME IInv, NEW r \in Request, Perform(r)
  PROVE  Exclusive' /\ Current' /\ Books' /\ AnsweredComplete'
  <1>. USE DEF IInv
  <1>. DEFINE i0 == Id(req[r])
  <1>1. PICK s \in Step :
          /\ IsNext(r, s)
          /\ results' = [results EXCEPT ![r][s] = Outcome(s)]
          /\ IF Outcome(s) \in Real THEN Effect(i0, s)
                                    ELSE UNCHANGED <<performed, firewall>>
    BY DEF Perform
  <1>2. /\ pc[r] = "running" /\ pc' = [pc EXCEPT ![r] = "acted"]
        /\ UNCHANGED <<conf, ledger, lost, req, reply, faults>>
    BY DEF Perform
  <1>3. i0 \in Identity /\ i0' = i0 /\ ledger[i0] \in [Step -> Result]
    BY <1>2, IdType DEF TypeOK, Id
  <1>4. DueStep(r, s) /\ results[r] = ledger[i0]
    BY <1>1, <1>2, NextIsDue
  <1>5. DueStep(r, s)' /\ Outcome(s)' = Outcome(s)
    BY <1>2, <1>3, <1>4 DEF DueStep, Outcome
  <1>6. results'[r] = [ledger[i0] EXCEPT ![s] = Outcome(s)] /\ pc'[r] = "acted"
    BY <1>1, <1>2, <1>4 DEF TypeOK
  <1>7. \A q \in Request : q # r => pc'[q] = pc[q] /\ results'[q] = results[q]
    BY <1>1, <1>2 DEF TypeOK
  <1>8. Exclusive'
    BY <1>2, <1>6, <1>7 DEF Exclusive, Holds
  <1>9. Current'
    <2>1. \A q \in Request \ {r} : CurrentAt(q)'
      BY <1>2, <1>7, CurrentKept DEF Current
    <2>2. CurrentAt(r)'
      BY <1>2, <1>3, <1>5, <1>6 DEF CurrentAt
    <2>. QED BY <2>1, <2>2 DEF Current
  <1>10. Books'
    <2>1. \A i \in Identity, t \in Step : ~InFlight(i, t)
      <3>1. \A q \in Request : pc[q] # "acted"
        BY <1>2 DEF Exclusive, Holds
      <3>. QED BY <3>1, NothingInFlight
    <2>2. \A i \in Identity, t \in Step :
             InFlight(i, t)' <=> i = i0 /\ t = s /\ Outcome(s) \in Real
      <3>1. TypeOK'
        BY TypeStep DEF Next, Serve
      <3>2. \A i \in Identity, t \in Step :
               InFlight(i, t)' <=> /\ i = i0 /\ ledger[i][t] = "none"
                                   /\ results'[r][t] \in Real
        BY <1>2, <1>3, <1>6, <1>8 DEF InFlight, Exclusive, Holds
      <3>3. results'[r][s] = Outcome(s) /\ ledger[i0][s] = "none"
        BY <1>3, <1>4, <1>6 DEF DueStep
      <3>4. \A t \in Step : t # s => results'[r][t] = ledger[i0][t]
        BY <1>3, <1>6
      <3>. QED BY <1>3, <3>2, <3>3, <3>4 DEF Real
    <2>3. performed \in [Identity -> [Step -> Nat]]
      BY DEF TypeOK
    <2>4. \A i \in Identity, t \in Step :
            performed'[i][t] = performed[i][t]
                 + IF i = i0 /\ t = s /\ Outcome(s) \in Real THEN 1 ELSE 0
      BY <1>1, <1>3, <2>3 DEF Effect
    <2>5. ledger[i0][s] = "none"
      BY <1>4 DEF DueStep
    <2>6. Accounted'
      BY <1>2, <2>1, <2>2, <2>3, <2>4, <2>5 DEF Accounted, TypeOK, Real
    <2>7. InOrder'
      BY <1>2 DEF InOrder
    <2>8. ModesApart'
      <3>1. i0.dry => Outcome(s) \notin Real
        BY OutcomeMode, IdType DEF TypeOK
      <3>. QED BY <1>2, <2>3, <2>4, <3>1 DEF ModesApart
    <2>. QED BY <2>6, <2>7, <2>8 DEF Books
  <1>11. AnsweredComplete'
    BY <1>2 DEF AnsweredComplete, Id
  <1>. QED BY <1>8, <1>9, <1>10, <1>11

\* A call reported as failed is either without effect or counted as lost.
LEMMA PerformFailsInv ==
  ASSUME IInv, NEW r \in Request, PerformFails(r)
  PROVE  Exclusive' /\ Current' /\ Books' /\ AnsweredComplete'
  <1>. USE DEF IInv
  <1>. DEFINE i0 == Id(req[r])
  <1>1. /\ pc[r] = "running" /\ Answer(r, "failed") /\ UNCHANGED <<conf, ledger, req>>
    BY DEF PerformFails, store
  <1>2. Exclusive' /\ Current' /\ AnsweredComplete'
    BY <1>1, Leaves
  <1>3. /\ \A q \in Request : pc[q] # "acted"
        /\ \A q \in Request : pc'[q] # "acted"
    BY <1>1 DEF Exclusive, Holds, Answer, TypeOK
  <1>4. /\ \A i \in Identity, t \in Step : ~InFlight(i, t)
        /\ \A i \in Identity, t \in Step : ~InFlight(i, t)'
    BY <1>3 DEF InFlight
  <1>5. CASE UNCHANGED store
    BY <1>1, <1>2, <1>3, <1>5, BooksKept DEF Books
  <1>6. CASE ~UNCHANGED store
    <2>1. PICK s \in Step : /\ Outcome(s) \in Real
                            /\ Effect(i0, s)
                            /\ lost' = [lost EXCEPT ![i0][s] = @ + 1]
      BY <1>6 DEF PerformFails
    <2>2. i0 \in Identity /\ i0.dry = conf.dryRun
      BY IdType DEF TypeOK
    <2>3. \A i \in Identity, t \in Step :
            /\ performed'[i][t] = performed[i][t] + IF i = i0 /\ t = s THEN 1 ELSE 0
            /\ lost'[i][t] = lost[i][t] + IF i = i0 /\ t = s THEN 1 ELSE 0
      BY <2>1, <2>2 DEF Effect, TypeOK
    <2>4. Accounted'
      BY SMTT(30), <1>1, <1>4, <2>3 DEF Accounted, TypeOK
    <2>5. InOrder'
      BY <1>1 DEF InOrder
    <2>6. ModesApart'
      <3>1. ~i0.dry
        BY <2>1, <2>2, OutcomeMode
      <3>. QED BY SMTT(30), <1>1, <2>3, <3>1 DEF ModesApart, TypeOK
    <2>. QED BY <1>2, <2>4, <2>5, <2>6 DEF Books
  <1>. QED BY <1>5, <1>6

\* What one checkpoint writes: the due step, and nothing else.
LEMMA CheckpointWrites ==
  ASSUME IInv, NEW r \in Request, Checkpoint(r)
  PROVE  \E s \in Step :
            /\ DueStep(r, s)
            /\ results[r] = [ledger[Id(req[r])] EXCEPT ![s] = Outcome(s)]
            /\ ledger'[Id(req[r])][s] = Outcome(s)
            /\ \A i \in Identity, t \in Step :
                  i # Id(req[r]) \/ t # s => ledger'[i][t] = ledger[i][t]
  <1>1. pc[r] = "acted" /\ ledger' = [ledger EXCEPT ![Id(req[r])] = results[r]]
    BY DEF Checkpoint
  <1>2. Id(req[r]) \in Identity /\ ledger \in [Identity -> [Step -> Result]]
    BY IdType DEF IInv, TypeOK
  <1>3. PICK s \in Step :
           /\ DueStep(r, s)
           /\ results[r] = [ledger[Id(req[r])] EXCEPT ![s] = Outcome(s)]
    BY <1>1 DEF IInv, Current, CurrentAt
  <1>. QED BY ZenonT(30), <1>1, <1>2, <1>3

\* The checkpoint of the step that was performed.
LEMMA CheckpointInv ==
  ASSUME IInv, NEW r \in Request, Checkpoint(r)
  PROVE  Exclusive' /\ Current' /\ Books' /\ AnsweredComplete'
  <1>. USE DEF IInv
  <1>. DEFINE i0 == Id(req[r])
  <1>1. PICK s \in Step :
           /\ DueStep(r, s)
           /\ results[r] = [ledger[i0] EXCEPT ![s] = Outcome(s)]
           /\ ledger'[i0][s] = Outcome(s)
           /\ \A i \in Identity, t \in Step : i # i0 \/ t # s =>
                                                ledger'[i][t] = ledger[i][t]
    BY CheckpointWrites
  <1>2. /\ pc[r] = "acted" /\ ledger' = [ledger EXCEPT ![i0] = results[r]]
        /\ UNCHANGED <<conf, performed, lost, firewall, req, faults>>
    BY DEF Checkpoint
  <1>3. i0 \in Identity /\ i0.alert = req[r] /\ i0.dry = conf.dryRun
    BY IdType DEF TypeOK
  <1>4. /\ pc'[r] \in {"idle", "running"}
        /\ pc'[r] = "running" => results'[r] = results[r]
        /\ \A q \in Request : q # r => /\ pc'[q] = pc[q] /\ results'[q] = results[q]
                                       /\ reply'[q] = reply[q]
    BY DEF Checkpoint, Answer, TypeOK
  <1>5. \A q \in Request : q # r => pc[q] \notin {"running", "acted"}
    BY <1>2 DEF Exclusive, Holds
  <1>6. Exclusive'
    BY <1>4, <1>5 DEF Exclusive, Holds
  <1>7. Current'
    <2>1. pc'[r] = "running" => results'[r] = ledger'[Id(req[r])']
      BY <1>2, <1>3, <1>4 DEF Id, TypeOK
    <2>. QED BY <1>4, <1>5, <2>1 DEF Current, CurrentAt
  <1>8. Outcome(s) # "none" /\ ledger[i0][s] = "none"
    BY <1>1, OutcomeType DEF DueStep
  <1>9. Books'
    <2>1. \A i \in Identity, t \in Step :
             InFlight(i, t) <=> i = i0 /\ t = s /\ Outcome(s) \in Real
      BY <1>1, <1>2, OneInFlight
    <2>2. \A i \in Identity, t \in Step : ~InFlight(i, t)'
      BY <1>4, <1>5 DEF InFlight
    <2>3. Accounted'
      BY <1>1, <1>2, <1>3, <1>8, <2>1, <2>2 DEF Accounted, Real
    <2>4. InOrder'
      <3>. SUFFICES ASSUME NEW i \in Identity, NEW t \in Step, ledger'[i][t] # "none"
                    PROVE  /\ t \in StepsOf(i.alert)
                           /\ \A u \in StepsOf(i.alert) :
                                 Rank[u] < Rank[t] => ledger'[i][u] # "none"
        BY DEF InOrder
      <3>1. StepsOf(i.alert) \subseteq Step
        BY DEF StepsOf, Step
      <3>2. CASE i = i0 /\ t = s
        BY <1>1, <1>3, <1>8, <3>1, <3>2 DEF DueStep
      <3>3. CASE ~(i = i0 /\ t = s)
        <4>1. ledger[i][t] # "none"
          BY <1>1, <3>3
        <4>2. /\ t \in StepsOf(i.alert)
              /\ \A u \in StepsOf(i.alert) : Rank[u] < Rank[t] => ledger[i][u] # "none"
          BY <4>1 DEF InOrder
        <4>. QED BY <1>1, <1>8, <3>1, <4>2
      <3>. QED BY <3>2, <3>3
    <2>5. ModesApart'
      BY <1>1, <1>2, <1>3, OutcomeMode DEF ModesApart
    <2>. QED BY <2>3, <2>4, <2>5 DEF Books
  <1>10. AnsweredComplete'
    <2>. SUFFICES ASSUME NEW q \in Request, reply'[q] \in {"ok", "duplicate"},
                         NEW t \in StepsOf(req[q])
                  PROVE  ledger'[Id(req[q])][t] # "none"
      BY <1>2 DEF AnsweredComplete, Id
    <2>1. t \in Step /\ Id(req[q]) \in Identity
      BY IdType DEF StepsOf, Step, TypeOK
    <2>2. CASE ledger[Id(req[q])][t] # "none"
      BY <1>1, <1>8, <2>1, <2>2
    <2>3. CASE q # r
      BY <1>4, <2>2, <2>3 DEF AnsweredComplete
    <2>4. CASE q = r
      <3>1. CASE Pending(r) = {}
        BY <1>2, <1>3, <2>1, <2>4, <3>1 DEF Pending, TypeOK
      <3>2. CASE Pending(r) # {}
        BY <2>2, <2>4, <3>2 DEF Checkpoint, AnsweredComplete
      <3>. QED BY <3>1, <3>2
    <2>. QED BY <2>3, <2>4
  <1>. QED BY <1>6, <1>7, <1>9, <1>10

\* Losing what is in flight balances the books once nothing is in flight.
LEMMA LosingBalances ==
  ASSUME IInv, LoseInFlight, UNCHANGED <<ledger, performed>>,
         \A q \in Request : pc'[q] # "acted"
  PROVE  Books'
  <1>1. \A i \in Identity, t \in Step : ~InFlight(i, t)'
    BY DEF InFlight
  <1>2. \A i \in Identity, t \in Step :
          InFlight(i, t) => ledger[i][t] \notin Real
    BY DEF InFlight, Real
  <1>3. \A i \in Identity, t \in Step :
          lost'[i][t] = lost[i][t] + IF InFlight(i, t) THEN 1 ELSE 0
    BY DEF LoseInFlight
  <1>4. Accounted'
    BY <1>1, <1>2, <1>3 DEF IInv, Accounted, TypeOK
  <1>. QED BY <1>4 DEF IInv, Books, InOrder, ModesApart

\* A checkpoint that fails loses the effect in flight.
LEMMA CheckpointFailsInv ==
  ASSUME IInv, NEW r \in Request, CheckpointFails(r)
  PROVE  Exclusive' /\ Current' /\ Books' /\ AnsweredComplete'
  <1>1. /\ pc[r] = "acted" /\ Answer(r, "error") /\ LoseInFlight
        /\ UNCHANGED <<conf, ledger, performed, req>>
    BY DEF CheckpointFails
  <1>2. Exclusive' /\ Current' /\ AnsweredComplete'
    BY <1>1, Leaves
  <1>3. \A q \in Request : pc'[q] # "acted"
    BY <1>1 DEF IInv, Exclusive, Holds, Answer, TypeOK
  <1>. QED BY <1>1, <1>2, <1>3, LosingBalances

\* So does a restart, which leaves no thread.
LEMMA RestartInv ==
  ASSUME IInv, NEW c \in Config, Restart(c)
  PROVE  Exclusive' /\ Current' /\ Books' /\ AnsweredComplete'
  <1>1. /\ \A q \in Request : pc'[q] = "idle" /\ reply'[q] = "none"
        /\ LoseInFlight /\ UNCHANGED <<ledger, performed>>
    BY DEF Restart
  <1>2. Exclusive' /\ Current' /\ AnsweredComplete'
    BY <1>1 DEF Exclusive, Holds, Current, CurrentAt, AnsweredComplete
  <1>. QED BY <1>1, <1>2, LosingBalances

\* Steps of others.
LEMMA StutterInv ==
  ASSUME IInv, UNCHANGED vars
  PROVE  Exclusive' /\ Current' /\ Books' /\ AnsweredComplete'
  <1>. USE DEF IInv, vars, store, threads
  <1>1. Exclusive' /\ AnsweredComplete'
    BY DEF Exclusive, Holds, AnsweredComplete, Id
  <1>2. Current'
    BY CurrentKept DEF Current
  <1>3. Books'
    BY BooksKept DEF Books
  <1>. QED BY <1>1, <1>2, <1>3

\* The initial states satisfy the invariant.
LEMMA InvInit == Init => IInv
  <1>. SUFFICES ASSUME Init PROVE IInv
    OBVIOUS
  <1>1. \A q \in Request : pc[q] = "idle" /\ reply[q] = "none"
    BY DEF Init
  <1>2. \A i \in Identity, t \in Step : /\ ledger[i][t] = "none"
                                        /\ performed[i][t] = 0 /\ lost[i][t] = 0
    BY DEF Init, NoResult
  <1>3. Exclusive /\ Current /\ AnsweredComplete
    BY <1>1 DEF Exclusive, Holds, Current, CurrentAt, AnsweredComplete
  <1>4. Accounted /\ InOrder /\ ModesApart
    BY <1>1, <1>2 DEF Accounted, InFlight, InOrder, ModesApart, Real
  <1>. QED BY <1>3, <1>4, TypeInit DEF IInv

\* Every step keeps it.
LEMMA InvStep == IInv /\ [Next]_vars => IInv'
  <1>. SUFFICES ASSUME IInv, [Next]_vars PROVE IInv'
    OBVIOUS
  <1>1. TypeOK'
    BY TypeStep DEF IInv
  <1>2. Exclusive' /\ Current' /\ Books' /\ AnsweredComplete'
    BY ReceiveInv, LoadInv, PerformInv, PerformFailsInv, CheckpointInv,
       CheckpointFailsInv, RestartInv, StutterInv DEF Next, Serve
  <1>. QED BY <1>1, <1>2 DEF IInv, Books

\* It holds in every reachable state.
LEMMA Invariant == Spec => []IInv
  BY InvInit, InvStep, PTL DEF Spec

-----------------------------------------------------------------------------
\* Whatever the threads, failures and restarts, a step takes effect once more
\* than its checkpoint records only where the ledger lost track of it.
THEOREM EffectsAccounted == Spec => []Accounted
  BY Invariant, PTL DEF IInv

\* An alert answered 200 has every step checkpointed.
THEOREM AnswersComplete == Spec => []AnsweredComplete
  BY Invariant, PTL DEF IInv

\* Checkpoints are in the order of the steps.
THEOREM CheckpointsInOrder == Spec => []InOrder
  BY Invariant, PTL DEF IInv

\* Rehearsals have no effect and do not count as the real thing.
THEOREM RehearsalsApart == Spec => []ModesApart
  BY Invariant, PTL DEF IInv

-----------------------------------------------------------------------------
\* Seen through the ledger and the effects, a step of Soar is one of three: it
\* shows nothing, a due step takes effect, or a due step is recorded.
DueAt(i, s) ==
    /\ s \in StepsOf(i.alert) /\ ledger[i][s] = "none"
    /\ \A t \in StepsOf(i.alert) : Rank[t] < Rank[s] => ledger[i][t] # "none"

TakesEffect(i, s) ==
    DueAt(i, s) /\ performed' = [performed EXCEPT ![i][s] = @ + 1] /\ UNCHANGED ledger

Records(i, s) ==
    \E k \in Result \ {"none"} :
        /\ DueAt(i, s)
        /\ k \in Real => performed[i][s] > 0
        /\ ledger' = [ledger EXCEPT ![i][s] = k]
        /\ UNCHANGED performed

\* What a step shows to the outside: an effect, a recorded result, or nothing.
LEMMA StepShows ==
  ASSUME IInv, [Next]_vars
  PROVE  \/ UNCHANGED <<ledger, performed>>
         \/ \E i \in Identity, s \in Step : TakesEffect(i, s) \/ Records(i, s)
  <1>. DEFINE Goal == \/ UNCHANGED <<ledger, performed>>
                      \/ \E i \in Identity, s \in Step : TakesEffect(i, s) \/ Records(i, s)
  <1>. USE DEF IInv
  <1>1. ASSUME NEW r \in Request, NEW s \in Step, pc[r] = "running", IsNext(r, s),
               Effect(Id(req[r]), s), UNCHANGED ledger
        PROVE  Goal
    <2>1. Id(req[r]) \in Identity /\ Id(req[r]).alert = req[r]
      BY IdType DEF TypeOK
    <2>2. DueStep(r, s)
      BY <1>1, NextIsDue
    <2>3. TakesEffect(Id(req[r]), s)
      BY <1>1, <2>1, <2>2 DEF TakesEffect, DueAt, DueStep, Effect
    <2>. QED BY <2>1, <2>3
  <1>2. ASSUME NEW r \in Request, Perform(r) PROVE Goal
    BY <1>1, <1>2 DEF Perform
  <1>3. ASSUME NEW r \in Request, PerformFails(r) PROVE Goal
    BY <1>1, <1>3 DEF PerformFails, store
  <1>4. ASSUME NEW r \in Request, Checkpoint(r) PROVE Goal
    <2>. DEFINE i0 == Id(req[r])
    <2>1. PICK s \in Step :
             /\ DueStep(r, s)
             /\ results[r] = [ledger[i0] EXCEPT ![s] = Outcome(s)]
      BY <1>4, CheckpointWrites
    <2>2. i0 \in Identity /\ i0.alert = req[r]
      BY IdType DEF TypeOK
    <2>3. ledger' = [ledger EXCEPT ![i0][s] = Outcome(s)] /\ UNCHANGED performed
      BY <1>4, <2>1, <2>2 DEF Checkpoint, TypeOK
    <2>4. Outcome(s) \in Real => performed[i0][s] > 0
      <3>1. InFlight(i0, s) <=> Outcome(s) \in Real
        BY <1>4, <2>1, <2>2, OneInFlight DEF Checkpoint
      <3>2. lost[i0][s] \in Nat
        BY <2>2 DEF TypeOK
      <3>. QED BY <2>2, <3>1, <3>2 DEF Accounted
    <2>5. DueAt(i0, s)
      BY <2>1, <2>2 DEF DueAt, DueStep
    <2>6. Outcome(s) \in Result \ {"none"}
      BY OutcomeType
    <2>. HIDE DEF i0
    <2>7. Records(i0, s)
      BY <2>3, <2>4, <2>5, <2>6, Zenon DEF Records
    <2>. QED BY <2>2, <2>7
  <1>5. CASE UNCHANGED <<ledger, performed>>
    BY <1>5
  <1>. QED
    BY <1>2, <1>3, <1>4, <1>5
       DEF Next, Serve, Receive, Load, LoadFails, PerformRefused, CheckpointFails,
           Restart, store, vars

\* No retry, concurrent copy, restart or change of mode repeats a recorded step
\* or rewrites its record.
THEOREM NeverReplayed == Spec => NotReplayed
  <1>1. ASSUME IInv, [Next]_vars, NEW i \in Identity, NEW s \in Step,
               ledger[i][s] # "none"
        PROVE  performed'[i][s] = performed[i][s] /\ ledger'[i][s] = ledger[i][s]
    <2>1. CASE UNCHANGED <<ledger, performed>>
      BY <2>1
    <2>2. ASSUME NEW j \in Identity, NEW t \in Step, TakesEffect(j, t) \/ Records(j, t)
          PROVE  performed'[i][s] = performed[i][s] /\ ledger'[i][s] = ledger[i][s]
      <3>1. i # j \/ s # t
        BY <1>1, <2>2 DEF TakesEffect, Records, DueAt
      <3>. QED
        BY <1>1, <2>2, <3>1 DEF TakesEffect, Records, IInv, TypeOK
    <2>. QED BY <1>1, <2>1, <2>2, StepShows
  <1>2. IInv /\ [Next]_vars =>
          [\A i \in Identity, s \in Step : ledger[i][s] # "none" =>
                /\ performed'[i][s] = performed[i][s]
                /\ ledger'[i][s] = ledger[i][s]]_vars
    BY <1>1
  <1>. QED BY <1>2, Invariant, PTL DEF Spec, NotReplayed

\* One entry of a table of tables, changed.
LEMMA UpdateTable ==
  ASSUME NEW A, NEW B, NEW V, NEW f \in [A -> [B -> V]], NEW a \in A, NEW b \in B, NEW v
  PROVE  [f EXCEPT ![a][b] = v] =
            [x \in A |-> [y \in B |-> IF x = a /\ y = b THEN v ELSE f[x][y]]]
  <1>1. [f EXCEPT ![a][b] = v] = [f EXCEPT ![a] = [f[a] EXCEPT ![b] = v]]
    OBVIOUS
  <1>2. [f[a] EXCEPT ![b] = v] = [y \in B |-> IF y = b THEN v ELSE f[a][y]]
    OBVIOUS
  <1>3. \A x \in A : f[x] = [y \in B |-> f[x][y]]
    OBVIOUS
  <1>. QED BY <1>1, <1>2, <1>3

\* Initial states and steps of Soar are initial states and steps of Playbook.
LEMMA InitMaps == Init => P!Init
  <1>. SUFFICES ASSUME Init PROVE P!Init
    OBVIOUS
  <1>1. \A i \in Identity, s \in Step : ledger[i][s] = "none"
    BY DEF Init, NoResult
  <1>. QED BY <1>1 DEF Init, P!Init, Recorded

\* Each step of the webhook is a step of Playbook, or leaves what it shows as it is.
LEMMA StepMaps == IInv /\ [Next]_vars => [P!Next]_<<Recorded, performed>>
  <1>. SUFFICES ASSUME IInv, [Next]_vars PROVE [P!Next]_<<Recorded, performed>>
    OBVIOUS
  <1>1. CASE UNCHANGED <<ledger, performed>>
    BY <1>1 DEF Recorded
  <1>2. \A i \in Identity, s \in Step : DueAt(i, s) => P!Due(i, s)
    <2>1. \A i \in Identity : StepsOf(i.alert) \subseteq Step
      BY DEF StepsOf, Step
    <2>. QED BY <2>1 DEF DueAt, P!Due, Recorded, Before
  <1>3. ASSUME NEW i \in Identity, NEW s \in Step, TakesEffect(i, s)
        PROVE  P!TakeEffect(i, s)
    BY <1>2, <1>3 DEF TakesEffect, P!TakeEffect, Recorded
  <1>4. ASSUME NEW i \in Identity, NEW s \in Step, Records(i, s)
        PROVE  \E k \in {"idle", "real"} : P!Record(i, s, k)
    <2>1. PICK k \in Result \ {"none"} :
             /\ DueAt(i, s)
             /\ k \in Real => performed[i][s] > 0
             /\ ledger' = [ledger EXCEPT ![i][s] = k]
             /\ UNCHANGED performed
      BY <1>4 DEF Records
    <2>. DEFINE kk == IF k \in Real THEN "real" ELSE "idle"
    <2>2. Recorded' = [Recorded EXCEPT ![i][s] = kk]
      <3>1. \A j \in Identity, t \in Step :
               ledger'[j][t] = IF j = i /\ t = s THEN k ELSE ledger[j][t]
        BY <2>1 DEF IInv, TypeOK
      <3>2. Recorded' = [j \in Identity |-> [t \in Step |->
                            IF j = i /\ t = s THEN kk ELSE Recorded[j][t]]]
        BY <3>1 DEF Recorded
      <3>3. Recorded \in [Identity -> [Step -> {"no", "idle", "real"}]]
        BY DEF Recorded
      <3>. HIDE DEF kk
      <3>4. [Recorded EXCEPT ![i][s] = kk] =
               [j \in Identity |-> [t \in Step |->
                   IF j = i /\ t = s THEN kk ELSE Recorded[j][t]]]
        BY <3>3, UpdateTable, Zenon
      <3>. QED BY <3>2, <3>4, Zenon
    <2>3. P!Record(i, s, kk)
      BY <1>2, <2>1, <2>2 DEF P!Record
    <2>. QED BY <2>3
  <1>. QED BY <1>1, <1>3, <1>4, StepShows DEF P!Next

\* Soar implements Playbook: the ledger and the effects of every behaviour of the
\* webhook are those of a remediation in order, retried but never replayed.
THEOREM Implements == Spec => ImplementsPlaybook
  BY InitMaps, StepMaps, Invariant, PTL DEF Spec, ImplementsPlaybook, P!Spec

=============================================================================
