-------------------------------- MODULE Soar --------------------------------
(***************************************************************************)
(* The SOAR webhook of 06-soar-automation: app.py serves each alert in a   *)
(* thread of its own and, holding the process's only lock, carries out the *)
(* alert's remediation steps in order (actions.py), writing a checkpoint   *)
(* of the results in a SQLite ledger after each one.  The ledger outlives  *)
(* the process; the lock, the threads and their answers do not.            *)
(*                                                                         *)
(* A step with an effect outside the process (a firewall rule, a message,  *)
(* a revoked token) may take effect and still be reported as failed: a     *)
(* call that times out, a checkpoint that cannot be written, a crash.      *)
(* Each of these, and each plain failure, spends one of MaxFaults.         *)
(***************************************************************************)
EXTENDS Integers, FiniteSets

CONSTANTS Alert,        \* alert bodies, each with its own @timestamp
          Ip,           \* source addresses
          AlertIp,      \* the source address of an alert
          Revoking,     \* the alerts that carry a token_jti
          Config,       \* environments the process may be started with
          Request,      \* request threads of the server
          MaxFaults     \* bound on failures and restarts

Step    == {"block_ip", "notify", "revoke_token"}
Rank    == [block_ip |-> 1, notify |-> 2, revoke_token |-> 3]
Url     == {"none", "invalid", "valid"}
Real    == {"applied", "sent"}
Result  == Real \cup {"none", "simulated", "not_configured"}
Identity == [dry : BOOLEAN, alert : Alert]

ASSUME SoarAssumption ==
    /\ AlertIp \in [Alert -> Ip]
    /\ Revoking \subseteq Alert
    /\ Config \subseteq [dryRun : BOOLEAN, url : Url, scope : SUBSET Ip]
    /\ Config # {}
    /\ MaxFaults \in Nat

VARIABLES conf,      \* SOAR_MODE, NOTIFICATION_WEBHOOK_URL, SOAR_ALLOWED_NETWORKS
          ledger,    \* the table of actions: identity -> step -> result
          firewall,  \* addresses dropped by the container's firewall
          performed, \* how often a step really took effect, per identity
          lost,      \* how many of those no checkpoint will ever record
          pc,        \* where each request thread is
          req,       \* the alert each thread handles
          results,   \* its local dictionary of results
          reply,     \* its answer
          faults

store   == <<ledger, performed, lost, firewall>>
threads == <<pc, req, results, reply>>
vars    == <<conf, store, threads, faults>>

NoResult == [s \in Step |-> "none"]
\* Mutant of Id: the identity leaves SOAR_MODE out.
IdOfAlert(a) == [dry |-> FALSE, alert |-> a]

Id(a) == [dry |-> conf.dryRun, alert |-> a]

StepsOf(a) == {"block_ip", "notify"}
                \cup (IF a \in Revoking THEN {"revoke_token"} ELSE {})
\* Mutants of Pending: the loop repeats recorded steps, or forgets the revocation.
PendingAll(r)      == StepsOf(req[r])
PendingUnrevoked(r) == {s \in {"block_ip", "notify"} : results[r][s] = "none"}

Pending(r) == {s \in StepsOf(req[r]) : results[r][s] = "none"}
\* Mutant of IsNext: the steps come in any order.
IsAnyNext(r, s) == s \in Pending(r)

\* The loop visits the steps in the order of the dictionary and skips the
\* ones that already have a result.
IsNext(r, s) == /\ s \in Pending(r)
                /\ \A t \in Pending(r) : Rank[s] <= Rank[t]
\* Mutant of Outcome: a result that no reader of the ledger knows.
OutcomeUnknown(s) == IF conf.dryRun THEN "dry_run" ELSE "applied"

\* What an action that succeeds returns.
Outcome(s) ==
    IF s = "notify" /\ conf.url = "none" THEN "not_configured"
    ELSE IF conf.dryRun THEN "simulated"
    ELSE IF s = "notify" THEN "sent" ELSE "applied"

\* The two ValueErrors: an address outside the remediation scope (real mode
\* only) and a URL that is not an HTTPS webhook (in either mode).
Refused(a, s) ==
    \/ s = "block_ip" /\ ~conf.dryRun /\ AlertIp[a] \notin conf.scope
    \/ s = "notify" /\ conf.url = "invalid"

\* The with-statement holds the lock exactly in these places.
Holds(r) == pc[r] \in {"running", "acted"}
\* Mutant of LockFree: no lock.
NoLock == TRUE

LockFree == \A q \in Request : ~Holds(q)

\* The effect outside the process.  iptables -C keeps the rule single, the
\* identity provider ignores a second revocation, a webhook repeats itself.
Effect(i, s) ==
    /\ performed' = [performed EXCEPT ![i][s] = @ + 1]
    /\ firewall' = IF s = "block_ip" THEN firewall \cup {AlertIp[i.alert]}
                                     ELSE firewall

\* A step took effect and its checkpoint has not been written yet.
InFlight(i, s) ==
    \E r \in Request : /\ pc[r] = "acted" /\ Id(req[r]) = i
                       /\ ledger[i][s] = "none" /\ results[r][s] \in Real

LoseInFlight ==
    lost' = [i \in Identity |-> [s \in Step |->
                lost[i][s] + IF InFlight(i, s) THEN 1 ELSE 0]]
\* Mutant of Answer: the lock is not given back.
AnswerHolding(r, code) ==
    pc' = pc /\ reply' = [reply EXCEPT ![r] = code] /\ UNCHANGED results

\* Leave the with-statement: the lock and the local dictionary are gone.
Answer(r, code) ==
    /\ pc' = [pc EXCEPT ![r] = "idle"]
    /\ reply' = [reply EXCEPT ![r] = code]
    /\ results' = [results EXCEPT ![r] = NoResult]

Fault == faults < MaxFaults /\ faults' = faults + 1

-----------------------------------------------------------------------------
Init ==
    /\ conf \in Config
    /\ ledger = [i \in Identity |-> NoResult]
    /\ performed = [i \in Identity |-> [s \in Step |-> 0]]
    /\ lost = [i \in Identity |-> [s \in Step |-> 0]]
    /\ firewall = {}
    /\ pc = [r \in Request |-> "idle"]
    /\ req \in [Request -> Alert]
    /\ results = [r \in Request |-> NoResult]
    /\ reply = [r \in Request |-> "none"]
    /\ faults = 0

\* A request with the right bearer token and a well-formed body arrives.  It
\* may repeat an alert that another thread is still handling: forward_alert.py
\* gives up after ten seconds, the thread it leaves behind does not.
Receive(r, a) ==
    /\ pc[r] = "idle"
    /\ pc' = [pc EXCEPT ![r] = "waiting"]
    /\ req' = [req EXCEPT ![r] = a]
    /\ reply' = [reply EXCEPT ![r] = "none"]
    /\ UNCHANGED <<conf, store, results, faults>>

\* Take the lock and read the row of this identity; an alert with every
\* result recorded is answered as a duplicate.
Load(r) ==
    /\ pc[r] = "waiting" /\ LockFree
    /\ IF \A s \in StepsOf(req[r]) : ledger[Id(req[r])][s] # "none"
         THEN Answer(r, "duplicate")
         ELSE /\ results' = [results EXCEPT ![r] = ledger[Id(req[r])]]
              /\ pc' = [pc EXCEPT ![r] = "running"]
              /\ UNCHANGED reply
    /\ UNCHANGED <<conf, store, req, faults>>

\* The database cannot be opened or read: an unhandled error, answered 500.
LoadFails(r) ==
    /\ pc[r] = "waiting" /\ LockFree
    /\ Fault
    /\ Answer(r, "error")
    /\ UNCHANGED <<conf, store, req>>

\* The next action returns.
Perform(r) ==
    /\ pc[r] = "running"
    /\ \E s \in Step :
         /\ IsNext(r, s) /\ ~Refused(req[r], s)
         /\ results' = [results EXCEPT ![r][s] = Outcome(s)]
         /\ IF Outcome(s) \in Real THEN Effect(Id(req[r]), s)
                                   ELSE UNCHANGED <<performed, firewall>>
    /\ pc' = [pc EXCEPT ![r] = "acted"]
    /\ UNCHANGED <<conf, ledger, lost, req, reply, faults>>

\* The next action refuses its argument or its configuration: 502, and the
\* steps after it are not tried.
PerformRefused(r) ==
    /\ pc[r] = "running"
    /\ \E s \in Step : IsNext(r, s) /\ Refused(req[r], s)
    /\ Answer(r, "failed")
    /\ UNCHANGED <<conf, store, req, faults>>

\* A call to the firewall, the webhook or the identity provider fails or times
\* out: 502.  What it asked for may have happened all the same.
PerformFails(r) ==
    /\ pc[r] = "running"
    /\ Fault
    /\ \E s \in Step :
         /\ IsNext(r, s) /\ ~Refused(req[r], s) /\ Outcome(s) \in Real
         /\ \/ UNCHANGED store
            \/ /\ Effect(Id(req[r]), s)
               /\ lost' = [lost EXCEPT ![Id(req[r])][s] = @ + 1]
               /\ UNCHANGED ledger
    /\ Answer(r, "failed")
    /\ UNCHANGED <<conf, req>>

\* INSERT OR REPLACE writes the whole local dictionary over the row.
Checkpoint(r) ==
    /\ pc[r] = "acted"
    /\ ledger' = [ledger EXCEPT ![Id(req[r])] = results[r]]
    /\ IF Pending(r) = {}
         THEN Answer(r, "ok")
         ELSE pc' = [pc EXCEPT ![r] = "running"] /\ UNCHANGED <<reply, results>>
    /\ UNCHANGED <<conf, performed, lost, firewall, req, faults>>

\* The row cannot be written: the transaction rolls back, the error is not
\* the handled kind and the caller gets a 500.
CheckpointFails(r) ==
    /\ pc[r] = "acted"
    /\ Fault
    /\ LoseInFlight
    /\ Answer(r, "error")
    /\ UNCHANGED <<conf, ledger, performed, firewall, req>>

\* The process stops at any point and comes back with environment c.  The
\* firewall belongs to the container, which may have been recreated.
Restart(c) ==
    /\ Fault
    /\ conf' = c
    /\ LoseInFlight
    /\ firewall' \in {firewall, {}}
    /\ pc' = [r \in Request |-> "idle"]
    /\ results' = [r \in Request |-> NoResult]
    /\ reply' = [r \in Request |-> "none"]
    /\ UNCHANGED <<ledger, performed, req>>

Serve(r) == \/ Load(r)       \/ LoadFails(r)
            \/ Perform(r)    \/ PerformRefused(r) \/ PerformFails(r)
            \/ Checkpoint(r) \/ CheckpointFails(r)

Next == \/ \E r \in Request : Serve(r) \/ \E a \in Alert : Receive(r, a)
        \/ \E c \in Config : Restart(c)

Spec == Init /\ [][Next]_vars

\* A thread that holds the lock goes on: every action it calls has a timeout.
FairSpec == Spec /\ \A r \in Request :
                       WF_vars(Holds(r) /\ Serve(r))

-----------------------------------------------------------------------------
TypeOK ==
    /\ conf \in Config
    /\ ledger \in [Identity -> [Step -> Result]]
    /\ firewall \subseteq Ip
    /\ performed \in [Identity -> [Step -> Nat]]
    /\ lost \in [Identity -> [Step -> Nat]]
    /\ pc \in [Request -> {"idle", "waiting", "running", "acted"}]
    /\ req \in [Request -> Alert]
    /\ results \in [Request -> [Step -> Result]]
    /\ reply \in [Request -> {"none", "ok", "duplicate", "failed", "error"}]
    /\ faults \in 0..MaxFaults

\* Every real effect of a step is accounted for: it is the one its checkpoint
\* records, the one whose checkpoint is about to be written, or one that a
\* crash, a timeout or a failed write made the ledger miss.  Without such a
\* loss no step of an alert takes effect twice, whoever sends the alert and
\* however often (the comment at app.py:62, README.md:3).
Accounted ==
    \A i \in Identity, s \in Step :
        performed[i][s] = lost[i][s] + IF ledger[i][s] \in Real \/ InFlight(i, s)
                                         THEN 1 ELSE 0

\* A 200 tells the caller that every step of its alert is checkpointed: the
\* answer survives a restart, and a duplicate was complete when it arrived.
AnsweredComplete ==
    \A r \in Request : reply[r] \in {"ok", "duplicate"} =>
        \A s \in StepsOf(req[r]) : ledger[Id(req[r])][s] # "none"

\* No checkpoint overtakes an earlier step: a token is not revoked on behalf of
\* an alert whose block or notification is still owed (the loop of app.py:72).
InOrder ==
    \A i \in Identity, s \in Step : ledger[i][s] # "none" =>
        /\ s \in StepsOf(i.alert)
        /\ \A t \in StepsOf(i.alert) : Rank[t] < Rank[s] => ledger[i][t] # "none"

\* A rehearsal in dry-run has no effect and never passes for the real thing:
\* after the operator switches SOAR_MODE and resends, no result is a simulation.
ModesApart ==
    \A i \in Identity, s \in Step :
        IF i.dry THEN performed[i][s] = 0 /\ ledger[i][s] \notin Real
                 ELSE ledger[i][s] # "simulated"

\* A recorded step is never carried out again and its record never changes,
\* through retries, concurrent copies of the alert, restarts and mode changes.
NotReplayed ==
    [][\A i \in Identity, s \in Step : ledger[i][s] # "none" =>
            /\ performed'[i][s] = performed[i][s]
            /\ ledger'[i][s] = ledger[i][s]]_vars

\* The lock is always given back: neither a refused step nor a failed one
\* keeps the other alerts out.
LockReleased == \A r \in Request : Holds(r) ~> ~Holds(r)

-----------------------------------------------------------------------------
\* The webhook carries out the playbook: every interleaving of its threads,
\* failures and restarts, seen through the ledger and the effects alone, is a
\* remediation that Playbook allows.
Recorded == [i \in Identity |-> [s \in Step |->
                IF ledger[i][s] = "none" THEN "no"
                ELSE IF ledger[i][s] \in Real THEN "real" ELSE "idle"]]

Before == [i \in Identity |-> [s \in Step |->
                {t \in StepsOf(i.alert) : Rank[t] < Rank[s]}]]

P == INSTANCE Playbook WITH Job <- Identity, Earlier <- Before,
                            recorded <- Recorded, effects <- performed

\* Soar implements Playbook.
ImplementsPlaybook == P!Spec

=============================================================================
