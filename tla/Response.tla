------------------------------ MODULE Response ------------------------------
(***************************************************************************)
(* The SOAR webhook and the identity provider together: the step           *)
(* revoke_token of an alert (actions.py:28) is a POST /revoke to the       *)
(* provider, whose table decides what the middleware grants from then on.  *)
(* Everything else the two do on their own, in any interleaving.           *)
(***************************************************************************)
EXTENDS Tokens

CONSTANTS Alert, Ip, AlertIp, Revoking, Config, Request, MaxFaults,  \* of Soar
          JtiOf      \* the token_jti of the alerts that carry one


VARIABLES conf, ledger, firewall, performed, lost,
          req, results, reply, faults,
          webhook,   \* the pc of Soar
          late       \* history: the call began after the webhook's 200

S == INSTANCE Soar WITH pc <- webhook

ASSUME ResponseAssumption ==
    /\ AlertIp \in [Alert -> Ip]
    /\ Revoking \subseteq Alert
    /\ JtiOf \in [Revoking -> Jti]
    /\ Config \subseteq [dryRun : BOOLEAN, url : S!Url, scope : SUBSET Ip]
    /\ Config # {}
    /\ MaxFaults \in Nat

soar == <<conf, ledger, firewall, performed, webhook, lost, req, results, reply, faults>>

RInit == Init /\ S!Init /\ late = [c \in Call |-> FALSE]

\* The tokens whose revocation takes effect in this step of the webhook.
RevokedNow ==
    {JtiOf[i.alert] : i \in {k \in S!Identity :
        performed'[k]["revoke_token"] > performed[k]["revoke_token"]}}

\* The tokens whose remediation the live webhook has answered with a 200.
Remedied ==
    {JtiOf[a] : a \in {b \in Revoking : ~conf.dryRun /\
        \E r \in Request : req[r] = b /\ reply[r] \in {"ok", "duplicate"}}}

\* The provider executes the INSERT while the webhook's thread waits for its
\* answer.  (One that it executes after the thread gave up is a Revoke.)  Whoever
\* gets a 200 from a live webhook has been told.
WebhookStep ==
    /\ S!Next
    /\ revoked' = revoked \cup RevokedNow
    /\ told' = [j \in Jti |-> IF told[j] = Never /\ j \in Remedied' THEN clock ELSE told[j]]
    /\ UNCHANGED <<clock, issuing, calls, late>>

ProviderStep ==
    /\ Next
    /\ late' = [c \in Call |-> IF guard[c] # "asking" /\ guard'[c] = "asking"
                               THEN tok'[c] \in Remedied ELSE late[c]]
    /\ UNCHANGED soar

RNext == WebhookStep \/ ProviderStep

RSpec == RInit /\ [][RNext]_<<vars, soar, late>>

-----------------------------------------------------------------------------
\* A request made after the live webhook has answered 200 for an alert that
\* carries its token is not granted: neither a rehearsal in dry-run, nor a
\* checkpoint of an earlier process, nor a restart on either side stands in for
\* the revocation (app.py:60-71, actions.py:28-38, middleware.py:10-27).
RemediationBars == \A c \in Call : guard[c] = "granted" => ~late[c]

=============================================================================
