--------------------------------- MODULE Pki ---------------------------------
(***************************************************************************)
(* The certificate authority of 05-pki-digital-signature/pki.py behind its *)
(* Flask application: waitress threads issue certificates, revoke them,    *)
(* sign with them and verify signatures, and meet only in the SQLite       *)
(* registry.  A with-block of connect() is one transaction only from its   *)
(* first write on; the reads before it see whatever is committed, and each *)
(* access may wait up to fifteen seconds for the database.                 *)
(*                                                                         *)
(* A tick is one second: the dates of a CRL carry no fraction.  Names,     *)
(* algorithms, keys and passwords are left out; a package or bundle that   *)
(* fails its cryptographic check is answered like a bad request.           *)
(***************************************************************************)
EXTENDS Integers, FiniteSets

CONSTANTS Thread,       \* waitress threads
          Serial,       \* serial numbers
          Life,         \* validity of a certificate, in ticks
          MaxClock,     \* bound on the clock
          MaxRequests   \* bound on the requests served

ASSUME PkiAssumption == /\ IsFiniteSet(Thread) /\ Life \in Nat \ {0}
                        /\ MaxClock \in Nat /\ MaxRequests \in Nat

Never == -1

VARIABLES clock, requests,
          expires,     \* certificates.expires_at, Never while there is no row
          revokedAt,   \* certificates.revoked_at, Never while it is NULL
          audit,       \* rows of the audit table, per action and serial
          bundles,     \* serials whose PKCS#12 reached its owner
          signed,      \* signature packages handed out, per serial
          pc, op, ser, \* what each thread does, and with which certificate
          start,       \* the now of issue and validate
          listed,      \* the now of crl
          barred,      \* history: the certificate was revoked at the start
          answer

registry == <<expires, revokedAt, audit>>
outside  == <<bundles, signed>>
job      == <<op, ser, start, barred>>
vars     == <<clock, requests, registry, outside, pc, job, listed, answer>>

Op == {"issue", "revoke", "sign", "verify"}

Init ==
    /\ clock = 0 /\ requests = 0
    /\ expires = [s \in Serial |-> Never]
    /\ revokedAt = [s \in Serial |-> Never]
    /\ audit = [a \in {"issue", "revoke", "sign"} |-> [s \in Serial |-> 0]]
    /\ bundles = {}
    /\ signed = [s \in Serial |-> 0]
    /\ pc = [t \in Thread |-> "idle"]
    /\ op = [t \in Thread |-> "verify"]
    /\ ser \in [Thread -> Serial]
    /\ start = [t \in Thread |-> 0]
    /\ listed = [t \in Thread |-> 0]
    /\ barred = [t \in Thread |-> FALSE]
    /\ answer = [t \in Thread |-> "none"]

Tick == /\ clock < MaxClock
        /\ clock' = clock + 1
        /\ UNCHANGED <<requests, registry, outside, pc, job, listed, answer>>

Goes(t, place) == pc' = [pc EXCEPT ![t] = place]

Answers(t, a) == Goes(t, "idle") /\ answer' = [answer EXCEPT ![t] = a]

\* What a request may name: issue draws a fresh random serial; a signer holds
\* the bundle; a package names the certificate that came with it.
Names(o, s) ==
    CASE o = "issue"  -> expires[s] = Never /\ \A t \in Thread :
                            ~(pc[t] # "idle" /\ op[t] = "issue" /\ ser[t] = s)
      [] o = "revoke" -> TRUE
      [] o = "sign"   -> s \in bundles
      [] o = "verify" -> signed[s] > 0

\* An authorized and well-formed request; issue and validate read the clock.
Begin(t, o, s) ==
    /\ pc[t] = "idle" /\ requests < MaxRequests /\ Names(o, s)
    /\ requests' = requests + 1
    /\ Goes(t, CASE o = "issue" -> "insert" [] o = "revoke" -> "select"
                 [] o \in {"sign", "verify"} -> "lookup")
    /\ op' = [op EXCEPT ![t] = o]
    /\ ser' = [ser EXCEPT ![t] = s]
    /\ start' = [start EXCEPT ![t] = clock]
    /\ barred' = [barred EXCEPT ![t] = revokedAt[s] # Never]
    /\ answer' = [answer EXCEPT ![t] = "none"]
    /\ UNCHANGED <<clock, registry, outside, listed>>

Audited(a, s) == audit' = [audit EXCEPT ![a][s] = @ + 1]

\* The row and its audit entry in one transaction; the bundle goes out after.
Issue(t) ==
    /\ pc[t] = "insert"
    /\ expires' = [expires EXCEPT ![ser[t]] = start[t] + Life]
    /\ Audited("issue", ser[t])
    /\ Goes(t, "reply")
    /\ UNCHANGED <<clock, requests, revokedAt, outside, job, listed, answer>>
\* Mutant of RevokeSelect: a certificate revoked before is revoked again.
RevokeSelectKnown(t) ==
    /\ pc[t] = "select"
    /\ IF expires[ser[t]] = Never THEN Answers(t, "invalid")
                                  ELSE Goes(t, "update") /\ UNCHANGED answer
    /\ UNCHANGED <<clock, requests, registry, outside, job, listed>>

\* revoke reads the row in no transaction: an unknown serial is an error, a
\* revoked one leaves nothing to do.
RevokeSelect(t) ==
    /\ pc[t] = "select"
    /\ CASE expires[ser[t]] = Never   -> Answers(t, "invalid")
         [] expires[ser[t]] # Never /\ revokedAt[ser[t]] # Never -> Answers(t, "done")
         [] OTHER                     -> Goes(t, "update") /\ UNCHANGED answer
    /\ UNCHANGED <<clock, requests, registry, outside, job, listed>>
\* Mutant of RevokeUpdate: the date lies in the future.
RevokeAhead(t) ==
    /\ pc[t] = "update"
    /\ revokedAt' = [revokedAt EXCEPT ![ser[t]] = clock + 1]
    /\ Audited("revoke", ser[t])
    /\ Answers(t, "done")
    /\ UNCHANGED <<clock, requests, expires, outside, job, listed>>

\* The update goes by the serial alone, whatever the row holds by now.
RevokeUpdate(t) ==
    /\ pc[t] = "update"
    /\ revokedAt' = [revokedAt EXCEPT ![ser[t]] = clock]
    /\ Audited("revoke", ser[t])
    /\ Answers(t, "done")
    /\ UNCHANGED <<clock, requests, expires, outside, job, listed>>

\* validate: the dates of the certificate against the clock read at the start,
\* then its row, then the clock again for the CRL.  In the tick in which it
\* expires a certificate may be judged either way.
Lookup(t) ==
    /\ pc[t] = "lookup"
    /\ \/ /\ expires[ser[t]] # Never /\ start[t] <= expires[ser[t]]
          /\ Goes(t, "list") /\ listed' = [listed EXCEPT ![t] = clock] /\ UNCHANGED answer
       \/ /\ expires[ser[t]] = Never \/ start[t] >= expires[ser[t]]
          /\ Answers(t, "invalid") /\ UNCHANGED listed
    /\ UNCHANGED <<clock, requests, registry, outside, job>>

\* The CRL is in force from one second before its clock.
InForce(t) == listed[t] - 1 <= start[t]
\* Mutant of List: the CRL is not searched for the certificate.
ListUnsearched(t) ==
    /\ pc[t] = "list"
    /\ IF InForce(t) /\ op[t] = "sign" THEN Goes(t, "audit") /\ UNCHANGED answer
       ELSE Answers(t, IF InForce(t) THEN "valid" ELSE "out_of_period")
    /\ UNCHANGED <<clock, requests, registry, outside, job, listed>>

\* The CRL is filled from the registry, signed, and judged at the time of the
\* start; then the cryptography, which fails for a tampered file or package.
List(t) ==
    /\ pc[t] = "list"
    /\ CASE ~InForce(t)                                  -> Answers(t, "out_of_period")
         [] InForce(t) /\ revokedAt[ser[t]] # Never      -> Answers(t, "invalid")
         [] OTHER -> \/ op[t] = "sign" /\ Goes(t, "audit") /\ UNCHANGED answer
                     \/ op[t] = "verify" /\ \E a \in {"valid", "invalid"} : Answers(t, a)
    /\ UNCHANGED <<clock, requests, registry, outside, job, listed>>
\* Mutant of SignAudit: the signature goes out first.
SignUnaudited(t) ==
    /\ pc[t] = "audit"
    /\ Goes(t, "reply")
    /\ UNCHANGED <<clock, requests, registry, outside, job, listed, answer>>

\* The signature exists only in the thread until its audit entry is committed.
SignAudit(t) ==
    /\ pc[t] = "audit"
    /\ Audited("sign", ser[t])
    /\ Goes(t, "reply")
    /\ UNCHANGED <<clock, requests, expires, revokedAt, outside, job, listed, answer>>

Reply(t) ==
    /\ pc[t] = "reply"
    /\ IF op[t] = "issue"
         THEN bundles' = bundles \cup {ser[t]} /\ UNCHANGED signed
         ELSE signed' = [signed EXCEPT ![ser[t]] = @ + 1] /\ UNCHANGED bundles
    /\ Answers(t, IF op[t] = "issue" THEN "done" ELSE "signed")
    /\ UNCHANGED <<clock, requests, registry, job, listed>>

\* The database stays locked for fifteen seconds or cannot be used: the
\* transaction rolls back and the request is answered 500.
DatabaseFails(t) ==
    /\ pc[t] \notin {"idle", "reply"}
    /\ Answers(t, "error")
    /\ UNCHANGED <<clock, requests, registry, outside, job, listed>>

\* The process dies; its registry is on disk.
Restart ==
    /\ pc' = [t \in Thread |-> "idle"]
    /\ answer' = [t \in Thread |-> "none"]
    /\ UNCHANGED <<clock, requests, registry, outside, job, listed>>

Serve(t) == \/ Issue(t) \/ RevokeSelect(t) \/ RevokeUpdate(t)
            \/ Lookup(t) \/ List(t) \/ SignAudit(t) \/ Reply(t) \/ DatabaseFails(t)

Next == \/ Tick \/ Restart
        \/ \E t \in Thread : Serve(t) \/ \E o \in Op, s \in Serial : Begin(t, o, s)

Spec == Init /\ [][Next]_vars

-----------------------------------------------------------------------------
TypeOK ==
    /\ clock \in 0..MaxClock /\ requests \in 0..MaxRequests
    /\ expires \in [Serial -> Int]
    /\ revokedAt \in [Serial -> {Never} \cup 0..MaxClock]
    /\ audit \in [{"issue", "revoke", "sign"} -> [Serial -> Nat]]
    /\ bundles \subseteq Serial
    /\ signed \in [Serial -> Nat]
    /\ pc \in [Thread -> {"idle", "insert", "select", "update", "lookup", "list",
                          "audit", "reply"}]
    /\ op \in [Thread -> Op]
    /\ ser \in [Thread -> Serial]
    /\ start \in [Thread -> 0..MaxClock]
    /\ listed \in [Thread -> 0..MaxClock]
    /\ barred \in [Thread -> BOOLEAN]
    /\ answer \in [Thread -> {"none", "done", "valid", "signed", "invalid",
                              "out_of_period", "error"}]

\* The audit trail tells the registry's story: a row for each certificate and
\* for each revoked one, and a row for every signature anyone holds, whatever
\* failed or stopped half-way (pki.py:101-105, 115-122, 179-180).
AuditComplete ==
    \A s \in Serial :
        /\ audit["issue"][s] = IF expires[s] = Never THEN 0 ELSE 1
        /\ revokedAt[s] # Never <=> audit["revoke"][s] > 0
        /\ signed[s] <= audit["sign"][s]
        /\ s \in bundles => expires[s] # Never

\* Nothing that starts after a revocation is signed or verified with the revoked
\* certificate; the threads share no state but the registry (pki.py:154-160).
RevocationEffective ==
    \A t \in Thread : barred[t] =>
        answer[t] \notin {"valid", "signed"} /\ pc[t] # "audit"
        /\ (pc[t] = "reply" => op[t] = "issue")

\* The date and the audit entry of a revocation are settled for every request
\* that starts later; only one that overlapped the first can still move them.
RevocationSettled ==
    [][\A s \in Serial :
          /\ revokedAt[s] # Never
          /\ revokedAt'[s] # revokedAt[s] \/ audit'["revoke"][s] # audit["revoke"][s]
          => \E t \in Thread : pc[t] = "update" /\ ser[t] = s /\ ~barred[t]]_vars

\* test_pki.py:61: revoking twice changes nothing.
RevokedOnce ==
    [][\A s \in Serial : revokedAt[s] # Never => revokedAt'[s] = revokedAt[s]]_vars

\* README.md:46, 69: the list the application uses is always fresh and in force.
FreshListInForce == \A t \in Thread : answer[t] # "out_of_period"

=============================================================================
