------------------------------ MODULE PkiProofs ------------------------------
(***************************************************************************)
(* Pki, for any number of threads and certificates and any bounds: types,  *)
(* the audit trail, and what a revocation does to later requests.          *)
(***************************************************************************)
EXTENDS Pki, FiniteSetTheorems, TLAPS

\* Where a thread is tells what it was asked for.
Placed ==
    \A t \in Thread :
        /\ pc[t] = "insert" => op[t] = "issue"
        /\ pc[t] \in {"select", "update"} => op[t] = "revoke"
        /\ pc[t] \in {"lookup", "list"} => op[t] \in {"sign", "verify"}
        /\ pc[t] = "audit" => op[t] = "sign"
        /\ pc[t] = "reply" => op[t] \in {"issue", "sign"}

\* A serial that is about to be inserted is new, and of one thread only.
Fresh ==
    /\ \A t \in Thread : pc[t] = "insert" => expires[ser[t]] = Never
    /\ \A t, u \in Thread : pc[t] = "insert" /\ pc[u] = "insert" /\ ser[t] = ser[u] => t = u
    /\ \A t \in Thread : pc[t] = "reply" /\ op[t] = "issue" => expires[ser[t]] # Never

\* Signatures that have been audited and not yet handed out.
Leaving(s) == {t \in Thread : pc[t] = "reply" /\ op[t] = "sign" /\ ser[t] = s}

Counted == \A s \in Serial : signed[s] + Cardinality(Leaving(s)) <= audit["sign"][s]

\* A revocation seen at the start is in the registry, and stops the thread.
Barred == \A t \in Thread : barred[t] => revokedAt[ser[t]] # Never /\ pc[t] # "update"

IInv == /\ TypeOK /\ Placed /\ Fresh /\ Counted /\ Barred
        /\ AuditComplete /\ RevocationEffective

-----------------------------------------------------------------------------
\* The signatures on their way out can be counted.
LEMMA LeavingFinite ==
    ASSUME NEW s PROVE IsFiniteSet(Leaving(s)) /\ Cardinality(Leaving(s)) \in Nat
<1>1. Leaving(s) \subseteq Thread
  BY DEF Leaving
<1> QED BY <1>1, PkiAssumption, FS_Subset, FS_CardinalityType

\* Every variable keeps its type.
LEMMA TypeStep == TypeOK /\ [Next]_vars => TypeOK'
<1> SUFFICES ASSUME TypeOK, [Next]_vars PROVE TypeOK'
  OBVIOUS
<1> USE PkiAssumption
<1>1. CASE Tick
  BY <1>1 DEF TypeOK, Tick, registry, outside, job
<1>2. CASE Restart
  BY <1>2 DEF TypeOK, Restart, registry, outside, job
<1>3. ASSUME NEW t \in Thread, NEW o \in Op, NEW s \in Serial, Begin(t, o, s) PROVE TypeOK'
  <2>1. pc' \in [Thread -> {"idle", "insert", "select", "update", "lookup", "list",
                            "audit", "reply"}]
    BY <1>3 DEF TypeOK, Begin, Goes, Op
  <2>2. requests' \in 0..MaxRequests /\ UNCHANGED <<clock, registry, outside, listed>>
    BY <1>3 DEF TypeOK, Begin
  <2>3. barred' \in [Thread -> BOOLEAN]
    BY <1>3 DEF TypeOK, Begin
  <2>4. /\ op' \in [Thread -> Op] /\ ser' \in [Thread -> Serial]
        /\ start' \in [Thread -> 0..MaxClock]
        /\ answer' \in [Thread -> {"none", "done", "valid", "signed", "invalid",
                                   "out_of_period", "error"}]
    BY <1>3 DEF TypeOK, Begin
  <2> QED BY <2>1, <2>2, <2>3, <2>4 DEF TypeOK, registry, outside
<1>4. ASSUME NEW t \in Thread, Serve(t) PROVE TypeOK'
  <2>1. CASE Issue(t)
    BY <2>1 DEF TypeOK, Issue, Audited, Goes, outside, job
  <2>2. CASE RevokeSelect(t)
    BY <2>2 DEF TypeOK, RevokeSelect, Answers, Goes, registry, outside, job
  <2>3. CASE RevokeUpdate(t)
    BY <2>3 DEF TypeOK, RevokeUpdate, Audited, Answers, Goes, outside, job
  <2>4. CASE Lookup(t)
    BY <2>4 DEF TypeOK, Lookup, Answers, Goes, registry, outside, job
  <2>5. CASE List(t)
    BY <2>5 DEF TypeOK, List, Answers, Goes, registry, outside, job
  <2>6. CASE SignAudit(t)
    BY <2>6 DEF TypeOK, SignAudit, Audited, Goes, outside, job
  <2>7. CASE Reply(t)
    BY <2>7 DEF TypeOK, Reply, Answers, Goes, registry, job
  <2>8. CASE DatabaseFails(t)
    BY <2>8 DEF TypeOK, DatabaseFails, Answers, Goes, registry, outside, job
  <2> QED BY <1>4, <2>1, <2>2, <2>3, <2>4, <2>5, <2>6, <2>7, <2>8 DEF Serve
<1>5. CASE UNCHANGED vars
  BY <1>5 DEF TypeOK, vars, registry, outside, job
<1> QED BY <1>1, <1>2, <1>3, <1>4, <1>5 DEF Next

\* The initial states satisfy the invariant.
LEMMA InitEstablishes == Init => IInv
<1> SUFFICES ASSUME Init PROVE IInv
  OBVIOUS
<1>1. TypeOK
  BY PkiAssumption DEF Init, TypeOK, Op, Never
<1>2. Placed /\ Fresh /\ Barred /\ AuditComplete /\ RevocationEffective
  BY DEF Init, Placed, Fresh, Barred, AuditComplete, RevocationEffective, Never
<1>3. Counted
  <2> SUFFICES ASSUME NEW s \in Serial
               PROVE  signed[s] + Cardinality(Leaving(s)) <= audit["sign"][s]
    BY DEF Counted
  <2>1. Leaving(s) = {}
    BY DEF Init, Leaving
  <2> QED BY <2>1, FS_EmptySet DEF Init
<1> QED BY <1>1, <1>2, <1>3 DEF IInv

\* Where the threads are: every step keeps Placed and Fresh.
LEMMA PlaceStep == IInv /\ [Next]_vars => Placed' /\ Fresh'
<1> SUFFICES ASSUME IInv, [Next]_vars PROVE Placed' /\ Fresh'
  OBVIOUS
<1> USE DEF IInv
<1>1. CASE Tick
  BY <1>1 DEF Tick, registry, job, Placed, Fresh
<1>2. CASE Restart
  BY <1>2 DEF TypeOK, Restart, registry, job, Placed, Fresh
<1>3. ASSUME NEW t \in Thread, NEW o \in Op, NEW s \in Serial, Begin(t, o, s)
      PROVE  Placed' /\ Fresh'
  <2>1. /\ \A u \in Thread \ {t} : pc'[u] = pc[u] /\ op'[u] = op[u] /\ ser'[u] = ser[u]
        /\ op'[t] = o /\ ser'[t] = s /\ UNCHANGED expires
        /\ pc'[t] = "insert" => o = "issue"
        /\ pc'[t] = "select" => o = "revoke"
        /\ pc'[t] = "lookup" => o \in {"sign", "verify"}
        /\ pc'[t] \in {"insert", "select", "lookup"}
    BY <1>3 DEF TypeOK, Begin, Goes, Op, registry
  <2>2. o = "issue" => /\ expires[s] = Never
                       /\ \A u \in Thread : ~(pc[u] = "insert" /\ ser[u] = s)
    BY <1>3 DEF Begin, Names, Placed
  <2> QED BY <2>1, <2>2 DEF Placed, Fresh
<1>4. ASSUME NEW t \in Thread, Serve(t) PROVE Placed' /\ Fresh'
  <2>1. CASE Issue(t)
    <3>1. /\ \A u \in Thread : u # t => pc'[u] = pc[u]
          /\ pc[t] = "insert" /\ pc'[t] = "reply" /\ UNCHANGED <<op, ser>>
      BY <2>1 DEF TypeOK, Issue, Goes, job
    <3>2. /\ \A s \in Serial : s # ser[t] => expires'[s] = expires[s]
          /\ expires'[ser[t]] # Never
      BY <2>1, PkiAssumption DEF TypeOK, Issue, Never
    <3> QED BY SMTT(30), <3>1, <3>2 DEF TypeOK, Placed, Fresh
  <2>2. CASE RevokeSelect(t)
    BY SMTT(30), <2>2 DEF TypeOK, RevokeSelect, Answers, Goes, registry, job, Placed, Fresh
  <2>3. CASE RevokeUpdate(t)
    BY <2>3 DEF TypeOK, RevokeUpdate, Answers, Goes, job, Placed, Fresh
  <2>4. CASE Lookup(t)
    BY <2>4 DEF TypeOK, Lookup, Answers, Goes, registry, job, Placed, Fresh
  <2>5. CASE List(t)
    BY <2>5 DEF TypeOK, List, Answers, Goes, registry, job, Placed, Fresh
  <2>6. CASE SignAudit(t)
    BY <2>6 DEF TypeOK, SignAudit, Goes, job, Placed, Fresh
  <2>7. CASE Reply(t)
    BY <2>7 DEF TypeOK, Reply, Answers, Goes, registry, job, Placed, Fresh
  <2>8. CASE DatabaseFails(t)
    BY <2>8 DEF TypeOK, DatabaseFails, Answers, Goes, registry, job, Placed, Fresh
  <2> QED BY <1>4, <2>1, <2>2, <2>3, <2>4, <2>5, <2>6, <2>7, <2>8 DEF Serve
<1>5. CASE UNCHANGED vars
  BY <1>5 DEF vars, registry, job, Placed, Fresh
<1> QED BY <1>1, <1>2, <1>3, <1>4, <1>5 DEF Next

\* What a revocation stops: every step keeps Barred and RevocationEffective.
LEMMA BarStep == IInv /\ [Next]_vars => Barred' /\ RevocationEffective'
<1> SUFFICES ASSUME IInv, [Next]_vars PROVE Barred' /\ RevocationEffective'
  OBVIOUS
<1> USE DEF IInv, Barred, RevocationEffective
<1>1. CASE Tick
  BY <1>1 DEF Tick, registry, job
<1>2. CASE Restart
  BY <1>2 DEF TypeOK, Restart, registry, job
<1>3. ASSUME NEW t \in Thread, NEW o \in Op, NEW s \in Serial, Begin(t, o, s)
      PROVE  Barred' /\ RevocationEffective'
  <2>1. /\ \A u \in Thread \ {t} : /\ pc'[u] = pc[u] /\ op'[u] = op[u] /\ ser'[u] = ser[u]
                                   /\ answer'[u] = answer[u]
        /\ ser'[t] = s /\ UNCHANGED revokedAt /\ answer'[t] = "none"
        /\ pc'[t] \in {"insert", "select", "lookup"}
    BY <1>3 DEF TypeOK, Begin, Goes, Op, registry
  <2>2. \A u \in Thread \ {t} : barred'[u] = barred[u]
    BY <1>3 DEF TypeOK, Begin
  <2>3. barred'[t] => revokedAt[s] # Never
    BY <1>3, Zenon DEF TypeOK, Begin
  <2> QED BY <2>1, <2>2, <2>3
<1>4. ASSUME NEW t \in Thread, Serve(t) PROVE Barred' /\ RevocationEffective'
  <2>1. CASE Issue(t)
    BY <2>1 DEF TypeOK, Issue, Goes, job, Placed
  <2>2. CASE RevokeSelect(t)
    BY <2>2 DEF TypeOK, RevokeSelect, Answers, Goes, registry, job
  <2>3. CASE RevokeUpdate(t)
    BY <2>3 DEF TypeOK, RevokeUpdate, Answers, Goes, job, Never
  <2>4. CASE Lookup(t)
    BY <2>4 DEF TypeOK, Lookup, Answers, Goes, registry, job
  <2>5. CASE List(t)
    BY <2>5 DEF TypeOK, List, Answers, Goes, registry, job
  <2>6. CASE SignAudit(t)
    BY <2>6 DEF TypeOK, SignAudit, Goes, job
  <2>7. CASE Reply(t)
    BY <2>7 DEF TypeOK, Reply, Answers, Goes, registry, job
  <2>8. CASE DatabaseFails(t)
    BY <2>8 DEF TypeOK, DatabaseFails, Answers, Goes, registry, job
  <2> QED BY <1>4, <2>1, <2>2, <2>3, <2>4, <2>5, <2>6, <2>7, <2>8 DEF Serve
<1>5. CASE UNCHANGED vars
  BY <1>5 DEF vars, registry, job
<1> QED BY <1>1, <1>2, <1>3, <1>4, <1>5 DEF Next

\* A step that writes no audit entry and hands out nothing: the trail stays
\* complete as long as no thread joins those about to hand out a signature.
LEMMA TrailUntouched ==
    ASSUME IInv, TypeOK', UNCHANGED <<expires, revokedAt, audit, bundles, signed>>,
           \A t \in Thread : pc'[t] = "reply" /\ op'[t] = "sign" =>
               pc[t] = "reply" /\ op[t] = "sign" /\ ser'[t] = ser[t]
    PROVE  AuditComplete' /\ Counted'
<1>1. AuditComplete'
  BY DEF IInv, AuditComplete
<1>2. Counted'
  <2> SUFFICES ASSUME NEW s \in Serial
               PROVE  signed[s] + Cardinality(Leaving(s)') <= audit["sign"][s]
    BY DEF Counted
  <2>1. Leaving(s)' \subseteq Leaving(s)
    BY DEF Leaving
  <2>2. /\ Cardinality(Leaving(s)') <= Cardinality(Leaving(s))
        /\ Cardinality(Leaving(s)') \in Nat /\ Cardinality(Leaving(s)) \in Nat
    BY <2>1, LeavingFinite, FS_Subset, FS_CardinalityType
  <2>3. signed[s] + Cardinality(Leaving(s)) <= audit["sign"][s]
    BY DEF IInv, Counted
  <2>4. signed[s] \in Nat /\ audit["sign"][s] \in Nat
    BY DEF IInv, TypeOK
  <2> QED BY <2>2, <2>3, <2>4
<1> QED BY <1>1, <1>2

\* The entry of a signature is one more, and one more signature may leave.
LEMMA SignatureAudited ==
    ASSUME IInv, TypeOK', NEW t \in Thread, SignAudit(t) PROVE AuditComplete' /\ Counted'
<1>1. /\ pc[t] = "audit" /\ op[t] = "sign" /\ pc'[t] = "reply"
      /\ \A u \in Thread \ {t} : pc'[u] = pc[u]
      /\ UNCHANGED <<op, ser, expires, revokedAt, bundles, signed>>
  BY DEF IInv, TypeOK, Placed, SignAudit, Goes, job, outside
<1>2. audit'["sign"][ser[t]] = audit["sign"][ser[t]] + 1
  BY DEF IInv, TypeOK, SignAudit, Audited
<1>3. \A s \in Serial : /\ s # ser[t] => audit'["sign"][s] = audit["sign"][s]
                        /\ audit'["issue"][s] = audit["issue"][s]
                        /\ audit'["revoke"][s] = audit["revoke"][s]
  BY DEF IInv, TypeOK, SignAudit, Audited
<1>4. \A s \in Serial : audit["sign"][s] \in Nat /\ signed[s] \in Nat
  BY DEF IInv, TypeOK
<1>5. AuditComplete'
  BY <1>1, <1>2, <1>3, <1>4 DEF IInv, AuditComplete
<1>6. Counted'
  <2> SUFFICES ASSUME NEW s \in Serial
               PROVE  signed[s] + Cardinality(Leaving(s)') <= audit'["sign"][s]
    BY <1>1 DEF Counted
  <2>1. signed[s] + Cardinality(Leaving(s)) <= audit["sign"][s]
    BY DEF IInv, Counted
  <2>2. CASE s = ser[t]
    <3>1. Leaving(s)' = Leaving(s) \cup {t} /\ t \notin Leaving(s)
      BY <1>1, <2>2 DEF Leaving
    <3>2. Cardinality(Leaving(s)') = Cardinality(Leaving(s)) + 1
      BY <3>1, LeavingFinite, FS_AddElement
    <3> QED BY <1>2, <1>4, <2>1, <2>2, <3>2, LeavingFinite
  <2>3. CASE s # ser[t]
    <3>1. Leaving(s)' = Leaving(s)
      BY <1>1, <2>3 DEF Leaving
    <3> QED BY <1>3, <2>1, <2>3, <3>1
  <2> QED BY <2>2, <2>3
<1> QED BY <1>5, <1>6

\* An answer leaves: a bundle of a registered certificate, or one of the
\* signatures counted.
LEMMA AnswerLeaves ==
    ASSUME IInv, TypeOK', NEW t \in Thread, Reply(t) PROVE AuditComplete' /\ Counted'
<1>1. /\ pc[t] = "reply" /\ pc'[t] = "idle"
      /\ \A u \in Thread \ {t} : pc'[u] = pc[u]
      /\ UNCHANGED <<op, ser, expires, revokedAt, audit>>
  BY DEF IInv, TypeOK, Reply, Answers, Goes, job, registry
<1>2. \A s \in Serial : audit["sign"][s] \in Nat /\ signed[s] \in Nat
  BY DEF IInv, TypeOK
<1>3. \A s \in Serial : signed[s] + Cardinality(Leaving(s)) <= audit["sign"][s]
  BY DEF IInv, Counted
<1>4. CASE op[t] = "issue"
  <2>1. UNCHANGED signed /\ bundles' = bundles \cup {ser[t]} /\ expires[ser[t]] # Never
    BY <1>1, <1>4 DEF IInv, Fresh, Reply
  <2>2. \A s \in Serial : Leaving(s)' = Leaving(s)
    BY <1>1, <1>4 DEF Leaving
  <2>3. AuditComplete'
    BY <1>1, <2>1 DEF IInv, AuditComplete
  <2> QED BY <1>1, <1>3, <2>1, <2>2, <2>3 DEF Counted
<1>5. CASE op[t] # "issue"
  <2>1. /\ op[t] = "sign" /\ UNCHANGED bundles
        /\ signed'[ser[t]] = signed[ser[t]] + 1
        /\ \A s \in Serial : s # ser[t] => signed'[s] = signed[s]
    BY <1>1, <1>5 DEF IInv, TypeOK, Placed, Reply
  <2>2. \A s \in Serial : signed'[s] + Cardinality(Leaving(s)') <= audit["sign"][s]
    <3> SUFFICES ASSUME NEW s \in Serial
                 PROVE  signed'[s] + Cardinality(Leaving(s)') <= audit["sign"][s]
      OBVIOUS
    <3>1. CASE s = ser[t]
      <4>1. Leaving(s)' = Leaving(s) \ {t} /\ t \in Leaving(s)
        BY <1>1, <2>1, <3>1 DEF Leaving
      <4>2. Cardinality(Leaving(s)') = Cardinality(Leaving(s)) - 1
        BY <4>1, LeavingFinite, FS_RemoveElement
      <4> QED BY <1>2, <1>3, <2>1, <3>1, <4>2, LeavingFinite
    <3>2. CASE s # ser[t]
      <4>1. Leaving(s)' = Leaving(s)
        BY <1>1, <3>2 DEF Leaving
      <4> QED BY <1>3, <2>1, <3>2, <4>1
    <3> QED BY <3>1, <3>2
  <2>3. \A s \in Serial : signed'[s] <= audit["sign"][s]
    <3> SUFFICES ASSUME NEW s \in Serial PROVE signed'[s] <= audit["sign"][s]
      OBVIOUS
    <3>1. IsFiniteSet(Leaving(s)')
      <4>1. Leaving(s)' \subseteq Thread
        BY DEF Leaving
      <4> QED BY <4>1, PkiAssumption, FS_Subset
    <3>2. Cardinality(Leaving(s)') \in Nat
      BY <3>1, FS_CardinalityType
    <3>3. signed'[s] \in Nat
      BY DEF TypeOK
    <3> QED BY <1>2, <2>2, <3>2, <3>3
  <2>4. AuditComplete'
    BY <1>1, <2>1, <2>3 DEF IInv, AuditComplete
  <2> QED BY <1>1, <2>2, <2>4 DEF Counted
<1> QED BY <1>4, <1>5

\* The audit trail: every step keeps AuditComplete and Counted.
LEMMA TrailStep == IInv /\ [Next]_vars => AuditComplete' /\ Counted'
<1> SUFFICES ASSUME IInv, [Next]_vars PROVE AuditComplete' /\ Counted'
  OBVIOUS
<1>0. TypeOK'
  BY TypeStep DEF IInv
<1>1. CASE Tick
  BY <1>0, <1>1, TrailUntouched DEF Tick, registry, outside, job
<1>2. CASE Restart
  <2>1. \A t \in Thread : pc'[t] # "reply"
    BY <1>2 DEF Restart
  <2> QED BY <1>0, <1>2, <2>1, TrailUntouched DEF Restart, registry, outside
<1>3. ASSUME NEW t \in Thread, NEW o \in Op, NEW s \in Serial, Begin(t, o, s)
      PROVE  AuditComplete' /\ Counted'
  <2>1. /\ \A u \in Thread \ {t} : pc'[u] = pc[u] /\ op'[u] = op[u] /\ ser'[u] = ser[u]
        /\ pc'[t] # "reply"
    BY <1>3 DEF IInv, TypeOK, Begin, Goes, Op
  <2> QED BY <1>0, <1>3, <2>1, TrailUntouched DEF Begin, registry, outside
<1>4. ASSUME NEW t \in Thread, Serve(t) PROVE AuditComplete' /\ Counted'
  <2>1. CASE Issue(t)
    <3>1. /\ op[t] = "issue" /\ pc'[t] = "reply" /\ expires[ser[t]] = Never
          /\ \A u \in Thread \ {t} : pc'[u] = pc[u]
          /\ UNCHANGED <<op, ser, revokedAt, bundles, signed>>
      BY <2>1 DEF IInv, TypeOK, Placed, Fresh, Issue, Goes, job, outside
    <3>2. expires'[ser[t]] # Never /\ audit'["issue"][ser[t]] = 1
      BY <2>1, <3>1, PkiAssumption DEF IInv, TypeOK, AuditComplete, Issue, Audited, Never
    <3>3. \A s \in Serial :
            /\ s # ser[t] => expires'[s] = expires[s] /\ audit'["issue"][s] = audit["issue"][s]
            /\ audit'["revoke"][s] = audit["revoke"][s]
            /\ audit'["sign"][s] = audit["sign"][s]
      BY <2>1 DEF IInv, TypeOK, Issue, Audited
    <3>4. AuditComplete'
      BY <3>1, <3>2, <3>3 DEF IInv, TypeOK, AuditComplete
    <3>5. \A s \in Serial : Leaving(s)' = Leaving(s)
      BY <2>1, <3>1 DEF Leaving, Issue
    <3> QED BY <3>1, <3>3, <3>4, <3>5 DEF IInv, Counted
  <2>2. CASE RevokeSelect(t)
    <3>1. pc'[t] # "reply" /\ \A u \in Thread \ {t} : pc'[u] = pc[u]
      BY <2>2 DEF IInv, TypeOK, RevokeSelect, Answers, Goes
    <3> QED BY <1>0, <2>2, <3>1, TrailUntouched DEF RevokeSelect, registry, outside, job
  <2>3. CASE RevokeUpdate(t)
    <3>1. /\ pc[t] = "update" /\ pc'[t] = "idle"
          /\ \A u \in Thread \ {t} : pc'[u] = pc[u]
          /\ UNCHANGED <<op, ser, expires, bundles, signed>>
      BY <2>3 DEF IInv, TypeOK, RevokeUpdate, Answers, Goes, job, outside
    <3>2. revokedAt'[ser[t]] # Never /\ audit'["revoke"][ser[t]] > 0
      BY <2>3 DEF IInv, TypeOK, RevokeUpdate, Audited, Never
    <3>3. \A s \in Serial :
            /\ s # ser[t] => /\ revokedAt'[s] = revokedAt[s]
                             /\ audit'["revoke"][s] = audit["revoke"][s]
            /\ audit'["issue"][s] = audit["issue"][s]
            /\ audit'["sign"][s] = audit["sign"][s]
      BY <2>3 DEF IInv, TypeOK, RevokeUpdate, Audited
    <3>4. AuditComplete'
      BY <3>1, <3>2, <3>3 DEF IInv, TypeOK, AuditComplete
    <3>5. \A s \in Serial : Leaving(s)' = Leaving(s)
      BY <3>1 DEF Leaving
    <3> QED BY <3>1, <3>3, <3>4, <3>5 DEF IInv, Counted
  <2>4. CASE Lookup(t)
    <3>1. pc'[t] # "reply" /\ \A u \in Thread \ {t} : pc'[u] = pc[u]
      BY <2>4 DEF IInv, TypeOK, Lookup, Answers, Goes
    <3> QED BY <1>0, <2>4, <3>1, TrailUntouched DEF Lookup, registry, outside, job
  <2>5. CASE List(t)
    <3>1. pc'[t] # "reply" /\ \A u \in Thread \ {t} : pc'[u] = pc[u]
      BY <2>5 DEF IInv, TypeOK, List, Answers, Goes
    <3> QED BY <1>0, <2>5, <3>1, TrailUntouched DEF List, registry, outside, job
  <2>6. CASE SignAudit(t)
    BY <1>0, <2>6, SignatureAudited
  <2>7. CASE Reply(t)
    BY <1>0, <2>7, AnswerLeaves
  <2>8. CASE DatabaseFails(t)
    <3>1. pc'[t] # "reply" /\ \A u \in Thread \ {t} : pc'[u] = pc[u]
      BY <2>8 DEF IInv, TypeOK, DatabaseFails, Answers, Goes
    <3> QED BY <1>0, <2>8, <3>1, TrailUntouched DEF DatabaseFails, registry, outside, job
  <2> QED BY <1>4, <2>1, <2>2, <2>3, <2>4, <2>5, <2>6, <2>7, <2>8 DEF Serve
<1>5. CASE UNCHANGED vars
  BY <1>0, <1>5, TrailUntouched DEF vars, registry, outside, job
<1> QED BY <1>1, <1>2, <1>3, <1>4, <1>5 DEF Next

\* The invariant holds in every reachable state.
THEOREM Inductive == Spec => []IInv
<1>1. IInv /\ [Next]_vars => IInv'
  BY TypeStep, PlaceStep, BarStep, TrailStep DEF IInv
<1> QED BY <1>1, InitEstablishes, PTL DEF Spec

\* Types (pki.py:53-57, 73-207).
THEOREM TypeCorrect == Spec => []TypeOK
<1>1. IInv => TypeOK
  BY DEF IInv
<1> QED BY <1>1, Inductive, PTL

\* The audit table accounts for the registry and for every signature handed
\* out, for any number of threads, failures and restarts (pki.py:101-105,
\* 115-122, 179-180).
THEOREM TrailComplete == Spec => []AuditComplete
<1>1. IInv => AuditComplete
  BY DEF IInv
<1> QED BY <1>1, Inductive, PTL

\* No request that starts after a revocation signs or verifies with the revoked
\* certificate (pki.py:154-160).
THEOREM RevocationBinds == Spec => []RevocationEffective
<1>1. IInv => RevocationEffective
  BY DEF IInv
<1> QED BY <1>1, Inductive, PTL

\* The date and the entry of a revocation move only under a request that
\* overlapped it (pki.py:115-122).
THEOREM RevocationStays == Spec => RevocationSettled
<1>1. IInv /\ [Next]_vars =>
        [\A s \in Serial :
            /\ revokedAt[s] # Never
            /\ revokedAt'[s] # revokedAt[s] \/ audit'["revoke"][s] # audit["revoke"][s]
            => \E t \in Thread : pc[t] = "update" /\ ser[t] = s /\ ~barred[t]]_vars
  <2> SUFFICES ASSUME IInv, Next, NEW s \in Serial,
                      revokedAt'[s] # revokedAt[s] \/ audit'["revoke"][s] # audit["revoke"][s]
               PROVE  \E t \in Thread : pc[t] = "update" /\ ser[t] = s /\ ~barred[t]
    OBVIOUS
  <2>1. PICK t \in Thread : Serve(t)
    BY DEF Next, Tick, Restart, Begin, registry
  <2>2. CASE RevokeUpdate(t)
    <3>1. ser[t] = s
      BY <2>2 DEF IInv, TypeOK, RevokeUpdate, Audited
    <3>2. pc[t] = "update" /\ ~barred[t]
      BY <2>2 DEF IInv, Barred, RevokeUpdate
    <3> QED BY <3>1, <3>2
  <2>3. CASE Issue(t)
    BY <2>3 DEF IInv, TypeOK, Issue, Audited
  <2>4. CASE SignAudit(t)
    BY <2>4 DEF IInv, TypeOK, SignAudit, Audited
  <2>5. CASE RevokeSelect(t) \/ Lookup(t) \/ List(t) \/ Reply(t) \/ DatabaseFails(t)
    BY <2>5 DEF RevokeSelect, Lookup, List, Reply, DatabaseFails, registry
  <2> QED BY <2>1, <2>2, <2>3, <2>4, <2>5 DEF Serve
<1> QED BY <1>1, Inductive, PTL DEF Spec, RevocationSettled

=============================================================================
