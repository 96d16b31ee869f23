------------------------- MODULE LoginLimiterProofs -------------------------
(***************************************************************************)
(* LoginLimiter, for any addresses, threads, limit and window: the types,  *)
(* the limit by the stamps, and that every 429 is deserved.  What popleft  *)
(* has removed is older than the window of the newest stamp (Old), what it *)
(* has left is never more than the limit (Short), and although the stamps  *)
(* of a deque are in no order, its admissions are (Ordered), none of them  *)
(* before its stamp (Dated): so what stands behind a recent head is recent *)
(* too.  An admission that no newer stamp overtook closes every window it  *)
(* is in, which is then within the window of the newest stamp (Turns).     *)
(***************************************************************************)
EXTENDS LoginLimiter, FiniteSetTheorems, SequenceTheorems, WellFoundedInduction, TLAPS

Old == \A a \in Address : \A k \in 1..Len(forgotten[a]) :
          forgotten[a][k].stamp < latest - Window

Short == \A a \in Address : Len(attempts[a]) <= Limit

Ordered == \A a \in Address : \A j, k \in 1..Len(attempts[a]) :
              j <= k => attempts[a][j].at <= attempts[a][k].at

Dated == /\ \A a \in Address : \A k \in 1..Len(attempts[a]) :
               /\ attempts[a][k].stamp <= attempts[a][k].at
               /\ attempts[a][k].at <= clock
         /\ \A r \in Request : now[r] <= clock

Turns == \A a \in Address, t \in 0..MaxClock : Cardinality(InTurn(a, t)) <= Limit

IInv == TypeOK /\ Old /\ Short /\ Ordered /\ Dated /\ Turns

-----------------------------------------------------------------------------
\* A non-empty set of positions has a first one.
LEMMA First == ASSUME NEW S \in SUBSET Nat, S # {} PROVE \E x \in S : \A y \in S : x <= y
<1>1. PICK x \in S : \A y \in S : <<y, x>> \notin OpToRel(<, Nat)
  BY NatLessThanWellFounded, WFMin
<1>2. \A y \in S : ~(y < x)
  BY <1>1 DEF OpToRel
<1> QED BY <1>2

\* popleft removes what is older than the window, up to the first that is not.
LEMMA PoppedIsOld ==
    ASSUME NEW q \in Seq(Entry), NEW n \in Nat
    PROVE  /\ Popped(q, n) \in 0..Len(q)
           /\ \A k \in 1..Popped(q, n) : q[k].stamp < n - Window
           /\ Popped(q, n) < Len(q) => q[Popped(q, n) + 1].stamp >= n - Window
<1>1. Len(q) \in Nat /\ \A k \in 1..Len(q) : q[k].stamp \in Int
  <2>1. Len(q) \in Nat /\ \A k \in 1..Len(q) : q[k] \in Entry
    BY LenProperties
  <2>2. \A e \in Entry : e.stamp \in Int
    BY LimiterAssumption DEF Entry
  <2> QED BY <2>1, <2>2
<1>2. Window \in Int
  BY LimiterAssumption
<1>3. CASE Kept(q, n) = {}
  <2>1. Popped(q, n) = Len(q)
    BY <1>3 DEF Popped
  <2>2. \A k \in 1..Len(q) : q[k].stamp < n - Window
    BY <1>1, <1>2, <1>3 DEF Kept
  <2> QED BY <1>1, <2>1, <2>2
<1>4. CASE Kept(q, n) # {}
  <2> DEFINE m == CHOOSE k \in Kept(q, n) : \A j \in Kept(q, n) : k <= j
  <2>1. Kept(q, n) \in SUBSET Nat
    BY <1>1 DEF Kept
  <2>2. m \in Kept(q, n) /\ \A j \in Kept(q, n) : m <= j
    BY <1>4, <2>1, First
  <2>3. Popped(q, n) = m - 1
    BY <1>4 DEF Popped
  <2> HIDE DEF m
  <2>4. m \in 1..Len(q) /\ q[m].stamp >= n - Window
    BY <2>2 DEF Kept
  <2>5. \A k \in 1..m - 1 : q[k].stamp < n - Window
    BY <1>1, <1>2, <2>2, <2>4 DEF Kept
  <2> QED BY <1>1, <2>3, <2>4, <2>5
<1> QED BY <1>3, <1>4

\* The two parts of a deque that popleft separates.
LEMMA Parts ==
    ASSUME NEW q \in Seq(Entry), NEW n \in Nat
    PROVE  LET p == Popped(q, n) IN
           /\ Pruned(q, n) \in Seq(Entry) /\ Len(Pruned(q, n)) = Len(q) - p
           /\ \A i \in 1..Len(q) - p : Pruned(q, n)[i] = q[p + i]
           /\ SubSeq(q, 1, p) \in Seq(Entry) /\ Len(SubSeq(q, 1, p)) = p
           /\ \A i \in 1..p : SubSeq(q, 1, p)[i] = q[i]
<1> DEFINE p == Popped(q, n)
<1>1. p \in 0..Len(q) /\ Len(q) \in Nat
  BY PoppedIsOld, LenProperties
<1>2. \A i \in 1..Len(q) : q[i] \in Entry
  BY LenProperties
<1> HIDE DEF p
<1>3. /\ SubSeq(q, p + 1, Len(q)) \in Seq(Entry)
      /\ Len(SubSeq(q, p + 1, Len(q))) = Len(q) - p
      /\ \A i \in 1..Len(q) - p : SubSeq(q, p + 1, Len(q))[i] = q[p + i]
  <2>1. \A i \in p + 1..Len(q) : q[i] \in Entry
    BY <1>1, <1>2
  <2>2. p + 1 \in Int /\ Len(q) \in Int
    BY <1>1
  <2>3. /\ SubSeq(q, p + 1, Len(q)) \in Seq(Entry)
        /\ Len(SubSeq(q, p + 1, Len(q))) = IF p + 1 <= Len(q) THEN Len(q) - (p + 1) + 1 ELSE 0
        /\ \A i \in 1..Len(q) - (p + 1) + 1 : SubSeq(q, p + 1, Len(q))[i] = q[p + 1 + i - 1]
    BY <2>1, <2>2, SubSeqProperties
  <2> QED BY <1>1, <2>3
<1>4. /\ SubSeq(q, 1, p) \in Seq(Entry) /\ Len(SubSeq(q, 1, p)) = p
      /\ \A i \in 1..p : SubSeq(q, 1, p)[i] = q[i]
  <2>1. \A i \in 1..p : q[i] \in Entry
    BY <1>1, <1>2
  <2>2. p \in Int
    BY <1>1
  <2>3. /\ SubSeq(q, 1, p) \in Seq(Entry)
        /\ Len(SubSeq(q, 1, p)) = IF 1 <= p THEN p - 1 + 1 ELSE 0
        /\ \A i \in 1..p - 1 + 1 : SubSeq(q, 1, p)[i] = q[1 + i - 1]
    BY <2>1, <2>2, SubSeqProperties
  <2> QED BY <1>1, <2>3
<1> QED BY <1>3, <1>4 DEF Pruned, p

\* What the critical section does to the deques, one address at a time.
Admits(r) == Len(Pruned(attempts[client[r]], now[r])) < Limit

Stamped(r) == [stamp |-> now[r], at |-> clock, overtaken |-> now[r] < latest]

\* The critical section, one deque at a time.
LEMMA EnterDoes ==
    ASSUME TypeOK, NEW r \in Request, Enter(r), NEW a \in Address
    PROVE  /\ forgotten'[a] = forgotten[a]
                 \o SubSeq(attempts[a], 1, Popped(attempts[a], now[r]))
           /\ attempts'[a] = IF Admits(r) /\ a = client[r]
                             THEN Append(Pruned(attempts[a], now[r]), Stamped(r))
                             ELSE Pruned(attempts[a], now[r])
<1>1. client[r] \in Address /\ now[r] \in Nat
  BY LimiterAssumption DEF TypeOK
<1>2. attempts[client[r]] \in Seq(Entry)
  BY <1>1 DEF TypeOK
<1>3. Len(Pruned(attempts[client[r]], now[r])) \in Nat
  BY <1>1, <1>2, Parts, LenProperties
<1>4. (Len(Pruned(attempts[client[r]], now[r])) >= Limit) <=> ~Admits(r)
  BY <1>3, LimiterAssumption DEF Admits
<1> QED BY <1>1, <1>4 DEF Enter, Stamped, TypeOK

\* Every variable keeps its type.
LEMMA TypeStep == TypeOK /\ [Next]_vars => TypeOK'
<1> SUFFICES ASSUME TypeOK, [Next]_vars PROVE TypeOK'
  OBVIOUS
<1> USE LimiterAssumption
<1>1. CASE Tick
  BY <1>1 DEF TypeOK, Tick, threads
<1>2. CASE Restart
  <2>1. <<>> \in Seq(Entry)
    BY EmptySeq
  <2> QED BY <1>2, <2>1 DEF TypeOK, Restart
<1>3. ASSUME NEW r \in Request, NEW a \in Address, Arrive(r, a) PROVE TypeOK'
  BY <1>3 DEF TypeOK, Arrive
<1>4. ASSUME NEW r \in Request, Finish(r) PROVE TypeOK'
  BY <1>4 DEF TypeOK, Finish
<1>5. ASSUME NEW r \in Request, Enter(r) PROVE TypeOK'
  <2>1. now[r] \in Nat /\ Stamped(r) \in Entry
    BY DEF TypeOK, Stamped, Entry
  <2>2. \A a \in Address : attempts[a] \in Seq(Entry) /\ forgotten[a] \in Seq(Entry)
    BY DEF TypeOK
  <2>3. ASSUME NEW a \in Address
        PROVE  attempts'[a] \in Seq(Entry) /\ forgotten'[a] \in Seq(Entry)
    <3>1. /\ Pruned(attempts[a], now[r]) \in Seq(Entry)
          /\ SubSeq(attempts[a], 1, Popped(attempts[a], now[r])) \in Seq(Entry)
      BY <2>1, <2>2, Parts
    <3>2. Append(Pruned(attempts[a], now[r]), Stamped(r)) \in Seq(Entry)
      BY <2>1, <3>1, AppendProperties
    <3>3. forgotten[a] \o SubSeq(attempts[a], 1, Popped(attempts[a], now[r])) \in Seq(Entry)
      BY <2>2, <3>1, ConcatProperties
    <3> QED BY <1>5, <3>1, <3>2, <3>3, EnterDoes
  <2>4. attempts' = [a \in Address |-> attempts'[a]] /\ forgotten' = [a \in Address |-> forgotten'[a]]
    BY <1>5 DEF Enter, TypeOK
  <2>5. attempts' \in [Address -> Seq(Entry)] /\ forgotten' \in [Address -> Seq(Entry)]
    BY <2>3, <2>4
  <2>6. /\ latest' \in 0..MaxClock /\ pc' \in [Request -> {"idle", "stamped", "checking"}]
        /\ now' \in [Request -> 0..MaxClock] /\ code' \in [Request -> {"none", "429", "checked"}]
        /\ UNCHANGED <<clock, client>>
    BY <1>5 DEF TypeOK, Enter
  <2> QED BY <2>5, <2>6 DEF TypeOK
<1>6. CASE UNCHANGED vars
  BY <1>6 DEF TypeOK, vars, threads
<1> QED BY <1>1, <1>2, <1>3, <1>4, <1>5, <1>6 DEF Next

-----------------------------------------------------------------------------
\* One critical section, one deque: what is popped is old, what stays is short,
\* in order and dated.
LEMMA EnterKeepsDeque ==
    ASSUME IInv, NEW r \in Request, Enter(r), NEW a \in Address
    PROVE  /\ \A k \in 1..Len(forgotten'[a]) : forgotten'[a][k].stamp < latest' - Window
           /\ Len(attempts'[a]) <= Limit
           /\ \A j, k \in 1..Len(attempts'[a]) :
                 j <= k => attempts'[a][j].at <= attempts'[a][k].at
           /\ \A k \in 1..Len(attempts'[a]) :
                 attempts'[a][k].stamp <= attempts'[a][k].at /\ attempts'[a][k].at <= clock'
<1> DEFINE q == attempts[a]
           f == forgotten[a]
           p == Popped(q, now[r])
           out == SubSeq(q, 1, p)
           rest == Pruned(q, now[r])
<1>1. /\ q \in Seq(Entry) /\ f \in Seq(Entry) /\ now[r] \in Nat /\ Stamped(r) \in Entry
      /\ clock \in Nat /\ latest \in Nat /\ Window \in Nat /\ Limit \in Nat
  <2>1. q \in Seq(Entry) /\ f \in Seq(Entry)
    BY DEF IInv, TypeOK
  <2>2. Stamped(r) \in Entry
    BY DEF IInv, TypeOK, Stamped, Entry
  <2> QED BY <2>1, <2>2, LimiterAssumption DEF IInv, TypeOK
<1>2. /\ p \in 0..Len(q) /\ \A k \in 1..p : q[k].stamp < now[r] - Window
      /\ rest \in Seq(Entry) /\ Len(rest) = Len(q) - p /\ \A k \in 1..Len(q) - p : rest[k] = q[p + k]
      /\ out \in Seq(Entry) /\ Len(out) = p /\ \A k \in 1..p : out[k] = q[k]
  BY <1>1, PoppedIsOld, Parts
<1>3. /\ Len(q) \in Nat /\ Len(f) \in Nat
      /\ \A k \in 1..Len(q) : q[k].stamp \in Nat /\ q[k].at \in Nat
      /\ \A k \in 1..Len(f) : f[k].stamp \in Nat
  <2>1. /\ \A k \in 1..Len(q) : q[k] \in Entry
        /\ \A k \in 1..Len(f) : f[k] \in Entry
    BY <1>1, LenProperties
  <2>2. \A e \in Entry : e.stamp \in Nat /\ e.at \in Nat
    BY LimiterAssumption DEF Entry
  <2> QED BY <1>1, <2>1, <2>2, LenProperties
<1>4. /\ forgotten'[a] = f \o out
      /\ attempts'[a] = IF Admits(r) /\ a = client[r] THEN Append(rest, Stamped(r)) ELSE rest
  BY EnterDoes DEF IInv
<1>5. latest' = (IF now[r] > latest THEN now[r] ELSE latest) /\ clock' = clock
  BY DEF Enter
<1>6. Admits(r) /\ a = client[r] => Len(rest) < Limit
  BY DEF Admits
<1>7. /\ \A k \in 1..Len(f) : f[k].stamp < latest - Window
      /\ Len(q) <= Limit
      /\ \A j, k \in 1..Len(q) : j <= k => q[j].at <= q[k].at
      /\ \A k \in 1..Len(q) : q[k].stamp <= q[k].at /\ q[k].at <= clock
      /\ now[r] <= clock
  BY DEF IInv, Old, Short, Ordered, Dated
<1> HIDE DEF q, f, p, out, rest
<1>8. \A k \in 1..Len(forgotten'[a]) : forgotten'[a][k].stamp < latest' - Window
  <2>1. /\ Len(f \o out) = Len(f) + p
        /\ \A k \in 1..Len(f) + p : (f \o out)[k] = IF k <= Len(f) THEN f[k] ELSE out[k - Len(f)]
    BY ZenonT(30), <1>1, <1>2, ConcatProperties
  <2> SUFFICES ASSUME NEW k \in 1..Len(f) + p PROVE (f \o out)[k].stamp < latest' - Window
    BY <1>4, <2>1
  <2>2. CASE k <= Len(f)
    BY SMTT(30), <1>1, <1>3, <1>5, <1>7, <2>1, <2>2
  <2>3. CASE k > Len(f)
    <3>1. k - Len(f) \in 1..p /\ (f \o out)[k] = q[k - Len(f)]
      BY <1>2, <1>3, <2>1, <2>3
    <3>2. q[k - Len(f)].stamp \in Nat /\ q[k - Len(f)].stamp < now[r] - Window
      BY <1>2, <1>3, <3>1
    <3> QED BY SMTT(30), <1>1, <1>5, <3>1, <3>2
  <2> QED BY <1>2, <1>3, <2>2, <2>3
<1>9. /\ Len(rest) \in Nat /\ Len(rest) <= Limit
      /\ \A j, k \in 1..Len(rest) : j <= k => rest[j].at <= rest[k].at
      /\ \A k \in 1..Len(rest) : rest[k].stamp <= rest[k].at /\ rest[k].at <= clock
      /\ \A k \in 1..Len(rest) : rest[k].at \in Nat
  <2>1. \A k \in 1..Len(rest) : p + k \in 1..Len(q) /\ rest[k] = q[p + k]
    BY <1>2, <1>3
  <2>2. ASSUME NEW j \in 1..Len(rest), NEW k \in 1..Len(rest), j <= k
        PROVE  rest[j].at <= rest[k].at
    <3>1. p + j <= p + k
      BY <1>2, <1>3, <2>2
    <3> QED BY <1>7, <2>1, <3>1
  <2>3. Len(rest) \in Nat /\ Len(rest) <= Limit
    BY <1>1, <1>2, <1>3, <1>7
  <2>4. ASSUME NEW k \in 1..Len(rest)
        PROVE  rest[k].at \in Nat /\ rest[k].stamp <= rest[k].at /\ rest[k].at <= clock
    BY <1>3, <1>7, <2>1
  <2> QED BY <2>2, <2>3, <2>4
<1>10. CASE ~(Admits(r) /\ a = client[r])
  BY <1>4, <1>5, <1>8, <1>9, <1>10
<1>11. CASE Admits(r) /\ a = client[r]
  <2> DEFINE more == Append(rest, Stamped(r))
  <2>1. /\ Len(more) = Len(rest) + 1 /\ more[Len(rest) + 1] = Stamped(r)
        /\ \A k \in 1..Len(rest) : more[k] = rest[k]
    BY <1>1, <1>2, AppendProperties
  <2>2. Stamped(r).stamp = now[r] /\ Stamped(r).at = clock
    BY DEF Stamped
  <2>3. attempts'[a] = more
    BY <1>4, <1>11
  <2> HIDE DEF more
  <2>4. Len(more) <= Limit
    BY <1>1, <1>6, <1>9, <1>11, <2>1
  <2>5. \A k \in 1..Len(more) : k \in 1..Len(rest) \/ k = Len(rest) + 1
    BY <1>9, <2>1
  <2>6. ASSUME NEW k \in 1..Len(more) PROVE more[k].stamp <= more[k].at /\ more[k].at <= clock
    <3>1. CASE k \in 1..Len(rest)
      BY <1>9, <2>1, <3>1
    <3>2. CASE k = Len(rest) + 1
      BY <1>1, <1>7, <2>1, <2>2, <3>2
    <3> QED BY <2>5, <3>1, <3>2
  <2>7. ASSUME NEW j \in 1..Len(more), NEW k \in 1..Len(more), j <= k
        PROVE  more[j].at <= more[k].at
    <3>1. CASE k = Len(rest) + 1
      BY <2>1, <2>2, <2>6, <3>1
    <3>2. CASE k \in 1..Len(rest)
      BY <1>9, <2>1, <2>5, <2>7, <3>2
    <3> QED BY <2>5, <3>1, <3>2
  <2> QED BY <1>5, <1>8, <2>3, <2>4, <2>6, <2>7
<1> QED BY <1>10, <1>11

\* Every entry the process ever admitted, where Admitted has it.
LEMMA AdmittedAre ==
    ASSUME TypeOK, NEW a \in Address
    PROVE  /\ Len(forgotten[a]) \in Nat /\ Len(attempts[a]) \in Nat
           /\ DOMAIN Admitted(a) = 1..Len(forgotten[a]) + Len(attempts[a])
           /\ \A k \in 1..Len(forgotten[a]) + Len(attempts[a]) : Admitted(a)[k] =
                  IF k <= Len(forgotten[a]) THEN forgotten[a][k]
                                            ELSE attempts[a][k - Len(forgotten[a])]
<1>1. attempts[a] \in Seq(Entry) /\ forgotten[a] \in Seq(Entry)
  BY DEF TypeOK
<1>2. Admitted(a) \in Seq(Entry)
  BY <1>1, ConcatProperties DEF Admitted
<1>3. DOMAIN Admitted(a) = 1..Len(Admitted(a))
  BY <1>2, LenProperties
<1> QED BY ZenonT(30), <1>1, <1>3, ConcatProperties, LenProperties DEF Admitted

\* In the window of the newest stamp there are only entries that are still in the deque.
LEMMA RecentAreFew ==
    ASSUME TypeOK, Old, Short, NEW a \in Address
    PROVE  IsFiniteSet(Recent(a)) /\ Cardinality(Recent(a)) <= Limit
<1> DEFINE S == Recent(a)
           n == Len(forgotten[a])
           m == Len(attempts[a])
<1>1. /\ n \in Nat /\ m \in Nat /\ m <= Limit /\ DOMAIN Admitted(a) = 1..n + m
      /\ \A k \in 1..n : Admitted(a)[k] = forgotten[a][k]
  <2>1. TypeOK /\ m <= Limit
    BY DEF Short
  <2>2. /\ n \in Nat /\ m \in Nat /\ DOMAIN Admitted(a) = 1..n + m
        /\ \A k \in 1..n + m : Admitted(a)[k] =
              IF k <= n THEN forgotten[a][k] ELSE attempts[a][k - n]
    BY <2>1, AdmittedAre
  <2>3. n \in Nat /\ m \in Nat
    BY <2>2
  <2> HIDE DEF n, m
  <2>4. \A k \in 1..n : k \in 1..n + m /\ k <= n
    BY <2>3
  <2> QED BY <2>1, <2>2, <2>4
<1>2. \A k \in 1..n : ~(forgotten[a][k].stamp >= latest - Window)
  <2>1. \A k \in 1..n : forgotten[a][k] \in Entry
    BY LenProperties DEF TypeOK
  <2>2. \A e \in Entry : e.stamp \in Nat
    BY LimiterAssumption DEF Entry
  <2>3. latest - Window \in Int
    BY LimiterAssumption DEF TypeOK
  <2> QED BY <2>1, <2>2, <2>3 DEF Old
<1> HIDE DEF n, m
<1>3. S \subseteq n + 1..n + m
  BY <1>1, <1>2 DEF Recent
<1>4. IsFiniteSet(n + 1..n + m) /\ Cardinality(n + 1..n + m) = m
  <2>1. n + 1 \in Int /\ n + m \in Int /\ m \in Nat /\ n \in Nat
    BY <1>1
  <2>2. /\ IsFiniteSet(n + 1..n + m)
        /\ Cardinality(n + 1..n + m) = IF n + 1 > n + m THEN 0 ELSE n + m - (n + 1) + 1
    BY <2>1, FS_Interval
  <2>3. (IF n + 1 > n + m THEN 0 ELSE n + m - (n + 1) + 1) = m
    BY <2>1
  <2> QED BY <2>2, <2>3
<1> HIDE DEF S
<1>5. Cardinality(S) <= m /\ Cardinality(S) \in Nat
  BY <1>3, <1>4, FS_Subset, FS_CardinalityType
<1>6. m <= Limit /\ m \in Nat /\ Limit \in Nat
  BY <1>1, LimiterAssumption
<1>7. IsFiniteSet(S)
  BY <1>3, <1>4, FS_Subset
<1> QED BY <1>5, <1>6, <1>7 DEF S

\* The same of the next state.
Few == \A a \in Address : IsFiniteSet(Recent(a)) /\ Cardinality(Recent(a)) <= Limit

LEMMA AllAreFew == TypeOK /\ Old /\ Short => Few
BY RecentAreFew DEF Few

LEMMA AllAreFewNext == (TypeOK /\ Old /\ Short)' => Few'
BY AllAreFew, PTL

\* The critical section adds at most one admission behind the others.
LEMMA EnterAdmits ==
    ASSUME IInv, NEW r \in Request, Enter(r), NEW a \in Address
    PROVE  \/ Admitted(a)' = Admitted(a)
           \/ Admitted(a)' = Append(Admitted(a), Stamped(r))
<1> DEFINE q == attempts[a]
           p == Popped(q, now[r])
           out == SubSeq(q, 1, p)
           rest == Pruned(q, now[r])
<1>1. q \in Seq(Entry) /\ forgotten[a] \in Seq(Entry) /\ now[r] \in Nat
  BY LimiterAssumption DEF IInv, TypeOK
<1>2. /\ forgotten'[a] = forgotten[a] \o out
      /\ attempts'[a] = IF Admits(r) /\ a = client[r] THEN Append(rest, Stamped(r)) ELSE rest
  BY EnterDoes DEF IInv
<1>3. out \in Seq(Entry) /\ rest \in Seq(Entry) /\ Stamped(r) \in Entry
  <2>1. Stamped(r) \in Entry
    BY DEF IInv, TypeOK, Stamped, Entry
  <2> QED BY <1>1, <2>1, Parts
<1>4. out \o rest = q
  <2>1. p \in 0..Len(q) /\ Len(q) \in Nat
    BY <1>1, PoppedIsOld, LenProperties
  <2> HIDE DEF p, q
  <2>2. 1 \in 1..Len(q) + 1 /\ p \in 1 - 1..Len(q) /\ Len(q) \in p..Len(q)
    BY <2>1
  <2>3. SubSeq(q, 1, p) \o SubSeq(q, p + 1, Len(q)) = SubSeq(q, 1, Len(q))
    BY <1>1, <2>2, ConcatAdjacentSubSeq
  <2>4. SubSeq(q, 1, Len(q)) = q
    BY <1>1, SubSeqFull
  <2> QED BY <2>3, <2>4 DEF Pruned, p
<1> HIDE DEF p, q, out, rest
<1>5. (forgotten[a] \o out) \o rest = forgotten[a] \o q
  <2> DEFINE f == forgotten[a]
  <2>1. f \in Seq(Entry) /\ out \in Seq(Entry) /\ rest \in Seq(Entry)
    BY <1>1, <1>3
  <2> HIDE DEF f
  <2>2. (f \o out) \o rest = f \o (out \o rest)
    BY <2>1, ConcatAssociative
  <2> QED BY <1>4, <2>2 DEF f
<1>6. (forgotten[a] \o out) \o Append(rest, Stamped(r))
        = Append((forgotten[a] \o out) \o rest, Stamped(r))
  <2> DEFINE s == forgotten[a] \o out
             e == Stamped(r)
  <2>1. s \in Seq(Entry) /\ s \o rest \in Seq(Entry)
    BY <1>1, <1>3, ConcatProperties
  <2>2. <<e>> \in Seq(Entry)
    BY <1>3
  <2> HIDE DEF s, e
  <2>3. Append(rest, e) = rest \o <<e>> /\ Append(s \o rest, e) = (s \o rest) \o <<e>>
    BY <1>3, <2>1, AppendIsConcat DEF e
  <2>4. (s \o rest) \o <<e>> = s \o (rest \o <<e>>)
    BY <1>3, <2>1, <2>2, ConcatAssociative
  <2> QED BY <2>3, <2>4 DEF s, e
<1>7. Admitted(a) = forgotten[a] \o q /\ Admitted(a)' = forgotten'[a] \o attempts'[a]
  BY DEF Admitted, q
<1> QED BY <1>2, <1>5, <1>6, <1>7

\* An admission that nothing overtook has only recent ones in its windows.
LEMMA EnterKeepsTurns ==
    ASSUME IInv, NEW r \in Request, Enter(r), TypeOK', Old', Short' PROVE Turns'
<1> SUFFICES ASSUME NEW a \in Address, NEW t \in 0..MaxClock
             PROVE  (Cardinality(InTurn(a, t)) <= Limit)'
  BY DEF Turns
<1>1. CASE Admitted(a)' = Admitted(a)
  BY <1>1 DEF IInv, Turns, InTurn
<1>2. CASE Admitted(a)' = Append(Admitted(a), Stamped(r))
  <2> DEFINE N == Len(Admitted(a))
  <2>1. /\ Admitted(a) \in Seq(Entry) /\ N \in Nat /\ DOMAIN Admitted(a) = 1..N
        /\ Stamped(r) \in Entry
    <3>1. Admitted(a) \in Seq(Entry)
      BY ConcatProperties DEF IInv, TypeOK, Admitted
    <3> QED BY <3>1, LenProperties DEF IInv, TypeOK, Stamped, Entry
  <2>2. /\ DOMAIN Admitted(a)' = 1..N + 1 /\ Admitted(a)'[N + 1] = Stamped(r)
        /\ \A k \in 1..N : Admitted(a)'[k] = Admitted(a)[k]
    BY <1>2, <2>1, AppendProperties, LenProperties
  <2>3. now[r] \in Nat /\ latest \in Nat /\ Window \in Nat /\ t \in Nat
    BY LimiterAssumption DEF IInv, TypeOK
  <2>4. CASE now[r] \in t - Window..t /\ now[r] >= latest
    <3>1. latest' = now[r]
      BY <2>3, <2>4 DEF Enter
    <3>2. InTurn(a, t)' \subseteq Recent(a)'
      <4> SUFFICES ASSUME NEW k \in DOMAIN Admitted(a)', Admitted(a)'[k].stamp \in t - Window..t
                   PROVE  Admitted(a)'[k].stamp >= latest' - Window
        BY DEF InTurn, Recent
      <4> QED BY <2>3, <2>4, <3>1
    <3>3. IsFiniteSet(Recent(a))' /\ (Cardinality(Recent(a)) <= Limit)'
      BY AllAreFewNext DEF Few
    <3>4. Cardinality(InTurn(a, t)') <= Cardinality(Recent(a)')
          /\ Cardinality(InTurn(a, t)') \in Nat /\ Cardinality(Recent(a)') \in Nat
      BY <3>2, <3>3, FS_Subset, FS_CardinalityType
    <3> QED BY <3>3, <3>4, LimiterAssumption
  <2>5. CASE ~(now[r] \in t - Window..t /\ now[r] >= latest)
    <3>1. Stamped(r).stamp = now[r] /\ (Stamped(r).overtaken <=> now[r] < latest)
      BY Zenon DEF Stamped
    <3>2. now[r] < latest <=> ~(now[r] >= latest)
      BY <2>3
    <3>3. ~(Stamped(r).stamp \in t - Window..t /\ ~Stamped(r).overtaken)
      BY Zenon, <2>5, <3>1, <3>2
    <3>4. InTurn(a, t)' = InTurn(a, t)
      BY <2>1, <2>2, <3>3 DEF InTurn
    <3> QED BY <3>4 DEF IInv, Turns
  <2> QED BY <2>4, <2>5
<1> QED BY <1>1, <1>2, EnterAdmits

\* Without a step of the limiter, or without entries, there is nothing to count.
LEMMA SameTurns == Turns /\ UNCHANGED <<attempts, forgotten>> => Turns'
BY DEF Turns, InTurn, Admitted

LEMMA NoTurns == (\A a \in Address : attempts[a] = <<>> /\ forgotten[a] = <<>>) => Turns
<1> SUFFICES ASSUME NEW a \in Address, attempts[a] = <<>>, forgotten[a] = <<>>,
                    NEW t \in 0..MaxClock
             PROVE  Cardinality(InTurn(a, t)) <= Limit
  BY DEF Turns
<1>1. Admitted(a) = <<>>
  BY ConcatEmptySeq, EmptySeq DEF Admitted
<1>2. InTurn(a, t) = {}
  BY <1>1 DEF InTurn
<1> QED BY <1>2, FS_EmptySet, LimiterAssumption

LEMMA NoTurnsNext == (\A a \in Address : attempts[a] = <<>> /\ forgotten[a] = <<>>)' => Turns'
BY NoTurns, PTL

\* The invariant is kept by every step.
LEMMA StepKeeps == IInv /\ [Next]_vars => IInv'
<1> SUFFICES ASSUME IInv, [Next]_vars PROVE IInv'
  OBVIOUS
<1>0. TypeOK'
  BY TypeStep DEF IInv
<1>1. CASE Tick
  <2>1. clock' = clock + 1 /\ UNCHANGED <<attempts, now, forgotten, latest>>
    BY <1>1 DEF Tick, threads
  <2>2. Old' /\ Short' /\ Ordered'
    BY <2>1 DEF IInv, Old, Short, Ordered
  <2>3. Dated'
    <3>1. \A a \in Address : \A k \in 1..Len(attempts[a]) : attempts[a][k] \in Entry
      BY LenProperties DEF IInv, TypeOK
    <3>2. \A e \in Entry : e.at \in Nat
      BY LimiterAssumption DEF Entry
    <3>3. clock \in Nat /\ \A r \in Request : now[r] \in Nat
      BY LimiterAssumption DEF IInv, TypeOK
    <3>4. ASSUME NEW a \in Address, NEW k \in 1..Len(attempts[a])
          PROVE  attempts[a][k].stamp <= attempts[a][k].at /\ attempts[a][k].at <= clock + 1
      <4>1. attempts[a][k].at \in Nat /\ attempts[a][k].at <= clock
        BY <3>1, <3>2 DEF IInv, Dated
      <4> QED BY <3>3, <4>1 DEF IInv, Dated
    <3>5. \A r \in Request : now[r] <= clock + 1
      BY <3>3 DEF IInv, Dated
    <3> QED BY <2>1, <3>4, <3>5 DEF Dated
  <2> QED BY <1>0, <2>1, <2>2, <2>3, SameTurns DEF IInv
<1>2. CASE Restart
  <2>1. \A a \in Address : attempts'[a] = <<>> /\ forgotten'[a] = <<>>
    BY <1>2 DEF Restart
  <2>2. \A r \in Request : now'[r] <= clock'
    BY <1>2, LimiterAssumption DEF Restart, IInv, TypeOK
  <2>3. Len(<<>>) = 0
    BY EmptySeq
  <2>4. Turns'
    BY <2>1, NoTurnsNext
  <2> QED BY <1>0, <2>1, <2>2, <2>3, <2>4, LimiterAssumption DEF IInv, Old, Short, Ordered, Dated
<1>3. ASSUME NEW r \in Request, (\E a \in Address : Arrive(r, a)) \/ Finish(r) PROVE IInv'
  <2>1. /\ UNCHANGED <<clock, attempts, forgotten, latest>>
        /\ \A q \in Request : now'[q] \in {now[q], clock, 0}
    BY <1>3 DEF Arrive, Finish, IInv, TypeOK
  <2>2. \A q \in Request : now'[q] <= clock
    <3>1. clock \in Nat /\ 0 <= clock
      BY LimiterAssumption DEF IInv, TypeOK
    <3>2. \A q \in Request : now[q] <= clock
      BY DEF IInv, Dated
    <3> QED BY <2>1, <3>1, <3>2
  <2> QED BY <1>0, <2>1, <2>2, SameTurns DEF IInv, Old, Short, Ordered, Dated
<1>4. ASSUME NEW r \in Request, Enter(r) PROVE IInv'
  <2>1. \A q \in Request : now'[q] <= clock'
    BY <1>4, LimiterAssumption DEF Enter, IInv, TypeOK, Dated
  <2>2. Old' /\ Short' /\ Ordered' /\ Dated'
    BY <1>4, <2>1, EnterKeepsDeque DEF Old, Short, Ordered, Dated
  <2> QED BY <1>0, <1>4, <2>2, EnterKeepsTurns DEF IInv
<1>5. CASE UNCHANGED vars
  BY <1>0, <1>5, SameTurns DEF vars, threads, IInv, Old, Short, Ordered, Dated
<1> QED BY <1>1, <1>2, <1>3, <1>4, <1>5 DEF Next

\* The initial states satisfy the invariant.
LEMMA InitEstablishes == Init => IInv
<1> SUFFICES ASSUME Init PROVE IInv
  OBVIOUS
<1>1. <<>> \in Seq(Entry) /\ Len(<<>>) = 0
  BY EmptySeq
<1>2. TypeOK
  BY <1>1, LimiterAssumption DEF Init, TypeOK
<1>3. Turns
  BY NoTurns DEF Init
<1> QED BY <1>1, <1>2, <1>3, LimiterAssumption DEF Init, IInv, Old, Short, Ordered, Dated

\* The invariant holds in every reachable state.
THEOREM Inductive == Spec => []IInv
BY InitEstablishes, StepKeeps, PTL DEF Spec

\* Types (auth_server.py:51, 78-104).
THEOREM TypeCorrect == Spec => []TypeOK
<1>1. IInv => TypeOK
  BY DEF IInv
<1> QED BY <1>1, Inductive, PTL

\* By the stamps it goes by, the limiter admits no more than the limit in the window
\* of the newest stamp, nor in any other window of those that no newer stamp
\* overtook, however the threads interleave (auth_server.py:83-92).
THEOREM LimitHolds == Spec => []WindowLimited
<1>1. IInv => WindowLimited
  BY RecentAreFew DEF IInv, Turns, WindowLimited
<1> QED BY <1>1, Inductive, PTL

\* A 429 is deserved: the head that popleft left is recent, so all behind it are
\* admissions of the last window, and there are as many as the limit
\* (auth_server.py:85-91).
THEOREM RefusalsAreDeserved == Spec => RefusalsDeserved
<1> DEFINE Lately(r) == {k \in DOMAIN Admitted(client[r]) :
                            Admitted(client[r])[k].at >= now[r] - Window}
<1>1. ASSUME IInv, [Next]_vars, NEW r \in Request, code'[r] = "429", code[r] # "429"
      PROVE  Cardinality(Lately(r)) >= Limit
  <2>1. Enter(r) /\ ~Admits(r)
    <3>1. PICK u \in Request : Enter(u)
      BY <1>1 DEF Next, Tick, Restart, Arrive, Finish, IInv, TypeOK, vars, threads
    <3>2. u = r /\ code'[r] = IF Len(Pruned(attempts[client[r]], now[r])) >= Limit
                              THEN "429" ELSE code[r]
      BY <1>1, <3>1 DEF Enter, IInv, TypeOK
    <3>3. Len(Pruned(attempts[client[r]], now[r])) >= Limit
      BY <1>1, <3>2
    <3>4. Len(Pruned(attempts[client[r]], now[r])) \in Nat
      <4>1. attempts[client[r]] \in Seq(Entry) /\ now[r] \in Nat
        BY <1>1, LimiterAssumption DEF IInv, TypeOK
      <4> QED BY <4>1, Parts, LenProperties
    <3> QED BY <3>1, <3>2, <3>3, <3>4, LimiterAssumption DEF Admits
  <2> DEFINE a == client[r]
             q == attempts[a]
             n == Len(forgotten[a])
             m == Len(q)
             p == Popped(q, now[r])
  <2>2. /\ a \in Address /\ q \in Seq(Entry) /\ now[r] \in Nat
        /\ Limit \in Nat \ {0} /\ Window \in Nat
    BY <1>1, LimiterAssumption DEF IInv, TypeOK
  <2>3. /\ n \in Nat /\ m \in Nat /\ DOMAIN Admitted(a) = 1..n + m
        /\ \A k \in 1..n + m : Admitted(a)[k] =
              IF k <= n THEN forgotten[a][k] ELSE q[k - n]
    BY <1>1, <2>2, AdmittedAre DEF IInv
  <2>4. p \in 0..m /\ (p < m => q[p + 1].stamp >= now[r] - Window)
    BY <2>2, PoppedIsOld
  <2>5. m - p >= Limit
    <3>1. Len(Pruned(q, now[r])) = m - p
      BY <2>2, Parts
    <3> QED BY <2>1, <2>2, <2>3, <2>4, <3>1 DEF Admits
  <2>6. /\ \A j, k \in 1..m : j <= k => q[j].at <= q[k].at
        /\ \A k \in 1..m : q[k].stamp <= q[k].at
    BY <1>1, <2>2 DEF IInv, Ordered, Dated
  <2>7. \A k \in 1..m : q[k].stamp \in Nat /\ q[k].at \in Nat
    <3>1. \A k \in 1..m : q[k] \in Entry
      BY <2>2, LenProperties
    <3>2. \A e \in Entry : e.stamp \in Nat /\ e.at \in Nat
      BY LimiterAssumption DEF Entry
    <3> QED BY <3>1, <3>2
  <2> DEFINE S == {k \in DOMAIN Admitted(a) : Admitted(a)[k].at >= now[r] - Window}
  <2>8. n + p + 1..n + m \subseteq S
    <3> SUFFICES ASSUME NEW k \in n + p + 1..n + m PROVE k \in S
      OBVIOUS
    <3> HIDE DEF a, q, n, m, p
    <3>1. k \in 1..n + m /\ ~(k <= n) /\ k - n \in 1..m /\ p + 1 \in 1..m /\ p + 1 <= k - n /\ p < m
      BY <2>3, <2>4
    <3>2. q[p + 1].at <= q[k - n].at /\ q[p + 1].stamp <= q[p + 1].at
      BY <2>6, <3>1
    <3>3. q[k - n].at >= now[r] - Window
      BY SMTT(30), <2>2, <2>4, <2>7, <3>1, <3>2
    <3> QED BY <2>3, <3>1, <3>3
  <2>9. S \subseteq 1..n + m
    BY <2>3
  <2> HIDE DEF S, a, q, n, m, p
  <2>10. /\ Cardinality(n + p + 1..n + m) = m - p
         /\ IsFiniteSet(1..n + m)
    <3>1. n + p + 1 \in Int /\ n + m \in Int /\ p <= m /\ n \in Nat /\ m \in Nat /\ p \in Nat
      BY <2>3, <2>4
    <3>2. /\ Cardinality(n + p + 1..n + m)
               = IF n + p + 1 > n + m THEN 0 ELSE n + m - (n + p + 1) + 1
          /\ IsFiniteSet(1..n + m)
      BY <3>1, FS_Interval
    <3>3. (IF n + p + 1 > n + m THEN 0 ELSE n + m - (n + p + 1) + 1) = m - p
      BY <3>1
    <3> QED BY <3>2, <3>3
  <2>11. IsFiniteSet(S) /\ Cardinality(S) \in Nat
    BY <2>9, <2>10, FS_Subset, FS_CardinalityType
  <2>12. m - p <= Cardinality(S)
    BY <2>8, <2>10, <2>11, FS_Subset
  <2>13. Cardinality(S) >= Limit
    BY <2>2, <2>3, <2>4, <2>5, <2>11, <2>12
  <2> QED BY <2>13 DEF S, a
<1>2. IInv /\ [Next]_vars =>
        [\A r \in Request : code'[r] = "429" /\ code[r] # "429" =>
            Cardinality({k \in DOMAIN Admitted(client[r]) :
                            Admitted(client[r])[k].at >= now[r] - Window}) >= Limit]_vars
  BY <1>1
<1> QED BY <1>2, Inductive, PTL DEF Spec, RefusalsDeserved

=============================================================================
