----------------------------- MODULE SiemProofs -----------------------------
(***************************************************************************)
(* Siem, for any number of addresses and lines, any page size, threshold,  *)
(* window and cooldown: the types, that every alert rests on distinct      *)
(* failures in the log, and that a cycle that runs to its end leaves no    *)
(* offender out.  A document is its line (Identified), so a count is never *)
(* more than the failures of the log (Counted); an offender of the cycle   *)
(* has a recent alert, or a bucket in hand, or an address that the next    *)
(* page will still come to (Covered).                                      *)
(***************************************************************************)
EXTENDS Siem, FiniteSetTheorems, FunctionTheorems, SequenceTheorems, TLAPS

FailuresIn(l, ip, t) == {k \in DOMAIN l : /\ l[k].ip = ip /\ l[k].outcome = "failure"
                                          /\ l[k].ts \in t - Window..t}

Failures(ip, t) == FailuresIn(log, ip, t)

DocumentsIn(ds, l, ip, t) == {d \in ds : d.line \in FailuresIn(l, ip, t)}

Identified == \A d \in logs : d = [id |-> d.line, line |-> d.line]

Counted == \A n \in 1..Len(buckets) :
              buckets[n].count <= Cardinality(Failures(buckets[n].ip, now))

InHand == pc = "put" => buckets # <<>> /\ Head(buckets).count >= Threshold

Recent(ip) == \E a \in alerts : a.ip = ip /\ now - a.at < Cooldown

Covered ==
    pc # "sleep" => \A ip \in due :
        /\ Count(ip, now) >= Threshold
        /\ \/ Recent(ip)
           \/ ip > after
           \/ \E n \in 1..Len(buckets) : buckets[n].ip = ip /\ buckets[n].count >= Threshold

IInv == TypeOK /\ AlertsJustified /\ Identified /\ Counted /\ InHand /\ Covered

-----------------------------------------------------------------------------
\* What the assumption says of the constants.
LEMMA Constants ==
    /\ Hosts \in Nat \ {0} /\ PageSize \in Nat \ {0} /\ Threshold \in Nat \ {0}
    /\ Window \in Nat \ {0} /\ Cooldown \in Nat \ {0}
    /\ MaxEvents \in Nat /\ MaxClock \in Nat /\ MaxFaults \in Nat
BY SiemAssumption

\* The elements of a finite set of numbers have distinct ranks, and every rank.
LEMMA Ranks ==
    ASSUME NEW h \in Nat, NEW S \in SUBSET (1..h)
    PROVE  /\ IsFiniteSet(S) /\ Cardinality(S) \in Nat
           /\ \A x \in S : Cardinality({j \in S : j < x}) \in 0..Cardinality(S) - 1
           /\ \A x, y \in S : x < y => Cardinality({j \in S : j < x}) < Cardinality({j \in S : j < y})
           /\ \A m \in 1..Cardinality(S) : \E x \in S : Cardinality({j \in S : j < x}) = m - 1
<1> DEFINE Below(x) == {j \in S : j < x}
<1>0. \A x \in S : x \in Int
  OBVIOUS
<1>1. \A T \in SUBSET S : IsFiniteSet(T) /\ Cardinality(T) \in Nat
  <2>1. IsFiniteSet(1..h)
    BY FS_Interval
  <2> QED BY <2>1, FS_Subset, FS_CardinalityType
<1>2. ASSUME NEW T \in SUBSET S, NEW U \in SUBSET T, U # T
      PROVE  Cardinality(U) < Cardinality(T)
  <2>1. Cardinality(U) <= Cardinality(T) /\ (Cardinality(T) = Cardinality(U) => T = U)
    BY <1>1, FS_Subset
  <2> QED BY <1>1, <1>2, <2>1
<1>3. ASSUME NEW x \in S PROVE Cardinality(Below(x)) \in 0..Cardinality(S) - 1
  <2>1. x \notin Below(x)
    BY x \in 1..h
  <2>2. Below(x) \in SUBSET S /\ Below(x) # S
    BY <2>1
  <2> HIDE DEF Below
  <2>3. Cardinality(Below(x)) < Cardinality(S) /\ Cardinality(Below(x)) \in Nat
    BY <1>1, <1>2, <2>2
  <2> QED BY <1>1, <2>3
<1>4. ASSUME NEW x \in S, NEW y \in S, x < y
      PROVE  Cardinality(Below(x)) < Cardinality(Below(y))
  <2>1. \A j \in S : j < x => j < y
    BY <1>0, <1>4
  <2>2. Below(y) \in SUBSET S /\ Below(x) \in SUBSET Below(y)
    BY <2>1
  <2>3. x \in Below(y) /\ x \notin Below(x)
    BY <1>0, <1>4
  <2> HIDE DEF Below
  <2> QED BY <1>2, <2>2, <2>3
<1>5. ASSUME NEW m \in 1..Cardinality(S) PROVE \E x \in S : Cardinality(Below(x)) = m - 1
  <2> DEFINE f == [x \in S |-> Cardinality(Below(x)) + 1]
  <2>1. f \in [S -> 1..Cardinality(S)]
    BY <1>1, <1>3
  <2>2. \A x, y \in S : f[x] = f[y] => x = y
    <3>1. ASSUME NEW x \in S, NEW y \in S, x # y
          PROVE  Cardinality(Below(x)) # Cardinality(Below(y))
      <4>1. x < y \/ y < x
        BY <3>1
      <4> QED BY <1>3, <1>4, <4>1
    <3>2. \A x \in S : Cardinality(Below(x)) \in Nat
      BY <1>1, <1>3
    <3> HIDE DEF Below
    <3> QED BY <3>1, <3>2
  <2>3. f \in Injection(S, 1..Cardinality(S))
    BY <2>1, <2>2, Fun_IsInj
  <2>4. IsFiniteSet(1..Cardinality(S)) /\ Cardinality(1..Cardinality(S)) = Cardinality(S)
    BY <1>1, FS_Interval
  <2> HIDE DEF f
  <2>5. f \in Surjection(S, 1..Cardinality(S))
    BY <2>3, <2>4, FS_Injection
  <2>6. PICK x \in S : f[x] = m
    BY <2>5 DEF Surjection
  <2>7. Cardinality(Below(x)) + 1 = m /\ Cardinality(Below(x)) \in Nat
    BY <1>1, <1>3, <2>6 DEF f
  <2> HIDE DEF Below
  <2> QED BY <2>7
<1> QED BY <1>1, <1>3, <1>4, <1>5

\* A log, and documents that are lines of it.
Indexed(l, ds) == /\ Len(l) \in Nat /\ DOMAIN l = 1..Len(l)
                  /\ \A d \in ds : d.line \in 1..Len(l) /\ d = [id |-> d.line, line |-> d.line]

\* Documents are counted no more often than there are failures in the log.
LEMMA Counting ==
    ASSUME NEW l, NEW ds, Indexed(l, ds), NEW ip, NEW t
    PROVE  /\ IsFiniteSet(FailuresIn(l, ip, t)) /\ Cardinality(FailuresIn(l, ip, t)) \in Nat
           /\ IsFiniteSet(DocumentsIn(ds, l, ip, t)) /\ Cardinality(DocumentsIn(ds, l, ip, t)) \in Nat
           /\ Cardinality(DocumentsIn(ds, l, ip, t)) <= Cardinality(FailuresIn(l, ip, t))
<1>1. IsFiniteSet(FailuresIn(l, ip, t)) /\ Cardinality(FailuresIn(l, ip, t)) \in Nat
  <2>1. IsFiniteSet(1..Len(l)) /\ FailuresIn(l, ip, t) \in SUBSET (1..Len(l))
    <3>1. Len(l) \in Int /\ FailuresIn(l, ip, t) \subseteq 1..Len(l)
      BY DEF Indexed, FailuresIn
    <3> QED BY <3>1, FS_Interval
  <2> QED BY <2>1, FS_Subset, FS_CardinalityType
<1> DEFINE M == DocumentsIn(ds, l, ip, t)
           f == [d \in M |-> d.line]
<1>2. f \in [M -> FailuresIn(l, ip, t)]
  BY DEF DocumentsIn
<1>3. \A d, e \in M : f[d] = f[e] => d = e
  BY DEF Indexed, DocumentsIn
<1>4. f \in Injection(M, FailuresIn(l, ip, t))
  BY <1>2, <1>3, Fun_IsInj
<1> HIDE DEF f
<1>5. IsFiniteSet(M) /\ Cardinality(M) <= Cardinality(FailuresIn(l, ip, t))
  BY <1>1, <1>4, FS_Injection
<1> QED BY <1>1, <1>5, FS_CardinalityType

\* They only become more as the log and the index grow.
LEMMA Growing ==
    ASSUME NEW l, NEW ds, Indexed(l, ds), NEW m, NEW es, Indexed(m, es),
           Len(l) <= Len(m), \A k \in 1..Len(l) : m[k] = l[k], ds \subseteq es, NEW ip, NEW t
    PROVE  /\ Cardinality(FailuresIn(l, ip, t)) <= Cardinality(FailuresIn(m, ip, t))
           /\ Cardinality(DocumentsIn(ds, l, ip, t)) <= Cardinality(DocumentsIn(es, m, ip, t))
<1>1. FailuresIn(l, ip, t) \subseteq FailuresIn(m, ip, t)
  BY DEF FailuresIn, Indexed
<1>2. DocumentsIn(ds, l, ip, t) \subseteq DocumentsIn(es, m, ip, t)
  BY <1>1 DEF DocumentsIn
<1> QED BY <1>1, <1>2, Counting, FS_Subset

\* What the detector counts is what the lemmas above count.
LEMMA Counts ==
    ASSUME TypeOK, Identified, NEW ip, NEW t
    PROVE  /\ Indexed(log, logs) /\ Count(ip, t) = Cardinality(DocumentsIn(logs, log, ip, t))
           /\ Count(ip, t) \in Nat /\ Cardinality(Failures(ip, t)) \in Nat
           /\ Count(ip, t) <= Cardinality(Failures(ip, t))
<1>1. Indexed(log, logs)
  BY LenProperties DEF TypeOK, Identified, Indexed
<1>2. Matching(ip, t) = DocumentsIn(logs, log, ip, t)
  BY <1>1 DEF Indexed, Matching, DocumentsIn, FailuresIn
<1> QED BY <1>1, <1>2, Counting DEF Count, Failures

-----------------------------------------------------------------------------
\* A page lists hits with their counts, in order; the others stand after it, and
\* an empty page means that there is none.
LEMMA Turns ==
    ASSUME TypeOK, Identified, Page
    PROVE  /\ buckets' \in Seq([ip : Ip, count : Nat]) /\ after' \in 0..Hosts
           /\ \A n \in 1..Len(buckets') : buckets'[n].count = Count(buckets'[n].ip, now)
           /\ \A ip \in Hits : ip > after' \/ \E n \in 1..Len(buckets') :
                                 buckets'[n] = [ip |-> ip, count |-> Count(ip, now)]
           /\ pc' = (IF Hits = {} THEN "sleep" ELSE "page")
<1> DEFINE Rank(S, x) == Cardinality({j \in S : j < x})
           page == {ip \in Hits : Rank(Hits, ip) < PageSize}
           Nth(n) == CHOOSE ip \in page : Rank(page, ip) = n - 1
           k == Cardinality(page)
<1>1. Hits \in SUBSET (1..Hosts) /\ page \in SUBSET (1..Hosts) /\ page \in SUBSET Hits
  BY DEF Hits, Ip
<1>2. /\ buckets' = [n \in 1..k |-> [ip |-> Nth(n), count |-> Count(Nth(n), now)]]
      /\ after' = IF page = {} THEN after ELSE Nth(k)
      /\ pc' = IF page = {} THEN "sleep" ELSE "page"
      /\ after \in 0..Hosts
  BY DEF Page, TypeOK
<1> HIDE DEF page
<1>3. /\ k \in Nat /\ IsFiniteSet(page)
      /\ \A x \in page : Rank(page, x) \in 0..k - 1
      /\ \A x, y \in page : x < y => Rank(page, x) < Rank(page, y)
      /\ \A m \in 1..k : \E x \in page : Rank(page, x) = m - 1
  BY <1>1, Constants, Ranks
<1>4. /\ \A x \in Hits : Rank(Hits, x) \in Nat
      /\ \A x, y \in Hits : x < y => Rank(Hits, x) < Rank(Hits, y)
      /\ Hits # {} => \E x \in Hits : Rank(Hits, x) = 0
  <2>1. /\ Cardinality(Hits) \in Nat /\ IsFiniteSet(Hits)
        /\ \A x \in Hits : Rank(Hits, x) \in 0..Cardinality(Hits) - 1
        /\ \A x, y \in Hits : x < y => Rank(Hits, x) < Rank(Hits, y)
        /\ \A m \in 1..Cardinality(Hits) : \E x \in Hits : Rank(Hits, x) = m - 1
    BY <1>1, Constants, Ranks
  <2>2. Hits # {} => 1 \in 1..Cardinality(Hits)
    BY <2>1, FS_EmptySet
  <2> HIDE DEF Rank
  <2> QED BY <2>1, <2>2
<1>5. page = {} <=> Hits = {}
  <2> HIDE DEF Rank
  <2> QED BY <1>1, <1>4, Constants DEF page
<1>6. \A n \in 1..k : Nth(n) \in page /\ Rank(page, Nth(n)) = n - 1
  <2> HIDE DEF Rank, k
  <2> QED BY <1>3
<1>7. \A x \in page : \E n \in 1..k : Nth(n) = x
  <2> SUFFICES ASSUME NEW x \in page PROVE Nth(Rank(page, x) + 1) = x /\ Rank(page, x) + 1 \in 1..k
    OBVIOUS
  <2>1. Rank(page, x) + 1 \in 1..k
    <3> HIDE DEF Rank, k
    <3> QED BY <1>3
  <2> DEFINE y == Nth(Rank(page, x) + 1)
  <2>2. y \in page /\ Rank(page, y) = Rank(page, x)
    <3> HIDE DEF Rank, Nth
    <3> QED BY <1>3, <1>6, <2>1
  <2> HIDE DEF y, Rank
  <2>3. ~(x < y) /\ ~(y < x)
    BY <1>3, <2>2
  <2>4. x = y
    BY <1>1, <2>2, <2>3
  <2> QED BY <2>1, <2>4 DEF y
<1> HIDE DEF Nth, k, Rank
<1>8. /\ DOMAIN buckets' = 1..k
      /\ \A n \in 1..k : buckets'[n] = [ip |-> Nth(n), count |-> Count(Nth(n), now)]
      /\ \A n \in 1..k : buckets'[n] \in [ip : Ip, count : Nat]
  <2>1. \A n \in 1..k : Nth(n) \in Ip
    BY <1>1, <1>6 DEF Ip
  <2> QED BY <1>2, <2>1, Counts
<1>9. buckets' \in Seq([ip : Ip, count : Nat]) /\ Len(buckets') = k
  BY <1>2, <1>3, <1>8
<1>10. page # {} => k \in 1..k
  BY <1>3, FS_EmptySet DEF k
<1>11. after' \in 0..Hosts
  BY <1>1, <1>2, <1>6, <1>10
<1>12. ASSUME NEW ip \in Hits, ip \notin page PROVE ip > after'
  <2>1. page # {}
    BY <1>5, <1>12
  <2>2. after' \in page
    BY <1>2, <1>6, <1>10, <2>1
  <2>3. Rank(Hits, after') < PageSize /\ ~(Rank(Hits, ip) < PageSize)
    BY <1>12, <2>2 DEF page
  <2>4. ~(ip < after') /\ ip # after'
    BY <1>1, <1>4, <1>12, <2>2, <2>3, Constants
  <2> QED BY <1>1, <2>2, <2>4
<1>13. \A n \in 1..Len(buckets') : buckets'[n].count = Count(buckets'[n].ip, now)
  BY <1>8, <1>9
<1>14. ASSUME NEW ip \in page
       PROVE  \E n \in 1..Len(buckets') : buckets'[n] = [ip |-> ip, count |-> Count(ip, now)]
  BY <1>7, <1>8, <1>9
<1> QED BY <1>2, <1>5, <1>9, <1>11, <1>12, <1>13, <1>14

-----------------------------------------------------------------------------
\* The types of the pipeline, where a document stays its line ...
Pipelined ==
    /\ log \in Seq([ip : Ip, ts : 0..MaxClock, outcome : {"failure", "success"}])
    /\ sincedb \in 0..read /\ read \in 0..Len(log)
    /\ queue \subseteq 1..Len(log)
    /\ \A d \in logs : d.line \in 1..Len(log)
    /\ Identified

\* ... and of the detector.
Polled ==
    /\ clock \in 0..MaxClock /\ faults \in 0..MaxFaults
    /\ alerts \cup late \subseteq [ip : Ip, at : 0..MaxClock]
    /\ pc \in {"sleep", "page", "put"}
    /\ now \in 0..clock /\ after \in 0..Hosts /\ due \subseteq Ip
    /\ buckets \in Seq([ip : Ip, count : Nat])

\* Every step keeps the types of the pipeline.
LEMMA PipelineStep == TypeOK /\ Identified /\ [Next]_vars => Pipelined'
<1> SUFFICES ASSUME TypeOK, Identified, [Next]_vars PROVE Pipelined'
  OBVIOUS
<1> DEFINE L == [ip : Ip, ts : 0..MaxClock, outcome : {"failure", "success"}]
<1>0. /\ Len(log) \in Nat /\ log \in Seq(L) /\ read \in 0..Len(log) /\ sincedb \in 0..read
      /\ queue \subseteq 1..Len(log)
      /\ \A d \in logs : d.line \in 1..Len(log) /\ d = [id |-> d.line, line |-> d.line]
  BY LenProperties DEF TypeOK, Identified
<1> USE DEF Pipelined, Identified
<1>1. CASE UNCHANGED pipeline
  BY <1>0, <1>1 DEF pipeline
<1>2. ASSUME NEW ip \in Ip, NEW o \in {"failure", "success"}, Collect(ip, o) PROVE Pipelined'
  <2>1. [ip |-> ip, ts |-> clock, outcome |-> o] \in L
    BY DEF TypeOK
  <2>2. log' \in Seq(L) /\ Len(log') = Len(log) + 1
    BY <1>0, <1>2, <2>1, AppendProperties DEF Collect
  <2> HIDE DEF L
  <2>3. 1..Len(log) \subseteq 1..Len(log') /\ 0..Len(log) \subseteq 0..Len(log')
    BY <1>0, <2>2
  <2>4. UNCHANGED <<read, sincedb, queue, logs>>
    BY <1>2 DEF Collect
  <2> QED BY <1>0, <2>2, <2>3, <2>4 DEF L
<1>3. CASE ReadLine
  <2>1. read' = read + 1 /\ read' \in 1..Len(log) /\ queue' = queue \cup {read'}
    BY <1>0, <1>3 DEF ReadLine
  <2>2. UNCHANGED <<log, sincedb, logs>>
    BY <1>3 DEF ReadLine
  <2> HIDE DEF L
  <2> QED BY <1>0, <2>1, <2>2 DEF L
<1>4. CASE SavePosition
  BY <1>0, <1>4 DEF SavePosition
<1>5. CASE LogstashRestarts
  <2>1. read' = sincedb /\ queue' = {} /\ UNCHANGED <<log, sincedb, logs>>
    BY <1>5 DEF LogstashRestarts
  <2> HIDE DEF L
  <2> QED BY <1>0, <2>1 DEF L
<1>6. ASSUME NEW line \in queue, Ship(line) PROVE Pipelined'
  <2>1. /\ logs' = logs \cup {[id |-> line, line |-> line]} /\ queue' \subseteq queue
        /\ UNCHANGED <<log, read, sincedb>>
    BY <1>6 DEF Ship, DocumentId
  <2> QED BY <1>0, <2>1
<1>7. Detect \/ Tick \/ ApplyLate \/ UNCHANGED vars => UNCHANGED pipeline
  BY DEF Detect, Wake, Page, Bucket, Put, Abort, Tick, ApplyLate, vars
<1> QED BY <1>1, <1>2, <1>3, <1>4, <1>5, <1>6, <1>7 DEF Next, Ingest

\* What the detector has in hand can be taken apart.
LEMMA First ==
    ASSUME Polled, buckets # <<>>
    PROVE  /\ Head(buckets) = buckets[1] /\ Head(buckets).ip \in Ip /\ Head(buckets).count \in Nat
           /\ Tail(buckets) \in Seq([ip : Ip, count : Nat])
           /\ Len(buckets) \in Nat /\ Len(Tail(buckets)) = Len(buckets) - 1
           /\ \A n \in 1..Len(Tail(buckets)) : Tail(buckets)[n] = buckets[n + 1]
<1>1. /\ Head(buckets) \in [ip : Ip, count : Nat]
      /\ Tail(buckets) \in Seq([ip : Ip, count : Nat])
      /\ Len(Tail(buckets)) = Len(buckets) - 1
      /\ \A n \in 1..Len(Tail(buckets)) : Tail(buckets)[n] = buckets[n + 1]
  BY HeadTailProperties DEF Polled
<1> QED BY <1>1, LenProperties DEF Polled

\* Every step keeps the types of the detector.
LEMMA PolledStep == TypeOK /\ Identified /\ InHand /\ [Next]_vars => Polled'
<1> SUFFICES ASSUME TypeOK, Identified, InHand, [Next]_vars PROVE Polled'
  OBVIOUS
<1>0. Polled
  BY DEF TypeOK, Polled
<1> USE Constants DEF Polled
<1>1. CASE Tick
  BY <1>0, <1>1 DEF Tick, detector
<1>2. CASE Ingest
  <2>1. UNCHANGED <<clock, alerts, late, detector>> /\ faults' \in 0..MaxFaults
    <3>1. CASE LogstashRestarts
      BY <1>0, <3>1 DEF LogstashRestarts, Fault
    <3>2. CASE Ingest /\ ~LogstashRestarts
      <4>1. UNCHANGED <<clock, faults, alerts, late, detector>>
        BY <3>2 DEF Ingest, Collect, ReadLine, Ship, SavePosition
      <4> QED BY <1>0, <4>1
    <3> QED BY <1>2, <3>1, <3>2
  <2> QED BY <1>0, <2>1 DEF detector
<1>3. CASE ApplyLate
  BY <1>0, <1>3 DEF ApplyLate, detector
<1>4. CASE Wake
  <2>1. buckets' \in Seq([ip : Ip, count : Nat])
    BY <1>4 DEF Wake
  <2> QED BY <1>0, <1>4, <2>1 DEF Wake
<1>5. CASE Page
  BY <1>0, <1>5, Turns DEF Page
<1>6. CASE Bucket
  BY <1>0, <1>6, First DEF Bucket, Next1
<1>7. CASE Put
  <2>1. NewAlert \in [ip : Ip, at : 0..MaxClock]
    BY <1>0, <1>7, First DEF Put, InHand, NewAlert
  <2> QED BY <1>0, <1>7, <2>1, First DEF Put, InHand, Next1
<1>8. CASE Abort
  <2>1. pc = "put" => NewAlert \in [ip : Ip, at : 0..MaxClock]
    BY <1>0, First DEF InHand, NewAlert
  <2>2. late' \subseteq [ip : Ip, at : 0..MaxClock]
    BY <1>0, <1>8, <2>1 DEF Abort
  <2>3. /\ pc' = "sleep" /\ buckets' = <<>> /\ faults' \in 0..MaxFaults
        /\ UNCHANGED <<clock, alerts, now, after, due>>
    BY <1>0, <1>8 DEF Abort, Fault
  <2>4. buckets' \in Seq([ip : Ip, count : Nat])
    BY <2>3
  <2> QED BY <1>0, <2>2, <2>3, <2>4
<1>9. CASE UNCHANGED vars
  BY <1>0, <1>9 DEF vars, detector
<1> QED BY <1>1, <1>2, <1>3, <1>4, <1>5, <1>6, <1>7, <1>8, <1>9 DEF Next, Detect

\* The types are kept.
LEMMA TypeStep == TypeOK /\ Identified /\ InHand /\ [Next]_vars => TypeOK' /\ Identified'
BY PipelineStep, PolledStep DEF Pipelined, Polled, TypeOK

-----------------------------------------------------------------------------
\* No step takes a failure or a document away.
LEMMA Grows ==
    ASSUME TypeOK, Identified, InHand, [Next]_vars
    PROVE  /\ Indexed(log, logs) /\ Indexed(log', logs')
           /\ \A ip, t : /\ Cardinality(FailuresIn(log, ip, t)) \in Nat
                         /\ Cardinality(FailuresIn(log', ip, t)) \in Nat
                         /\ Cardinality(FailuresIn(log, ip, t)) <= Cardinality(FailuresIn(log', ip, t))
           /\ \A ip, t : /\ Cardinality(DocumentsIn(logs, log, ip, t)) \in Nat
                         /\ Cardinality(DocumentsIn(logs', log', ip, t)) \in Nat
                         /\ Cardinality(DocumentsIn(logs, log, ip, t))
                              <= Cardinality(DocumentsIn(logs', log', ip, t))
<1>1. TypeOK' /\ Identified'
  BY TypeStep
<1>2. Indexed(log, logs)
  BY LenProperties DEF TypeOK, Identified, Indexed
<1>3. Indexed(log', logs')
  BY <1>1, LenProperties DEF TypeOK, Identified, Indexed
<1>4. Len(log) <= Len(log') /\ (\A k \in 1..Len(log) : log'[k] = log[k]) /\ logs \subseteq logs'
  <2>1. ASSUME NEW ip \in Ip, NEW o \in {"failure", "success"}, Collect(ip, o)
        PROVE  Len(log) <= Len(log') /\ (\A k \in 1..Len(log) : log'[k] = log[k]) /\ logs \subseteq logs'
    <3> DEFINE L == [ip : Ip, ts : 0..MaxClock, outcome : {"failure", "success"}]
               e == [ip |-> ip, ts |-> clock, outcome |-> o]
    <3>1. e \in L /\ log \in Seq(L) /\ log' = Append(log, e) /\ logs' = logs
      BY <2>1 DEF TypeOK, Collect
    <3> HIDE DEF L, e
    <3> QED BY <3>1, AppendProperties, LenProperties
  <2>2. ASSUME NEW line \in queue, Ship(line) PROVE log' = log /\ logs \subseteq logs'
    BY <2>2 DEF Ship
  <2>3. Detect \/ Tick \/ ApplyLate \/ ReadLine \/ SavePosition \/ LogstashRestarts \/ UNCHANGED vars
          => UNCHANGED <<log, logs>>
    BY DEF Detect, Wake, Page, Bucket, Put, Abort, Tick, ApplyLate, ReadLine, SavePosition,
           LogstashRestarts, vars, pipeline
  <2>4. UNCHANGED log => Len(log) <= Len(log') /\ \A k \in 1..Len(log) : log'[k] = log[k]
    BY <1>2 DEF Indexed
  <2> QED BY <2>1, <2>2, <2>3, <2>4 DEF Next, Ingest
<1> QED BY <1>2, <1>3, <1>4, Counting, Growing

-----------------------------------------------------------------------------
\* Steps that leave the detector and its alerts alone, or add an alert that was
\* already on its way.
Quiet == /\ UNCHANGED detector
         /\ alerts \subseteq alerts' /\ alerts' \cup late' \subseteq alerts \cup late

\* The clock, the ingestion and a late PUT are such steps.
LEMMA Quiets == Tick \/ Ingest \/ ApplyLate \/ UNCHANGED vars => Quiet
<1>1. ApplyLate => Quiet
  BY DEF ApplyLate, Quiet
<1>2. Tick \/ Ingest \/ UNCHANGED vars => UNCHANGED <<alerts, late, detector>>
  BY DEF Tick, Ingest, Collect, ReadLine, Ship, SavePosition, LogstashRestarts, vars
<1> QED BY <1>1, <1>2 DEF Quiet

\* An alert that is written, or may still be, has its bucket behind it.
LEMMA JustifiedStep == IInv /\ [Next]_vars => AlertsJustified'
<1> SUFFICES ASSUME IInv, [Next]_vars PROVE AlertsJustified'
  OBVIOUS
<1> DEFINE Backed(a) == Cardinality(FailuresIn(log, a.ip, a.at)) >= Threshold
<1>1. \A a \in alerts \cup late : Backed(a)
  BY DEF IInv, AlertsJustified, FailuresIn
<1>2. pc = "put" => Backed(NewAlert)
  <2> SUFFICES ASSUME pc = "put" PROVE Backed(NewAlert)
    OBVIOUS
  <2>1. buckets # <<>> /\ Head(buckets).count >= Threshold
    BY DEF IInv, InHand
  <2>2. Head(buckets) = buckets[1] /\ 1 \in 1..Len(buckets) /\ Head(buckets).count \in Nat
    BY <2>1, First DEF IInv, TypeOK, Polled
  <2>3. Head(buckets).count <= Cardinality(FailuresIn(log, Head(buckets).ip, now))
    BY <2>2 DEF IInv, Counted, Failures
  <2>4. Cardinality(FailuresIn(log, Head(buckets).ip, now)) \in Nat
    BY Grows DEF IInv
  <2>5. NewAlert.ip = Head(buckets).ip /\ NewAlert.at = now
    BY DEF NewAlert
  <2> QED BY <2>1, <2>2, <2>3, <2>4, <2>5, Constants
<1>3. \A a \in alerts' \cup late' : a \in alerts \cup late \/ (pc = "put" /\ a = NewAlert)
  <2>1. CASE Quiet
    BY <2>1 DEF Quiet
  <2>2. CASE Wake \/ Page \/ Bucket
    BY <2>2 DEF Wake, Page, Bucket
  <2>3. CASE Put
    BY <2>3 DEF Put
  <2>4. CASE Abort
    BY <2>4 DEF Abort
  <2> QED BY <2>1, <2>2, <2>3, <2>4, Quiets DEF Next, Detect
<1>4. \A a \in alerts' \cup late' : Backed(a)
  <2> HIDE DEF Backed
  <2> QED BY <1>1, <1>2, <1>3
<1>5. \A a \in alerts' \cup late' : Cardinality(FailuresIn(log', a.ip, a.at)) >= Threshold
  BY <1>4, Grows, Constants DEF IInv
<1> QED BY <1>5 DEF AlertsJustified, FailuresIn

\* A count that is in hand stays below what the log holds.
LEMMA CountedStep == IInv /\ [Next]_vars => Counted'
<1> SUFFICES ASSUME IInv, [Next]_vars,
                    NEW n \in 1..Len(buckets')
             PROVE  buckets'[n].count <= Cardinality(FailuresIn(log', buckets'[n].ip, now'))
  BY DEF Counted, Failures
<1>0. Polled /\ Polled' /\ InHand
  BY PolledStep DEF IInv, TypeOK, Polled
<1>1. buckets'[n].count \in Nat
  <2>1. buckets' \in Seq([ip : Ip, count : Nat])
    BY <1>0 DEF Polled
  <2>2. buckets'[n] \in [ip : Ip, count : Nat]
    BY <2>1, ElementOfSeq
  <2> QED BY <2>2
<1>2. ASSUME NEW b, b.count \in Nat, b.count <= Cardinality(FailuresIn(log, b.ip, now))
      PROVE  b.count <= Cardinality(FailuresIn(log', b.ip, now))
  BY <1>2, Grows DEF IInv
<1>3. \A m \in 1..Len(buckets) : buckets[m].count <= Cardinality(FailuresIn(log, buckets[m].ip, now))
  BY DEF IInv, Counted, Failures
<1>4. CASE UNCHANGED <<buckets, now>>
  BY <1>1, <1>2, <1>3, <1>4
<1>5. CASE buckets' = <<>>
  BY <1>5
<1>6. CASE Page
  <2>1. now' = now
    BY <1>6 DEF Page
  <2>2. buckets'[n].count = Count(buckets'[n].ip, now)
    BY <1>6, Turns DEF IInv
  <2>3. Count(buckets'[n].ip, now) <= Cardinality(FailuresIn(log, buckets'[n].ip, now))
    BY Counts DEF IInv, Failures
  <2> QED BY <1>1, <1>2, <2>1, <2>2, <2>3
<1>7. CASE buckets # <<>> /\ Next1 /\ now' = now
  <2>1. n + 1 \in 1..Len(buckets) /\ buckets'[n] = buckets[n + 1]
    BY <1>0, <1>7, First DEF Next1
  <2> QED BY <1>1, <1>2, <1>3, <1>7, <2>1
<1>8. Quiet => UNCHANGED <<buckets, now>>
  BY DEF Quiet, detector
<1>9. Wake \/ Abort => buckets' = <<>>
  BY DEF Wake, Abort
<1>10. Bucket => now' = now /\ (UNCHANGED buckets \/ (buckets # <<>> /\ Next1))
  BY DEF Bucket
<1>11. Put => now' = now /\ buckets # <<>> /\ Next1
  BY <1>0 DEF Put, InHand
<1> QED BY <1>4, <1>5, <1>6, <1>7, <1>8, <1>9, <1>10, <1>11, Quiets DEF Next, Detect

\* Only a bucket that reaches the threshold is taken in hand.
LEMMA InHandStep == IInv /\ [Next]_vars => InHand'
<1> SUFFICES ASSUME IInv, [Next]_vars, pc' = "put"
             PROVE  buckets' # <<>> /\ Head(buckets').count >= Threshold
  BY DEF InHand
<1>1. CASE Quiet
  BY <1>1 DEF Quiet, detector, IInv, InHand
<1>2. CASE Bucket
  BY <1>2 DEF Bucket, Next1
<1>3. ~(Wake \/ Page \/ Put \/ Abort)
  BY DEF Wake, Page, Put, Next1, Abort
<1> QED BY <1>1, <1>2, <1>3, Quiets DEF Next, Detect

-----------------------------------------------------------------------------
\* An address that the next page has still to come to is one of its hits.
LEMMA StillAHit ==
    ASSUME IInv, pc # "sleep", NEW ip \in due, ip > after PROVE ip \in Hits
<1>1. Count(ip, now) >= Threshold /\ Count(ip, now) \in Nat
  BY Counts DEF IInv, Covered
<1>2. Count(ip, now) > 0
  BY <1>1, Constants
<1> QED BY <1>2 DEF IInv, TypeOK, Hits

\* An offender stays covered: by the page that lists it, by the bucket that is
\* taken up, and in the end by an alert younger than the cooldown.
LEMMA CoveredStep == IInv /\ [Next]_vars => Covered'
<1> SUFFICES ASSUME IInv, [Next]_vars PROVE Covered'
  OBVIOUS
<1> SUFFICES ASSUME pc' # "sleep", NEW ip \in due'
             PROVE  /\ Cardinality(DocumentsIn(logs', log', ip, now')) >= Threshold
                    /\ \/ \E a \in alerts' : a.ip = ip /\ now' - a.at < Cooldown
                       \/ ip > after'
                       \/ \E n \in 1..Len(buckets') :
                             buckets'[n].ip = ip /\ buckets'[n].count >= Threshold
  <2>1. \A ip \in due' : Count(ip, now)' = Cardinality(DocumentsIn(logs', log', ip, now'))
    <3> SUFFICES ASSUME NEW ip \in due'
                 PROVE  Count(ip, now)' = Cardinality(DocumentsIn(logs', log', ip, now'))
      OBVIOUS
    <3>1. Indexed(log', logs')
      BY Grows DEF IInv
    <3>2. {d \in logs' : /\ log'[d.line].ip = ip /\ log'[d.line].outcome = "failure"
                         /\ log'[d.line].ts \in now' - Window..now'}
            = DocumentsIn(logs', log', ip, now')
      BY <3>1 DEF Indexed, DocumentsIn, FailuresIn
    <3> QED BY <3>2 DEF Count, Matching
  <2> QED BY <2>1 DEF Covered, Recent
<1> DEFINE Docs == Cardinality(DocumentsIn(logs', log', ip, now'))
           Alerted == \E a \in alerts' : a.ip = ip /\ now' - a.at < Cooldown
           Listed == \E n \in 1..Len(buckets') :
                        buckets'[n].ip = ip /\ buckets'[n].count >= Threshold
           Held(n) == buckets[n].ip = ip /\ buckets[n].count >= Threshold
<1>0. Polled /\ InHand /\ TypeOK /\ Identified /\ Covered
  BY DEF IInv, TypeOK, Polled
<1>1. ASSUME NEW t \in Int, t = now', Count(ip, t) >= Threshold PROVE Docs >= Threshold
  <2>1. /\ Count(ip, t) = Cardinality(DocumentsIn(logs, log, ip, t))
        /\ Cardinality(DocumentsIn(logs, log, ip, t)) \in Nat
        /\ Cardinality(DocumentsIn(logs', log', ip, t)) \in Nat
        /\ Cardinality(DocumentsIn(logs, log, ip, t)) <= Cardinality(DocumentsIn(logs', log', ip, t))
    BY <1>0, Counts, Grows
  <2> QED BY <1>1, <2>1, Constants
<1>2. CASE Wake
  <2>1. now' = clock /\ after' = 0 /\ clock \in Int /\ ip \in 1..Hosts /\ Count(ip, clock) >= Threshold
    BY <1>0, <1>2 DEF Wake, Polled, Ip
  <2>2. Docs >= Threshold
    BY <1>1, <2>1
  <2> QED BY <2>1, <2>2, Constants
<1>3. CASE ~Wake
  <2>1. pc # "sleep" /\ due' = due /\ now' = now /\ alerts \subseteq alerts'
    <3>1. CASE Quiet
      BY <3>1 DEF Quiet, detector
    <3>2. CASE Page \/ Bucket \/ Put
      BY <3>2 DEF Page, Bucket, Put
    <3>3. ~Abort
      BY DEF Abort
    <3> QED BY <1>3, <3>1, <3>2, <3>3, Quiets DEF Next, Detect
  <2>2. /\ Count(ip, now) >= Threshold
        /\ \/ Recent(ip) \/ ip > after \/ \E n \in 1..Len(buckets) : Held(n)
    BY <1>0, <2>1 DEF Covered
  <2>3. Docs >= Threshold
    BY <1>0, <1>1, <2>1, <2>2 DEF Polled
  <2>4. Recent(ip) => Alerted
    BY <2>1 DEF Recent
  <2>5. CASE Quiet
    BY <2>2, <2>3, <2>4, <2>5 DEF Quiet, detector
  <2>6. CASE Page
    <3>1. buckets = <<>>
      BY <2>6 DEF Page
    <3>2. ip > after => ip > after' \/ Listed
      <4>1. ip > after => ip \in Hits
        BY <2>1, StillAHit
      <4>2. ip \in Hits => ip > after' \/ \E n \in 1..Len(buckets') :
                                buckets'[n] = [ip |-> ip, count |-> Count(ip, now)]
        BY <1>0, <2>6, Turns
      <4> QED BY <2>2, <4>1, <4>2
    <3> QED BY <2>2, <2>3, <2>4, <3>1, <3>2
  <2>7. ASSUME UNCHANGED after, buckets # <<>>, Next1, Head(buckets).ip = ip /\ Held(1) => Alerted
        PROVE  Alerted \/ ip > after' \/ Listed
    <3>1. ASSUME NEW n \in 1..Len(buckets), Held(n) PROVE Alerted \/ Listed
      <4>1. CASE n = 1
        BY <1>0, <2>7, <3>1, <4>1, First
      <4>2. CASE n # 1
        <5>1. n - 1 \in 1..Len(buckets') /\ buckets'[n - 1] = buckets[n]
          BY <1>0, <2>7, <4>2, First DEF Next1
        <5> QED BY <3>1, <5>1
      <4> QED BY <4>1, <4>2
    <3> QED BY <2>2, <2>4, <2>7, <3>1
  <2>8. CASE Bucket
    <3>1. CASE UNCHANGED buckets
      BY <2>2, <2>3, <2>4, <2>8, <3>1 DEF Bucket
    <3>2. CASE Next1 /\ ~(Head(buckets).count >= Threshold /\ ShouldAlert(Head(buckets).ip))
      <4>1. ~ShouldAlert(ip) => Recent(ip)
        <5> SUFFICES ASSUME ~ShouldAlert(ip) PROVE Recent(ip)
          OBVIOUS
        <5>1. PICK a \in AlertsOf(ip) : ~(now - a.at >= Cooldown)
          BY DEF ShouldAlert
        <5>2. a \in alerts /\ a.ip = ip /\ a.at \in Int /\ now \in Int
          BY <1>0 DEF AlertsOf, Polled
        <5> QED BY <5>1, <5>2, Constants DEF Recent
      <4>2. Head(buckets).ip = ip /\ Held(1) => Alerted
        BY <1>0, <2>4, <2>8, <3>2, <4>1, First DEF Bucket
      <4> QED BY <2>3, <2>7, <2>8, <3>2, <4>2 DEF Bucket
    <3> QED BY <2>8, <3>1, <3>2 DEF Bucket
  <2>9. CASE Put
    <3>1. Head(buckets).ip = ip => Alerted
      <4> SUFFICES ASSUME Head(buckets).ip = ip PROVE Alerted
        OBVIOUS
      <4>1. NewAlert \in alerts' /\ NewAlert.ip = ip /\ NewAlert.at = now
        BY <2>9 DEF Put, NewAlert
      <4>2. now' - now < Cooldown
        BY <1>0, <2>1, Constants DEF Polled
      <4> QED BY <2>1, <4>1, <4>2
    <3> QED BY <1>0, <2>3, <2>7, <2>9, <3>1 DEF Put, InHand
  <2> QED BY <1>3, <2>5, <2>6, <2>8, <2>9, Quiets DEF Next, Detect, Abort
<1> QED BY <1>2, <1>3

-----------------------------------------------------------------------------
\* The invariant holds at the start and every step keeps it.
THEOREM Inductive == Spec => []IInv
<1>1. Init => IInv
  <2> SUFFICES ASSUME Init PROVE IInv
    OBVIOUS
  <2>1. /\ log = <<>> /\ Len(log) = 0 /\ queue = {} /\ logs = {} /\ alerts = {} /\ late = {}
        /\ pc = "sleep" /\ buckets = <<>> /\ Len(buckets) = 0
    BY DEF Init
  <2>2. TypeOK
    BY <2>1, Constants DEF Init, TypeOK
  <2> QED BY <2>1, <2>2 DEF IInv, AlertsJustified, Identified, Counted, InHand, Covered
<1>2. IInv /\ [Next]_vars => IInv'
  BY TypeStep, JustifiedStep, CountedStep, InHandStep, CoveredStep DEF IInv
<1> QED BY <1>1, <1>2, PTL DEF Spec

\* The indices hold lines of the log, the detector typed buckets of addresses,
\* whatever is lost, resent or carried out late.
THEOREM TypeCorrect == Spec => []TypeOK
<1>1. IInv => TypeOK
  BY DEF IInv
<1> QED BY <1>1, Inductive, PTL

\* Every alert, written or still on its way, is backed by Threshold distinct
\* failures of its address within its window (app.py:77-132).
THEOREM AlertsAreJustified == Spec => []AlertsJustified
<1>1. IInv => AlertsJustified
  BY DEF IInv
<1> QED BY <1>1, Inductive, PTL

\* A cycle that runs to its end leaves every address that was over the threshold
\* when it began with an alert younger than the cooldown (app.py:86-132).
THEOREM NoOffenderLeftOut == Spec => CyclesComplete
<1> DEFINE A == pc = "page" /\ pc' = "sleep" /\ faults' = faults =>
                  \A ip \in due : \E a \in alerts : a.ip = ip /\ now - a.at < Cooldown
<1>1. IInv /\ [Next]_vars => A
  <2> SUFFICES ASSUME IInv, [Next]_vars, pc = "page", pc' = "sleep", faults' = faults, NEW ip \in due
               PROVE  Recent(ip)
    BY DEF Recent
  <2>1. ~Quiet /\ ~Wake /\ ~Bucket /\ ~Put
    BY DEF Quiet, detector, Wake, Bucket, Put, Next1
  <2>2. ~Abort
    BY DEF Abort, Fault, IInv, TypeOK
  <2>3. Page
    BY <2>1, <2>2, Quiets DEF Next, Detect
  <2>4. Hits = {}
    BY <2>3, Turns DEF IInv
  <2>5. ~(ip > after)
    BY <2>4, StillAHit
  <2>6. Len(buckets) = 0
    BY <2>3 DEF Page
  <2> QED BY <2>5, <2>6 DEF IInv, Covered
<1>2. IInv /\ [Next]_vars => [A]_vars
  BY <1>1
<1>3. Spec => [][A]_vars
  BY <1>2, Inductive, PTL DEF Spec
<1> QED BY <1>3 DEF CyclesComplete

=============================================================================
