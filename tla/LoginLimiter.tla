---------------------------- MODULE LoginLimiter ----------------------------
(***************************************************************************)
(* POST /login of 08-identity-provider/auth_server.py.  Each request is    *)
(* served by a thread that reads the wall clock, then enters the limiter's *)
(* critical section, then spends a while hashing the password.  Between    *)
(* the first two any other thread may run and any time may pass, so the    *)
(* stamp a thread uses can be older than entries already in the deques.    *)
(*                                                                         *)
(* Time is counted in ticks and does not go back; two events may share a   *)
(* tick.  An entry carries, beside the stamp the code stores, the moment   *)
(* it was really admitted and whether a newer stamp had overtaken its own  *)
(* on the way to the lock; forgotten and latest are history too.           *)
(***************************************************************************)
EXTENDS Integers, Sequences, FiniteSets

CONSTANTS Request,   \* threads of the server
          Address,   \* client hosts
          Limit,     \* 10 in the code
          Window,    \* 60 seconds in the code
          MaxClock   \* bound on the clock

ASSUME LimiterAssumption ==
    Limit \in Nat \ {0} /\ Window \in Nat \ {0} /\ MaxClock \in Nat

VARIABLES clock,
          attempts,   \* the deque of each address, oldest first
          pc,         \* where each thread is
          client,     \* the address it serves
          now,        \* the stamp it read
          code,       \* its answer
          forgotten,  \* entries popped from each deque, oldest first
          latest      \* newest stamp the deques were pruned with

threads == <<pc, client, now, code>>
vars    == <<clock, attempts, threads, forgotten, latest>>

Entry == [stamp : 0..MaxClock, at : 0..MaxClock, overtaken : BOOLEAN]
\* Mutants of Kept: an entry at the edge of the window is dropped, or none is.
KeptInside(q, n) == {k \in 1..Len(q) : q[k].stamp > n - Window}
KeptAll(q, n)    == 1..Len(q)

\* popleft while the head is older than the window: an old entry behind a
\* newer one stays.
Kept(q, n) == {k \in 1..Len(q) : q[k].stamp >= n - Window}

Popped(q, n) ==
    IF Kept(q, n) = {} THEN Len(q)
    ELSE (CHOOSE k \in Kept(q, n) : \A j \in Kept(q, n) : k <= j) - 1

Pruned(q, n) == SubSeq(q, Popped(q, n) + 1, Len(q))

Init ==
    /\ clock = 0
    /\ attempts = [a \in Address |-> <<>>]
    /\ forgotten = [a \in Address |-> <<>>]
    /\ latest = 0
    /\ pc = [r \in Request |-> "idle"]
    /\ client \in [Request -> Address]
    /\ now = [r \in Request |-> 0]
    /\ code = [r \in Request |-> "none"]

Tick == /\ clock < MaxClock
        /\ clock' = clock + 1
        /\ UNCHANGED <<attempts, threads, forgotten, latest>>

\* A login whose fields have a legal length arrives and takes its stamp.  One
\* with an oversized field is answered 401 before it is counted.
Arrive(r, a) ==
    /\ pc[r] = "idle"
    /\ pc' = [pc EXCEPT ![r] = "stamped"]
    /\ client' = [client EXCEPT ![r] = a]
    /\ now' = [now EXCEPT ![r] = clock]
    /\ code' = [code EXCEPT ![r] = "none"]
    /\ UNCHANGED <<clock, attempts, forgotten, latest>>

\* The critical section: prune every deque, then refuse or count this attempt.
Enter(r) ==
    LET pruned == [a \in Address |-> Pruned(attempts[a], now[r])]
        full   == Len(pruned[client[r]]) >= Limit
        entry  == [stamp |-> now[r], at |-> clock, overtaken |-> now[r] < latest]
    IN
    /\ pc[r] = "stamped"
    /\ forgotten' = [a \in Address |->
                        forgotten[a] \o SubSeq(attempts[a], 1, Popped(attempts[a], now[r]))]
    /\ attempts' = IF full THEN pruned
                   ELSE [pruned EXCEPT ![client[r]] = Append(@, entry)]
    /\ latest' = IF now[r] > latest THEN now[r] ELSE latest
    /\ pc' = [pc EXCEPT ![r] = IF full THEN "idle" ELSE "checking"]
    /\ code' = [code EXCEPT ![r] = IF full THEN "429" ELSE @]
    /\ now' = [now EXCEPT ![r] = IF full THEN 0 ELSE @]
    /\ UNCHANGED <<clock, client>>

\* Mutant of Finish: the thread is left in a place of its own.
FinishElsewhere(r) ==
    /\ pc[r] = "checking"
    /\ pc' = [pc EXCEPT ![r] = "finished"]
    /\ UNCHANGED <<clock, attempts, client, now, code, forgotten, latest>>

\* Outside the lock: bad credentials (401), a scope the account lacks (403) or a
\* token (200), which the limiter does not tell apart.
Finish(r) ==
    /\ pc[r] = "checking"
    /\ pc' = [pc EXCEPT ![r] = "idle"]
    /\ now' = [now EXCEPT ![r] = 0]
    /\ code' = [code EXCEPT ![r] = "checked"]
    /\ UNCHANGED <<clock, attempts, client, forgotten, latest>>

\* The process is replaced; the deques were in its memory.
Restart ==
    /\ attempts' = [a \in Address |-> <<>>]
    /\ forgotten' = [a \in Address |-> <<>>]
    /\ latest' = 0
    /\ pc' = [r \in Request |-> "idle"]
    /\ now' = [r \in Request |-> 0]
    /\ code' = [r \in Request |-> "none"]
    /\ UNCHANGED <<clock, client>>

Next == \/ Tick \/ Restart
        \/ \E r \in Request : Enter(r) \/ Finish(r) \/ \E a \in Address : Arrive(r, a)

Spec == Init /\ [][Next]_vars

-----------------------------------------------------------------------------
\* Every attempt this process let through to the password check, oldest first.
Admitted(a) == forgotten[a] \o attempts[a]

TypeOK ==
    /\ clock \in 0..MaxClock
    /\ attempts \in [Address -> Seq(Entry)]
    /\ forgotten \in [Address -> Seq(Entry)]
    /\ latest \in 0..MaxClock
    /\ pc \in [Request -> {"idle", "stamped", "checking"}]
    /\ client \in [Request -> Address]
    /\ now \in [Request -> 0..MaxClock]
    /\ code \in [Request -> {"none", "429", "checked"}]

\* Its admissions within the window of the newest stamp, and within the window that
\* ends at t, without those that came to the lock after a newer stamp.
Recent(a)    == {k \in DOMAIN Admitted(a) : Admitted(a)[k].stamp >= latest - Window}
InTurn(a, t) == {k \in DOMAIN Admitted(a) : /\ Admitted(a)[k].stamp \in t - Window..t
                                            /\ ~Admitted(a)[k].overtaken}

\* By the stamps the limiter goes by, it lets at most Limit attempts of each address
\* through: in the window that ends at the newest stamp, all attempts counted; in
\* every other window, those that no newer stamp of whatever address overtook
\* (auth_server.py:83-92).
WindowLimited ==
    \A a \in Address : /\ Cardinality(Recent(a)) <= Limit
                       /\ \A t \in 0..MaxClock : Cardinality(InTurn(a, t)) <= Limit

\* A 429 is deserved: Limit attempts of the same address were really admitted
\* within the window before the refused one took its stamp or since, so a client
\* that keeps quiet for longer than the window (Retry-After) is let in, and no
\* other address can shut it out.
RefusalsDeserved ==
    [][\A r \in Request : code'[r] = "429" /\ code[r] # "429" =>
          Cardinality({k \in DOMAIN Admitted(client[r]) :
                          Admitted(client[r])[k].at >= now[r] - Window}) >= Limit]_vars

\* README.md:21, by the wall clock: ten attempts per address and minute.
TenPerMinute ==
    \A a \in Address, t \in 0..MaxClock :
        Cardinality({k \in DOMAIN Admitted(a) :
                        Admitted(a)[k].at \in t..t + Window - 1}) <= Limit

=============================================================================
