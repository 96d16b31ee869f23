--------------------------- MODULE HoneypotProofs --------------------------
(***************************************************************************)
(* Honeypot, for any connections, slots and waits: types, the conservation *)
(* of the slots, what close() leaves behind, and how long a handler lives. *)
(* The slots are counted by the sets of connections in hand and in the     *)
(* care of a handler; close() reaches every open socket because each is in *)
(* "connections" (Reached) until the handler has closed it (Closed); and a *)
(* handler's age is bounded phase by phase (OnTime).                       *)
(***************************************************************************)
EXTENDS Honeypot, FiniteSetTheorems, TLAPS

InHand == {c \in Conn : Held(c)}
InCare == {c \in Conn : Handled(c)}

\* The types alone; that slots is at most Slots follows from the counts.
Types ==
    /\ stopped \in BOOLEAN /\ listening \in BOOLEAN
    /\ closer \in {"run", "stop", "shut", "done"}
    /\ acceptor \in {"check", "accept", "acquire", "add", "start", "done"}
    /\ slots \in Nat
    /\ connections \subseteq Conn /\ open \subseteq Conn
    /\ phase \in [Conn -> {"away", "backlog", "accepted", "refused", "gone"}
                           \cup Blocked \cup Ending]
    /\ left \in [Conn -> Nat] /\ shell \in [Conn -> 0..Shell]
    /\ parts \in [Conn -> 0..Parts] /\ age \in [Conn -> Nat]

OneInHand == Cardinality(InHand) = (IF acceptor \in {"acquire", "add", "start"} THEN 1 ELSE 0)

\* An open socket is where close() finds it, but for the one just accepted.
Reached == \A c \in open : c \in connections \/ (Held(c) /\ acceptor \in {"acquire", "add"})

\* Before it is accepted and after its handler has closed it, it is not open.
Closed == \A c \in open : phase[c] \in {"accepted", "close"} \cup Blocked

Deaf == closer \in {"shut", "done"} => ~listening

IInv == /\ Types /\ OneInHand /\ Reached /\ Closed /\ Deaf
        /\ SlotsConserved /\ OneLeftBehind

-----------------------------------------------------------------------------
\* What the assumption says of the constants.
LEMMA Limits == /\ Slots \in Nat \ {0} /\ Greeting \in Nat /\ Opening \in Nat
                /\ Readying \in Nat /\ Waiting \in Nat /\ Shell \in Nat
                /\ Parts \in Nat \ {0}
BY HoneypotAssumption

\* Sets of connections are finite.
LEMMA Finite ==
    \A S \in SUBSET Conn : IsFiniteSet(S) /\ Cardinality(S) \in Nat
BY HoneypotAssumption, FS_Subset, FS_CardinalityType

\* Every variable keeps its type: the steps of the server.
LEMMA ServerTypes ==
    ASSUME Types, \/ Serve \/ Stop \/ Shut \/ Sweep
                  \/ \E c \in Conn : Connect(c) \/ Accept(c) \/ Finally(c)
    PROVE  Types'
<1> USE Limits DEF Types, server, session
<1>1. CASE CheckStopped \/ AcceptFails \/ Stop \/ Shut \/ Sweep
  BY <1>1 DEF CheckStopped, AcceptFails, Stop, Shut, Sweep
<1>2. CASE Acquire
  BY <1>2 DEF Acquire
<1>3. ASSUME NEW c \in Conn, Connect(c) \/ Accept(c) \/ Refuse(c) \/ Add(c) \/ Start(c)
      PROVE  Types'
  <2>1. CASE Connect(c)
    BY <2>1 DEF Connect
  <2>2. CASE Accept(c)
    BY <2>2 DEF Accept
  <2>3. CASE Refuse(c)
    BY <2>3 DEF Refuse
  <2>4. CASE Add(c)
    BY <2>4 DEF Add
  <2>5. CASE Start(c)
    BY <2>5 DEF Start, Blocked
  <2> QED BY <1>3, <2>1, <2>2, <2>3, <2>4, <2>5
<1>4. ASSUME NEW c \in Conn, Finally(c) PROVE Types'
  BY <1>4 DEF Finally, CloseConnection, Discard, Release, Ending
<1> QED BY <1>1, <1>2, <1>3, <1>4 DEF Serve

\* A handler moves from a waiting call to another or to its end, and keeps
\* the types.
LEMMA Moves ==
    ASSUME Types, NEW c \in Conn, NEW p \in Blocked \cup {"close"}, NEW w \in Nat,
           Await(c, p, w), shell' \in [Conn -> 0..Shell], parts' \in [Conn -> 0..Parts]
    PROVE  Types'
BY DEF Types, Await, server, Ending

\* What every step of a running handler has in common.
Working(c) ==
    /\ phase[c] \in Blocked
    /\ \E p \in Blocked \cup {"close"} : phase' = [phase EXCEPT ![c] = p]
    /\ UNCHANGED <<server, slots, connections, open>>

\* A step of a handler or its client moves one connection.
LEMMA HandlerStep ==
    ASSUME Types, NEW c \in Conn, Client(c) \/ Expire(c), ~Connect(c)
    PROVE  Types' /\ Working(c)
<1> USE Limits
<1>1. ASSUME phase[c] \in Blocked, NEW p \in Blocked \cup {"close"}, NEW w \in Nat,
             Await(c, p, w), shell' \in [Conn -> 0..Shell], parts' \in [Conn -> 0..Parts]
      PROVE  Types' /\ Working(c)
  BY <1>1, Moves DEF Await, Working
<1>2. shell \in [Conn -> 0..Shell] /\ parts \in [Conn -> 0..Parts]
  BY DEF Types
<1>3. CASE Negotiated(c) \/ ChannelOpen(c)
  BY <1>1, <1>2, <1>3 DEF Negotiated, ChannelOpen, Blocked
<1>4. ASSUME phase[c] \in Blocked, NEW k \in {"exec", "banner", "write"}, Reply(c, k)
      PROVE  Types' /\ Working(c)
  <2>1. parts' \in [Conn -> 0..Parts] /\ k \in Blocked \cup {"close"}
    BY <1>2, <1>4 DEF Reply, Blocked
  <2> QED BY <1>1, <1>2, <1>4, <2>1 DEF Reply
<1>5. ASSUME phase[c] \in Blocked, Leave(c) \/ Round(c) PROVE Types' /\ Working(c)
  <2>1. CASE Leave(c)
    BY <1>1, <1>2, <1>5, <2>1 DEF Leave
  <2>2. CASE Await(c, "read", Waiting) /\ UNCHANGED <<shell, parts>>
    BY <1>1, <1>2, <1>5, <2>2 DEF Blocked
  <2> QED BY <1>5, <2>1, <2>2 DEF Round
<1>6. CASE Requested(c)
  BY <1>4, <1>6 DEF Requested, Blocked
<1>7. CASE SentPart(c)
  <2>1. parts' \in [Conn -> 0..Parts]
    BY <1>2, <1>7 DEF SentPart
  <2>2. phase[c] \in Blocked
    BY <1>7 DEF SentPart, Sends, Blocked
  <2> QED BY <1>1, <1>2, <1>7, <2>1, <2>2 DEF SentPart
<1>8. CASE BannerDone(c)
  <2>1. phase[c] \in Blocked /\ shell' \in [Conn -> 0..Shell] /\ UNCHANGED parts
    BY <1>2, <1>8 DEF BannerDone, Blocked
  <2>2. CASE Await(c, "close", 0)
    BY <1>1, <1>2, <2>1, <2>2
  <2>3. CASE Await(c, "read", Waiting)
    BY <1>1, <1>2, <2>1, <2>3 DEF Blocked
  <2> QED BY <1>8, <2>2, <2>3 DEF BannerDone
<1>9. CASE ExecDone(c) \/ WriteDone(c) \/ Fail(c) \/ Expire(c)
  BY <1>5, <1>9 DEF ExecDone, WriteDone, Fail, Expire, Blocked
<1>10. CASE Byte(c)
  BY <1>4, <1>5, <1>10 DEF Byte, Blocked
<1> QED BY <1>3, <1>6, <1>7, <1>8, <1>9, <1>10 DEF Client

\* Time keeps the types.
LEMMA TickTypes == ASSUME Types, Tick PROVE Types'
BY Limits DEF Types, Tick, server

-----------------------------------------------------------------------------
\* The initial states satisfy the invariant.
LEMMA InitEstablishes == Init => IInv
<1> SUFFICES ASSUME Init PROVE IInv
  OBVIOUS
<1>1. Types
  <2>1. slots \in Nat /\ 0 \in 0..Shell /\ 0 \in 0..Parts
    BY Limits DEF Init
  <2> QED BY <2>1 DEF Init, Types
<1>4. Reached /\ Closed /\ Deaf
  BY DEF Init, Reached, Closed, Deaf
<1>2. InHand = {} /\ InCare = {}
  BY DEF Init, InHand, InCare, Held, Handled, Blocked, Ending
<1>3. OneInHand /\ SlotsConserved /\ OneLeftBehind
  <2>1. {c \in Conn : Handled(c)} = {}
    BY <1>2 DEF InCare
  <2> QED BY <1>2, <2>1, FS_EmptySet, Limits DEF Init, OneInHand, SlotsConserved, OneLeftBehind
<1> QED BY <1>1, <1>3, <1>4 DEF IInv

\* Steps that move no connection and take no slot change no count.
LEMMA SameCounts ==
    ASSUME IInv, InHand' = InHand, InCare' = InCare, UNCHANGED <<slots, acceptor>>
    PROVE  OneInHand' /\ SlotsConserved'
BY DEF IInv, OneInHand, SlotsConserved, InCare, InHand

\* Once close() has returned nothing is opened any more.
LEMMA LeftBehind ==
    ASSUME IInv, Types', UNCHANGED closer, open' \subseteq open PROVE OneLeftBehind'
<1> SUFFICES ASSUME closer = "done" PROVE Cardinality(open') <= 1
  BY DEF OneLeftBehind
<1>1. Cardinality(open) <= 1 /\ IsFiniteSet(open)
  BY Finite DEF IInv, OneLeftBehind, Types
<1>2. Cardinality(open') <= Cardinality(open)
  BY <1>1, FS_Subset
<1>3. Cardinality(open') \in Nat /\ Cardinality(open) \in Nat
  BY Finite DEF IInv, Types
<1> QED BY <1>1, <1>2, <1>3

\* A handler at work neither takes nor gives anything.
LEMMA WorkingKeeps == ASSUME IInv, Types', NEW c \in Conn, Working(c) PROVE IInv'
<1>1. PICK p \in Blocked \cup {"close"} : phase' = [phase EXCEPT ![c] = p]
  BY DEF Working
<1>2. \A d \in Conn : phase'[d] = IF d = c THEN p ELSE phase[d]
  BY <1>1 DEF IInv, Types
<1>3. InHand' = InHand /\ InCare' = InCare
  BY <1>2 DEF Working, InHand, InCare, Held, Handled, Blocked, Ending
<1>4. OneInHand' /\ SlotsConserved'
  BY <1>3, SameCounts DEF Working, server
<1>5. Reached' /\ Closed' /\ Deaf'
  BY <1>2 DEF IInv, Types, Working, server, Reached, Closed, Deaf, Held, Blocked
<1>6. OneLeftBehind'
  BY LeftBehind DEF Working, server
<1> QED BY <1>4, <1>5, <1>6 DEF IInv

\* accept(): the loop has a connection in hand.
LEMMA AcceptKeeps == ASSUME IInv, Types', NEW c \in Conn, Accept(c) PROVE IInv'
<1>1. /\ acceptor = "accept" /\ acceptor' = "acquire" /\ listening
      /\ open' = open \cup {c} /\ phase[c] = "backlog"
      /\ UNCHANGED <<listening, closer, slots, connections>>
      /\ \A d \in Conn : phase'[d] = IF d = c THEN "accepted" ELSE phase[d]
  BY DEF IInv, Types, Accept
<1>2. InHand' = InHand \cup {c} /\ c \notin InHand /\ InCare' = InCare
  BY <1>1 DEF InHand, InCare, Held, Handled, Blocked, Ending
<1>3. Cardinality(InHand') = Cardinality(InHand) + 1
  <2>1. InHand \subseteq Conn
    BY DEF InHand
  <2> QED BY <1>2, <2>1, Finite, FS_AddElement
<1>4. OneInHand' /\ SlotsConserved'
  BY <1>1, <1>2, <1>3 DEF IInv, OneInHand, SlotsConserved, InCare
<1>5. Reached' /\ Closed' /\ Deaf' /\ OneLeftBehind'
  <2>1. Reached'
    <3> SUFFICES ASSUME NEW d \in open'
                 PROVE  d \in connections \/ (Held(d)' /\ acceptor' \in {"acquire", "add"})
      BY <1>1 DEF Reached
    <3>1. CASE d = c
      BY <1>1, <3>1 DEF Held
    <3>2. CASE d \in open
      BY <1>1, <3>2 DEF IInv, Reached
    <3> QED BY <1>1, <3>1, <3>2
  <2>2. Closed'
    BY <1>1 DEF IInv, Types, Closed
  <2>3. Deaf' /\ OneLeftBehind'
    BY <1>1 DEF IInv, Deaf, OneLeftBehind
  <2> QED BY <2>1, <2>2, <2>3
<1> QED BY <1>4, <1>5 DEF IInv

\* The loop lets go of the connection in hand: it was the only one.
LEMMA LetsGo ==
    ASSUME IInv, NEW c \in Conn, Held(c), Types', InHand' = InHand \ {c},
           acceptor' = "check"
    PROVE  OneInHand'
<1>1. c \in InHand /\ InHand \subseteq Conn
  BY DEF InHand
<1>2. Cardinality(InHand') = Cardinality(InHand) - 1 /\ Cardinality(InHand') \in Nat
  <2>1. InHand' \subseteq Conn
    BY <1>1
  <2> QED BY <1>1, <2>1, Finite, FS_RemoveElement
<1>3. Cardinality(InHand) \in {0, 1}
  BY DEF IInv, OneInHand
<1> QED BY <1>2, <1>3 DEF OneInHand

\* Of two connections in hand one would be too many.
LEMMA OnlyOne ==
    ASSUME IInv, NEW c \in Conn, Held(c) PROVE \A d \in Conn : Held(d) => d = c
<1> SUFFICES ASSUME NEW d \in Conn, Held(d), d # c PROVE FALSE
  OBVIOUS
<1>1. {c} \cup {d} \subseteq InHand /\ InHand \subseteq Conn
  BY DEF InHand
<1>2. Cardinality({c}) = 1 /\ IsFiniteSet({c})
  BY FS_Singleton
<1>3. Cardinality({c} \cup {d}) = 2
  BY <1>2, FS_AddElement
<1>4. Cardinality({c} \cup {d}) <= Cardinality(InHand)
  BY <1>1, Finite, FS_Subset
<1>5. Cardinality(InHand) \in {0, 1}
  BY DEF IInv, OneInHand
<1> QED BY <1>3, <1>4, <1>5

\* Refused, remembered or started: the other steps of the accept loop.
LEMMA LoopKeeps == ASSUME IInv, Types', Serve PROVE IInv'
<1> USE DEF IInv
<1>1. CASE CheckStopped \/ AcceptFails
  <2>1. InHand' = InHand /\ InCare' = InCare
    BY <1>1 DEF CheckStopped, AcceptFails, session, InHand, InCare, Held, Handled
  <2>2. OneInHand' /\ SlotsConserved'
    BY <1>1, <2>1 DEF CheckStopped, AcceptFails, OneInHand, SlotsConserved, InCare
  <2>3. Reached' /\ Closed' /\ Deaf' /\ OneLeftBehind'
    BY <1>1 DEF CheckStopped, AcceptFails, session, Reached, Closed, Deaf, Held, OneLeftBehind
  <2> QED BY <2>2, <2>3
<1>2. CASE Acquire
  <2>1. InHand' = InHand /\ InCare' = InCare
    BY <1>2 DEF Acquire, session, InHand, InCare, Held, Handled
  <2>2. OneInHand' /\ SlotsConserved'
    <3>1. Cardinality(InCare) \in Nat
      BY Finite DEF InCare
    <3>2. slots' = slots - 1 /\ acceptor = "acquire" /\ acceptor' = "add"
      BY <1>2 DEF Acquire
    <3>3. slots + Cardinality(InCare) = Slots
      BY <3>1, <3>2 DEF Types, SlotsConserved, InCare
    <3>4. slots' + Cardinality(InCare') + 1 = Slots
      BY <2>1, <3>1, <3>2, <3>3 DEF Types
    <3>5. SlotsConserved'
      BY <3>2, <3>4 DEF SlotsConserved, InCare
    <3> QED BY <2>1, <3>2, <3>5 DEF OneInHand
  <2>3. Reached' /\ Closed' /\ Deaf' /\ OneLeftBehind'
    BY <1>2 DEF Acquire, session, Reached, Closed, Deaf, Held, OneLeftBehind
  <2> QED BY <2>2, <2>3
<1>3. ASSUME NEW c \in Conn, Refuse(c) PROVE IInv'
  <2>1. /\ Held(c) /\ acceptor = "acquire" /\ acceptor' = "check" /\ open' = open \ {c}
        /\ UNCHANGED <<stopped, listening, closer, slots, connections>>
        /\ \A d \in Conn : phase'[d] = IF d = c THEN "refused" ELSE phase[d]
    BY <1>3 DEF Types, Refuse
  <2>2. InHand' = InHand \ {c} /\ InCare' = InCare
    BY <2>1 DEF InHand, InCare, Held, Handled, Blocked, Ending
  <2>3. OneInHand' /\ SlotsConserved'
    BY <2>1, <2>2, LetsGo DEF SlotsConserved, InCare
  <2>4. \A d \in Conn : Held(d) => d = c
    BY <2>1, OnlyOne
  <2>5. Reached' /\ Closed' /\ Deaf'
    BY <2>1, <2>4 DEF Types, Reached, Closed, Deaf
  <2>6. OneLeftBehind'
    BY <2>1, LeftBehind
  <2> QED BY <2>3, <2>5, <2>6
<1>4. ASSUME NEW c \in Conn, Add(c) PROVE IInv'
  <2>1. InHand' = InHand /\ InCare' = InCare
    BY <1>4 DEF Add, session, InHand, InCare, Held, Handled
  <2>2. OneInHand' /\ SlotsConserved'
    BY <1>4, <2>1 DEF Add, OneInHand, SlotsConserved, InCare
  <2>3. \A d \in Conn : Held(d) => d = c
    BY <1>4, OnlyOne DEF Add
  <2>4. Reached' /\ Closed' /\ Deaf' /\ OneLeftBehind'
    BY <1>4, <2>3 DEF Types, Add, session, Reached, Closed, Deaf, Held, OneLeftBehind
  <2> QED BY <2>2, <2>4
<1>5. ASSUME NEW c \in Conn, Start(c) PROVE IInv'
  <2>1. /\ Held(c) /\ acceptor = "start" /\ acceptor' = "check"
        /\ UNCHANGED <<stopped, listening, closer, slots, connections, open>>
        /\ \A d \in Conn : phase'[d] = IF d = c THEN "greet" ELSE phase[d]
    BY <1>5 DEF Types, Start
  <2>2. InHand' = InHand \ {c} /\ InCare' = InCare \cup {c} /\ c \notin InCare
    BY <2>1 DEF InHand, InCare, Held, Handled, Blocked, Ending
  <2>3. OneInHand'
    BY <2>1, <2>2, LetsGo
  <2>4. SlotsConserved'
    <3>1. Cardinality(InCare') = Cardinality(InCare) + 1 /\ Cardinality(InCare) \in Nat
      <4>1. InCare \subseteq Conn
        BY DEF InCare
      <4> QED BY <2>2, <4>1, Finite, FS_AddElement
    <3> QED BY <2>1, <3>1, Limits DEF Types, SlotsConserved, InCare
  <2>5. Reached' /\ Closed' /\ Deaf' /\ OneLeftBehind'
    BY <2>1 DEF Types, Reached, Closed, Deaf, Blocked, OneLeftBehind
  <2> QED BY <2>3, <2>4, <2>5
<1> QED BY <1>1, <1>2, <1>3, <1>4, <1>5 DEF Serve

\* The end of a handler closes, forgets and gives back, in this order.
LEMMA EndKeeps == ASSUME IInv, Types', NEW c \in Conn, Finally(c) PROVE IInv'
<1> USE DEF IInv
<1>1. CASE CloseConnection(c)
  <2>1. /\ open' = open \ {c} /\ phase[c] = "close"
        /\ UNCHANGED <<server, slots, connections>>
        /\ \A d \in Conn : phase'[d] = IF d = c THEN "discard" ELSE phase[d]
    BY <1>1 DEF Types, CloseConnection
  <2>2. InHand' = InHand /\ InCare' = InCare
    BY <2>1 DEF InHand, InCare, Held, Handled, Blocked, Ending
  <2>3. OneInHand' /\ SlotsConserved' /\ OneLeftBehind'
    BY <2>1, <2>2, SameCounts, LeftBehind DEF server
  <2>4. Reached' /\ Closed' /\ Deaf'
    BY <2>1 DEF Types, server, Reached, Closed, Deaf, Held
  <2> QED BY <2>3, <2>4
<1>2. CASE Discard(c)
  <2>1. /\ connections' = connections \ {c} /\ phase[c] = "discard"
        /\ UNCHANGED <<server, slots, open>>
        /\ \A d \in Conn : phase'[d] = IF d = c THEN "release" ELSE phase[d]
    BY <1>2 DEF Types, Discard
  <2>2. InHand' = InHand /\ InCare' = InCare
    BY <2>1 DEF InHand, InCare, Held, Handled, Blocked, Ending
  <2>3. c \notin open
    BY <2>1 DEF Closed, Blocked
  <2>4. OneInHand' /\ SlotsConserved' /\ OneLeftBehind'
    BY <2>1, <2>2, SameCounts, LeftBehind DEF server
  <2>5. Reached' /\ Closed' /\ Deaf'
    BY <2>1, <2>3 DEF Types, server, Reached, Closed, Deaf, Held
  <2> QED BY <2>4, <2>5
<1>3. CASE Release(c)
  <2>1. /\ slots' = slots + 1 /\ phase[c] = "release"
        /\ UNCHANGED <<server, connections, open>>
        /\ \A d \in Conn : phase'[d] = IF d = c THEN "gone" ELSE phase[d]
    BY <1>3 DEF Types, Release
  <2>2. InHand' = InHand /\ InCare' = InCare \ {c} /\ c \in InCare
    BY <2>1 DEF InHand, InCare, Held, Handled, Blocked, Ending
  <2>3. Cardinality(InCare') = Cardinality(InCare) - 1 /\ Cardinality(InCare) \in Nat
    <3>1. InCare \subseteq Conn
      BY DEF InCare
    <3> QED BY <2>2, <3>1, Finite, FS_RemoveElement
  <2>4. OneInHand'
    BY <2>1, <2>2 DEF server, OneInHand
  <2>5. SlotsConserved'
    BY <2>1, <2>3, Limits DEF Types, server, SlotsConserved, InCare
  <2>6. OneLeftBehind'
    BY <2>1, LeftBehind DEF server
  <2>7. Reached' /\ Closed' /\ Deaf'
    BY <2>1 DEF Types, server, Reached, Closed, Deaf, Held, Blocked
  <2> QED BY <2>4, <2>5, <2>6, <2>7
<1> QED BY <1>1, <1>2, <1>3 DEF Finally

\* close(), and the steps that only clients and time take.
LEMMA ClosingKeeps ==
    ASSUME IInv, Types', Stop \/ Shut \/ Sweep \/ Tick \/ \E c \in Conn : Connect(c)
    PROVE  IInv'
<1> USE DEF IInv
<1>1. CASE Stop \/ Shut \/ Tick
  <2>1. UNCHANGED <<acceptor, slots, connections, open, phase>>
    BY <1>1 DEF Stop, Shut, Tick, server, session
  <2>2. InHand' = InHand /\ InCare' = InCare
    BY <2>1 DEF InHand, InCare, Held, Handled
  <2>3. OneInHand' /\ SlotsConserved'
    BY <2>1, <2>2, SameCounts
  <2>4. Reached' /\ Closed'
    BY <2>1 DEF Reached, Closed, Held
  <2>5. Deaf' /\ OneLeftBehind'
    BY <1>1, <2>1 DEF Types, Stop, Shut, Tick, server, Deaf, OneLeftBehind
  <2> QED BY <2>3, <2>4, <2>5
<1>2. CASE Sweep
  <2>1. /\ open' = open \ connections /\ closer = "shut"
        /\ UNCHANGED <<acceptor, listening, slots, connections, phase>>
    BY <1>2 DEF Sweep, session
  <2>2. InHand' = InHand /\ InCare' = InCare
    BY <2>1 DEF InHand, InCare, Held, Handled
  <2>3. OneInHand' /\ SlotsConserved'
    BY <2>1, <2>2, SameCounts
  <2>4. Reached' /\ Closed' /\ Deaf'
    BY <1>2, <2>1 DEF Reached, Closed, Deaf, Held
  <2>5. OneLeftBehind'
    <3>1. open' \subseteq InHand /\ InHand \subseteq Conn
      BY <2>1 DEF Types, Reached, InHand
    <3>2. Cardinality(open') <= Cardinality(InHand) /\ Cardinality(open') \in Nat
      BY <3>1, Finite, FS_Subset
    <3>3. Cardinality(InHand) \in {0, 1}
      BY DEF OneInHand
    <3> QED BY <3>2, <3>3 DEF OneLeftBehind
  <2> QED BY <2>3, <2>4, <2>5
<1>3. ASSUME NEW c \in Conn, Connect(c) PROVE IInv'
  <2>1. /\ phase[c] = "away" /\ UNCHANGED <<server, slots, connections, open>>
        /\ \A d \in Conn : phase'[d] = IF d = c THEN "backlog" ELSE phase[d]
    BY <1>3 DEF Types, Connect
  <2>2. InHand' = InHand /\ InCare' = InCare
    BY <2>1 DEF InHand, InCare, Held, Handled, Blocked, Ending
  <2>3. OneInHand' /\ SlotsConserved' /\ OneLeftBehind'
    BY <2>1, <2>2, SameCounts, LeftBehind DEF server
  <2>4. Reached' /\ Closed' /\ Deaf'
    BY <2>1 DEF Types, server, Reached, Closed, Deaf, Held, Blocked
  <2> QED BY <2>3, <2>4
<1> QED BY <1>1, <1>2, <1>3

-----------------------------------------------------------------------------
\* The invariant holds in every reachable state.
THEOREM Inductive == Spec => []IInv
<1>1. IInv /\ [Next]_vars => IInv'
  <2> SUFFICES ASSUME IInv, [Next]_vars PROVE IInv'
    OBVIOUS
  <2>0. Types
    BY DEF IInv
  <2>1. CASE Serve
    BY <2>0, <2>1, ServerTypes, LoopKeeps
  <2>2. CASE Stop \/ Shut \/ Sweep
    BY <2>0, <2>2, ServerTypes, ClosingKeeps
  <2>3. CASE Tick
    BY <2>0, <2>3, TickTypes, ClosingKeeps
  <2>4. ASSUME NEW c \in Conn, Connect(c) PROVE IInv'
    BY <2>0, <2>4, ServerTypes, ClosingKeeps
  <2>5. ASSUME NEW c \in Conn, Accept(c) PROVE IInv'
    BY <2>0, <2>5, ServerTypes, AcceptKeeps
  <2>6. ASSUME NEW c \in Conn, Finally(c) PROVE IInv'
    BY <2>0, <2>6, ServerTypes, EndKeeps
  <2>7. ASSUME NEW c \in Conn, Client(c) \/ Expire(c), ~Connect(c) PROVE IInv'
    BY <2>0, <2>7, HandlerStep, WorkingKeeps
  <2>8. CASE UNCHANGED vars
    BY <2>8 DEF vars, server, session, IInv, Types, OneInHand, Reached, Closed, Deaf,
                SlotsConserved, OneLeftBehind, InHand, Held, Handled
  <2> QED BY <2>1, <2>2, <2>3, <2>4, <2>5, <2>6, <2>7, <2>8 DEF Next
<1> QED BY <1>1, InitEstablishes, PTL DEF Spec

\* Types, and never more slots than there are (honeypot.py:55-73).
THEOREM TypeCorrect == Spec => []TypeOK
<1>1. IInv => TypeOK
  <2> SUFFICES ASSUME IInv PROVE TypeOK
    OBVIOUS
  <2>1. Cardinality(InCare) \in Nat
    BY Finite DEF InCare
  <2>2. slots \in 0..Slots
    BY <2>1, Limits DEF IInv, Types, SlotsConserved, InCare
  <2> QED BY <2>2 DEF IInv, Types, OneInHand, InHand, TypeOK
<1> QED BY <1>1, Inductive, PTL

\* No slot is lost or returned twice, for any number of connections and slots
\* (honeypot.py:83-88, 128-134).
THEOREM SlotsKept == Spec => []SlotsConserved
<1>1. IInv => SlotsConserved
  BY DEF IInv
<1> QED BY <1>1, Inductive, PTL

\* close() leaves at most the connection the accept loop had in hand
\* (honeypot.py:78-88, 136-141).
THEOREM CloseReaches == Spec => []OneLeftBehind
<1>1. IInv => OneLeftBehind
  BY DEF IInv
<1> QED BY <1>1, Inductive, PTL

-----------------------------------------------------------------------------
\* The latest a handler may be out of its phases: the greeting, the channel and
\* the request; then the banner and the shell's deadline; and past that, the byte
\* a read waits for and the reply to the command it ends.
Known   == Greeting + Opening + Readying
Shelled == Known + Parts * Waiting + Shell
Total   == Greeting + Opening + Readying + Shell + (2 * Parts + 1) * Waiting

\* A handler of age a is on time in phase p when its pending call gives up in l,
\* its shell's deadline is in s, and n parts of its reply are unsent.
OnTime(p, a, l, s, n) ==
    /\ p \in {"away", "backlog", "accepted", "refused"} => a = 0
    /\ p = "greet" => a + l <= Greeting
    /\ p = "open"  => a + l <= Greeting + Opening
    /\ p = "ready" => a + l <= Known
    /\ p \in {"banner", "exec"} => n >= 1 /\ a + l + (n - 1) * Waiting <= Known + Parts * Waiting
    /\ p \in {"read", "write"} /\ s > 0 => a + s <= Shelled
    /\ p = "read"  => a + l <= Shelled + Waiting
    /\ p = "write" => n >= 1 /\ a + l + (n - 1) * Waiting <= Total
    /\ p \in Ending \cup {"gone"} => a <= Total

OnTimeAt(c) == OnTime(phase[c], age[c], left[c], shell[c], parts[c])
Punctual    == \A c \in Conn : OnTimeAt(c)
Somewhere   == {"away", "backlog", "accepted", "refused", "gone"} \cup Blocked \cup Ending

\* The waits, added up.
LEMMA Sums ==
    /\ Known \in Nat /\ Shelled \in Nat /\ Total \in Nat /\ Parts * Waiting \in Nat
    /\ Greeting + Opening <= Known /\ Greeting <= Known
    /\ Shelled = Known + Parts * Waiting + Shell
    /\ Total = Shelled + Waiting + Parts * Waiting
<1>1. Parts * Waiting \in Nat
  BY Limits
<1>2. (2 * Parts + 1) * Waiting = 2 * (Parts * Waiting) + Waiting
  BY Limits
<1> QED BY <1>1, <1>2, Limits DEF Known, Shelled, Total

\* One part less is one wait less.
LEMMA OnePart ==
    ASSUME NEW n \in Nat, n >= 1
    PROVE  /\ (n - 1) * Waiting \in Nat
           /\ n > 1 => (n - 1 - 1) * Waiting + Waiting = (n - 1) * Waiting
           /\ (Parts - 1) * Waiting + Waiting = Parts * Waiting
<1>1. n - 1 \in Nat
  OBVIOUS
<1>2. \A k \in Int : (k - 1) * Waiting + Waiting = k * Waiting
  BY Limits
<1>3. \A k \in Nat : k * Waiting \in Nat
  BY Limits
<1>4. n - 1 \in Int /\ Parts \in Int
  BY Limits
<1> QED BY <1>1, <1>2, <1>3, <1>4

\* Who is on time is not past the end.
LEMMA InTime ==
    ASSUME NEW p \in Somewhere, NEW a \in Nat, NEW l \in Nat, NEW s \in Nat, NEW n \in Nat,
           OnTime(p, a, l, s, n)
    PROVE  a <= Total
<1>1. CASE p \in {"banner", "exec", "write"}
  <2>1. n >= 1 /\ (n - 1) * Waiting \in Nat
    BY <1>1, OnePart DEF OnTime
  <2> DEFINE r == (n - 1) * Waiting
  <2>2. a + l + r <= Known + Parts * Waiting \/ a + l + r <= Total
    BY <1>1 DEF OnTime
  <2>3. r \in Nat
    BY <2>1
  <2> HIDE DEF r
  <2> QED BY <2>2, <2>3, Sums, Limits
<1>2. CASE p \in {"away", "backlog", "accepted", "refused", "gone", "greet", "open", "ready", "read"} \cup Ending
  BY <1>2, Sums, Limits DEF OnTime, Ending
<1> QED BY <1>1, <1>2 DEF Somewhere, Blocked

\* A handler that leaves may end at any time so far.
LEMMA MayLeave ==
    ASSUME NEW a \in Nat, a <= Total, NEW l, NEW s, NEW n
    PROVE  OnTime("close", a, l, s, n)
BY DEF OnTime

\* A reply that begins at t is sent by t and as many waits as it has parts.
LEMMA BeginsReply ==
    ASSUME NEW a \in Nat, NEW s \in Nat
    PROVE  /\ a <= Known => \A k \in {"banner", "exec"} : OnTime(k, a, Waiting, s, Parts)
           /\ a <= Shelled + Waiting /\ (s > 0 => a + s <= Shelled)
                 => OnTime("write", a, Waiting, s, Parts)
<1>1. Parts >= 1 /\ Parts \in Nat
  BY Limits
<1>2. (Parts - 1) * Waiting \in Nat /\ (Parts - 1) * Waiting + Waiting = Parts * Waiting
  BY <1>1, OnePart
<1> DEFINE r == (Parts - 1) * Waiting
           q == Parts * Waiting
<1>3. r \in Nat /\ q \in Nat /\ r + Waiting = q /\ Total = Shelled + Waiting + q
  BY <1>2, Sums
<1> HIDE DEF r, q
<1>4. a <= Known => a + Waiting + r <= Known + q
  BY <1>3, Limits, Sums
<1>5. a <= Shelled + Waiting => a + Waiting + r <= Total
  BY <1>3, Limits, Sums
<1> USE DEF r, q
<1> QED BY <1>1, <1>4, <1>5 DEF OnTime, Ending

\* The next part of a reply.
LEMMA NextPart ==
    ASSUME NEW p \in {"banner", "exec", "write"}, NEW a \in Nat, NEW l \in Nat, NEW s \in Nat,
           NEW n \in Nat, n > 1, OnTime(p, a, l, s, n)
    PROVE  OnTime(p, a, Waiting, s, n - 1)
<1> DEFINE r == (n - 1) * Waiting
           t == (n - 1 - 1) * Waiting
<1>1. r \in Nat /\ t + Waiting = r
  BY OnePart
<1>2. t \in Int
  BY Limits
<1>3. /\ p \in {"banner", "exec"} => a + l + r <= Known + Parts * Waiting
      /\ p = "write" => a + l + r <= Total
      /\ p = "write" /\ s > 0 => a + s <= Shelled
  BY DEF OnTime
<1> HIDE DEF r, t
<1>4. /\ p \in {"banner", "exec"} => a + Waiting + t <= Known + Parts * Waiting
      /\ p = "write" => a + Waiting + t <= Total
  BY <1>1, <1>2, <1>3, Limits, Sums
<1>5. n - 1 >= 1
  OBVIOUS
<1> USE DEF t
<1> QED BY <1>3, <1>4, <1>5 DEF OnTime, Ending

\* Time that passes is time that was left.
LEMMA Passing ==
    ASSUME NEW p \in Blocked, NEW a \in Nat, NEW l \in Nat, l > 0, NEW s \in Nat, NEW n \in Nat,
           OnTime(p, a, l, s, n)
    PROVE  OnTime(p, a + 1, l - 1, IF s > 0 THEN s - 1 ELSE 0, n)
<1> DEFINE z == IF s > 0 THEN s - 1 ELSE 0
           r == (n - 1) * Waiting
<1>1. z \in Nat /\ (z > 0 => s > 0 /\ a + 1 + z = a + s)
  OBVIOUS
<1>2. a + 1 + (l - 1) = a + l /\ r \in Int
  BY Limits
<1> HIDE DEF z, r
<1>3. a + 1 + (l - 1) + r = a + l + r
  BY <1>2
<1> USE DEF r
<1>4. OnTime(p, a + 1, l - 1, z, n)
  BY <1>1, <1>2, <1>3 DEF OnTime, Blocked, Ending
<1> QED BY <1>4 DEF z

\* The values of one connection.
LEMMA Values ==
    ASSUME Types, NEW c \in Conn
    PROVE  /\ phase[c] \in Somewhere /\ age[c] \in Nat /\ left[c] \in Nat
           /\ shell[c] \in Nat /\ parts[c] \in Nat
BY Limits DEF Types, Somewhere

\* What a connection's wait is left at when it moves, and that others stay.
LEMMA Moved ==
    ASSUME Types, NEW c \in Conn, NEW p, NEW w, Await(c, p, w)
    PROVE  /\ phase'[c] = p /\ left'[c] = w /\ age' = age
           /\ \A d \in Conn : d # c => phase'[d] = phase[d] /\ left'[d] = left[d]
BY DEF Types, Await

\* A handler that moves leaves the other connections as they are.
LEMMA OthersOnTime ==
    ASSUME Types, Punctual, NEW c \in Conn, age' = age, OnTimeAt(c)',
           \A d \in Conn : d # c => /\ phase'[d] = phase[d] /\ left'[d] = left[d]
                                    /\ shell'[d] = shell[d] /\ parts'[d] = parts[d]
    PROVE  Punctual'
<1>1. ASSUME NEW d \in Conn, d # c PROVE OnTimeAt(d)'
  BY <1>1 DEF Punctual, OnTimeAt
<1> QED BY <1>1 DEF Punctual

\* A handler that leaves does so in time.
LEMMA LeaveInTime ==
    ASSUME Types, Punctual, NEW c \in Conn, Await(c, "close", 0)
    PROVE  OnTimeAt(c)'
<1>1. age[c] <= Total
  BY Values, InTime DEF Punctual, OnTimeAt
<1> QED BY <1>1, Values, MayLeave, Moved DEF OnTimeAt

\* The head of the shell's loop lets a handler read only before its deadline.
LEMMA RoundInTime ==
    ASSUME Types, Punctual, NEW c \in Conn, Round(c), phase[c] \in {"read", "write"}
    PROVE  OnTimeAt(c)' /\ UNCHANGED <<shell, parts>>
<1>1. CASE Leave(c)
  BY <1>1, LeaveInTime DEF Leave
<1>2. CASE shell[c] # 0 /\ Await(c, "read", Waiting) /\ UNCHANGED <<shell, parts>>
  <2>1. shell[c] > 0 /\ age[c] + shell[c] <= Shelled
    BY <1>2, Values DEF Punctual, OnTimeAt, OnTime
  <2>2. age[c] + Waiting <= Shelled + Waiting
    BY <2>1, Values, Limits, Sums
  <2>3. OnTime("read", age[c], Waiting, shell[c], parts[c])
    BY <2>1, <2>2 DEF OnTime, Ending
  <2> QED BY <1>2, <2>3, Moved DEF OnTimeAt
<1> QED BY <1>1, <1>2 DEF Round, Leave

\* A reply is begun in time to be sent in time.
LEMMA ReplyInTime ==
    ASSUME Types, Punctual, NEW c \in Conn, NEW k \in {"banner", "exec", "write"}, Reply(c, k),
           IF k = "write" THEN phase[c] = "read" ELSE phase[c] = "ready"
    PROVE  /\ OnTimeAt(c)'
           /\ \A d \in Conn : d # c => shell'[d] = shell[d] /\ parts'[d] = parts[d]
<1>1. /\ parts'[c] = Parts /\ UNCHANGED shell /\ Await(c, k, Waiting)
      /\ \A d \in Conn : d # c => shell'[d] = shell[d] /\ parts'[d] = parts[d]
  BY DEF Reply, Types
<1>2. OnTime(phase[c], age[c], left[c], shell[c], parts[c])
  BY DEF Punctual, OnTimeAt
<1>3. CASE k = "write"
  <2>1. age[c] <= Shelled + Waiting /\ (shell[c] > 0 => age[c] + shell[c] <= Shelled)
    BY <1>2, <1>3, Values, Limits, Sums DEF OnTime
  <2> QED BY <1>1, <1>3, <2>1, BeginsReply, Values, Moved DEF OnTimeAt
<1>4. CASE k \in {"banner", "exec"}
  <2>1. age[c] <= Known
    BY <1>2, <1>4, Values, Sums DEF OnTime
  <2> QED BY <1>1, <1>4, <2>1, BeginsReply, Values, Moved DEF OnTimeAt
<1> QED BY <1>3, <1>4

\* The handshake goes on in time.
LEMMA ShakesInTime ==
    ASSUME Types, Punctual, NEW c \in Conn, Negotiated(c) \/ ChannelOpen(c)
    PROVE  OnTimeAt(c)'
<1>1. OnTime(phase[c], age[c], left[c], shell[c], parts[c])
  BY DEF Punctual, OnTimeAt
<1>2. CASE Negotiated(c)
  <2>1. age[c] + Opening <= Greeting + Opening
    BY <1>1, <1>2, Values, Limits DEF OnTime, Negotiated
  <2>2. OnTime("open", age[c], Opening, shell[c], parts[c])
    BY <2>1 DEF OnTime, Ending
  <2> QED BY <1>2, <2>2, Moved DEF OnTimeAt, Negotiated
<1>3. CASE ChannelOpen(c)
  <2>1. age[c] + Readying <= Known
    BY <1>1, <1>3, Values, Limits DEF OnTime, ChannelOpen, Known
  <2>2. OnTime("ready", age[c], Readying, shell[c], parts[c])
    BY <2>1 DEF OnTime, Ending
  <2> QED BY <1>3, <2>2, Moved DEF OnTimeAt, ChannelOpen
<1> QED BY <1>2, <1>3

\* The shell's deadline is set when the banner has been sent.
LEMMA BannerInTime ==
    ASSUME Types, Punctual, NEW c \in Conn, BannerDone(c)
    PROVE  /\ OnTimeAt(c)'
           /\ \A d \in Conn : d # c => shell'[d] = shell[d] /\ parts'[d] = parts[d]
<1>1. /\ shell'[c] = Shell /\ UNCHANGED parts /\ phase[c] = "banner"
      /\ \A d \in Conn : d # c => shell'[d] = shell[d]
  BY DEF BannerDone, Types
<1>2. CASE Await(c, "close", 0)
  BY <1>1, <1>2, LeaveInTime
<1>3. CASE Await(c, "read", Waiting)
  <2> DEFINE r == (parts[c] - 1) * Waiting
             q == Parts * Waiting
  <2>1. parts[c] >= 1 /\ age[c] + left[c] + r <= Known + q
    BY <1>1 DEF Punctual, OnTimeAt, OnTime
  <2>2. r \in Nat /\ q \in Nat /\ Shelled = Known + q + Shell
    BY <2>1, Values, OnePart, Sums
  <2> HIDE DEF r, q
  <2>3. age[c] + Shell <= Shelled /\ age[c] + Waiting <= Shelled + Waiting
    BY <2>1, <2>2, Values, Limits, Sums
  <2>4. OnTime("read", age[c], Waiting, Shell, parts[c])
    BY <2>3 DEF OnTime, Ending
  <2> QED BY <1>1, <1>3, <2>4, Moved DEF OnTimeAt
<1> QED BY <1>1, <1>2, <1>3 DEF BannerDone

\* Every step of a handler or its client keeps it on time.
LEMMA HandlerInTime ==
    ASSUME Types, Punctual, NEW c \in Conn, Client(c) \/ Expire(c), ~Connect(c)
    PROVE  Punctual'
<1>1. ASSUME NEW p, NEW w, Await(c, p, w), OnTimeAt(c)',
             \A d \in Conn : d # c => shell'[d] = shell[d] /\ parts'[d] = parts[d]
      PROVE  Punctual'
  BY <1>1, Moved, OthersOnTime
<1>2. ASSUME Leave(c) PROVE Punctual'
  BY <1>1, <1>2, LeaveInTime DEF Leave
<1>3. ASSUME Round(c), phase[c] \in {"read", "write"} PROVE Punctual'
  BY <1>1, <1>3, RoundInTime DEF Round, Leave
<1>4. ASSUME NEW k \in {"banner", "exec", "write"}, Reply(c, k),
             IF k = "write" THEN phase[c] = "read" ELSE phase[c] = "ready"
      PROVE  Punctual'
  BY <1>1, <1>4, ReplyInTime DEF Reply
<1>5. CASE Negotiated(c) \/ ChannelOpen(c)
  BY <1>1, <1>5, ShakesInTime DEF Negotiated, ChannelOpen
<1>6. CASE Requested(c)
  BY <1>4, <1>6 DEF Requested
<1>7. CASE SentPart(c)
  <2>1. /\ parts'[c] = parts[c] - 1 /\ UNCHANGED shell /\ parts[c] > 1
        /\ \A d \in Conn : d # c => parts'[d] = parts[d]
    BY <1>7 DEF SentPart, Types
  <2>2. phase[c] \in {"banner", "exec", "write"} /\ Await(c, phase[c], Waiting)
    BY <1>7 DEF SentPart, Sends
  <2>3. OnTime(phase[c], age[c], Waiting, shell[c], parts[c] - 1)
    BY <2>1, <2>2, Values, NextPart DEF Punctual, OnTimeAt
  <2>4. OnTimeAt(c)'
    BY <2>1, <2>2, <2>3, Moved DEF OnTimeAt
  <2> QED BY <1>1, <2>1, <2>2, <2>4
<1>8. CASE BannerDone(c)
  BY <1>1, <1>8, BannerInTime DEF BannerDone
<1>9. CASE ExecDone(c) \/ Fail(c) \/ Expire(c)
  BY <1>2, <1>9 DEF ExecDone, Fail, Expire
<1>10. CASE WriteDone(c)
  BY <1>3, <1>10 DEF WriteDone
<1>11. CASE Byte(c)
  BY <1>2, <1>3, <1>4, <1>11 DEF Byte
<1> QED BY <1>5, <1>6, <1>7, <1>8, <1>9, <1>10, <1>11 DEF Client

\* The steps of the server start a handler's time or leave it where it is.
LEMMA ServerInTime ==
    ASSUME Types, Punctual, \/ Serve \/ Stop \/ Shut \/ Sweep
                            \/ \E c \in Conn : Connect(c) \/ Accept(c) \/ Finally(c)
    PROVE  Punctual'
<1>1. CASE CheckStopped \/ AcceptFails \/ Acquire \/ Stop \/ Shut \/ Sweep
         \/ \E c \in Conn : Add(c)
  <2>1. UNCHANGED session
    BY <1>1 DEF CheckStopped, AcceptFails, Acquire, Stop, Shut, Sweep, Add
  <2> QED BY <2>1 DEF Punctual, OnTimeAt, session
<1>2. ASSUME NEW c \in Conn, NEW p, phase' = [phase EXCEPT ![c] = p],
             UNCHANGED <<left, shell, parts, age>>, OnTime(p, age[c], left[c], shell[c], parts[c])
      PROVE  Punctual'
  <2>1. phase'[c] = p /\ \A d \in Conn : d # c => phase'[d] = phase[d]
    BY <1>2 DEF Types
  <2>2. OnTimeAt(c)'
    BY <1>2, <2>1 DEF OnTimeAt
  <2> QED BY <1>2, <2>1, <2>2, OthersOnTime
<1>3. ASSUME NEW c \in Conn, Connect(c) \/ Accept(c) \/ Refuse(c) PROVE Punctual'
  <2>1. phase[c] \in {"away", "backlog", "accepted"}
    BY <1>3 DEF Connect, Accept, Refuse, Held
  <2>2. age[c] = 0
    BY <2>1 DEF Punctual, OnTimeAt, OnTime
  <2>3. \A p \in {"backlog", "accepted", "refused"} :
           OnTime(p, age[c], left[c], shell[c], parts[c])
    BY <2>2 DEF OnTime, Ending
  <2> QED BY <1>2, <1>3, <2>3 DEF Connect, Accept, Refuse
<1>4. ASSUME NEW c \in Conn, Start(c) PROVE Punctual'
  <2>1. /\ phase'[c] = "greet" /\ left'[c] = Greeting /\ age[c] = 0
        /\ UNCHANGED <<shell, parts, age>>
        /\ \A d \in Conn : d # c => phase'[d] = phase[d] /\ left'[d] = left[d]
    BY <1>4 DEF Start, Held, Types, Punctual, OnTimeAt, OnTime
  <2>2. OnTime("greet", age[c], Greeting, shell[c], parts[c])
    BY <2>1, Limits DEF OnTime, Ending
  <2>3. OnTimeAt(c)'
    BY <2>1, <2>2 DEF OnTimeAt
  <2> QED BY <2>1, <2>3, OthersOnTime
<1>5. ASSUME NEW c \in Conn, Finally(c) PROVE Punctual'
  <2>1. age[c] <= Total
    BY <1>5, Values, InTime DEF Punctual, OnTimeAt
  <2>2. \A p \in {"discard", "release", "gone"} :
           OnTime(p, age[c], left[c], shell[c], parts[c])
    BY <2>1 DEF OnTime
  <2> QED BY <1>2, <1>5, <2>2 DEF Finally, CloseConnection, Discard, Release
<1> QED BY <1>1, <1>3, <1>4, <1>5 DEF Serve

\* Time that passes.
LEMMA TickInTime == ASSUME Types, Punctual, Tick PROVE Punctual'
<1> SUFFICES ASSUME NEW c \in Conn PROVE OnTimeAt(c)'
  BY DEF Punctual
<1> DEFINE s == IF shell[c] > 0 THEN shell[c] - 1 ELSE 0
<1>1. OnTime(phase[c], age[c], left[c], shell[c], parts[c])
  BY DEF Punctual, OnTimeAt
<1>2. phase'[c] = phase[c] /\ parts'[c] = parts[c] /\ shell'[c] = s
  BY DEF Tick
<1>3. CASE phase[c] \in Blocked
  <2>1. left[c] > 0 /\ left'[c] = left[c] - 1 /\ age'[c] = age[c] + 1
    BY <1>3 DEF Tick
  <2>2. OnTime(phase[c], age[c] + 1, left[c] - 1, s, parts[c])
    BY <1>1, <1>3, <2>1, Values, Passing
  <2> QED BY <1>2, <2>1, <2>2 DEF OnTimeAt
<1>4. CASE phase[c] \notin Blocked
  <2>1. left'[c] = left[c] /\ age'[c] = age[c]
    BY <1>4 DEF Tick
  <2>2. OnTime(phase[c], age[c], left[c], s, parts[c])
    BY <1>1, <1>4 DEF OnTime, Blocked
  <2> QED BY <1>2, <2>1, <2>2 DEF OnTimeAt
<1> QED BY <1>3, <1>4

\* However slowly a client feeds the server, no handler outlives the sum of its
\* waits: the deadline of a shell is kept by bytes that arrive just before the
\* timeout of every read (honeypot.py:93-124).
THEOREM HandlersEnd == Spec => []SessionsEnd
<1>1. Init => Punctual
  BY DEF Init, Punctual, OnTimeAt, OnTime, Ending
<1>2. IInv /\ Punctual /\ [Next]_vars => Punctual'
  <2> SUFFICES ASSUME Types, Punctual, [Next]_vars PROVE Punctual'
    BY DEF IInv
  <2>1. CASE Tick
    BY <2>1, TickInTime
  <2>2. CASE \/ Serve \/ Stop \/ Shut \/ Sweep
             \/ \E c \in Conn : Connect(c) \/ Accept(c) \/ Finally(c)
    BY <2>2, ServerInTime
  <2>3. ASSUME NEW c \in Conn, Client(c) \/ Expire(c), ~Connect(c) PROVE Punctual'
    BY <2>3, HandlerInTime
  <2>4. CASE UNCHANGED vars
    BY <2>4 DEF vars, session, Punctual, OnTimeAt
  <2> QED BY <2>1, <2>2, <2>3, <2>4 DEF Next
<1>3. IInv /\ Punctual => SessionsEnd
  <2> SUFFICES ASSUME Types, Punctual, NEW c \in Conn PROVE age[c] <= Total
    BY DEF IInv, SessionsEnd, Total
  <2> QED BY Values, InTime DEF Punctual, OnTimeAt
<1> QED BY <1>1, <1>2, <1>3, Inductive, PTL DEF Spec

=============================================================================
