------------------------------ MODULE Honeypot ------------------------------
(***************************************************************************)
(* The SSH decoy of lab 07.  One thread accepts connections and hands each *)
(* to a thread of its own while one of the slots is free; any thread may   *)
(* call close().  A handler passes through calls that each wait for the    *)
(* client at most a given time, and returns its slot at the end however it *)
(* ends.  Time is discrete: it does not pass while a wait has expired.     *)
(*                                                                         *)
(* Paramiko is modelled from how handle() uses it: what the client does    *)
(* makes the pending call return, fail, or wait until its timeout.         *)
(***************************************************************************)
EXTENDS Integers, FiniteSets

CONSTANTS Conn,      \* the connections that clients open
          Slots,     \* 16 in the code
          Greeting,  \* limit of the key exchange, paramiko's own
          Opening,   \* transport.accept(15)
          Readying,  \* session.ready.wait(10)
          Waiting,   \* channel.settimeout(15)
          Shell,     \* the 60 seconds of a shell
          Parts      \* most packets a reply is sent in, each with its own wait

ASSUME HoneypotAssumption ==
    /\ IsFiniteSet(Conn)
    /\ {Slots, Greeting, Opening, Readying, Waiting, Shell, Parts} \subseteq Nat \ {0}

VARIABLES stopped, listening, closer,   \* close(): "run", "stop", "shut", "done"
          acceptor,                     \* serve_forever
          slots, connections,
          open,       \* sockets the server has not closed
          phase,      \* where the handler of each connection is
          left,       \* time until the handler's pending call gives up
          shell,      \* time until the deadline of its shell
          parts,      \* packets of the reply still to send
          age         \* history: time since the handler was started

server  == <<stopped, listening, closer, acceptor>>
session == <<phase, left, shell, parts, age>>
vars    == <<server, slots, connections, open, session>>

Blocked == {"greet", "open", "ready", "banner", "exec", "read", "write"}
Ending  == {"close", "discard", "release"}
\* The connection that the accept loop has in hand.
Held(c)    == phase[c] = "accepted"
Handled(c) == phase[c] \in Blocked \cup Ending

Init ==
    /\ stopped = FALSE /\ listening = TRUE /\ closer = "run"
    /\ acceptor = "check"
    /\ slots = Slots /\ connections = {} /\ open = {}
    /\ phase = [c \in Conn |-> "away"]
    /\ left = [c \in Conn |-> 0] /\ shell = [c \in Conn |-> 0]
    /\ parts = [c \in Conn |-> 0] /\ age = [c \in Conn |-> 0]

-----------------------------------------------------------------------------
Connect(c) ==
    /\ listening /\ phase[c] = "away"
    /\ phase' = [phase EXCEPT ![c] = "backlog"]
    /\ UNCHANGED <<server, slots, connections, open, left, shell, parts, age>>

CheckStopped ==
    /\ acceptor = "check"
    /\ acceptor' = IF stopped THEN "done" ELSE "accept"
    /\ UNCHANGED <<stopped, listening, closer, slots, connections, open, session>>

Accept(c) ==
    /\ acceptor = "accept" /\ listening /\ phase[c] = "backlog"
    /\ acceptor' = "acquire"
    /\ open' = open \cup {c} /\ phase' = [phase EXCEPT ![c] = "accepted"]
    /\ UNCHANGED <<stopped, listening, closer, slots, connections, left, shell, parts, age>>

\* accept() gives up after 0.2 s and the loop looks at "stopped" again; on a
\* closed socket it fails and the loop ends.
AcceptFails ==
    /\ acceptor = "accept"
    /\ acceptor' = IF listening THEN "check" ELSE "done"
    /\ UNCHANGED <<stopped, listening, closer, slots, connections, open, session>>
\* Mutant of Acquire: the semaphore is not looked at.
AcquireAnyway ==
    /\ acceptor = "acquire"
    /\ slots' = slots - 1 /\ acceptor' = "add"
    /\ UNCHANGED <<stopped, listening, closer, connections, open, session>>

Acquire ==
    /\ acceptor = "acquire" /\ slots > 0
    /\ slots' = slots - 1 /\ acceptor' = "add"
    /\ UNCHANGED <<stopped, listening, closer, connections, open, session>>

Refuse(c) ==
    /\ acceptor = "acquire" /\ Held(c) /\ slots = 0
    /\ open' = open \ {c} /\ phase' = [phase EXCEPT ![c] = "refused"]
    /\ acceptor' = "check"
    /\ UNCHANGED <<stopped, listening, closer, slots, connections, left, shell, parts, age>>
\* Mutant of Add: the connection is not remembered.
AddNothing(c) ==
    /\ acceptor = "add" /\ Held(c) /\ acceptor' = "start"
    /\ UNCHANGED <<stopped, listening, closer, slots, connections, open, session>>

Add(c) ==
    /\ acceptor = "add" /\ Held(c)
    /\ connections' = connections \cup {c} /\ acceptor' = "start"
    /\ UNCHANGED <<stopped, listening, closer, slots, open, session>>

Start(c) ==
    /\ acceptor = "start" /\ Held(c)
    /\ phase' = [phase EXCEPT ![c] = "greet"]
    /\ left' = [left EXCEPT ![c] = Greeting]
    /\ acceptor' = "check"
    /\ UNCHANGED <<stopped, listening, closer, slots, connections, open, shell, parts, age>>

-----------------------------------------------------------------------------
\* The handler moves on to a call that waits for the client at most "wait".
Await(c, next, wait) ==
    /\ phase' = [phase EXCEPT ![c] = next]
    /\ left' = [left EXCEPT ![c] = wait]
    /\ UNCHANGED <<server, slots, connections, open, age>>

Leave(c) == Await(c, "close", 0) /\ UNCHANGED <<shell, parts>>
\* Mutant of Round: a shell has no deadline.
RoundEndless(c) ==
    IF stopped THEN Leave(c) ELSE Await(c, "read", Waiting) /\ UNCHANGED <<shell, parts>>

\* The head of the shell's loop.
Round(c) ==
    IF stopped \/ shell[c] = 0 THEN Leave(c)
                               ELSE Await(c, "read", Waiting) /\ UNCHANGED <<shell, parts>>

Reply(c, kind) == /\ Await(c, kind, Waiting)
                  /\ parts' = [parts EXCEPT ![c] = Parts] /\ UNCHANGED shell

\* The client does what the pending call waits for.
Negotiated(c)   == /\ phase[c] = "greet" /\ c \in open
                   /\ Await(c, "open", Opening) /\ UNCHANGED <<shell, parts>>
ChannelOpen(c)  == /\ phase[c] = "open" /\ c \in open
                   /\ Await(c, "ready", Readying) /\ UNCHANGED <<shell, parts>>
Requested(c)    == /\ phase[c] = "ready" /\ c \in open
                   /\ Reply(c, "exec") \/ Reply(c, "banner")

Sends(c) == phase[c] \in {"banner", "exec", "write"} /\ c \in open

\* The client takes a part of the reply, and there is more.
SentPart(c) == /\ Sends(c) /\ parts[c] > 1
               /\ parts' = [parts EXCEPT ![c] = @ - 1]
               /\ Await(c, phase[c], Waiting) /\ UNCHANGED shell

ExecDone(c)   == Sends(c) /\ phase[c] = "exec" /\ Leave(c)
BannerDone(c) == /\ Sends(c) /\ phase[c] = "banner"
                 /\ shell' = [shell EXCEPT ![c] = Shell]
                 /\ IF stopped THEN Await(c, "close", 0) ELSE Await(c, "read", Waiting)
                 /\ UNCHANGED parts
WriteDone(c)  == Sends(c) /\ phase[c] = "write" /\ Round(c)

\* One byte arrives: it ends the session, is buffered, or ends a command.
Byte(c) == /\ phase[c] = "read" /\ c \in open
           /\ Leave(c) \/ Round(c) \/ Reply(c, "write")
\* Mutant of Expire: the channel has no timeout.
ExpireEarly(c) == phase[c] \in {"greet", "open", "ready"} /\ left[c] = 0 /\ Leave(c)

\* The call times out: no channel, no request, or an exception.
Expire(c) == phase[c] \in Blocked /\ left[c] = 0 /\ Leave(c)

\* The client goes away or breaks the protocol, or the socket was closed under
\* the handler.  The waits for a channel and for a request need not notice.
Fail(c) == phase[c] \in Blocked /\ Leave(c)

CloseConnection(c) ==
    /\ phase[c] = "close"
    /\ open' = open \ {c} /\ phase' = [phase EXCEPT ![c] = "discard"]
    /\ UNCHANGED <<server, slots, connections, left, shell, parts, age>>
\* Mutant of Discard: the slot is forgotten.
DiscardOnly(c) ==
    /\ phase[c] = "discard"
    /\ connections' = connections \ {c} /\ phase' = [phase EXCEPT ![c] = "gone"]
    /\ UNCHANGED <<server, slots, open, left, shell, parts, age>>

Discard(c) ==
    /\ phase[c] = "discard"
    /\ connections' = connections \ {c} /\ phase' = [phase EXCEPT ![c] = "release"]
    /\ UNCHANGED <<server, slots, open, left, shell, parts, age>>

Release(c) ==
    /\ phase[c] = "release"
    /\ slots' = slots + 1 /\ phase' = [phase EXCEPT ![c] = "gone"]
    /\ UNCHANGED <<server, connections, open, left, shell, parts, age>>

-----------------------------------------------------------------------------
Stop == /\ closer = "run" /\ closer' = "stop" /\ stopped' = TRUE
        /\ UNCHANGED <<listening, acceptor, slots, connections, open, session>>

Shut == /\ closer = "stop" /\ closer' = "shut" /\ listening' = FALSE
        /\ UNCHANGED <<stopped, acceptor, slots, connections, open, session>>

Sweep == /\ closer = "shut" /\ closer' = "done" /\ open' = open \ connections
         /\ UNCHANGED <<stopped, listening, acceptor, slots, connections, session>>

Tick ==
    /\ \E c \in Conn : phase[c] \in Blocked
    /\ \A c \in Conn : phase[c] \in Blocked => left[c] > 0
    /\ \A c \in Conn : phase[c] \notin Ending
    /\ left'  = [c \in Conn |-> IF phase[c] \in Blocked THEN left[c] - 1 ELSE left[c]]
    /\ shell' = [c \in Conn |-> IF shell[c] > 0 THEN shell[c] - 1 ELSE 0]
    /\ age'   = [c \in Conn |-> IF phase[c] \in Blocked THEN age[c] + 1 ELSE age[c]]
    /\ UNCHANGED <<server, slots, connections, open, phase, parts>>

Serve == CheckStopped \/ AcceptFails \/ Acquire \/ \E c \in Conn : Refuse(c) \/ Add(c) \/ Start(c)

Client(c) == \/ Connect(c) \/ Negotiated(c) \/ ChannelOpen(c) \/ Requested(c)
             \/ SentPart(c) \/ ExecDone(c) \/ BannerDone(c) \/ WriteDone(c)
             \/ Byte(c) \/ Fail(c)

Finally(c) == CloseConnection(c) \/ Discard(c) \/ Release(c)

Next == \/ Serve \/ Stop \/ Shut \/ Sweep \/ Tick
        \/ \E c \in Conn : Accept(c) \/ Client(c) \/ Expire(c) \/ Finally(c)

Spec == Init /\ [][Next]_vars

\* Threads are scheduled and time passes; clients need do nothing.
FairSpec == /\ Spec /\ WF_vars(Serve) /\ WF_vars(Tick)
            /\ \A c \in Conn : WF_vars(Expire(c)) /\ WF_vars(Finally(c))

-----------------------------------------------------------------------------
TypeOK ==
    /\ {stopped, listening} \subseteq BOOLEAN
    /\ closer \in {"run", "stop", "shut", "done"}
    /\ acceptor \in {"check", "accept", "acquire", "add", "start", "done"}
    /\ Cardinality({c \in Conn : Held(c)})
         = (IF acceptor \in {"acquire", "add", "start"} THEN 1 ELSE 0)
    /\ slots \in 0..Slots
    /\ connections \subseteq Conn /\ open \subseteq Conn
    /\ phase \in [Conn -> {"away", "backlog", "accepted", "refused", "gone"}
                           \cup Blocked \cup Ending]
    /\ left \in [Conn -> Nat] /\ shell \in [Conn -> 0..Shell]
    /\ parts \in [Conn -> 0..Parts] /\ age \in [Conn -> Nat]

\* No slot is lost or returned twice, however sessions end and whenever the
\* server is closed: the taken ones are those of live handlers and of the
\* connection between acquire() and start() (honeypot.py:83-88, 128-134).
SlotsConserved ==
    slots + Cardinality({c \in Conn : Handled(c)})
          + (IF acceptor \in {"add", "start"} THEN 1 ELSE 0) = Slots

\* What close() must reach is in "connections", so when it has returned at most
\* one connection is still open: the one the accept loop had in hand, which no
\* later sweep will close (honeypot.py:78-88, 136-141).
OneLeftBehind ==
    closer = "done" => Cardinality(open) <= 1

\* However slowly a client feeds the server, no handler lives longer than the
\* sum of its waits: a shell's deadline is not put off by bytes that keep
\* arriving just before the timeout of a read (honeypot.py:93-124).
SessionsEnd ==
    \A c \in Conn : age[c] <= Greeting + Opening + Readying + Shell
                              + (2 * Parts + 1) * Waiting

\* A full honeypot does not stay full: with no help from its clients some
\* handler gives its slot back (honeypot.py:83, 93-103, 109-134).
SlotsComeBack == slots = 0 ~> slots > 0

=============================================================================
