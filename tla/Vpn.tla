-------------------------------- MODULE Vpn --------------------------------
(***************************************************************************)
(* 04-vpn-traffic-monitor/vpn.py: `init` prepares keys and configurations  *)
(* in two volumes, `server` and `client` set up WireGuard with one command *)
(* after the other in the network namespace of their container.  Compose   *)
(* starts them in order, but `up` repeats init while they run and a        *)
(* restart waits for nobody.  A file being written is empty for a while,   *)
(* and stays so if init stops there; a command that fails ends the         *)
(* process and leaves the namespace as it is.                              *)
(***************************************************************************)
EXTENDS Integers, Sequences

CONSTANTS MaxKeys,      \* bound on keys generated
          MaxVpnFaults  \* bound on processes that stop before their end

ASSUME VpnAssumption == MaxKeys \in Nat /\ MaxVpnFaults \in Nat

Side == {"server", "client"}
Peer == [server |-> "client", client |-> "server"]
NoFile == 0    Empty == -1    NoConf == <<>>

VARIABLES private,   \* private.key of each side
          wgconf,    \* wg.conf of each side: its key and that of its peer
          keys,      \* keys generated so far
          initAt,    \* the file initialize() works on, 0 when it does not run
          opened,    \* that file has been opened for writing
          prepared,  \* init has completed
          startAt,   \* the next command of start(), 0 when it does not run
          net,       \* the network namespace of each container
          stops

volumes == <<private, wgconf, keys>>
initRun == <<initAt, opened, prepared>>
vpnVars == <<volumes, initRun, startAt, net, stops>>

Work == << <<"key", "server">>, <<"key", "client">>, <<"conf", "server">>, <<"conf", "client">> >>
\* Mutant of Commands: the chain is not flushed first.
CommandsUnflushed(s) ==
    <<"add", "setconf", "address", "up">> \o
    IF s = "client" THEN <<"route">>
    ELSE <<"drop", "toPrivate", "replies", "natFlush", "masquerade">>

\* What start() executes, in order, after it has deleted an old wg0.
Commands(s) ==
    <<"add", "setconf", "address", "up">> \o
    IF s = "client" THEN <<"route">>
    ELSE <<"flush", "drop", "toPrivate", "replies", "natFlush", "masquerade">>

Ready(s) == startAt[s] = Len(Commands(s)) + 1

NewNamespace == [wg0 |-> "none", conf |-> NoConf, policy |-> "ACCEPT",
                 forward |-> <<>>, nat |-> <<>>, served |-> FALSE]

WithoutWg0(n) == [n EXCEPT !.wg0 = "none", !.conf = NoConf]

\* The namespace n of side s after command c.
After(n, s, c) ==
    CASE c = "add"        -> [n EXCEPT !.wg0 = "down"]
      [] c = "setconf"    -> [n EXCEPT !.conf = wgconf[s]]
      [] c = "up"         -> [n EXCEPT !.wg0 = "up"]
      [] c = "flush"      -> [n EXCEPT !.forward = <<>>]
      [] c = "drop"       -> [n EXCEPT !.policy = "DROP"]
      [] c = "natFlush"   -> [n EXCEPT !.nat = <<>>]
      [] c = "masquerade" -> [n EXCEPT !.nat = Append(@, c)]
      [] c \in {"toPrivate", "replies"} -> [n EXCEPT !.forward = Append(@, c)]
      [] c \in {"address", "route"} -> n

VpnInit ==
    /\ private = [s \in Side |-> NoFile]
    /\ wgconf = [s \in Side |-> NoConf]
    /\ keys = 0
    /\ initAt = 0 /\ opened = FALSE /\ prepared = FALSE
    /\ startAt = [s \in Side |-> 0]
    /\ net = [s \in Side |-> NewNamespace]
    /\ stops = 0

-----------------------------------------------------------------------------
\* `docker compose up` runs init, also while the tunnel is in use.
InitBegins ==
    /\ initAt = 0
    /\ initAt' = 1 /\ opened' = FALSE
    /\ UNCHANGED <<volumes, prepared, startAt, net, stops>>

\* Mutant of NextFile: off by one.
NextFilePast == IF initAt <= Len(Work) THEN initAt' = initAt + 1 /\ UNCHANGED prepared
                                       ELSE initAt' = 0 /\ prepared' = TRUE

NextFile == IF initAt < Len(Work) THEN initAt' = initAt + 1 /\ UNCHANGED prepared
                                  ELSE initAt' = 0 /\ prepared' = TRUE
\* Mutant of KeyMissing: every init makes new keys.
KeyUnwanted(s) == TRUE

KeyMissing(s) == private[s] = NoFile

\* An existing key is kept; `wg pubkey` refuses an empty one and init fails.
KeepKey(s) ==
    /\ initAt > 0 /\ ~opened /\ Work[initAt] = <<"key", s>>
    /\ ~KeyMissing(s)
    /\ IF private[s] = Empty THEN initAt' = 0 /\ UNCHANGED prepared ELSE NextFile
    /\ UNCHANGED <<volumes, opened, startAt, net, stops>>

OpenFile(s) ==
    /\ initAt > 0 /\ ~opened
    /\ \/ /\ Work[initAt] = <<"key", s>> /\ KeyMissing(s)
          /\ private' = [private EXCEPT ![s] = Empty] /\ UNCHANGED wgconf
       \/ /\ Work[initAt] = <<"conf", s>>
          /\ wgconf' = [wgconf EXCEPT ![s] = NoConf] /\ UNCHANGED private
    /\ opened' = TRUE
    /\ UNCHANGED <<keys, initAt, prepared, startAt, net, stops>>

WriteFile(s) ==
    /\ initAt > 0 /\ opened
    /\ \/ /\ Work[initAt] = <<"key", s>> /\ keys < MaxKeys
          /\ keys' = keys + 1
          /\ private' = [private EXCEPT ![s] = keys'] /\ UNCHANGED wgconf
       \/ /\ Work[initAt] = <<"conf", s>>
          /\ wgconf' = [wgconf EXCEPT ![s] = <<private[s], private[Peer[s]]>>]
          /\ UNCHANGED <<private, keys>>
    /\ NextFile /\ opened' = FALSE
    /\ UNCHANGED <<startAt, net, stops>>

InitStops ==
    /\ initAt > 0 /\ stops < MaxVpnFaults
    /\ stops' = stops + 1
    /\ initAt' = 0 /\ opened' = FALSE
    /\ UNCHANGED <<volumes, prepared, startAt, net>>

\* A container starts, in a new namespace or in the one it left.
Start(s) ==
    /\ startAt[s] = 0 /\ prepared
    /\ startAt' = [startAt EXCEPT ![s] = 1]
    /\ \E n \in {NewNamespace, WithoutWg0(net[s])} : net' = [net EXCEPT ![s] = n]
    /\ UNCHANGED <<volumes, initRun, stops>>

Execute(s) ==
    /\ startAt[s] \in 1..Len(Commands(s))
    /\ LET n == After(net[s], s, Commands(s)[startAt[s]]) IN
         net' = [net EXCEPT ![s] =
                    IF startAt[s] = Len(Commands(s)) THEN [n EXCEPT !.served = TRUE] ELSE n]
    /\ startAt' = [startAt EXCEPT ![s] = @ + 1]
    /\ UNCHANGED <<volumes, initRun, stops>>

\* A command fails, or the process is killed.
Dies(s) ==
    /\ startAt[s] > 0 /\ stops < MaxVpnFaults
    /\ stops' = stops + 1
    /\ startAt' = [startAt EXCEPT ![s] = 0]
    /\ UNCHANGED <<volumes, initRun, net>>

\* SIGTERM, handled once the side is ready.
StopSide(s) ==
    /\ Ready(s)
    /\ startAt' = [startAt EXCEPT ![s] = 0]
    /\ net' = [net EXCEPT ![s] = WithoutWg0(@)]
    /\ UNCHANGED <<volumes, initRun, stops>>

\* `docker compose down -v` takes the containers and then the volumes.
Down ==
    /\ initAt = 0 /\ startAt = [s \in Side |-> 0]
    /\ private' = [s \in Side |-> NoFile]
    /\ wgconf' = [s \in Side |-> NoConf]
    /\ prepared' = FALSE
    /\ net' = [s \in Side |-> NewNamespace]
    /\ UNCHANGED <<keys, initAt, opened, startAt, stops>>

VpnNext ==
    \/ InitBegins \/ InitStops \/ Down
    \/ \E s \in Side : \/ KeepKey(s) \/ OpenFile(s) \/ WriteFile(s)
                       \/ Start(s) \/ Execute(s) \/ Dies(s) \/ StopSide(s)

VpnSpec == VpnInit /\ [][VpnNext]_vpnVars

-----------------------------------------------------------------------------
Configured == {NoConf} \cup ((1..MaxKeys) \X (1..MaxKeys))
Namespace  == [wg0 : {"none", "down", "up"}, conf : Configured, policy : {"ACCEPT", "DROP"},
               forward : Seq({"toPrivate", "replies"}), nat : Seq({"masquerade"}), served : BOOLEAN]

VpnTypeOK ==
    /\ private \in [Side -> Empty..MaxKeys]
    /\ wgconf \in [Side -> Configured]
    /\ keys \in 0..MaxKeys
    /\ initAt \in 0..Len(Work) /\ opened \in BOOLEAN /\ prepared \in BOOLEAN
    /\ startAt \in [Side -> Int] /\ \A s \in Side : startAt[s] \in 0..Len(Commands(s)) + 1
    /\ net \in [Side -> Namespace]
    /\ stops \in 0..MaxVpnFaults

\* Once the server has been ready in a namespace, it forwards there nothing but
\* the client's packets to the private segment and their replies, through
\* failing starts, restarts and stops; and whenever it is ready, each rule is
\* there exactly once (vpn.py:34-49, README.md:42).
Confined ==
    LET n == net["server"] IN
    /\ n.served => n.policy = "DROP" /\ n.forward \in {<<>>, <<"toPrivate">>, <<"toPrivate", "replies">>}
    /\ Ready("server") => /\ n.wg0 = "up"
                          /\ n.forward = <<"toPrivate", "replies">>
                          /\ n.nat = <<"masquerade">>

\* Two sides that are configured know each other's key: neither an init that is
\* repeated or cut short, nor a side that restarts in the middle of one, sets up
\* half a tunnel against a key nobody holds (vpn.py:20-29, README.md:68).
PeersAgree ==
    LET server == net["server"].conf    client == net["client"].conf IN
        server # NoConf /\ client # NoConf => server = <<client[2], client[1]>>

=============================================================================
