------------------------------- MODULE MCLabs -------------------------------
(* Instances of the labs that run on their own. *)
EXTENDS Labs, MCSecretScan, TLC

\* Response: one alert that revokes a token, rehearsed or live.
CONSTANTS a1, ip, j1

MCAlertIp == a1 :> ip
MCJtiOf   == a1 :> j1
MCConfig  == {[dryRun |-> d, url |-> "none", scope |-> {ip}] : d \in BOOLEAN}

\* NetScan: networks that overlap, are too large or too many, reach out of the scope,
\* are not unicast or lose addresses to hosts(); ports that overlap, are reversed or
\* out of range.
Block(f, s) == [first |-> f, size |-> s]
MCTargets == {<<Block(0, 2)>>, <<Block(0, 4)>>, <<Block(2, 2), Block(3, 1)>>,
              <<Block(4, 2), Block(0, 1)>>, <<Block(0, 8)>>, <<Block(0, 2), Block(2, 2), Block(4, 1)>>,
              <<Block(6, 2)>>}
MCPorts   == {<< <<1, 1>> >>, << <<1, 2>>, <<2, 2>> >>, << <<2, 1>> >>, << <<3, 4>> >>}
MCScopes  == {{Block(0, 4)}, {Block(0, 1), Block(4, 4)}, {Block(0, 8)}}

\* Processes and threads are alike.
CONSTANTS p1, p2, w1, w2
Alike == Permutations({p1, p2}) \cup Permutations({w1, w2})

=============================================================================
