------------------------------ MODULE NetScan ------------------------------
(***************************************************************************)
(* 03-network-scanner/scanner.py: the arguments are parsed and refused as  *)
(* a whole, or every address is tried on every port by a pool of threads   *)
(* and the results are reported in the order of the jobs.  Addresses and   *)
(* ports are small numbers, networks are aligned blocks of addresses.      *)
(***************************************************************************)
EXTENDS Integers, Sequences, FiniteSets, Functions

CONSTANTS Worker,      \* threads the executor may start
          LastAddress, \* addresses are 0..LastAddress
          LastPort,    \* 65535
          NotUnicast,  \* multicast and unspecified addresses
          MaxAddresses, MaxConnections,       \* 1024 and 65536
          TargetSpecs, PortSpecs, ScopeSpecs  \* arguments an operator may give

Addr(n) == n.first .. n.first + n.size - 1

\* ip_network(strict=False) clears the host bits, so a network is aligned to its
\* size.  That the size is a power of two matters to no definition below.
Network == {n \in [first : 0..LastAddress, size : 1..LastAddress + 1] :
               n.first % n.size = 0 /\ n.first + n.size - 1 <= LastAddress}

ASSUME NetScanAssumption ==
    /\ TargetSpecs \subseteq Seq(Network) /\ ScopeSpecs \subseteq SUBSET Network
    /\ PortSpecs \subseteq Seq(Int \X Int)
    /\ NotUnicast \subseteq 0..LastAddress
    /\ {LastAddress, LastPort, MaxAddresses, MaxConnections} \subseteq Nat

VARIABLES args,     \* the command line, <<>> before it is read
          jobs,     \* the pairs (address, port) in order
          taken,    \* how many of them the pool has begun
          busy,     \* the job of each worker, 0 when it has none
          found,    \* the result of each job that has ended
          report,   \* "none", "refused", "aborted", "json" or "html"
          contacts  \* history: the connections attempted, in order

scanVars == <<args, jobs, taken, busy, found, report, contacts>>

\* ip_network.hosts(): without the first and last address, if there are others.
Hosts(n) == IF n.size <= 2 THEN Addr(n) ELSE Addr(n) \ {n.first, n.first + n.size - 1}

Ips(targets) == UNION {Hosts(targets[k]) : k \in DOMAIN targets}
Ports(items) == UNION {items[k][1]..items[k][2] : k \in DOMAIN items}

\* Each host on its own is in one of the authorised networks.
InScope(n, scope) == \A a \in Hosts(n) : \E s \in scope : a \in Addr(s)

\* The ValueErrors of parse_ports, parse_targets and main.
PortsRefused(items) ==
    \E k \in DOMAIN items :
        ~(1 <= items[k][1] /\ items[k][1] <= items[k][2] /\ items[k][2] <= LastPort)

OffLimits(n, scope) ==
    n.size > MaxAddresses \/ Hosts(n) \cap NotUnicast # {} \/ ~InScope(n, scope)

\* Mutant of TargetsRefused: the addresses of each target are counted on their own.
TargetsRefusedEach(targets, scope) ==
    \E k \in DOMAIN targets :
        OffLimits(targets[k], scope) \/ Cardinality(Hosts(targets[k])) > MaxAddresses

TargetsRefused(targets, scope) ==
    \/ \E k \in DOMAIN targets : OffLimits(targets[k], scope)
    \/ Cardinality(Ips(targets)) > MaxAddresses

Refused(a) ==
    \/ TargetsRefused(a.targets, a.scope) \/ PortsRefused(a.ports)
    \/ Cardinality(Ips(a.targets)) * Cardinality(Ports(a.ports)) > MaxConnections

Before(i, j) == i[1] < j[1] \/ (i[1] = j[1] /\ i[2] < j[2])

\* By address and then by port: the k-th job has k - 1 before it.
JobsOf(a) ==
    LET asked == Ips(a.targets) \X Ports(a.ports)
    IN  [k \in 1..Cardinality(asked) |->
            CHOOSE j \in asked : Cardinality({i \in asked : Before(i, j)}) = k - 1]

Arguments == [targets : TargetSpecs, ports : PortSpecs, scope : ScopeSpecs,
              workers : 1..Cardinality(Worker), probe : BOOLEAN]

ScanInit ==
    /\ args = <<>>
    /\ jobs = <<>> /\ taken = 0
    /\ busy = [w \in Worker |-> 0]
    /\ found = <<>>
    /\ report = "none"
    /\ contacts = <<>>

Parse(a) ==
    /\ args = <<>>
    /\ args' = a
    /\ IF Refused(a) THEN report' = "refused" /\ UNCHANGED <<jobs, found>>
       ELSE /\ jobs' = JobsOf(a)
            /\ found' = [k \in DOMAIN jobs' |-> "none"]
            /\ UNCHANGED report
    /\ UNCHANGED <<taken, busy, contacts>>

\* A free thread of the executor takes the next job ...
Takes(w) ==
    /\ taken < Len(jobs) /\ report = "none" /\ busy[w] = 0
    /\ Cardinality({v \in Worker : busy[v] > 0}) < args.workers
    /\ taken' = taken + 1

\* ... and connects, or gets no socket: that exception is not handled.
Connect(w) ==
    /\ Takes(w)
    /\ busy' = [busy EXCEPT ![w] = taken']
    /\ contacts' = Append(contacts, jobs[taken'])
    /\ UNCHANGED <<args, jobs, found, report>>

NoSocket(w) ==
    /\ Takes(w)
    /\ found' = [found EXCEPT ![taken'] = "raised"]
    /\ UNCHANGED <<args, jobs, busy, report, contacts>>

Conclude(w, state) ==
    /\ found' = [found EXCEPT ![busy[w]] = state]
    /\ busy' = [busy EXCEPT ![w] = 0]

\* The connection is accepted; a thread that probes stays to read the banner.
Accepted(w) ==
    /\ busy[w] > 0 /\ found[busy[w]] = "none"
    /\ IF args.probe THEN found' = [found EXCEPT ![busy[w]] = "open"] /\ UNCHANGED busy
                     ELSE Conclude(w, "open")
    /\ UNCHANGED <<args, jobs, taken, report, contacts>>

NotAccepted(w, state) ==
    /\ busy[w] > 0 /\ found[busy[w]] = "none"
    /\ Conclude(w, state)
    /\ UNCHANGED <<args, jobs, taken, report, contacts>>

\* A banner, or an error that changes nothing in the state.
Probed(w, state) ==
    /\ busy[w] > 0 /\ found[busy[w]] = "open"
    /\ Conclude(w, state)
    /\ UNCHANGED <<args, jobs, taken, report, contacts>>

\* The results are collected in order: the first exception among them cancels
\* the jobs not taken yet and ends the program.
Abort ==
    /\ report = "none"
    /\ \E k \in DOMAIN found : /\ found[k] = "raised"
                              /\ \A j \in 1..k - 1 : found[j] # "none"
                              /\ \A w \in Worker : busy[w] = 0 \/ busy[w] > k
    /\ report' = "aborted"
    /\ UNCHANGED <<args, jobs, taken, busy, found, contacts>>

\* The executor is left when all jobs have ended; two files are written.
Report ==
    /\ jobs # <<>> /\ \A w \in Worker : busy[w] = 0
    /\ taken = Len(jobs) /\ report # "aborted"
    /\ \A k \in DOMAIN jobs : found[k] # "raised"
    /\ report' = IF report = "none" THEN "json" ELSE "html"
    /\ UNCHANGED <<args, jobs, taken, busy, found, contacts>>

ScanNext ==
    \/ Abort \/ Report \/ \E a \in Arguments : Parse(a)
    \/ \E w \in Worker :
         \/ Connect(w) \/ NoSocket(w) \/ Accepted(w)
         \/ \E s \in {"closed", "filtered_or_unreachable", "error"} : NotAccepted(w, s)
         \/ \E s \in {"open", "open with banner"} : Probed(w, s)

ScanSpec == ScanInit /\ [][ScanNext]_scanVars

-----------------------------------------------------------------------------
ScanTypeOK ==
    /\ jobs \in Seq((0..LastAddress) \X (0..LastPort))
    /\ taken \in 0..Len(jobs)
    /\ busy \in [Worker -> 0..Len(jobs)]
    /\ DOMAIN found = DOMAIN jobs
    /\ report \in {"none", "refused", "aborted", "json", "html"}

\* Only authorised unicast addresses are ever contacted, none when any argument is
\* refused, no port twice, and no more addresses or connections than README.md:41
\* allows; and a report has one result for each address and port asked for, whatever
\* the threads met and in whichever order (scanner.py:24-52, 119-136).
ScanBounded == args # <<>> =>
    LET reached == Range(contacts)
        asked   == Ips(args.targets) \X Ports(args.ports)
    IN /\ \A c \in reached : c[1] \notin NotUnicast /\ \E s \in args.scope : c[1] \in Addr(s)
       /\ Cardinality({c[1] : c \in reached}) <= MaxAddresses
       /\ report = "refused" => contacts = <<>>
       /\ IsInjective(contacts) /\ Len(contacts) <= MaxConnections
       /\ report \in {"json", "html"} =>
             reached = asked /\ \A k \in DOMAIN jobs : found[k] \notin {"none", "raised"}

=============================================================================
