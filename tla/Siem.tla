-------------------------------- MODULE Siem --------------------------------
(***************************************************************************)
(* The mini SIEM of lab 01: collector.py appends what sshd reports to a    *)
(* file, Logstash ships the lines to an Elasticsearch index, and the       *)
(* polling detector of siem/app.py counts failures per address and writes  *)
(* alerts.  Each of the detector's requests sees the indices as they are   *)
(* at that moment, while its clock was read once for the whole cycle.      *)
(*                                                                         *)
(* Logstash and Elasticsearch are modelled from the way the lab configures *)
(* and uses them: lines are read in order from a position that is saved    *)
(* now and then, documents replace one another by their id, and a PUT that *)
(* timed out may still be carried out later.                               *)
(***************************************************************************)
EXTENDS Integers, Sequences, FiniteSets

CONSTANTS Hosts,      \* addresses are 1..Hosts, in the order of the aggregation
          PageSize,   \* buckets of a page, 500 in the code
          Threshold, Window, Cooldown,
          MaxEvents,  \* bound on the lines of the log
          MaxClock,   \* bound on the clock
          MaxFaults   \* bound on failed requests and crashes of Logstash

ASSUME SiemAssumption ==
    /\ {Hosts, PageSize, Threshold, Window, Cooldown} \subseteq Nat \ {0}
    /\ {MaxEvents, MaxClock, MaxFaults} \subseteq Nat

Ip == 1..Hosts

VARIABLES clock, faults,
          log,       \* /logs/auth.jsonl
          read,      \* how far Logstash has read
          sincedb,   \* how far it remembers having read
          queue,     \* lines between its input and its output
          logs,      \* index mini-siem-logs: documents with the line they hold
          alerts,    \* index mini-siem-alerts
          late,      \* PUTs whose sender gave up and that may still be applied
          pc, now, after, buckets,   \* the detector
          due        \* history: addresses over the threshold when it woke

pipeline == <<log, read, sincedb, queue, logs>>
detector == <<pc, now, after, buckets, due>>
vars     == <<clock, faults, pipeline, alerts, late, detector>>

Init ==
    /\ clock = 0 /\ faults = 0
    /\ log = <<>> /\ read = 0 /\ sincedb = 0 /\ queue = {} /\ logs = {}
    /\ alerts = {} /\ late = {}
    /\ pc = "sleep" /\ now = 0 /\ after = 0 /\ buckets = <<>> /\ due = {}

Tick == /\ clock < MaxClock
        /\ clock' = clock + 1
        /\ UNCHANGED <<faults, pipeline, alerts, late, detector>>

Fault == faults < MaxFaults /\ faults' = faults + 1

-----------------------------------------------------------------------------
\* sshd reports a failed or an accepted password; the collector stamps the line
\* and gives it an id, which here is its place in the log.
Collect(ip, outcome) ==
    /\ Len(log) < MaxEvents
    /\ log' = Append(log, [ip |-> ip, ts |-> clock, outcome |-> outcome])
    /\ UNCHANGED <<clock, faults, read, sincedb, queue, logs, alerts, late, detector>>

ReadLine ==
    /\ read < Len(log)
    /\ read' = read + 1
    /\ queue' = queue \cup {read + 1}
    /\ UNCHANGED <<clock, faults, log, sincedb, logs, alerts, late, detector>>
\* Mutant of DocumentId: Elasticsearch chooses the id.
DocumentIdFresh(line, copy) == <<line, copy>>

\* The id of a document is the event.id of its line, however often it is sent.
DocumentId(line, copy) == line

Ship(line) ==
    /\ line \in queue
    /\ queue' = queue \ {line}
    /\ logs' = logs \cup {[id |-> DocumentId(line, Cardinality(logs)), line |-> line]}
    /\ UNCHANGED <<clock, faults, log, read, sincedb, alerts, late, detector>>
\* Mutant of SavePosition: one line too far.
SaveAhead == /\ sincedb' = read + 1
             /\ UNCHANGED <<clock, faults, log, read, queue, logs, alerts, late, detector>>

SavePosition ==
    /\ sincedb' = read
    /\ UNCHANGED <<clock, faults, log, read, queue, logs, alerts, late, detector>>

\* Lines it had saved as read but not shipped are lost; those it had shipped but
\* not saved are sent again.
LogstashRestarts ==
    /\ Fault
    /\ read' = sincedb /\ queue' = {}
    /\ UNCHANGED <<clock, log, sincedb, logs, alerts, late, detector>>

-----------------------------------------------------------------------------
\* Documents that a cycle begun at "t" counts against an address.
Matching(ip, t) ==
    {d \in logs : /\ log[d.line].ip = ip /\ log[d.line].outcome = "failure"
                  /\ log[d.line].ts \in t - Window..t}

Count(ip, t) == Cardinality(Matching(ip, t))

\* Alerts of an address, in whatever state the index is.
AlertsOf(ip) == {a \in alerts : a.ip = ip}

ShouldAlert(ip) == \A a \in AlertsOf(ip) :
                      (\A b \in AlertsOf(ip) : b.at <= a.at) => now - a.at >= Cooldown

Wake ==
    /\ pc = "sleep"
    /\ pc' = "page" /\ now' = clock /\ after' = 0 /\ buckets' = <<>>
    /\ due' = {ip \in Ip : Count(ip, clock) >= Threshold}
    /\ UNCHANGED <<clock, faults, pipeline, alerts, late>>

\* Mutant of Hits: the next page leaves one address out.
HitsBeyond == {ip \in Ip : ip > after + 1 /\ Count(ip, now) > 0}

\* Addresses after the last one seen that have any failure in the window.
Hits == {ip \in Ip : ip > after /\ Count(ip, now) > 0}

\* The next page of them; an empty page ends the cycle.
Page ==
    LET page == {ip \in Hits : Cardinality({j \in Hits : j < ip}) < PageSize}
        Nth(n) == CHOOSE ip \in page : Cardinality({j \in page : j < ip}) = n - 1
    IN
    /\ pc = "page" /\ buckets = <<>>
    /\ buckets' = [n \in 1..Cardinality(page) |-> [ip |-> Nth(n), count |-> Count(Nth(n), now)]]
    /\ after' = IF page = {} THEN after ELSE Nth(Cardinality(page))
    /\ pc' = IF page = {} THEN "sleep" ELSE "page"
    /\ UNCHANGED <<clock, faults, pipeline, alerts, late, now, due>>

Next1 == buckets' = Tail(buckets) /\ pc' = "page"

\* A bucket below the threshold is passed over; for another, the newest alert of
\* its address decides whether a new one is due.
Bucket ==
    /\ pc = "page" /\ buckets # <<>>
    /\ IF Head(buckets).count >= Threshold /\ ShouldAlert(Head(buckets).ip)
         THEN pc' = "put" /\ UNCHANGED buckets
         ELSE Next1
    /\ UNCHANGED <<clock, faults, pipeline, alerts, late, now, after, due>>

NewAlert == [ip |-> Head(buckets).ip, at |-> now]

\* ?refresh=wait_for: the alert can be searched when the PUT returns.
Put ==
    /\ pc = "put"
    /\ alerts' = alerts \cup {NewAlert}
    /\ Next1
    /\ UNCHANGED <<clock, faults, pipeline, late, now, after, due>>

\* A request fails or takes more than fifteen seconds, or the process is
\* restarted: the cycle is given up and the next one starts from scratch.
Abort ==
    /\ Fault
    /\ pc # "sleep"
    /\ pc' = "sleep" /\ buckets' = <<>>
    /\ late' \in IF pc = "put" THEN {late, late \cup {NewAlert}} ELSE {late}
    /\ UNCHANGED <<clock, pipeline, alerts, now, after, due>>

\* Elasticsearch carries out what it had accepted, or makes it searchable.
ApplyLate ==
    /\ \E a \in late : late' = late \ {a} /\ alerts' = alerts \cup {a}
    /\ UNCHANGED <<clock, faults, pipeline, detector>>

Ingest == \/ ReadLine \/ SavePosition \/ LogstashRestarts
          \/ \E ip \in Ip, outcome \in {"failure", "success"} : Collect(ip, outcome)
          \/ \E line \in queue : Ship(line)

Detect == Wake \/ Page \/ Bucket \/ Put \/ Abort

Next == Tick \/ Ingest \/ Detect \/ ApplyLate

Spec == Init /\ [][Next]_vars

-----------------------------------------------------------------------------
TypeOK ==
    /\ clock \in 0..MaxClock /\ faults \in 0..MaxFaults
    /\ log \in Seq([ip : Ip, ts : 0..MaxClock, outcome : {"failure", "success"}])
    /\ sincedb \in 0..read /\ read \in 0..Len(log)
    /\ queue \subseteq 1..Len(log)
    /\ \A d \in logs : d.line \in 1..Len(log)
    /\ alerts \cup late \subseteq [ip : Ip, at : 0..MaxClock]
    /\ pc \in {"sleep", "page", "put"}
    /\ now \in 0..clock /\ after \in 0..Hosts /\ due \subseteq Ip
    /\ buckets \in Seq([ip : Ip, count : Nat])

\* Every alert is backed by sshd: the log holds enough failures of that address
\* in its window, each counted once although Logstash resends what it read before
\* a crash and pages are read at different moments (pipeline.conf:30, app.py:77).
AlertsJustified ==
    \A a \in alerts \cup late :
        Cardinality({k \in DOMAIN log :
            /\ log[k].ip = a.ip /\ log[k].outcome = "failure"
            /\ log[k].ts \in a.at - Window..a.at}) >= Threshold

\* A cycle that runs to its end leaves no offender without a recent alert: every
\* address over the threshold when it began has one younger than the cooldown,
\* on whatever page it was and whatever was indexed meanwhile (app.py:86-132).
CyclesComplete ==
    [][pc = "page" /\ pc' = "sleep" /\ faults' = faults =>
         \A ip \in due : \E a \in alerts : a.ip = ip /\ now - a.at < Cooldown]_vars

\* README.md:90: COOLDOWN_SECONDS is the least time between alerts of an address.
CooldownRespected ==
    \A a, b \in alerts : a.ip = b.ip /\ a # b =>
        a.at - b.at >= Cooldown \/ b.at - a.at >= Cooldown

=============================================================================
