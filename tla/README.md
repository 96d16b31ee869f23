# Specifications of cybersecurity-labs

TLA+ models of the repository's own programs, the TLC configurations that check
them on small instances, and proofs that TLAPS checks for every value of the
constants. Paths are relative to the repository root (`src/` here); Spanish
quotations are the repository's.

## The system

Nine labs, each a small program; the ones with state of their own are:

| Part | State | Operations | Hard because |
| --- | --- | --- | --- |
| SOAR webhook, `06-soar-automation/app.py`, `actions.py` | ledger (SQLite), one lock, a thread per request; outside it a firewall, a webhook, the identity provider | `POST /webhook/alert`: load the row, run the missing steps in order, write a checkpoint after each | effects and checkpoints are not atomic; crashes, time-outs, repeated alerts, mode switches |
| Forwarder, `06-soar-automation/forward_alert.py` | position in a file | post each alert, stop at the first error | gives up after 10 s, the server does not |
| Identity provider, `08-identity-provider/auth_server.py` | limiter deques (memory), table `revoked` (SQLite) | login, verify, revoke | stamps read before the lock; restarts; slow answers |
| Middleware, `08-identity-provider/middleware.py` | none | ask `/verify` before serving a request | late answers, outages |
| PKI, `05-pki-digital-signature/pki.py`, `app.py` | tables `certificates`, `audit`; 4 waitress threads | issue, revoke, sign, verify, CRL | reads outside the transaction; two clock readings; failing commits |
| Mini SIEM, `01-mini-siem` | log file, Logstash position, two Elasticsearch indices | collect, ingest, detect | resends, pagination over a moving index, late PUTs |
| Honeypot, `07-ssh-honeypot/honeypot.py` | semaphore of 16, set of connections, handler threads | accept, handle, close | close() against accept; time-outs that restart |
| SIEM set-up, `01-mini-siem/siem/app.py` | index template, indices, data views | `setup`, `kibana` | requests that fail or succeed without an answer; order against the first document |
| VPN, `04-vpn-traffic-monitor/vpn.py` | keys and configurations in two volumes, a network namespace per side | initialize, start, stop | a failing command leaves the namespace as it is; init repeated while a side restarts |
| Provisioning: `scripts/init_labs.py`, `init_env.py` (05, 08), `PKI.__init__`, `tls_setup.py` | files | create what is missing | stops between two files; overlapping runs and TLS renewals |
| Network scanner, `03-network-scanner/scanner.py` | a thread pool | parse, connect, report | limits at their boundary; failing threads |
| Secret scanner, `09-devsecops-scanner/scanner.py` | none of its own; the scanned tree | walk, ask git, read, match | partial failures, directories that cannot be listed, a tree that changes |
| Home lab `02`, other `scripts/` | none of interest | teaching material, start-up helpers | not modelled |

They interact in three places: `forward_alert.py` posts the SIEM's alerts to the
SOAR webhook (`SoarForward`), `actions.revoke_token` calls the provider's `/revoke`
(`Response` composes `Soar` and `Tokens`), and the middleware calls `/verify`
(`Tokens`).

What makes each part correct is stated by the properties below; what is hard to
test, with the line where it bites, is the list `hazards` of `PROJECT.json`.

## Modules

| Module | Models | State and actions |
| --- | --- | --- |
| `Playbook` | what the webhook promises | `recorded`, `effects`; a due step takes effect or is recorded |
| `Soar` | `app.py`, `actions.py` | `ledger` is the table, `results` a thread's dictionary, `pc` its place in the `with` block. `Receive` is the arrival, `Load` lines 63-71, `Perform*` line 75, `Checkpoint*` lines 79-80, `Restart` a new process |
| `SoarForward` | `forward_alert.py` over `Soar` | `Post`, `Answered`, `TimesOut`, `Rerun` |
| `Response` | `Soar` and `Tokens` together | `WebhookStep` is a step of the webhook with the row that `revoke_token` writes at the provider, `ProviderStep` a step of provider or middleware |
| `LoginLimiter` | `login()` up to the password check | `Arrive` reads the stamp, `Enter` is the critical section |
| `Tokens` | tokens from `login` to the middleware | `Ask`, `Deliver`, `TimesOut` are the middleware; `Decode`, `Lookup` the provider's thread |
| `Pki` | the registry and its requests | one action for each access to the database |
| `Siem` | collector, Logstash, detector | one action for each request of `detect_once` |
| `Honeypot` | `honeypot.py` | `Accept`..`Start` are `serve_forever`, `Negotiated`..`Release` is `handle`, `Stop`, `Shut`, `Sweep` are `close` |
| `SiemSetup` | `setup`, `setup_kibana`, and who writes the first document | `Put`, `PutFails`, `PostView`, `PostFails` are one request each |
| `Provisioning` | the scripts that create keys and credentials | `disk` says which run wrote each file; `Look`, `OpenFor`, `Write` are the existence test, the `open` and the write of one file |
| `Vpn` | `vpn.py` | `InitBegins`..`InitStops` are `initialize`, `Execute` is one command of `start`, `net` the namespace it changes |
| `NetScan` | `03 scanner.py` | `Parse` is everything up to the jobs, `Takes`..`Probed` the pool's threads, `Abort` and `Report` the end of `main` |
| `SecretScan` | `09 scanner.py` | one action for each access to the tree (`Walk` lists one directory, or passes over it), `CheckIgnore` for git, `Edit` for whoever works on the tree |
| `Labs` | the systems of run **labs** side by side | `lab` names the one a behaviour is about |
| `SoarProofs`, `SoarForwardProofs`, `LoginLimiterProofs`, `PkiProofs`, `SiemProofs`, `HoneypotProofs` | theorems about the module they are named for | |
| `TokensProofs` | theorems about `Tokens`, and about `Response` over it | |
| `LabsProofs` | theorems about `Provisioning`, `Vpn`, `SiemSetup`, `NetScan`, `SecretScan` and `Labs` | |
| `MCSoar`, `MCSoarForward`, `MCLoginLimiter`, `MCSecretScan`, `MCLabs` | instances for TLC | |

Definitions introduced by "Mutant of" are deliberate defects: each property of a
run is violated when the named definition is replaced by one of them.

Modelled as external, from how the code uses them: Logstash and Elasticsearch,
Paramiko and the SSH client, the clocks. Cryptography is taken to be sound: a
token, certificate or signature package is a model value that cannot be forged.

## What the runs check

The bounds are the smallest in which every action and every race happens.

**soar** (`MCSoar.cfg`; 300 thousand states). Two threads, two alerts from one
address, one of them with a `token_jti`, five environments (dry-run and live,
webhook URL valid, missing or malformed, address in or out of scope), two faults.
A third thread adds nothing the lock does not already serialise; two faults allow
a mode switch and a loss in one behaviour.
`Accounted`: each effect is recorded, in flight, or counted in `lost`; README 06
line 3 admits the last. `AnsweredComplete`, `InOrder`, `ModesApart` and
`NotReplayed` are what a sender and an operator rely on.

**soar_forward** (`MCSoarForward.cfg`; 55 thousand states). A file of two alerts
over the same webhook, `Config` without refused steps. Fairness: each server
thread that can step does (every call in `actions.py` has a time-out and SQLite
gives up after 5 s), the script steps, and the operator does run the script again
after an error. `EventuallyForwarded` needs the last and is exactly the README's
"programar la exportación/reenvío"; `LockReleased` does not. `PassedMeansDone` and
`FileInOrder` speak of the threads that time-outs leave behind: what the script has
passed was carried out in one of the modes, and no thread does anything of an alert
before the alerts ahead of it in the file were carried out, because the script stops at
the first time-out (a script that went on would break it). `ImplementsPlaybook` is the
refinement, here of the composed system. CHECK_DEADLOCK is off because a
delivered file ends the behaviour.

**login_limiter** (`MCLoginLimiter.cfg`; 106 thousand). Two threads, two addresses, Limit
2, Window 1, clock up to 2: enough for an entry to expire while another thread holds an
older stamp. `WindowLimited` is the limit by the limiter's own stamps: all admissions in
the window of the newest stamp, and in every other window those that no newer stamp
overtook on the way to the lock (`overtaken`). With the overtaken ones an older window can
hold more: an entry that was pruned by a newer stamp does not count against a thread that
comes late with an older one. `RefusalsDeserved` says a 429 has Limit attempts of that
address behind it.

**login_per_minute** (violation). By the wall clock the limit can be passed: the
stamp is read at line 83, before the lock at line 84.

**pki** (`MCPki.cfg`; 374 thousand). Two threads on one certificate, five requests,
two ticks, a certificate that lives one tick. Requests on different certificates
share nothing. `AuditComplete`, `RevocationEffective` and `RevocationSettled`: a
revocation binds every request that starts after it, and its date can be moved
only by a request that overlapped it.

**pki_revoke_twice**, **pki_fresh_list** (violations). Overlapping revocations move
the date of the first (test_pki.py:61 calls the second "idempotent"), and a
request that waits for the database judges its own fresh CRL as not yet in force.

**siem** (`MCSiem.cfg`; 3.2 million). Two addresses on pages of one, Threshold 2,
three lines, two ticks, one crash or failed request. `AlertsJustified` fails if
a resent line is a new document; `CyclesComplete` if pagination loses an
address or the cooldown suppresses too much.

**siem_cooldown** (violation). A PUT that timed out is applied after the next cycle
has searched for the newest alert.

**honeypot** (`MCHoneypot.cfg`; 450 thousand). Two connections, one slot, waits of one
or two ticks, replies in up to two parts. `SlotsConserved`, `OneLeftBehind` (when
`close()` has returned at most one connection is open), `SessionsEnd` (a bound
on a session that does not depend on the client), `SlotsComeBack`. Fairness: threads
run, time passes and expired waits return; clients need do nothing. With one
slot there is one handler at a time; two handlers meet only in the semaphore and
in the set under its lock, and `HoneypotProofs` covers any number of both.
`SessionsEnd` is checked with waits whose sum is 15 ticks and proved for any.

**labs** (`MCLabs.cfg`; 800 thousand). Seven systems that share nothing: the first
state chooses one (`lab`), and only its actions happen in that behaviour, so the
states are the sum of the seven and not their product. Permutations of processes
and of pool threads are a symmetry: no property names one of them, and the
temporal properties are conditions on single steps. That each of them behaves here
as it does on its own is the theorem `LabsApart`. No fairness is assumed.

- *tokens*: one call at a time, which a time-out can leave running in the provider, one
  token, a scope the account has and one it has not, two ticks. Calls share only the
  table of revocations and tokens share nothing; the theorems are about any number of
  both. `told` is when somebody first got the answer of `/revoke`, which may be lost on its
  way; `RevocationHolds`: a request made after that is not granted, across restarts.
  `GrantsDeserved`: a grant is for a token alive when the service asked, outages included.
  `RevocationTakesHold`: a yes on its way opens the route no later than `Patience` after
  the token was reported revoked, and sooner than that after it expired. `Patience` is
  what the waits of one httpx request can last together: `timeout=5` bounds each of them
  (connection, sending, the answer, which the provider sends in one piece), so it is a
  small multiple of five seconds. `Tick` keeps to it, as httpx waits no longer.

- *response*: one alert with a `token_jti`, rehearsed or live, one request to the
  service. `RemediationBars`: a request made after a live 200 is not granted, in
  any interleaving of webhook thread, provider, middleware, faults and restarts. The
  clock stands still here: expiry only refuses more.
- *vpn*: four keys, two processes that stop before their end. Four keys let both
  sides be made anew after `down -v`. `Confined`: once ready in a namespace, the
  server forwards there only what it should, through later starts that fail
  half-way; and a ready server has each rule once. The first
  start of a namespace is exempt: `wg0` is up at `vpn.py:39` while the policy is still
  ACCEPT, and what 04 README.md:42 says is not true yet. `PeersAgree`: two configured
  sides hold each other's key.
- *provisioning*: two processes, three scripts of any kind, each of which may stop
  anywhere. Three let a third script find what a race or a stop has left. TLS set-ups
  may overlap; `met` notes which have, and `OnlyCutShort` admits halves of two of those
  and of no others: `tls_setup.py:37-42` has no lock, so two renewals at work together can
  both end well and leave the key of one with the certificate of the other.
  `SecretsKept`, `PairsBelong`, `OnlyCutShort`.
- *netscan*: eight addresses, one of them not unicast, limits of 4 addresses and 5
  connections, argument lists that are under, at and over
  each limit, overlap, or leave the scope, two threads. `ScanBounded`
  has both limits, the scope and the refusal of what is not unicast.
- *secretscan*: three paths (one excluded by name, one ignored by git), six contents, one
  edit during the scan, four behaviours of git. `ExitCodeTells`. A directory that cannot
  be listed is passed over (`skipped`), and the property speaks of the others; run
  **secret_scan_unlisted** of the rest. The model shows one edge: in a repository without
  candidates the scanner passes git an empty name, git refuses it, and the exit code is 2;
  the property admits it.
- *siemsetup*: two failing requests or removals, two attempts of Kibana.
  `SetupTrustworthy`: no document is ever indexed under a guessed mapping, and the
  data views are reported only when both exist.

**secret_scan_unlisted** (violation). `os.walk` without `onerror` (`scanner.py:21`) passes
over a directory that cannot be listed, and the exit code 0 is not that of a complete
scan.

Deadlock checking is off where the program may really stop: a closed honeypot, a
delivered file, and the models whose clock or request counter has reached its bound.

Bounds that are guards: `MaxFaults` (Soar, Siem), `MaxClock` (LoginLimiter, Tokens, Pki,
Siem), `MaxRequests` (Pki), `MaxEvents` (Siem), `MaxKeys` and `MaxVpnFaults` (Vpn),
`MaxRuns` (Provisioning), `MaxEdits` (SecretScan), `MaxSetupFaults` (SiemSetup).
`MaxAddresses`, `MaxConnections` (NetScan) and `MaxTries` (SiemSetup) are limits of the
code itself with smaller values. `performed`, `lost`, `forgotten`, `latest`, `began` of
Pki, `barred`, `told`, `overtaken`, `skipped`, `met`, `due`, `age`, `late`, `served`, `cut`,
`contacts`, `seen` and `trouble` are history that no guard reads.

## What is proved

Each theorem holds for every value of the constants that the named assumption of
the module allows, in particular for every bound. None of the invariants below is
inductive as it stands; each proof module states its strengthening `IInv` (`FInv`)
and has one step per action.

`SoarProofs` (`SoarAssumption`): `TypeCorrect`, `EffectsAccounted`, `AnswersComplete`,
`CheckpointsInOrder`, `RehearsalsApart` are the invariants of run **soar**,
`NeverReplayed` its action property, `Implements` the refinement of `Playbook` under the
mapping at the end of `Soar`. `IInv` adds `Exclusive`, that at most one
thread holds the lock, and `Current`, which ties a holder's dictionary to the
row of its identity: equal while it looks for the next step, and ahead of it by
exactly one step, the first one missing, between the action and its checkpoint.
`Accounted` needs both, because the effect in flight is the difference
between the two; `InOrder` needs `Current` to know that the step just performed was
the first one missing. What a step shows to the outside is one lemma, `StepShows`,
from which `NeverReplayed` and `Implements` follow.

`SoarForwardProofs` (also `ForwardAssumption`): `PassedIsDone`, `FileKeepsOrder`,
`ForwardImplements`. A step of the pair is a step of the webhook, a step of the script
alone, or the script's impatience, so the webhook's invariant carries over; it is joined
by `Asking`, that the outstanding request is for the alert the script is at. `FileInOrder`
needs `ThreadsInOrder`: every thread, also one left behind, is at an alert whose
predecessors in the file are done (`Turn`), which is so when its request is sent and stays
so because what is done stays done.

`LoginLimiterProofs` (`LimiterAssumption`): `TypeCorrect`, `LimitHolds`,
`RefusalsAreDeserved`. What `popleft` removed is older than the window of the newest stamp
(`Old`), what it left is never more than the limit (`Short`). The stamps of a deque are in
no order, but its admissions are (`Ordered`) and none is before its stamp (`Dated`):
behind a head whose stamp is recent every admission is recent, which is what a 429 needs.
`Turns` is the second half of `WindowLimited`: an admission in turn has the newest stamp
at its time, so the window that ends there is that of the newest stamp, and a later window
gains only with a newer one.

`TokensProofs` (`TokensAssumption`, for the last theorem also `ResponseAssumption`):
`TypeCorrect`, `RevocationBinds`, `RevocationSoonBinds`, `EveryGrantDeserved`,
`RemediationHolds`. Between lookup and answer the yes is on its way (`OnItsWay`); what was
checked by then still holds of the token (`Checked`). What somebody was told is in the
table (`ToldIsRevoked`), a call is barred only if its token was told revoked by its
beginning (`BarredIsTold`), none is older than `Patience` (`InTime`), and who is told
while a yes is on its way is told after the call began (`ToldAfter`). `RemediationHolds`
crosses the two services: it takes the webhook's invariant from an instance of
`SoarProofs` and the provider's from the theorems above, and joins them by `RInv`: a
`revoke_token` whose effect took place has its row at the provider (`Delivered`), and none
is recorded as "not_configured" (`Configured`); by `AnsweredComplete` a live 200 means
that this step is in the ledger, by `ModesApart` and `Accounted` that it was not a
rehearsal, so its token was reported revoked (`RemediedTold`); a request made after the
200 finds the token barred (`LateIsBarred`), and `RevocationHolds` refuses it. No
assumption ties the two services but that the URL of `/revoke` is that of the provider the
middleware asks.

`PkiProofs` (`PkiAssumption`, with finitely many threads): `TypeCorrect`,
`TrailComplete`, `RevocationBinds`, `RevocationStays`. `Counted` counts the signatures
audited and not yet handed out, `Fresh` keeps a serial about to be inserted to one
thread, `Barred` says that a thread that saw a revocation never reaches an update.

`SiemProofs` (`SiemAssumption`): `TypeCorrect`, `AlertsAreJustified`, `NoOffenderLeftOut`. A
document is its line (`Identified`), so a bucket never counts more than the failures
of the log (`Counted`), which only grows; an alert is written from a bucket that
reached the threshold (`InHand`). Each offender of a cycle has a recent alert, a bucket
in hand that reaches the threshold, or an address the next page still has to come to
(`Covered`). The paging is the lemma `Turns`: addresses have distinct ranks (`Ranks`), so
what a page does not list comes after its last address.

`HoneypotProofs` (`HoneypotAssumption`, with finitely many connections): `TypeCorrect`,
`SlotsKept`, `CloseReaches`, `HandlersEnd`. The slots are counted by the connections in
hand and in the care of a handler; an open socket is in `connections` (`Reached`) until
its handler closes it (`Closed`), except the one just accepted, the one left behind.
`HandlersEnd` (`SessionsEnd`) needs a bound for each phase (`OnTime`), since what is left of
the total depends on where the handler is: age and pending wait before the shell; age
and the parts still unsent during a reply; age and the shell's deadline, which time
moves towards each other, from the shell on. A read that began before the deadline may
outlast it by one wait, and the command it ends by a reply.

`LabsProofs`, one part for each lab, each under the assumption of its own module:

- *provisioning*: `NeverRewritten`, `PairsAlwaysBelong`, `MissingOnlyWhenCut`. A file
  opened with "x" has one writer (`OneWriter`), who is at the second half of a pair has
  written the first (`InHalf`), unless it is a TLS set-up whose key one that it has met
  (`Meeting`) has overwritten since (`InTlsHalf`), an empty file or a missing half has a
  writer or a stopped one (`Explained`), and what a script has passed is there or has such
  an excuse (`Walked`).
- *vpn*: `AlwaysConfined`, `PeersAlwaysAgree`. The server's rules are a function of the
  position of its `start` (`Rules`), including what an earlier `start` left in the same
  namespace; every configuration, on disk or read by a side, names the two keys that
  are on disk, and `initialize` writes none before both are there (`KeysKept`).
- *siemsetup*: `SetupIsTrustworthy`. How far `setup` has come is what Elasticsearch has
  (`Ordered`), and the attempts of Kibana post the views in order (`ViewsInOrder`).
- *netscan*: `ScanStaysBounded`, `ScanTypeCorrect`. The k-th job is the pair with k - 1
  before it; that every k has one, and one only, is the lemma `Ranks`, by the
  pigeonhole for the injection of pairs into ranks. The connections attempted are the
  jobs taken, less those that raised (`Contacted`), a job taken without a result is in
  some thread's hands (`InWork`), and there are no jobs but those of arguments that
  were admitted (`Admitted`).
- *secretscan*: `ExitCodeIsTrue`. The findings are those of what has been read
  (`FindingsTell`), because a rule passes over placeholders to the first real match of a
  line and so reports it exactly if there is one (`ReportedWhenReal`, `LeaksAreFound`);
  while nobody edits, a candidate is in a directory not listed yet or passed over, or it
  is waiting or read (`Covered`); each exit code has its own end (`Ended`).
- all of them: `LabsTypeCorrect`, and `LabsApart`, that the composition run **labs** checks
  implements the specification of each.

Every safety invariant and every action property that a passing run checks is so
proved. Only model-checked are the liveness properties `EventuallyForwarded`,
`LockReleased` and `SlotsComeBack`: fairness and `ENABLED` are out of the
prover's reach. `SlotsComeBack` has its safety half in `HandlersEnd`: a handler whose
age is bounded can stay only if time does not pass. The five properties of the
violation runs are false, as the runs show.

## Plan

Done: the SOAR core, the forwarder, limiter, tokens, PKI, SIEM detector and set-up,
honeypot, provisioning, VPN, both scanners, the composition of `Soar` and `Tokens`,
and the proofs listed above. Left, in order of what it would add:

1. The true counterparts of the two false claims on time, each with a property and a
   theorem: how many attempts the limiter can admit in a minute of the wall clock, by
   the threads that may hold an old stamp, and that two alerts closer than the cooldown
   mean a PUT given up between them.
2. The safety core of the liveness properties, that a waiting state always has an
   action whose guard holds, stated as lemmas on guards.
3. A sharper statement of what the SIEM misses when ingestion is later than the window
   (the hazard at `siem/app.py:112`), with its theorem.

## Not modelled

- Wording of answers, HTML, logging and evidence; banners of the network scanner and
  the replies of the honeypot's simulated shell.
- Authentication of the administrator by a constant-time comparison; read-only routes
  (`/health`, lists, `/crl.pem`), which change nothing.
- Failures of the interpreter itself, such as no memory or no thread: `Thread.start` of the
  honeypot (`honeypot.py:88`) always succeeds, although a failure there would leak a slot.
- The honeypot's event log and `geo_enricher.py`: an append under a lock and a cached
  lookup that nothing in the code reads again.
- `analyze.py` of the VPN lab: a single pass that counts the lines of an export; the
  packets inside the tunnel are the kernel's.
- `run_local_module.py`, `wait_http.py`, `kibana_dashboard.py` and `verify` of the SIEM:
  they start a process, wait for a port or check a deployment, and keep no state. Smoke
  tests. Kibana, Nginx and Docker configuration except the order in which it starts the
  services.
- Lab 02: teaching material in which each defect stands next to its correction.
