---------------------------- MODULE Provisioning ----------------------------
(***************************************************************************)
(* The credentials and keys that the labs create for themselves:           *)
(* scripts/init_labs.py with the init_env.py of labs 05 and 08, the CA     *)
(* that PKI.__init__ makes when it finds none, and the TLS certificate of  *)
(* tls_setup.py.  Each script walks through its files in order.  It may    *)
(* stop anywhere, run again, and run next to another run of its own.  A    *)
(* file that has been opened and not yet written is empty.                 *)
(***************************************************************************)
EXTENDS Integers, Sequences

CONSTANTS Runner,     \* processes
          MaxRuns     \* bound on the scripts started

ASSUME ProvisioningAssumption == MaxRuns \in Nat

VARIABLES disk,   \* what each file holds: nothing, no text, or what run n wrote
          runs,   \* scripts started so far
          run,    \* the number of the script of each process
          script,
          at,     \* its position in the script
          mode,   \* "look", "open" or "write" there, "ok" or "failed" at its end
          cut,    \* history: files that a stopped script still owed
          met     \* history: pairs of TLS set-ups that were at work together

process  == <<run, script, at, mode>>
provVars == <<disk, runs, process, cut, met>>

Absent == 0    Blank == -1

Script == [labs |-> <<"siem.env", "pki.env", "idp.key", "idp.env", "idp.password", "soar.env">>,
           pki  |-> <<"ca.key", "ca.pem">>,
           tls  |-> <<"ca.key", "ca.pem", "tls.key", "tls.pem", "tls.ca">>]
File   == {"siem.env", "pki.env", "idp.key", "idp.env", "idp.password", "soar.env",
           "ca.key", "ca.pem", "tls.key", "tls.pem", "tls.ca"}

Tested    == {"siem.env", "idp.key", "idp.env", "soar.env"}      \* if not exists()
Exclusive == Tested \cup {"pki.env", "ca.key"}                   \* open("x")
\* The second file of a pair, made from the same secret as the first.
Second == [f \in {"idp.env", "ca.key", "tls.key"} |->
              IF f = "idp.env" THEN "idp.password" ELSE IF f = "ca.key" THEN "ca.pem" ELSE "tls.pem"]

Full(f)    == disk[f] > 0
Busy(p)    == mode[p] \in {"look", "open", "write"}
AtTls(p)   == Busy(p) /\ script[p] = "tls"
Current(p) == Script[script[p]][at[p]]

\* What a process has committed itself to write.
Owed(p) ==
    IF ~Busy(p) THEN {}
    ELSE LET f == Current(p) IN
         (IF mode[p] = "write" \/ \E g \in DOMAIN Second : Second[g] = f THEN {f} ELSE {})
           \cup (IF mode[p] = "write" /\ f \in DOMAIN Second THEN {Second[f]} ELSE {})

ProvInit ==
    /\ disk = [f \in File |-> Absent]
    /\ runs = 0
    /\ run = [p \in Runner |-> 0]
    /\ script = [p \in Runner |-> "labs"]
    /\ at = [p \in Runner |-> 1]
    /\ mode = [p \in Runner |-> "ok"]
    /\ cut = {} /\ met = {}

\* The PKI and the TLS set-up start with the credentials of the .env only.  Nothing
\* keeps a renewal from being started while another is under way.
Launch(p, s) ==
    /\ ~Busy(p) /\ runs < MaxRuns
    /\ s # "labs" => Full("pki.env")
    /\ runs' = runs + 1
    /\ run' = [run EXCEPT ![p] = runs']
    /\ script' = [script EXCEPT ![p] = s]
    /\ at' = [at EXCEPT ![p] = 1]
    /\ mode' = [mode EXCEPT ![p] = "look"]
    /\ met' = met \cup {{runs', run[q]} : q \in {o \in Runner : s = "tls" /\ AtTls(o)}}
    /\ UNCHANGED <<disk, cut>>

\* Go on n files further down, or end.
Advance(p, n) ==
    IF at[p] + n > Len(Script[script[p]])
      THEN mode' = [mode EXCEPT ![p] = "ok"] /\ UNCHANGED at
      ELSE mode' = [mode EXCEPT ![p] = "look"] /\ at' = [at EXCEPT ![p] = @ + n]

Goes(p, m) == mode' = [mode EXCEPT ![p] = m] /\ UNCHANGED at
\* The file is there: the pair of which it is the first is left alone.
Kept(p) == Advance(p, IF Current(p) \in DOMAIN Second THEN 2 ELSE 1)

\* Mutant of Look: a CA without certificate gets a new one.
LookHalf(p) ==
    /\ mode[p] = "look"
    /\ CASE Current(p) \in Tested \cup {"ca.key"} ->
              IF disk[Current(p)] = Absent THEN Goes(p, "open")
              ELSE IF Current(p) = "ca.key" /\ ~Full("ca.pem") THEN Advance(p, 1) ELSE Kept(p)
         [] OTHER -> Goes(p, "open")
    /\ UNCHANGED <<disk, runs, run, script, cut, met>>

\* Existing files are kept.  A CA of which one half is missing, or whose halves
\* cannot be loaded and matched, is refused.
Look(p) ==
    /\ mode[p] = "look"
    /\ CASE Current(p) \in Tested -> IF disk[Current(p)] = Absent THEN Goes(p, "open") ELSE Kept(p)
         [] Current(p) = "ca.key" ->
              IF disk["ca.key"] = Absent /\ disk["ca.pem"] = Absent THEN Goes(p, "open")
              ELSE IF Full("ca.key") /\ disk["ca.pem"] = disk["ca.key"] THEN Kept(p)
              ELSE Goes(p, "failed")
         [] OTHER -> Goes(p, "open")
    /\ UNCHANGED <<disk, runs, run, script, cut, met>>
\* Mutants of OpenFor: an open that truncates, or whose failure ends only the
\* script that init_labs.py has called.
OpenTruncating(p) ==
    /\ mode[p] = "open"
    /\ disk' = [disk EXCEPT ![Current(p)] = Blank] /\ Goes(p, "write")
    /\ UNCHANGED <<runs, run, script, cut, met>>

OpenUnchecked(p) ==
    /\ mode[p] = "open"
    /\ IF Current(p) \in Exclusive /\ disk[Current(p)] # Absent
         THEN (IF script[p] = "labs" THEN Advance(p, Len(Script.labs) - at[p]) ELSE Goes(p, "failed")) /\ UNCHANGED disk
         ELSE disk' = [disk EXCEPT ![Current(p)] = Blank] /\ Goes(p, "write")
    /\ UNCHANGED <<runs, run, script, cut, met>>

\* open("x") fails when another run has been faster; only the .env of the PKI
\* takes that for "it exists".  The others are opened to be overwritten.
OpenFor(p) ==
    /\ mode[p] = "open"
    /\ IF Current(p) \in Exclusive /\ disk[Current(p)] # Absent
         THEN /\ IF Current(p) = "pki.env" THEN Kept(p) ELSE Goes(p, "failed")
              /\ UNCHANGED disk
         ELSE disk' = [disk EXCEPT ![Current(p)] = Blank] /\ Goes(p, "write")
    /\ UNCHANGED <<runs, run, script, cut, met>>

Write(p) ==
    /\ mode[p] = "write"
    /\ disk' = [disk EXCEPT ![Current(p)] = run[p]]
    /\ cut' = cut \ {Current(p)}
    /\ Advance(p, 1)
    /\ UNCHANGED <<runs, run, script, met>>

\* The process is stopped, or a write fails.
Halt(p) ==
    /\ Busy(p)
    /\ cut' = cut \cup Owed(p)
    /\ Goes(p, "failed")
    /\ UNCHANGED <<disk, runs, run, script, met>>

ProvNext ==
    \E p \in Runner : \/ \E s \in DOMAIN Script : Launch(p, s)
                      \/ Look(p) \/ OpenFor(p) \/ Write(p) \/ Halt(p)

ProvSpec == ProvInit /\ [][ProvNext]_provVars

-----------------------------------------------------------------------------
ProvTypeOK ==
    /\ disk \in [File -> Blank..MaxRuns]
    /\ runs \in 0..MaxRuns /\ run \in [Runner -> 0..MaxRuns]
    /\ script \in [Runner -> DOMAIN Script]
    /\ at \in [Runner -> Int] /\ \A p \in Runner : at[p] \in 1..Len(Script[script[p]])
    /\ mode \in [Runner -> {"look", "open", "write", "ok", "failed"}]
    /\ cut \subseteq File /\ met \subseteq SUBSET (1..MaxRuns)

\* A credential or key that has been written is never written again, whichever
\* scripts run at the same time, stop or are repeated; only the TLS files are
\* renewed (08 README.md:12, 05 init_env.py:1, pki.py:28).
SecretsKept ==
    [][\A f \in File \ {"tls.key", "tls.pem", "tls.ca"} : Full(f) => disk'[f] = disk[f]]_provVars

\* The password on disk is the one whose hash the provider checks, and the CA's
\* certificate belongs to its key: no two runs have each written one half.
PairsBelong ==
    \A f \in {"idp.env", "ca.key"} : Full(Second[f]) => disk[Second[f]] = disk[f]

\* The halves of a pair are of one run, or were left by two TLS set-ups that were
\* at work at the same time.
Matched(f) ==
    disk[Second[f]] = disk[f] \/ (f = "tls.key" /\ {disk[f], disk[Second[f]]} \in met)

\* When a script has ended well, all its files are there and its pairs are matched,
\* but for what an earlier script, stopped on its way, left unwritten (init_env.py
\* of 08 then reports a password file that is not there), and for what another is
\* writing right now (init_labs.py:10-21, tls_setup.py:37-42).
OnlyCutShort ==
    \A p \in Runner : (mode[p] = "ok" /\ run[p] > 0) =>
        LET files   == {Script[script[p]][k] : k \in DOMAIN Script[script[p]]}
            excused == cut \cup UNION {Owed(q) : q \in Runner}
        IN \A f \in files \ excused :
             /\ Full(f)
             /\ (f \in DOMAIN Second /\ Second[f] \notin excused) => Matched(f)

=============================================================================
