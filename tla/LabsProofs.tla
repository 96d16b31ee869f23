----------------------------- MODULE LabsProofs ----------------------------
(***************************************************************************)
(* The labs that run on their own, for any instance of each: how the       *)
(* identity provider is provisioned, the VPN containers, the set-up of the *)
(* SIEM, the network scanner and the secret scanner.  One part for each,   *)
(* none of which uses another's, and the labs side by side.                *)
(***************************************************************************)
EXTENDS Labs, FiniteSetTheorems, SequenceTheorems, WellFoundedInduction, TLAPS

---------------------------------------------------------------------------
(*************************************************************************)
(* Provisioning, for any number of processes and runs: secrets are kept, *)
(* pairs belong together, and a script that ends well lacks only what    *)
(* another was stopped at, or is writing.                                *)
(*************************************************************************)

Halves == {"idp.password", "ca.pem", "tls.pem"}

\* Run numbers belong to one process, and nothing on disk is of a later run.
Numbered ==
    /\ \A p \in Runner : run[p] <= runs /\ (Busy(p) => run[p] > 0)
    /\ \A p, q \in Runner : run[p] = run[q] /\ p # q => run[p] = 0
    /\ \A f \in File : disk[f] <= runs

\* A file opened with "x" is empty until its only writer writes it.
OneWriter ==
    /\ \A p \in Runner : mode[p] = "write" /\ Current(p) \in Exclusive => disk[Current(p)] = Blank
    /\ \A p, q \in Runner :
          mode[p] = "write" /\ mode[q] = "write" /\ Current(p) = Current(q) /\ Current(p) \in Exclusive
             => p = q

\* TLS set-ups that are at work have met.
Meeting == \A p, q \in Runner : p # q /\ AtTls(p) /\ AtTls(q) => {run[p], run[q]} \in met

\* Who is at the second file of a pair has written the first.  Its place may have been
\* taken since by the first file of a TLS set-up that it has met.
InHalf ==
    \A p \in Runner, f \in DOMAIN Second \ {"tls.key"} :
        Busy(p) /\ Current(p) = Second[f] => disk[f] = run[p] /\ ~Full(Second[f])
InTlsHalf ==
    \A p \in Runner : Busy(p) /\ Current(p) = "tls.pem" =>
        disk["tls.key"] \in {run[p], Blank} \/ {disk["tls.key"], run[p]} \in met

Excused == cut \cup UNION {Owed(q) : q \in Runner}

\* The second half of f is excused, or it is there and matches f, which may be under
\* renewal.
Half(f) ==
    \/ Second[f] \in Excused
    \/ disk[Second[f]] # Absent /\ ((Full(f) /\ Matched(f)) \/ (f = "tls.key" /\ f \in Excused))

\* Empty files and missing second halves have an excuse.
Explained ==
    /\ \A f \in File : disk[f] = Blank => f \in Excused
    /\ \A f \in DOMAIN Second : disk[f] # Absent => Half(f)

Settled(f) == f \in Excused \/ disk[f] # Absent

\* What a script has passed is settled.
Walked ==
    \A p \in Runner : run[p] > 0 /\ mode[p] # "failed" =>
        \A k \in 1..Len(Script[script[p]]) :
            k < at[p] \/ mode[p] = "ok" => Settled(Script[script[p]][k])

Inv1 == ProvTypeOK /\ Numbered /\ OneWriter /\ Meeting /\ InHalf /\ InTlsHalf /\ PairsBelong
Inv2 == Explained /\ Walked

-----------------------------------------------------------------------------
\* The scripts: a second half follows its first half and nothing else.
LEMMA Pairs ==
    /\ DOMAIN Second = {"idp.env", "ca.key", "tls.key"}
    /\ Second["idp.env"] = "idp.password" /\ Second["ca.key"] = "ca.pem"
    /\ Second["tls.key"] = "tls.pem"
BY DEF Second

\* Every position of a script is a file, and pairs stand side by side.
LEMMA Scripts ==
    /\ DOMAIN Script = {"labs", "pki", "tls"}
    /\ \A s \in DOMAIN Script :
         /\ Len(Script[s]) \in Nat \ {0}
         /\ DOMAIN Script[s] = 1..Len(Script[s])
         /\ \A k \in 1..Len(Script[s]) :
              /\ Script[s][k] \in File
              /\ Script[s][k] \in {"tls.key", "tls.pem", "tls.ca"} => s = "tls"
              /\ Script[s][k] \in DOMAIN Second =>
                    k + 1 <= Len(Script[s]) /\ Script[s][k + 1] = Second[Script[s][k]]
              /\ Script[s][k] \in Halves =>
                    k > 1 /\ Script[s][k - 1] \in DOMAIN Second
                          /\ Script[s][k] = Second[Script[s][k - 1]]
<1>1. DOMAIN Script = {"labs", "pki", "tls"}
  BY DEF Script
<1>2. Script["labs"] = <<"siem.env", "pki.env", "idp.key", "idp.env", "idp.password", "soar.env">>
      /\ Script["pki"] = <<"ca.key", "ca.pem">>
      /\ Script["tls"] = <<"ca.key", "ca.pem", "tls.key", "tls.pem", "tls.ca">>
  BY DEF Script
<1>3. Len(Script["labs"]) = 6 /\ Len(Script["pki"]) = 2 /\ Len(Script["tls"]) = 5
  BY <1>2
<1>4. DOMAIN Script["labs"] = 1..6 /\ DOMAIN Script["pki"] = 1..2 /\ DOMAIN Script["tls"] = 1..5
  BY <1>2
<1>5. \A k \in 1..6 :
        /\ Script["labs"][k] \in File /\ Script["labs"][k] \notin {"tls.key", "tls.pem", "tls.ca"}
        /\ Script["labs"][k] \in DOMAIN Second =>
              k + 1 <= 6 /\ Script["labs"][k + 1] = Second[Script["labs"][k]]
        /\ Script["labs"][k] \in Halves =>
              k > 1 /\ Script["labs"][k - 1] \in DOMAIN Second
                    /\ Script["labs"][k] = Second[Script["labs"][k - 1]]
  BY <1>2, Pairs DEF File, Halves
<1>6. \A k \in 1..2 :
        /\ Script["pki"][k] \in File /\ Script["pki"][k] \notin {"tls.key", "tls.pem", "tls.ca"}
        /\ Script["pki"][k] \in DOMAIN Second =>
              k + 1 <= 2 /\ Script["pki"][k + 1] = Second[Script["pki"][k]]
        /\ Script["pki"][k] \in Halves =>
              k > 1 /\ Script["pki"][k - 1] \in DOMAIN Second
                    /\ Script["pki"][k] = Second[Script["pki"][k - 1]]
  BY <1>2, Pairs DEF File, Halves
<1>7. \A k \in 1..5 :
        /\ Script["tls"][k] \in File
        /\ Script["tls"][k] \in DOMAIN Second =>
              k + 1 <= 5 /\ Script["tls"][k + 1] = Second[Script["tls"][k]]
        /\ Script["tls"][k] \in Halves =>
              k > 1 /\ Script["tls"][k - 1] \in DOMAIN Second
                    /\ Script["tls"][k] = Second[Script["tls"][k - 1]]
  BY <1>2, Pairs DEF File, Halves
<1> SUFFICES ASSUME NEW s \in DOMAIN Script
             PROVE  /\ Len(Script[s]) \in Nat \ {0}
                    /\ DOMAIN Script[s] = 1..Len(Script[s])
                    /\ \A k \in 1..Len(Script[s]) :
                         /\ Script[s][k] \in File
                         /\ Script[s][k] \in {"tls.key", "tls.pem", "tls.ca"} => s = "tls"
                         /\ Script[s][k] \in DOMAIN Second =>
                               k + 1 <= Len(Script[s]) /\ Script[s][k + 1] = Second[Script[s][k]]
                         /\ Script[s][k] \in Halves =>
                               k > 1 /\ Script[s][k - 1] \in DOMAIN Second
                                     /\ Script[s][k] = Second[Script[s][k - 1]]
  BY <1>1
<1>8. CASE s = "labs"
  BY SMTT(30), <1>3, <1>4, <1>5, <1>8
<1>9. CASE s = "pki"
  BY SMTT(30), <1>3, <1>4, <1>6, <1>9
<1>10. CASE s = "tls"
  BY SMTT(30), <1>3, <1>4, <1>7, <1>10
<1> QED BY <1>1, <1>8, <1>9, <1>10

\* What is owed, without the conditionals.
LEMMA OwedBy ==
    ASSUME NEW p, NEW f
    PROVE  f \in Owed(p) <=>
             /\ Busy(p)
             /\ \/ f = Current(p) /\ (mode[p] = "write" \/ f \in Halves)
                \/ mode[p] = "write" /\ Current(p) \in DOMAIN Second /\ f = Second[Current(p)]
BY Pairs DEF Owed, Halves

\* A step of a process that is already running.
Moves(p) == Look(p) \/ OpenFor(p) \/ Write(p) \/ Halt(p)

\* The position of a busy process is a file of its script.
LEMMA Here ==
    ASSUME ProvTypeOK, NEW p \in Runner
    PROVE  /\ Current(p) \in File
           /\ Current(p) \in {"tls.key", "tls.pem", "tls.ca"} => script[p] = "tls"
           /\ Current(p) \in DOMAIN Second =>
                 at[p] + 1 <= Len(Script[script[p]])
                 /\ Script[script[p]][at[p] + 1] = Second[Current(p)]
           /\ at[p] \in Int /\ Len(Script[script[p]]) \in Int
<1>1. script[p] \in DOMAIN Script /\ at[p] \in 1..Len(Script[script[p]]) /\ at[p] \in Int
  BY DEF ProvTypeOK
<1>2. Len(Script[script[p]]) \in Nat
  BY <1>1, Scripts
<1>3. \A k \in 1..Len(Script[script[p]]) :
        /\ Script[script[p]][k] \in File
        /\ Script[script[p]][k] \in {"tls.key", "tls.pem", "tls.ca"} => script[p] = "tls"
        /\ Script[script[p]][k] \in DOMAIN Second =>
              k + 1 <= Len(Script[script[p]])
              /\ Script[script[p]][k + 1] = Second[Script[script[p]][k]]
  BY <1>1, Scripts, Zenon
<1> QED BY <1>1, <1>2, <1>3 DEF Current

\* Where Advance(p, n) leads, if p may go n files further.
LEMMA Further ==
    ASSUME ProvTypeOK, NEW p \in Runner, NEW n \in {1, 2}, Advance(p, n), UNCHANGED script
    PROVE  /\ at' \in [Runner -> Int] /\ at'[p] \in 1..Len(Script[script[p]])
           /\ mode' \in [Runner -> {"look", "open", "write", "ok", "failed"}]
           /\ \A q \in Runner : q # p => at'[q] = at[q] /\ mode'[q] = mode[q]
           /\ \/ mode'[p] = "ok" /\ at'[p] = at[p] /\ at[p] + n > Len(Script[script[p]])
              \/ mode'[p] = "look" /\ at'[p] = at[p] + n
                   /\ Current(p)' = Script[script[p]][at[p] + n]
<1>1. script[p] \in DOMAIN Script /\ at[p] \in 1..Len(Script[script[p]])
      /\ at \in [Runner -> Int] /\ mode \in [Runner -> {"look", "open", "write", "ok", "failed"}]
  BY DEF ProvTypeOK
<1>2. Len(Script[script[p]]) \in Nat
  BY <1>1, Scripts
<1>3. CASE at[p] + n > Len(Script[script[p]])
  BY <1>1, <1>2, <1>3 DEF Advance
<1>4. CASE ~(at[p] + n > Len(Script[script[p]]))
  BY SMTT(30), <1>1, <1>2, <1>4 DEF Advance, Current
<1> QED BY <1>3, <1>4

\* A process that moves leaves the others where they are.
LEMMA Others ==
    ASSUME ProvTypeOK, NEW p \in Runner, Moves(p)
    PROVE  /\ UNCHANGED <<runs, run, script, met>>
           /\ \A q \in Runner : q # p =>
                 /\ at'[q] = at[q] /\ mode'[q] = mode[q]
                 /\ Busy(q)' = Busy(q) /\ Current(q)' = Current(q) /\ Owed(q)' = Owed(q)
<1>1. UNCHANGED <<runs, run, script, met>>
  BY DEF Moves, Look, OpenFor, Write, Halt
<1>2. \A q \in Runner : q # p => at'[q] = at[q] /\ mode'[q] = mode[q]
  <2> USE DEF ProvTypeOK
  <2>1. \A m : Goes(p, m) => \A q \in Runner : q # p => at'[q] = at[q] /\ mode'[q] = mode[q]
    BY DEF Goes
  <2>2. \A n : Advance(p, n) => \A q \in Runner : q # p => at'[q] = at[q] /\ mode'[q] = mode[q]
    BY DEF Advance
  <2>3. (\E m : Goes(p, m)) \/ (\E n : Advance(p, n))
    BY DEF Moves, Look, OpenFor, Write, Halt, Kept
  <2> QED BY <2>1, <2>2, <2>3
<1>3. \A q \in Runner : q # p => Busy(q)' = Busy(q) /\ Current(q)' = Current(q)
  BY <1>1, <1>2 DEF Busy, Current
<1>4. \A q \in Runner : q # p => Owed(q)' = Owed(q)
  BY <1>1, <1>2, <1>3 DEF Owed
<1> QED BY <1>1, <1>2, <1>3, <1>4

\* Three ways to move, besides Halt: a file is looked at, opened or written.
Quiet(p) ==
    /\ UNCHANGED <<disk, cut>>
    /\ mode[p] \in {"look", "open"} /\ mode'[p] # "write"
    /\ Current(p) \in Halves => Busy(p)' /\ Current(p)' = Current(p)
    /\ Busy(p)' /\ Current(p)' \in Halves => Current(p)' = Current(p)

Opens(p) ==
    /\ disk' = [disk EXCEPT ![Current(p)] = Blank] /\ UNCHANGED cut
    /\ mode[p] = "open" /\ mode'[p] = "write"
    /\ Current(p)' = Current(p) /\ UNCHANGED at
    /\ Current(p) \in Exclusive => disk[Current(p)] = Absent

WritesTo(p) ==
    /\ disk' = [disk EXCEPT ![Current(p)] = run[p]] /\ cut' = cut \ {Current(p)}
    /\ mode[p] = "write" /\ mode'[p] \in {"look", "ok"}
    /\ Current(p) \in DOMAIN Second => Busy(p)' /\ Current(p)' = Second[Current(p)]
    /\ Busy(p)' /\ Current(p)' \in Halves =>
          Current(p) \in DOMAIN Second /\ Current(p)' = Second[Current(p)]

\* A file that is kept, and with it a pair, leads to a first half or to no half.
LEMMA KeptLeads ==
    ASSUME ProvTypeOK, NEW p \in Runner, Kept(p), UNCHANGED script
    PROVE  /\ mode'[p] \in {"look", "ok"}
           /\ mode'[p] = "look" => Current(p)' \notin Halves
<1> DEFINE n == IF Current(p) \in DOMAIN Second THEN 2 ELSE 1
           w == Script[script[p]]
<1>1. n \in {1, 2} /\ Advance(p, n)
  BY DEF Kept
<1>2. \/ mode'[p] = "ok"
      \/ mode'[p] = "look" /\ at'[p] = at[p] + n /\ Current(p)' = w[at[p] + n]
           /\ at[p] + n \in 1..Len(w)
  <2> HIDE DEF n
  <2> QED BY <1>1, Further
<1>3. ASSUME w[at[p] + n] \in Halves, at[p] + n \in 1..Len(w) PROVE FALSE
  <2>1. script[p] \in DOMAIN Script /\ at[p] \in Int
    BY DEF ProvTypeOK
  <2>2. w[at[p] + n - 1] \in DOMAIN Second
    <3>1. \A k \in 1..Len(w) : w[k] \in Halves => w[k - 1] \in DOMAIN Second
      BY <2>1, Scripts, Zenon
    <3> HIDE DEF n, w
    <3> QED BY <1>1, <1>3, <2>1, <3>1
  <2>3. CASE Current(p) \in DOMAIN Second
    <3>1. w[at[p] + 1] = Second[Current(p)] /\ at[p] + n - 1 = at[p] + 1
      BY <2>1, <2>3, Here
    <3> QED BY <2>2, <2>3, <3>1, Pairs
  <2>4. CASE Current(p) \notin DOMAIN Second
    <3>1. at[p] + n - 1 = at[p]
      BY <2>1, <2>4
    <3> QED BY <2>2, <2>4, <3>1 DEF Current
  <2> QED BY <2>3, <2>4
<1> QED BY <1>2, <1>3

\* Leaving a file as it is, and going on, is quiet.
LEMMA QuietKept ==
    ASSUME ProvTypeOK, NEW p \in Runner, Kept(p), UNCHANGED <<disk, cut, script>>,
           mode[p] \in {"look", "open"}, Current(p) \notin Halves
    PROVE  Quiet(p)
BY KeptLeads DEF Quiet, Busy

\* So is going to the open or to the end.
LEMMA QuietGoes ==
    ASSUME ProvTypeOK, NEW p \in Runner, NEW m \in {"open", "failed"}, Goes(p, m),
           UNCHANGED <<disk, cut, script>>,
           mode[p] \in {"look", "open"}, Current(p) \in Halves => m = "open"
    PROVE  Quiet(p)
BY DEF ProvTypeOK, Goes, Quiet, Busy, Current

\* What Tested and Exclusive contain.
LEMMA ProvKinds ==
    /\ Tested \cap Halves = {} /\ Exclusive \cap Halves = {}
    /\ "ca.key" \notin Halves /\ "pki.env" \notin Halves
    /\ File \ {"tls.key", "tls.pem", "tls.ca"} \subseteq Exclusive \cup Halves
    /\ "idp.env" \in Exclusive /\ "ca.key" \in Exclusive
    /\ "idp.env" \in Tested /\ Tested \subseteq Exclusive
BY DEF Tested, Exclusive, Halves, File

\* The three kinds of steps: to look changes nothing on disk,
LEMMA LookKind ==
    ASSUME ProvTypeOK, NEW p \in Runner, Look(p) PROVE Quiet(p)
<1>1. mode[p] = "look" /\ UNCHANGED <<disk, cut, script>>
  BY DEF Look
<1>2. CASE Current(p) \in Tested
  <2>1. Current(p) # "ca.key"
    BY <1>2 DEF Tested
  <2>2. Goes(p, "open") \/ Kept(p)
    BY <1>2, <2>1 DEF Look
  <2> QED BY <1>1, <1>2, <2>2, QuietKept, QuietGoes, ProvKinds
<1>3. CASE Current(p) = "ca.key"
  <2>1. Goes(p, "open") \/ Kept(p) \/ Goes(p, "failed")
    BY <1>3 DEF Look, Tested
  <2> QED BY <1>1, <1>3, <2>1, QuietKept, QuietGoes, ProvKinds
<1>4. CASE Current(p) \notin Tested /\ Current(p) # "ca.key"
  <2>1. Goes(p, "open")
    BY <1>4 DEF Look
  <2> QED BY <1>1, <2>1, QuietGoes
<1> QED BY <1>2, <1>3, <1>4

\* to open leaves the file empty or changes nothing,
LEMMA OpenKind ==
    ASSUME ProvTypeOK, NEW p \in Runner, OpenFor(p) PROVE Quiet(p) \/ Opens(p)
<1>1. mode[p] = "open" /\ UNCHANGED <<cut, script>>
  BY DEF OpenFor
<1>2. CASE Current(p) \in Exclusive /\ disk[Current(p)] # Absent
  <2>1. (Kept(p) \/ Goes(p, "failed")) /\ UNCHANGED disk
    BY <1>2 DEF OpenFor
  <2> QED BY <1>1, <1>2, <2>1, QuietKept, QuietGoes, ProvKinds
<1>3. CASE ~(Current(p) \in Exclusive /\ disk[Current(p)] # Absent)
  BY <1>1, <1>3 DEF OpenFor, Opens, Goes, Current, ProvTypeOK
<1> QED BY <1>2, <1>3

\* to write fills it with the number of the run.
LEMMA WriteKind ==
    ASSUME ProvTypeOK, NEW p \in Runner, Write(p) PROVE WritesTo(p)
<1> DEFINE w == Script[script[p]]
<1>1. /\ disk' = [disk EXCEPT ![Current(p)] = run[p]] /\ cut' = cut \ {Current(p)}
      /\ mode[p] = "write" /\ Advance(p, 1) /\ UNCHANGED script
  BY DEF Write
<1>2. \/ mode'[p] = "ok" /\ at[p] + 1 > Len(w)
      \/ mode'[p] = "look" /\ at'[p] = at[p] + 1 /\ Current(p)' = w[at[p] + 1]
           /\ at[p] + 1 \in 1..Len(w)
  BY <1>1, Further
<1>3. Current(p) \in DOMAIN Second =>
          at[p] + 1 <= Len(w) /\ w[at[p] + 1] = Second[Current(p)]
  BY Here
<1>4. ASSUME at[p] + 1 \in 1..Len(w), w[at[p] + 1] \in Halves
      PROVE  Current(p) \in DOMAIN Second
  <2>1. script[p] \in DOMAIN Script /\ at[p] \in Int
    BY DEF ProvTypeOK
  <2>2. w[at[p] + 1 - 1] \in DOMAIN Second
    BY <1>4, <2>1, Scripts
  <2> QED BY <2>1, <2>2 DEF Current
<1>5. at[p] + 1 > Len(w) => ~(at[p] + 1 <= Len(w))
  BY Here
<1> QED BY <1>1, <1>2, <1>3, <1>4, <1>5 DEF WritesTo, Busy

-----------------------------------------------------------------------------
\* Every variable keeps its type.
LEMMA OwedType == ASSUME ProvTypeOK, NEW p \in Runner PROVE Owed(p) \subseteq File
BY Here, OwedBy, Pairs DEF Halves, File

\* Every variable keeps its type.
LEMMA ProvTypeStep == ProvTypeOK /\ Numbered /\ [ProvNext]_provVars => ProvTypeOK'
<1> SUFFICES ASSUME ProvTypeOK, Numbered, [ProvNext]_provVars PROVE ProvTypeOK'
  OBVIOUS
<1>1. ASSUME NEW p \in Runner, NEW s \in DOMAIN Script, Launch(p, s) PROVE ProvTypeOK'
  <2>1. runs' \in 0..MaxRuns /\ run' \in [Runner -> 0..MaxRuns]
    BY <1>1, ProvisioningAssumption DEF ProvTypeOK, Launch
  <2>2. Len(Script[s]) \in Nat \ {0}
    BY Scripts
  <2>3. met' \subseteq SUBSET (1..MaxRuns)
    <3>1. met' = met \cup {{runs', run[q]} : q \in {o \in Runner : s = "tls" /\ AtTls(o)}}
      BY <1>1 DEF Launch
    <3>2. runs' \in 1..MaxRuns
      BY <1>1, ProvisioningAssumption DEF ProvTypeOK, Launch
    <3>3. ASSUME NEW q \in Runner, AtTls(q) PROVE run[q] \in 1..MaxRuns
      <4>1. run[q] \in 0..MaxRuns
        BY DEF ProvTypeOK
      <4>2. run[q] > 0
        BY <3>3 DEF Numbered, AtTls
      <4> QED BY <4>1, <4>2, ProvisioningAssumption
    <3>4. ASSUME NEW m \in met' PROVE m \in SUBSET (1..MaxRuns)
      <4>1. CASE m \in met
        BY <4>1 DEF ProvTypeOK
      <4>2. CASE m \notin met
        <5>1. PICK q \in Runner : AtTls(q) /\ m = {runs', run[q]}
          BY <3>1, <3>4, <4>2
        <5>2. \A a \in m : a = runs' \/ a = run[q]
          BY <5>1
        <5> QED BY <3>2, <3>3, <5>1, <5>2
      <4> QED BY <4>1, <4>2
    <3> QED BY <3>4
  <2>4. script' \in [Runner -> DOMAIN Script] /\ at' \in [Runner -> Int]
        /\ mode' \in [Runner -> {"look", "open", "write", "ok", "failed"}]
        /\ \A q \in Runner : at'[q] \in 1..Len(Script[script'[q]])
    BY <1>1, <2>2 DEF ProvTypeOK, Launch
  <2>5. disk' \in [File -> Blank..MaxRuns] /\ cut' \subseteq File
    BY <1>1 DEF ProvTypeOK, Launch
  <2> QED BY <2>1, <2>3, <2>4, <2>5 DEF ProvTypeOK
<1>2. ASSUME NEW p \in Runner, Moves(p) PROVE ProvTypeOK'
  <2>1. /\ at' \in [Runner -> Int] /\ at'[p] \in 1..Len(Script[script[p]])
        /\ mode' \in [Runner -> {"look", "open", "write", "ok", "failed"}]
    <3>1. ASSUME NEW m \in {"look", "open", "write", "ok", "failed"}, Goes(p, m)
          PROVE  /\ at' \in [Runner -> Int] /\ at'[p] \in 1..Len(Script[script[p]])
                 /\ mode' \in [Runner -> {"look", "open", "write", "ok", "failed"}]
      BY <3>1 DEF ProvTypeOK, Goes
    <3>2. UNCHANGED script
      BY <1>2, Others
    <3>3. \/ \E m \in {"look", "open", "write", "ok", "failed"} : Goes(p, m)
          \/ \E n \in {1, 2} : Advance(p, n)
      BY <1>2 DEF Moves, Look, OpenFor, Write, Halt, Kept
    <3> QED BY <3>1, <3>2, <3>3, Further
  <2>2. disk' \in [File -> Blank..MaxRuns]
    <3>1. Blank \in Blank..MaxRuns /\ run[p] \in Blank..MaxRuns
      BY ProvisioningAssumption DEF ProvTypeOK, Blank
    <3>2. disk' = disk \/ disk' = [disk EXCEPT ![Current(p)] = Blank]
            \/ disk' = [disk EXCEPT ![Current(p)] = run[p]]
      BY <1>2, LookKind, OpenKind, WriteKind DEF Moves, Quiet, Opens, WritesTo, Halt
    <3> QED BY <3>1, <3>2 DEF ProvTypeOK
  <2>3. cut' \subseteq File
    BY <1>2, OwedType, LookKind, OpenKind, WriteKind
      DEF ProvTypeOK, Moves, Quiet, Opens, WritesTo, Halt
  <2> QED BY <1>2, <2>1, <2>2, <2>3, Others DEF ProvTypeOK
<1>3. CASE UNCHANGED provVars
  BY <1>3 DEF ProvTypeOK, provVars, process
<1> QED BY <1>1, <1>2, <1>3 DEF ProvNext, Moves

\* The invariants of the files and their writers, for each kind of step.
LEMMA QuietKeeps ==
    ASSUME Inv1, ProvTypeOK', NEW p \in Runner, Moves(p), Quiet(p) PROVE Inv1'
<1> USE DEF Inv1
<1>1. Numbered'
  BY Others DEF Numbered, Quiet, Busy
<1>2. OneWriter'
  BY Others DEF OneWriter, Quiet
<1>3. Meeting'
  BY Others DEF Meeting, Quiet, AtTls, Busy
<1>4. ASSUME NEW q \in Runner, NEW f \in DOMAIN Second, Busy(q)', Current(q)' = Second[f]
      PROVE  Busy(q) /\ Current(q) = Second[f]
  <2>1. Second[f] \in Halves
    BY Pairs DEF Halves
  <2> QED BY <1>4, <2>1, Others DEF Quiet, Busy
<1>5. InHalf'
  BY <1>4, Others DEF InHalf, Quiet, Full
<1>6. InTlsHalf'
  BY <1>4, Others, Pairs DEF InTlsHalf, Quiet
<1>7. PairsBelong'
  BY DEF PairsBelong, Quiet, Full
<1> QED BY <1>1, <1>2, <1>3, <1>5, <1>6, <1>7

\* Opening a file keeps the safety half of the invariant,
LEMMA OpensKeeps ==
    ASSUME Inv1, ProvTypeOK', NEW p \in Runner, Moves(p), Opens(p) PROVE Inv1'
<1> USE DEF Inv1
<1>0. Current(p) \in File /\ disk \in [File -> Blank..MaxRuns] /\ runs \in Nat
  BY Here, ProvisioningAssumption DEF ProvTypeOK
<1>1. Numbered'
  BY <1>0, Others DEF Numbered, Opens, Busy, Blank
<1>2. OneWriter'
  <2>1. \A q \in Runner \ {p} :
           mode[q] = "write" /\ Current(q) \in Exclusive => Current(q) # Current(p)
    BY DEF OneWriter, Opens, Blank, Absent
  <2>2. \A q \in Runner \ {p} : mode'[q] = mode[q] /\ Current(q)' = Current(q)
    BY Others
  <2>3. \A q \in Runner : mode'[q] = "write" /\ Current(q)' \in Exclusive => disk'[Current(q)'] = Blank
    <3> SUFFICES ASSUME NEW q \in Runner, mode'[q] = "write", Current(q)' \in Exclusive
                 PROVE  disk'[Current(q)'] = Blank
      OBVIOUS
    <3>1. CASE q = p
      BY <1>0, <3>1 DEF Opens
    <3>2. CASE q # p
      BY <1>0, <2>1, <2>2, <3>2 DEF OneWriter, Opens
    <3> QED BY <3>1, <3>2
  <2>4. \A q, r \in Runner :
           mode'[q] = "write" /\ mode'[r] = "write" /\ Current(q)' = Current(r)'
             /\ Current(q)' \in Exclusive => q = r
    BY <2>1, <2>2 DEF OneWriter, Opens
  <2> QED BY <2>3, <2>4 DEF OneWriter
<1>3. Meeting'
  BY Others DEF Meeting, Opens, AtTls, Busy
<1>4. InHalf'
  <2> SUFFICES ASSUME NEW q \in Runner, NEW f \in DOMAIN Second \ {"tls.key"},
                      Busy(q)', Current(q)' = Second[f]
               PROVE  disk'[f] = run'[q] /\ ~Full(Second[f])'
    BY DEF InHalf
  <2>1. Busy(q) /\ Current(q) = Second[f]
    BY Others DEF Opens, Busy
  <2>2. disk[f] = run[q] /\ run[q] > 0 /\ ~Full(Second[f])
    BY <2>1 DEF InHalf, Numbered
  <2>3. Current(p) # f
    BY <2>2, Pairs, ProvKinds DEF Opens, Absent
  <2> QED BY <1>0, <2>2, <2>3, Others, Pairs DEF Opens, Full, Blank, File
<1>5. InTlsHalf'
  <2> SUFFICES ASSUME NEW q \in Runner, Busy(q)', Current(q)' = "tls.pem"
               PROVE  disk'["tls.key"] \in {run'[q], Blank} \/ {disk'["tls.key"], run'[q]} \in met'
    BY DEF InTlsHalf
  <2>1. Busy(q) /\ Current(q) = "tls.pem"
    BY Others DEF Opens, Busy
  <2>2. "tls.key" \in File
    BY DEF File
  <2>3. CASE Current(p) = "tls.key"
    BY <1>0, <2>2, <2>3 DEF Opens
  <2>4. CASE Current(p) # "tls.key"
    BY <1>0, <2>1, <2>2, <2>4, Others DEF Opens, InTlsHalf
  <2> QED BY <2>3, <2>4
<1>6. PairsBelong'
  BY <1>0, Pairs, ProvKinds DEF PairsBelong, Opens, Full, Blank, Absent, File
<1> QED BY <1>1, <1>2, <1>3, <1>4, <1>5, <1>6

\* and so does writing it,
LEMMA WritesKeeps ==
    ASSUME Inv1, ProvTypeOK', NEW p \in Runner, Moves(p), WritesTo(p) PROVE Inv1'
<1> USE DEF Inv1
<1>0. Current(p) \in File /\ disk \in [File -> Blank..MaxRuns] /\ run[p] \in Nat /\ runs \in Nat
  BY Here, ProvisioningAssumption DEF ProvTypeOK
<1>1. run[p] > 0
  BY DEF Numbered, WritesTo, Busy
<1>2. Numbered'
  BY <1>0, Others DEF Numbered, WritesTo, Busy
<1>3. OneWriter'
  <2>1. \A q \in Runner \ {p} :
           mode[q] = "write" /\ Current(q) \in Exclusive => Current(q) # Current(p)
    BY DEF OneWriter, WritesTo
  <2>2. \A q \in Runner \ {p} : mode'[q] = mode[q] /\ Current(q)' = Current(q)
    BY Others
  <2>3. mode'[p] # "write"
    BY DEF WritesTo
  <2> QED BY <1>0, <2>1, <2>2, <2>3 DEF OneWriter, WritesTo
<1>4. Meeting'
  BY Others DEF Meeting, WritesTo, AtTls, Busy
<1>5. \A f \in DOMAIN Second : Second[f] \in File /\ Second[f] # f /\ f \in File
  BY Pairs DEF File
\* The second half of what p writes is not there, unless it renews TLS.
<1>6. ASSUME NEW f \in DOMAIN Second, f # "tls.key", Current(p) = f PROVE ~Full(Second[f])
  <2>1. disk[f] = Blank
    BY <1>6, Pairs, ProvKinds DEF OneWriter, WritesTo
  <2> QED BY <1>6, <2>1, Pairs DEF PairsBelong, Full, Blank
<1>7. InHalf'
  <2> SUFFICES ASSUME NEW q \in Runner, NEW f \in DOMAIN Second \ {"tls.key"},
                      Busy(q)', Current(q)' = Second[f]
               PROVE  disk'[f] = run'[q] /\ ~Full(Second[f])'
    BY DEF InHalf
  <2>1. CASE q = p
    <3>1. Current(p) \in DOMAIN Second /\ Second[f] = Second[Current(p)]
      BY <2>1, Pairs DEF WritesTo, Halves
    <3>2. Current(p) = f
      BY <3>1, Pairs
    <3>3. disk'[f] = run'[p] /\ disk'[Second[f]] = disk[Second[f]]
      BY <1>0, <1>5, <3>2, Others DEF WritesTo
    <3> QED BY <1>6, <2>1, <3>2, <3>3 DEF Full
  <2>2. CASE q # p
    <3>1. Busy(q) /\ Current(q) = Second[f]
      BY <2>2, Others
    <3>2. disk[f] = run[q] /\ run[q] > 0 /\ ~Full(Second[f])
      BY <3>1 DEF InHalf, Numbered
    <3>3. Current(p) # f
      BY <3>2, Pairs, ProvKinds DEF OneWriter, WritesTo, Blank
    <3>4. Current(p) # Second[f]
      BY <2>2, <3>2 DEF InHalf, Numbered, WritesTo, Busy
    <3> QED BY <1>0, <1>5, <3>2, <3>3, <3>4, Others DEF WritesTo, Full
  <2> QED BY <2>1, <2>2
<1>8. PairsBelong'
  <2> SUFFICES ASSUME NEW f \in {"idp.env", "ca.key"}, Full(Second[f])'
               PROVE  disk'[Second[f]] = disk'[f]
    BY DEF PairsBelong
  <2>1. f \in DOMAIN Second /\ f # "tls.key"
    BY Pairs
  <2>2. CASE Current(p) = f
    BY <1>0, <1>5, <1>6, <2>1, <2>2 DEF WritesTo, Full
  <2>3. CASE Current(p) = Second[f]
    BY <1>0, <1>5, <2>1, <2>3 DEF InHalf, WritesTo, Busy
  <2>4. CASE Current(p) # f /\ Current(p) # Second[f]
    BY <1>0, <1>5, <2>1, <2>4 DEF PairsBelong, WritesTo, Full
  <2> QED BY <2>2, <2>3, <2>4
<1>9. InTlsHalf'
  <2> SUFFICES ASSUME NEW q \in Runner, Busy(q)', Current(q)' = "tls.pem"
               PROVE  disk'["tls.key"] = run'[q] \/ disk'["tls.key"] = Blank
                        \/ {disk'["tls.key"], run'[q]} \in met'
    BY DEF InTlsHalf
  <2>0. "tls.key" \in File /\ "tls.pem" \in Halves /\ Second["tls.key"] = "tls.pem"
    BY Pairs DEF File, Halves
  <2>1. CASE q = p
    <3>1. Current(p) = "tls.key"
      BY <2>0, <2>1, Pairs DEF WritesTo
    <3> QED BY <1>0, <2>0, <2>1, <3>1, Others DEF WritesTo
  <2>2. CASE q # p
    <3>1. Busy(q) /\ Current(q) = "tls.pem" /\ run'[q] = run[q] /\ met' = met
      BY <2>2, Others
    <3>2. CASE Current(p) = "tls.key"
      <4>1. AtTls(p) /\ AtTls(q)
        BY <3>1, <3>2, Here DEF AtTls, WritesTo, Busy
      <4>2. {run[p], run[q]} \in met
        BY <2>2, <4>1 DEF Meeting
      <4>3. disk'["tls.key"] = run[p]
        BY <1>0, <2>0, <3>2 DEF WritesTo
      <4> QED BY <3>1, <4>2, <4>3
    <3>3. CASE Current(p) # "tls.key"
      <4>1. disk'["tls.key"] = disk["tls.key"]
        BY <1>0, <2>0, <3>3 DEF WritesTo
      <4> QED BY <3>1, <4>1 DEF InTlsHalf
    <3> QED BY <3>2, <3>3
  <2> QED BY <2>1, <2>2
<1> QED BY <1>2, <1>3, <1>4, <1>7, <1>8, <1>9

\* being stopped,
LEMMA HaltKeeps ==
    ASSUME Inv1, ProvTypeOK', NEW p \in Runner, Halt(p) PROVE Inv1'
<1> USE DEF Inv1
<1>1. Moves(p) /\ UNCHANGED disk /\ mode'[p] = "failed"
  BY DEF Moves, Halt, Goes, ProvTypeOK
<1>2. Numbered' /\ Meeting'
  BY <1>1, Others DEF Numbered, Meeting, AtTls, Busy
<1>3. OneWriter'
  BY <1>1, Others DEF OneWriter
<1>4. InHalf'
  BY <1>1, Others DEF InHalf, Busy, Full
<1>5. InTlsHalf'
  BY <1>1, Others DEF InTlsHalf, Busy
<1>6. PairsBelong'
  BY <1>1 DEF PairsBelong, Full
<1> QED BY <1>2, <1>3, <1>4, <1>5, <1>6

\* and starting another script.
LEMMA LaunchKeeps ==
    ASSUME Inv1, ProvTypeOK', NEW p \in Runner, NEW s \in DOMAIN Script, Launch(p, s)
    PROVE  Inv1'
<1> USE DEF Inv1
<1>1. /\ UNCHANGED disk /\ ~Busy(p) /\ mode'[p] = "look" /\ run'[p] = runs + 1
      /\ runs' = runs + 1 /\ runs \in Nat /\ Current(p)' = Script[s][1] /\ script'[p] = s
  BY ProvisioningAssumption DEF Launch, ProvTypeOK, Current
<1>2. \A q \in Runner : q # p => /\ run'[q] = run[q] /\ script'[q] = script[q] /\ mode'[q] = mode[q]
                                /\ Busy(q)' = Busy(q) /\ Current(q)' = Current(q)
  BY DEF Launch, ProvTypeOK, Busy, Current
<1>3. Current(p)' \notin Halves
  <2>1. 1 \in 1..Len(Script[s]) /\ ~(1 > 1)
    BY Scripts
  <2> QED BY <1>1, <2>1, Scripts
<1>4. Numbered'
  <2>1. \A q \in Runner : run[q] \in Nat /\ run[q] <= runs
    BY ProvisioningAssumption DEF ProvTypeOK, Numbered
  <2>2. \A f \in File : disk[f] \in Int /\ disk[f] <= runs
    BY ProvisioningAssumption DEF ProvTypeOK, Numbered, Blank
  <2>3. \A q \in Runner : run'[q] <= runs' /\ (Busy(q)' => run'[q] > 0)
    BY <1>1, <1>2, <2>1 DEF Numbered
  <2>4. \A q, r \in Runner : run'[q] = run'[r] /\ q # r => run'[q] = 0
    BY <1>1, <1>2, <2>1 DEF Numbered
  <2> QED BY <1>1, <2>2, <2>3, <2>4 DEF Numbered
<1>5. OneWriter'
  BY <1>1, <1>2 DEF OneWriter
<1>6. Meeting'
  <2>1. met' = met \cup {{runs', run[q]} : q \in {o \in Runner : s = "tls" /\ AtTls(o)}}
    BY DEF Launch
  <2>2. ASSUME NEW q \in Runner, q # p, AtTls(p)', AtTls(q)' PROVE {run'[p], run'[q]} \in met'
    <3>1. s = "tls" /\ AtTls(q)
      BY <1>1, <1>2, <2>2 DEF AtTls
    <3>2. {runs', run[q]} \in met'
      BY <2>1, <3>1
    <3> QED BY <1>1, <1>2, <2>2, <3>2
  <2>3. ASSUME NEW q \in Runner, NEW o \in Runner, q # p, o # p, q # o, AtTls(q)', AtTls(o)'
        PROVE  {run'[q], run'[o]} \in met'
    BY <1>2, <2>1, <2>3 DEF Meeting, AtTls
  <2>4. \A a, b : {a, b} = {b, a}
    OBVIOUS
  <2> QED BY <2>2, <2>3, <2>4 DEF Meeting
<1>7. InHalf'
  BY <1>1, <1>2, <1>3, Pairs DEF InHalf, Full, Halves
<1>8. InTlsHalf'
  <2>1. met \subseteq met'
    BY DEF Launch
  <2> QED BY <1>1, <1>2, <1>3, <2>1, Pairs DEF InTlsHalf, Halves
<1>9. PairsBelong'
  BY <1>1 DEF PairsBelong, Full
<1> QED BY <1>4, <1>5, <1>6, <1>7, <1>8, <1>9

-----------------------------------------------------------------------------
\* OwedBy, in the next state.
LEMMA OwedByNext ==
    ASSUME NEW p, NEW f
    PROVE  f \in Owed(p)' <=>
             /\ Busy(p)'
             /\ \/ f = Current(p)' /\ (mode'[p] = "write" \/ f \in Halves)
                \/ mode'[p] = "write" /\ Current(p)' \in DOMAIN Second /\ f = Second[Current(p)']
BY Pairs DEF Owed, Halves

\* An excuse is lost only by writing the file.
LEMMA ExcuseStays ==
    ASSUME ProvTypeOK, NEW p \in Runner, Moves(p), NEW f, f \in Excused
    PROVE  f \in Excused' \/ (WritesTo(p) /\ f = Current(p))
<1>1. ASSUME NEW q \in Runner, q # p, f \in Owed(q) PROVE f \in Excused'
  BY <1>1, Others DEF Excused
<1>2. CASE Quiet(p)
  BY <1>1, <1>2, OwedBy, OwedByNext DEF Excused, Quiet
<1>3. CASE Opens(p)
  BY <1>1, <1>3, OwedBy, OwedByNext DEF Excused, Opens, Busy
<1>4. CASE WritesTo(p)
  <2>1. f \in Owed(p) => f = Current(p) \/ f \in Owed(p)'
    BY <1>4, OwedBy, OwedByNext, Pairs DEF WritesTo, Halves
  <2> QED BY <1>1, <1>4, <2>1 DEF Excused, WritesTo
<1>5. CASE Halt(p)
  BY <1>1, <1>5 DEF Excused, Halt
<1> QED BY <1>2, <1>3, <1>4, <1>5, LookKind, OpenKind, WriteKind DEF Moves

\* Every empty file and missing half keeps an excuse.
LEMMA ExcusedMove ==
    ASSUME Inv1, Explained, ProvTypeOK', NEW p \in Runner, Moves(p)
    PROVE  Explained'
<1> USE DEF Inv1
<1>0. /\ disk \in [File -> Blank..MaxRuns] /\ Current(p) \in File /\ run[p] \in Nat
      /\ \A f \in DOMAIN Second : f \in File /\ Second[f] \in File /\ Second[f] # f
      /\ \A f, g \in DOMAIN Second : Second[f] = Second[g] => f = g
      /\ \A f, g \in DOMAIN Second : Second[f] # g
      /\ met' = met /\ met \subseteq SUBSET (1..MaxRuns)
  <2>1. disk \in [File -> Blank..MaxRuns] /\ Current(p) \in File /\ run[p] \in Nat
    BY Here, ProvisioningAssumption DEF ProvTypeOK
  <2>2. \A f \in DOMAIN Second : f \in File /\ Second[f] \in File /\ Second[f] # f
    BY Pairs DEF File
  <2>3. \A f, g \in DOMAIN Second : (Second[f] = Second[g] => f = g) /\ Second[f] # g
    BY Pairs
  <2> QED BY <2>1, <2>2, <2>3, Others DEF ProvTypeOK
<1>1. ASSUME UNCHANGED disk, ~WritesTo(p) PROVE Explained'
  <2>1. \A f \in Excused : f \in Excused'
    BY <1>1, ExcuseStays
  <2>2. \A f \in DOMAIN Second : Half(f) => Half(f)'
    BY <1>0, <1>1, <2>1 DEF Half, Matched, Full
  <2> QED BY <1>1, <2>1, <2>2 DEF Explained
<1>2. CASE Opens(p)
  <2>1. ~WritesTo(p)
    BY <1>2 DEF Opens, WritesTo
  <2>2. Current(p) \in Excused' /\ (Current(p) \in DOMAIN Second => Second[Current(p)] \in Excused')
    BY <1>2, OwedByNext DEF Excused, Opens, Busy
  <2>3. \A f \in File : disk'[f] = Blank => f \in Excused'
    BY <1>0, <1>2, <2>1, <2>2, ExcuseStays DEF Explained, Opens
  <2>4. ASSUME NEW f \in DOMAIN Second, disk'[f] # Absent PROVE Half(f)'
    <3>1. CASE f = Current(p)
      BY <2>2, <3>1 DEF Half
    <3>2. CASE Second[f] = Current(p)
      BY <2>2, <3>2 DEF Half
    <3>3. CASE f # Current(p) /\ Second[f] # Current(p)
      <4>1. disk'[f] = disk[f] /\ disk'[Second[f]] = disk[Second[f]]
        BY <1>0, <1>2, <3>3 DEF Opens
      <4>2. \A g \in Excused : g \in Excused'
        BY <2>1, ExcuseStays
      <4>3. Half(f)
        BY <2>4, <4>1 DEF Explained
      <4> QED BY <1>0, <4>1, <4>2, <4>3 DEF Half, Matched, Full
    <3> QED BY <3>1, <3>2, <3>3
  <2> QED BY <2>3, <2>4 DEF Explained
<1>3. CASE WritesTo(p)
  <2>1. run[p] > 0
    BY <1>3 DEF Numbered, WritesTo, Busy
  <2>2. \A f \in File : disk'[f] = Blank => f \in Excused'
    BY <1>0, <1>3, <2>1, ExcuseStays DEF Explained, WritesTo, Blank
  <2>3. ASSUME NEW f \in DOMAIN Second, disk'[f] # Absent PROVE Half(f)'
    <3>1. CASE f = Current(p)
      <4>1. Busy(p)' /\ Current(p)' = Second[f] /\ Second[f] \in Halves
        BY <1>3, <3>1, Pairs DEF WritesTo, Halves
      <4> QED BY <4>1, OwedByNext DEF Excused, Half
    <3>2. CASE Second[f] = Current(p)
      <4>1. disk'[f] = disk[f] /\ disk'[Second[f]] = run[p] /\ Busy(p)
        BY <1>0, <1>3, <3>2 DEF WritesTo, Busy
      <4>2. CASE disk[f] = run[p]
        <5>1. disk'[Second[f]] # Absent /\ Full(f)'
          BY <1>0, <2>1, <4>1, <4>2 DEF Full, Absent
        <5>2. Matched(f)'
          BY <4>1, <4>2 DEF Matched
        <5> QED BY <5>1, <5>2 DEF Half
      <4>3. CASE f # "tls.key"
        <5>1. disk[f] = run[p]
          BY <3>2, <4>1, <4>3 DEF InHalf
        <5> QED BY <4>2, <5>1
      <4>4. CASE f = "tls.key" /\ disk[f] = Blank
        <5>1. f \in Excused'
          BY <1>0, <3>2, <4>4, ExcuseStays DEF Explained
        <5> QED BY <2>1, <4>1, <4>4, <5>1 DEF Half, Absent
      <4>5. CASE f = "tls.key" /\ {disk[f], run[p]} \in met
        <5>1. disk[f] \in 1..MaxRuns
          BY <1>0, <4>5
        <5>2. disk[f] > 0
          BY <5>1
        <5> QED BY <1>0, <2>1, <4>1, <4>5, <5>2 DEF Half, Matched, Full, Absent
      <4>6. f = "tls.key" => Current(p) = "tls.pem"
        BY <3>2, Pairs
      <4> QED BY <4>1, <4>2, <4>3, <4>4, <4>5, <4>6 DEF InTlsHalf
    <3>3. CASE f # Current(p) /\ Second[f] # Current(p)
      <4>1. disk'[f] = disk[f] /\ disk'[Second[f]] = disk[Second[f]]
        BY <1>0, <1>3, <3>3 DEF WritesTo
      <4>2. \A g \in {f, Second[f]} : g \in Excused => g \in Excused'
        BY <3>3, ExcuseStays
      <4>3. Half(f)
        BY <2>3, <4>1 DEF Explained
      <4> QED BY <1>0, <4>1, <4>2, <4>3 DEF Half, Matched, Full
    <3> QED BY <3>1, <3>2, <3>3
  <2> QED BY <2>2, <2>3 DEF Explained
<1>4. CASE Quiet(p)
  BY <1>1, <1>4 DEF Quiet, WritesTo
<1>5. CASE Halt(p)
  <2>1. UNCHANGED disk /\ mode'[p] = "failed"
    BY <1>5 DEF Halt, Goes, ProvTypeOK
  <2> QED BY <1>1, <2>1 DEF WritesTo
<1> QED BY <1>2, <1>3, <1>4, <1>5, LookKind, OpenKind, WriteKind DEF Moves

\* Which files a process passes in a step.
LEMMA KeptPasses ==
    ASSUME ProvTypeOK, NEW p \in Runner, Kept(p), UNCHANGED script, mode[p] # "ok",
           NEW k \in 1..Len(Script[script[p]]), k < at'[p] \/ mode'[p] = "ok"
    PROVE  k < at[p] \/ k = at[p] \/ (k = at[p] + 1 /\ Current(p) \in DOMAIN Second)
<1> DEFINE n == IF Current(p) \in DOMAIN Second THEN 2 ELSE 1
<1>1. n \in {1, 2} /\ Advance(p, n) /\ (n = 2 => Current(p) \in DOMAIN Second)
  BY DEF Kept
<1>2. at[p] \in Int /\ Len(Script[script[p]]) \in Int
  BY Here
<1> HIDE DEF n
<1> QED BY <1>1, <1>2, Further

\* A position that is newly passed was kept, or written in this step.
LEMMA Passes ==
    ASSUME ProvTypeOK, NEW p \in Runner, Moves(p), mode'[p] # "failed",
           NEW k \in 1..Len(Script[script[p]]), k < at'[p] \/ mode'[p] = "ok"
    PROVE  \/ k < at[p]
           \/ k = at[p] /\ (disk[Current(p)] # Absent \/ WritesTo(p))
           \/ k = at[p] + 1 /\ disk[Current(p)] # Absent /\ Current(p) \in DOMAIN Second
<1>0. at[p] \in Int /\ Len(Script[script[p]]) \in Int /\ at \in [Runner -> Int]
      /\ mode \in [Runner -> {"look", "open", "write", "ok", "failed"}] /\ UNCHANGED script
  BY Here, Others DEF ProvTypeOK
<1>1. ASSUME Kept(p), mode[p] # "ok", disk[Current(p)] # Absent
      PROVE  \/ k < at[p]
             \/ k = at[p] /\ disk[Current(p)] # Absent
             \/ k = at[p] + 1 /\ disk[Current(p)] # Absent /\ Current(p) \in DOMAIN Second
  BY <1>0, <1>1, KeptPasses
<1>2. ASSUME NEW m, Goes(p, m), m # "ok" PROVE k < at[p]
  BY <1>0, <1>2 DEF Goes
<1>3. CASE Look(p)
  <2>1. mode[p] = "look"
    BY <1>3 DEF Look
  <2>2. (\E m \in {"open", "failed"} : Goes(p, m)) \/ (Kept(p) /\ disk[Current(p)] # Absent)
    <3>1. CASE Current(p) \in Tested
      <4>1. Current(p) # "ca.key"
        BY <3>1 DEF Tested
      <4> QED BY <1>3, <3>1, <4>1 DEF Look
    <3>2. CASE Current(p) = "ca.key"
      BY <1>3, <3>2 DEF Look, Tested, Full, Absent
    <3>3. CASE Current(p) \notin Tested /\ Current(p) # "ca.key"
      BY <1>3, <3>3 DEF Look
    <3> QED BY <3>1, <3>2, <3>3
  <2> QED BY <1>1, <1>2, <2>1, <2>2
<1>4. CASE OpenFor(p)
  <2>1. mode[p] = "open"
    BY <1>4 DEF OpenFor
  <2>2. (\E m \in {"write", "failed"} : Goes(p, m)) \/ (Kept(p) /\ disk[Current(p)] # Absent)
    BY <1>4 DEF OpenFor
  <2> QED BY <1>1, <1>2, <2>1, <2>2
<1>5. CASE Write(p)
  <2>1. Advance(p, 1)
    BY <1>5 DEF Write
  <2>2. k < at[p] \/ k = at[p]
    BY <1>0, <2>1, Further
  <2> QED BY <1>5, <2>2, WriteKind
<1>6. CASE Halt(p)
  BY <1>0, <1>6 DEF Halt, Goes
<1> QED BY <1>3, <1>4, <1>5, <1>6 DEF Moves

\* What is settled stays settled.
LEMMA SettledStays ==
    ASSUME Inv1, NEW p \in Runner, Moves(p), NEW f \in File, Settled(f)
    PROVE  Settled(f)'
<1>1. WritesTo(p) /\ f = Current(p) => disk'[f] # Absent
  BY DEF Inv1, ProvTypeOK, Numbered, WritesTo, Busy, Absent
<1>2. disk[f] # Absent => disk'[f] # Absent
  <2>1. disk \in [File -> Blank..MaxRuns]
    BY DEF Inv1, ProvTypeOK
  <2>2. CASE Quiet(p)
    BY <2>2 DEF Quiet
  <2>3. CASE Opens(p)
    BY <2>1, <2>3 DEF Opens, Blank, Absent
  <2>4. CASE WritesTo(p)
    BY <1>1, <2>1, <2>4 DEF WritesTo
  <2>5. CASE Halt(p)
    BY <2>5 DEF Halt
  <2> QED BY <2>2, <2>3, <2>4, <2>5, LookKind, OpenKind, WriteKind DEF Moves, Inv1
<1> QED BY <1>1, <1>2, ExcuseStays DEF Settled, Inv1

\* What a script has passed stays settled when some script moves,
LEMMA WalkedMove ==
    ASSUME Inv1, Inv2, Explained', NEW p \in Runner, Moves(p) PROVE Walked'
<1>0. UNCHANGED <<run, script>> /\ ProvTypeOK
  BY Others DEF Inv1
<1> SUFFICES ASSUME NEW q \in Runner, run[q] > 0, mode'[q] # "failed",
                    NEW k \in 1..Len(Script[script[q]]), k < at'[q] \/ mode'[q] = "ok",
                    NEW f, f = Script[script[q]][k]
             PROVE  Settled(f)'
  BY <1>0 DEF Walked, Settled
<1>1. f \in File
  <2>1. script[q] \in DOMAIN Script
    BY <1>0 DEF ProvTypeOK
  <2> QED BY <2>1, Scripts
<1>2. CASE q # p
  <2>1. at'[q] = at[q] /\ mode'[q] = mode[q]
    BY <1>0, <1>2, Others
  <2>2. Settled(f)
    BY <2>1 DEF Inv2, Walked
  <2> QED BY <1>1, <2>2, SettledStays
<1>3. CASE q = p
  <2>1. Script[script[p]][at[p]] = Current(p) /\ Current(p) \in File
    BY <1>0, Here DEF Current
  <2>2. mode[p] # "failed"
    BY LookKind, OpenKind, WriteKind, <1>0, <1>3 DEF Moves, Quiet, Opens, WritesTo, Halt, Goes, ProvTypeOK
  <2>3. CASE k < at[p]
    <3>1. Settled(f)
      BY <1>3, <2>2, <2>3 DEF Inv2, Walked
    <3> QED BY <1>1, <3>1, SettledStays
  <2>4. CASE k = at[p] /\ disk[Current(p)] # Absent
    BY <1>1, <1>3, <2>1, <2>4, SettledStays DEF Settled
  <2>5. CASE k = at[p] /\ WritesTo(p)
    BY <1>0, <1>1, <1>3, <2>1, <2>5 DEF Settled, WritesTo, ProvTypeOK, Absent
  <2>6. CASE k = at[p] + 1 /\ disk[Current(p)] # Absent /\ Current(p) \in DOMAIN Second
    <3>1. f = Second[Current(p)]
      BY <1>0, <1>3, <2>6, Here
    <3>2. f \in Excused \/ disk[f] # Absent
      BY <2>6, <3>1 DEF Inv2, Explained, Half
    <3> QED BY <1>1, <3>2, SettledStays DEF Settled
  <2> QED BY <1>0, <1>3, <2>3, <2>4, <2>5, <2>6, Passes
<1> QED BY <1>2, <1>3

\* and when one starts.
LEMMA LaunchWalks ==
    ASSUME Inv1, Inv2, NEW p \in Runner, NEW s \in DOMAIN Script, Launch(p, s)
    PROVE  Inv2'
<1>1. /\ UNCHANGED <<disk, cut>> /\ ~Busy(p) /\ mode'[p] = "look" /\ at'[p] = 1
      /\ \A q \in Runner : q # p =>
            /\ run'[q] = run[q] /\ script'[q] = script[q] /\ mode'[q] = mode[q] /\ at'[q] = at[q]
            /\ Busy(q)' = Busy(q) /\ Current(q)' = Current(q)
  BY DEF Inv1, ProvTypeOK, Launch, Busy, Current
<1>2. \A f : f \in Excused => f \in Excused'
  <2>1. \A q \in Runner : \A f : f \in Owed(q) => q # p
    BY <1>1, OwedBy
  <2>2. \A q \in Runner : q # p => Owed(q)' = Owed(q)
    BY <1>1 DEF Owed
  <2> QED BY <1>1, <2>1, <2>2 DEF Excused
<1>3. Explained'
  <2>1. met \subseteq met'
    BY DEF Launch
  <2>2. \A f \in DOMAIN Second : Half(f) => Half(f)'
    BY <1>1, <1>2, <2>1 DEF Half, Matched, Full
  <2> QED BY <1>1, <1>2, <2>2 DEF Inv2, Explained
<1>4. Walked'
  <2> SUFFICES ASSUME NEW q \in Runner, run'[q] > 0, mode'[q] # "failed",
                      NEW w, w = Script[script'[q]],
                      NEW k \in 1..Len(w), k < at'[q] \/ mode'[q] = "ok",
                      NEW f, f = w[k]
               PROVE  Settled(f)'
    BY DEF Walked, Settled
  <2>1. CASE q = p
    BY <1>1, <2>1
  <2>2. CASE q # p
    <3>1. Settled(f)
      BY <1>1, <2>2 DEF Inv2, Walked
    <3> QED BY <1>1, <1>2, <3>1 DEF Settled
  <2> QED BY <2>1, <2>2
<1> QED BY <1>3, <1>4 DEF Inv2

-----------------------------------------------------------------------------
ProvInv == Inv1 /\ Inv2

\* The initial state satisfies the invariant.
LEMMA InitEstablishes == ProvInit => ProvInv
<1> SUFFICES ASSUME ProvInit PROVE ProvInv
  OBVIOUS
<1> USE ProvisioningAssumption DEF ProvInit
<1>1. \A p \in Runner : ~Busy(p)
  BY DEF Busy
<1>2. ProvTypeOK
  <2>1. "labs" \in DOMAIN Script /\ Len(Script["labs"]) \in Nat \ {0}
    BY Scripts
  <2> QED BY <2>1 DEF ProvTypeOK, Absent, Blank
<1>3. Numbered /\ OneWriter /\ Meeting /\ InHalf /\ InTlsHalf /\ PairsBelong
  BY <1>1, Pairs
    DEF Numbered, OneWriter, Meeting, AtTls, InHalf, InTlsHalf, PairsBelong, Full, Absent, File
<1>4. Inv2
  BY Pairs DEF Inv2, Explained, Walked, Absent, Blank, File
<1> QED BY <1>2, <1>3, <1>4 DEF ProvInv, Inv1

\* Every step keeps it.
LEMMA StepKeeps == ProvInv /\ [ProvNext]_provVars => ProvInv'
<1> SUFFICES ASSUME ProvInv, [ProvNext]_provVars PROVE ProvInv'
  OBVIOUS
<1>0. ProvTypeOK /\ ProvTypeOK'
  BY ProvTypeStep DEF ProvInv, Inv1
<1>1. ASSUME NEW p \in Runner, NEW s \in DOMAIN Script, Launch(p, s) PROVE ProvInv'
  BY <1>0, <1>1, LaunchKeeps, LaunchWalks DEF ProvInv
<1>2. ASSUME NEW p \in Runner, Moves(p) PROVE ProvInv'
  <2>1. Inv1'
    BY <1>0, <1>2, LookKind, OpenKind, WriteKind, QuietKeeps, OpensKeeps, WritesKeeps, HaltKeeps
      DEF Moves, ProvInv
  <2>2. Explained'
    BY <1>0, <1>2, ExcusedMove DEF ProvInv, Inv2
  <2> QED BY <1>2, <2>1, <2>2, WalkedMove DEF ProvInv, Inv2
<1>3. CASE UNCHANGED provVars
  <2>1. \A q \in Runner : Busy(q)' = Busy(q) /\ Current(q)' = Current(q) /\ Owed(q)' = Owed(q)
    BY <1>3 DEF provVars, process, Busy, Current, Owed
  <2>2. Numbered' /\ OneWriter' /\ Meeting' /\ InHalf' /\ InTlsHalf' /\ PairsBelong'
    BY <1>3, <2>1 DEF provVars, process, ProvInv, Inv1, Numbered, OneWriter, Meeting, AtTls,
        InHalf, InTlsHalf, PairsBelong, Full
  <2>3. Excused' = Excused
    BY <1>3, <2>1 DEF provVars, process, Excused
  <2>4. Explained' /\ Walked'
    BY <1>3, <2>3 DEF provVars, process, ProvInv, Inv2, Explained, Half, Matched, Walked, Settled, Full
  <2> QED BY <1>0, <2>2, <2>4 DEF ProvInv, Inv1, Inv2
<1> QED BY <1>1, <1>2, <1>3 DEF ProvNext, Moves

\* The strengthening holds in every reachable state: it is inductive.
THEOREM ProvInductive == ProvSpec => []ProvInv
BY InitEstablishes, StepKeeps, PTL DEF ProvSpec

\* No step writes a secret again (08 README.md:12, 05 init_env.py:1, pki.py:28).
THEOREM NeverRewritten == ProvSpec => SecretsKept
<1>1. ASSUME ProvInv, NEW p \in Runner, Moves(p), NEW f \in File \ {"tls.key", "tls.pem", "tls.ca"}, Full(f)
      PROVE  disk'[f] = disk[f]
  <2>1. /\ disk \in [File -> Blank..MaxRuns] /\ ProvTypeOK /\ Inv1
        /\ f \in Exclusive \cup Halves /\ f \in File
    BY <1>1, ProvKinds DEF ProvInv, Inv1, ProvTypeOK
  <2>2. ASSUME Busy(p), Current(p) = f PROVE f \notin Halves
    <3>1. f \in Halves => \E g \in DOMAIN Second : g # "tls.key" /\ f = Second[g]
      BY <1>1, Pairs DEF Halves
    <3> QED BY <1>1, <2>1, <2>2, <3>1 DEF Inv1, InHalf
  <2>3. CASE Opens(p)
    BY <1>1, <2>1, <2>2, <2>3 DEF Opens, Busy, Full, Absent
  <2>4. CASE WritesTo(p)
    BY <1>1, <2>1, <2>2, <2>4 DEF WritesTo, Busy, Full, Blank, Inv1, OneWriter
  <2>5. CASE Quiet(p) \/ Halt(p)
    BY <2>5 DEF Quiet, Halt
  <2> QED BY <1>1, <2>1, <2>3, <2>4, <2>5, LookKind, OpenKind, WriteKind DEF Moves
<1>2. ProvInv /\ [ProvNext]_provVars =>
        [\A f \in File \ {"tls.key", "tls.pem", "tls.ca"} : Full(f) => disk'[f] = disk[f]]_provVars
  <2>1. ASSUME NEW p \in Runner, NEW s \in DOMAIN Script, Launch(p, s) PROVE UNCHANGED disk
    BY <2>1 DEF Launch
  <2> QED BY <1>1, <2>1 DEF ProvNext, Moves
<1> QED BY <1>2, ProvInductive, PTL DEF ProvSpec, SecretsKept

\* No pair is ever made of two runs (08 init_env.py:25-30, pki.py:28-51).
THEOREM PairsAlwaysBelong == ProvSpec => []PairsBelong
<1>1. ProvInv => PairsBelong
  BY DEF ProvInv, Inv1
<1> QED BY <1>1, ProvInductive, PTL

\* What a script that ended well does not leave behind was cut short by a stopped
\* one or is being written, and its pairs are matched, those of TLS up to set-ups
\* that were at work together (init_labs.py:10-21, tls_setup.py:37-42).
THEOREM MissingOnlyWhenCut == ProvSpec => []OnlyCutShort
<1>1. ProvInv => OnlyCutShort
  <2> SUFFICES ASSUME ProvInv, NEW p \in Runner, mode[p] = "ok", run[p] > 0,
                      NEW k \in 1..Len(Script[script[p]]), Script[script[p]][k] \notin Excused
               PROVE  LET f == Script[script[p]][k] IN
                        /\ Full(f)
                        /\ f \in DOMAIN Second /\ Second[f] \notin Excused => Matched(f)
    <3>1. ProvInv => \A q \in Runner : DOMAIN Script[script[q]] = 1..Len(Script[script[q]])
      <4>1. ProvInv => \A q \in Runner : script[q] \in DOMAIN Script
        BY DEF ProvInv, Inv1, ProvTypeOK
      <4> QED BY <4>1, Scripts
    <3> QED BY SMTT(30), <3>1 DEF OnlyCutShort, Excused
  <2>1. Script[script[p]][k] \in File
    <3>1. script[p] \in DOMAIN Script
      BY DEF ProvInv, Inv1, ProvTypeOK
    <3> QED BY <3>1, Scripts
  <2>2. Settled(Script[script[p]][k])
    BY DEF ProvInv, Inv2, Walked
  <2> DEFINE f == Script[script[p]][k]
  <2>3. disk[f] # Absent /\ disk[f] # Blank /\ disk[f] \in Blank..MaxRuns
    BY <2>1, <2>2 DEF ProvInv, Inv1, ProvTypeOK, Inv2, Explained, Settled
  <2>4. Full(f)
    BY <2>3, ProvisioningAssumption DEF Full, Absent, Blank
  <2>5. ASSUME f \in DOMAIN Second, Second[f] \notin Excused PROVE Matched(f)
    BY <2>3, <2>5 DEF ProvInv, Inv2, Explained, Half
  <2> QED BY <2>4, <2>5
<1> QED BY <1>1, ProvInductive, PTL

---------------------------------------------------------------------------
(*************************************************************************)
(* Vpn, for any number of keys and of processes that stop: the server's  *)
(* rules never leave the private addresses, and the sides agree on keys. *)
(*************************************************************************)

\* The rules of the server follow the position of its start().
Rules ==
    LET n == net["server"]    k == startAt["server"] IN
    /\ n.forward \in {<<>>, <<"toPrivate">>, <<"toPrivate", "replies">>}
    /\ n.served => n.policy = "DROP"
    /\ k >= 5 => n.wg0 = "up"
    /\ k \in {6, 7} => n.forward = <<>>
    /\ k = 8 => n.forward = <<"toPrivate">>
    /\ k >= 9 => n.forward = <<"toPrivate", "replies">>
    /\ k >= 7 => n.policy = "DROP"
    /\ k = 10 => n.nat = <<>>
    /\ k = 11 => n.nat = <<"masquerade">>

\* Whoever has read a configuration has the keys that are on disk.
KeysKept ==
    /\ initAt > 0 /\ opened /\ initAt = 1 => private["server"] = Empty
    /\ initAt > 0 /\ opened /\ initAt = 2 => private["client"] = Empty
    /\ initAt > 1 => private["server"] > 0
    /\ initAt > 2 => private["client"] > 0
    /\ \A s \in Side : \A c \in {wgconf[s], net[s].conf} :
          c # NoConf => /\ c = <<private[s], private[Peer[s]]>>
                        /\ private["server"] > 0 /\ private["client"] > 0

VpnInv == VpnTypeOK /\ Rules /\ KeysKept

-----------------------------------------------------------------------------
\* What the two sides are, and that each is the other's peer.
LEMMA Sides ==
    /\ Side = {"server", "client"} /\ Peer["server"] = "client" /\ Peer["client"] = "server"
    /\ \A s \in Side : Peer[s] \in Side
BY DEF Side, Peer

\* The steps of init.sh.
LEMMA WorkIs ==
    /\ Len(Work) = 4
    /\ Work[1] = <<"key", "server">> /\ Work[2] = <<"key", "client">>
    /\ Work[3] = <<"conf", "server">> /\ Work[4] = <<"conf", "client">>
BY DEF Work

\* The commands of the server's start script, in their order.
LEMMA ServerCommands ==
    /\ Len(Commands("server")) = 10
    /\ Commands("server")[1] = "add" /\ Commands("server")[2] = "setconf"
    /\ Commands("server")[3] = "address" /\ Commands("server")[4] = "up"
    /\ Commands("server")[5] = "flush" /\ Commands("server")[6] = "drop"
    /\ Commands("server")[7] = "toPrivate" /\ Commands("server")[8] = "replies"
    /\ Commands("server")[9] = "natFlush" /\ Commands("server")[10] = "masquerade"
BY DEF Commands

\* Past its eleventh position the server's script has ended.
LEMMA ServerReady == Len(Commands("server")) + 1 = 11
BY DEF Commands

\* One command after another makes a sequence of two.
LEMMA AppendToOne ==
    ASSUME NEW T, NEW s \in Seq(T), NEW b \in T, Len(s) = 1
    PROVE  /\ Append(s, b) \in Seq(T) /\ Len(Append(s, b)) = 2
           /\ Append(s, b)[1] = s[1] /\ Append(s, b)[2] = b
<1>1. Append(s, b) \in Seq(T) /\ Len(Append(s, b)) = 2
  OBVIOUS
<1>2. Append(s, b)[1] = s[1]
  OBVIOUS
<1>3. Append(s, b)[2] = b
  <2>1. Append(s, b)[Len(s) + 1] = b
    BY AppendProperties
  <2>2. Len(s) + 1 = 2
    OBVIOUS
  <2> QED BY <2>1, <2>2, Zenon
<1> QED BY <1>1, <1>2, <1>3

\* One command after another, as sequences.
LEMMA AppendIs ==
    ASSUME NEW T, NEW a \in T, NEW b \in T
    PROVE  Append(<<>>, a) = <<a>> /\ Append(<<a>>, b) = <<a, b>>
<1>1. <<a>> \in Seq(T) /\ Len(<<a>>) = 1 /\ <<a>>[1] = a
  OBVIOUS
<1>2. <<a, b>> \in Seq(T) /\ Len(<<a, b>>) = 2 /\ <<a, b>>[1] = a /\ <<a, b>>[2] = b
  OBVIOUS
<1>3. \E w \in Seq(T) : w = Append(<<a>>, b) /\ Len(w) = 2 /\ w[1] = a /\ w[2] = b
  BY <1>1, AppendToOne
<1>4. \A u, w \in Seq(T) : Len(u) = 2 /\ Len(w) = 2 /\ u[1] = w[1] /\ u[2] = w[2] => u = w
  <2> SUFFICES ASSUME NEW u \in Seq(T), NEW w \in Seq(T), Len(u) = 2, Len(w) = 2,
                      u[1] = w[1], u[2] = w[2]
               PROVE  u = w
    OBVIOUS
  <2>1. \A i \in 1..2 : u[i] = w[i]
    OBVIOUS
  <2> QED BY <2>1, SeqEqual
<1>5. Append(<<>>, a) = <<a>>
  OBVIOUS
<1> QED BY <1>2, <1>3, <1>4, <1>5

\* The commands of the client's start script.
LEMMA ClientCommands ==
    /\ Len(Commands("client")) = 5
    /\ Commands("client")[1] = "add" /\ Commands("client")[2] = "setconf"
    /\ Commands("client")[3] = "address" /\ Commands("client")[4] = "up"
    /\ Commands("client")[5] = "route"
BY DEF Commands

\* The types, part by part.
VolumeType == /\ private \in [Side -> Empty..MaxKeys] /\ wgconf \in [Side -> Configured]
              /\ keys \in 0..MaxKeys
VpnInitType   == initAt \in 0..4 /\ opened \in BOOLEAN /\ prepared \in BOOLEAN
VpnStartType  == startAt \in [Side -> Int] /\ \A s \in Side : startAt[s] \in 0..Len(Commands(s)) + 1
NetType    == net \in [Side -> Namespace]

\* The type invariant, in the parts that an action disturbs.
LEMMA VpnTypes ==
    /\ VpnTypeOK <=> VolumeType /\ VpnInitType /\ VpnStartType /\ NetType /\ stops \in 0..MaxVpnFaults
    /\ VpnTypeOK' <=> VolumeType' /\ VpnInitType' /\ VpnStartType' /\ NetType' /\ stops' \in 0..MaxVpnFaults
BY WorkIs, Zenon DEF VpnTypeOK, VolumeType, VpnInitType, VpnStartType, NetType

\* What each command makes of a namespace.
LEMMA AfterIs ==
    ASSUME NEW n, NEW s
    PROVE  /\ After(n, s, "add") = [n EXCEPT !.wg0 = "down"]
           /\ After(n, s, "setconf") = [n EXCEPT !.conf = wgconf[s]]
           /\ After(n, s, "up") = [n EXCEPT !.wg0 = "up"]
           /\ After(n, s, "flush") = [n EXCEPT !.forward = <<>>]
           /\ After(n, s, "drop") = [n EXCEPT !.policy = "DROP"]
           /\ After(n, s, "natFlush") = [n EXCEPT !.nat = <<>>]
           /\ After(n, s, "masquerade") = [n EXCEPT !.nat = Append(n.nat, "masquerade")]
           /\ After(n, s, "toPrivate") = [n EXCEPT !.forward = Append(n.forward, "toPrivate")]
           /\ After(n, s, "replies") = [n EXCEPT !.forward = Append(n.forward, "replies")]
           /\ After(n, s, "address") = n
           /\ After(n, s, "route") = n
BY DEF After

Command == {"add", "setconf", "address", "up", "route", "flush", "drop",
            "toPrivate", "replies", "natFlush", "masquerade"}

\* It stays a namespace, with its configuration or the one in the volume.
LEMMA AfterType ==
    ASSUME NEW n \in Namespace, NEW s \in Side, wgconf[s] \in Configured, NEW c \in Command
    PROVE  After(n, s, c) \in Namespace /\ After(n, s, c).conf \in {n.conf, wgconf[s]}
<1> DEFINE Good == {m \in Namespace : m.conf \in {n.conf, wgconf[s]}}
<1>1. \A T : <<>> \in Seq(T)
  OBVIOUS
<1>2. /\ Append(n.forward, "toPrivate") \in Seq({"toPrivate", "replies"})
      /\ Append(n.forward, "replies") \in Seq({"toPrivate", "replies"})
      /\ Append(n.nat, "masquerade") \in Seq({"masquerade"})
  BY DEF Namespace
<1>3. n \in Good /\ [n EXCEPT !.wg0 = "down"] \in Good /\ [n EXCEPT !.wg0 = "up"] \in Good
  BY DEF Namespace
<1>4. [n EXCEPT !.conf = wgconf[s]] \in Good /\ [n EXCEPT !.policy = "DROP"] \in Good
  BY DEF Namespace
<1>5. [n EXCEPT !.forward = <<>>] \in Good /\ [n EXCEPT !.nat = <<>>] \in Good
  BY <1>1 DEF Namespace
<1>6. /\ [n EXCEPT !.forward = Append(n.forward, "toPrivate")] \in Good
      /\ [n EXCEPT !.forward = Append(n.forward, "replies")] \in Good
      /\ [n EXCEPT !.nat = Append(n.nat, "masquerade")] \in Good
  BY <1>2 DEF Namespace
<1> HIDE DEF Good
<1>7. After(n, s, c) \in Good
  <2>1. CASE c \in {"add", "address", "up", "route"}
    BY <1>3, <2>1, AfterIs
  <2>2. CASE c \in {"setconf", "drop"}
    BY <1>4, <2>2, AfterIs
  <2>3. CASE c \in {"flush", "natFlush"}
    BY <1>5, <2>3, AfterIs
  <2>4. CASE c = "toPrivate"
    BY <1>6, <2>4, AfterIs, Zenon
  <2>5. CASE c = "replies"
    BY <1>6, <2>5, AfterIs, Zenon
  <2>6. CASE c = "masquerade"
    BY <1>6, <2>6, AfterIs, Zenon
  <2> QED BY <2>1, <2>2, <2>3, <2>4, <2>5, <2>6 DEF Command
<1> QED BY <1>7 DEF Good

\* What a command changes of the rules.
LEMMA AfterRules ==
    ASSUME NEW n \in Namespace, NEW s, NEW c \in Command
    PROVE  LET m == After(n, s, c) IN
           /\ m.served = n.served
           /\ m.wg0 = IF c = "up" THEN "up" ELSE IF c = "add" THEN "down" ELSE n.wg0
           /\ m.policy = IF c = "drop" THEN "DROP" ELSE n.policy
           /\ m.forward = IF c = "flush" THEN <<>>
                          ELSE IF c \in {"toPrivate", "replies"} THEN Append(n.forward, c)
                          ELSE n.forward
           /\ m.nat = IF c = "natFlush" THEN <<>>
                      ELSE IF c = "masquerade" THEN Append(n.nat, c) ELSE n.nat
<1>1. CASE c \in {"add", "up"}
  BY <1>1, AfterIs DEF Namespace
<1>2. CASE c \in {"setconf", "address", "route"}
  BY <1>2, AfterIs DEF Namespace
<1>3. CASE c \in {"drop", "flush"}
  BY <1>3, AfterIs DEF Namespace
<1>4. CASE c = "natFlush"
  BY <1>4, AfterIs DEF Namespace
<1>5. CASE c = "masquerade"
  BY <1>5, AfterIs DEF Namespace
<1>6. CASE c = "toPrivate"
  BY <1>6, AfterIs DEF Namespace
<1>7. CASE c = "replies"
  BY <1>7, AfterIs DEF Namespace
<1> QED BY <1>1, <1>2, <1>3, <1>4, <1>5, <1>6, <1>7 DEF Command

\* Every position of a start script holds a command.
LEMMA CommandsType ==
    ASSUME NEW s \in Side
    PROVE  Len(Commands(s)) \in {5, 10} /\ \A k \in 1..Len(Commands(s)) : Commands(s)[k] \in Command
<1>1. CASE s = "server"
  BY <1>1, ServerCommands DEF Command
<1>2. CASE s = "client"
  BY <1>2, ClientCommands DEF Command
<1> QED BY <1>1, <1>2 DEF Side

\* A namespace that is new, or has lost wg0.
LEMMA NamespaceTypes ==
    /\ NewNamespace \in Namespace /\ NewNamespace.conf = NoConf
    /\ \A n \in Namespace : WithoutWg0(n) \in Namespace /\ WithoutWg0(n).conf = NoConf
<1>1. \A T : <<>> \in Seq(T)
  OBVIOUS
<1>2. NewNamespace \in Namespace /\ NewNamespace.conf = NoConf
  BY <1>1 DEF NewNamespace, Namespace, Configured
<1>3. \A n \in Namespace : WithoutWg0(n) \in Namespace /\ WithoutWg0(n).conf = NoConf
  BY DEF WithoutWg0, Namespace, Configured
<1> QED BY <1>2, <1>3

\* Moving to the next file leaves init at one of its files, or at its end.
LEMMA NextFileType ==
    ASSUME VpnInitType, initAt > 0, NextFile
    PROVE  /\ initAt' \in 0..4 /\ prepared' \in BOOLEAN
           /\ initAt' = 0 \/ initAt' = initAt + 1
<1>1. initAt' \in 0..4
  BY WorkIs DEF VpnInitType, NextFile
<1>2. prepared' \in BOOLEAN
  BY WorkIs DEF VpnInitType, NextFile
<1>3. initAt' = 0 \/ initAt' = initAt + 1
  BY DEF NextFile
<1> QED BY <1>1, <1>2, <1>3

\* No step spoils the type of the volumes.
LEMMA VolumeStep ==
    ASSUME VpnInv, [VpnNext]_vpnVars PROVE VolumeType'
<1> USE DEF VpnInv
<1>0. VolumeType /\ VpnInitType
  BY VpnTypes
<1>1. CASE UNCHANGED volumes
  BY <1>0, <1>1 DEF VolumeType, volumes
<1>2. CASE Down
  BY <1>0, <1>2, VpnAssumption DEF VolumeType, Down, Configured, NoFile, Empty
<1>3. ASSUME NEW s \in Side, OpenFile(s) PROVE VolumeType'
  <2>1. -1 \in -1..MaxKeys /\ NoConf \in Configured
    BY VpnAssumption DEF Configured
  <2> QED BY <1>0, <1>3, <2>1 DEF VolumeType, OpenFile, Empty
<1>4. ASSUME NEW s \in Side, WriteFile(s) PROVE VolumeType'
  <2>1. CASE /\ Work[initAt] = <<"key", s>> /\ keys < MaxKeys /\ keys' = keys + 1
             /\ private' = [private EXCEPT ![s] = keys'] /\ UNCHANGED wgconf
    <3>1. keys' \in 0..MaxKeys /\ keys' \in -1..MaxKeys
      BY <1>0, <2>1, VpnAssumption DEF VolumeType
    <3> QED BY <1>0, <2>1, <3>1 DEF VolumeType, Empty
  <2>2. CASE /\ Work[initAt] = <<"conf", s>>
             /\ wgconf' = [wgconf EXCEPT ![s] = <<private[s], private[Peer[s]]>>]
             /\ UNCHANGED <<private, keys>>
    <3>1. initAt \in {3, 4}
      BY <1>0, <1>4, <2>2, WorkIs DEF VpnInitType, WriteFile
    <3>2. private["server"] > 0 /\ private["client"] > 0
      BY <3>1 DEF KeysKept
    <3>3. \A q \in Side : private[q] \in 1..MaxKeys
      BY <1>0, <3>2, VpnAssumption, Sides DEF VolumeType, Empty
    <3>4. <<private[s], private[Peer[s]]>> \in Configured
      BY <3>3, Sides DEF Configured
    <3> QED BY <1>0, <2>2, <3>4 DEF VolumeType
  <2> QED BY <1>4, <2>1, <2>2 DEF WriteFile
<1> QED BY <1>1, <1>2, <1>3, <1>4 DEF VpnNext, InitBegins, InitStops, KeepKey, Start, Execute,
           Dies, StopSide, vpnVars

\* No step spoils the type of init.sh's state.
LEMMA InitStep ==
    ASSUME VpnTypeOK, [VpnNext]_vpnVars PROVE VpnInitType'
<1>0. VpnInitType
  BY VpnTypes
<1>1. CASE UNCHANGED initRun
  BY <1>0, <1>1 DEF VpnInitType, initRun
<1>2. CASE InitBegins \/ InitStops \/ Down
  <2>1. initAt' \in {0, 1}
    BY <1>2 DEF InitBegins, InitStops, Down
  <2>2. opened' \in {FALSE, opened} /\ prepared' \in {FALSE, prepared}
    BY <1>2 DEF InitBegins, InitStops, Down
  <2>3. opened' \in BOOLEAN /\ prepared' \in BOOLEAN
    BY <1>0, <2>2, Zenon DEF VpnInitType
  <2> QED BY <2>1, <2>3 DEF VpnInitType
<1>3. ASSUME NEW s \in Side, KeepKey(s) \/ OpenFile(s) \/ WriteFile(s) PROVE VpnInitType'
  <2>1. opened' \in BOOLEAN
    BY <1>0, <1>3 DEF VpnInitType, KeepKey, OpenFile, WriteFile
  <2>2. initAt' \in 0..4 /\ prepared' \in BOOLEAN
    <3>1. CASE NextFile /\ initAt > 0
      BY <1>0, <3>1, NextFileType
    <3>2. CASE ~(NextFile /\ initAt > 0)
      BY <1>0, <1>3, <3>2 DEF VpnInitType, KeepKey, OpenFile, WriteFile
    <3> QED BY <3>1, <3>2
  <2> QED BY <2>1, <2>2 DEF VpnInitType
<1> QED BY <1>1, <1>2, <1>3 DEF VpnNext, Start, Execute, Dies, StopSide, vpnVars

\* No step takes a start script past its end.
LEMMA StartStep ==
    ASSUME VpnTypeOK, [VpnNext]_vpnVars PROVE VpnStartType'
<1>0. VpnStartType
  BY VpnTypes
<1>1. CASE UNCHANGED startAt
  BY <1>0, <1>1 DEF VpnStartType
<1>2. ASSUME NEW s \in Side, Start(s) \/ Execute(s) \/ Dies(s) \/ StopSide(s) PROVE VpnStartType'
  <2>1. Len(Commands(s)) \in Nat
    BY CommandsType
  <2>2. \/ startAt' = [startAt EXCEPT ![s] = 0]
        \/ startAt' = [startAt EXCEPT ![s] = 1]
        \/ startAt[s] \in 1..Len(Commands(s)) /\ startAt' = [startAt EXCEPT ![s] = startAt[s] + 1]
    BY <1>2 DEF Start, Execute, Dies, StopSide
  <2> QED BY <1>0, <2>1, <2>2 DEF VpnStartType
<1> QED BY <1>1, <1>2 DEF VpnNext, InitBegins, InitStops, Down, KeepKey, OpenFile, WriteFile, vpnVars

\* No step spoils the type of the namespaces.
LEMMA NetStep ==
    ASSUME VpnTypeOK, [VpnNext]_vpnVars PROVE NetType'
<1>0. NetType /\ VolumeType
  BY VpnTypes
<1>1. CASE UNCHANGED net
  BY <1>0, <1>1 DEF NetType
<1>2. CASE Down
  BY <1>2, NamespaceTypes DEF NetType, Down
<1>3. ASSUME NEW s \in Side, Start(s) \/ StopSide(s) PROVE NetType'
  BY <1>0, <1>3, NamespaceTypes DEF NetType, Start, StopSide
<1>4. ASSUME NEW s \in Side, Execute(s) PROVE NetType'
  <2> DEFINE n == After(net[s], s, Commands(s)[startAt[s]])
  <2>1. n \in Namespace
    BY <1>0, <1>4, AfterType, CommandsType DEF NetType, VolumeType, Execute
  <2>2. net' \in {[net EXCEPT ![s] = n], [net EXCEPT ![s] = [n EXCEPT !.served = TRUE]]}
    BY <1>4 DEF Execute
  <2> HIDE DEF n
  <2>3. [n EXCEPT !.served = TRUE] \in Namespace
    BY <2>1 DEF Namespace
  <2> QED BY <1>0, <2>1, <2>2, <2>3 DEF NetType
<1> QED BY <1>1, <1>2, <1>3, <1>4 DEF VpnNext, InitBegins, InitStops, KeepKey, OpenFile, WriteFile,
           Dies, vpnVars

\* Hence every step keeps the types.
LEMMA VpnTypeStep ==
    ASSUME VpnInv, [VpnNext]_vpnVars PROVE VpnTypeOK'
<1>1. stops' \in 0..MaxVpnFaults
  BY VpnAssumption DEF VpnInv, VpnTypeOK, VpnNext, InitBegins, InitStops, Down, KeepKey, OpenFile,
     WriteFile, Start, Execute, Dies, StopSide, vpnVars
<1> QED BY <1>1, VolumeStep, InitStep, StartStep, NetStep, VpnTypes DEF VpnInv

\* The rules, for each command of the server and the steps around them.
LEMMA RulesStep ==
    ASSUME VpnInv, [VpnNext]_vpnVars PROVE Rules'
<1> USE DEF VpnInv
<1>0. /\ startAt["server"] \in 0..11 /\ net["server"] \in Namespace /\ "server" \in Side
      /\ startAt \in [Side -> Int] /\ net \in [Side -> Namespace]
  <2>1. "server" \in Side /\ VpnStartType /\ NetType
    BY VpnTypes, Sides
  <2>2. startAt["server"] \in 0..Len(Commands("server")) + 1
    BY <2>1 DEF VpnStartType
  <2>3. startAt["server"] \in 0..11
    BY <2>2, ServerReady, Zenon
  <2> QED BY <2>1, <2>3 DEF VpnStartType, NetType
<1>1. ASSUME startAt'["server"] = startAt["server"], net'["server"] = net["server"] PROVE Rules'
  BY <1>1 DEF Rules
<1>2. ASSUME NEW s \in Side, s # "server", Start(s) \/ Execute(s) \/ Dies(s) \/ StopSide(s)
      PROVE  Rules'
  <2>1. startAt'["server"] = startAt["server"] /\ net'["server"] = net["server"]
    BY <1>0, <1>2 DEF Start, Execute, Dies, StopSide
  <2> QED BY <1>1, <2>1
<1>3. CASE Start("server")
  <2>1. startAt'["server"] = 1 /\ net'["server"] \in {NewNamespace, WithoutWg0(net["server"])}
    BY <1>0, <1>3 DEF Start
  <2>2. CASE net'["server"] = NewNamespace
    BY <2>1, <2>2 DEF Rules, NewNamespace
  <2>3. CASE net'["server"] = WithoutWg0(net["server"])
    <3>1. /\ net'["server"].forward = net["server"].forward
          /\ net'["server"].served = net["server"].served
          /\ net'["server"].policy = net["server"].policy
      BY <1>0, <2>3 DEF WithoutWg0, Namespace
    <3> QED BY <2>1, <3>1 DEF Rules
  <2> QED BY <2>1, <2>2, <2>3
<1>4. CASE Dies("server")
  BY <1>0, <1>4 DEF Rules, Dies
<1>5. CASE StopSide("server")
  BY <1>0, <1>5 DEF Rules, StopSide, WithoutWg0, Namespace
<1>6. CASE Down
  BY <1>0, <1>6 DEF Rules, Down, NewNamespace
<1>7. CASE Execute("server")
  <2> DEFINE n == net["server"]
             k == startAt["server"]
             c == Commands("server")[k]
             m == After(n, "server", c)
             p == net'["server"]
  <2>1. k \in 1..10 /\ startAt'["server"] = k + 1
        /\ p = IF k = 10 THEN [m EXCEPT !.served = TRUE] ELSE m
    BY <1>0, <1>7, ServerCommands DEF Execute
  <2>2. c \in Command /\ n \in Namespace
    BY <1>0, <2>1, CommandsType, ServerCommands
  <2>3. m \in Namespace
    BY <2>2, AfterType, VpnTypes, Sides DEF VolumeType
  <2>4. /\ p.wg0 = m.wg0 /\ p.policy = m.policy /\ p.forward = m.forward /\ p.nat = m.nat
        /\ p.served => k = 10 \/ n.served
    <3>1. m.served = n.served
      BY <2>2, AfterRules
    <3> HIDE DEF m
    <3> QED BY <2>1, <2>2, <2>3, <3>1 DEF Namespace
  <2>5. /\ m.wg0 = IF c = "up" THEN "up" ELSE IF c = "add" THEN "down" ELSE n.wg0
        /\ m.policy = IF c = "drop" THEN "DROP" ELSE n.policy
        /\ m.forward = IF c = "flush" THEN <<>>
                       ELSE IF c \in {"toPrivate", "replies"} THEN Append(n.forward, c)
                       ELSE n.forward
        /\ m.nat = IF c = "natFlush" THEN <<>>
                   ELSE IF c = "masquerade" THEN Append(n.nat, c) ELSE n.nat
    BY <2>2, AfterRules
  <2> HIDE DEF m, p, n, c
  <2>6. /\ k = 1 => c = "add"
        /\ k = 2 => c = "setconf"
        /\ k = 3 => c = "address"
        /\ k = 4 => c = "up"
        /\ k = 5 => c = "flush"
        /\ k = 6 => c = "drop"
        /\ k = 7 => c = "toPrivate"
        /\ k = 8 => c = "replies"
        /\ k = 9 => c = "natFlush"
        /\ k = 10 => c = "masquerade"
    BY ServerCommands DEF c
  <2>7. /\ Append(<<>>, "toPrivate") = <<"toPrivate">>
        /\ Append(<<"toPrivate">>, "replies") = <<"toPrivate", "replies">>
        /\ Append(<<>>, "masquerade") = <<"masquerade">>
    <3>1. "toPrivate" \in Command /\ "replies" \in Command /\ "masquerade" \in Command
      BY DEF Command
    <3> QED BY <3>1, AppendIs
  <2>8. p.wg0 = "up" \/ k + 1 < 5
    BY <2>1, <2>4, <2>5, <2>6 DEF Rules, n
  <2>9. /\ p.served => p.policy = "DROP"
        /\ k + 1 >= 7 => p.policy = "DROP"
    BY <2>1, <2>4, <2>5, <2>6 DEF Rules, n
  <2>10. /\ p.forward \in {<<>>, <<"toPrivate">>, <<"toPrivate", "replies">>}
         /\ k + 1 \in {6, 7} => p.forward = <<>>
         /\ k + 1 = 8 => p.forward = <<"toPrivate">>
         /\ k + 1 >= 9 => p.forward = <<"toPrivate", "replies">>
    <3>1. CASE k \in {1, 2, 3, 4}
      BY <2>1, <2>4, <2>5, <2>6, <3>1 DEF Rules, n
    <3>2. CASE k \in {5, 6, 9, 10}
      BY <2>1, <2>4, <2>5, <2>6, <3>2 DEF Rules, n
    <3>3. CASE k = 7
      <4>1. n.forward = <<>> /\ c = "toPrivate"
        BY <2>6, <3>3 DEF Rules, n
      <4>2. p.forward = <<"toPrivate">>
        BY <2>4, <2>5, <2>7, <4>1
      <4> QED BY <3>3, <4>2
    <3>4. CASE k = 8
      <4>1. n.forward = <<"toPrivate">> /\ c = "replies"
        BY <2>6, <3>4 DEF Rules, n
      <4>2. p.forward = <<"toPrivate", "replies">>
        BY <2>4, <2>5, <2>7, <4>1
      <4> QED BY <3>4, <4>2
    <3> QED BY <2>1, <3>1, <3>2, <3>3, <3>4
  <2>11. /\ k + 1 = 10 => p.nat = <<>>
         /\ k + 1 = 11 => p.nat = <<"masquerade">>
    <3>1. CASE k = 9
      BY <2>4, <2>5, <2>6, <3>1
    <3>2. CASE k = 10
      <4>1. n.nat = <<>> /\ c = "masquerade"
        BY <2>6, <3>2 DEF Rules, n
      <4>2. p.nat = <<"masquerade">>
        BY <2>4, <2>5, <2>7, <4>1
      <4> QED BY <3>2, <4>2
    <3> QED BY <2>1, <3>1, <3>2
  <2> QED BY <2>1, <2>8, <2>9, <2>10, <2>11 DEF Rules, p
<1>8. ASSUME NEW s \in Side, KeepKey(s) \/ OpenFile(s) \/ WriteFile(s) PROVE Rules'
  BY <1>1, <1>8 DEF KeepKey, OpenFile, WriteFile
<1>9. CASE InitBegins \/ InitStops \/ UNCHANGED vpnVars
  BY <1>1, <1>9 DEF InitBegins, InitStops, vpnVars
<1> QED BY <1>2, <1>3, <1>4, <1>5, <1>6, <1>7, <1>8, <1>9 DEF VpnNext

\* The keys: only init writes them, and only where no configuration names them.
LEMMA KeysStep ==
    ASSUME VpnInv, [VpnNext]_vpnVars PROVE KeysKept'
<1> USE DEF VpnInv
<1>0. /\ initAt \in 0..4 /\ private \in [Side -> Empty..MaxKeys] /\ keys \in Nat
      /\ wgconf \in [Side -> Configured] /\ net \in [Side -> Namespace]
  BY WorkIs, VpnAssumption DEF VpnTypeOK
<1>1. CASE InitBegins \/ InitStops \/ UNCHANGED vpnVars
  BY <1>0, <1>1 DEF KeysKept, InitBegins, InitStops, vpnVars, volumes, initRun
<1>2. CASE Down
  BY <1>2 DEF KeysKept, Down, NewNamespace
<1>3. ASSUME NEW s \in Side, KeepKey(s) PROVE KeysKept'
  <2>1. /\ s = "server" => initAt = 1
        /\ s = "client" => initAt = 2
        /\ ~opened' /\ UNCHANGED <<volumes, net>>
    BY <1>0, <1>3, WorkIs, Sides DEF KeepKey
  <2>2. private[s] # Empty => private[s] > 0
    BY <1>0, <1>3, VpnAssumption DEF KeepKey, KeyMissing, NoFile, Empty
  <2>3. initAt' = 0 \/ (initAt' = initAt + 1 /\ private[s] > 0)
    BY <1>0, <1>3, <2>2, NextFileType, VpnTypes DEF KeepKey
  <2> QED BY <1>0, <2>1, <2>3, Sides DEF KeysKept, volumes
<1>4. ASSUME NEW s \in Side, OpenFile(s) PROVE KeysKept'
  <2>1. UNCHANGED <<initAt, net>> /\ opened' /\ ~opened /\ initAt > 0
    BY <1>4 DEF OpenFile
  <2>2. CASE Work[initAt] = <<"key", s>> /\ KeyMissing(s)
             /\ private' = [private EXCEPT ![s] = Empty] /\ UNCHANGED wgconf
    <3>1. initAt = (IF s = "server" THEN 1 ELSE 2)
      BY <1>0, <2>1, <2>2, WorkIs, Sides
    <3>2. private[s] = 0
      BY <2>2 DEF KeyMissing, NoFile
    <3>3. \A q \in Side : wgconf[q] = NoConf /\ net[q].conf = NoConf
      BY <3>2, Sides DEF KeysKept
    <3>4. private'[s] = Empty /\ \A q \in Side \ {s} : private'[q] = private[q]
      BY <1>0, <2>2
    <3> QED BY <1>0, <2>1, <2>2, <3>1, <3>3, <3>4, Sides DEF KeysKept
  <2>3. CASE Work[initAt] = <<"conf", s>>
             /\ wgconf' = [wgconf EXCEPT ![s] = NoConf] /\ UNCHANGED private
    <3>1. initAt \in {3, 4}
      BY <1>0, <2>1, <2>3, WorkIs
    <3>2. \A q \in Side : wgconf'[q] \in {wgconf[q], NoConf}
      BY <1>0, <2>3
    <3> QED BY <2>1, <2>3, <3>1, <3>2 DEF KeysKept
  <2> QED BY <1>4, <2>2, <2>3 DEF OpenFile
<1>5. ASSUME NEW s \in Side, WriteFile(s) PROVE KeysKept'
  <2>1. UNCHANGED net /\ ~opened' /\ opened /\ initAt > 0
        /\ (initAt' = 0 \/ initAt' = initAt + 1)
    BY <1>5, NextFileType, VpnTypes DEF WriteFile
  <2>2. CASE Work[initAt] = <<"key", s>> /\ keys' = keys + 1
             /\ private' = [private EXCEPT ![s] = keys'] /\ UNCHANGED wgconf
    <3>1. initAt = (IF s = "server" THEN 1 ELSE 2)
      BY <1>0, <2>1, <2>2, WorkIs, Sides
    <3>2. private[s] = -1
      BY <2>1, <3>1, Sides DEF KeysKept, Empty
    <3>3. \A q \in Side : wgconf[q] = NoConf /\ net[q].conf = NoConf
      BY <3>2, Sides DEF KeysKept
    <3>4. private'[s] > 0 /\ \A q \in Side \ {s} : private'[q] = private[q]
      BY <1>0, <2>2
    <3> QED BY <1>0, <2>1, <2>2, <3>1, <3>3, <3>4, Sides DEF KeysKept
  <2>3. CASE /\ Work[initAt] = <<"conf", s>>
             /\ wgconf' = [wgconf EXCEPT ![s] = <<private[s], private[Peer[s]]>>]
             /\ UNCHANGED <<private, keys>>
    <3>1. initAt \in {3, 4}
      BY <1>0, <2>1, <2>3, WorkIs
    <3>2. private["server"] > 0 /\ private["client"] > 0
      BY <3>1 DEF KeysKept
    <3>3. \A q \in Side : wgconf'[q] \in {wgconf[q], <<private[q], private[Peer[q]]>>}
      BY <1>0, <2>3
    <3> QED BY <2>1, <2>3, <3>2, <3>3 DEF KeysKept
  <2> QED BY <1>5, <2>2, <2>3 DEF WriteFile
<1>6. ASSUME NEW s \in Side, Start(s) \/ Execute(s) \/ Dies(s) \/ StopSide(s) PROVE KeysKept'
  <2>1. UNCHANGED <<volumes, initRun>>
    BY <1>6 DEF Start, Execute, Dies, StopSide
  <2>2. \A q \in Side : net'[q].conf \in {net[q].conf, wgconf[q], NoConf}
    <3>1. CASE Start(s) \/ StopSide(s) \/ Dies(s)
      BY <1>0, <3>1, NamespaceTypes DEF Start, StopSide, Dies
    <3>2. CASE Execute(s)
      <4> DEFINE n == After(net[s], s, Commands(s)[startAt[s]])
      <4>1. n \in Namespace /\ n.conf \in {net[s].conf, wgconf[s]}
        BY <1>0, <3>2, AfterType, CommandsType DEF Execute
      <4>2. net'[s] \in {n, [n EXCEPT !.served = TRUE]} /\ \A q \in Side \ {s} : net'[q] = net[q]
        BY <1>0, <3>2 DEF Execute
      <4> HIDE DEF n
      <4> QED BY <4>1, <4>2 DEF Namespace
    <3> QED BY <1>6, <3>1, <3>2
  <2> QED BY <2>1, <2>2 DEF KeysKept, volumes, initRun
<1> QED BY <1>1, <1>2, <1>3, <1>4, <1>5, <1>6 DEF VpnNext

\* The inductive invariant of the VPN.
LEMMA VpnInductive == VpnSpec => []VpnInv
<1>1. VpnInit => VpnInv
  <2> SUFFICES ASSUME VpnInit PROVE VpnInv
    OBVIOUS
  <2>1. VolumeType
    BY VpnAssumption DEF VpnInit, VolumeType, Configured, NoFile, Empty
  <2>2. VpnInitType /\ NetType
    <3>1. VpnInitType
      <4>1. opened \in BOOLEAN /\ prepared \in BOOLEAN
        BY Zenon DEF VpnInit
      <4>2. initAt \in 0..4
        BY DEF VpnInit
      <4> QED BY <4>1, <4>2 DEF VpnInitType
    <3>2. NetType
      BY NamespaceTypes DEF VpnInit, NetType
    <3> QED BY <3>1, <3>2
  <2>3. VpnStartType /\ stops \in 0..MaxVpnFaults
    BY CommandsType, VpnAssumption DEF VpnInit, VpnStartType
  <2>4. Rules
    BY Sides DEF VpnInit, Rules, NewNamespace
  <2>5. KeysKept
    BY Sides, NamespaceTypes DEF VpnInit, KeysKept
  <2> QED BY <2>1, <2>2, <2>3, <2>4, <2>5, VpnTypes DEF VpnInv
<1>2. VpnInv /\ [VpnNext]_vpnVars => VpnInv'
  BY VpnTypeStep, RulesStep, KeysStep DEF VpnInv
<1> QED BY <1>1, <1>2, PTL DEF VpnSpec

\* Once the server has been ready in a namespace, it forwards nothing but the
\* client's packets to the private segment and their replies, through failing
\* starts, restarts and stops (vpn.py:34-49, README.md:42).
THEOREM AlwaysConfined == VpnSpec => []Confined
<1>1. VpnInv => Confined
  <2>1. Ready("server") <=> startAt["server"] = 11
    BY ServerReady, Zenon DEF Ready
  <2> QED BY <2>1 DEF VpnInv, Rules, Confined
<1> QED BY <1>1, VpnInductive, PTL

\* Two sides that are configured know each other's key, whichever init was
\* repeated or cut short and whichever side restarted meanwhile (vpn.py:20-29,
\* README.md:68).
THEOREM PeersAlwaysAgree == VpnSpec => []PeersAgree
<1>1. VpnInv => PeersAgree
  BY Sides DEF VpnInv, KeysKept, PeersAgree
<1> QED BY <1>1, VpnInductive, PTL

---------------------------------------------------------------------------
(*************************************************************************)
(* SiemSetup, for any number of attempts and of faults: no service writes *)
(* to an index that Elasticsearch guessed, and no view comes before it.  *)
(*************************************************************************)

\* How far setup() has come is what Elasticsearch has, and no service is there
\* before it has come to its end.
Ordered ==
    /\ \A i \in Index : index[i] # "guessed"
    /\ setupAt \in {2, 3} => template
    /\ setupAt = 3 => index["mini-siem-logs"] = "mapped"
    /\ setUp => template /\ \A i \in Index : index[i] = "mapped"
    /\ services # {} => setUp

\* setup_kibana() posts the second view after the first, and stops trying.
ViewsInOrder ==
    /\ kibanaAt > 0 => tries < MaxTries
    /\ kibanaAt = 2 => "logs" \in views
    /\ kibanaSaid = "created" => views = {"logs", "alerts"}

SetupInv == SetupTypeOK /\ Ordered /\ ViewsInOrder

-----------------------------------------------------------------------------
\* What setup() sends to Elasticsearch, in its order.
LEMMA RequestsAre ==
    /\ Len(Requests) = 3
    /\ Requests[1] = "template" /\ Requests[2] = "mini-siem-logs"
    /\ Requests[3] = "mini-siem-alerts"
BY DEF Requests

\* The data views that setup_kibana posts, in its order.
LEMMA ViewsAre == Len(View) = 2 /\ View[1] = "logs" /\ View[2] = "alerts"
BY DEF View

\* The types, part by part.
ElasticType == /\ template \in BOOLEAN /\ index \in [Index -> {"none", "mapped", "guessed"}]
SetupAtType == setupAt \in 0..3 /\ setUp \in BOOLEAN /\ services \subseteq DOMAIN Writes
               /\ setupFaults \in 0..MaxSetupFaults
KibanaType  == /\ views \subseteq {"logs", "alerts"} /\ kibanaAt \in 0..2
               /\ tries \in 0..MaxTries /\ kibanaSaid \in {"nothing", "created", "unavailable"}

\* The type invariant, in the parts that an action disturbs.
LEMMA SetupTypes ==
    /\ SetupTypeOK <=> ElasticType /\ SetupAtType /\ KibanaType
    /\ SetupTypeOK' <=> ElasticType' /\ SetupAtType' /\ KibanaType'
BY RequestsAre, ViewsAre, Zenon DEF SetupTypeOK, ElasticType, SetupAtType, KibanaType

\* An index that is created while the template is there is mapped.
LEMMA CreatesMapped ==
    ASSUME ElasticType, Ordered, NEW i \in Index, Creates(i), template
    PROVE  /\ index' \in [Index -> {"none", "mapped", "guessed"}]
           /\ index'[i] = "mapped"
           /\ \A j \in Index : index'[j] = index[j] \/ index'[j] = "mapped"
<1>1. index' = [index EXCEPT ![i] = "mapped"]
  BY DEF ElasticType, Ordered, Creates
<1> QED BY <1>1 DEF ElasticType

\* A request of setup() takes it one step on.
LEMMA AppliesRequest ==
    ASSUME SetupInv, setupAt > 0, Applies
    PROVE  /\ ElasticType' /\ template'
           /\ \A j \in Index : index'[j] = index[j] \/ index'[j] = "mapped"
           /\ setupAt = 2 => index'["mini-siem-logs"] = "mapped"
           /\ setupAt = 3 => index'["mini-siem-alerts"] = "mapped"
<1>0. ElasticType /\ Ordered /\ setupAt \in {1, 2, 3}
  BY SetupTypes DEF SetupInv, SetupAtType
<1>1. CASE setupAt = 1
  BY <1>0, <1>1, RequestsAre DEF Applies, ElasticType
<1>2. CASE setupAt = 2
  <2>1. Creates("mini-siem-logs") /\ template' = template /\ template
    BY <1>0, <1>2, RequestsAre DEF Applies, Ordered
  <2>2. "mini-siem-logs" \in Index
    BY DEF Index
  <2> QED BY <1>0, <1>2, <2>1, <2>2, CreatesMapped DEF ElasticType
<1>3. CASE setupAt = 3
  <2>1. Creates("mini-siem-alerts") /\ template' = template /\ template
    BY <1>0, <1>3, RequestsAre DEF Applies, Ordered
  <2>2. "mini-siem-alerts" \in Index
    BY DEF Index
  <2> QED BY <1>0, <1>3, <2>1, <2>2, CreatesMapped DEF ElasticType
<1> QED BY <1>0, <1>1, <1>2, <1>3

\* The steps that touch Elasticsearch, setup() and the services.
LEMMA OrderedStep ==
    ASSUME SetupInv, [SetupNext]_setupVars
    PROVE  ElasticType' /\ SetupAtType' /\ Ordered'
<1>0. ElasticType /\ SetupAtType /\ Ordered /\ MaxSetupFaults \in Nat
  BY SetupTypes, SiemSetupAssumption DEF SetupInv
<1>1. CASE UNCHANGED <<elastic, setupRun, services>> /\ setupFaults' \in 0..MaxSetupFaults
  BY <1>0, <1>1 DEF ElasticType, SetupAtType, Ordered, elastic, setupRun
<1>2. CASE SetupBegins
  BY <1>0, <1>2 DEF ElasticType, SetupAtType, Ordered, SetupBegins, elastic
<1>3. CASE Put
  <2>1. /\ ElasticType' /\ template'
        /\ \A j \in Index : index'[j] = index[j] \/ index'[j] = "mapped"
        /\ setupAt = 2 => index'["mini-siem-logs"] = "mapped"
        /\ setupAt = 3 => index'["mini-siem-alerts"] = "mapped"
    BY <1>3, AppliesRequest DEF Put
  <2>2. \/ setupAt \in {1, 2} /\ setupAt' = setupAt + 1 /\ UNCHANGED setUp
        \/ setupAt = 3 /\ setupAt' = 0 /\ setUp' = TRUE
    <3>1. setupAt \in 1..3 /\ (setupAt < 3 \/ setupAt = 3)
      BY <1>0, <1>3 DEF Put, SetupAtType
    <3>2. IF setupAt < 3 THEN setupAt' = setupAt + 1 /\ UNCHANGED setUp
                         ELSE setupAt' = 0 /\ setUp' = TRUE
      BY <1>3, RequestsAre, Zenon DEF Put
    <3> QED BY <3>1, <3>2
  <2>3. UNCHANGED <<services, setupFaults>>
    BY <1>3 DEF Put
  <2>4. SetupAtType'
    <3>1. setUp' \in BOOLEAN
      BY <1>0, <2>2, Zenon DEF SetupAtType
    <3> QED BY <1>0, <2>2, <2>3, <3>1 DEF SetupAtType
  <2>5. Ordered'
    <3>1. setUp' => \A i \in Index : index'[i] = "mapped"
      BY <1>0, <2>1, <2>2 DEF Ordered, Index
    <3>2. setupAt' = 3 => index'["mini-siem-logs"] = "mapped"
      BY <1>0, <2>1, <2>2
    <3>3. \A i \in Index : index'[i] # "guessed"
      BY <1>0, <2>1 DEF Ordered
    <3>4. services' # {} => setUp'
      BY <1>0, <2>2, <2>3 DEF Ordered
    <3> QED BY <2>1, <3>1, <3>2, <3>3, <3>4 DEF Ordered
  <2> QED BY <2>1, <2>4, <2>5
<1>4. CASE PutFails
  <2>1. UNCHANGED <<setUp, services>> /\ setupAt' = 0 /\ setupFaults' \in 0..MaxSetupFaults
    BY <1>0, <1>4 DEF PutFails, SetupFault, SetupAtType
  <2>2. /\ ElasticType' /\ (template => template')
        /\ \A j \in Index : index'[j] = index[j] \/ index'[j] = "mapped"
    BY <1>0, <1>4, AppliesRequest DEF PutFails, elastic, ElasticType
  <2>3. SetupAtType'
    BY <1>0, <2>1 DEF SetupAtType
  <2>4. Ordered'
    BY <1>0, <2>1, <2>2 DEF Ordered
  <2> QED BY <2>2, <2>3, <2>4
<1>5. CASE Removed
  <2>1. setupFaults' \in 0..MaxSetupFaults
    BY <1>0, <1>5 DEF Removed, SetupFault, SetupAtType
  <2>2. /\ template' = FALSE /\ index' = [i \in Index |-> "none"]
        /\ setupAt' = 0 /\ setUp' = FALSE /\ services' = {}
    BY <1>5 DEF Removed
  <2>3. ElasticType'
    BY <2>2 DEF ElasticType
  <2>4. SetupAtType'
    <3>1. setUp' \in BOOLEAN
      BY <2>2, Zenon
    <3> QED BY <2>1, <2>2, <3>1 DEF SetupAtType
  <2> QED BY <2>2, <2>3, <2>4 DEF Ordered
<1>6. ASSUME NEW s \in DOMAIN Writes, ServiceStarts(s)
      PROVE  ElasticType' /\ SetupAtType' /\ Ordered'
  BY <1>0, <1>6 DEF ElasticType, SetupAtType, Ordered, ServiceStarts, elastic, setupRun
<1>7. ASSUME NEW s \in DOMAIN Writes, ServiceWrites(s)
      PROVE  ElasticType' /\ SetupAtType' /\ Ordered'
  <2>1. Writes[s] \in Index
    BY DEF Writes, Index
  <2>2. template /\ Creates(Writes[s]) /\ UNCHANGED <<template, setupRun, services, setupFaults>>
    BY <1>0, <1>7 DEF Ordered, ServiceWrites
  <2>3. /\ index' \in [Index -> {"none", "mapped", "guessed"}]
        /\ \A j \in Index : index'[j] = index[j] \/ index'[j] = "mapped"
    BY <1>0, <2>1, <2>2, CreatesMapped
  <2>4. ElasticType'
    BY <1>0, <2>2, <2>3 DEF ElasticType
  <2>5. SetupAtType'
    BY <1>0, <2>2 DEF SetupAtType, setupRun
  <2>6. Ordered'
    <3>1. "mini-siem-logs" \in Index
      BY DEF Index
    <3> QED BY <1>0, <2>2, <2>3, <3>1 DEF Ordered, setupRun
  <2> QED BY <2>4, <2>5, <2>6
<1>8. CASE KibanaBegins \/ PostView \/ PostFails \/ KibanaStops \/ UNCHANGED setupVars
  <2>1. UNCHANGED <<elastic, setupRun, services>> /\ setupFaults' \in 0..MaxSetupFaults
    BY <1>0, <1>8 DEF KibanaBegins, PostView, PostFails, KibanaStops, SetupFault, setupVars,
       SetupAtType
  <2> QED BY <1>1, <2>1
<1> QED BY <1>2, <1>3, <1>4, <1>5, <1>6, <1>7, <1>8 DEF SetupNext

\* The steps of setup_kibana().
LEMMA ViewsStep ==
    ASSUME SetupInv, [SetupNext]_setupVars
    PROVE  KibanaType' /\ ViewsInOrder'
<1>0. KibanaType /\ ViewsInOrder /\ MaxTries \in Nat \ {0}
  BY SetupTypes, SiemSetupAssumption DEF SetupInv
<1>1. CASE UNCHANGED kibana
  BY <1>0, <1>1 DEF KibanaType, ViewsInOrder, kibana
<1>2. CASE KibanaBegins \/ KibanaStops \/ Removed
  <2>1. kibanaAt' \in {0, 1} /\ tries' \in {0, tries} /\ (kibanaAt' = 1 => tries' = 0)
    BY <1>2 DEF KibanaBegins, KibanaStops, Removed
  <2>2. \/ kibanaSaid' = "nothing" /\ views' \in {{}, views}
        \/ UNCHANGED <<kibanaSaid, views>>
    BY <1>2 DEF KibanaBegins, KibanaStops, Removed
  <2>3. KibanaType'
    <3>1. tries' \in 0..MaxTries
      BY <1>0, <2>1 DEF KibanaType
    <3>2. views' \subseteq {"logs", "alerts"} /\ kibanaSaid' \in {"nothing", "created", "unavailable"}
      BY <1>0, <2>2 DEF KibanaType
    <3> QED BY <2>1, <3>1, <3>2 DEF KibanaType
  <2>4. ViewsInOrder'
    BY <1>0, <2>1, <2>2 DEF ViewsInOrder
  <2> QED BY <2>3, <2>4
<1>3. CASE PostView
  <2>1. tries' = tries /\ kibanaAt \in {1, 2}
    BY <1>0, <1>3 DEF KibanaType, PostView
  <2>2. CASE kibanaAt = 1
    <3>1. views' = views \cup {"logs"} /\ kibanaAt' = 2 /\ kibanaSaid' = kibanaSaid
      BY <1>3, <2>2, ViewsAre DEF PostView
    <3> QED BY <1>0, <2>1, <3>1 DEF KibanaType, ViewsInOrder
  <2>3. CASE kibanaAt = 2
    <3>1. views' = views \cup {"alerts"} /\ kibanaAt' = 0 /\ kibanaSaid' = "created"
      BY <1>3, <2>3, ViewsAre DEF PostView
    <3>2. views' = {"logs", "alerts"}
      BY <1>0, <2>3, <3>1 DEF KibanaType, ViewsInOrder
    <3> QED BY <1>0, <2>1, <3>1, <3>2 DEF KibanaType, ViewsInOrder
  <2> QED BY <2>1, <2>2, <2>3
<1>4. CASE PostFails
  <2>1. kibanaAt \in {1, 2} /\ View[kibanaAt] \in {"logs", "alerts"}
    BY <1>0, <1>4, ViewsAre DEF KibanaType, PostFails
  <2>2. kibanaSaid' \in {kibanaSaid, "unavailable"} /\ kibanaAt' \in {0, 1}
    BY <1>4 DEF PostFails
  <2>3. views \subseteq views' /\ views' \subseteq {"logs", "alerts"}
    BY <1>0, <1>4, <2>1 DEF KibanaType, PostFails
  <2>4. tries' \in 0..MaxTries /\ (kibanaAt' > 0 => tries' < MaxTries)
    BY <1>0, <1>4 DEF KibanaType, ViewsInOrder, PostFails
  <2>5. KibanaType'
    BY <1>0, <2>2, <2>3, <2>4 DEF KibanaType
  <2>6. ViewsInOrder'
    <3>1. views = {"logs", "alerts"} => views' = {"logs", "alerts"}
      BY <2>3
    <3>2. kibanaSaid' = "created" => kibanaSaid = "created"
      BY <2>2
    <3> QED BY <1>0, <2>2, <2>4, <3>1, <3>2 DEF ViewsInOrder
  <2> QED BY <2>5, <2>6
<1> QED BY <1>1, <1>2, <1>3, <1>4 DEF SetupNext, SetupBegins, Put, PutFails, ServiceStarts,
           ServiceWrites, setupVars

\* The inductive invariant of the set-up.
LEMMA SetupInductive == SetupSpec => []SetupInv
<1>1. SetupInit => SetupInv
  <2> SUFFICES ASSUME SetupInit PROVE SetupInv
    OBVIOUS
  <2>1. ElasticType
    BY DEF SetupInit, ElasticType
  <2>2. SetupAtType
    <3>1. setUp \in BOOLEAN
      BY Zenon DEF SetupInit
    <3> QED BY <3>1, SiemSetupAssumption DEF SetupInit, SetupAtType
  <2>3. KibanaType
    BY SiemSetupAssumption DEF SetupInit, KibanaType
  <2>4. Ordered /\ ViewsInOrder
    BY DEF SetupInit, Ordered, ViewsInOrder
  <2> QED BY <2>1, <2>2, <2>3, <2>4, SetupTypes DEF SetupInv
<1>2. SetupInv /\ [SetupNext]_setupVars => SetupInv'
  BY OrderedStep, ViewsStep, SetupTypes DEF SetupInv
<1> QED BY <1>1, <1>2, PTL DEF SetupSpec

\* No document is indexed under a guessed mapping, however often setup() fails
\* and is repeated, and Kibana's views are reported only when both exist
\* (siem/app.py:31-74).
THEOREM SetupIsTrustworthy == SetupSpec => []SetupTrustworthy
<1>1. SetupInv => SetupTrustworthy
  BY DEF SetupInv, Ordered, ViewsInOrder, SetupTrustworthy
<1> QED BY <1>1, SetupInductive, PTL

---------------------------------------------------------------------------
(*************************************************************************)
(* NetScan, for any networks, ports, scopes and threads: the k-th job is the *)
(* one of rank k, the connections are the jobs taken, and what is taken is *)
(* some thread's or has a result.                                        *)
(*************************************************************************)

Result == {"none", "raised", "open", "open with banner", "closed", "filtered_or_unreachable", "error"}

ScanTypes ==
    /\ jobs \in Seq(Int \X Int) /\ contacts \in Seq(Int \X Int)
    /\ taken \in 0..Len(jobs) /\ busy \in [Worker -> 0..taken]
    /\ found \in [1..Len(jobs) -> Result]
    /\ report \in {"none", "refused", "aborted", "json", "html"}

\* There are no jobs but those of arguments that were not refused.
Admitted ==
    /\ args = <<>> => jobs = <<>> /\ report = "none"
    /\ jobs # <<>> => args \in Arguments /\ ~Refused(args) /\ jobs = JobsOf(args)
    /\ report = "refused" => jobs = <<>>

\* The connections attempted are the jobs taken, but for those that got no socket.
Contacted ==
    /\ Range(contacts) = {jobs[k] : k \in {i \in 1..taken : found[i] # "raised"}}
    /\ IsInjective(contacts) /\ Len(contacts) <= taken

\* A job that is taken and has no result is some worker's; one that is not taken
\* has none.
InWork ==
    /\ \A k \in 1..taken : found[k] = "none" => \E w \in Worker : busy[w] = k
    /\ \A k \in 1..Len(jobs) : k > taken => found[k] = "none"

\* A report is written when all is done, and nothing is done after it.
Finished ==
    report \in {"json", "html"} =>
        /\ jobs # <<>> /\ taken = Len(jobs) /\ \A w \in Worker : busy[w] = 0
        /\ \A k \in 1..Len(jobs) : found[k] \notin {"none", "raised"}

ScanInv == ScanTypes /\ Admitted /\ Contacted /\ InWork /\ Finished

\* Addresses and ports are numbers, and there are finitely many.
LEMMA HostsFinite ==
    ASSUME NEW n \in Network
    PROVE  IsFiniteSet(Hosts(n)) /\ Hosts(n) \in SUBSET (0..LastAddress) /\ Hosts(n) \in SUBSET Int
<1>0. n \in [first : 0..LastAddress, size : 1..LastAddress + 1] /\ n.first + n.size - 1 <= LastAddress
  BY DEF Network
<1>1. n.first \in Int /\ n.size \in Int /\ n.first >= 0
  BY <1>0
<1>2. n.first + n.size - 1 \in Int
  BY <1>1
<1>3. IsFiniteSet(Addr(n)) /\ Addr(n) \in SUBSET (0..LastAddress) /\ Addr(n) \in SUBSET Int
  <2>1. IsFiniteSet(Addr(n))
    BY <1>1, <1>2, FS_Interval DEF Addr
  <2>2. LastAddress \in Int
    BY NetScanAssumption
  <2> QED BY <1>0, <1>1, <1>2, <2>1, <2>2 DEF Addr
<1>4. Hosts(n) \in SUBSET Addr(n)
  BY DEF Hosts
<1> QED BY <1>3, <1>4, FS_Subset

\* Arguments that can be given ask for finitely many addresses and ports.
LEMMA AskedFinite ==
    ASSUME NEW a \in Arguments
    PROVE  /\ IsFiniteSet(Ips(a.targets)) /\ IsFiniteSet(Ports(a.ports))
           /\ Ips(a.targets) \in SUBSET Int /\ Ports(a.ports) \in SUBSET Int
<1>0. a.targets \in Seq(Network) /\ a.ports \in Seq(Int \X Int)
  BY NetScanAssumption DEF Arguments
<1> DEFINE t == a.targets
           p == a.ports
           H == {Hosts(t[k]) : k \in DOMAIN t}
           J == {p[k][1]..p[k][2] : k \in DOMAIN p}
<1>1. /\ DOMAIN t = 1..Len(t) /\ Len(t) \in Int /\ \A k \in DOMAIN t : t[k] \in Network
      /\ DOMAIN p = 1..Len(p) /\ Len(p) \in Int
      /\ \A k \in DOMAIN p : p[k][1] \in Int /\ p[k][2] \in Int
  BY <1>0
<1>2. IsFiniteSet(DOMAIN t) /\ IsFiniteSet(DOMAIN p)
  <2>1. \A n \in Int : IsFiniteSet(1..n)
    BY FS_Interval
  <2>2. Len(t) \in Int /\ Len(p) \in Int /\ DOMAIN t = 1..Len(t) /\ DOMAIN p = 1..Len(p)
    BY <1>1
  <2> HIDE DEF t, p
  <2>3. IsFiniteSet(1..Len(t)) /\ IsFiniteSet(1..Len(p))
    BY <2>1, <2>2
  <2> QED BY <2>2, <2>3
<1>3. [k \in DOMAIN t |-> Hosts(t[k])] \in Surjection(DOMAIN t, H)
  BY DEF Surjection
<1>4. [k \in DOMAIN p |-> p[k][1]..p[k][2]] \in Surjection(DOMAIN p, J)
  BY DEF Surjection
<1>5. IsFiniteSet(H) /\ IsFiniteSet(J)
  BY <1>2, <1>3, <1>4, FS_Surjection
<1>6. \A T \in H : IsFiniteSet(T) /\ T \in SUBSET Int
  BY <1>1, HostsFinite
<1>7. \A T \in J : IsFiniteSet(T) /\ T \in SUBSET Int
  <2>1. \A m, n \in Int : IsFiniteSet(m..n) /\ m..n \in SUBSET Int
    BY FS_Interval
  <2>2. \A k \in DOMAIN p : IsFiniteSet(p[k][1]..p[k][2]) /\ p[k][1]..p[k][2] \in SUBSET Int
    BY <1>1, <2>1, Zenon
  <2> QED BY <2>2
<1>8. IsFiniteSet(UNION H) /\ IsFiniteSet(UNION J)
  BY <1>5, <1>6, <1>7, FS_UNION
<1>9. UNION H \in SUBSET Int /\ UNION J \in SUBSET Int
  BY <1>6, <1>7
<1> QED BY <1>8, <1>9 DEF Ips, Ports

\* The pairs of A that come before one, and how many there are.
Preceding(A, j) == {i \in A : Before(i, j)}
Rank(A, j)      == Cardinality(Preceding(A, j))

\* "Before" orders the pairs strictly, and any two of them.
LEMMA BeforeOrders ==
    ASSUME NEW i \in Int \X Int, NEW j \in Int \X Int, NEW k \in Int \X Int
    PROVE  /\ ~Before(i, i)
           /\ i # j => Before(i, j) \/ Before(j, i)
           /\ Before(i, j) /\ Before(j, k) => Before(i, k)
<1>1. /\ i[1] \in Int /\ i[2] \in Int /\ j[1] \in Int /\ j[2] \in Int
      /\ k[1] \in Int /\ k[2] \in Int /\ i = <<i[1], i[2]>> /\ j = <<j[1], j[2]>>
  OBVIOUS
<1>2. i[1] = j[1] /\ i[2] = j[2] => i = j
  BY <1>1
<1> QED BY <1>1, <1>2 DEF Before

\* Of two pairs, the later has the higher rank.
LEMMA RankGrows ==
    ASSUME NEW A \in SUBSET (Int \X Int), IsFiniteSet(A),
           NEW i \in A, NEW j \in A, Before(i, j)
    PROVE  Rank(A, i) < Rank(A, j)
<1> DEFINE P == Preceding(A, i)
           Q == Preceding(A, j)
<1>1. P \in SUBSET A /\ Q \in SUBSET A /\ P \in SUBSET Q
  BY BeforeOrders DEF Preceding
<1>2. i \in Q /\ i \notin P
  BY BeforeOrders DEF Preceding
<1>3. IsFiniteSet(P) /\ IsFiniteSet(Q)
  BY <1>1, FS_Subset
<1>4. Cardinality(P) <= Cardinality(Q) /\ Cardinality(P) # Cardinality(Q)
  BY <1>1, <1>2, <1>3, FS_Subset
<1>5. Cardinality(P) \in Nat /\ Cardinality(Q) \in Nat
  BY <1>3, FS_CardinalityType
<1> QED BY <1>4, <1>5 DEF Rank

\* The ranks are 0 and so on, each that of one pair.
LEMMA Ranks ==
    ASSUME NEW A \in SUBSET (Int \X Int), IsFiniteSet(A)
    PROVE  /\ \A j \in A : Rank(A, j) \in 0..Cardinality(A) - 1
           /\ \A i, j \in A : Rank(A, i) = Rank(A, j) => i = j
           /\ \A k \in 0..Cardinality(A) - 1 : \E j \in A : Rank(A, j) = k
<1> DEFINE n == Cardinality(A)
           r == [j \in A |-> Rank(A, j)]
<1>0. n \in Nat
  BY FS_CardinalityType
<1>1. ASSUME NEW j \in A PROVE Rank(A, j) \in 0..n - 1
  <2>1. Preceding(A, j) \in SUBSET A /\ Preceding(A, j) # A
    BY BeforeOrders DEF Preceding
  <2>2. Rank(A, j) <= n /\ Rank(A, j) # n /\ IsFiniteSet(Preceding(A, j))
    BY <2>1, FS_Subset DEF Rank
  <2>3. Rank(A, j) \in Nat
    BY <2>2, FS_CardinalityType DEF Rank
  <2> QED BY <1>0, <2>2, <2>3
<1>2. ASSUME NEW i \in A, NEW j \in A, Rank(A, i) = Rank(A, j) PROVE i = j
  <2>1. Rank(A, i) \in Int /\ ~(Rank(A, i) < Rank(A, j)) /\ ~(Rank(A, j) < Rank(A, i))
    BY <1>1, <1>2
  <2>2. ~Before(i, j) /\ ~Before(j, i)
    BY <2>1, RankGrows
  <2> QED BY <2>2, BeforeOrders
<1>3. r \in Injection(A, 0..n - 1)
  BY <1>1, <1>2 DEF Injection, IsInjective
<1>4. IsFiniteSet(0..n - 1) /\ Cardinality(0..n - 1) = n
  <2> HIDE DEF n
  <2>1. n - 1 \in Int /\ (IF 0 > n - 1 THEN 0 ELSE n - 1 - 0 + 1) = n
    BY <1>0
  <2> QED BY <2>1, FS_Interval
<1>5. r \in Surjection(A, 0..n - 1)
  BY <1>3, <1>4, FS_Injection
<1> QED BY <1>1, <1>2, <1>5 DEF Surjection

\* The jobs are what is asked for, each once.
LEMMA JobsAre ==
    ASSUME NEW a \in Arguments
    PROVE  LET asked == Ips(a.targets) \X Ports(a.ports)
           IN  /\ JobsOf(a) \in Seq(Int \X Int) /\ Range(JobsOf(a)) = asked
               /\ IsInjective(JobsOf(a))
               /\ Len(JobsOf(a)) = Cardinality(Ips(a.targets)) * Cardinality(Ports(a.ports))
<1> DEFINE A == Ips(a.targets) \X Ports(a.ports)
           n == Cardinality(A)
           s == [k \in 1..n |-> CHOOSE j \in A : Rank(A, j) = k - 1]
<1>1. A \in SUBSET (Int \X Int) /\ IsFiniteSet(A)
      /\ n = Cardinality(Ips(a.targets)) * Cardinality(Ports(a.ports)) /\ n \in Nat
  <2>1. A \in SUBSET (Int \X Int)
    BY AskedFinite
  <2> QED BY <2>1, AskedFinite, FS_Product, FS_CardinalityType
<1>2. JobsOf(a) = s
  BY DEF JobsOf, Rank, Preceding
<1> HIDE DEF A, n
<1>3. /\ \A j \in A : Rank(A, j) \in 0..n - 1
      /\ \A i, j \in A : Rank(A, i) = Rank(A, j) => i = j
      /\ \A k \in 0..n - 1 : \E j \in A : Rank(A, j) = k
  BY <1>1, Ranks DEF n
<1>4. \A k \in 1..n : k - 1 \in 0..n - 1
  BY <1>1
<1>5. \A k \in 1..n : s[k] \in A /\ Rank(A, s[k]) = k - 1
  BY <1>3, <1>4
<1> HIDE DEF s
<1>6. DOMAIN s = 1..n
  BY DEF s
<1>7. \A i, k \in 1..n : s[i] = s[k] => i = k
  <2> SUFFICES ASSUME NEW i \in 1..n, NEW k \in 1..n, s[i] = s[k] PROVE i = k
    OBVIOUS
  <2>1. i - 1 = k - 1
    BY <1>5
  <2> QED BY <2>1, <1>1
<1>8. \A j \in A : \E k \in 1..n : s[k] = j
  <2> SUFFICES ASSUME NEW j \in A PROVE s[Rank(A, j) + 1] = j /\ Rank(A, j) + 1 \in 1..n
    OBVIOUS
  <2> DEFINE k == Rank(A, j) + 1
  <2>1. k \in 1..n /\ k - 1 = Rank(A, j)
    BY <1>1, <1>3
  <2> HIDE DEF k
  <2>2. s[k] = j
    BY <1>3, <1>5, <2>1
  <2> QED BY <2>1, <2>2 DEF k
<1>9. s \in Seq(A) /\ Len(s) = n
  <2>1. s = [k \in 1..n |-> s[k]]
    BY DEF s
  <2>2. s \in [1..n -> A]
    BY <2>1, <1>5
  <2> QED BY <2>2, <1>1
<1>10. s \in Seq(Int \X Int)
  BY <1>1, <1>9
<1>11. Range(s) = A
  BY <1>5, <1>6, <1>8 DEF Range
<1>12. IsInjective(s)
  BY <1>6, <1>7 DEF IsInjective
<1> QED BY <1>1, <1>2, <1>9, <1>10, <1>11, <1>12 DEF A

\* A connection more.
LEMMA OneMore ==
    ASSUME NEW s \in Seq(Int \X Int), IsInjective(s), NEW j \in Int \X Int, j \notin Range(s)
    PROVE  /\ Append(s, j) \in Seq(Int \X Int) /\ Len(Append(s, j)) = Len(s) + 1
           /\ Range(Append(s, j)) = Range(s) \cup {j} /\ IsInjective(Append(s, j))
<1> DEFINE t == Append(s, j)
           n == Len(s)
<1>1. /\ t \in Seq(Int \X Int) /\ Len(t) = n + 1 /\ n \in Nat
      /\ DOMAIN s = 1..n /\ DOMAIN t = 1..n + 1
      /\ t[n + 1] = j /\ \A k \in 1..n : t[k] = s[k]
  OBVIOUS
<1> HIDE DEF t, n
<1>2. \A k \in 1..n + 1 : k \in 1..n \/ k = n + 1
  BY <1>1
<1>3. 1..n \subseteq 1..n + 1 /\ n + 1 \in 1..n + 1
  BY <1>1
<1>4. Range(t) = Range(s) \cup {j}
  <2>1. \A x : x \in Range(t) <=> \E k \in 1..n + 1 : x = t[k]
    BY <1>1 DEF Range
  <2>2. \A x : x \in Range(s) <=> \E k \in 1..n : x = s[k]
    BY <1>1 DEF Range
  <2>3. \A x : x \in Range(t) <=> x \in Range(s) \cup {j}
    BY <1>1, <1>2, <1>3, <2>1, <2>2
  <2> QED BY <2>3
<1>5. \A k \in 1..n : s[k] # j
  BY <1>1 DEF Range
<1>6. IsInjective(t)
  BY <1>1, <1>2, <1>5 DEF IsInjective
<1> QED BY <1>1, <1>4, <1>6 DEF t, n

\* Arguments are no empty command line.
LEMMA NotBlank == ASSUME NEW a \in Arguments PROVE a # <<>>
<1>1. "scope" \in DOMAIN a /\ DOMAIN <<>> = {}
  BY DEF Arguments
<1> QED BY <1>1

\* The command line is read.
LEMMA ParseStep == ASSUME ScanInv, NEW a \in Arguments, Parse(a) PROVE ScanInv'
<1> USE DEF ScanInv
<1>0. args = <<>> /\ args' = a /\ a # <<>> /\ jobs = <<>> /\ report = "none"
      /\ UNCHANGED <<taken, busy, contacts>>
  BY NotBlank DEF Parse, Admitted
<1>1. taken = 0 /\ Len(contacts) <= 0 /\ Range(contacts) = {}
  <2>1. taken \in 0..0
    BY <1>0 DEF ScanTypes
  <2> QED BY <2>1 DEF Contacted
<1>2. CASE Refused(a)
  <2>1. report' = "refused" /\ UNCHANGED <<jobs, found>>
    BY <1>2 DEF Parse
  <2>2. ScanTypes'
    BY <1>0, <2>1 DEF ScanTypes
  <2> QED BY <1>0, <2>1, <2>2 DEF Admitted, Contacted, InWork, Finished
<1>3. CASE ~Refused(a)
  <2>1. jobs' = JobsOf(a) /\ found' = [k \in DOMAIN jobs' |-> "none"] /\ UNCHANGED report
    BY <1>3 DEF Parse
  <2>2. jobs' \in Seq(Int \X Int)
    BY <2>1, JobsAre
  <2>3. DOMAIN jobs' = 1..Len(jobs') /\ Len(jobs') \in Nat
    BY <2>2
  <2>4. found' \in [1..Len(jobs') -> Result] /\ \A k \in 1..Len(jobs') : found'[k] = "none"
    BY <2>1, <2>3 DEF Result
  <2>5. taken' = 0 /\ taken' \in 0..Len(jobs')
    BY <1>0, <1>1, <2>3
  <2>6. ScanTypes'
    BY <1>0, <2>1, <2>2, <2>4, <2>5 DEF ScanTypes
  <2>7. Admitted'
    BY <1>0, <1>3, <2>1 DEF Admitted
  <2>8. Contacted'
    <3>1. Range(contacts)' = {} /\ Len(contacts') <= taken' /\ IsInjective(contacts')
      BY <1>0, <1>1, <2>5 DEF Contacted
    <3>2. {i \in 1..taken' : found'[i] # "raised"} = {}
      BY <2>5
    <3> QED BY <3>1, <3>2 DEF Contacted
  <2> QED BY <1>0, <2>1, <2>4, <2>5, <2>6, <2>7, <2>8 DEF InWork, Finished
<1> QED BY <1>2, <1>3

\* The jobs of arguments that were admitted, each once.
LEMMA JobsInjective ==
    ASSUME ScanInv
    PROVE  /\ DOMAIN jobs = 1..Len(jobs) /\ Len(jobs) \in Nat /\ taken \in Nat
           /\ \A k \in 1..Len(jobs) : jobs[k] \in Int \X Int
           /\ \A i, k \in 1..Len(jobs) : jobs[i] = jobs[k] => i = k
<1>1. DOMAIN jobs = 1..Len(jobs) /\ Len(jobs) \in Nat /\ taken \in Nat
      /\ \A k \in 1..Len(jobs) : jobs[k] \in Int \X Int
  BY DEF ScanInv, ScanTypes
<1>2. CASE jobs = <<>>
  BY <1>1, <1>2
<1>3. CASE jobs # <<>>
  BY <1>1, <1>3, JobsAre DEF ScanInv, Admitted, IsInjective
<1> QED BY <1>1, <1>2, <1>3

\* A job is taken and a connection attempted.
LEMMA ConnectStep == ASSUME ScanInv, NEW w \in Worker, Connect(w) PROVE ScanInv'
<1> USE DEF ScanInv
<1>0. /\ taken' = taken + 1 /\ taken < Len(jobs) /\ report = "none"
      /\ busy' = [busy EXCEPT ![w] = taken + 1] /\ busy[w] = 0
      /\ contacts' = Append(contacts, jobs[taken + 1])
      /\ UNCHANGED <<args, jobs, found, report>>
  BY DEF Connect, Takes
<1>1. /\ taken + 1 \in 1..Len(jobs) /\ taken \in 0..Len(jobs) /\ taken + 1 \in 0..taken + 1
      /\ \A k \in 1..taken + 1 : k \in 1..taken \/ k = taken + 1
  BY <1>0, JobsInjective
<1>2. jobs[taken + 1] \notin Range(contacts)
  <2> SUFFICES ASSUME jobs[taken + 1] \in Range(contacts) PROVE FALSE
    OBVIOUS
  <2>1. PICK k \in 1..taken : jobs[k] = jobs[taken + 1]
    BY DEF Contacted
  <2>2. k \in 1..Len(jobs) /\ k # taken + 1
    BY <1>1, JobsInjective
  <2> QED BY <1>1, <2>1, <2>2, JobsInjective
<1>3. /\ contacts' \in Seq(Int \X Int) /\ Len(contacts') = Len(contacts) + 1
      /\ Range(contacts)' = Range(contacts) \cup {jobs[taken + 1]} /\ IsInjective(contacts)'
  <2>1. contacts \in Seq(Int \X Int) /\ IsInjective(contacts) /\ jobs[taken + 1] \in Int \X Int
    BY <1>1, JobsInjective DEF ScanTypes, Contacted
  <2> QED BY <1>0, <1>2, <2>1, OneMore
<1>4. ScanTypes'
  <2>1. busy' \in [Worker -> 0..taken + 1]
    BY <1>0, <1>1, JobsInjective DEF ScanTypes
  <2>2. taken' \in 0..Len(jobs')
    BY <1>0, <1>1
  <2> QED BY <1>0, <1>3, <2>1, <2>2 DEF ScanTypes
<1>5. Contacted'
  <2>1. found[taken + 1] = "none"
    BY <1>1, JobsInjective DEF InWork
  <2>2. {i \in 1..taken + 1 : found[i] # "raised"} = {i \in 1..taken : found[i] # "raised"} \cup {taken + 1}
    BY <1>1, <2>1, JobsInjective
  <2>3. Len(contacts') <= taken'
    BY <1>0, <1>3, JobsInjective DEF Contacted, ScanTypes
  <2> DEFINE before == {i \in 1..taken : found[i] # "raised"}
  <2>4. {jobs[k] : k \in before \cup {taken + 1}} = {jobs[k] : k \in before} \cup {jobs[taken + 1]}
    <3> HIDE DEF before
    <3> QED OBVIOUS
  <2>5. Range(contacts)' = {jobs[k] : k \in before \cup {taken + 1}}
    BY <1>3, <2>4 DEF Contacted
  <2> QED BY <1>0, <1>3, <2>2, <2>3, <2>5 DEF Contacted
<1>6. InWork'
  <2>1. ASSUME NEW k \in 1..taken + 1, found[k] = "none" PROVE \E v \in Worker : busy'[v] = k
    <3>1. CASE k = taken + 1
      BY <1>0, <3>1 DEF ScanTypes
    <3>2. CASE k \in 1..taken
      <4>1. PICK v \in Worker : busy[v] = k
        BY <2>1, <3>2 DEF InWork
      <4>2. v # w
        BY <1>0, <3>2, <4>1, JobsInjective
      <4> QED BY <1>0, <4>1, <4>2 DEF ScanTypes
    <3> QED BY <1>1, <3>1, <3>2
  <2>2. \A k \in 1..Len(jobs) : k > taken + 1 => found[k] = "none"
    BY JobsInjective DEF InWork
  <2> QED BY <1>0, <2>1, <2>2 DEF InWork
<1> QED BY <1>0, <1>4, <1>5, <1>6 DEF Admitted, Finished

\* A job is taken and gets no socket.
LEMMA NoSocketStep == ASSUME ScanInv, NEW w \in Worker, NoSocket(w) PROVE ScanInv'
<1> USE DEF ScanInv
<1>0. /\ taken' = taken + 1 /\ taken < Len(jobs) /\ report = "none"
      /\ found' = [found EXCEPT ![taken + 1] = "raised"]
      /\ UNCHANGED <<args, jobs, busy, report, contacts>>
  BY DEF NoSocket, Takes
<1>1. /\ taken + 1 \in 1..Len(jobs) /\ taken \in 0..Len(jobs) /\ taken + 1 \in 0..Len(jobs)
      /\ \A k \in 1..taken + 1 : k \in 1..taken \/ k = taken + 1
      /\ 0..taken \subseteq 0..taken + 1
  BY <1>0, JobsInjective
<1>2. found'[taken + 1] = "raised" /\ \A k \in 1..Len(jobs) : k # taken + 1 => found'[k] = found[k]
  BY <1>0, <1>1 DEF ScanTypes
<1>3. ScanTypes'
  <2>1. found' \in [1..Len(jobs) -> Result]
    BY <1>0, <1>1 DEF ScanTypes, Result
  <2>2. busy' \in [Worker -> 0..taken']
    BY <1>0, <1>1 DEF ScanTypes
  <2> QED BY <1>0, <1>1, <2>1, <2>2 DEF ScanTypes
<1>4. Contacted'
  <2>1. {i \in 1..taken + 1 : found'[i] # "raised"} = {i \in 1..taken : found[i] # "raised"}
    BY <1>1, <1>2, JobsInjective
  <2>2. Len(contacts') <= taken'
    BY <1>0, JobsInjective DEF Contacted, ScanTypes
  <2> QED BY <1>0, <2>1, <2>2 DEF Contacted
<1>5. InWork'
  <2>1. ASSUME NEW k \in 1..taken + 1, found'[k] = "none" PROVE \E v \in Worker : busy[v] = k
    <3>1. k \in 1..taken /\ k # taken + 1 /\ k \in 1..Len(jobs)
      BY <1>1, <1>2, <2>1, JobsInjective
    <3> QED BY <1>2, <2>1, <3>1 DEF InWork
  <2>2. \A k \in 1..Len(jobs) : k > taken + 1 => found'[k] = "none"
    BY <1>2, JobsInjective DEF InWork
  <2> QED BY <1>0, <2>1, <2>2 DEF InWork
<1> QED BY <1>0, <1>3, <1>4, <1>5 DEF Admitted, Finished

\* A worker has an answer, and is free or stays to read the banner.
LEMMA AnswerStep ==
    ASSUME ScanInv, NEW w \in Worker, busy[w] > 0, found[busy[w]] \in {"none", "open"},
           NEW s \in Result \ {"none", "raised"},
           found' = [found EXCEPT ![busy[w]] = s],
           UNCHANGED busy \/ busy' = [busy EXCEPT ![w] = 0],
           UNCHANGED <<args, jobs, taken, report, contacts>>
    PROVE  ScanInv'
<1> USE DEF ScanInv
<1>1. busy[w] \in 1..taken /\ 1..taken \subseteq 1..Len(jobs)
  BY JobsInjective DEF ScanTypes
<1>2. /\ found'[busy[w]] = s /\ \A k \in 1..Len(jobs) : k # busy[w] => found'[k] = found[k]
  BY <1>1 DEF ScanTypes
<1>3. ScanTypes'
  <2>1. found' \in [1..Len(jobs) -> Result]
    BY <1>1 DEF ScanTypes
  <2>2. busy' \in [Worker -> 0..taken]
    BY JobsInjective DEF ScanTypes
  <2> QED BY <2>1, <2>2 DEF ScanTypes
<1>4. Contacted'
  <2>1. {i \in 1..taken : found'[i] # "raised"} = {i \in 1..taken : found[i] # "raised"}
    BY <1>1, <1>2
  <2> QED BY <2>1 DEF Contacted
<1>5. InWork'
  <2>1. ASSUME NEW k \in 1..taken, found'[k] = "none" PROVE \E v \in Worker : busy'[v] = k
    <3>1. k # busy[w] /\ found[k] = "none"
      BY <1>1, <1>2, <2>1
    <3>2. PICK v \in Worker : busy[v] = k
      BY <3>1 DEF InWork
    <3> QED BY <3>1, <3>2 DEF ScanTypes
  <2>2. \A k \in 1..Len(jobs) : k > taken => found'[k] = "none"
    BY <1>1, <1>2, JobsInjective DEF InWork
  <2> QED BY <2>1, <2>2 DEF InWork
<1>6. report \notin {"json", "html"}
  BY DEF Finished
<1> QED BY <1>3, <1>4, <1>5, <1>6 DEF Admitted, Finished

\* Every step keeps the invariant.
LEMMA ScanStepKeeps == ASSUME ScanInv, [ScanNext]_scanVars PROVE ScanInv'
<1>1. ASSUME NEW a \in Arguments, Parse(a) PROVE ScanInv'
  BY <1>1, ParseStep
<1>2. ASSUME NEW w \in Worker, Connect(w) \/ NoSocket(w) PROVE ScanInv'
  BY <1>2, ConnectStep, NoSocketStep
<1>3. ASSUME NEW w \in Worker, Accepted(w) PROVE ScanInv'
  BY <1>3, AnswerStep DEF Accepted, Conclude, Result
<1>4. ASSUME NEW w \in Worker, NEW s \in {"closed", "filtered_or_unreachable", "error"},
             NotAccepted(w, s)
      PROVE  ScanInv'
  BY <1>4, AnswerStep DEF NotAccepted, Conclude, Result
<1>5. ASSUME NEW w \in Worker, NEW s \in {"open", "open with banner"}, Probed(w, s) PROVE ScanInv'
  BY <1>5, AnswerStep DEF Probed, Conclude, Result
<1>6. CASE Abort
  <2>1. report' = "aborted" /\ UNCHANGED <<args, jobs, taken, busy, found, contacts>>
        /\ report = "none"
    BY <1>6 DEF Abort
  <2>2. args # <<>>
    BY <1>6 DEF Abort, ScanInv, ScanTypes, Admitted
  <2> QED BY <2>1, <2>2 DEF ScanInv, ScanTypes, Admitted, Contacted, InWork, Finished
<1>7. CASE Report
  <2>1. /\ report' \in {"json", "html"} /\ UNCHANGED <<args, jobs, taken, busy, found, contacts>>
        /\ jobs # <<>> /\ taken = Len(jobs) /\ \A w \in Worker : busy[w] = 0
        /\ \A k \in DOMAIN jobs : found[k] # "raised"
    BY <1>7 DEF Report
  <2>2. args # <<>>
    BY <2>1 DEF ScanInv, Admitted
  <2>3. ASSUME ScanInv, NEW k \in 1..Len(jobs) PROVE found[k] \notin {"none", "raised"}
    <3>1. found[k] # "none"
      <4> SUFFICES ASSUME found[k] = "none" PROVE FALSE
        OBVIOUS
      <4>1. PICK w \in Worker : busy[w] = k
        BY <2>1 DEF ScanInv, InWork
      <4> QED BY <2>1, <4>1, JobsInjective
    <3> QED BY <2>1, <3>1, JobsInjective
  <2> QED BY <2>1, <2>2, <2>3 DEF ScanInv, ScanTypes, Admitted, Contacted, InWork, Finished
<1>8. CASE UNCHANGED scanVars
  BY <1>8 DEF scanVars, ScanInv, ScanTypes, Admitted, Contacted, InWork, Finished
<1> QED BY <1>1, <1>2, <1>3, <1>4, <1>5, <1>6, <1>7, <1>8 DEF ScanNext

\* What the scanner starts from.
LEMMA ScanInitially == ASSUME ScanInit PROVE ScanInv
<1>1. /\ jobs = <<>> /\ contacts = <<>> /\ found = <<>> /\ taken = 0 /\ report = "none"
      /\ busy = [w \in Worker |-> 0]
  BY DEF ScanInit
<1>2. /\ <<>> \in Seq(Int \X Int) /\ Len(<<>>) = 0 /\ DOMAIN <<>> = {} /\ 1..0 = {}
  OBVIOUS
<1>3. ScanTypes
  <2>1. found \in [1..Len(jobs) -> Result]
    BY <1>1
  <2> QED BY <1>1, <1>2, <2>1 DEF ScanTypes
<1>4. Contacted
  BY <1>1, <1>2 DEF Contacted, Range, IsInjective
<1> QED BY <1>1, <1>2, <1>3, <1>4 DEF ScanInv, Admitted, InWork, Finished

\* Hence the bounds.
LEMMA BoundsFollow == ASSUME ScanInv PROVE ScanBounded
<1> SUFFICES ASSUME args # <<>>
             PROVE  LET reached == Range(contacts)
                        asked   == Ips(args.targets) \X Ports(args.ports)
                    IN /\ \A c \in reached :
                             c[1] \notin NotUnicast /\ \E s \in args.scope : c[1] \in Addr(s)
                       /\ Cardinality({c[1] : c \in reached}) <= MaxAddresses
                       /\ report = "refused" => contacts = <<>>
                       /\ IsInjective(contacts) /\ Len(contacts) <= MaxConnections
                       /\ report \in {"json", "html"} =>
                             reached = asked /\ \A k \in DOMAIN jobs : found[k] \notin {"none", "raised"}
  BY DEF ScanBounded
<1> USE DEF ScanInv
<1>0. contacts \in Seq(Int \X Int) /\ Len(contacts) \in Nat /\ Len(contacts) <= taken
      /\ taken <= Len(jobs) /\ taken \in Nat /\ Len(jobs) \in Nat /\ IsInjective(contacts)
  BY DEF ScanTypes, Contacted
<1>1. CASE jobs = <<>>
  <2>1. Len(contacts) = 0 /\ contacts = <<>> /\ Range(contacts) = {}
    <3>1. Len(contacts) = 0
      BY <1>0, <1>1
    <3>2. contacts = <<>>
      BY <1>0, <3>1
    <3> QED BY <3>1, <3>2 DEF Range
  <2>2. report \notin {"json", "html"}
    BY <1>1 DEF Finished
  <2>3. {c[1] : c \in Range(contacts)} = {} /\ Cardinality({}) = 0
    BY <2>1, FS_EmptySet
  <2> DEFINE nobody == {c[1] : c \in Range(contacts)}
  <2>4. Cardinality(nobody) <= MaxAddresses
    <3>1. Cardinality(nobody) = 0
      BY <2>3, Zenon
    <3> HIDE DEF nobody
    <3> QED BY <3>1, NetScanAssumption
  <2> QED BY <1>0, <2>1, <2>2, <2>4, NetScanAssumption
<1>2. CASE jobs # <<>>
  <2>1. args \in Arguments /\ ~Refused(args) /\ jobs = JobsOf(args) /\ report # "refused"
    BY <1>2 DEF Admitted
  <2> DEFINE asked == Ips(args.targets) \X Ports(args.ports)
  <2>2. Range(jobs) = asked /\ Len(jobs) = Cardinality(Ips(args.targets)) * Cardinality(Ports(args.ports))
    BY <2>1, JobsAre
  <2>3. Len(jobs) <= MaxConnections
    <3>1. ~(Len(jobs) > MaxConnections)
      BY <2>1, <2>2 DEF Refused
    <3> QED BY <1>0, <3>1, NetScanAssumption
  <2>4. Len(contacts) <= MaxConnections
    BY <1>0, <2>3, NetScanAssumption
  <2>5. Range(contacts) \subseteq asked
    <3>1. \A k \in 1..taken : jobs[k] \in Range(jobs)
      BY <1>0, JobsInjective DEF Range
    <3> QED BY <2>2, <3>1 DEF Contacted
  <2>6. ASSUME NEW c \in asked
        PROVE  c[1] \notin NotUnicast /\ \E s \in args.scope : c[1] \in Addr(s)
    <3>1. PICK k \in DOMAIN args.targets : c[1] \in Hosts(args.targets[k])
      BY DEF Ips
    <3>2. ~OffLimits(args.targets[k], args.scope)
      BY <2>1 DEF Refused, TargetsRefused
    <3> QED BY <3>1, <3>2 DEF OffLimits, InScope
  <2>8. Cardinality({c[1] : c \in Range(contacts)}) <= MaxAddresses
    <3>1. {c[1] : c \in Range(contacts)} \subseteq Ips(args.targets)
      BY <2>5
    <3>2. IsFiniteSet(Ips(args.targets))
      BY <2>1, AskedFinite
    <3>3. /\ Cardinality({c[1] : c \in Range(contacts)}) \in Nat
          /\ Cardinality({c[1] : c \in Range(contacts)}) <= Cardinality(Ips(args.targets))
          /\ Cardinality(Ips(args.targets)) \in Nat
      BY <3>1, <3>2, FS_Subset, FS_CardinalityType
    <3>4. ~(Cardinality(Ips(args.targets)) > MaxAddresses)
      BY <2>1 DEF Refused, TargetsRefused
    <3> QED BY <3>3, <3>4, NetScanAssumption
  <2>7. ASSUME report \in {"json", "html"}
        PROVE  Range(contacts) = asked /\ \A k \in DOMAIN jobs : found[k] \notin {"none", "raised"}
    <3>1. taken = Len(jobs) /\ \A k \in 1..Len(jobs) : found[k] \notin {"none", "raised"}
      BY <2>7 DEF Finished
    <3>2. {i \in 1..taken : found[i] # "raised"} = DOMAIN jobs
      BY <3>1, JobsInjective
    <3>3. Range(contacts) = Range(jobs)
      BY <3>2 DEF Contacted, Range
    <3> QED BY <2>2, <3>1, <3>3, JobsInjective
  <2> QED BY <1>0, <2>1, <2>4, <2>5, <2>6, <2>7, <2>8
<1> QED BY <1>1, <1>2

\* Only authorised unicast addresses are contacted, no more of them than the limit,
\* with no more connections than the limit and no port twice, and a report has one
\* result for each address and port asked for, whatever the threads meet and in
\* whichever order (scanner.py:24-52, 119-136).
THEOREM ScanStaysBounded == ScanSpec => []ScanBounded
<1>1. ScanInit => ScanInv
  BY ScanInitially
<1>2. ScanInv /\ [ScanNext]_scanVars => ScanInv'
  BY ScanStepKeeps
<1>3. ScanInv => ScanBounded
  BY BoundsFollow
<1> QED BY <1>1, <1>2, <1>3, PTL DEF ScanSpec

\* Jobs are of addresses and ports that exist.
THEOREM ScanTypeCorrect == ScanSpec => []ScanTypeOK
<1>1. ScanInv => ScanTypeOK
  <2> SUFFICES ASSUME ScanInv PROVE ScanTypeOK
    OBVIOUS
  <2> DEFINE T == (0..LastAddress) \X (0..LastPort)
  <2>1. ASSUME NEW k \in 1..Len(jobs) PROVE jobs[k] \in T
    <3>1. jobs # <<>>
      BY <2>1
    <3>2. args \in Arguments /\ ~Refused(args) /\ jobs = JobsOf(args)
      BY <3>1 DEF ScanInv, Admitted
    <3>3. jobs[k] \in Ips(args.targets) \X Ports(args.ports)
      BY <3>2, JobsAre, JobsInjective DEF Range
    <3>4. Ips(args.targets) \subseteq 0..LastAddress
      <4>1. \A i \in DOMAIN args.targets : args.targets[i] \in Network
        BY <3>2, NetScanAssumption DEF Arguments
      <4> QED BY <4>1, HostsFinite DEF Ips
    <3>5. Ports(args.ports) \subseteq 0..LastPort
      <4>1. \A i \in DOMAIN args.ports : /\ 1 <= args.ports[i][1] /\ args.ports[i][2] <= LastPort
        BY <3>2 DEF Refused, PortsRefused
      <4>2. \A i \in DOMAIN args.ports : args.ports[i][1] \in Int /\ args.ports[i][2] \in Int
        BY <3>2, NetScanAssumption DEF Arguments
      <4>3. ASSUME NEW i \in DOMAIN args.ports
            PROVE  args.ports[i][1]..args.ports[i][2] \subseteq 0..LastPort
        BY <4>1, <4>2, NetScanAssumption
      <4> QED BY <4>3 DEF Ports
    <3> QED BY <3>3, <3>4, <3>5
  <2> HIDE DEF T
  <2>2. jobs \in Seq(T)
    <3>1. jobs \in Seq(Int \X Int)
      BY DEF ScanInv, ScanTypes
    <3>2. jobs = [k \in 1..Len(jobs) |-> jobs[k]] /\ Len(jobs) \in Nat
      BY <3>1
    <3>3. jobs \in [1..Len(jobs) -> T]
      BY <2>1, <3>2
    <3> QED BY <3>2, <3>3
  <2>3. busy \in [Worker -> 0..Len(jobs)]
    BY JobsInjective DEF ScanInv, ScanTypes
  <2> QED BY <2>2, <2>3, JobsInjective DEF ScanTypeOK, ScanInv, ScanTypes, T
<1> QED BY <1>1, ScanInitially, ScanStepKeeps, PTL DEF ScanSpec

---------------------------------------------------------------------------
(*************************************************************************)
(* SecretScan, for any tree and any edits while it runs: the exit code   *)
(* tells what the files that were read hold.                             *)
(*************************************************************************)

\* The findings are those of what has been read.
FindingsTell == findings # {} <=> \E f \in DOMAIN seen : Leaks(seen[f])

\* What has been read was in the tree, and no file is read twice or behind git's
\* back.
ReadOnce ==
    /\ \A f \in DOMAIN tree : tree[f] \in Content
    /\ \A f \in DOMAIN seen : seen[f] \in Content
    /\ todo \cap DOMAIN seen = {}
    /\ stage = "files" => sized \subseteq todo \ ignored
    /\ stage \in {"idle", "walk", "git"} => DOMAIN seen = {} /\ sized = {}

\* While nobody edits, every candidate is in a directory that is not listed yet or
\* could not be, or it is waiting or has been read.
Covered ==
    /\ ignored \subseteq Ignored
    /\ stage \in {"walk", "git", "files", "exit"} /\ edits = 0 =>
         DOMAIN tree \ (Excluded \cup Ignored) \subseteq
           (UNION unlisted) \cup skipped \cup todo \cup DOMAIN seen
    /\ stage \in {"git", "files", "exit"} => unlisted = {}

\* The way in which the scan has ended.
Ended ==
    /\ stage # "exit" => exitCode = -1 /\ ~trouble
    /\ exitCode = 0 => ~trouble /\ todo = {} /\ findings = {}
    /\ exitCode = 1 => ~trouble /\ findings # {}
    /\ exitCode = 2 => trouble \/ (git.top /\ todo = {})

SecretInv == SecretTypeOK /\ FindingsTell /\ ReadOnce /\ Covered /\ Ended

-----------------------------------------------------------------------------
\* A set of numbers that is not empty has a first.
LEMMA First == ASSUME NEW A \in SUBSET Nat, A # {} PROVE \E x \in A : \A y \in A : x <= y
<1>1. PICK x \in A : \A y \in A : <<y, x>> \notin OpToRel(<, Nat)
  BY NatLessThanWellFounded, WFMin
<1>2. \A y \in A : ~(y < x)
  BY <1>1 DEF OpToRel
<1> QED BY <1>2

\* A rule reports something of a line exactly when the line has a match that is
\* not a placeholder to it.
LEMMA ReportedWhenReal ==
    ASSUME NEW r \in Rule, NEW hits \in Seq({"placeholder", "value"})
    PROVE  Reported(r, hits) # {} <=>
             \E k \in DOMAIN hits : r \notin Grouped \/ hits[k] = "value"
<1> DEFINE real == {k \in DOMAIN hits : ~(r \in Grouped /\ hits[k] = "placeholder")}
<1>1. DOMAIN hits \subseteq Nat /\ \A k \in DOMAIN hits : hits[k] \in {"placeholder", "value"}
  <2>1. DOMAIN hits = 1..Len(hits) /\ Len(hits) \in Nat
    OBVIOUS
  <2>2. \A k \in 1..Len(hits) : hits[k] \in {"placeholder", "value"}
    OBVIOUS
  <2> QED BY <2>1, <2>2
<1>2. Reported(r, hits) # {} <=> real # {}
  <2>1. ASSUME real # {} PROVE Reported(r, hits) # {}
    <3>1. \E k \in real : \A j \in real : k <= j
      BY <1>1, <2>1, First
    <3> QED BY <3>1 DEF Reported
  <2>2. Reported(r, hits) \subseteq real
    BY DEF Reported
  <2> QED BY <2>1, <2>2
<1>3. real = {k \in DOMAIN hits : r \notin Grouped \/ hits[k] = "value"}
  BY <1>1
<1> QED BY <1>2, <1>3

\* A file leaves findings exactly when it has a leak.
LEMMA LeaksAreFound ==
    ASSUME NEW f, NEW c \in Content
    PROVE  Leaks(c) <=> ~c.binary /\ FindingsOf(f, c) # {}
<1>1. ASSUME NEW n \in DOMAIN c.lines, NEW r \in Rule
      PROVE  Reported(r, c.lines[n].hits[r]) # {} <=>
               \E k \in DOMAIN c.lines[n].hits[r] :
                  r \notin Grouped \/ c.lines[n].hits[r][k] = "value"
  <2>1. c.lines[n].hits[r] \in Seq({"placeholder", "value"})
    BY SecretScanAssumption
  <2> QED BY <2>1, ReportedWhenReal
<1>2. FindingsOf(f, c) # {} <=>
        \E n \in DOMAIN c.lines, r \in Rule :
          ~c.lines[n].allow /\ Reported(r, c.lines[n].hits[r]) # {}
  <2>1. ASSUME NEW x \in FindingsOf(f, c)
        PROVE  \E n \in DOMAIN c.lines, r \in Rule :
                 ~c.lines[n].allow /\ Reported(r, c.lines[n].hits[r]) # {}
    <3>1. PICK n \in {m \in DOMAIN c.lines : ~c.lines[m].allow}, r \in Rule : x = <<f, n, r>>
      BY <2>1 DEF FindingsOf, FindingsIn
    <3>2. x[2] = n /\ x[3] = r
      BY <3>1
    <3> QED BY <2>1, <3>1, <3>2 DEF FindingsOf
  <2>2. ASSUME NEW n \in DOMAIN c.lines, NEW r \in Rule, ~c.lines[n].allow,
               Reported(r, c.lines[n].hits[r]) # {}
        PROVE  <<f, n, r>> \in FindingsOf(f, c)
    <3>1. <<f, n, r>> \in FindingsIn(f, c)
      BY <2>2 DEF FindingsIn
    <3> QED BY <2>2, <3>1 DEF FindingsOf
  <2> QED BY <2>1, <2>2
<1> QED BY <1>1, <1>2 DEF Leaks

-----------------------------------------------------------------------------
\* Every variable keeps its type.
LEMMA SecretTypeStep ==
    ASSUME SecretInv, [SecretNext]_scannerVars PROVE SecretTypeOK'
<1>0. SecretTypeOK /\ MaxEdits \in Nat /\ Excluded \cup Ignored \subseteq Path
  BY SecretScanAssumption DEF SecretInv
<1>1. CASE Begin
  <2>1. DOMAIN tree' \subseteq Path
    BY <1>1 DEF Begin
  <2> QED BY <1>0, <1>1, <2>1 DEF SecretTypeOK, Begin
<1>2. ASSUME NEW d \in Directory, Walk(d) PROVE SecretTypeOK'
  <2>1. d \subseteq Path
    BY SecretScanAssumption
  <2>2. todo' \subseteq Path /\ skipped' \subseteq Path /\ unlisted' \subseteq Directory
        /\ stage' \in {"walk", "git"}
    BY <1>0, <1>2, <2>1 DEF SecretTypeOK, Walk
  <2>3. UNCHANGED <<tree, ignored, sized, exitCode, seen, trouble, edits>>
    BY <1>2 DEF Walk
  <2> QED BY <1>0, <2>2, <2>3 DEF SecretTypeOK
<1>3. CASE CheckIgnore
  <2>1. stage' \in {"files", "exit"} /\ exitCode' \in {exitCode, 2} /\ ignored' \in {ignored, todo \cap Ignored}
    BY <1>3 DEF CheckIgnore, Exit
  <2>2. trouble' \in BOOLEAN
    BY <1>3 DEF CheckIgnore
  <2>3. UNCHANGED <<tree, walk, todo, sized, seen, edits>>
    BY <1>3 DEF CheckIgnore
  <2> QED BY <1>0, <2>1, <2>2, <2>3 DEF SecretTypeOK, walk
<1>4. CASE Finish
  BY <1>0, <1>4 DEF SecretTypeOK, Finish, Exit, walk
<1>5. ASSUME NEW f \in Path, Pass(f) PROVE SecretTypeOK'
  BY <1>0, <1>5 DEF SecretTypeOK, Pass, walk
<1>6. ASSUME NEW f \in Path, Size(f) \/ ReadFails(f) PROVE SecretTypeOK'
  <2>1. stage' \in {stage, "exit"} /\ exitCode' \in {exitCode, 2} /\ sized' \in {sized, {f}}
    BY <1>6 DEF Size, ReadFails, Exit
  <2>2. trouble' \in BOOLEAN
    BY <1>0, <1>6, Zenon DEF SecretTypeOK, Size, ReadFails
  <2>3. UNCHANGED <<tree, walk, todo, ignored, seen, edits>>
    BY <1>6 DEF Size, ReadFails
  <2> QED BY <1>0, <2>1, <2>2, <2>3 DEF SecretTypeOK, walk
<1>7. ASSUME NEW f \in Path, Read(f) PROVE SecretTypeOK'
  <2>1. stage' \in {stage, "exit"} /\ exitCode' \in {exitCode, 2} /\ sized' = {}
        /\ todo' \in {todo, todo \ {f}} /\ DOMAIN seen' \in {DOMAIN seen, DOMAIN seen \cup {f}}
    BY <1>7 DEF Read, Exit
  <2>2. trouble' \in BOOLEAN
    BY <1>0, <1>7, Zenon DEF SecretTypeOK, Read
  <2>3. UNCHANGED <<tree, walk, ignored, edits>>
    BY <1>7 DEF Read
  <2> QED BY <1>0, <2>1, <2>2, <2>3 DEF SecretTypeOK, walk
<1>8. ASSUME NEW f \in Path, Edit(f) PROVE SecretTypeOK'
  <2>1. DOMAIN tree' \in {DOMAIN tree \cup {f}, DOMAIN tree \ {f}}
    BY <1>8 DEF Edit
  <2>2. edits' \in 0..MaxEdits /\ UNCHANGED <<walk, todo, ignored, stage, sized, exitCode, seen, trouble>>
    BY <1>0, <1>8 DEF SecretTypeOK, Edit, walk
  <2> QED BY <1>0, <2>1, <2>2 DEF SecretTypeOK, walk
<1>9. CASE UNCHANGED scannerVars
  BY <1>0, <1>9 DEF SecretTypeOK, scannerVars, walk
<1> QED BY <1>1, <1>2, <1>3, <1>4, <1>5, <1>6, <1>7, <1>8, <1>9 DEF SecretNext

\* The read of a candidate adds its findings, and itself to what has been read.
LEMMA ReadStep ==
    ASSUME SecretInv, NEW f \in Path, Read(f), f \in DOMAIN tree
    PROVE  FindingsTell' /\ ReadOnce' /\ Covered' /\ Ended'
<1>1. /\ findings' = findings \cup IF tree[f].binary THEN {} ELSE FindingsOf(f, tree[f])
      /\ seen' = [g \in DOMAIN seen \cup {f} |-> IF g = f THEN tree[f] ELSE seen[g]]
      /\ todo' = todo \ {f} /\ sized = {f} /\ sized' = {} /\ stage = "files"
      /\ UNCHANGED <<tree, git, walk, ignored, edits, stage, exitCode, trouble>>
  BY DEF Read
<1>2. f \in todo /\ f \notin DOMAIN seen /\ tree[f] \in Content
  BY <1>1 DEF SecretInv, ReadOnce
<1>3. DOMAIN seen' = DOMAIN seen \cup {f} /\ seen'[f] = tree[f]
      /\ \A g \in DOMAIN seen : seen'[g] = seen[g]
  BY <1>1, <1>2
<1>4. FindingsTell'
  <2>1. findings' # {} <=> findings # {} \/ Leaks(tree[f])
    BY <1>1, <1>2, LeaksAreFound
  <2>2. (\E g \in DOMAIN seen' : Leaks(seen'[g])) <=>
          (\E g \in DOMAIN seen : Leaks(seen[g])) \/ Leaks(tree[f])
    BY <1>3
  <2> QED BY <2>1, <2>2 DEF SecretInv, FindingsTell
<1>5. ReadOnce'
  BY <1>1, <1>2, <1>3 DEF SecretInv, ReadOnce
<1>6. Covered'
  BY <1>1, <1>3 DEF SecretInv, Covered, walk
<1>7. Ended'
  BY <1>1 DEF SecretInv, Ended
<1> QED BY <1>4, <1>5, <1>6, <1>7

\* git's answer leads to the files or to the exit.
LEMMA CheckStep ==
    ASSUME SecretInv, CheckIgnore
    PROVE  FindingsTell' /\ ReadOnce' /\ Covered' /\ Ended'
<1>1. stage = "git" /\ UNCHANGED <<tree, git, walk, todo, sized, findings, seen, edits>>
      /\ (trouble' <=> git.answer = "late" \/ (git.top /\ git.answer # "answers"))
  BY DEF CheckIgnore
<1>2. stage' \in {"files", "exit"} /\ ignored' \in {ignored, todo \cap Ignored}
  BY DEF CheckIgnore, Exit
<1>3. FindingsTell' /\ ReadOnce' /\ Covered'
  BY <1>1, <1>2 DEF SecretInv, FindingsTell, ReadOnce, Covered, walk
<1>4. Ended'
  <2>1. CASE Answer = "answers"
    BY <1>1, <2>1 DEF SecretInv, Ended, CheckIgnore, Answer
  <2>2. CASE Answer # "answers" /\ Answer # "late" /\ ~git.top
    BY <1>1, <2>2 DEF SecretInv, Ended, CheckIgnore, Answer
  <2>3. CASE Answer # "answers" /\ ~(Answer # "late" /\ ~git.top)
    BY <1>1, <2>3 DEF SecretInv, Ended, CheckIgnore, Answer, Exit
  <2> QED BY <2>1, <2>2, <2>3
<1> QED BY <1>3, <1>4

\* Every step keeps what the exit code is read from.
LEMMA ScanStep ==
    ASSUME SecretInv, [SecretNext]_scannerVars
    PROVE  FindingsTell' /\ ReadOnce' /\ Covered' /\ Ended'
<1> USE DEF SecretInv
<1>1. CASE Begin
  <2>1. \A f \in DOMAIN tree' : tree'[f] \in Content
    BY <1>1 DEF Begin
  <2>2. DOMAIN tree' \subseteq Path /\ Path = UNION unlisted'
    BY <1>1, SecretScanAssumption DEF Begin
  <2>3. Covered'
    BY <1>1, <2>2 DEF Begin, Covered
  <2> QED BY <1>1, <2>1, <2>3 DEF Begin, FindingsTell, ReadOnce, Ended
<1>2. ASSUME NEW d \in Directory, Walk(d) PROVE FindingsTell' /\ ReadOnce' /\ Covered' /\ Ended'
  <2>1. UNCHANGED <<tree, git, ignored, sized, findings, exitCode, seen, trouble, edits>>
        /\ stage = "walk" /\ stage' \in {"walk", "git"}
    BY <1>2 DEF Walk
  <2>2. FindingsTell' /\ Ended'
    BY <2>1 DEF FindingsTell, Ended
  <2>3. ReadOnce'
    BY <2>1 DEF ReadOnce
  <2>4. Covered'
    <3>1. unlisted' = unlisted \ {d} /\ (stage' = "git" => unlisted' = {})
          /\ \/ todo' = todo \cup ((d \cap DOMAIN tree) \ Excluded) /\ skipped' = skipped
             \/ skipped' = skipped \cup d /\ todo' = todo
      BY <1>2 DEF Walk
    <3>2. UNION unlisted \subseteq (UNION unlisted') \cup d
      BY <3>1
    <3>3. ASSUME edits = 0, NEW f \in DOMAIN tree \ (Excluded \cup Ignored)
          PROVE  f \in (UNION unlisted') \cup skipped' \cup todo' \cup DOMAIN seen
      <4>1. f \in (UNION unlisted) \cup skipped \cup todo \cup DOMAIN seen
        BY <2>1, <3>3 DEF Covered
      <4>2. skipped \subseteq skipped' /\ todo \subseteq todo'
        BY <3>1
      <4>3. f \in d => f \in skipped' \cup todo'
        BY <3>1, <3>3
      <4> QED BY <3>2, <4>1, <4>2, <4>3
    <3>4. ignored' \subseteq Ignored
      BY <2>1 DEF Covered
    <3> QED BY <2>1, <3>1, <3>3, <3>4 DEF Covered
  <2> QED BY <2>2, <2>3, <2>4
<1>3. CASE CheckIgnore
  BY <1>3, CheckStep
<1>4. CASE Finish
  BY <1>4 DEF Finish, Exit, FindingsTell, ReadOnce, Covered, Ended, walk
<1>5. ASSUME NEW f \in Path, Pass(f) PROVE FindingsTell' /\ ReadOnce' /\ Covered' /\ Ended'
  <2>1. todo' = todo \ {f} /\ f \in todo \cap ignored /\ stage = "files"
        /\ UNCHANGED <<tree, git, walk, ignored, stage, sized, findings, exitCode, seen, trouble, edits>>
    BY <1>5 DEF Pass
  <2>2. FindingsTell' /\ Ended'
    BY <2>1 DEF FindingsTell, Ended
  <2>3. ReadOnce'
    BY <2>1 DEF ReadOnce
  <2>4. Covered'
    <3>1. UNCHANGED <<unlisted, skipped>> /\ f \in Ignored
      BY <2>1 DEF Covered, walk
    <3> QED BY <2>1, <3>1 DEF Covered
  <2> QED BY <2>2, <2>3, <2>4
<1>6. ASSUME NEW f \in Path, Size(f) PROVE FindingsTell' /\ ReadOnce' /\ Covered' /\ Ended'
  BY <1>6 DEF Size, Exit, FindingsTell, ReadOnce, Covered, Ended, walk
<1>7. ASSUME NEW f \in Path, Read(f), f \notin DOMAIN tree
      PROVE  FindingsTell' /\ ReadOnce' /\ Covered' /\ Ended'
  BY <1>7 DEF Read, Exit, FindingsTell, ReadOnce, Covered, Ended, walk
<1>8. ASSUME NEW f \in Path, ReadFails(f) PROVE FindingsTell' /\ ReadOnce' /\ Covered' /\ Ended'
  BY <1>8 DEF ReadFails, Exit, FindingsTell, ReadOnce, Covered, Ended, walk
<1>9. ASSUME NEW f \in Path, Edit(f) PROVE FindingsTell' /\ ReadOnce' /\ Covered' /\ Ended'
  <2>1. \A g \in DOMAIN tree' : tree'[g] \in Content
    BY <1>9 DEF Edit, ReadOnce
  <2>2. edits' # 0
    BY <1>9, SecretScanAssumption DEF Edit, SecretTypeOK
  <2> QED BY <1>9, <2>1, <2>2 DEF Edit, FindingsTell, ReadOnce, Covered, Ended, walk
<1>10. CASE UNCHANGED scannerVars
  BY <1>10 DEF scannerVars, FindingsTell, ReadOnce, Covered, Ended, walk
<1> QED BY <1>1, <1>2, <1>3, <1>4, <1>5, <1>6, <1>7, <1>8, <1>9, <1>10, ReadStep DEF SecretNext

\* The inductive invariant of the scanner.
LEMMA SecretInductive == SecretSpec => []SecretInv
<1>1. SecretInit => SecretInv
  <2> SUFFICES ASSUME SecretInit PROVE SecretInv
    OBVIOUS
  <2>1. DOMAIN tree = {} /\ DOMAIN seen = {}
    BY DEF SecretInit
  <2>2. SecretTypeOK
    <3>1. trouble \in BOOLEAN
      BY Zenon DEF SecretInit
    <3> QED BY <2>1, <3>1, SecretScanAssumption DEF SecretInit, SecretTypeOK
  <2> QED BY <2>1, <2>2
          DEF SecretInit, SecretInv, FindingsTell, ReadOnce, Covered, Ended, walk
<1>2. SecretInv /\ [SecretNext]_scannerVars => SecretInv'
  BY SecretTypeStep, ScanStep DEF SecretInv
<1> QED BY <1>1, <1>2, PTL DEF SecretSpec

\* The exit code tells the truth about what was read, in the directories that could
\* be listed, whatever git, the disk and an editor do meanwhile (scanner.py:27-59,
\* 63-74, README.md:12-14).
THEOREM ExitCodeIsTrue == SecretSpec => []ExitCodeTells
<1>1. SecretInv => ExitCodeTells
  <2> SUFFICES ASSUME SecretInv PROVE ExitCodeTells
    OBVIOUS
  <2>1. exitCode = 0 => stage = "exit"
    BY DEF SecretInv, Ended
  <2>2. (exitCode = 0 /\ edits = 0) =>
          DOMAIN tree \ (Excluded \cup Ignored \cup skipped) \subseteq DOMAIN seen
    <3> SUFFICES ASSUME exitCode = 0, edits = 0
                 PROVE  DOMAIN tree \ (Excluded \cup Ignored \cup skipped) \subseteq DOMAIN seen
      OBVIOUS
    <3>1. todo = {} /\ UNION unlisted = {}
      BY <2>1 DEF SecretInv, Ended, Covered
    <3> QED BY <2>1, <3>1 DEF SecretInv, Covered
  <2> QED BY <2>2 DEF SecretInv, Ended, FindingsTell, ExitCodeTells
<1> QED BY <1>1, SecretInductive, PTL

---------------------------------------------------------------------------
(*************************************************************************)
(* The labs side by side: each behaves as it does alone, so that what holds of *)
(* it alone holds there.                                                 *)
(*************************************************************************)

\* What the run checks is, for each lab, a behaviour of its own specification.
THEOREM LabsApart ==
    LSpec => RSpec /\ VpnSpec /\ ProvSpec /\ ScanSpec /\ SecretSpec /\ SetupSpec
<1>1. LInit => RInit /\ VpnInit /\ ProvInit /\ ScanInit /\ SecretInit /\ SetupInit
  BY DEF LInit
<1>2. [LNext]_labVars =>
        /\ [RNext]_<<vars, soar, late>> /\ [VpnNext]_vpnVars /\ [ProvNext]_provVars
        /\ [ScanNext]_scanVars /\ [SecretNext]_scannerVars /\ [SetupNext]_setupVars
  BY DEF LNext, RNext, labVars
<1> QED BY <1>1, <1>2, PTL DEF LSpec, RSpec, VpnSpec, ProvSpec, ScanSpec, SecretSpec, SetupSpec

\* Each lab's variables keep to their values.
THEOREM LabsTypeCorrect == LSpec => []LabsTypeOK
<1>1. ProvInv /\ VpnInv /\ ScanTypeOK /\ SecretInv /\ SetupInv => LabsTypeOK
  BY DEF ProvInv, Inv1, VpnInv, SecretInv, SetupInv, LabsTypeOK
<1> QED BY <1>1, LabsApart, ProvInductive, VpnInductive, ScanTypeCorrect, SecretInductive,
           SetupInductive, PTL

===========================================================================
