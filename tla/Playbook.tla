------------------------------ MODULE Playbook ------------------------------
(***************************************************************************)
(* What the SOAR webhook promises about the remediation of an alert,       *)
(* without threads, locks, retries or restarts: the steps of an alert are  *)
(* carried out in order, a step may have to be repeated until it has been  *)
(* recorded, and a recorded step is never carried out again.  Soar         *)
(* implements it.                                                          *)
(***************************************************************************)
EXTENDS Integers

CONSTANTS Job,       \* one remediation: an alert, in rehearsal or for real
          Step,      \* the steps of a remediation
          Earlier    \* Earlier[j][s]: the steps job j records before step s

VARIABLES recorded,  \* recorded[j][s]: "no", "idle" (no effect) or "real"
          effects    \* effects[j][s]: how often step s took effect for job j

Due(j, s) == /\ recorded[j][s] = "no"
             /\ \A t \in Earlier[j][s] : recorded[j][t] # "no"

Init == /\ recorded = [j \in Job |-> [s \in Step |-> "no"]]
        /\ effects = [j \in Job |-> [s \in Step |-> 0]]

TakeEffect(j, s) ==
    /\ Due(j, s)
    /\ effects' = [effects EXCEPT ![j][s] = @ + 1]
    /\ UNCHANGED recorded

Record(j, s, k) ==
    /\ Due(j, s)
    /\ k = "real" => effects[j][s] > 0
    /\ recorded' = [recorded EXCEPT ![j][s] = k]
    /\ UNCHANGED effects

Next == \E j \in Job, s \in Step :
            \/ TakeEffect(j, s)
            \/ \E k \in {"idle", "real"} : Record(j, s, k)

Spec == Init /\ [][Next]_<<recorded, effects>>
=============================================================================
