-------------------------- MODULE SoarForwardProofs --------------------------
(***************************************************************************)
(* The script in front of the webhook, for any file, threads, environments *)
(* and number of faults.  A step of the pair is a step of the webhook, a   *)
(* step of the script alone, or the script's impatience, so the invariant  *)
(* of SoarProofs carries over; the script adds that its outstanding        *)
(* request is for the alert it is at (Asking), that what it has passed is  *)
(* in the ledger, where it stays, and that no thread, waited for or left   *)
(* behind, handles an alert ahead of its turn (ThreadsInOrder).            *)
(***************************************************************************)
EXTENDS SoarForward, SoarProofs

Asking ==
    /\ at \in Nat \ {0}
    /\ thread # NoThread => /\ thread \in Request
                            /\ at \in 1..Len(File) /\ req[thread] = File[at]
    /\ exited => thread = NoThread

\* The turn of alert a has come.
Turn(a) == \E k \in 1..Len(File) : File[k] = a /\ \A j \in 1..k - 1 : Done(File[j])

ThreadsInOrder == \A r \in Request : pc[r] # "idle" => Turn(req[r])

FInv == IInv /\ Asking /\ PassedMeansDone /\ ThreadsInOrder /\ FileInOrder

-----------------------------------------------------------------------------
\* The file is a sequence of alerts.
LEMMA FileHoldsAlerts == Len(File) \in Nat /\ \A k \in 1..Len(File) : File[k] \in Alert
BY ForwardAssumption

\* What a step of the script and the webhook is to the webhook.
LEMMA StepOfEither ==
    ASSUME at \in Nat \ {0}, [FNext]_<<vars, fvars>>
    PROVE  [Next]_vars \/ (Fault /\ UNCHANGED <<conf, store, threads>>)
<1>1. CASE \E r \in Request : Post(r)
  <2>1. PICK r \in Request : Post(r)
    BY <1>1
  <2>2. File[at] \in Alert
    <3>1. at \in 1..Len(File)
      BY <2>1, FileHoldsAlerts DEF Post, Sending
    <3> QED BY <3>1, FileHoldsAlerts
  <2> QED BY <2>1, <2>2 DEF Post, Next
<1>2. CASE Server
  BY <1>2 DEF Server, Next
<1>3. CASE Answered \/ Rerun \/ UNCHANGED <<vars, fvars>>
  BY <1>3 DEF Answered, Rerun
<1>4. CASE TimesOut
  BY <1>4 DEF TimesOut
<1> QED BY <1>1, <1>2, <1>3, <1>4 DEF FNext

\* The webhook does not notice that its caller has gone.
LEMMA Impatience ==
    ASSUME IInv, Fault, UNCHANGED <<conf, store, threads>> PROVE IInv'
<1> USE DEF IInv, store, threads
<1>1. TypeOK'
  BY FaultType DEF TypeOK
<1>2. Exclusive' /\ AnsweredComplete'
  BY DEF Exclusive, Holds, AnsweredComplete, Id
<1>3. Current'
  BY CurrentKept DEF Current
<1>4. Books'
  BY BooksKept DEF Books
<1> QED BY <1>1, <1>2, <1>3, <1>4 DEF Books

\* The webhook keeps its invariant behind the script.
LEMMA WebhookKeeps == IInv /\ at \in Nat \ {0} /\ [FNext]_<<vars, fvars>> => IInv'
BY StepOfEither, InvStep, Impatience

\* What is complete stays complete.
LEMMA CompleteStays ==
    ASSUME IInv, at \in Nat \ {0}, [FNext]_<<vars, fvars>>, NEW i \in Identity, Complete(i)
    PROVE  Complete(i)'
<1>1. CASE UNCHANGED ledger
  BY <1>1 DEF Complete
<1>2. ASSUME NEW j \in Identity, NEW s \in Step, TakesEffect(j, s) \/ Records(j, s)
      PROVE  Complete(i)'
  <2>1. \A t \in Step : ledger[i][t] # "none" => ledger'[i][t] # "none"
    <3> SUFFICES ASSUME NEW t \in Step, ledger[i][t] # "none" PROVE ledger'[i][t] # "none"
      OBVIOUS
    <3>1. CASE TakesEffect(j, s)
      BY <3>1 DEF TakesEffect
    <3>2. CASE Records(j, s)
      <4>1. PICK k \in Result \ {"none"} : ledger' = [ledger EXCEPT ![j][s] = k]
        BY <3>2 DEF Records
      <4> QED BY <4>1 DEF IInv, TypeOK
    <3> QED BY <1>2, <3>1, <3>2
  <2> QED BY <2>1 DEF Complete, StepsOf, Step
<1> QED BY <1>1, <1>2, StepOfEither, StepShows DEF store

\* So a turn that has come stays.
LEMMA TurnStays ==
    ASSUME IInv, at \in Nat \ {0}, [FNext]_<<vars, fvars>>, NEW a \in Alert, Turn(a)
    PROVE  Turn(a)'
<1>1. \A b : Done(b) => Done(b)'
  BY CompleteStays DEF Done
<1> QED BY <1>1 DEF Turn

\* A step of the webhook is for the alert of a thread at work.
LEMMA StepIsOfThread ==
    ASSUME IInv, Server, NEW i \in Identity, NEW s \in Step,
           \/ performed'[i][s] > 0 \/ ledger'[i][s] # "none",
           performed[i][s] = 0 /\ ledger[i][s] = "none"
    PROVE  \E r \in Request : pc[r] # "idle" /\ req[r] = i.alert
<1> USE DEF IInv, TypeOK
<1>1. PICK r \in Request : Serve(r)
  BY DEF Server, Restart
<1>2. req[r] \in Alert
  OBVIOUS
<1>3. CASE Checkpoint(r)
  <2>1. i = Id(req[r])
    BY <1>3 DEF Checkpoint
  <2> QED BY <1>3, <2>1 DEF Checkpoint, Id
<1>4. ASSUME NEW t \in Step, Effect(Id(req[r]), t), pc[r] # "idle", UNCHANGED ledger
      PROVE  pc[r] # "idle" /\ req[r] = i.alert
  <2>1. i = Id(req[r])
    BY <1>4 DEF Effect
  <2> QED BY <1>4, <2>1 DEF Id
<1>5. CASE UNCHANGED <<performed, ledger>>
  BY <1>5
<1> QED BY <1>1, <1>3, <1>4, <1>5 DEF Serve, Load, LoadFails, Perform, PerformRefused,
                                      PerformFails, CheckpointFails, store

\* Threads and their effects keep the order of the file.
LEMMA OrderKept ==
    ASSUME FInv, [FNext]_<<vars, fvars>> PROVE ThreadsInOrder' /\ FileInOrder'
<1> USE DEF FInv, Asking
<1>1. \A a \in Alert : Turn(a) => Turn(a)'
  BY TurnStays
<1>2. \A r \in Request : req[r] \in Alert
  BY DEF IInv, TypeOK
<1>3. \A i \in Identity, s \in Step :
          performed[i][s] > 0 \/ ledger[i][s] # "none" => Turn(i.alert)'
  BY <1>1 DEF FileInOrder, Turn, Identity
<1>4. ThreadsInOrder'
  <2> SUFFICES ASSUME NEW r \in Request, pc'[r] # "idle" PROVE Turn(req[r])'
    BY DEF ThreadsInOrder
  <2>1. CASE pc[r] # "idle" /\ req'[r] = req[r]
    BY <1>1, <1>2, <2>1 DEF ThreadsInOrder, Turn, Done
  <2>2. CASE ~(pc[r] # "idle" /\ req'[r] = req[r])
    <3>1. PICK q \in Request : Post(q)
      BY <2>2 DEF IInv, TypeOK, FNext, Server, Answered, TimesOut, Rerun, Restart, Serve, Load,
         LoadFails, Perform, PerformRefused, PerformFails, Checkpoint, CheckpointFails, Answer,
         vars, threads
    <3>2. q = r /\ req'[r] = File[at] /\ UNCHANGED ledger
      BY <2>2, <3>1 DEF IInv, TypeOK, Post, Receive, store
    <3>3. at \in 1..Len(File)
      BY <3>1, FileHoldsAlerts DEF Post, Sending
    <3>4. Turn(File[at])
      BY <3>3 DEF Turn, PassedMeansDone
    <3> QED BY <1>1, <3>2, <3>3, <3>4, FileHoldsAlerts DEF Turn, Done
  <2> QED BY <2>1, <2>2
<1>5. FileInOrder'
  <2> SUFFICES ASSUME NEW i \in Identity, NEW s \in Step,
                      performed'[i][s] > 0 \/ ledger'[i][s] # "none"
               PROVE  Turn(i.alert)'
    BY DEF FileInOrder, Turn, Identity, Step
  <2>1. CASE performed[i][s] > 0 \/ ledger[i][s] # "none"
    BY <1>3, <2>1
  <2>2. CASE ~(performed[i][s] > 0 \/ ledger[i][s] # "none")
    <3>1. performed[i][s] = 0 /\ ledger[i][s] = "none"
      BY <2>2 DEF IInv, TypeOK
    <3>2. Server
      BY <2>2 DEF FNext, Post, Receive, Answered, TimesOut, Rerun, vars, store
    <3>3. PICK r \in Request : pc[r] # "idle" /\ req[r] = i.alert
      BY <3>1, <3>2, StepIsOfThread
    <3> QED BY <1>1, <1>2, <3>3 DEF ThreadsInOrder
  <2> QED BY <2>1, <2>2
<1> QED BY <1>4, <1>5

\* The script and what it knows: one step at a time.
LEMMA ScriptKeeps ==
    ASSUME FInv, [FNext]_<<vars, fvars>> PROVE Asking' /\ PassedMeansDone'
<1> USE DEF FInv, Asking
<1>1. \A k \in 1..at - 1 : Done(File[k])'
  BY CompleteStays DEF PassedMeansDone, Done
<1>2. CASE Server /\ UNCHANGED fvars
  <2>1. UNCHANGED <<req, at, thread, exited>>
    BY <1>2 DEF Server, Serve, Load, LoadFails, Perform, PerformRefused, PerformFails,
                Checkpoint, CheckpointFails, Restart, fvars
  <2> QED BY <1>1, <2>1 DEF PassedMeansDone
<1>3. ASSUME NEW r \in Request, Post(r) PROVE Asking' /\ PassedMeansDone'
  <2>1. at \in 1..Len(File) /\ thread' = r /\ at' = at /\ exited' = exited /\ ~exited
    BY <1>3, FileHoldsAlerts DEF Post, Sending
  <2>2. req'[r] = File[at]
    BY <1>3 DEF IInv, TypeOK, Post, Receive
  <2> QED BY <1>1, <2>1, <2>2 DEF PassedMeansDone
<1>4. CASE Answered
  <2>1. /\ thread \in Request /\ at \in 1..Len(File) /\ req[thread] = File[at]
        /\ thread' = NoThread /\ UNCHANGED <<ledger, conf, req>>
    BY <1>4 DEF Answered, vars, store, threads
  <2>2. CASE reply[thread] \in {"ok", "duplicate"}
    <3>1. at' = at + 1
      BY <1>4, <2>2 DEF Answered
    <3>2. \E i \in Identity : i.alert = File[at] /\ Complete(i)'
      <4>1. req[thread] \in Alert
        BY <2>1 DEF IInv, TypeOK
      <4>2. Id(req[thread]) \in Identity /\ Id(req[thread]).alert = File[at]
        BY <2>1, <4>1, IdType DEF IInv
      <4>3. Complete(Id(req[thread]))
        BY <2>1, <2>2, <4>2 DEF IInv, AnsweredComplete, Complete
      <4> QED BY <2>1, <4>2, <4>3, CompleteStays
    <3>3. PassedMeansDone'
      <4> SUFFICES ASSUME NEW k \in 1..at' - 1
                   PROVE  Done(File[k])'
        BY DEF PassedMeansDone
      <4>1. k \in 1..at - 1 \/ k = at
        BY <3>1
      <4> QED BY <1>1, <3>2, <4>1 DEF Done
    <3> QED BY <2>1, <3>1, <3>3
  <2>3. CASE reply[thread] \notin {"ok", "duplicate"}
    BY <1>1, <1>4, <2>1, <2>3 DEF Answered, PassedMeansDone
  <2> QED BY <2>2, <2>3
<1>5. CASE TimesOut
  BY <1>1, <1>5 DEF TimesOut, PassedMeansDone
<1>6. CASE Rerun
  <2>1. at' = 1 /\ exited' = FALSE /\ thread = NoThread /\ thread' = thread
    BY <1>6 DEF Rerun
  <2> QED BY <2>1 DEF PassedMeansDone
<1>7. CASE UNCHANGED <<vars, fvars>>
  BY <1>1, <1>7 DEF PassedMeansDone, vars, threads, fvars
<1> QED BY <1>2, <1>3, <1>4, <1>5, <1>6, <1>7 DEF FNext

\* The invariant of script and webhook holds in every reachable state.
THEOREM ForwardInductive == FSpec => []FInv
<1>1. FInit => FInv
  <2>1. FInit => FileInOrder /\ ThreadsInOrder
    BY DEF FInit, Init, FileInOrder, ThreadsInOrder, NoResult
  <2> QED BY <2>1, InvInit DEF FInit, FInv, Asking, PassedMeansDone
<1>2. FInv /\ [FNext]_<<vars, fvars>> => FInv'
  BY WebhookKeeps, ScriptKeeps, OrderKept DEF FInv, Asking
<1> QED BY <1>1, <1>2, PTL DEF FSpec

\* What the script has passed was carried out, for any file, threads and
\* environments (forward_alert.py:17-22).
THEOREM PassedIsDone == FSpec => []PassedMeansDone
<1>1. FInv => PassedMeansDone
  BY DEF FInv
<1> QED BY <1>1, ForwardInductive, PTL

\* Nothing of an alert is done before the alerts ahead of it in the file, for any
\* file, threads, time-outs, runs of the script and switches of the mode
\* (forward_alert.py:16-21, app.py:63-80).
THEOREM FileKeepsOrder == FSpec => []FileInOrder
<1>1. FInv => FileInOrder
  BY DEF FInv
<1> QED BY <1>1, ForwardInductive, PTL

\* Script and webhook together implement Playbook: neither the script's timeout
\* nor its repetition is more than a retry (forward_alert.py:9-22, app.py:58-81).
THEOREM ForwardImplements == FSpec => ImplementsPlaybook
<1>1. FInit => P!Init
  BY InitMaps DEF FInit
<1>2. FInv /\ [FNext]_<<vars, fvars>> => [P!Next]_<<Recorded, performed>>
  <2> SUFFICES ASSUME FInv, [FNext]_<<vars, fvars>> PROVE [P!Next]_<<Recorded, performed>>
    OBVIOUS
  <2>1. CASE [Next]_vars
    BY <2>1, StepMaps DEF FInv
  <2>2. CASE Fault /\ UNCHANGED <<conf, store, threads>>
    BY <2>2 DEF store, Recorded
  <2> QED BY <2>1, <2>2, StepOfEither DEF FInv, Asking
<1> QED BY <1>1, <1>2, ForwardInductive, PTL DEF FSpec, ImplementsPlaybook, P!Spec

=============================================================================
