----------------------------- MODULE SoarForward -----------------------------
(***************************************************************************)
(* forward_alert.py in front of the webhook: it posts the alerts of one    *)
(* exported file in order, waits ten seconds for each answer and exits at  *)
(* the first error.  The operator then runs it again from the beginning;   *)
(* there is no delivery queue (README.md:27).  The thread that serves an   *)
(* abandoned request goes on, and meets the repeated alert at the lock.    *)
(***************************************************************************)
EXTENDS Soar, Sequences

CONSTANTS File,     \* the sequence of alerts in the exported file
          NoThread  \* no request outstanding

ASSUME ForwardAssumption == File \in Seq(Alert) /\ NoThread \notin Request

VARIABLES at,       \* position in File of the alert being sent
          thread,   \* the server thread that has the outstanding request
          exited    \* the script has stopped on an error

fvars == <<at, thread, exited>>

Sending == ~exited /\ at <= Len(File)

FInit == Init /\ at = 1 /\ thread = NoThread /\ exited = FALSE

Post(r) ==
    /\ Sending /\ thread = NoThread
    /\ Receive(r, File[at])
    /\ thread' = r
    /\ UNCHANGED <<at, exited>>
\* Mutants of Answered: every answer counts as done, or a duplicate as an error.
AnsweredAnyhow ==
    /\ Sending /\ thread # NoThread /\ pc[thread] = "idle"
    /\ at' = at + 1 /\ thread' = NoThread
    /\ UNCHANGED <<vars, exited>>

AnsweredOkOnly ==
    /\ Sending /\ thread # NoThread /\ pc[thread] = "idle"
    /\ IF reply[thread] = "ok" THEN at' = at + 1 /\ UNCHANGED exited
                               ELSE exited' = TRUE /\ UNCHANGED at
    /\ thread' = NoThread
    /\ UNCHANGED vars

\* A 200 is printed and the loop goes on; another status ends the script, and
\* so does the connection broken by a restart.
Answered ==
    /\ Sending /\ thread # NoThread
    /\ pc[thread] = "idle"
    /\ IF reply[thread] \in {"ok", "duplicate"} THEN at' = at + 1 /\ UNCHANGED exited
                                                ELSE exited' = TRUE /\ UNCHANGED at
    /\ thread' = NoThread
    /\ UNCHANGED vars

\* Mutant of TimesOut: the script goes on with the next alert.
TimesOutContinues ==
    /\ Sending /\ thread # NoThread
    /\ pc[thread] # "idle"
    /\ Fault
    /\ at' = at + 1 /\ thread' = NoThread
    /\ UNCHANGED <<conf, store, threads, exited>>

\* Ten seconds pass without an answer.
TimesOut ==
    /\ Sending /\ thread # NoThread
    /\ pc[thread] # "idle"
    /\ Fault
    /\ exited' = TRUE /\ thread' = NoThread
    /\ UNCHANGED <<conf, store, threads, at>>

\* The operator runs the script again.
Rerun ==
    /\ exited
    /\ exited' = FALSE /\ at' = 1
    /\ UNCHANGED <<vars, thread>>

Server == \/ \E r \in Request : Serve(r)
          \/ \E c \in Config : Restart(c)

FNext == \/ Server /\ UNCHANGED fvars
         \/ \E r \in Request : Post(r)
         \/ Answered \/ TimesOut \/ Rerun

\* The threads run, the script runs, and the operator does not give up.
FSpec == /\ FInit /\ [][FNext]_<<vars, fvars>>
         /\ \A r \in Request : WF_<<vars, fvars>>(Serve(r) /\ UNCHANGED fvars)
         /\ WF_<<vars, fvars>>((\E r \in Request : Post(r)) \/ Answered)
         /\ WF_<<vars, fvars>>(Rerun)

-----------------------------------------------------------------------------
Complete(i) == \A s \in StepsOf(i.alert) : ledger[i][s] # "none"
Done(a)     == \E i \in Identity : i.alert = a /\ Complete(i)

\* An alert the script has passed was carried out in one of the modes: no answer is
\* taken for the answer to another request, although the thread of a timed-out
\* request is still at work (forward_alert.py:17-22).
PassedMeansDone == \A k \in 1..at - 1 : Done(File[k])

\* The alerts of the file are handled in its order: nothing of an alert is done
\* before every alert ahead of it was carried out in one of the modes, whichever
\* thread does it, those that a time-out left behind and those of an earlier run of
\* the script included (forward_alert.py:16-21, app.py:63-80).
FileInOrder ==
    \A i \in Identity, s \in Step : performed[i][s] > 0 \/ ledger[i][s] # "none" =>
        \E k \in 1..Len(File) : File[k] = i.alert /\ \A j \in 1..k - 1 : Done(File[j])

\* As long as nothing is refused, every alert of the file is carried out in the
\* end, whatever fails and whenever the script gives up on a busy server.
EventuallyForwarded == <>(at = Len(File) + 1)

=============================================================================
