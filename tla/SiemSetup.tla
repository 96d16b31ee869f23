----------------------------- MODULE SiemSetup -----------------------------
(***************************************************************************)
(* The one-shot services of 01-mini-siem: `app.py setup` creates the index *)
(* template and the two indices, `app.py kibana` the two data views, each  *)
(* in several requests that may fail, or succeed without an answer.        *)
(* Logstash and the detector start when setup has completed; an index that *)
(* they find missing is created by the first document, with the mapping of *)
(* the template if there is one and with a guessed one otherwise.          *)
(***************************************************************************)
EXTENDS Integers, Sequences

CONSTANTS MaxTries,       \* 90 attempts of setup_kibana
          MaxSetupFaults  \* bound on requests of setup that fail, and on crashes

ASSUME SiemSetupAssumption == MaxTries \in Nat \ {0} /\ MaxSetupFaults \in Nat

Index  == {"mini-siem-logs", "mini-siem-alerts"}
View   == <<"logs", "alerts">>
Writes == [logstash |-> "mini-siem-logs", detector |-> "mini-siem-alerts"]

VARIABLES template,   \* the index template exists
          index,      \* "none", "mapped" by the template or "guessed"
          setupAt,    \* the next request of setup(), 0 when it does not run
          setUp,      \* setup has completed
          services,   \* of Logstash and the detector, those that have started
          views,      \* data views in Kibana
          kibanaAt,   \* the next request of setup_kibana(), 0 when it does not run
          tries,      \* its failed attempts
          kibanaSaid, \* how it has ended
          setupFaults

elastic   == <<template, index>>
setupRun  == <<setupAt, setUp>>
kibana    == <<views, kibanaAt, tries, kibanaSaid>>
setupVars == <<elastic, setupRun, services, kibana, setupFaults>>
\* Mutant of Requests: the template comes last.
RequestsLate == <<"mini-siem-logs", "mini-siem-alerts", "template">>

\* What setup() puts, in order.
Requests == <<"template", "mini-siem-logs", "mini-siem-alerts">>

SetupInit ==
    /\ template = FALSE /\ index = [i \in Index |-> "none"]
    /\ setupAt = 0 /\ setUp = FALSE
    /\ services = {}
    /\ views = {} /\ kibanaAt = 0 /\ tries = 0 /\ kibanaSaid = "nothing"
    /\ setupFaults = 0

SetupFault == setupFaults < MaxSetupFaults /\ setupFaults' = setupFaults + 1

\* Elasticsearch creates index i, unless it exists.
Creates(i) ==
    index' = [index EXCEPT ![i] = IF @ # "none" THEN @
                                  ELSE IF template THEN "mapped" ELSE "guessed"]

\* The request in hand reaches Elasticsearch.
Applies ==
    LET r == Requests[setupAt] IN
    IF r = "template" THEN template' = TRUE /\ UNCHANGED index
                      ELSE Creates(r) /\ UNCHANGED template

SetupBegins ==
    /\ setupAt = 0 /\ setupAt' = 1
    /\ UNCHANGED <<elastic, setUp, services, kibana, setupFaults>>

\* "Already exists" is as good as created.
Put ==
    /\ setupAt > 0 /\ Applies
    /\ IF setupAt < Len(Requests) THEN setupAt' = setupAt + 1 /\ UNCHANGED setUp
                                  ELSE setupAt' = 0 /\ setUp' = TRUE
    /\ UNCHANGED <<services, kibana, setupFaults>>

\* Any other error, or no answer, ends setup.
PutFails ==
    /\ setupAt > 0 /\ SetupFault
    /\ Applies \/ UNCHANGED elastic
    /\ setupAt' = 0
    /\ UNCHANGED <<setUp, services, kibana>>

ServiceStarts(s) ==
    /\ setUp /\ s \notin services
    /\ services' = services \cup {s}
    /\ UNCHANGED <<elastic, setupRun, kibana, setupFaults>>

ServiceWrites(s) ==
    /\ s \in services /\ Creates(Writes[s])
    /\ UNCHANGED <<template, setupRun, services, kibana, setupFaults>>

KibanaBegins ==
    /\ setUp /\ kibanaAt = 0
    /\ kibanaAt' = 1 /\ tries' = 0 /\ kibanaSaid' = "nothing"
    /\ UNCHANGED <<elastic, setupRun, services, views, setupFaults>>

PostView ==
    /\ kibanaAt > 0
    /\ views' = views \cup {View[kibanaAt]}
    /\ IF kibanaAt < Len(View) THEN kibanaAt' = kibanaAt + 1 /\ UNCHANGED kibanaSaid
                               ELSE kibanaAt' = 0 /\ kibanaSaid' = "created"
    /\ UNCHANGED <<elastic, setupRun, services, tries, setupFaults>>

\* Kibana is not there yet, or does not answer: both views again, until the
\* attempts are spent.
PostFails ==
    /\ kibanaAt > 0
    /\ views' \in {views, views \cup {View[kibanaAt]}}
    /\ tries' = tries + 1
    /\ IF tries' < MaxTries THEN kibanaAt' = 1 /\ UNCHANGED kibanaSaid
                            ELSE kibanaAt' = 0 /\ kibanaSaid' = "unavailable"
    /\ UNCHANGED <<elastic, setupRun, services, setupFaults>>

\* An error that is not caught, or a stop.
KibanaStops ==
    /\ kibanaAt > 0 /\ SetupFault
    /\ kibanaAt' = 0
    /\ UNCHANGED <<elastic, setupRun, services, views, tries, kibanaSaid>>

\* `docker compose down -v`.
Removed ==
    /\ SetupFault
    /\ template' = FALSE /\ index' = [i \in Index |-> "none"]
    /\ setupAt' = 0 /\ setUp' = FALSE
    /\ services' = {}
    /\ views' = {} /\ kibanaAt' = 0 /\ kibanaSaid' = "nothing"
    /\ UNCHANGED tries

SetupNext ==
    \/ SetupBegins \/ Put \/ PutFails \/ Removed
    \/ KibanaBegins \/ PostView \/ PostFails \/ KibanaStops
    \/ \E s \in DOMAIN Writes : ServiceStarts(s) \/ ServiceWrites(s)

SetupSpec == SetupInit /\ [][SetupNext]_setupVars

-----------------------------------------------------------------------------
SetupTypeOK ==
    /\ template \in BOOLEAN /\ setUp \in BOOLEAN
    /\ index \in [Index -> {"none", "mapped", "guessed"}]
    /\ setupAt \in 0..Len(Requests) /\ services \subseteq DOMAIN Writes
    /\ views \subseteq {"logs", "alerts"} /\ kibanaAt \in 0..Len(View)
    /\ tries \in 0..MaxTries /\ kibanaSaid \in {"nothing", "created", "unavailable"}
    /\ setupFaults \in 0..MaxSetupFaults

\* No document is ever indexed under a guessed mapping, on which the detector's
\* queries by address and time would fail, although setup may stop after any
\* request, be repeated and meet its own earlier half; and Kibana's views are
\* reported only when both exist (siem/app.py:31-74).
SetupTrustworthy ==
    /\ \A i \in Index : index[i] # "guessed"
    /\ services # {} => template /\ \A i \in Index : index[i] = "mapped"
    /\ kibanaSaid = "created" => views = {"logs", "alerts"}

=============================================================================
