-------------------------- MODULE PipelineAbstract --------------------------
(***************************************************************************)
(* What the pipeline promises about its tables, with no worker, no         *)
(* transaction, no crash and no deployed release in sight: a submission    *)
(* appears once, then moves through the five stages one at a time, and     *)
(* each move writes that stage's artifacts and the status in one step      *)
(* (ADR-0002: a stage is committed or it is not).                          *)
(***************************************************************************)
EXTENDS PipelineData

VARIABLES
  status, raw, digest, outcome, normal, results, alerts,
  held  \* the events raw has been since the submission's status last changed

vars == <<status, raw, digest, outcome, normal, results, alerts, held>>

Init ==
  /\ status  = [i \in Ids |-> "absent"]
  /\ raw     = [i \in Ids |-> NoEvent]
  /\ digest  = [i \in Ids |-> NoEvent]
  /\ outcome = [i \in Ids |-> "none"]
  /\ normal  = [i \in Ids |-> NoEvent]
  /\ results = [i \in Ids |-> NoResults]
  /\ alerts  = [i \in Ids |-> NoAlerts]
  /\ held    = [i \in Ids |-> {}]

Admit(i, e) ==
  /\ status[i] = "absent"
  /\ status' = [status EXCEPT ![i] = "admitted"]
  /\ raw'    = [raw EXCEPT ![i] = e]
  /\ digest' = [digest EXCEPT ![i] = e]
  /\ held'   = [held EXCEPT ![i] = {e}]
  /\ UNCHANGED <<outcome, normal, results, alerts>>

Move(i, from, to) ==
  /\ status[i] = from
  /\ status' = [status EXCEPT ![i] = to]
  /\ held'   = [held EXCEPT ![i] = {raw[i]}]
  /\ UNCHANGED <<raw, digest>>

\* A stage works from an event that was stored at some moment since the
\* stage before it: the admitted one, unless it was changed behind the
\* platform's back.
Validate(i) ==
  /\ Move(i, "admitted", "validated")
  /\ \E e \in held[i] : outcome' = [outcome EXCEPT ![i] = Classification[e]]
  /\ UNCHANGED <<normal, results, alerts>>

\* Only a valid submission is normalized.
Normalize(i) ==
  /\ Move(i, "validated", "normalized")
  /\ outcome[i] = "valid"
  /\ \E e \in held[i] \cap Normalizable : normal' = [normal EXCEPT ![i] = e]
  /\ UNCHANGED <<outcome, results, alerts>>

\* All the results are those of one release, whichever is deployed.
Evaluate(i) ==
  /\ Move(i, "normalized", "evaluated")
  /\ \E r \in Releases :
       results' = [results EXCEPT ![i] = ResultsOf(normal[i], Active[r])]
  /\ UNCHANGED <<outcome, normal, alerts>>

\* Exactly one alert per matched result, whatever release is deployed now.
RaiseAlerts(i) ==
  /\ Move(i, "evaluated", "alerted")
  /\ alerts' = [alerts EXCEPT ![i] = AlertsOf(normal[i], MatchedIn(results[i]))]
  /\ UNCHANGED <<outcome, normal, results>>

\* A submission with an alert is evidenced only if its raw event was the
\* admitted one at some moment since its alerts were raised.
Verify(i) ==
  /\ Move(i, "alerted", "evidenced")
  /\ MatchedIn(results[i]) # {} => digest[i] \in held[i]
  /\ UNCHANGED <<outcome, normal, results, alerts>>

Tamper(i, e) ==
  /\ status[i] # "absent"
  /\ raw'  = [raw EXCEPT ![i] = e]
  /\ held' = [held EXCEPT ![i] = @ \cup {e}]
  /\ UNCHANGED <<status, digest, outcome, normal, results, alerts>>

Next ==
  \E i \in Ids :
    \/ \E e \in Events : Admit(i, e) \/ Tamper(i, e)
    \/ Validate(i) \/ Normalize(i) \/ Evaluate(i) \/ RaiseAlerts(i) \/ Verify(i)

Spec == Init /\ [][Next]_vars

=============================================================================
