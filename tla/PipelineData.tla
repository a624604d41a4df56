---------------------------- MODULE PipelineData ----------------------------
(***************************************************************************)
(* The data the processing pipeline derives from a submission, abstracted  *)
(* to what its stages tell apart: how an event is classified, whether it   *)
(* can be normalized, and which detection definitions it matches.  The     *)
(* functions of the code that compute them (validation.Classify,           *)
(* normalization.Normalize, detection.evaluate, alerting.buildSummary) are *)
(* deterministic, so each is a constant function of the event.             *)
(***************************************************************************)
EXTENDS Naturals

CONSTANTS
  MaxId,         \* number of submissions ever admitted (bound)
  Events,        \* raw events an intake can receive
  NoEvent,       \* a column without a value
  Defs,          \* detection_definitions rows: one per scenario and revision
  Releases,      \* builds of the platform that may be deployed
  Active,        \* Active[r]: the definitions embedded in release r
  Classification, \* Classification[e]: the validation outcome of event e
  Normalizable,  \* the events Normalize succeeds on
  Matches        \* Matches[e]: the definitions event e satisfies

Outcomes == {"valid", "invalid", "incomplete", "unsupported"}

ASSUME DataAssumption ==
  /\ MaxId \in Nat
  /\ NoEvent \notin Events
  /\ Active \in [Releases -> SUBSET Defs]
  /\ Classification \in [Events -> Outcomes]
  /\ Normalizable \subseteq Events
  /\ Matches \in [Events -> SUBSET Defs]

-----------------------------------------------------------------------------
(***************************************************************************)
(* A submission is named by its position in the (created_at, id) order the *)
(* worker claims in.                                                       *)
(***************************************************************************)
Ids == 1..MaxId

\* submissions.status, and "absent" for a row that is not committed yet.
Statuses ==
  {"absent", "admitted", "validated", "normalized", "evaluated", "alerted",
   "evidenced"}

FromEvidenced  == {"evidenced"}
FromAlerted    == {"alerted", "evidenced"}
FromEvaluated  == {"evaluated", "alerted", "evidenced"}
FromNormalized == {"normalized", "evaluated", "alerted", "evidenced"}
FromValidated  == {"validated", "normalized", "evaluated", "alerted", "evidenced"}

Columns  == Events \cup {NoEvent}
Verdicts == {"none", "matched", "unmatched"}

Results == [Defs -> Verdicts]   \* the detection_results rows of a submission
Alerts  == [Defs -> Columns]    \* its alerts rows, by the event summarised

NoResults == [d \in Defs |-> "none"]
NoAlerts  == [d \in Defs |-> NoEvent]

\* One detection_results row per definition of D, matched or not.
ResultsOf(e, D) ==
  [d \in Defs |-> IF d \notin D THEN "none"
                  ELSE IF d \in Matches[e] THEN "matched" ELSE "unmatched"]

MatchedIn(r) == {d \in Defs : r[d] = "matched"}

\* One alerts row per matched definition, its summary built from event e.
AlertsOf(e, M) == [d \in Defs |-> IF d \in M THEN e ELSE NoEvent]

=============================================================================
