--------------------------- MODULE EventDecisions ---------------------------
(***************************************************************************)
(* The decisions the platform takes about one source event, stage after    *)
(* stage: it is classified, a valid one is normalized, a normalized one is *)
(* evaluated against every definition.  How the stages are committed and   *)
(* retried is module Pipeline's; these are the functions it takes as given.*)
(***************************************************************************)
EXTENDS Validation, Normalization, DetectionRules

CONSTANT Raw   \* the raw events to decide about

ASSUME RawAssumption == Raw \subseteq AuditEvents \cup TrailRecords

VARIABLES
  event,    \* submissions.raw_event and its source family
  status,   \* admitted, validated, normalized, evaluated, or failing
  outcome,  \* its validation outcome, "none" before
  normal,   \* its normalized event
  results   \* per scenario: does its definition match, and what satisfies it

vars == <<event, status, outcome, normal, results>>

NoEvent  == [verb |-> "", resource |-> "", subresource |-> "", successful |-> FALSE,
             content |-> NoContent]
NoResult == [matched |-> FALSE, satisfied |-> {}]

Init ==
  /\ event \in Raw
  /\ status = "admitted" /\ outcome = "none" /\ normal = NoEvent
  /\ results = [s \in Scenarios |-> NoResult]

Validate ==
  /\ status = "admitted"
  /\ status' = "validated" /\ outcome' = Classify(event)
  /\ UNCHANGED <<event, normal, results>>

\* The claim passes over what is not valid.
Claimable == status = "validated" /\ outcome = "valid"

Normalize ==
  /\ Claimable /\ ~NormalizeErrs(event)
  /\ status' = "normalized" /\ normal' = NormalizeEvent(event)
  /\ UNCHANGED <<event, outcome, results>>

\* The worker logs the error and retries for ever, with the same error.
NormalizeFails ==
  /\ Claimable /\ NormalizeErrs(event)
  /\ status' = "failing"
  /\ UNCHANGED <<event, outcome, normal, results>>

DefinitionOf(s) == CHOOSE def \in Definitions : def.scenario = s

ResultOf(def) ==
  IF matches(def, normal)
  THEN [matched |-> TRUE, satisfied |-> satisfied(def, normal)] ELSE NoResult

Evaluate ==
  /\ status = "normalized"
  /\ status' = "evaluated"
  /\ results' = [s \in Scenarios |-> ResultOf(DefinitionOf(s))]
  /\ UNCHANGED <<event, outcome, normal>>

Next == Validate \/ Normalize \/ NormalizeFails \/ Evaluate

Spec == Init /\ [][Next]_vars

=============================================================================
