---------------------- MODULE EventDecisionsProperties ----------------------
(***************************************************************************)
(* What the decisions must amount to, stated of the raw event alone after  *)
(* the functional requirements, without the normalized event in between.   *)
(***************************************************************************)
EXTENDS EventDecisions

-----------------------------------------------------------------------------
(* The requirements' conditions on a raw event. *)

Audit(resource, subresource) ==
  event.family = "kubernetes" /\ event.resource = resource /\ event.subresource = subresource

Created == event.verb = "create" /\ event.code \in 200..299

IAMCall(names) ==
  /\ event.family = "aws_cloudtrail" /\ event.eventSource = "iam.amazonaws.com"
  /\ event.eventName \in names /\ ~event.error

\* FR-024 to FR-026 and FR-037 to FR-039.
Required(s) ==
  CASE s = "scenario-1" -> Audit("pods", "exec") /\ event.query # {}
    [] s = "scenario-2" -> Audit("pods", "") /\ Created /\ event.object.risks # {}
    [] s = "scenario-3" ->
         /\ event.family = "kubernetes" /\ event.resource = "clusterrolebindings"
         /\ event.apiGroup = "rbac.authorization.k8s.io" /\ event.subresource = "" /\ Created
         /\ event.object.roleKind = "ClusterRole" /\ event.object.roleName = "cluster-admin"
    [] s = "scenario-4" -> IAMCall({"DeactivateMFADevice", "DeleteVirtualMFADevice"})
    [] s = "scenario-5" -> IAMCall({"CreateAccessKey"})
    [] s = "scenario-6" -> /\ IAMCall({"AttachUserPolicy", "AttachRolePolicy"})
                           /\ event.params.form = "object"
                           /\ event.params.policy = "AdministratorAccess"

\* An evaluated event matches a scenario's definition exactly when the raw
\* event meets the conditions its requirement states, whatever normalization,
\* the characteristics and the generic algorithm did in between.
MatchesAsRequired ==
  status = "evaluated" => \A s \in Scenarios : results[s].matched <=> Required(s)

\* The match reason records every documented characteristic the raw request
\* has, no fewer than one (FR-024, FR-028).
ReasonIsComplete ==
  /\ \A s \in Scenarios : results[s].matched => results[s].satisfied # {}
  /\ results["scenario-1"].matched =>
       Cardinality(results["scenario-1"].satisfied) = Cardinality(event.query)
  /\ results["scenario-2"].matched =>
       \A risk \in event.object.risks : \E c \in results["scenario-2"].satisfied :
         c = CharacteristicOf[IF risk = "privilegedInit" THEN "privileged" ELSE risk]

\* The precedence of outcomes: what is not attributable is unsupported however
\* malformed it is, what is malformed behind its markers is invalid whatever
\* it lacks besides, and nothing malformed passes for incomplete or valid
\* (FR-006, AC-006).
PrecedenceHolds ==
  outcome # "none" =>
    /\ ~event.attributable => outcome = "unsupported"
    /\ event.attributable /\ event.malformed = "field" => outcome = "invalid"
    /\ event.malformed # "none" => outcome \notin {"incomplete", "valid"}
    /\ event.attributable /\ event.malformed = "none" => outcome \in {"incomplete", "valid"}

\* The scenario normalization conveys content for is the one validation
\* checked the content of, although each has a resolver of its own.
ResolversAgree ==
  status \in {"normalized", "evaluated"} =>
    LET relevant == IF event.family = "kubernetes" THEN scenarioOf(event)
                    ELSE ctScenarioOf(event) IN
    normal.content.of =
      (CASE relevant = "scenario-1" -> "exec"
         [] relevant = "scenario-2" -> "podCreation"
         [] relevant = "scenario-3" -> "clusterRoleBinding"
         [] relevant \in {"scenario-4", "scenario-5", "scenario-6"} -> "cloudTrailIAMAction"
         [] OTHER -> "")

-----------------------------------------------------------------------------
(* What the documentation says, and the code does not do. *)

\* A valid submission is normalizable by construction.
ValidIsNormalizable == status # "failing"

\* What is attributable to a supported form and malformed is invalid, wherever
\* in the text the malformed field stands: the markers are populated even when
\* another field fails to decode (FR-008, AC-004, classifyKubernetes).
MalformedIsInvalid ==
  outcome # "none" /\ event.attributable /\ event.malformed # "none" => outcome = "invalid"

=============================================================================
