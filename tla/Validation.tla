----------------------------- MODULE Validation -----------------------------
(***************************************************************************)
(* Package validation: the classification of a raw source event.           *)
(***************************************************************************)
EXTENDS SourceEvents

\* What decoding makes of the markers: nothing when it ended before them.
Marked(ev) == ev.attributable /\ ev.malformed # "early"

DecodeFails(ev) == ev.malformed # "none"

-----------------------------------------------------------------------------
(* Kubernetes audit events. *)

scenarioOf(ev) ==
  CASE ev.resource = "pods" /\ ev.subresource = "exec" -> "scenario-1"
    [] ev.resource = "pods" /\ ev.subresource = "" /\ ev.verb = "create" -> "scenario-2"
    [] /\ ev.resource = "clusterrolebindings" /\ ev.verb = "create"
       /\ ev.apiGroup = "rbac.authorization.k8s.io" -> "scenario-3"
    [] OTHER -> "none"

missingCoreField(ev) ==
  \/ ~ev.identity \/ ~ev.time \/ ~ev.subject \/ ev.verb = "" \/ ~ev.uri \/ ev.resource = ""
  \/ scenarioOf(ev) \in {"scenario-2", "scenario-3"} /\ ev.code = 0

missingScenarioField(ev) ==
  \/ /\ scenarioOf(ev) = "scenario-2"
     /\ ev.object.kind # "Pod" \/ ~ev.object.spec
  \/ /\ scenarioOf(ev) = "scenario-3"
     /\ \/ ev.object.kind # "ClusterRoleBinding" \/ ev.object.roleName = ""
        \/ ~ev.named /\ ~ev.object.named

-----------------------------------------------------------------------------
(* CloudTrail records. *)

ctScenarioOf(rec) ==
  CASE rec.eventName \in {"DeactivateMFADevice", "DeleteVirtualMFADevice"} -> "scenario-4"
    [] rec.eventName = "CreateAccessKey" -> "scenario-5"
    [] rec.eventName \in {"AttachUserPolicy", "AttachRolePolicy"} -> "scenario-6"
    [] OTHER -> "none"

cloudTrailRequestingIdentity(rec) ==
  CASE rec.principal \in {"arn", "userName"} -> rec.principal
    [] rec.principal = "Root" -> "root"
    [] OTHER -> ""

isEmptyJSON(json) == json.form = "empty"

missingCloudTrailCoreField(rec) ==
  \/ ~rec.identity \/ ~rec.time \/ cloudTrailRequestingIdentity(rec) = ""
  \/ rec.eventName = "" \/ rec.eventSource = ""
  \/ isEmptyJSON(rec.params) /\ isEmptyJSON(rec.response)

missingCloudTrailScenarioField(rec) ==
  ctScenarioOf(rec) # "none" /\ isEmptyJSON(rec.params)

-----------------------------------------------------------------------------
\* Either family's completeness.
Incomplete(ev) ==
  \/ ev.family = "kubernetes" /\ (missingCoreField(ev) \/ missingScenarioField(ev))
  \/ /\ ev.family = "aws_cloudtrail"
     /\ missingCloudTrailCoreField(ev) \/ missingCloudTrailScenarioField(ev)

\* Mutation of Classify: a decoding error is reported before attribution.
ClassifyDecodeFirst(ev) ==
  CASE DecodeFails(ev) -> "invalid"
    [] ~Marked(ev)     -> "unsupported"
    [] Incomplete(ev)  -> "incomplete"
    [] OTHER           -> "valid"

\* In this order: unsupported, invalid, incomplete, valid.
Classify(ev) ==
  IF ~Marked(ev) THEN "unsupported"
  ELSE IF DecodeFails(ev) THEN "invalid"
  ELSE IF Incomplete(ev) THEN "incomplete"
  ELSE "valid"

=============================================================================
