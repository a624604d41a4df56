--------------------------- MODULE Normalization ---------------------------
(***************************************************************************)
(* Package normalization: the normalized event of a valid source event,    *)
(* with its own resolver of scenarios, independent of validation's.        *)
(***************************************************************************)
EXTENDS SourceEvents

\* Mutation of resolveScenario: any subresource of a Pod counts as its creation.
resolveScenarioAnySubresource(ev) ==
  CASE ev.resource = "pods" /\ ev.subresource = "exec" -> "scenario-1"
    [] ev.resource = "pods" /\ ev.verb = "create" -> "scenario-2"
    [] /\ ev.resource = "clusterrolebindings" /\ ev.verb = "create"
       /\ ev.apiGroup = "rbac.authorization.k8s.io" -> "scenario-3"
    [] OTHER -> "none"

resolveScenario(ev) ==
  CASE ev.resource = "pods" /\ ev.subresource = "exec" -> "scenario-1"
    [] ev.resource = "pods" /\ ev.subresource = "" /\ ev.verb = "create" -> "scenario-2"
    [] /\ ev.resource = "clusterrolebindings" /\ ev.verb = "create"
       /\ ev.apiGroup = "rbac.authorization.k8s.io" -> "scenario-3"
    [] OTHER -> "none"

resolveCloudTrailScenario(eventName) ==
  CASE eventName \in {"DeactivateMFADevice", "DeleteVirtualMFADevice"} -> "scenario-4"
    [] eventName = "CreateAccessKey" -> "scenario-5"
    [] eventName \in {"AttachUserPolicy", "AttachRolePolicy"} -> "scenario-6"
    [] OTHER -> "none"

\* The one of exec, podCreation, clusterRoleBinding and cloudTrailIAMAction
\* that is present, if any, and the characteristics it conveys.
NoContent == [of |-> "", flags |-> {}, roleKind |-> "", roleName |-> "", policy |-> ""]

execCharacteristics(ev) == [NoContent EXCEPT !.of = "exec", !.flags = ev.query]

\* Privileged containers and init containers count alike.
podCreationCharacteristics(object) ==
  LET privileged == {"privileged", "privilegedInit"} \cap object.risks # {} IN
  [NoContent EXCEPT !.of = "podCreation",
     !.flags = (object.risks \ {"privilegedInit"})
               \cup (IF privileged THEN {"privileged"} ELSE {})]

clusterRoleBindingCharacteristics(object) ==
  [NoContent EXCEPT !.of = "clusterRoleBinding",
     !.roleKind = object.roleKind, !.roleName = object.roleName]

\* Parameters that are no object convey nothing.
cloudTrailIAMActionOf(rec) ==
  [NoContent EXCEPT !.of = "cloudTrailIAMAction",
     !.policy = IF resolveCloudTrailScenario(rec.eventName) = "scenario-6"
                   /\ rec.params.form = "object"
                THEN rec.params.policy ELSE ""]

\* Mutation of outcomeOf: client errors count as success.
outcomeOfNoUpperBound(code) == code >= 200

\* Of an HTTP response code, 0 for none.
outcomeOf(code) == code >= 200 /\ code < 300

cloudTrailOutcomeOf(rec) == ~rec.error

\* The request object is decoded in full here, unlike in validation.
normalizeKubernetesFails(ev) ==
  /\ resolveScenario(ev) \in {"scenario-2", "scenario-3"}
  /\ ev.object.kind = "" \/ ~ev.object.fits

normalizeKubernetes(ev) ==
  [verb |-> ev.verb, resource |-> ev.resource, subresource |-> ev.subresource,
   successful |-> outcomeOf(ev.code),
   content |-> CASE resolveScenario(ev) = "scenario-1" -> execCharacteristics(ev)
                 [] resolveScenario(ev) = "scenario-2" -> podCreationCharacteristics(ev.object)
                 [] resolveScenario(ev) = "scenario-3" ->
                      clusterRoleBindingCharacteristics(ev.object)
                 [] OTHER -> NoContent]

normalizeCloudTrail(rec) ==
  [verb |-> rec.eventName, resource |-> rec.eventSource, subresource |-> "",
   successful |-> cloudTrailOutcomeOf(rec),
   content |-> IF resolveCloudTrailScenario(rec.eventName) = "none"
               THEN NoContent ELSE cloudTrailIAMActionOf(rec)]

NormalizeErrs(ev) ==
  \/ ev.malformed # "none"
  \/ ev.family = "kubernetes" /\ normalizeKubernetesFails(ev)

NormalizeEvent(ev) ==
  IF ev.family = "aws_cloudtrail" THEN normalizeCloudTrail(ev) ELSE normalizeKubernetes(ev)

=============================================================================
