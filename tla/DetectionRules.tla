--------------------------- MODULE DetectionRules ---------------------------
(***************************************************************************)
(* Package detection: the embedded definitions and the algorithm that      *)
(* evaluates a normalized event against one of them.                       *)
(***************************************************************************)
EXTENDS SourceEvents

Definition(scenario, resource, subresource, verb, outcome, any, all) ==
  [scenario |-> scenario, resource |-> resource, subresource |-> subresource,
   verb |-> verb, requiresOutcome |-> outcome, requiresAny |-> any, requiresAll |-> all]

\* The files of definitions/.
Definitions ==
  {Definition("scenario-1", "pods", "exec", "", "", {"stdin_streaming", "tty_allocation"}, {}),
   Definition("scenario-2", "pods", "", "create", "success",
     {"privileged_container", "host_network", "host_pid", "host_ipc", "host_path_volume"}, {}),
   Definition("scenario-3", "clusterrolebindings", "", "create", "success",
     {}, {"role_ref_cluster_admin"}),
   Definition("scenario-4", "iam.amazonaws.com", "", "", "success",
     {"mfa_device_deactivated", "mfa_device_deleted"}, {}),
   Definition("scenario-5", "iam.amazonaws.com", "", "CreateAccessKey", "success",
     {}, {"access_key_created"}),
   Definition("scenario-6", "iam.amazonaws.com", "", "", "success",
     {"administrator_access_attached_to_user", "administrator_access_attached_to_role"}, {})}

\* The characteristic a field of the normalized event stands for.
CharacteristicOf ==
  [stdin |-> "stdin_streaming", tty |-> "tty_allocation",
   privileged |-> "privileged_container", hostNetwork |-> "host_network",
   hostPID |-> "host_pid", hostIPC |-> "host_ipc", hostPath |-> "host_path_volume"]

\* The characteristic of an IAM action, "" for none.
iamCharacteristic(verb, policy) ==
  LET admin == policy = "AdministratorAccess" IN
  CASE verb = "DeactivateMFADevice"       -> "mfa_device_deactivated"
    [] verb = "DeleteVirtualMFADevice"    -> "mfa_device_deleted"
    [] verb = "CreateAccessKey"           -> "access_key_created"
    [] verb = "AttachUserPolicy" /\ admin -> "administrator_access_attached_to_user"
    [] verb = "AttachRolePolicy" /\ admin -> "administrator_access_attached_to_role"
    [] OTHER -> ""

characteristicSet(event) ==
  LET content == event.content IN
  CASE content.of \in {"exec", "podCreation"} -> {CharacteristicOf[f] : f \in content.flags}
    [] /\ content.of = "clusterRoleBinding"
       /\ content.roleKind = "ClusterRole" /\ content.roleName = "cluster-admin" ->
         {"role_ref_cluster_admin"}
    [] content.of = "cloudTrailIAMAction" ->
         {iamCharacteristic(event.verb, content.policy)} \ {""}
    [] OTHER -> {}

operationMatches(def, event) ==
  /\ def.resource \in {"", event.resource}
  /\ def.subresource = event.subresource
  /\ def.verb \in {"", event.verb}

outcomeSatisfied(def, event) ==
  def.requiresOutcome = "" \/ (def.requiresOutcome = "success" /\ event.successful)

\* Whether the definition matches, and the characteristics that satisfy it.
matches(def, event) ==
  LET present == characteristicSet(event) IN
  /\ operationMatches(def, event)
  /\ outcomeSatisfied(def, event)
  /\ def.requiresAny = {} \/ def.requiresAny \cap present # {}
  /\ def.requiresAll \subseteq present

\* Mutation of satisfied: only the alternatives are recorded.
satisfiedAnyOnly(def, event) == def.requiresAny \cap characteristicSet(event)

satisfied(def, event) == (def.requiresAny \cup def.requiresAll) \cap characteristicSet(event)

=============================================================================
