-------------------------- MODULE DecisionsProofs --------------------------
(***************************************************************************)
(* Theorems about the decisions on an event, for every raw event of the    *)
(* two families: what normalization and the generic algorithm make of it   *)
(* is what the requirements say of the raw event itself.                   *)
(***************************************************************************)
EXTENDS EventDecisionsProperties, FiniteSetTheorems, FunctionTheorems, TLAPS

-----------------------------------------------------------------------------
(* The definitions, by their scenario. *)

\* Every scenario has one definition.
LEMMA DefinitionFound ==
  ASSUME NEW s \in Scenarios
  PROVE  DefinitionOf(s) \in Definitions /\ DefinitionOf(s).scenario = s
  <1>1. \E def \in Definitions : def.scenario = s
    BY DEF Definitions, Definition, Scenarios
  <1> QED
    BY <1>1 DEF DefinitionOf

Exec == Definition("scenario-1", "pods", "exec", "", "", {"stdin_streaming", "tty_allocation"}, {})

RiskyPod ==
  Definition("scenario-2", "pods", "", "create", "success",
    {"privileged_container", "host_network", "host_pid", "host_ipc", "host_path_volume"}, {})

AdminBinding ==
  Definition("scenario-3", "clusterrolebindings", "", "create", "success", {},
    {"role_ref_cluster_admin"})

MFARemoval ==
  Definition("scenario-4", "iam.amazonaws.com", "", "", "success",
    {"mfa_device_deactivated", "mfa_device_deleted"}, {})

KeyCreation ==
  Definition("scenario-5", "iam.amazonaws.com", "", "CreateAccessKey", "success", {},
    {"access_key_created"})

AdminAttachment ==
  Definition("scenario-6", "iam.amazonaws.com", "", "", "success",
    {"administrator_access_attached_to_user", "administrator_access_attached_to_role"}, {})

\* Which one each is.
LEMMA DefinitionsNamed ==
  /\ DefinitionOf("scenario-1") = Exec /\ DefinitionOf("scenario-2") = RiskyPod
  /\ DefinitionOf("scenario-3") = AdminBinding /\ DefinitionOf("scenario-4") = MFARemoval
  /\ DefinitionOf("scenario-5") = KeyCreation /\ DefinitionOf("scenario-6") = AdminAttachment
  <1>1. Definitions = {Exec, RiskyPod, AdminBinding, MFARemoval, KeyCreation, AdminAttachment}
    BY DEF Definitions, Exec, RiskyPod, AdminBinding, MFARemoval, KeyCreation, AdminAttachment
  <1>2. /\ Exec.scenario = "scenario-1" /\ RiskyPod.scenario = "scenario-2"
        /\ AdminBinding.scenario = "scenario-3" /\ MFARemoval.scenario = "scenario-4"
        /\ KeyCreation.scenario = "scenario-5" /\ AdminAttachment.scenario = "scenario-6"
    BY DEF Definition, Exec, RiskyPod, AdminBinding, MFARemoval, KeyCreation, AdminAttachment
  <1>3. \A s \in Scenarios : DefinitionOf(s) \in Definitions /\ DefinitionOf(s).scenario = s
    BY DefinitionFound
  <1> QED
    BY <1>1, <1>2, <1>3 DEF Scenarios

-----------------------------------------------------------------------------
(* The characteristics of the normalized event, from the raw one. *)

Present == characteristicSet(NormalizeEvent(event))

\* Of an audit event, scenario by scenario.
LEMMA AuditPresent ==
  ASSUME event \in AuditEvents
  PROVE  /\ resolveScenario(event) = "scenario-1" => Present = {CharacteristicOf[q] : q \in event.query}
         /\ resolveScenario(event) = "scenario-2" =>
              Present = {CharacteristicOf[IF risk = "privilegedInit" THEN "privileged" ELSE risk] :
                           risk \in event.object.risks}
         /\ resolveScenario(event) = "scenario-3" =>
              Present = IF event.object.roleKind = "ClusterRole" /\ event.object.roleName = "cluster-admin"
                        THEN {"role_ref_cluster_admin"} ELSE {}
         /\ resolveScenario(event) = "none" => Present = {}
         /\ resolveScenario(event) \in {"scenario-1", "scenario-2", "scenario-3", "none"}
  <1> DEFINE content == normalizeKubernetes(event).content
             object == event.object
  <1>1. NormalizeEvent(event) = normalizeKubernetes(event) /\ object \in RequestObjects
    BY DEF NormalizeEvent, AuditEvents
  <1>2. object.risks \subseteq Risks
    BY <1>1 DEF RequestObjects
  <1>3. ASSUME resolveScenario(event) = "scenario-1"
        PROVE  content.of = "exec" /\ content.flags = event.query
    BY <1>3 DEF normalizeKubernetes, execCharacteristics, NoContent
  <1>4. ASSUME resolveScenario(event) = "scenario-2"
        PROVE  /\ content.of = "podCreation"
               /\ content.flags = (object.risks \ {"privilegedInit"})
                    \cup (IF {"privileged", "privilegedInit"} \cap object.risks # {} THEN {"privileged"} ELSE {})
    BY <1>4 DEF normalizeKubernetes, podCreationCharacteristics, NoContent
  <1>5. ASSUME resolveScenario(event) = "scenario-3"
        PROVE  /\ content.of = "clusterRoleBinding"
               /\ content.roleKind = object.roleKind /\ content.roleName = object.roleName
    BY <1>5 DEF normalizeKubernetes, clusterRoleBindingCharacteristics, NoContent
  <1>6. ASSUME resolveScenario(event) = "none" PROVE content.of = ""
    BY <1>6 DEF normalizeKubernetes, NoContent
  <1>7. resolveScenario(event) \in {"scenario-1", "scenario-2", "scenario-3", "none"}
    BY DEF resolveScenario
  <1>8. Present = CASE content.of \in {"exec", "podCreation"} -> {CharacteristicOf[f] : f \in content.flags}
                    [] /\ content.of = "clusterRoleBinding"
                       /\ content.roleKind = "ClusterRole" /\ content.roleName = "cluster-admin" ->
                         {"role_ref_cluster_admin"}
                    [] content.of = "cloudTrailIAMAction" ->
                         {iamCharacteristic(normalizeKubernetes(event).verb, content.policy)} \ {""}
                    [] OTHER -> {}
    BY <1>1 DEF Present, characteristicSet
  <1> HIDE DEF content, object
  <1>9. ASSUME resolveScenario(event) = "scenario-2"
        PROVE  Present = {CharacteristicOf[IF risk = "privilegedInit" THEN "privileged" ELSE risk] :
                            risk \in object.risks}
    <2>1. content.flags = {IF risk = "privilegedInit" THEN "privileged" ELSE risk : risk \in object.risks}
      BY <1>4, <1>9
    <2>2. Present = {CharacteristicOf[f] : f \in content.flags}
      BY <1>4, <1>8, <1>9
    <2> QED
      BY <2>1, <2>2
  <1> QED
    BY <1>3, <1>5, <1>6, <1>7, <1>8, <1>9 DEF object

\* Of a CloudTrail record: that of its action, if it is one.
LEMMA RecordPresent ==
  ASSUME event \in TrailRecords
  PROVE  Present = IF resolveCloudTrailScenario(event.eventName) = "none" THEN {}
                   ELSE {iamCharacteristic(event.eventName, cloudTrailIAMActionOf(event).policy)} \ {""}
  <1> DEFINE rec == normalizeCloudTrail(event)
  <1>1. NormalizeEvent(event) = rec
    BY DEF NormalizeEvent, TrailRecords
  <1>2. rec.verb = event.eventName
    BY DEF normalizeCloudTrail
  <1>3. cloudTrailIAMActionOf(event).of = "cloudTrailIAMAction" /\ NoContent.of = ""
    BY DEF cloudTrailIAMActionOf, NoContent
  <1>4. rec.content = IF resolveCloudTrailScenario(event.eventName) = "none"
                      THEN NoContent ELSE cloudTrailIAMActionOf(event)
    BY DEF normalizeCloudTrail
  <1> HIDE DEF rec
  <1> QED
    BY <1>1, <1>2, <1>3, <1>4 DEF Present, characteristicSet

\* Which characteristics those are, one by one.
LEMMA AuditCharacteristics ==
  ASSUME event \in AuditEvents
  PROVE  /\ resolveScenario(event) = "scenario-1" =>
              (({"stdin_streaming", "tty_allocation"} \cap Present # {}) <=> event.query # {})
         /\ resolveScenario(event) = "scenario-2" =>
              (RiskyPod.requiresAny \cap Present # {} <=> event.object.risks # {})
         /\ "role_ref_cluster_admin" \in Present <=>
              /\ resolveScenario(event) = "scenario-3"
              /\ event.object.roleKind = "ClusterRole" /\ event.object.roleName = "cluster-admin"
         /\ \A id \in MFARemoval.requiresAny \cup KeyCreation.requiresAll \cup AdminAttachment.requiresAny :
              id \notin Present
  <1>1. event.query \subseteq {"stdin", "tty"} /\ event.object.risks \subseteq Risks
    BY DEF AuditEvents, RequestObjects
  <1>2. \A q \in {"stdin", "tty"} : CharacteristicOf[q] \in {"stdin_streaming", "tty_allocation"}
    BY DEF CharacteristicOf
  <1>3. \A risk \in Risks : CharacteristicOf[IF risk = "privilegedInit" THEN "privileged" ELSE risk]
          \in {"privileged_container", "host_network", "host_pid", "host_ipc", "host_path_volume"}
    BY DEF CharacteristicOf, Risks
  <1>4. /\ RiskyPod.requiresAny =
             {"privileged_container", "host_network", "host_pid", "host_ipc", "host_path_volume"}
        /\ MFARemoval.requiresAny = {"mfa_device_deactivated", "mfa_device_deleted"}
        /\ KeyCreation.requiresAll = {"access_key_created"}
        /\ AdminAttachment.requiresAny =
             {"administrator_access_attached_to_user", "administrator_access_attached_to_role"}
    BY DEF RiskyPod, MFARemoval, KeyCreation, AdminAttachment, Definition
  <1>5. ASSUME resolveScenario(event) = "scenario-1"
        PROVE  /\ Present \subseteq {"stdin_streaming", "tty_allocation"}
               /\ Present # {} <=> event.query # {}
    BY <1>1, <1>2, <1>5, AuditPresent
  <1>6. ASSUME resolveScenario(event) = "scenario-2"
        PROVE  /\ Present \subseteq RiskyPod.requiresAny
               /\ Present # {} <=> event.object.risks # {}
    BY <1>1, <1>3, <1>4, <1>6, AuditPresent
  <1>7. resolveScenario(event) = "scenario-3" =>
          /\ Present \subseteq {"role_ref_cluster_admin"}
          /\ Present # {} <=> event.object.roleKind = "ClusterRole" /\ event.object.roleName = "cluster-admin"
    BY AuditPresent
  <1>8. resolveScenario(event) = "none" => Present = {}
    BY AuditPresent
  <1>9. resolveScenario(event) \in {"scenario-1", "scenario-2", "scenario-3", "none"}
    BY AuditPresent
  <1>10. CASE resolveScenario(event) = "scenario-1"
    BY <1>4, <1>5, <1>10
  <1>11. CASE resolveScenario(event) = "scenario-2"
    BY <1>4, <1>6, <1>11
  <1>12. CASE resolveScenario(event) = "scenario-3"
    BY <1>4, <1>7, <1>12
  <1>13. CASE resolveScenario(event) = "none"
    BY <1>4, <1>8, <1>13
  <1> QED
    BY <1>9, <1>10, <1>11, <1>12, <1>13

\* Of a CloudTrail record's, each of the six stands for one action of IAM.
LEMMA RecordCharacteristics ==
  ASSUME event \in TrailRecords
  PROVE  /\ "mfa_device_deactivated" \in Present <=> event.eventName = "DeactivateMFADevice"
         /\ "mfa_device_deleted" \in Present <=> event.eventName = "DeleteVirtualMFADevice"
         /\ "access_key_created" \in Present <=> event.eventName = "CreateAccessKey"
         /\ "administrator_access_attached_to_user" \in Present <=>
              /\ event.eventName = "AttachUserPolicy"
              /\ event.params.form = "object" /\ event.params.policy = "AdministratorAccess"
         /\ "administrator_access_attached_to_role" \in Present <=>
              /\ event.eventName = "AttachRolePolicy"
              /\ event.params.form = "object" /\ event.params.policy = "AdministratorAccess"
         /\ \A id \in Exec.requiresAny \cup RiskyPod.requiresAny \cup AdminBinding.requiresAll :
              id \notin Present
  <1> DEFINE name == event.eventName
             policy == cloudTrailIAMActionOf(event).policy
  <1>1. Present = IF resolveCloudTrailScenario(name) = "none" THEN {}
                  ELSE {iamCharacteristic(name, policy)} \ {""}
    BY RecordPresent
  <1>2. policy = IF resolveCloudTrailScenario(name) = "scenario-6" /\ event.params.form = "object"
                 THEN event.params.policy ELSE ""
    BY DEF cloudTrailIAMActionOf, NoContent
  <1>3. resolveCloudTrailScenario(name) = "scenario-6" <=> name \in {"AttachUserPolicy", "AttachRolePolicy"}
    BY DEF resolveCloudTrailScenario
  <1>4. resolveCloudTrailScenario(name) = "none" <=>
          name \notin {"DeactivateMFADevice", "DeleteVirtualMFADevice", "CreateAccessKey",
                       "AttachUserPolicy", "AttachRolePolicy"}
    BY DEF resolveCloudTrailScenario
  <1>5. /\ Exec.requiresAny = {"stdin_streaming", "tty_allocation"}
        /\ RiskyPod.requiresAny =
             {"privileged_container", "host_network", "host_pid", "host_ipc", "host_path_volume"}
        /\ AdminBinding.requiresAll = {"role_ref_cluster_admin"}
    BY DEF Exec, RiskyPod, AdminBinding, Definition
  <1> HIDE DEF name, policy
  <1>6. policy = "AdministratorAccess" /\ name \in {"AttachUserPolicy", "AttachRolePolicy"} <=>
          /\ name \in {"AttachUserPolicy", "AttachRolePolicy"}
          /\ event.params.form = "object" /\ event.params.policy = "AdministratorAccess"
    BY <1>2, <1>3
  <1>7. CASE name = "DeactivateMFADevice"
    BY <1>1, <1>4, <1>5, <1>7 DEF iamCharacteristic, name
  <1>8. CASE name = "DeleteVirtualMFADevice"
    BY <1>1, <1>4, <1>5, <1>8 DEF iamCharacteristic, name
  <1>9. CASE name = "CreateAccessKey"
    BY <1>1, <1>4, <1>5, <1>9 DEF iamCharacteristic, name
  <1>10. CASE name = "AttachUserPolicy"
    BY <1>1, <1>4, <1>5, <1>6, <1>10 DEF iamCharacteristic, name
  <1>11. CASE name = "AttachRolePolicy"
    BY <1>1, <1>4, <1>5, <1>6, <1>11 DEF iamCharacteristic, name
  <1>12. CASE resolveCloudTrailScenario(name) = "none"
    BY <1>1, <1>4, <1>5, <1>12 DEF name
  <1> QED
    BY <1>4, <1>7, <1>8, <1>9, <1>10, <1>11, <1>12

-----------------------------------------------------------------------------
(* The generic algorithm on each definition. *)

\* What each asks of the normalized event, its own fields in place.
LEMMA MatchesSpelled ==
  LET e == NormalizeEvent(event) IN
  /\ matches(Exec, e) <=> /\ e.resource = "pods" /\ e.subresource = "exec"
                          /\ {"stdin_streaming", "tty_allocation"} \cap Present # {}
  /\ matches(RiskyPod, e) <=> /\ e.resource = "pods" /\ e.subresource = "" /\ e.verb = "create"
                              /\ e.successful /\ RiskyPod.requiresAny \cap Present # {}
  /\ matches(AdminBinding, e) <=>
       /\ e.resource = "clusterrolebindings" /\ e.subresource = "" /\ e.verb = "create"
       /\ e.successful /\ "role_ref_cluster_admin" \in Present
  /\ matches(MFARemoval, e) <=>
       /\ e.resource = "iam.amazonaws.com" /\ e.subresource = "" /\ e.successful
       /\ "mfa_device_deactivated" \in Present \/ "mfa_device_deleted" \in Present
  /\ matches(KeyCreation, e) <=>
       /\ e.resource = "iam.amazonaws.com" /\ e.subresource = "" /\ e.verb = "CreateAccessKey"
       /\ e.successful /\ "access_key_created" \in Present
  /\ matches(AdminAttachment, e) <=>
       /\ e.resource = "iam.amazonaws.com" /\ e.subresource = "" /\ e.successful
       /\ \/ "administrator_access_attached_to_user" \in Present
          \/ "administrator_access_attached_to_role" \in Present
  <1> DEFINE e == NormalizeEvent(event)
  <1>1. \A def : matches(def, e) <=>
          /\ def.resource \in {"", e.resource} /\ def.subresource = e.subresource
          /\ def.verb \in {"", e.verb}
          /\ def.requiresOutcome = "" \/ (def.requiresOutcome = "success" /\ e.successful)
          /\ def.requiresAny = {} \/ def.requiresAny \cap Present # {}
          /\ def.requiresAll \subseteq Present
    BY DEF matches, operationMatches, outcomeSatisfied, Present
  <1> HIDE DEF e
  <1>2. /\ Exec.resource = "pods" /\ Exec.subresource = "exec" /\ Exec.verb = ""
        /\ Exec.requiresOutcome = "" /\ Exec.requiresAll = {}
        /\ Exec.requiresAny = {"stdin_streaming", "tty_allocation"}
    BY DEF Exec, Definition
  <1>3. /\ RiskyPod.resource = "pods" /\ RiskyPod.subresource = "" /\ RiskyPod.verb = "create"
        /\ RiskyPod.requiresOutcome = "success" /\ RiskyPod.requiresAll = {}
        /\ RiskyPod.requiresAny # {}
    BY DEF RiskyPod, Definition
  <1>4. /\ AdminBinding.resource = "clusterrolebindings" /\ AdminBinding.subresource = ""
        /\ AdminBinding.verb = "create" /\ AdminBinding.requiresOutcome = "success"
        /\ AdminBinding.requiresAny = {} /\ AdminBinding.requiresAll = {"role_ref_cluster_admin"}
    BY DEF AdminBinding, Definition
  <1>5. /\ MFARemoval.resource = "iam.amazonaws.com" /\ MFARemoval.subresource = ""
        /\ MFARemoval.verb = "" /\ MFARemoval.requiresOutcome = "success"
        /\ MFARemoval.requiresAny = {"mfa_device_deactivated", "mfa_device_deleted"}
        /\ MFARemoval.requiresAll = {}
    BY DEF MFARemoval, Definition
  <1>6. /\ KeyCreation.resource = "iam.amazonaws.com" /\ KeyCreation.subresource = ""
        /\ KeyCreation.verb = "CreateAccessKey" /\ KeyCreation.requiresOutcome = "success"
        /\ KeyCreation.requiresAny = {} /\ KeyCreation.requiresAll = {"access_key_created"}
    BY DEF KeyCreation, Definition
  <1>7. /\ AdminAttachment.resource = "iam.amazonaws.com" /\ AdminAttachment.subresource = ""
        /\ AdminAttachment.verb = "" /\ AdminAttachment.requiresOutcome = "success"
        /\ AdminAttachment.requiresAny =
             {"administrator_access_attached_to_user", "administrator_access_attached_to_role"}
        /\ AdminAttachment.requiresAll = {}
    BY DEF AdminAttachment, Definition
  <1>8. matches(Exec, e) <=> /\ e.resource = "pods" /\ e.subresource = "exec"
                             /\ {"stdin_streaming", "tty_allocation"} \cap Present # {}
    BY <1>1, <1>2
  <1>9. matches(RiskyPod, e) <=>
          /\ e.resource = "pods" /\ e.subresource = "" /\ e.verb = "create"
          /\ e.successful /\ RiskyPod.requiresAny \cap Present # {}
    BY <1>1, <1>3
  <1>10. matches(AdminBinding, e) <=>
           /\ e.resource = "clusterrolebindings" /\ e.subresource = "" /\ e.verb = "create"
           /\ e.successful /\ "role_ref_cluster_admin" \in Present
    BY <1>1, <1>4
  <1>11. matches(MFARemoval, e) <=>
           /\ e.resource = "iam.amazonaws.com" /\ e.subresource = "" /\ e.successful
           /\ "mfa_device_deactivated" \in Present \/ "mfa_device_deleted" \in Present
    BY <1>1, <1>5
  <1>12. matches(KeyCreation, e) <=>
           /\ e.resource = "iam.amazonaws.com" /\ e.subresource = "" /\ e.verb = "CreateAccessKey"
           /\ e.successful /\ "access_key_created" \in Present
    BY <1>1, <1>6
  <1>13. matches(AdminAttachment, e) <=>
           /\ e.resource = "iam.amazonaws.com" /\ e.subresource = "" /\ e.successful
           /\ \/ "administrator_access_attached_to_user" \in Present
              \/ "administrator_access_attached_to_role" \in Present
    BY <1>1, <1>7
  <1> QED
    BY <1>8, <1>9, <1>10, <1>11, <1>12, <1>13 DEF e

\* A definition matches the normalized event exactly when the raw one meets
\* the conditions of its scenario.
LEMMA MatchesRequired ==
  ASSUME event \in AuditEvents \cup TrailRecords, NEW s \in Scenarios
  PROVE  matches(DefinitionOf(s), NormalizeEvent(event)) <=> Required(s)
  <1> DEFINE e == NormalizeEvent(event)
  <1>1. CASE event \in AuditEvents
    <2>1. /\ event.family = "kubernetes" /\ e = normalizeKubernetes(event) /\ event.code \in Int
      BY <1>1 DEF NormalizeEvent, AuditEvents
    <2>2. /\ normalizeKubernetes(event).verb = event.verb
          /\ normalizeKubernetes(event).resource = event.resource
          /\ normalizeKubernetes(event).subresource = event.subresource
          /\ normalizeKubernetes(event).successful = outcomeOf(event.code)
      BY DEF normalizeKubernetes
    <2>3. outcomeOf(event.code) <=> event.code \in 200..299
      BY <2>1 DEF outcomeOf
    <2>4. /\ e.verb = event.verb /\ e.resource = event.resource /\ e.subresource = event.subresource
          /\ e.successful <=> event.code \in 200..299
      BY <2>1, <2>2, <2>3
    <2> HIDE DEF e
    <2>5. /\ event.resource = "pods" /\ event.subresource = "exec" => resolveScenario(event) = "scenario-1"
          /\ event.resource = "pods" /\ event.subresource = "" /\ event.verb = "create" =>
               resolveScenario(event) = "scenario-2"
          /\ event.resource = "clusterrolebindings" /\ event.verb = "create" =>
               (resolveScenario(event) = "scenario-3" <=> event.apiGroup = "rbac.authorization.k8s.io")
      BY DEF resolveScenario
    <2>6. Required("scenario-1") <=>
            event.resource = "pods" /\ event.subresource = "exec" /\ event.query # {}
      BY <2>1 DEF Required, Audit
    <2>7. Required("scenario-2") <=>
            /\ event.resource = "pods" /\ event.subresource = "" /\ event.verb = "create"
            /\ event.code \in 200..299 /\ event.object.risks # {}
      BY <2>1 DEF Required, Audit, Created
    <2>8. Required("scenario-3") <=>
            /\ event.resource = "clusterrolebindings" /\ event.apiGroup = "rbac.authorization.k8s.io"
            /\ event.subresource = "" /\ event.verb = "create" /\ event.code \in 200..299
            /\ event.object.roleKind = "ClusterRole" /\ event.object.roleName = "cluster-admin"
      BY <2>1 DEF Required, Created
    <2>9. ~Required("scenario-4") /\ ~Required("scenario-5") /\ ~Required("scenario-6")
      BY <2>1 DEF Required, IAMCall
    <2>10. /\ matches(Exec, e) <=> Required("scenario-1")
           /\ matches(RiskyPod, e) <=> Required("scenario-2")
           /\ matches(AdminBinding, e) <=> Required("scenario-3")
      <3>1. matches(Exec, e) <=>
              /\ event.resource = "pods" /\ event.subresource = "exec"
              /\ {"stdin_streaming", "tty_allocation"} \cap Present # {}
        BY <2>4, MatchesSpelled DEF e
      <3>2. matches(RiskyPod, e) <=>
              /\ event.resource = "pods" /\ event.subresource = "" /\ event.verb = "create"
              /\ event.code \in 200..299 /\ RiskyPod.requiresAny \cap Present # {}
        BY <2>4, MatchesSpelled DEF e
      <3>3. matches(AdminBinding, e) <=>
              /\ event.resource = "clusterrolebindings" /\ event.subresource = ""
              /\ event.verb = "create" /\ event.code \in 200..299
              /\ "role_ref_cluster_admin" \in Present
        BY <2>4, MatchesSpelled DEF e
      <3>4. matches(Exec, e) <=> Required("scenario-1")
        BY <1>1, <2>5, <2>6, <3>1, AuditCharacteristics
      <3>5. matches(RiskyPod, e) <=> Required("scenario-2")
        BY <1>1, <2>5, <2>7, <3>2, AuditCharacteristics
      <3>6. matches(AdminBinding, e) <=> Required("scenario-3")
        BY <1>1, <2>5, <2>8, <3>3, AuditCharacteristics
      <3> QED
        BY <3>4, <3>5, <3>6
    <2>11. ~matches(MFARemoval, e) /\ ~matches(KeyCreation, e) /\ ~matches(AdminAttachment, e)
      <3>1. /\ MFARemoval.requiresAny = {"mfa_device_deactivated", "mfa_device_deleted"}
            /\ KeyCreation.requiresAll = {"access_key_created"}
            /\ AdminAttachment.requiresAny =
                 {"administrator_access_attached_to_user", "administrator_access_attached_to_role"}
        BY DEF MFARemoval, KeyCreation, AdminAttachment, Definition
      <3> QED
        BY <1>1, <3>1, MatchesSpelled, AuditCharacteristics DEF e
    <2> QED
      BY <2>9, <2>10, <2>11, DefinitionsNamed DEF Scenarios, e
  <1>2. CASE event \in TrailRecords
    <2>1. event.family = "aws_cloudtrail" /\ e = normalizeCloudTrail(event) /\ event.error \in BOOLEAN
      BY <1>2 DEF NormalizeEvent, TrailRecords
    <2>2. /\ normalizeCloudTrail(event).verb = event.eventName
          /\ normalizeCloudTrail(event).resource = event.eventSource
          /\ normalizeCloudTrail(event).subresource = ""
          /\ normalizeCloudTrail(event).successful = cloudTrailOutcomeOf(event)
      BY DEF normalizeCloudTrail
    <2>3. /\ e.verb = event.eventName /\ e.resource = event.eventSource /\ e.subresource = ""
          /\ e.successful <=> ~event.error
      BY <2>1, <2>2 DEF cloudTrailOutcomeOf
    <2> HIDE DEF e
    <2>4. ~Required("scenario-1") /\ ~Required("scenario-2") /\ ~Required("scenario-3")
      BY <2>1 DEF Required, Audit
    <2>5. Required("scenario-4") <=>
            /\ event.eventSource = "iam.amazonaws.com" /\ ~event.error
            /\ event.eventName \in {"DeactivateMFADevice", "DeleteVirtualMFADevice"}
      BY <2>1 DEF Required, IAMCall
    <2>6. Required("scenario-5") <=>
            event.eventSource = "iam.amazonaws.com" /\ ~event.error /\ event.eventName = "CreateAccessKey"
      BY <2>1 DEF Required, IAMCall
    <2>7. Required("scenario-6") <=>
            /\ event.eventSource = "iam.amazonaws.com" /\ ~event.error
            /\ event.eventName \in {"AttachUserPolicy", "AttachRolePolicy"}
            /\ event.params.form = "object" /\ event.params.policy = "AdministratorAccess"
      BY <2>1 DEF Required, IAMCall
    <2>8. /\ matches(MFARemoval, e) <=> Required("scenario-4")
          /\ matches(KeyCreation, e) <=> Required("scenario-5")
          /\ matches(AdminAttachment, e) <=> Required("scenario-6")
      BY <1>2, <2>3, <2>5, <2>6, <2>7, MatchesSpelled, RecordCharacteristics DEF e
    <2>9. ~matches(Exec, e) /\ ~matches(RiskyPod, e) /\ ~matches(AdminBinding, e)
      <3>1. /\ Exec.requiresAny = {"stdin_streaming", "tty_allocation"}
            /\ AdminBinding.requiresAll = {"role_ref_cluster_admin"}
        BY DEF Exec, AdminBinding, Definition
      <3> QED
        BY <1>2, <3>1, MatchesSpelled, RecordCharacteristics DEF e
    <2> QED
      BY <2>4, <2>8, <2>9, DefinitionsNamed DEF Scenarios, e
  <1> QED
    BY <1>1, <1>2

-----------------------------------------------------------------------------
(* The reason of a match. *)

\* A definition that matches is satisfied by something.
LEMMA SomethingSatisfies ==
  ASSUME NEW s \in Scenarios, NEW e, matches(DefinitionOf(s), e)
  PROVE  satisfied(DefinitionOf(s), e) # {}
  <1> DEFINE def == DefinitionOf(s)
  <1>1. /\ Exec.requiresAny # {} /\ RiskyPod.requiresAny # {} /\ AdminBinding.requiresAll # {}
        /\ MFARemoval.requiresAny # {} /\ KeyCreation.requiresAll # {}
        /\ AdminAttachment.requiresAny # {}
    BY DEF Exec, RiskyPod, AdminBinding, MFARemoval, KeyCreation, AdminAttachment, Definition
  <1>2. def.requiresAny # {} \/ def.requiresAll # {}
    BY <1>1, DefinitionsNamed DEF Scenarios
  <1>3. /\ def.requiresAny = {} \/ def.requiresAny \cap characteristicSet(e) # {}
        /\ def.requiresAll \subseteq characteristicSet(e)
    BY DEF matches
  <1> HIDE DEF def
  <1>4. (def.requiresAny \cup def.requiresAll) \cap characteristicSet(e) # {}
    BY <1>2, <1>3
  <1> QED
    BY <1>4 DEF satisfied, def

\* As many characteristics of an exec as it has parameters.
LEMMA ExecReasonCounted ==
  ASSUME event \in AuditEvents, resolveScenario(event) = "scenario-1"
  PROVE  Cardinality(satisfied(Exec, NormalizeEvent(event))) = Cardinality(event.query)
  <1> DEFINE reason == satisfied(Exec, NormalizeEvent(event))
             query == event.query
  <1>1. Exec.requiresAny = {"stdin_streaming", "tty_allocation"} /\ Exec.requiresAll = {}
    BY DEF Exec, Definition
  <1>2. reason = {"stdin_streaming", "tty_allocation"} \cap Present
    BY <1>1 DEF satisfied, Present
  <1>3. query \subseteq {"stdin", "tty"}
    BY DEF AuditEvents
  <1>4. Present = {CharacteristicOf[q] : q \in query}
    BY AuditPresent
  <1>5. CharacteristicOf["stdin"] = "stdin_streaming" /\ CharacteristicOf["tty"] = "tty_allocation"
    BY DEF CharacteristicOf
  <1> HIDE DEF reason, query
  <1>6. CASE query = {}
    <2>1. reason = {}
      BY <1>2, <1>4, <1>6
    <2> QED
      BY <1>6, <2>1 DEF reason, query
  <1>7. CASE query = {"stdin"}
    <2>1. reason = {"stdin_streaming"}
      BY <1>2, <1>4, <1>5, <1>7
    <2> QED
      BY <1>7, <2>1, FS_Singleton DEF reason, query
  <1>8. CASE query = {"tty"}
    <2>1. reason = {"tty_allocation"}
      BY <1>2, <1>4, <1>5, <1>8
    <2> QED
      BY <1>8, <2>1, FS_Singleton DEF reason, query
  <1>9. CASE query = {"stdin", "tty"}
    <2>1. reason = {"stdin_streaming"} \cup {"tty_allocation"}
      BY <1>2, <1>4, <1>5, <1>9
    <2>2. \A a, b : a # b => Cardinality({a} \cup {b}) = 2
      <3> SUFFICES ASSUME NEW a, NEW b, a # b PROVE Cardinality({a} \cup {b}) = 2
        OBVIOUS
      <3>1. IsFiniteSet({a}) /\ Cardinality({a}) = 1
        BY FS_Singleton
      <3> QED
        BY <3>1, FS_AddElement
    <2>3. query = {"stdin"} \cup {"tty"}
      BY <1>9
    <2>4. Cardinality(reason) = 2
      BY <2>1, <2>2
    <2>5. Cardinality(query) = 2
      BY <2>2, <2>3
    <2> QED
      BY <2>4, <2>5 DEF reason, query
  <1> QED
    BY <1>3, <1>6, <1>7, <1>8, <1>9

\* Every risk of the Pod is among the reasons.
LEMMA PodReasonComplete ==
  ASSUME event \in AuditEvents, resolveScenario(event) = "scenario-2",
         NEW risk \in event.object.risks
  PROVE  CharacteristicOf[IF risk = "privilegedInit" THEN "privileged" ELSE risk]
           \in satisfied(RiskyPod, NormalizeEvent(event))
  <1> DEFINE char == CharacteristicOf[IF risk = "privilegedInit" THEN "privileged" ELSE risk]
  <1>1. char \in Present
    BY AuditPresent
  <1>2. risk \in Risks
    BY DEF AuditEvents, RequestObjects
  <1>3. char \in {"privileged_container", "host_network", "host_pid", "host_ipc", "host_path_volume"}
    BY <1>2 DEF CharacteristicOf, Risks
  <1>4. char \in RiskyPod.requiresAny
    BY <1>3 DEF RiskyPod, Definition
  <1> QED
    BY <1>1, <1>4 DEF satisfied, Present

-----------------------------------------------------------------------------
(* The inductive invariant: each stage holds its function of the event.    *)

\* Past validation the outcome is the classification, past normalization the
\* event its normalized form, past evaluation the results those of the rules.
IInv ==
  /\ event \in AuditEvents \cup TrailRecords
  /\ status \in {"admitted", "validated", "normalized", "evaluated", "failing"}
  /\ outcome = IF status = "admitted" THEN "none" ELSE Classify(event)
  /\ status \in {"normalized", "evaluated"} => normal = NormalizeEvent(event)
  /\ status # "evaluated" => results = [s \in Scenarios |-> NoResult]
  /\ status = "evaluated" => results = [s \in Scenarios |-> ResultOf(DefinitionOf(s))]

\* It holds of every event admitted.
LEMMA InitIInv == Init => IInv
  BY RawAssumption DEF Init, IInv

\* Every stage keeps it.
LEMMA NextIInv ==
  ASSUME IInv, [Next]_vars
  PROVE  IInv'
  <1>1. CASE Validate
    <2>1. outcome' = Classify(event)'
      BY <1>1 DEF Validate
    <2> QED
      BY <1>1, <2>1 DEF IInv, Validate
  <1>2. CASE Normalize
    <2>1. outcome' = Classify(event)'
      BY <1>2 DEF Normalize, Claimable, IInv
    <2>2. normal' = NormalizeEvent(event)'
      BY <1>2 DEF Normalize
    <2> QED
      BY <1>2, <2>1, <2>2 DEF IInv, Normalize, Claimable
  <1>3. CASE NormalizeFails
    <2>1. outcome' = Classify(event)'
      BY <1>3 DEF NormalizeFails, Claimable, IInv
    <2> QED
      BY <1>3, <2>1 DEF IInv, NormalizeFails, Claimable
  <1>4. CASE Evaluate
    <2>1. outcome' = Classify(event)' /\ normal' = NormalizeEvent(event)'
      BY <1>4 DEF Evaluate, IInv
    <2>2. results' = [s \in Scenarios |-> ResultOf(DefinitionOf(s))]'
      BY <1>4 DEF Evaluate, ResultOf
    <2> QED
      BY <1>4, <2>1, <2>2 DEF IInv, Evaluate
  <1>5. CASE UNCHANGED vars
    <2>1. /\ Classify(event)' = Classify(event) /\ NormalizeEvent(event)' = NormalizeEvent(event)
          /\ [s \in Scenarios |-> ResultOf(DefinitionOf(s))]'
               = [s \in Scenarios |-> ResultOf(DefinitionOf(s))]
      BY <1>5 DEF vars, ResultOf
    <2> QED
      BY <1>5, <2>1 DEF IInv, vars
  <1> QED
    BY <1>1, <1>2, <1>3, <1>4, <1>5 DEF Next

\* So it always holds.
LEMMA IInvHolds == Spec => []IInv
  BY InitIInv, NextIInv, PTL DEF Spec

-----------------------------------------------------------------------------
(* The theorems. *)

\* What the invariant says of an evaluated event's results.
LEMMA ResultsHeld ==
  ASSUME IInv, NEW s \in Scenarios
  PROVE  LET def == DefinitionOf(s)
             e   == NormalizeEvent(event) IN
         /\ results[s].matched <=> status = "evaluated" /\ matches(def, e)
         /\ results[s].matched => results[s].satisfied = satisfied(def, e)
  <1>1. CASE status = "evaluated"
    <2>1. results[s] = ResultOf(DefinitionOf(s)) /\ normal = NormalizeEvent(event)
      BY <1>1 DEF IInv
    <2>2. /\ ResultOf(DefinitionOf(s)).matched <=> matches(DefinitionOf(s), normal)
          /\ matches(DefinitionOf(s), normal) =>
               ResultOf(DefinitionOf(s)).satisfied = satisfied(DefinitionOf(s), normal)
      BY DEF ResultOf, NoResult
    <2> QED
      BY <1>1, <2>1, <2>2
  <1>2. CASE status # "evaluated"
    <2>1. results[s] = NoResult
      BY <1>2 DEF IInv
    <2> QED
      BY <1>2, <2>1 DEF NoResult
  <1> QED
    BY <1>1, <1>2

\* An evaluated event matches a scenario's definition exactly when the raw
\* event meets the scenario's conditions, for every event of the two families.
THEOREM RulesMatchRequirements == Spec => []MatchesAsRequired
  <1>1. IInv => MatchesAsRequired
    <2> SUFFICES ASSUME IInv, status = "evaluated", NEW s \in Scenarios
                 PROVE  results[s].matched <=> Required(s)
      BY DEF MatchesAsRequired
    <2>1. results[s].matched <=> matches(DefinitionOf(s), NormalizeEvent(event))
      BY ResultsHeld
    <2>2. event \in AuditEvents \cup TrailRecords
      BY DEF IInv
    <2> QED
      BY <2>1, <2>2, MatchesRequired
  <1> QED
    BY <1>1, IInvHolds, PTL

\* A match is recorded with a reason that leaves out nothing of the request:
\* every parameter of an exec, every risk of a Pod.
THEOREM ReasonsAreComplete == Spec => []ReasonIsComplete
  <1>1. IInv => ReasonIsComplete
    <2> SUFFICES ASSUME IInv PROVE ReasonIsComplete
      OBVIOUS
    <2> DEFINE e == NormalizeEvent(event)
    <2>1. event \in AuditEvents \cup TrailRecords
      BY DEF IInv
    <2>2. "scenario-1" \in Scenarios /\ "scenario-2" \in Scenarios
      BY DEF Scenarios
    <2>3. ASSUME NEW s \in Scenarios, results[s].matched
          PROVE  results[s].satisfied # {}
      BY <2>3, ResultsHeld, SomethingSatisfies
    <2>4. ASSUME results["scenario-1"].matched
          PROVE  Cardinality(results["scenario-1"].satisfied) = Cardinality(event.query)
      <3>1. matches(Exec, e) /\ results["scenario-1"].satisfied = satisfied(Exec, e)
        BY <2>2, <2>4, ResultsHeld, DefinitionsNamed
      <3>2. Required("scenario-1")
        BY <2>1, <2>2, <3>1, MatchesRequired, DefinitionsNamed
      <3>3. event.family = "kubernetes" /\ event.resource = "pods" /\ event.subresource = "exec"
        BY <3>2 DEF Required, Audit
      <3>4. event \in AuditEvents /\ resolveScenario(event) = "scenario-1"
        BY <2>1, <3>3 DEF TrailRecords, resolveScenario
      <3> QED
        BY <3>1, <3>4, ExecReasonCounted
    <2>5. ASSUME results["scenario-2"].matched, NEW risk \in event.object.risks
          PROVE  \E c \in results["scenario-2"].satisfied :
                   c = CharacteristicOf[IF risk = "privilegedInit" THEN "privileged" ELSE risk]
      <3>1. matches(RiskyPod, e) /\ results["scenario-2"].satisfied = satisfied(RiskyPod, e)
        BY <2>2, <2>5, ResultsHeld, DefinitionsNamed
      <3>2. Required("scenario-2")
        BY <2>1, <2>2, <3>1, MatchesRequired, DefinitionsNamed
      <3>3. /\ event.family = "kubernetes" /\ event.resource = "pods" /\ event.subresource = ""
            /\ event.verb = "create"
        BY <3>2 DEF Required, Audit, Created
      <3>4. event \in AuditEvents /\ resolveScenario(event) = "scenario-2"
        BY <2>1, <3>3 DEF TrailRecords, resolveScenario
      <3> QED
        BY <2>5, <3>1, <3>4, PodReasonComplete
    <2> QED
      BY <2>3, <2>4, <2>5 DEF ReasonIsComplete
  <1> QED
    BY <1>1, IInvHolds, PTL

\* An event that is not attributable is unsupported however malformed it is,
\* and a malformed one is neither valid nor incomplete.
THEOREM OutcomesHavePrecedence == Spec => []PrecedenceHolds
  <1>1. IInv => PrecedenceHolds
    BY DEF IInv, PrecedenceHolds, Classify, Marked, DecodeFails, AuditEvents, TrailRecords
  <1> QED
    BY <1>1, IInvHolds, PTL

\* Normalization conveys the content of the scenario that validation checked.
THEOREM ResolversAlwaysAgree == Spec => []ResolversAgree
  <1>1. IInv => ResolversAgree
    <2> SUFFICES ASSUME IInv, status \in {"normalized", "evaluated"} PROVE ResolversAgree
      BY DEF ResolversAgree
    <2>1. normal = NormalizeEvent(event)
      BY DEF IInv
    <2>2. CASE event \in AuditEvents
      <3>1. event.family = "kubernetes" /\ NormalizeEvent(event) = normalizeKubernetes(event)
        BY <2>2 DEF AuditEvents, NormalizeEvent
      <3>2. scenarioOf(event) = resolveScenario(event)
        BY DEF scenarioOf, resolveScenario
      <3>3. resolveScenario(event) \in {"scenario-1", "scenario-2", "scenario-3", "none"}
        BY DEF resolveScenario
      <3>4. normalizeKubernetes(event).content.of =
              CASE resolveScenario(event) = "scenario-1" -> "exec"
                [] resolveScenario(event) = "scenario-2" -> "podCreation"
                [] resolveScenario(event) = "scenario-3" -> "clusterRoleBinding"
                [] OTHER -> ""
        BY DEF normalizeKubernetes, execCharacteristics, podCreationCharacteristics,
               clusterRoleBindingCharacteristics, NoContent
      <3> QED
        BY <2>1, <3>1, <3>2, <3>3, <3>4 DEF ResolversAgree
    <2>3. CASE event \in TrailRecords
      <3>1. event.family = "aws_cloudtrail" /\ NormalizeEvent(event) = normalizeCloudTrail(event)
        BY <2>3 DEF TrailRecords, NormalizeEvent
      <3>2. ctScenarioOf(event) = resolveCloudTrailScenario(event.eventName)
        BY DEF ctScenarioOf, resolveCloudTrailScenario
      <3>3. resolveCloudTrailScenario(event.eventName)
              \in {"scenario-4", "scenario-5", "scenario-6", "none"}
        BY DEF resolveCloudTrailScenario
      <3>4. normalizeCloudTrail(event).content.of =
              IF resolveCloudTrailScenario(event.eventName) = "none" THEN "" ELSE "cloudTrailIAMAction"
        BY DEF normalizeCloudTrail, cloudTrailIAMActionOf, NoContent
      <3> QED
        BY <2>1, <3>1, <3>2, <3>3, <3>4 DEF ResolversAgree
    <2> QED
      BY <2>2, <2>3 DEF IInv
  <1> QED
    BY <1>1, IInvHolds, PTL

=============================================================================
