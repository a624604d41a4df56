------------------------ MODULE InvestigationProofs ------------------------
(***************************************************************************)
(* Theorems about the investigation page, for every event that raises an   *)
(* alert: what the page derives anew agrees with what the platform         *)
(* decided.                                                                *)
(***************************************************************************)
EXTENDS InvestigationViewProperties, DecisionsProofs

-----------------------------------------------------------------------------
(* The alert and the response. *)

\* What has been decided of an event that raised a scenario's alert.
LEMMA MatchedDecided ==
  ASSUME IInv, NEW s \in Matched
  PROVE  LET def == DefinitionOf(s) IN
         /\ s \in Scenarios /\ event \in AuditEvents \cup TrailRecords
         /\ normal = NormalizeEvent(event) /\ matches(def, normal) /\ Required(s)
         /\ results[s].satisfied = (def.requiresAny \cup def.requiresAll) \cap Present
         /\ def.requiresAny = {} \/ def.requiresAny \cap Present # {}
         /\ def.requiresAll \subseteq Present
         /\ def.requiresOutcome = "" \/ (def.requiresOutcome = "success" /\ normal.successful)
  <1>1. s \in Scenarios /\ status = "evaluated" /\ results[s].matched
    BY DEF Matched
  <1>2. event \in AuditEvents \cup TrailRecords /\ normal = NormalizeEvent(event)
    BY <1>1 DEF IInv
  <1>3. /\ matches(DefinitionOf(s), normal)
        /\ results[s].satisfied = satisfied(DefinitionOf(s), normal)
    BY <1>1, <1>2, ResultsHeld
  <1>4. Required(s)
    BY <1>1, <1>2, <1>3, MatchesRequired
  <1> QED
    BY <1>1, <1>2, <1>3, <1>4 DEF matches, outcomeSatisfied, satisfied, Present

\* What a response carries.
LEMMA ResponseCarries ==
  ASSUME NEW s, NEW literal, NEW available, NEW failedLink
  PROVE  LET data == ResponseTo(s, literal, available, failedLink) IN
         /\ data.family = event.family /\ data.event = normal /\ data.literal = literal
         /\ data.code = IF event.family = "kubernetes" THEN event.code ELSE 0
         /\ data.definition = DefinitionOf(s) /\ data.satisfied = results[s].satisfied
         /\ data.available = available /\ data.failedLink = failedLink
  BY DEF ResponseTo, Response

-----------------------------------------------------------------------------
(* Provenance. *)

\* The path of each characteristic.
LEMMA PathsNamed ==
  /\ NormalizedPath["stdin_streaming"] = <<"exec", "stdin">>
  /\ NormalizedPath["tty_allocation"] = <<"exec", "tty">>
  /\ NormalizedPath["privileged_container"] = <<"podCreation", "privileged">>
  /\ NormalizedPath["host_network"] = <<"podCreation", "hostNetwork">>
  /\ NormalizedPath["host_pid"] = <<"podCreation", "hostPID">>
  /\ NormalizedPath["host_ipc"] = <<"podCreation", "hostIPC">>
  /\ NormalizedPath["host_path_volume"] = <<"podCreation", "hostPath">>
  /\ \A id \in {"role_ref_cluster_admin", "mfa_device_deactivated", "mfa_device_deleted",
                "access_key_created", "administrator_access_attached_to_user",
                "administrator_access_attached_to_role"} :
       NormalizedPath[id][1] \in {"clusterRoleBinding", "cloudTrailIAMAction"}
  BY DEF NormalizedPath

\* Only an exec's content has an origin in the raw event: its URI.
LEMMA ContentLinks ==
  ASSUME NEW data, NEW link \in buildLineageLinks(data),
         link.normalizedPath[1] \in
           {"exec", "podCreation", "clusterRoleBinding", "cloudTrailIAMAction"}
  PROVE  /\ data.event.content.of = "exec" /\ data.family # "aws_cloudtrail"
         /\ link.rawPath = "requestURI" /\ link.normalizedPath[1] = "exec"
  <1>1. \A path, raw : Link(path, raw).normalizedPath = path /\ Link(path, raw).rawPath = raw
    BY DEF Link
  <1>2. \/ link \in {Link(<<"subject", "username">>, "user.username"),
                    Link(<<"operation", "verb">>, "verb"),
                    Link(<<"operation", "requestURI">>, "requestURI"),
                    Link(<<"requestTime">>, "requestReceivedTimestamp"),
                    Link(<<"target", "resource">>, "objectRef.resource"),
                    Link(<<"target", "subresource">>, "objectRef.subresource"),
                    Link(<<"outcome", "code">>, "responseStatus.code")}
        \/ /\ data.event.content.of = "exec"
           /\ link \in {Link(<<"exec", "stdin">>, "requestURI"), Link(<<"exec", "tty">>, "requestURI")}
    BY DEF buildLineageLinks
  <1>3. data.family # "aws_cloudtrail"
    BY DEF buildLineageLinks
  <1> QED
    BY <1>1, <1>2, <1>3

\* The content of an exec is that of a Kubernetes exec request.
LEMMA ExecContent ==
  ASSUME event \in AuditEvents \cup TrailRecords,
         NormalizeEvent(event).content.of = "exec"
  PROVE  /\ event \in AuditEvents /\ Audit("pods", "exec") /\ resolveScenario(event) = "scenario-1"
         /\ NormalizeEvent(event).content.flags = event.query
  <1>1. event \in AuditEvents
    <2> SUFFICES ASSUME event \in TrailRecords PROVE FALSE
      OBVIOUS
    <2>1. NormalizeEvent(event) = normalizeCloudTrail(event)
      BY DEF NormalizeEvent, TrailRecords
    <2>2. normalizeCloudTrail(event).content.of \in {"", "cloudTrailIAMAction"}
      BY DEF normalizeCloudTrail, cloudTrailIAMActionOf, NoContent
    <2> QED
      BY <2>1, <2>2
  <1>2. event.family = "kubernetes" /\ NormalizeEvent(event) = normalizeKubernetes(event)
    BY <1>1 DEF NormalizeEvent, AuditEvents
  <1>3. normalizeKubernetes(event).content.of = "exec" => resolveScenario(event) = "scenario-1"
    BY DEF normalizeKubernetes, podCreationCharacteristics, clusterRoleBindingCharacteristics,
           NoContent
  <1>4. resolveScenario(event) = "scenario-1" =>
          event.resource = "pods" /\ event.subresource = "exec"
    BY DEF resolveScenario
  <1>5. resolveScenario(event) = "scenario-1" =>
          normalizeKubernetes(event).content.flags = event.query
    BY DEF normalizeKubernetes, execCharacteristics, NoContent
  <1> QED
    BY <1>1, <1>2, <1>3, <1>4, <1>5 DEF Audit

\* What each definition declares.
LEMMA ConditionsListed ==
  /\ DefinitionOf("scenario-1").requiresAny = {"stdin_streaming", "tty_allocation"}
  /\ DefinitionOf("scenario-2").requiresAny =
       {"privileged_container", "host_network", "host_pid", "host_ipc", "host_path_volume"}
  /\ DefinitionOf("scenario-3").requiresAll = {"role_ref_cluster_admin"}
  /\ DefinitionOf("scenario-4").requiresAny = {"mfa_device_deactivated", "mfa_device_deleted"}
  /\ DefinitionOf("scenario-5").requiresAll = {"access_key_created"}
  /\ DefinitionOf("scenario-6").requiresAny =
       {"administrator_access_attached_to_user", "administrator_access_attached_to_role"}
  /\ \A s \in {"scenario-1", "scenario-2", "scenario-4", "scenario-6"} : DefinitionOf(s).requiresAll = {}
  /\ \A s \in {"scenario-3", "scenario-5"} : DefinitionOf(s).requiresAny = {}
  /\ DefinitionOf("scenario-1").requiresOutcome = ""
  /\ \A s \in Scenarios \ {"scenario-1"} : DefinitionOf(s).requiresOutcome = "success"
  <1>1. /\ Exec.requiresAny = {"stdin_streaming", "tty_allocation"} /\ Exec.requiresAll = {}
        /\ Exec.requiresOutcome = ""
    BY DEF Exec, Definition
  <1>2. /\ RiskyPod.requiresAny =
             {"privileged_container", "host_network", "host_pid", "host_ipc", "host_path_volume"}
        /\ RiskyPod.requiresAll = {} /\ RiskyPod.requiresOutcome = "success"
    BY DEF RiskyPod, Definition
  <1>3. /\ AdminBinding.requiresAny = {} /\ AdminBinding.requiresAll = {"role_ref_cluster_admin"}
        /\ AdminBinding.requiresOutcome = "success"
    BY DEF AdminBinding, Definition
  <1>4. /\ MFARemoval.requiresAny = {"mfa_device_deactivated", "mfa_device_deleted"}
        /\ MFARemoval.requiresAll = {} /\ MFARemoval.requiresOutcome = "success"
    BY DEF MFARemoval, Definition
  <1>5. /\ KeyCreation.requiresAny = {} /\ KeyCreation.requiresAll = {"access_key_created"}
        /\ KeyCreation.requiresOutcome = "success"
    BY DEF KeyCreation, Definition
  <1>6. /\ AdminAttachment.requiresAny =
             {"administrator_access_attached_to_user", "administrator_access_attached_to_role"}
        /\ AdminAttachment.requiresAll = {} /\ AdminAttachment.requiresOutcome = "success"
    BY DEF AdminAttachment, Definition
  <1> QED
    BY <1>1, <1>2, <1>3, <1>4, <1>5, <1>6, DefinitionsNamed DEF Scenarios

\* The characteristics are of the content of an exec, or of something else.
LEMMA DeclaredPaths ==
  ASSUME NEW s \in Scenarios, NEW id \in DefinitionOf(s).requiresAny \cup DefinitionOf(s).requiresAll
  PROVE  \/ id \in {"stdin_streaming", "tty_allocation"}
         \/ NormalizedPath[id][1] \in {"podCreation", "clusterRoleBinding", "cloudTrailIAMAction"}
  <1>1. CASE s = "scenario-2"
    <2>1. id \in {"privileged_container", "host_network", "host_pid", "host_ipc", "host_path_volume"}
      BY <1>1, ConditionsListed
    <2> QED
      BY <2>1, PathsNamed
  <1>2. CASE s = "scenario-1"
    BY <1>2, ConditionsListed
  <1>3. CASE s \in {"scenario-3", "scenario-4", "scenario-5", "scenario-6"}
    <2>1. id \in {"role_ref_cluster_admin", "mfa_device_deactivated", "mfa_device_deleted",
                  "access_key_created", "administrator_access_attached_to_user",
                  "administrator_access_attached_to_role"}
      BY <1>3, ConditionsListed
    <2> QED
      BY <2>1, PathsNamed
  <1> QED
    BY <1>1, <1>2, <1>3 DEF Scenarios

\* The states of a provenance.
LEMMA ProvenanceStates ==
  ASSUME NEW data, NEW id
  PROVE  LET p == deriveProvenanceState(id, data) IN
         /\ p.kind \in {"unavailable", "verified", "partial"}
         /\ p.kind = "unavailable" <=> ~({"source-event", "normalized-event"} \subseteq data.available)
         /\ p.kind = "unavailable" => p.missing \notin data.available
         /\ p.kind # "unavailable" =>
              p.path = NormalizedPath[id] /\ p.value = readPath(data, NormalizedPath[id])
         /\ p.kind = "verified" =>
              \E link \in buildLineageLinks(data) :
                link.normalizedPath = NormalizedPath[id] /\ p.rawPath = link.rawPath
         /\ p.mark # {} => p.kind = "verified" /\ p.mark = findRawHighlight(data, id, p.value)
  <1> DEFINE p == deriveProvenanceState(id, data)
             links == {l \in buildLineageLinks(data) : l.normalizedPath = NormalizedPath[id]}
             value == readPath(data, NormalizedPath[id])
  <1>1. CASE "source-event" \notin data.available
    BY <1>1 DEF deriveProvenanceState, isAvailable, Unavailable
  <1>2. CASE "source-event" \in data.available /\ "normalized-event" \notin data.available
    BY <1>2 DEF deriveProvenanceState, isAvailable, Unavailable
  <1>3. CASE {"source-event", "normalized-event"} \subseteq data.available
    <2>1. /\ p.kind = IF links # {} THEN "verified" ELSE "partial"
          /\ p.rawPath = IF links # {} THEN (CHOOSE l \in links : TRUE).rawPath ELSE ""
          /\ p.path = NormalizedPath[id] /\ p.value = value
          /\ p.mark = IF links # {} THEN findRawHighlight(data, id, value) ELSE {}
      BY <1>3 DEF deriveProvenanceState, isAvailable
    <2>2. links # {} => (CHOOSE l \in links : TRUE) \in links
      OBVIOUS
    <2> HIDE DEF p, value
    <2> QED
      BY <1>3, <2>1, <2>2 DEF p, value
  <1> QED
    BY <1>1, <1>2, <1>3

\* Of a matched characteristic, a raw origin means an exec, and a true value.
LEMMA VerifiedIsExec ==
  ASSUME IInv, NEW s \in Matched, NEW id \in results[s].satisfied,
         NEW literal, NEW available, NEW failedLink,
         deriveProvenanceState(id, ResponseTo(s, literal, available, failedLink)).kind = "verified"
  PROVE  LET p == deriveProvenanceState(id, ResponseTo(s, literal, available, failedLink)) IN
         /\ Audit("pods", "exec") /\ p.rawPath = "requestURI" /\ p.value = "true"
         /\ id \in {"stdin_streaming", "tty_allocation"} /\ QueryParam[id] \in event.query
  <1> DEFINE data == ResponseTo(s, literal, available, failedLink)
             p == deriveProvenanceState(id, data)
             def == DefinitionOf(s)
             content == NormalizeEvent(event).content
  <1>1. /\ s \in Scenarios /\ event \in AuditEvents \cup TrailRecords
        /\ normal = NormalizeEvent(event)
        /\ id \in def.requiresAny \cup def.requiresAll /\ id \in Present
    BY MatchedDecided
  <1>2. data.event = normal
    BY ResponseCarries
  <1>3. PICK link \in buildLineageLinks(data) :
          link.normalizedPath = NormalizedPath[id] /\ p.rawPath = link.rawPath
    BY ProvenanceStates
  <1>4. \/ id \in {"stdin_streaming", "tty_allocation"}
        \/ NormalizedPath[id][1] \in {"podCreation", "clusterRoleBinding", "cloudTrailIAMAction"}
    BY <1>1, DeclaredPaths
  <1>5. NormalizedPath["stdin_streaming"][1] = "exec" /\ NormalizedPath["tty_allocation"][1] = "exec"
    BY PathsNamed
  <1>6. /\ data.event.content.of = "exec" /\ p.rawPath = "requestURI"
        /\ NormalizedPath[id][1] = "exec"
    BY <1>3, <1>4, <1>5, ContentLinks
  <1>7. id \in {"stdin_streaming", "tty_allocation"}
    BY <1>4, <1>6
  <1>8. /\ content.of = "exec" /\ content.flags = event.query
        /\ event \in AuditEvents /\ Audit("pods", "exec") /\ resolveScenario(event) = "scenario-1"
    BY <1>1, <1>2, <1>6, ExecContent
  <1>9. event.query \subseteq {"stdin", "tty"} /\ Present = {CharacteristicOf[q] : q \in event.query}
    BY <1>8, AuditPresent DEF AuditEvents
  <1>10. QueryParam[id] \in event.query /\ NormalizedPath[id] = <<"exec", QueryParam[id]>>
    BY <1>1, <1>7, <1>9, PathsNamed DEF CharacteristicOf, QueryParam
  <1>11. readPath(data, NormalizedPath[id]) = "true"
    <2>1. NormalizedPath[id][1] = "exec" /\ NormalizedPath[id][2] = QueryParam[id]
      BY <1>10
    <2>2. QueryParam[id] # "policyName"
      BY <1>7 DEF QueryParam
    <2>3. data.event.content = content
      BY <1>1, <1>2
    <2> HIDE DEF data, content
    <2> QED
      BY <1>8, <1>10, <2>1, <2>2, <2>3 DEF readPath
  <1>12. p.value = "true"
    BY <1>11, ProvenanceStates
  <1> QED
    BY <1>6, <1>7, <1>8, <1>10, <1>12

\* What a provenance claims of a matched characteristic the evidence shows: a
\* raw origin, a marked literal, a missing artifact.
THEOREM ProvenanceIsHonest == Spec => []ProvenanceHonest
  <1>1. IInv => ProvenanceHonest
    <2> SUFFICES ASSUME IInv, NEW s \in Matched,
                        NEW available \in Without({"source-event", "normalized-event"}),
                        NEW literal \in SUBSET {"stdin", "tty"}, NEW id \in results[s].satisfied
                 PROVE  LET data == ResponseTo(s, literal, available, "")
                            p    == deriveProvenanceState(id, data) IN
                        /\ p.kind = "unavailable"
                             <=> ~({"source-event", "normalized-event"} \subseteq available)
                        /\ p.kind = "unavailable" => p.missing \notin available
                        /\ p.kind = "verified" => /\ Audit("pods", "exec") /\ p.value = "true"
                                                  /\ p.rawPath = "requestURI"
                        /\ p.mark # {} => /\ event.family = "kubernetes"
                                          /\ p.mark \subseteq event.query \cap literal
                        /\ renderHighlightedText(data, id) \subseteq p.mark
      BY DEF ProvenanceHonest
    <2> DEFINE data == ResponseTo(s, literal, available, "")
               p == deriveProvenanceState(id, data)
    <2>1. data.available = available /\ data.literal = literal
      BY DEF ResponseTo, Response
    <2>2. p.kind = "verified" =>
            /\ Audit("pods", "exec") /\ p.rawPath = "requestURI" /\ p.value = "true"
            /\ id \in {"stdin_streaming", "tty_allocation"} /\ QueryParam[id] \in event.query
      BY VerifiedIsExec
    <2>3. p.mark # {} => p.kind = "verified" /\ p.mark = findRawHighlight(data, id, p.value)
      BY ProvenanceStates
    <2>4. findRawHighlight(data, id, p.value) # {} =>
            QueryParam[id] \in literal /\ findRawHighlight(data, id, p.value) = {QueryParam[id]}
      BY <2>1 DEF findRawHighlight
    <2>5. renderHighlightedText(data, id) \subseteq p.mark
      BY DEF renderHighlightedText, Traced, selectedProvenance
    <2>6. /\ p.kind = "unavailable"
               <=> ~({"source-event", "normalized-event"} \subseteq available)
          /\ p.kind = "unavailable" => p.missing \notin available
      <3> HIDE DEF data
      <3> QED
        BY <2>1, ProvenanceStates
    <2> HIDE DEF p, data
    <2>7. p.mark # {} => event.family = "kubernetes" /\ p.mark \subseteq event.query \cap literal
      BY <2>2, <2>3, <2>4 DEF Audit
    <2> QED
      BY <2>2, <2>5, <2>6, <2>7 DEF p, data
  <1> QED
    BY <1>1, IInvHolds, PTL

-----------------------------------------------------------------------------
(* The rows of the concordance, which the map draws as pins. *)

\* A definition's characteristics stand in the order of its file.
LEMMA DeclaredInOrder ==
  /\ Declared({}) = <<>>
  /\ Declared({"stdin_streaming", "tty_allocation"}) = <<"stdin_streaming", "tty_allocation">>
  /\ Declared({"privileged_container", "host_network", "host_pid", "host_ipc", "host_path_volume"}) =
       <<"privileged_container", "host_network", "host_pid", "host_ipc", "host_path_volume">>
  /\ Declared({"role_ref_cluster_admin"}) = <<"role_ref_cluster_admin">>
  /\ Declared({"mfa_device_deactivated", "mfa_device_deleted"}) =
       <<"mfa_device_deactivated", "mfa_device_deleted">>
  /\ Declared({"access_key_created"}) = <<"access_key_created">>
  /\ Declared({"administrator_access_attached_to_user", "administrator_access_attached_to_role"}) =
       <<"administrator_access_attached_to_user", "administrator_access_attached_to_role">>
  <1> DEFINE Elems(seq) == {seq[i] : i \in DOMAIN seq}
             exec  == <<"stdin_streaming", "tty_allocation">>
             pod   == <<"privileged_container", "host_network", "host_pid", "host_ipc", "host_path_volume">>
             role  == <<"role_ref_cluster_admin">>
             mfa   == <<"mfa_device_deactivated", "mfa_device_deleted">>
             key   == <<"access_key_created">>
             admin == <<"administrator_access_attached_to_user",
                        "administrator_access_attached_to_role">>
  <1>1. Elems(<<>>) = {}
    OBVIOUS
  <1>2. \A a : Elems(<<a>>) = {a}
    OBVIOUS
  <1>3. \A a, b : Elems(<<a, b>>) = {a, b}
    OBVIOUS
  <1>4. \A a, b, c, d, e : Elems(<<a, b, c, d, e>>) = {a, b, c, d, e}
    OBVIOUS
  <1>5. ASSUME NEW list, \E seq \in DeclaredLists : Elems(seq) = list
        PROVE  Declared(list) \in DeclaredLists /\ Elems(Declared(list)) = list
    BY <1>5 DEF Declared
  <1> HIDE DEF Elems
  <1>6. /\ Elems(exec) = {"stdin_streaming", "tty_allocation"}
        /\ Elems(pod) = {"privileged_container", "host_network", "host_pid", "host_ipc", "host_path_volume"}
        /\ Elems(role) = {"role_ref_cluster_admin"}
        /\ Elems(mfa) = {"mfa_device_deactivated", "mfa_device_deleted"}
        /\ Elems(key) = {"access_key_created"}
        /\ Elems(admin) = {"administrator_access_attached_to_user",
                           "administrator_access_attached_to_role"}
    BY <1>2, <1>3, <1>4
  <1>7. DeclaredLists = {<<>>, exec, pod, role, mfa, key, admin}
    BY DEF DeclaredLists
  <1> HIDE DEF exec, pod, role, mfa, key, admin
  <1>8. \A seq, other \in DeclaredLists : Elems(seq) = Elems(other) => seq = other
    BY <1>1, <1>6, <1>7
  <1>9. \A seq \in DeclaredLists : Declared(Elems(seq)) = seq
    BY <1>5, <1>8
  <1>10. /\ Declared({}) = <<>> /\ Declared(Elems(exec)) = exec /\ Declared(Elems(pod)) = pod
         /\ Declared(Elems(role)) = role /\ Declared(Elems(mfa)) = mfa
         /\ Declared(Elems(key)) = key /\ Declared(Elems(admin)) = admin
    BY <1>1, <1>7, <1>9
  <1> QED
    BY <1>6, <1>10 DEF exec, pod, role, mfa, key, admin

\* The characteristics of a scenario's definition, in order.
Order(s) == Declared(DefinitionOf(s).requiresAny \cup DefinitionOf(s).requiresAll)

\* Each stands in one place.
LEMMA OrderListed ==
  ASSUME NEW s \in Scenarios
  PROVE  LET def == DefinitionOf(s) IN
         /\ Len(Order(s)) \in 1..5 /\ DOMAIN Order(s) = 1..Len(Order(s))
         /\ \A id : id \in def.requiresAny \cup def.requiresAll <=> \E i \in DOMAIN Order(s) : Order(s)[i] = id
         /\ \A i, j \in DOMAIN Order(s) : Order(s)[i] = Order(s)[j] => i = j
         /\ Order(s) = [i \in DOMAIN Order(s) |-> Order(s)[i]]
         /\ Order(s) = Declared(def.requiresAny) \o Declared(def.requiresAll)
  <1> DEFINE def == DefinitionOf(s)
             Listed(seq) ==
               /\ Len(seq) \in 1..5 /\ DOMAIN seq = 1..Len(seq)
               /\ \A i, j \in DOMAIN seq : seq[i] = seq[j] => i = j
               /\ seq = [i \in DOMAIN seq |-> seq[i]]
               /\ seq \o <<>> = seq /\ <<>> \o seq = seq
             Elems(seq) == {seq[i] : i \in DOMAIN seq}
  <1>1. \A a : Elems(<<a>>) = {a} /\ Listed(<<a>>)
    OBVIOUS
  <1>2. \A a, b : Elems(<<a, b>>) = {a, b} /\ (a # b => Listed(<<a, b>>))
    OBVIOUS
  <1>3. \A a, b, c, d, e : Elems(<<a, b, c, d, e>>) = {a, b, c, d, e}
    OBVIOUS
  <1>4. \A a, b, c, d, e :
          a \notin {b, c, d, e} /\ b \notin {c, d, e} /\ c \notin {d, e} /\ d # e =>
            Listed(<<a, b, c, d, e>>)
    OBVIOUS
  <1>5. Listed(Order(s)) /\ Elems(Order(s)) = def.requiresAny \cup def.requiresAll
    <2> DEFINE Goal(list, seq) == Declared(list) = seq /\ Listed(seq) /\ Elems(seq) = list
               all == def.requiresAny \cup def.requiresAll
    <2>1. Goal({"stdin_streaming", "tty_allocation"}, <<"stdin_streaming", "tty_allocation">>)
      BY <1>2, DeclaredInOrder
    <2>2. Goal({"privileged_container", "host_network", "host_pid", "host_ipc", "host_path_volume"},
               <<"privileged_container", "host_network", "host_pid", "host_ipc", "host_path_volume">>)
      <3> DEFINE pod == <<"privileged_container", "host_network", "host_pid", "host_ipc", "host_path_volume">>
      <3>1. Listed(pod)
        BY <1>4
      <3>2. Elems(pod) = {"privileged_container", "host_network", "host_pid", "host_ipc", "host_path_volume"}
        BY <1>3
      <3> HIDE DEF Listed, Elems
      <3> QED
        BY <3>1, <3>2, DeclaredInOrder
    <2>3. Goal({"role_ref_cluster_admin"}, <<"role_ref_cluster_admin">>)
      BY <1>1, DeclaredInOrder
    <2>4. Goal({"mfa_device_deactivated", "mfa_device_deleted"},
               <<"mfa_device_deactivated", "mfa_device_deleted">>)
      BY <1>2, DeclaredInOrder
    <2>5. Goal({"access_key_created"}, <<"access_key_created">>)
      BY <1>1, DeclaredInOrder
    <2>6. Goal({"administrator_access_attached_to_user", "administrator_access_attached_to_role"},
               <<"administrator_access_attached_to_user", "administrator_access_attached_to_role">>)
      BY <1>2, DeclaredInOrder
    <2> HIDE DEF Listed, Elems
    <2>7. /\ s = "scenario-1" => all = {"stdin_streaming", "tty_allocation"}
          /\ s = "scenario-2" =>
               all = {"privileged_container", "host_network", "host_pid", "host_ipc", "host_path_volume"}
          /\ s = "scenario-3" => all = {"role_ref_cluster_admin"}
          /\ s = "scenario-4" => all = {"mfa_device_deactivated", "mfa_device_deleted"}
          /\ s = "scenario-5" => all = {"access_key_created"}
          /\ s = "scenario-6" =>
               all = {"administrator_access_attached_to_user", "administrator_access_attached_to_role"}
      BY ConditionsListed
    <2> HIDE DEF Goal, all
    <2>8. \E seq : Goal(all, seq)
      BY <2>1, <2>2, <2>3, <2>4, <2>5, <2>6, <2>7 DEF Scenarios
    <2> QED
      BY <2>8 DEF Order, Goal, all
  <1>6. \/ def.requiresAll = {} /\ Order(s) = Declared(def.requiresAny)
        \/ def.requiresAny = {} /\ Order(s) = Declared(def.requiresAll)
    <2>1. def.requiresAll = {} \/ def.requiresAny = {}
      BY ConditionsListed DEF Scenarios
    <2> QED
      BY <2>1 DEF Order
  <1>7. Order(s) = Declared(def.requiresAny) \o Declared(def.requiresAll)
    <2>1. Order(s) \o <<>> = Order(s) /\ <<>> \o Order(s) = Order(s)
      BY <1>5
    <2>2. Declared({}) = <<>>
      BY DeclaredInOrder
    <2> QED
      BY <1>6, <2>1, <2>2
  <1>8. \A id : id \in def.requiresAny \cup def.requiresAll <=> \E i \in DOMAIN Order(s) : Order(s)[i] = id
    BY <1>5
  <1> QED
    BY <1>5, <1>7, <1>8

\* The conditions, with the definition at hand.
LEMMA ConditionsBuilt ==
  ASSUME NEW data, "detection-definition" \in data.available
  PROVE  LET def      == data.definition
             ids      == IF "detection-result" \in data.available THEN data.satisfied ELSE {}
             recorded == IF "normalized-event" \in data.available THEN data.code ELSE 0 IN
         \E c : /\ buildDeclaredConditions(data) = {c} /\ c.ids = ids
                /\ c.outcome = IF def.requiresOutcome = "" THEN {}
                               ELSE {IF recorded # 0 THEN isOutcomeSatisfied(def.requiresOutcome, recorded)
                                     ELSE "detection-result" \in data.available}
                /\ c.groups = {group \in {buildGroup("requires_any", def.requiresAny, ids),
                                          buildGroup("requires_all", def.requiresAll, ids)} :
                                 group.declared # <<>>}
  <1> DEFINE def      == data.definition
             ids      == IF "detection-result" \in data.available THEN data.satisfied ELSE {}
             recorded == IF "normalized-event" \in data.available THEN data.code ELSE 0
             clause   == IF def.requiresOutcome = "" THEN {}
                         ELSE {IF recorded # 0 THEN isOutcomeSatisfied(def.requiresOutcome, recorded)
                               ELSE "detection-result" \in data.available}
             groups   == {group \in {buildGroup("requires_any", def.requiresAny, ids),
                                     buildGroup("requires_all", def.requiresAll, ids)} :
                            group.declared # <<>>}
             condition == [outcome |-> clause, groups |-> groups, ids |-> ids]
  <1>1. buildDeclaredConditions(data) = {condition}
    BY Zenon DEF buildDeclaredConditions, isAvailable
  <1>2. condition.outcome = clause /\ condition.groups = groups /\ condition.ids = ids
    <2> HIDE DEF clause, groups, ids
    <2> QED
      OBVIOUS
  <1> HIDE DEF condition
  <1> QED
    BY <1>1, <1>2, Zenon

\* With the definition and the result at hand, a row per characteristic,
\* satisfied by the match reason.
LEMMA RowsShown ==
  ASSUME NEW data, NEW s \in Scenarios, data.definition = DefinitionOf(s),
         {"detection-definition", "detection-result"} \subseteq data.available
  PROVE  LET shown == buildEvidenceConcordance(data) IN
         /\ DOMAIN shown.rows = DOMAIN Order(s)
         /\ \A i \in DOMAIN Order(s) :
              /\ shown.rows[i].id = Order(s)[i]
              /\ shown.rows[i].satisfied <=> Order(s)[i] \in data.satisfied
              /\ shown.rows[i].group = characteristicGroup(Order(s)[i])
         /\ shown.declaredCount = Len(Order(s))
         /\ shown.satisfiedCount = Cardinality({i \in DOMAIN Order(s) : Order(s)[i] \in data.satisfied})
  <1> DEFINE conditions == buildDeclaredConditions(data)
             def == data.definition
             declared == UNION {def.requiresAny \cup def.requiresAll : c \in conditions}
             met == UNION {c.ids : c \in conditions}
  <1>1. conditions # {} /\ \A c \in conditions : c.ids = data.satisfied
    BY ConditionsBuilt
  <1> HIDE DEF conditions
  <1>2. declared = def.requiresAny \cup def.requiresAll /\ met = data.satisfied
    BY <1>1
  <1>3. Declared(declared) = Order(s)
    BY <1>2 DEF Order
  <1>4. /\ buildEvidenceConcordance(data).rows =
             [i \in DOMAIN Declared(declared) |->
                [id |-> Declared(declared)[i], satisfied |-> Declared(declared)[i] \in met,
                 group |-> characteristicGroup(Declared(declared)[i])]]
        /\ buildEvidenceConcordance(data).declaredCount = Len(Declared(declared))
        /\ buildEvidenceConcordance(data).satisfiedCount =
             Cardinality({i \in DOMAIN Declared(declared) : Declared(declared)[i] \in met})
    BY DEF buildEvidenceConcordance, conditions
  <1> HIDE DEF declared, met
  <1>5. /\ buildEvidenceConcordance(data).rows =
             [i \in DOMAIN Order(s) |->
                [id |-> Order(s)[i], satisfied |-> Order(s)[i] \in data.satisfied,
                 group |-> characteristicGroup(Order(s)[i])]]
        /\ buildEvidenceConcordance(data).declaredCount = Len(Order(s))
        /\ buildEvidenceConcordance(data).satisfiedCount =
             Cardinality({i \in DOMAIN Order(s) : Order(s)[i] \in data.satisfied})
    BY <1>2, <1>3, <1>4, Zenon
  <1> DEFINE rows == buildEvidenceConcordance(data).rows
  <1>6. rows = [i \in DOMAIN Order(s) |->
                  [id |-> Order(s)[i], satisfied |-> Order(s)[i] \in data.satisfied,
                   group |-> characteristicGroup(Order(s)[i])]]
    BY <1>5
  <1> HIDE DEF rows
  <1>7. /\ DOMAIN rows = DOMAIN Order(s)
        /\ \A i \in DOMAIN Order(s) :
             /\ rows[i].id = Order(s)[i]
             /\ rows[i].satisfied <=> Order(s)[i] \in data.satisfied
             /\ rows[i].group = characteristicGroup(Order(s)[i])
    BY <1>6
  <1> QED
    BY <1>5, <1>7, Zenon DEF rows

\* Without the definition there are none.
LEMMA NothingDeclared ==
  ASSUME NEW data, "detection-definition" \notin data.available
  PROVE  /\ buildEvidenceConcordance(data).rows = <<>>
         /\ buildEvidenceConcordance(data).declaredCount = 0
  <1> DEFINE declared == UNION {data.definition.requiresAny \cup data.definition.requiresAll :
                                  c \in buildDeclaredConditions(data)}
  <1>1. buildDeclaredConditions(data) = {}
    BY DEF buildDeclaredConditions, isAvailable
  <1>2. declared = {}
    BY <1>1
  <1>3. Declared(declared) = <<>>
    BY <1>2, DeclaredInOrder
  <1>4. /\ DOMAIN buildEvidenceConcordance(data).rows = DOMAIN Declared(declared)
        /\ buildEvidenceConcordance(data).rows = [i \in DOMAIN Declared(declared) |->
              buildEvidenceConcordance(data).rows[i]]
        /\ buildEvidenceConcordance(data).declaredCount = Len(Declared(declared))
    BY DEF buildEvidenceConcordance
  <1> HIDE DEF declared
  <1> QED
    BY <1>3, <1>4

\* What is selected has its provenance when it was matched, none otherwise.
LEMMA SelectedProvenance ==
  ASSUME NEW data, NEW s \in Scenarios, data.definition = DefinitionOf(s),
         {"detection-definition", "detection-result"} \subseteq data.available,
         NEW id, id \in DefinitionOf(s).requiresAny \cup DefinitionOf(s).requiresAll
  PROVE  /\ RowOf(data, id) # {}
         /\ selectedProvenance(data, id) =
              IF id \in data.satisfied THEN {deriveProvenanceState(id, data)} ELSE {}
         /\ id \in data.satisfied =>
              {a.kind : a \in ProvenanceAnnotation(data, id)} = {deriveProvenanceState(id, data).kind}
  <1> DEFINE rows == buildEvidenceConcordance(data).rows
  <1>1. /\ DOMAIN rows = DOMAIN Order(s)
        /\ \A i \in DOMAIN rows :
             rows[i].id = Order(s)[i] /\ (rows[i].satisfied <=> Order(s)[i] \in data.satisfied)
    BY RowsShown
  <1>2. PICK place \in DOMAIN rows : rows[place].id = id
    <2>1. \E i \in DOMAIN Order(s) : Order(s)[i] = id
      BY OrderListed
    <2> QED
      BY <1>1, <2>1
  <1>3. RowOf(data, id) = {row \in {rows[i] : i \in DOMAIN rows} : row.id = id}
    BY DEF RowOf
  <1>4. \A row \in RowOf(data, id) : row.satisfied <=> id \in data.satisfied
    BY <1>1, <1>3
  <1>5. RowOf(data, id) # {}
    BY <1>2, <1>3
  <1>6. selectedProvenance(data, id) =
          IF id \in data.satisfied THEN {deriveProvenanceState(id, data)} ELSE {}
    BY <1>4, <1>5 DEF selectedProvenance
  <1>7. ASSUME id \in data.satisfied
        PROVE  {a.kind : a \in ProvenanceAnnotation(data, id)} = {deriveProvenanceState(id, data).kind}
    <2>1. \A a \in ProvenanceAnnotation(data, id) :
            \E i \in DOMAIN rows : rows[i].id = id /\
              a.kind = IF rows[i].satisfied THEN deriveProvenanceState(id, data).kind ELSE "declared-only"
      BY DEF ProvenanceAnnotation
    <2>2. \A a \in ProvenanceAnnotation(data, id) : a.kind = deriveProvenanceState(id, data).kind
      BY <1>1, <1>7, <2>1
    <2>3. ProvenanceAnnotation(data, id) # {}
      BY <1>2 DEF ProvenanceAnnotation
    <2> QED
      BY <2>2, <2>3
  <1> QED
    BY <1>5, <1>6, <1>7

-----------------------------------------------------------------------------
(* The lit row. *)

\* What a matched exec or Pod shows of itself: its flags, each under a path
\* of its own, and nothing else.
LEMMA FlagsShown ==
  ASSUME IInv, NEW s \in Matched \cap {"scenario-1", "scenario-2"}
  PROVE  /\ normal.content.of \in {"exec", "podCreation"}
         /\ Present = {CharacteristicOf[f] : f \in normal.content.flags}
         /\ normal.content.flags \subseteq FlagFields[normal.content.of]
         /\ \A f \in normal.content.flags :
              NormalizedPath[CharacteristicOf[f]] = <<normal.content.of, f>>
  <1> DEFINE content == normalizeKubernetes(event).content
  <1>1. Required(s) /\ event \in AuditEvents \cup TrailRecords /\ normal = NormalizeEvent(event)
    BY MatchedDecided
  <1>2. event.family = "kubernetes"
    BY <1>1 DEF Required, Audit
  <1>3. event \in AuditEvents /\ normal = normalizeKubernetes(event)
    BY <1>1, <1>2 DEF TrailRecords, NormalizeEvent
  <1>4. event.query \subseteq {"stdin", "tty"} /\ event.object.risks \subseteq Risks
    BY <1>3 DEF AuditEvents, RequestObjects
  <1>5. \/ content.of = "exec" /\ content.flags = event.query
        \/ /\ content.of = "podCreation"
           /\ content.flags = (event.object.risks \ {"privilegedInit"})
                \cup (IF {"privileged", "privilegedInit"} \cap event.object.risks # {}
                      THEN {"privileged"} ELSE {})
    <2>1. CASE s = "scenario-1"
      <3>1. resolveScenario(event) = "scenario-1"
        BY <1>1, <2>1 DEF Required, Audit, resolveScenario
      <3> QED
        BY <3>1 DEF normalizeKubernetes, execCharacteristics, NoContent
    <2>2. CASE s = "scenario-2"
      <3>1. resolveScenario(event) = "scenario-2"
        BY <1>1, <2>2 DEF Required, Audit, Created, resolveScenario
      <3> QED
        BY <3>1 DEF normalizeKubernetes, podCreationCharacteristics, NoContent
    <2> QED
      BY <2>1, <2>2
  <1>6. Present = {CharacteristicOf[f] : f \in content.flags}
    <2>1. Present = characteristicSet(normalizeKubernetes(event))
      BY <1>1, <1>3 DEF Present
    <2> QED
      BY <1>5, <2>1 DEF characteristicSet
  <1> HIDE DEF content
  <1>7. \/ content.of = "exec" /\ content.flags \subseteq {"stdin", "tty"}
        \/ /\ content.of = "podCreation"
           /\ content.flags \subseteq {"privileged", "hostNetwork", "hostPID", "hostIPC", "hostPath"}
    BY <1>4, <1>5 DEF Risks
  <1>8. /\ FlagFields["exec"] = {"stdin", "tty"}
        /\ FlagFields["podCreation"] = {"privileged", "hostNetwork", "hostPID", "hostIPC", "hostPath"}
    BY DEF FlagFields
  <1>9. /\ \A f \in {"stdin", "tty"} : NormalizedPath[CharacteristicOf[f]] = <<"exec", f>>
        /\ \A f \in {"privileged", "hostNetwork", "hostPID", "hostIPC", "hostPath"} :
             NormalizedPath[CharacteristicOf[f]] = <<"podCreation", f>>
    BY PathsNamed DEF CharacteristicOf
  <1>10. normal.content = content
    BY <1>3 DEF content
  <1> QED
    BY <1>6, <1>7, <1>8, <1>9, <1>10

\* Selecting a matched characteristic of an exec or a Pod lights the one row
\* that says true of it, and nothing when it was not matched or cannot be traced.
THEOREM LitRowTells == Spec => []LitRowShowsTheFact
  <1>1. IInv => LitRowShowsTheFact
    <2> SUFFICES ASSUME IInv, NEW s \in Matched \cap {"scenario-1", "scenario-2"},
                        NEW available \in Without({"source-event", "normalized-event"}),
                        NEW id \in DefinitionOf(s).requiresAny
                 PROVE  LET data == ResponseTo(s, {}, available, "") IN
                        IF id \in results[s].satisfied /\ available = ArtifactIds
                        THEN /\ Cardinality(LitRows(data, id)) = 1
                             /\ \A row \in LitRows(data, id) : row.value = "true"
                             /\ SelectionTraceOverlay(data, id) =
                                  {a.kind : a \in ProvenanceAnnotation(data, id)}
                        ELSE LitRows(data, id) = {} /\ SelectionTraceOverlay(data, id) = {}
      BY DEF LitRowShowsTheFact
    <2> DEFINE data == ResponseTo(s, {}, available, "")
               p == deriveProvenanceState(id, data)
               of == normal.content.of
    <2>1. /\ data.available = available /\ data.definition = DefinitionOf(s)
          /\ data.satisfied = results[s].satisfied /\ data.event = normal
      BY DEF ResponseTo, Response
    <2>2. /\ available \subseteq ArtifactIds
          /\ ArtifactIds \ {"source-event", "normalized-event"} \subseteq available
      BY DEF Without
    <2>3. {"detection-definition", "detection-result", "source-event", "normalized-event"} \subseteq ArtifactIds
      <3>1. ArtifactOrder[1] = "source-event" /\ ArtifactOrder[3] = "normalized-event"
        BY DEF ArtifactOrder
      <3>2. ArtifactOrder[4] = "detection-definition" /\ ArtifactOrder[5] = "detection-result"
        BY DEF ArtifactOrder
      <3>3. DOMAIN ArtifactOrder = 1..6
        BY DEF ArtifactOrder
      <3> QED
        BY <3>1, <3>2, <3>3 DEF ArtifactIds
    <2>4. s \in Scenarios
      BY DEF Scenarios
    <2> HIDE DEF data
    <2>5. /\ RowOf(data, id) # {}
          /\ selectedProvenance(data, id) = IF id \in results[s].satisfied THEN {p} ELSE {}
          /\ id \in results[s].satisfied =>
               {a.kind : a \in ProvenanceAnnotation(data, id)} = {p.kind}
      BY <2>1, <2>2, <2>3, <2>4, SelectedProvenance
    <2>6. /\ p.kind = "unavailable" <=> ~({"source-event", "normalized-event"} \subseteq available)
          /\ p.kind # "unavailable" => p.path = NormalizedPath[id]
      BY <2>1, ProvenanceStates
    <2>7. available = ArtifactIds <=> {"source-event", "normalized-event"} \subseteq available
      BY <2>2, <2>3
    <2> HIDE DEF p
    <2>8. Traced(data, id) =
            IF id \in results[s].satisfied /\ available = ArtifactIds THEN {p} ELSE {}
      BY <2>5, <2>6, <2>7 DEF Traced
    <2>9. CASE ~(id \in results[s].satisfied /\ available = ArtifactIds)
      <3>1. LitRows(data, id) = {}
        BY <2>8, <2>9 DEF LitRows
      <3>2. SelectionTraceOverlay(data, id) = {}
        BY <3>1 DEF SelectionTraceOverlay, useConnectorPath
      <3> QED
        BY <2>9, <3>1, <3>2 DEF data
    <2>10. CASE id \in results[s].satisfied /\ available = ArtifactIds
      <3>1. id \in Present
        BY <2>10, MatchedDecided
      <3>2. /\ of \in {"exec", "podCreation"} /\ normal.content.flags \subseteq FlagFields[of]
            /\ Present = {CharacteristicOf[f] : f \in normal.content.flags}
            /\ \A f \in normal.content.flags : NormalizedPath[CharacteristicOf[f]] = <<of, f>>
        BY FlagsShown
      <3>3. PICK f \in normal.content.flags : id = CharacteristicOf[f] /\ NormalizedPath[id] = <<of, f>>
        BY <3>1, <3>2
      <3> DEFINE row(g) == Field(<<of, g>>, readPath(data, <<of, g>>))
      <3>4. \A g : row(g).key = <<of, g>> /\ row(g).value = readPath(data, <<of, g>>)
        BY DEF Field
      <3>5. readPath(data, <<of, f>>) = "true"
        <4>1. <<of, f>>[1] = of /\ <<of, f>>[2] = f
          OBVIOUS
        <4>2. f # "policyName"
          BY <3>2 DEF FlagFields
        <4> QED
          BY <2>1, <3>2, <4>1, <4>2 DEF readPath
      <3>6. NormalizedEventSurface(data) = {row(g) : g \in FlagFields[of]}
        BY <2>1, <2>3, <2>10, <3>2 DEF NormalizedEventSurface, isAvailable
      <3>7. LitRows(data, id) = {r \in NormalizedEventSurface(data) : r.key = <<of, f>>}
        BY <2>6, <2>7, <2>8, <2>10, <3>3 DEF LitRows
      <3> HIDE DEF row
      <3>8. LitRows(data, id) = {row(f)}
        <4>1. row(f) \in LitRows(data, id)
          BY <3>2, <3>3, <3>4, <3>6, <3>7
        <4>2. ASSUME NEW r \in LitRows(data, id) PROVE r = row(f)
          <5>1. PICK g \in FlagFields[of] : r = row(g)
            BY <3>6, <3>7
          <5>2. <<of, g>> = <<of, f>>
            BY <3>4, <3>7, <5>1
          <5>3. g = f
            BY <5>2
          <5> QED
            BY <5>1, <5>3
        <4> QED
          BY <4>1, <4>2
      <3>9. SelectionTraceOverlay(data, id) = {p.kind}
        <4>1. PICK pin \in RowOf(data, id) : TRUE
          BY <2>5
        <4>2. <<row(f), pin>> \in LitRows(data, id) \X RowOf(data, id)
          BY <3>8, <4>1
        <4>3. useConnectorPath(LitRows(data, id), RowOf(data, id)) # {}
          BY <4>2 DEF useConnectorPath
        <4>4. SelectionTraceOverlay(data, id) = {q.kind : q \in Traced(data, id)}
          BY <4>3 DEF SelectionTraceOverlay
        <4>5. Traced(data, id) = {p}
          BY <2>8, <2>10
        <4> QED
          BY <4>4, <4>5
      <3>10. Cardinality(LitRows(data, id)) = 1
        BY <3>8, FS_Singleton
      <3> QED
        BY <2>5, <2>10, <3>4, <3>5, <3>8, <3>9, <3>10 DEF data
    <2> QED
      BY <2>9, <2>10
  <1> QED
    BY <1>1, IInvHolds, PTL

-----------------------------------------------------------------------------
(* The verdict. *)

\* The tally has as many marks as the match reason has characteristics.
LEMMA TallyCounts ==
  ASSUME NEW data, NEW s \in Scenarios, data.definition = DefinitionOf(s),
         {"detection-definition", "detection-result"} \subseteq data.available,
         data.satisfied \subseteq DefinitionOf(s).requiresAny \cup DefinitionOf(s).requiresAll
  PROVE  LET tally == DetectionResultResolution(data) IN
         Cardinality({i \in DOMAIN tally : tally[i]}) = Cardinality(data.satisfied)
  <1> DEFINE n == Len(Order(s))
             places == {i \in DOMAIN Order(s) : Order(s)[i] \in data.satisfied}
             k == Cardinality(places)
             tally == DetectionResultResolution(data)
  <1>1. n \in 1..5 /\ DOMAIN Order(s) = 1..n
    BY OrderListed
  <1>2. IsFiniteSet(1..n) /\ Cardinality(1..n) = n
    BY <1>1, FS_Interval
  <1>3. IsFiniteSet(places) /\ k <= n /\ k \in Nat
    BY <1>1, <1>2, FS_Subset, FS_CardinalityType
  <1>4. tally = [i \in 1..n |-> i <= k]
    <2>1. /\ buildEvidenceConcordance(data).declaredCount = n
          /\ buildEvidenceConcordance(data).satisfiedCount = k
      BY RowsShown
    <2> HIDE DEF n, k
    <2> QED
      BY <1>1, <2>1 DEF DetectionResultResolution, isAvailable
  <1>5. Cardinality(data.satisfied) = k
    <2> DEFINE at == [i \in places |-> Order(s)[i]]
    <2>1. at \in Bijection(places, data.satisfied)
      <3>1. \A i, j \in places : at[i] = at[j] => i = j
        BY OrderListed
      <3>2. \A id \in data.satisfied : \E i \in places : at[i] = id
        <4> SUFFICES ASSUME NEW id \in data.satisfied PROVE \E i \in places : at[i] = id
          OBVIOUS
        <4>1. PICK i \in DOMAIN Order(s) : Order(s)[i] = id
          BY OrderListed
        <4> QED
          BY <4>1
      <3>3. at \in [places -> data.satisfied]
        OBVIOUS
      <3> HIDE DEF at, places
      <3> QED
        BY <3>1, <3>2, <3>3 DEF Bijection, Injection, Surjection, IsInjective
    <2>2. ExistsBijection(places, data.satisfied)
      BY <2>1 DEF ExistsBijection
    <2> QED
      BY <1>3, <2>2, FS_Bijection
  <1>6. {i \in DOMAIN tally : tally[i]} = 1..k
    <2> HIDE DEF n, k, tally
    <2>1. DOMAIN tally = 1..n /\ \A i \in 1..n : tally[i] <=> i <= k
      BY <1>4, Zenon
    <2>2. {i \in DOMAIN tally : tally[i]} = {i \in 1..n : i <= k}
      BY <2>1, Zenon
    <2>3. {i \in 1..n : i <= k} = 1..k
      BY <1>1, <1>3
    <2> QED
      BY <2>2, <2>3
  <1>7. Cardinality(1..k) = k
    BY <1>3, FS_Interval
  <1> QED
    BY <1>5, <1>6, <1>7

\* What a definition asks of the outcome was there, and is read as such.
LEMMA OutcomeRead ==
  ASSUME IInv, NEW s \in Matched, NEW literal, NEW available, NEW failedLink,
         DefinitionOf(s).requiresOutcome # ""
  PROVE  LET data == ResponseTo(s, literal, available, failedLink) IN
         /\ DefinitionOf(s).requiresOutcome = "success"
         /\ data.code # 0 => isOutcomeSatisfied("success", data.code)
         /\ formatOutcome(data) \in {"code", "success"}
  <1> DEFINE data == ResponseTo(s, literal, available, failedLink)
  <1>1. /\ DefinitionOf(s).requiresOutcome = "success" /\ normal.successful
        /\ event \in AuditEvents \cup TrailRecords /\ normal = NormalizeEvent(event)
    BY MatchedDecided
  <1>2. /\ data.code = IF event.family = "kubernetes" THEN event.code ELSE 0
        /\ data.event = normal
    BY DEF ResponseTo, Response
  <1> HIDE DEF data
  <1>3. formatOutcome(data) \in {"code", "success"}
    BY <1>1, <1>2, Zenon DEF formatOutcome
  <1>4. data.code # 0 => isOutcomeSatisfied("success", data.code)
    <2> SUFFICES ASSUME event.family = "kubernetes" PROVE isOutcomeSatisfied("success", event.code)
      BY <1>2
    <2>1. event \in AuditEvents /\ normal = normalizeKubernetes(event)
      BY <1>1 DEF NormalizeEvent, AuditEvents, TrailRecords
    <2>2. normalizeKubernetes(event).successful = outcomeOf(event.code)
      BY DEF normalizeKubernetes
    <2> QED
      BY <1>1, <2>1, <2>2 DEF outcomeOf, isOutcomeSatisfied, AuditEvents
  <1> QED
    BY <1>1, <1>3, <1>4 DEF data

\* With the definition and the result there, all that it declares is read off
\* the match reason as it was decided.
LEMMA ClausesHold ==
  ASSUME IInv, NEW s \in Matched, NEW literal, NEW available, NEW failedLink,
         {"detection-definition", "detection-result"} \subseteq available
  PROVE  LET data == ResponseTo(s, literal, available, failedLink) IN
         /\ buildEvidenceConcordance(data).outcomeRow <=> DefinitionOf(s).requiresOutcome # ""
         /\ \A c \in buildDeclaredConditions(data) : \A group \in c.groups : group.satisfied
  <1> DEFINE data == ResponseTo(s, literal, available, failedLink)
             def == DefinitionOf(s)
             recorded == IF "normalized-event" \in available THEN data.code ELSE 0
  <1>1. /\ data.available = available /\ data.definition = def /\ data.satisfied = results[s].satisfied
    BY ResponseCarries
  <1>2. /\ results[s].satisfied = (def.requiresAny \cup def.requiresAll) \cap Present
        /\ def.requiresAny = {} \/ def.requiresAny \cap Present # {}
        /\ def.requiresAll \subseteq Present
    BY MatchedDecided
  <1>3. def.requiresOutcome # "" =>
          /\ def.requiresOutcome = "success"
          /\ data.code # 0 => isOutcomeSatisfied("success", data.code)
    BY OutcomeRead
  <1> HIDE DEF data
  <1>4. PICK c : /\ buildDeclaredConditions(data) = {c}
                 /\ c.outcome = IF def.requiresOutcome = "" THEN {}
                                ELSE {IF recorded # 0 THEN isOutcomeSatisfied(def.requiresOutcome, recorded)
                                      ELSE "detection-result" \in data.available}
                 /\ c.groups = {group \in {buildGroup("requires_any", def.requiresAny, data.satisfied),
                                           buildGroup("requires_all", def.requiresAll, data.satisfied)} :
                                  group.declared # <<>>}
    BY <1>1, ConditionsBuilt
  <1>5. TRUE \in c.outcome <=> def.requiresOutcome # ""
    <2>1. CASE def.requiresOutcome = ""
      BY <1>4, <2>1
    <2>2. CASE def.requiresOutcome # ""
      <3>1. recorded # 0 => isOutcomeSatisfied(def.requiresOutcome, recorded)
        BY <1>3, <2>2
      <3> HIDE DEF recorded
      <3>2. c.outcome = {IF recorded # 0 THEN isOutcomeSatisfied(def.requiresOutcome, recorded)
                         ELSE "detection-result" \in data.available}
        BY <1>4, <2>2
      <3>3. (IF recorded # 0 THEN isOutcomeSatisfied(def.requiresOutcome, recorded)
             ELSE "detection-result" \in data.available) = TRUE
        BY <1>1, <3>1 DEF isOutcomeSatisfied
      <3> QED
        BY <2>2, <3>2, <3>3
    <2> QED
      BY <2>1, <2>2
  <1>6. buildEvidenceConcordance(data).outcomeRow <=> def.requiresOutcome # ""
    <2>1. buildEvidenceConcordance(data).outcomeRow = (\E d \in {c} : TRUE \in d.outcome)
      BY <1>4 DEF buildEvidenceConcordance
    <2> QED
      BY <1>5, <2>1
  <1>7. ASSUME NEW group \in c.groups PROVE group.satisfied
    <2>1. CASE group = buildGroup("requires_any", def.requiresAny, data.satisfied)
      <3>1. group.declared = Declared(def.requiresAny)
            /\ group.satisfied = (def.requiresAny \cap data.satisfied # {})
        BY <2>1 DEF buildGroup
      <3>2. def.requiresAny # {}
        BY <1>4, <1>7, <3>1, DeclaredInOrder
      <3> QED
        BY <1>1, <1>2, <3>1, <3>2
    <2>2. CASE group = buildGroup("requires_all", def.requiresAll, data.satisfied)
      <3>1. group.satisfied = (def.requiresAll \subseteq data.satisfied)
        BY <2>2 DEF buildGroup
      <3> QED
        BY <1>1, <1>2, <3>1
    <2> QED
      BY <1>4, <1>7, <2>1, <2>2
  <1> QED
    BY <1>4, <1>6, <1>7 DEF data

\* The pins are the definition's, and those the reason names are not merely
\* declared.
LEMMA PinsDrawn ==
  ASSUME NEW data, NEW s \in Scenarios, data.definition = DefinitionOf(s),
         {"detection-definition", "detection-result"} \subseteq data.available,
         data.satisfied \subseteq DefinitionOf(s).requiresAny \cup DefinitionOf(s).requiresAll,
         NEW selected
  PROVE  LET pins == DetectionDefinitionFrame(data, selected)
             card == DetectionCard(DefinitionOf(s)) IN
         /\ {pins[i].id : i \in {j \in DOMAIN pins : pins[j].state # "declared-only"}} = data.satisfied
         /\ BusConvergenceOverlay(data, selected).pins = card.any \o card.all
  <1> DEFINE rows == buildEvidenceConcordance(data).rows
             pins == DetectionDefinitionFrame(data, selected)
             lit == {j \in DOMAIN pins : pins[j].state # "declared-only"}
  <1>1. /\ DOMAIN rows = DOMAIN Order(s)
        /\ \A i \in DOMAIN rows :
             rows[i].id = Order(s)[i] /\ (rows[i].satisfied <=> Order(s)[i] \in data.satisfied)
    BY RowsShown
  <1>2. pins = [i \in DOMAIN rows |-> CharacteristicPin(data, rows[i], selected)]
    BY DEF DetectionDefinitionFrame
  <1>3. \A row : /\ CharacteristicPin(data, row, selected).id = row.id
                 /\ CharacteristicPin(data, row, selected).state =
                      IF row.satisfied THEN deriveProvenanceState(row.id, data).kind ELSE "declared-only"
    BY DEF CharacteristicPin
  <1>4. \A id : deriveProvenanceState(id, data).kind # "declared-only"
    BY ProvenanceStates
  <1> HIDE DEF rows, pins
  <1>5. /\ DOMAIN pins = DOMAIN Order(s)
        /\ \A i \in DOMAIN pins : /\ pins[i].id = Order(s)[i]
                                  /\ pins[i].state # "declared-only" <=> Order(s)[i] \in data.satisfied
    BY <1>1, <1>2, <1>3, <1>4
  <1>6. {pins[i].id : i \in lit} = data.satisfied
    <2>1. \A id \in data.satisfied : \E i \in lit : pins[i].id = id
      <3> SUFFICES ASSUME NEW id \in data.satisfied PROVE \E i \in lit : pins[i].id = id
        OBVIOUS
      <3>1. PICK i \in DOMAIN Order(s) : Order(s)[i] = id
        BY OrderListed
      <3> QED
        BY <1>5, <3>1
    <2>2. \A i \in lit : pins[i].id \in data.satisfied
      BY <1>5
    <2> HIDE DEF lit
    <2> QED
      BY <2>1, <2>2
  <1>7. BusConvergenceOverlay(data, selected).pins = Order(s)
    <2>1. BusConvergenceOverlay(data, selected).pins = [i \in DOMAIN rows |-> pins[i].id]
      BY DEF BusConvergenceOverlay, rows, pins
    <2>2. Order(s) = [i \in DOMAIN Order(s) |-> Order(s)[i]]
      BY OrderListed
    <2> QED
      BY <1>1, <1>5, <2>1, <2>2
  <1>8. Order(s) = DetectionCard(DefinitionOf(s)).any \o DetectionCard(DefinitionOf(s)).all
    <2>1. /\ DetectionCard(DefinitionOf(s)).any = Declared(DefinitionOf(s).requiresAny)
          /\ DetectionCard(DefinitionOf(s)).all = Declared(DefinitionOf(s).requiresAll)
      BY DEF DetectionCard
    <2> QED
      BY <2>1, OrderListed
  <1> QED
    BY <1>6, <1>7, <1>8 DEF pins

\* The page arrives at the verdict that was recorded: every clause holds, and
\* pins and tally count the match reason; without the definition it claims
\* nothing.
THEOREM VerdictIsReproduced == Spec => []VerdictReproduced
  <1>1. IInv => VerdictReproduced
    <2> SUFFICES ASSUME IInv, NEW s \in Matched,
                        NEW available \in Without({"normalized-event", "detection-definition",
                                                   "detection-result"})
                 PROVE  LET data == ResponseTo(s, {}, available, "")
                            map  == InvestigationMap(data, NoSelection)
                            card == DetectionCard(DefinitionOf(s))
                            lit  == {map.pins[i].id :
                                       i \in {j \in DOMAIN map.pins : map.pins[j].state # "declared-only"}}
                            met  == Cardinality({i \in DOMAIN map.tally : map.tally[i]}) IN
                        /\ IF "detection-definition" \in available
                           THEN /\ buildEvidenceConcordance(data).outcomeRow
                                     <=> DefinitionOf(s).requiresOutcome # ""
                                /\ \A c \in buildDeclaredConditions(data) :
                                     \A group \in c.groups : group.satisfied
                                /\ lit = results[s].satisfied /\ met = Cardinality(lit)
                                /\ map.rays.pins = card.any \o card.all
                           ELSE map.pins = <<>> /\ map.tally = <<>> /\ map.rays.pins = <<>>
                        /\ card.outcome = "success" => map.alert \in {"code", "success"}
      BY DEF VerdictReproduced
    <2> DEFINE data == ResponseTo(s, {}, available, "")
               map == InvestigationMap(data, NoSelection)
               card == DetectionCard(DefinitionOf(s))
               def == DefinitionOf(s)
    <2>1. /\ data.available = available /\ data.definition = def
          /\ data.satisfied = results[s].satisfied
      BY DEF ResponseTo, Response
    <2>2. /\ s \in Scenarios
          /\ results[s].satisfied \subseteq def.requiresAny \cup def.requiresAll
      <3>1. results[s].satisfied = (def.requiresAny \cup def.requiresAll) \cap Present
        BY MatchedDecided
      <3> QED
        BY <3>1 DEF Matched
    <2>3. /\ "detection-definition" \in available => "detection-result" \in available
          /\ "alert" \in available
      BY DEF Without, ArtifactIds, ArtifactOrder
    <2>4. "detection-definition" \in available =>
            /\ buildEvidenceConcordance(data).outcomeRow <=> def.requiresOutcome # ""
            /\ \A c \in buildDeclaredConditions(data) : \A group \in c.groups : group.satisfied
      BY <2>3, ClausesHold
    <2>5. def.requiresOutcome # "" => formatOutcome(data) \in {"code", "success"}
      BY OutcomeRead
    <2> HIDE DEF data
    <2>6. /\ map.pins = DetectionDefinitionFrame(data, NoSelection)
          /\ map.rays = BusConvergenceOverlay(data, NoSelection)
          /\ map.tally = DetectionResultResolution(data) /\ map.alert = GeneratedAlertMarker(data)
      BY DEF InvestigationMap
    <2> HIDE DEF map
    <2>7. card.outcome = "success" => map.alert \in {"code", "success"}
      <3>1. card.outcome = def.requiresOutcome
        BY DEF DetectionCard
      <3>2. "alert" \in buildArtifactInspection(data)
        BY <2>1, <2>3 DEF buildArtifactInspection, isAvailable, ArtifactIds, ArtifactOrder
      <3> QED
        BY <2>5, <2>6, <3>1, <3>2 DEF GeneratedAlertMarker
    <2>8. CASE "detection-definition" \in available
      <3> DEFINE lit == {map.pins[i].id :
                           i \in {j \in DOMAIN map.pins : map.pins[j].state # "declared-only"}}
      <3>1. lit = results[s].satisfied /\ map.rays.pins = card.any \o card.all
        <4> DEFINE pins == DetectionDefinitionFrame(data, NoSelection)
        <4>1. /\ {pins[i].id : i \in {j \in DOMAIN pins : pins[j].state # "declared-only"}} =
                   data.satisfied
              /\ BusConvergenceOverlay(data, NoSelection).pins = card.any \o card.all
          BY <2>1, <2>2, <2>3, <2>8, PinsDrawn
        <4>2. map.pins = pins
          BY <2>6
        <4> HIDE DEF pins, card
        <4> QED
          BY <2>1, <2>6, <4>1, <4>2
      <3>2. Cardinality({i \in DOMAIN map.tally : map.tally[i]}) = Cardinality(results[s].satisfied)
        BY <2>1, <2>2, <2>3, <2>6, <2>8, TallyCounts
      <3> HIDE DEF card
      <3> QED
        BY <2>4, <2>7, <2>8, <3>1, <3>2 DEF data, map, card
    <2>9. CASE "detection-definition" \notin available
      <3>1. /\ buildEvidenceConcordance(data).rows = <<>>
            /\ buildEvidenceConcordance(data).declaredCount = 0
        BY <2>1, <2>9, NothingDeclared
      <3>2. map.pins = <<>> /\ map.rays.pins = <<>> /\ map.tally = <<>>
        BY <2>6, <3>1 DEF DetectionDefinitionFrame, BusConvergenceOverlay, DetectionResultResolution
      <3> QED
        BY <2>7, <2>9, <3>2 DEF data, map
    <2> QED
      BY <2>8, <2>9
  <1> QED
    BY <1>1, IInvHolds, PTL

-----------------------------------------------------------------------------
(* The accounts of the chain and of the artifacts. *)

\* Whatever is selected, nothing traced is itself a break.
LEMMA WireStates ==
  ASSUME NEW data, NEW id
  PROVE  "broken" \in sourceNormalizedState(data, id)
           <=> data.failedLink \in {"raw_event_sha256", "source_key"}
  <1>1. CASE data.failedLink \in {"raw_event_sha256", "source_key"}
    BY <1>1 DEF sourceNormalizedState
  <1>2. CASE data.failedLink \notin {"raw_event_sha256", "source_key"}
    <2>1. sourceNormalizedState(data, id) = {p.kind : p \in Traced(data, id)}
      BY <1>2 DEF sourceNormalizedState
    <2>2. \A p \in Traced(data, id) : p \in selectedProvenance(data, id)
      BY DEF Traced
    <2>3. \A p \in selectedProvenance(data, id) :
            \E row \in RowOf(data, id) : p = deriveProvenanceState(id, data)
      BY DEF selectedProvenance
    <2>4. deriveProvenanceState(id, data).kind # "broken"
      BY ProvenanceStates
    <2> QED
      BY <1>2, <2>1, <2>2, <2>3, <2>4
  <1> QED
    BY <1>1, <1>2

\* The first of the rail's segments.
LEMMA FirstSegment == {i \in 0..2 : i = 0} = {0}
  OBVIOUS

\* The rail breaks where the verdict says, and the others with it.
LEMMA BreaksAgree ==
  ASSUME NEW data, NEW id, NEW failedLink \in {"", "alert", "source_key", "raw_event_sha256"},
         data.failedLink = failedLink
  PROVE  /\ brokenWires(data, id) = TraceabilityRail(data)
         /\ Cardinality(TraceabilityRail(data)) = IF failedLink = "" THEN 0 ELSE 1
         /\ AlertIdentityHeader(data).chip = "" <=> TraceabilityRail(data) = {}
         /\ brokenCallout(data) # "" <=> 0 \in TraceabilityRail(data)
  <1>1. /\ "broken" \in sourceNormalizedState(data, id)
             <=> data.failedLink \in {"raw_event_sha256", "source_key"}
        /\ "broken" \in sourceNormalizedState(data, NoSelection)
             <=> data.failedLink \in {"raw_event_sha256", "source_key"}
    BY WireStates
  <1>2. /\ buildTraceabilityProof(data).intact <=> data.failedLink = ""
        /\ buildTraceabilityProof(data).failedLink = data.failedLink
    BY Zenon DEF buildTraceabilityProof
  <1>3. AlertIdentityHeader(data).chip = data.failedLink
    BY DEF AlertIdentityHeader, buildDocketHeader
  <1>4. TraceabilityRail(data) =
          {i \in 0..2 : data.failedLink # "" /\ segmentBroken(i, data.failedLink)}
    BY <1>2 DEF TraceabilityRail
  <1>5. TraceabilityRail(data) = IF data.failedLink = "" THEN {}
                                 ELSE IF data.failedLink = "alert" THEN {2} ELSE {0}
    <2>1. CASE data.failedLink = ""
      BY <1>4, <2>1
    <2>2. CASE data.failedLink = "alert"
      <3>1. \A i \in 0..2 : segmentBroken(i, data.failedLink) <=> i = 2
        BY <2>2 DEF segmentBroken
      <3> QED
        BY <1>4, <2>2, <3>1
    <2>3. CASE data.failedLink \in {"source_key", "raw_event_sha256"}
      <3>1. \A i \in 0..2 : segmentBroken(i, data.failedLink) <=> i = 0
        BY <2>3 DEF segmentBroken
      <3>2. data.failedLink # "" /\ data.failedLink # "alert"
        BY <2>3
      <3>3. TraceabilityRail(data) = {i \in 0..2 : i = 0}
        BY <1>4, <3>1, <3>2
      <3> QED
        BY <3>2, <3>3, FirstSegment, Zenon
    <2> QED
      BY <2>1, <2>2, <2>3
  <1>6. brokenWires(data, id) = TraceabilityRail(data)
    BY <1>1, <1>5 DEF brokenWires
  <1>7. brokenCallout(data) =
          IF data.failedLink \in {"raw_event_sha256", "source_key"} THEN data.failedLink ELSE ""
    BY <1>1 DEF brokenCallout
  <1>8. Cardinality({}) = 0 /\ Cardinality({0}) = 1 /\ Cardinality({2}) = 1
    BY FS_EmptySet, FS_Singleton
  <1>9. Cardinality(TraceabilityRail(data)) = IF data.failedLink = "" THEN 0 ELSE 1
    BY <1>5, <1>8
  <1>10. /\ data.failedLink = "" <=> TraceabilityRail(data) = {}
         /\ data.failedLink \in {"raw_event_sha256", "source_key"} <=> 0 \in TraceabilityRail(data)
    <2>1. CASE data.failedLink = ""
      BY <1>5, <2>1
    <2>2. CASE data.failedLink = "alert"
      BY <1>5, <2>2
    <2>3. CASE data.failedLink \in {"source_key", "raw_event_sha256"}
      <3>1. data.failedLink # "" /\ data.failedLink # "alert"
        BY <2>3
      <3>2. TraceabilityRail(data) = {0}
        BY <1>5, <3>1
      <3> QED
        BY <2>3, <3>1, <3>2
    <2> QED
      BY <2>1, <2>2, <2>3
  <1> QED
    BY <1>3, <1>6, <1>7, <1>9, <1>10

\* The six artifacts in their order.
LEMMA ArtifactsOrdered ==
  /\ DOMAIN ArtifactOrder = 1..6 /\ ArtifactOrder[5] = "detection-result"
  /\ ArtifactIds = {ArtifactOrder[i] : i \in 1..6}
  <1>1. DOMAIN ArtifactOrder = 1..6 /\ ArtifactOrder[5] = "detection-result"
    BY DEF ArtifactOrder
  <1> QED
    BY <1>1 DEF ArtifactIds

\* The default selection is an artifact, and there when any is.
LEMMA DefaultIsThere ==
  ASSUME NEW data, data.available \subseteq ArtifactIds
  PROVE  /\ resolveDefaultSelection(data) \in ArtifactIds
         /\ data.available # {} => resolveDefaultSelection(data) \in data.available
  <1> DEFINE there == {i \in 1..6 : ArtifactOrder[i] \in data.available}
             first == {i \in DOMAIN ArtifactOrder :
                         /\ isAvailable(data, ArtifactOrder[i])
                         /\ \A j \in 1..(i - 1) : ~isAvailable(data, ArtifactOrder[j])}
  <1>1. /\ first = {i \in there : \A j \in there : i <= j}
    <2>1. first = {i \in 1..6 : /\ ArtifactOrder[i] \in data.available
                                /\ \A j \in 1..(i - 1) : ArtifactOrder[j] \notin data.available}
      BY ArtifactsOrdered DEF isAvailable
    <2> HIDE DEF first
    <2> QED
      BY <2>1
  <1>2. there # {} => first # {}
    <2>1. there \subseteq 1..6
      OBVIOUS
    <2> HIDE DEF there, first
    <2> QED
      BY <1>1, <2>1
  <1>3. data.available # {} => there # {}
    BY ArtifactsOrdered
  <1>4. resolveDefaultSelection(data) =
          IF isAvailable(data, "detection-result") \/ first = {} THEN "detection-result"
          ELSE ArtifactOrder[CHOOSE i \in first : TRUE]
    BY DEF resolveDefaultSelection
  <1>5. first # {} => (CHOOSE i \in first : TRUE) \in first
    OBVIOUS
  <1>6. \A i \in first : i \in 1..6 /\ ArtifactOrder[i] \in data.available
    BY <1>1
  <1>7. "detection-result" \in ArtifactIds
    BY ArtifactsOrdered
  <1> HIDE DEF first, there
  <1> QED
    BY <1>2, <1>3, <1>4, <1>5, <1>6, <1>7, ArtifactsOrdered DEF isAvailable

\* The groups of each definition's characteristics: one, but for the risky Pod's.
LEMMA GroupsListed ==
  ASSUME NEW s \in Scenarios
  PROVE  /\ s # "scenario-2" =>
              \A i \in DOMAIN Order(s) : characteristicGroup(Order(s)[i]) = "Declared characteristics"
         /\ s = "scenario-2" =>
              /\ DOMAIN Order(s) = 1..5 /\ characteristicGroup(Order(s)[1]) = "Privilege"
              /\ \A i \in 2..5 : characteristicGroup(Order(s)[i]) = "Host access"
  <1>1. /\ \A id \in {"host_ipc", "host_network", "host_path_volume", "host_pid"} :
             characteristicGroup(id) = "Host access"
        /\ characteristicGroup("privileged_container") = "Privilege"
        /\ \A id \in {"stdin_streaming", "tty_allocation", "role_ref_cluster_admin",
                      "mfa_device_deactivated", "mfa_device_deleted", "access_key_created",
                      "administrator_access_attached_to_user", "administrator_access_attached_to_role"} :
             characteristicGroup(id) = "Declared characteristics"
    BY DEF characteristicGroup
  <1>2. ASSUME s # "scenario-2", NEW i \in DOMAIN Order(s)
        PROVE  characteristicGroup(Order(s)[i]) = "Declared characteristics"
    <2>1. Order(s)[i] \in DefinitionOf(s).requiresAny \cup DefinitionOf(s).requiresAll
      BY OrderListed
    <2>2. Order(s)[i] \in
            {"stdin_streaming", "tty_allocation", "role_ref_cluster_admin",
             "mfa_device_deactivated", "mfa_device_deleted", "access_key_created",
             "administrator_access_attached_to_user", "administrator_access_attached_to_role"}
      BY <1>2, <2>1, ConditionsListed DEF Scenarios
    <2> QED
      BY <1>1, <2>2
  <1>3. CASE s = "scenario-2"
    <2> DEFINE pod == <<"privileged_container", "host_network", "host_pid", "host_ipc", "host_path_volume">>
    <2>1. DefinitionOf(s).requiresAny \cup DefinitionOf(s).requiresAll =
            {"privileged_container", "host_network", "host_pid", "host_ipc", "host_path_volume"}
      BY <1>3, ConditionsListed
    <2>2. Order(s) = pod
      BY <2>1, DeclaredInOrder DEF Order
    <2>3. /\ DOMAIN pod = 1..5 /\ pod[1] = "privileged_container"
          /\ \A i \in 2..5 : pod[i] \in {"host_ipc", "host_network", "host_path_volume", "host_pid"}
      OBVIOUS
    <2> HIDE DEF pod
    <2> QED
      BY <1>1, <1>3, <2>2, <2>3
  <1> QED
    BY <1>2, <1>3

\* Each of several groups of pins has its label, and a single one has none.
LEMMA GroupsLabelled ==
  ASSUME NEW data, NEW s \in Scenarios, data.definition = DefinitionOf(s),
         "detection-definition" \in data.available => "detection-result" \in data.available
  PROVE  LET rows   == buildEvidenceConcordance(data).rows
             groups == {rows[i].group : i \in DOMAIN rows}
             labels == {i \in DOMAIN rows : buildBusLayout(rows)[i].label} IN
         Cardinality(labels) = IF Cardinality(groups) > 1 THEN Cardinality(groups) ELSE 0
  <1> DEFINE rows == buildEvidenceConcordance(data).rows
             group(i) == rows[i].group
             groups == {group(i) : i \in DOMAIN rows}
             labels == {i \in DOMAIN rows : buildBusLayout(rows)[i].label}
             several == Cardinality(groups) > 1
             starts(i) == i = 1 \/ group(i - 1) # group(i)
  <1>1. \A i \in DOMAIN rows : buildBusLayout(rows)[i].label <=> several /\ starts(i)
    <2> DEFINE pinAt(i) == [id |-> rows[i].id, side |-> IF i % 2 = 1 THEN "left" ELSE "right",
                            label |-> several /\ starts(i)]
    <2>1. buildBusLayout(rows) = [i \in DOMAIN rows |-> pinAt(i)]
      BY DEF buildBusLayout
    <2>2. \A i : pinAt(i).label <=> several /\ starts(i)
      <3> HIDE DEF several, starts
      <3> QED
        BY Zenon
    <2> HIDE DEF pinAt, several, starts, rows
    <2> QED
      BY <2>1, <2>2
  <1>2. labels = {i \in DOMAIN rows : several /\ starts(i)}
    BY <1>1
  <1>3. "detection-definition" \in data.available =>
          /\ DOMAIN rows = DOMAIN Order(s)
          /\ \A i \in DOMAIN Order(s) : group(i) = characteristicGroup(Order(s)[i])
    BY RowsShown
  <1>4. "detection-definition" \notin data.available => DOMAIN rows = {}
    BY NothingDeclared
  <1>5. 1 \in DOMAIN Order(s)
    BY OrderListed
  <1> HIDE DEF rows, group, labels, several
  <1>6. Cardinality({}) = 0 /\ \A x : Cardinality({x}) = 1
    BY FS_EmptySet, FS_Singleton
  <1> SUFFICES Cardinality(labels) = IF several THEN Cardinality(groups) ELSE 0
    BY DEF labels, group, rows, several
  <1>7. CASE "detection-definition" \notin data.available
    <2>1. groups = {} /\ labels = {}
      BY <1>2, <1>4, <1>7
    <2> QED
      BY <1>6, <2>1
  <1>8. CASE "detection-definition" \in data.available /\ s # "scenario-2"
    <2>1. \A i \in DOMAIN rows : group(i) = "Declared characteristics"
      BY <1>3, <1>8, GroupsListed
    <2>2. groups = {"Declared characteristics"}
      BY <1>3, <1>5, <1>8, <2>1
    <2>3. ~several
      <3>1. Cardinality(groups) = 1
        BY <1>6, <2>2
      <3> HIDE DEF groups
      <3> QED
        BY <3>1 DEF several
    <2>4. labels = {}
      BY <1>2, <2>3
    <2> QED
      BY <1>6, <2>3, <2>4
  <1>9. CASE "detection-definition" \in data.available /\ s = "scenario-2"
    <2>1. /\ DOMAIN rows = 1..5 /\ group(1) = "Privilege"
          /\ \A i \in 2..5 : group(i) = "Host access"
      <3>1. /\ DOMAIN Order(s) = 1..5 /\ characteristicGroup(Order(s)[1]) = "Privilege"
            /\ \A i \in 2..5 : characteristicGroup(Order(s)[i]) = "Host access"
        BY <1>9, GroupsListed
      <3>2. 1 \in 1..5 /\ \A i \in 2..5 : i \in 1..5
        OBVIOUS
      <3> QED
        BY <1>3, <1>9, <3>1, <3>2
    <2>2. groups = {"Privilege", "Host access"}
      <3>1. 1 \in 1..5 /\ 2 \in 2..5 /\ 2 \in 1..5 /\ \A i \in 1..5 : i = 1 \/ i \in 2..5
        OBVIOUS
      <3> QED
        BY <2>1, <3>1
    <2>3. \A x, y : x # y => Cardinality({x, y}) = 2
      <3> SUFFICES ASSUME NEW x, NEW y, x # y PROVE Cardinality({x, y}) = 2
        OBVIOUS
      <3>1. IsFiniteSet({x}) /\ Cardinality({x}) = 1
        BY FS_Singleton
      <3>2. Cardinality({x} \cup {y}) = 2
        BY <3>1, FS_AddElement
      <3>3. {x} \cup {y} = {x, y}
        OBVIOUS
      <3> QED
        BY <3>2, <3>3
    <2>4. Cardinality(groups) = 2
      <3>1. "Privilege" # "Host access"
        OBVIOUS
      <3>2. Cardinality({"Privilege", "Host access"}) = 2
        BY <2>3, <3>1
      <3> HIDE DEF groups
      <3> QED
        BY <2>2, <3>2
    <2>5. several
      <3> HIDE DEF groups
      <3> QED
        BY <2>4 DEF several
    <2>6. \A i \in 1..5 : starts(i) <=> i \in {1, 2}
      <3>1. "Privilege" # "Host access"
        OBVIOUS
      <3>2. starts(1) /\ starts(2)
        <4>1. 2 - 1 = 1 /\ 2 \in 2..5
          OBVIOUS
        <4> QED
          BY <2>1, <3>1, <4>1
      <3>3. \A i \in 3..5 : ~starts(i)
        <4>1. \A i \in 3..5 : i # 1 /\ i \in 2..5 /\ i - 1 \in 2..5
          OBVIOUS
        <4> QED
          BY <2>1, <4>1
      <3> HIDE DEF starts
      <3> QED
        BY <3>2, <3>3
    <2>7. labels = {1, 2}
      <3>1. labels = {i \in 1..5 : starts(i)}
        BY <1>2, <2>1, <2>5
      <3> HIDE DEF starts
      <3> QED
        BY <2>6, <3>1
    <2>8. Cardinality(labels) = 2
      <3>1. 1 # 2
        OBVIOUS
      <3> QED
        BY <2>3, <2>7, <3>1
    <2> QED
      BY <2>4, <2>5, <2>8
  <1> QED
    BY <1>7, <1>8, <1>9

\* Rail, wires, callout and header break at one place or none; the evidence is
\* complete only when nothing is missing; the default selection is there when
\* anything is; each of several groups of pins has one label.
THEOREM AccountsAlwaysAgree == Spec => []AccountsAgree
  <1>1. IInv => AccountsAgree
    <2> SUFFICES ASSUME IInv, NEW s \in Matched, NEW available \in Without(ArtifactIds),
                        NEW failedLink \in {"", "alert", "source_key", "raw_event_sha256"}
                 PROVE  LET data   == ResponseTo(s, {}, available, failedLink)
                            proof  == buildTraceabilityProof(data)
                            rows   == buildEvidenceConcordance(data).rows
                            groups == {rows[i].group : i \in DOMAIN rows}
                            labels == {i \in DOMAIN rows : buildBusLayout(rows)[i].label} IN
                        /\ \A id \in results[s].satisfied : brokenWires(data, id) = TraceabilityRail(data)
                        /\ Cardinality(TraceabilityRail(data)) = IF failedLink = "" THEN 0 ELSE 1
                        /\ AlertIdentityHeader(data).chip = "" <=> TraceabilityRail(data) = {}
                        /\ brokenCallout(data) # "" <=> 0 \in TraceabilityRail(data)
                        /\ proof.evidenceSetComplete <=> failedLink = "" /\ available = ArtifactIds
                        /\ available # {} => resolveDefaultSelection(data) \in available
                        /\ \E i \in DOMAIN ArtifactOrder :
                             buildEvidenceRegister(data)[i].isDefaultSelection
                        /\ Cardinality(labels) = IF Cardinality(groups) > 1
                                                 THEN Cardinality(groups) ELSE 0
      BY DEF AccountsAgree
    <2> DEFINE data == ResponseTo(s, {}, available, failedLink)
               rows == buildEvidenceConcordance(data).rows
               groups == {rows[i].group : i \in DOMAIN rows}
               labels == {i \in DOMAIN rows : buildBusLayout(rows)[i].label}
    <2>1. /\ data.available = available /\ data.definition = DefinitionOf(s)
          /\ data.failedLink = failedLink
      BY DEF ResponseTo, Response
    <2>2. /\ available \subseteq ArtifactIds /\ s \in Scenarios
          /\ "detection-definition" \in available => "detection-result" \in available
      BY DEF Without, Matched
    <2> HIDE DEF data
    <2>3. /\ \A id : brokenWires(data, id) = TraceabilityRail(data)
          /\ Cardinality(TraceabilityRail(data)) = IF failedLink = "" THEN 0 ELSE 1
          /\ AlertIdentityHeader(data).chip = "" <=> TraceabilityRail(data) = {}
          /\ brokenCallout(data) # "" <=> 0 \in TraceabilityRail(data)
      BY <2>1, BreaksAgree
    <2>4. buildTraceabilityProof(data).evidenceSetComplete <=>
            failedLink = "" /\ available = ArtifactIds
      <3>1. buildTraceabilityProof(data).evidenceSetComplete <=>
              data.failedLink = "" /\ allArtifactsAvailable(data)
        BY Zenon DEF buildTraceabilityProof
      <3> QED
        BY <2>1, <2>2, <3>1 DEF allArtifactsAvailable
    <2>5. /\ resolveDefaultSelection(data) \in ArtifactIds
          /\ available # {} => resolveDefaultSelection(data) \in available
      BY <2>1, <2>2, DefaultIsThere
    <2>6. \E i \in DOMAIN ArtifactOrder : buildEvidenceRegister(data)[i].isDefaultSelection
      <3>1. PICK i \in DOMAIN ArtifactOrder : ArtifactOrder[i] = resolveDefaultSelection(data)
        BY <2>5 DEF ArtifactIds
      <3>2. buildEvidenceRegister(data)[i].isDefaultSelection
              <=> ArtifactOrder[i] = resolveDefaultSelection(data)
        BY Zenon DEF buildEvidenceRegister
      <3> QED
        BY <3>1, <3>2
    <2>7. Cardinality(labels) = IF Cardinality(groups) > 1 THEN Cardinality(groups) ELSE 0
      BY <2>1, <2>2, GroupsLabelled
    <2> QED
      BY <2>3, <2>4, <2>5, <2>6, <2>7 DEF data
  <1> QED
    BY <1>1, IInvHolds, PTL

=============================================================================
