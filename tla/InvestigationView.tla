------------------------- MODULE InvestigationView -------------------------
(***************************************************************************)
(* What the investigation page makes of one alert's evidence: the verdict  *)
(* it derives anew from the definition, the provenance of each matched     *)
(* characteristic, and the map's wires, rows and marks.  Pure functions of *)
(* the response and of the selected characteristic.                        *)
(***************************************************************************)
EXTENDS DetectionRules, Sequences

\* EVIDENCE_ARTIFACT_ORDER.
ArtifactOrder ==
  <<"source-event", "validation-outcome", "normalized-event",
    "detection-definition", "detection-result", "alert">>

ArtifactIds == {ArtifactOrder[i] : i \in DOMAIN ArtifactOrder}

\* AlertInvestigationResponse: the family of the raw event and whether it has a
\* requestObject, the query parameters its URI spells literally as true, the
\* recorded code (0 for none), whether a CloudTrail action names what it is
\* about, the normalized event, the definition and the match reason, and which
\* of them are available; failedLink is "" when the chain is intact.
Response(ev, literal, named, event, def, ids, available, failedLink) ==
  [family |-> ev.family, hasObject |-> ev.family = "kubernetes" /\ ev.object.kind # "",
   code |-> IF ev.family = "kubernetes" THEN ev.code ELSE 0,
   literal |-> literal, named |-> named, event |-> event, definition |-> def,
   satisfied |-> ids, available |-> available, failedLink |-> failedLink]

isAvailable(data, artifact) == artifact \in data.available

-----------------------------------------------------------------------------
(* detectionConditions and concordance: the definition against the result. *)

\* Mutation of isOutcomeSatisfied: an off-by-one at the lower bound.
isOutcomeSatisfiedAbove(required, code) == required = "success" /\ code > 200 /\ code < 300

isOutcomeSatisfied(required, code) == required = "success" /\ code >= 200 /\ code < 300

\* The lists of characteristics in the definitions, with their order.
DeclaredLists ==
  {<<>>, <<"stdin_streaming", "tty_allocation">>,
   <<"privileged_container", "host_network", "host_pid", "host_ipc", "host_path_volume">>,
   <<"role_ref_cluster_admin">>, <<"mfa_device_deactivated", "mfa_device_deleted">>,
   <<"access_key_created">>,
   <<"administrator_access_attached_to_user", "administrator_access_attached_to_role">>}

Declared(list) == CHOOSE seq \in DeclaredLists : {seq[i] : i \in DOMAIN seq} = list

buildGroup(kind, list, ids) ==
  [kind |-> kind, declared |-> Declared(list),
   satisfied |-> IF kind = "requires_any" THEN list \cap ids # {} ELSE list \subseteq ids]

\* null without a definition: a set of one element or none.
buildDeclaredConditions(data) ==
  IF ~isAvailable(data, "detection-definition") THEN {}
  ELSE LET def      == data.definition
           ids      == IF isAvailable(data, "detection-result") THEN data.satisfied ELSE {}
           recorded == IF isAvailable(data, "normalized-event") THEN data.code ELSE 0 IN
  {[outcome  |-> IF def.requiresOutcome = "" THEN {}
                 ELSE {IF recorded # 0 THEN isOutcomeSatisfied(def.requiresOutcome, recorded)
                       ELSE isAvailable(data, "detection-result")},
    groups   |-> {group \in {buildGroup("requires_any", def.requiresAny, ids),
                              buildGroup("requires_all", def.requiresAll, ids)} :
                    group.declared # <<>>},
    ids |-> ids]}

\* characteristicGroups.
characteristicGroup(id) ==
  CASE id \in {"host_ipc", "host_network", "host_path_volume", "host_pid"} -> "Host access"
    [] id = "privileged_container" -> "Privilege"
    [] OTHER -> "Declared characteristics"

\* The rows of characteristics, any before all; no definition has both.
buildEvidenceConcordance(data) ==
  LET conditions == buildDeclaredConditions(data)
      rows == Declared(UNION {data.definition.requiresAny \cup data.definition.requiresAll :
                                c \in conditions})
      met  == UNION {c.ids : c \in conditions} IN
  [available |-> conditions # {},
   outcomeRow |-> \E c \in conditions : TRUE \in c.outcome,
   rows |-> [i \in DOMAIN rows |-> [id |-> rows[i], satisfied |-> rows[i] \in met,
                                    group |-> characteristicGroup(rows[i])]],
   declaredCount  |-> Len(rows),
   satisfiedCount |-> Cardinality({i \in DOMAIN rows : rows[i] \in met})]

RowOf(data, id) ==
  {row \in LET rows == buildEvidenceConcordance(data).rows IN {rows[i] : i \in DOMAIN rows} :
     row.id = id}

-----------------------------------------------------------------------------
(* provenance and lineage: where a matched characteristic comes from. *)

\* CHARACTERISTIC_NORMALIZED_PATH.
NormalizedPath ==
  [stdin_streaming        |-> <<"exec", "stdin">>,
   tty_allocation         |-> <<"exec", "tty">>,
   privileged_container   |-> <<"podCreation", "privileged">>,
   host_network           |-> <<"podCreation", "hostNetwork">>,
   host_pid               |-> <<"podCreation", "hostPID">>,
   host_ipc               |-> <<"podCreation", "hostIPC">>,
   host_path_volume       |-> <<"podCreation", "hostPath">>,
   role_ref_cluster_admin |-> <<"clusterRoleBinding", "roleRef", "name">>,
   mfa_device_deactivated |-> <<"cloudTrailIAMAction", "affectedDevice">>,
   mfa_device_deleted     |-> <<"cloudTrailIAMAction", "affectedDevice">>,
   access_key_created     |-> <<"cloudTrailIAMAction", "affectedUser">>,
   administrator_access_attached_to_user |-> <<"cloudTrailIAMAction", "policyName">>,
   administrator_access_attached_to_role |-> <<"cloudTrailIAMAction", "policyName">>]

\* CHARACTERISTIC_QUERY_PARAM.
QueryParam == [stdin_streaming |-> "stdin", tty_allocation |-> "tty"]

\* The normalized event's value at a path, "undefined" for none; that of a name
\* is "name".
readPath(data, path) ==
  LET content == data.event.content IN
  CASE content.of # path[1] -> "undefined"
    [] content.of \in {"exec", "podCreation"} -> IF path[2] \in content.flags THEN "true" ELSE "false"
    [] content.of = "clusterRoleBinding" -> content.roleName
    [] path[2] = "policyName" -> IF content.policy = "" THEN "undefined" ELSE content.policy
    [] OTHER -> IF data.named THEN "name" ELSE "undefined"

\* buildLineageLinks, from the normalized paths to the raw ones.
Link(normalizedPath, rawPath) == [normalizedPath |-> normalizedPath, rawPath |-> rawPath]

buildLineageLinks(data) ==
  IF data.family = "aws_cloudtrail" THEN {}
  ELSE {Link(<<"subject", "username">>, "user.username"), Link(<<"operation", "verb">>, "verb"),
        Link(<<"operation", "requestURI">>, "requestURI"),
        Link(<<"requestTime">>, "requestReceivedTimestamp")}
       \cup (IF data.event.resource = "" THEN {}
             ELSE {Link(<<"target", "resource">>, "objectRef.resource")})
       \cup (IF data.event.subresource = "" THEN {}
             ELSE {Link(<<"target", "subresource">>, "objectRef.subresource")})
       \cup (IF data.code = 0 THEN {} ELSE {Link(<<"outcome", "code">>, "responseStatus.code")})
       \cup (IF data.event.content.of # "exec" THEN {}
             ELSE {Link(<<"exec", "stdin">>, "requestURI"), Link(<<"exec", "tty">>, "requestURI")})

\* The marker is the parameter spelled out with the value; {} for none.
findRawHighlight(data, id, value) ==
  IF id \in DOMAIN QueryParam /\ value = "true" /\ QueryParam[id] \in data.literal
  THEN {QueryParam[id]} ELSE {}

Unavailable(artifact) ==
  [kind |-> "unavailable", missing |-> artifact, rawPath |-> "", path |-> <<>>,
   value |-> "undefined", mark |-> {}]

\* Mutation of deriveProvenanceState: a link suffices, whatever is available.
deriveProvenanceStateUnguarded(id, data) ==
  LET path  == NormalizedPath[id]
      value == readPath(data, path)
      links == {l \in buildLineageLinks(data) : l.normalizedPath = path} IN
  [kind |-> IF links # {} THEN "verified" ELSE "partial", missing |-> "",
   rawPath |-> IF links # {} THEN (CHOOSE l \in links : TRUE).rawPath ELSE "",
   path |-> path, value |-> value,
   mark |-> IF links # {} THEN findRawHighlight(data, id, value) ELSE {}]

deriveProvenanceState(id, data) ==
  LET path  == NormalizedPath[id]
      value == readPath(data, path)
      links == {l \in buildLineageLinks(data) : l.normalizedPath = path} IN
  IF ~isAvailable(data, "source-event") THEN Unavailable("source-event")
  ELSE IF ~isAvailable(data, "normalized-event") THEN Unavailable("normalized-event")
  ELSE [kind |-> IF links # {} THEN "verified" ELSE "partial", missing |-> "",
        rawPath |-> IF links # {} THEN (CHOOSE l \in links : TRUE).rawPath ELSE "",
        path |-> path, value |-> value,
        mark |-> IF links # {} THEN findRawHighlight(data, id, value) ELSE {}]

-----------------------------------------------------------------------------
(* The view model: claim, identity, register and proof. *)

\* Finding and docket: the claim stands on the alert's summary, and the name of
\* the detection on the match reason as well; nothing of it without the summary.
buildFinding(data) ==
  [available |-> isAvailable(data, "alert"),
   names |-> {"alert", "detection-result"} \subseteq data.available]

buildDocketHeader(data) ==
  [identified |-> buildFinding(data).names,
   revision   |-> isAvailable(data, "detection-definition"),
   failedLink |-> data.failedLink]

\* The artifacts with content to show.
buildArtifactInspection(data) == {artifact \in ArtifactIds : isAvailable(data, artifact)}

allArtifactsAvailable(data) == ArtifactIds \subseteq data.available

buildTraceabilityProof(data) ==
  [intact |-> data.failedLink = "", failedLink |-> data.failedLink,
   evidenceSetComplete |-> data.failedLink = "" /\ allArtifactsAvailable(data)]

\* The result, or else the first artifact there is, or else the result.
resolveDefaultSelection(data) ==
  LET first == {i \in DOMAIN ArtifactOrder :
                  /\ isAvailable(data, ArtifactOrder[i])
                  /\ \A j \in 1..(i - 1) : ~isAvailable(data, ArtifactOrder[j])} IN
  IF isAvailable(data, "detection-result") \/ first = {} THEN "detection-result"
  ELSE ArtifactOrder[CHOOSE i \in first : TRUE]

\* Always all six, in their order.
buildEvidenceRegister(data) ==
  [i \in DOMAIN ArtifactOrder |->
     [key |-> ArtifactOrder[i], available |-> isAvailable(data, ArtifactOrder[i]),
      isDefaultSelection |-> ArtifactOrder[i] = resolveDefaultSelection(data)]]

=============================================================================
