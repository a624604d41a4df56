---------------------------- MODULE EvidenceMap ----------------------------
(***************************************************************************)
(* InvestigationMap and the components it mounts: what the map of one      *)
(* alert's evidence shows while a characteristic, or none, is selected.    *)
(***************************************************************************)
EXTENDS InvestigationView

NoSelection == "no selection"

-----------------------------------------------------------------------------
(* The selection. *)

\* The provenance of a satisfied row, of no other.
selectedProvenance(data, id) ==
  {deriveProvenanceState(id, data) : row \in {r \in RowOf(data, id) : r.satisfied}}

\* What there is to trace: a verified or a partial one.
Traced(data, id) == {p \in selectedProvenance(data, id) : p.kind # "unavailable"}

-----------------------------------------------------------------------------
(* SourceSubmissionSpecimen and NormalizedEventSurface. *)

\* The raw payload on display.
SourceSubmissionSpecimen(data) ==
  CASE "source-event" \notin buildArtifactInspection(data) -> "unavailable"
    [] data.family = "aws_cloudtrail"     -> "requestParameters"
    [] data.hasObject                     -> "requestObject"
    [] OTHER                              -> "requestURI"

\* The literals marked in it.
renderHighlightedText(data, id) ==
  IF SourceSubmissionSpecimen(data) = "requestURI"
  THEN UNION {p.mark : p \in Traced(data, id)} ELSE {}

Field(key, value) == [key |-> key, value |-> value]

\* Mutation of FlagFields: a field is not rendered.
FlagFieldsNoHostPath ==
  [exec |-> {"stdin", "tty"},
   podCreation |-> {"privileged", "hostNetwork", "hostPID", "hostIPC"}]

FlagFields ==
  [exec |-> {"stdin", "tty"},
   podCreation |-> {"privileged", "hostNetwork", "hostPID", "hostIPC", "hostPath"}]

\* The rows that follow those every event has; the one of the role shows its
\* kind and name under the key of the whole reference.
NormalizedEventSurface(data) ==
  LET of == data.event.content.of
      iam(name) == Field(<<of, name>>, readPath(data, <<of, name>>)) IN
  CASE ~isAvailable(data, "normalized-event") -> {}
    [] of \in {"exec", "podCreation"} ->
         {Field(<<of, f>>, readPath(data, <<of, f>>)) : f \in FlagFields[of]}
    [] of = "clusterRoleBinding" ->
         {Field(<<of, "bindingName">>, "name"), Field(<<of, "roleRef">>, data.event.content.roleName)}
    [] of = "cloudTrailIAMAction" ->
         {row \in {iam("affectedUser"), iam("affectedDevice"), iam("policyName")} :
            row.value # "undefined"}
    [] OTHER -> {}

\* Whose key is the selected provenance's path.
LitRows(data, id) ==
  {row \in NormalizedEventSurface(data) : row.key \in {p.path : p \in Traced(data, id)}}

\* A connector is drawn between two ends that are both on the page.
useConnectorPath(from, to) == from \X to

\* Drawn from the lit row to the pin, in the manner of the kind.
SelectionTraceOverlay(data, id) ==
  IF useConnectorPath(LitRows(data, id), RowOf(data, id)) = {} THEN {}
  ELSE {p.kind : p \in Traced(data, id)}

-----------------------------------------------------------------------------
(* The definition's frame: the bus of pins, and the annotation of one. *)

\* Left and right in turn; a label where the group changes, if there are several.
buildBusLayout(rows) ==
  LET several == Cardinality({rows[i].group : i \in DOMAIN rows}) > 1 IN
  [i \in DOMAIN rows |->
     [id |-> rows[i].id, side |-> IF i % 2 = 1 THEN "left" ELSE "right",
      label |-> several /\ (i = 1 \/ rows[i - 1].group # rows[i].group)]]

CharacteristicPin(data, row, selected) ==
  [id |-> row.id,
   state |-> IF row.satisfied THEN deriveProvenanceState(row.id, data).kind ELSE "declared-only",
   pressed |-> row.id = selected,
   dimmed  |-> selected # NoSelection /\ row.id # selected]

DetectionDefinitionFrame(data, selected) ==
  LET rows == buildEvidenceConcordance(data).rows IN
  [i \in DOMAIN rows |-> CharacteristicPin(data, rows[i], selected)]

\* The catalogue's card of a definition, which declares the same.
DetectionCard(def) ==
  [outcome |-> def.requiresOutcome, all |-> Declared(def.requiresAll),
   any |-> Declared(def.requiresAny)]

\* Of the selected row: at most one.
ProvenanceAnnotation(data, id) ==
  LET rows == buildEvidenceConcordance(data).rows IN
  {[kind |-> IF rows[i].satisfied THEN deriveProvenanceState(id, data).kind ELSE "declared-only",
    side |-> buildBusLayout(rows)[i].side,
    shown |-> selectedProvenance(data, id)] : i \in {j \in DOMAIN rows : rows[j].id = id}}

-----------------------------------------------------------------------------
(* The result, the wires and the rail. *)

\* No tally without a result, or where nothing is declared.
DetectionResultResolution(data) ==
  LET concordance == buildEvidenceConcordance(data) IN
  IF ~isAvailable(data, "detection-result") \/ concordance.declaredCount = 0 THEN <<>>
  ELSE [i \in 1..concordance.declaredCount |-> i <= concordance.satisfiedCount]

\* A ray to the result from the pin of every row, satisfied or not.
BusConvergenceOverlay(data, selected) ==
  [pins   |-> [i \in DOMAIN buildEvidenceConcordance(data).rows |->
                 DetectionDefinitionFrame(data, selected)[i].id],
   dimmed |-> selected # NoSelection]

\* The wire from the source submission, of which a break hides the provenance.
sourceNormalizedState(data, id) ==
  IF data.failedLink \in {"raw_event_sha256", "source_key"} THEN {"broken"}
  ELSE {p.kind : p \in Traced(data, id)}

\* EvidenceCanvas: the wires on which a break is drawn.
brokenWires(data, id) ==
  (IF "broken" \in sourceNormalizedState(data, id) THEN {0} ELSE {})
  \cup (IF data.failedLink = "alert" THEN {2} ELSE {})

\* What the canvas says of a break at the source, and of no other.
brokenCallout(data) ==
  IF "broken" \in sourceNormalizedState(data, NoSelection) THEN data.failedLink ELSE ""

\* Mutation of segmentBroken: the key is taken for the alert's.
segmentBrokenKeyLast(i, failedLink) ==
  \/ i = 0 /\ failedLink = "raw_event_sha256"
  \/ i = 2 /\ failedLink \in {"alert", "source_key"}

\* TraceabilityRail: source to normalized event, to result, to alert.
segmentBroken(i, failedLink) ==
  \/ i = 0 /\ failedLink \in {"raw_event_sha256", "source_key"}
  \/ i = 2 /\ failedLink = "alert"

TraceabilityRail(data) ==
  LET proof == buildTraceabilityProof(data) IN
  {i \in 0..2 : ~proof.intact /\ segmentBroken(i, proof.failedLink)}

AlertIdentityHeader(data) ==
  [named |-> buildDocketHeader(data).identified, claim |-> buildFinding(data).available,
   chip  |-> buildDocketHeader(data).failedLink]

ValidationStamp(data) ==
  IF "validation-outcome" \in buildArtifactInspection(data) THEN "outcome" ELSE "unavailable"

\* What is printed of an outcome, a Kubernetes code before CloudTrail's own.
formatOutcome(data) ==
  CASE data.code # 0                                              -> "code"
    [] data.family = "aws_cloudtrail" /\ ~data.event.successful -> "error"
    [] data.event.successful                                      -> "success"
    [] OTHER                                                      -> "none"

GeneratedAlertMarker(data) ==
  IF "alert" \in buildArtifactInspection(data) THEN formatOutcome(data) ELSE "unavailable"

\* All that the map shows of a response and of the selection.
InvestigationMap(data, selected) ==
  [header |-> AlertIdentityHeader(data),
   source |-> SourceSubmissionSpecimen(data), marks |-> renderHighlightedText(data, selected),
   stamp  |-> ValidationStamp(data),
   lit    |-> LitRows(data, selected), trace |-> SelectionTraceOverlay(data, selected),
   pins   |-> DetectionDefinitionFrame(data, selected),
   rays   |-> BusConvergenceOverlay(data, selected),
   note   |-> ProvenanceAnnotation(data, selected),
   tally  |-> DetectionResultResolution(data), alert |-> GeneratedAlertMarker(data),
   wires  |-> brokenWires(data, selected), callout |-> brokenCallout(data),
   rail   |-> TraceabilityRail(data)]

=============================================================================
