--------------------- MODULE InvestigationViewProperties ---------------------
(***************************************************************************)
(* The investigation page against the decisions it reports: for every      *)
(* event that raises an alert, every set of artifacts a response can leave *)
(* out and every verdict on the chain, what the page says follows from     *)
(* what the platform decided.                                              *)
(***************************************************************************)
EXTENDS EventDecisionsProperties, EvidenceMap

\* The scenarios an alert has been raised for.
Matched == {s \in Scenarios : status = "evaluated" /\ results[s].matched}

\* What Compose can find when at most these artifacts are missing: a definition
\* only with the result that names it.
Without(artifacts) ==
  {available \in {ArtifactIds \ missing : missing \in SUBSET artifacts} :
     "detection-definition" \in available => "detection-result" \in available}

ResponseTo(s, literal, available, failedLink) ==
  Response(event, literal, TRUE, normal, DefinitionOf(s), results[s].satisfied, available, failedLink)

\* The page evaluates the definition anew from the match reason and the
\* recorded outcome, in another language, and arrives at the match that was
\* recorded: every clause holds, and its pins and its tally count the very
\* characteristics of the match reason, whether or not the normalized event
\* can still be read.  Without the definition it claims nothing.  The catalogue
\* declares what the pins do, and no alert is printed with an outcome other
\* than the success its definition asks for.
VerdictReproduced ==
  \A s \in Matched :
    \A available \in Without({"normalized-event", "detection-definition", "detection-result"}) :
      LET data == ResponseTo(s, {}, available, "")
          map  == InvestigationMap(data, NoSelection)
          card == DetectionCard(DefinitionOf(s))
          lit  == {map.pins[i].id : i \in {j \in DOMAIN map.pins : map.pins[j].state # "declared-only"}}
          met  == Cardinality({i \in DOMAIN map.tally : map.tally[i]}) IN
      /\ IF "detection-definition" \in available
         THEN /\ buildEvidenceConcordance(data).outcomeRow <=> DefinitionOf(s).requiresOutcome # ""
              /\ \A c \in buildDeclaredConditions(data) : \A group \in c.groups : group.satisfied
              /\ lit = results[s].satisfied /\ met = Cardinality(lit)
              /\ map.rays.pins = card.any \o card.all
         ELSE map.pins = <<>> /\ map.tally = <<>> /\ map.rays.pins = <<>>
      /\ card.outcome = "success" => map.alert \in {"code", "success"}

\* A provenance never claims more than the evidence shows: a raw origin only
\* for what was parsed from the URI of an exec request, with both ends there;
\* a mark only on a literal that decided the fact; and an origin that cannot
\* be inspected names an artifact that is missing.
ProvenanceHonest ==
  \A s \in Matched : \A available \in Without({"source-event", "normalized-event"}) :
    \A literal \in SUBSET {"stdin", "tty"} : \A id \in results[s].satisfied :
      LET data == ResponseTo(s, literal, available, "")
          p    == deriveProvenanceState(id, data) IN
      /\ p.kind = "unavailable" <=> ~({"source-event", "normalized-event"} \subseteq available)
      /\ p.kind = "unavailable" => p.missing \notin available
      /\ p.kind = "verified" => /\ Audit("pods", "exec") /\ p.value = "true"
                                /\ p.rawPath = "requestURI"
      /\ p.mark # {} => event.family = "kubernetes" /\ p.mark \subseteq event.query \cap literal
      /\ renderHighlightedText(data, id) \subseteq p.mark

\* Selecting a matched characteristic of a Pod's exec or creation lights one
\* row of the normalized event, the one that says true of it, and draws the
\* trace from there; with the event or its source missing none is lit, and a
\* characteristic that was not matched never lights any.
LitRowShowsTheFact ==
  \A s \in Matched \cap {"scenario-1", "scenario-2"} :
    \A available \in Without({"source-event", "normalized-event"}) :
      \A id \in DefinitionOf(s).requiresAny :
        LET data == ResponseTo(s, {}, available, "") IN
        IF id \in results[s].satisfied /\ available = ArtifactIds
        THEN /\ Cardinality(LitRows(data, id)) = 1
             /\ \A row \in LitRows(data, id) : row.value = "true"
             /\ SelectionTraceOverlay(data, id) =
                  {a.kind : a \in ProvenanceAnnotation(data, id)}
        ELSE LitRows(data, id) = {} /\ SelectionTraceOverlay(data, id) = {}

\* The accounts of the chain and of the six artifacts never contradict each
\* other: rail, wires, callout and header break at the same one place or none,
\* evidence is complete only when nothing is missing, the default selection
\* is there when anything is, and each of several groups of pins has one label.
AccountsAgree ==
  \A s \in Matched : \A available \in Without(ArtifactIds) :
    \A failedLink \in {"", "alert", "source_key", "raw_event_sha256"} :
      LET data   == ResponseTo(s, {}, available, failedLink)
          proof  == buildTraceabilityProof(data)
          rows   == buildEvidenceConcordance(data).rows
          groups == {rows[i].group : i \in DOMAIN rows}
          labels == {i \in DOMAIN rows : buildBusLayout(rows)[i].label} IN
      /\ \A id \in results[s].satisfied : brokenWires(data, id) = TraceabilityRail(data)
      /\ Cardinality(TraceabilityRail(data)) = IF failedLink = "" THEN 0 ELSE 1
      /\ AlertIdentityHeader(data).chip = "" <=> TraceabilityRail(data) = {}
      /\ brokenCallout(data) # "" <=> 0 \in TraceabilityRail(data)
      /\ proof.evidenceSetComplete <=> failedLink = "" /\ available = ArtifactIds
      /\ available # {} => resolveDefaultSelection(data) \in available
      /\ \E i \in DOMAIN ArtifactOrder : buildEvidenceRegister(data)[i].isDefaultSelection
      /\ Cardinality(labels) = IF Cardinality(groups) > 1 THEN Cardinality(groups) ELSE 0

=============================================================================
