----------------------------- MODULE MCPipeline -----------------------------
(***************************************************************************)
(* Small instances of the pipeline.  What its constants say of an event is *)
(* what the decision functions make of a source event it stands for: one   *)
(* that matches, one that matches nothing, one that is valid but cannot be *)
(* normalized, and one that is malformed.  Two releases share one          *)
(* definition and each has its own revision of another.                    *)
(***************************************************************************)
EXTENDS PipelineProperties

CONSTANTS match, quiet, poison, unfit, none, d0, d1, d2, r1, r2

Source == INSTANCE SourceEvents
V == INSTANCE Validation
N == INSTANCE Normalization
D == INSTANCE DetectionRules

SourceEvent(e) ==
  CASE e = match  -> [Source!PlainRecord EXCEPT !.eventName = "CreateAccessKey"]
    [] e = quiet  -> Source!PlainRecord
    [] e = poison -> [Source!PlainAudit EXCEPT !.verb = "create",
                        !.object = [@ EXCEPT !.kind = "Pod", !.spec = TRUE, !.fits = FALSE]]
    [] e = unfit  -> [Source!PlainRecord EXCEPT !.malformed = "field"]

Embedded(scenario) == CHOOSE def \in D!Definitions : def.scenario = scenario

DefinitionOf(d) ==
  CASE d = d0 -> Embedded("scenario-5")
    [] d = d1 -> [Embedded("scenario-6") EXCEPT !.requiresAny = @ \cup {"access_key_created"}]
    [] d = d2 -> Embedded("scenario-6")

\* How often each submission's raw event may be changed.
MCTampers == [i \in Ids |-> IF i = 1 THEN 2 ELSE 0]
MCNoTampers == [i \in Ids |-> 0]

MCActive   == [r \in Releases |-> Defs \cap (IF r = r1 THEN {d0, d1} ELSE {d0, d2})]
MCClassification == [e \in Events |-> V!Classify(SourceEvent(e))]
MCNormalizable == {e \in Events : ~N!NormalizeErrs(SourceEvent(e))}
MCMatches ==
  [e \in Events |->
     {d \in Defs : e \in MCNormalizable
                   /\ D!matches(DefinitionOf(d), N!NormalizeEvent(SourceEvent(e)))}]

=============================================================================
