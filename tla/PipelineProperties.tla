------------------------- MODULE PipelineProperties -------------------------
(***************************************************************************)
(* What the pipeline of module Pipeline must guarantee.                    *)
(***************************************************************************)
EXTENDS Pipeline, FiniteSets

Transactions ==
  [id : Ids, to : Statuses, outcome : Outcomes \cup {"none"}, normal : Columns,
   results : Results, alerts : Alerts]

\* Every variable holds a value of its kind.
TypeOK ==
  /\ status \in [Ids -> Statuses]
  /\ raw \in [Ids -> Columns] /\ digest \in [Ids -> Columns]
  /\ outcome \in [Ids -> Outcomes \cup {"none"}]
  /\ normal \in [Ids -> Columns]
  /\ results \in [Ids -> Results] /\ alerts \in [Ids -> Alerts]
  /\ loaded \subseteq Defs /\ release \in Releases
  /\ pc \in {"down", "idle", "claimed", "computed", "inspected", "executed"}
  /\ cur \in 0..MaxId
  /\ claim \in [id : 0..MaxId, status : Statuses, raw : Columns]
  /\ work \in [event : Columns, defs : SUBSET Defs]
  /\ tx \in Transactions \cup {NoTx}
  /\ orphans \subseteq Transactions
  /\ faults \in 0..MaxFaults /\ crashes \in 0..MaxCrashes
  /\ tampers \in [Ids -> Nat]
  /\ \A i \in Ids : tampers[i] <= MaxTampers[i]
  /\ held \in [Ids -> SUBSET Events]

-----------------------------------------------------------------------------
(* Safety of the recorded artifacts. *)

\* A stage is committed with its status or not at all: each table holds rows
\* for a submission exactly when its status says that stage is done, however
\* attempts, lost commit answers, crashes and orphans interleave (ADR-0002;
\* submission.List relies on admitted <=> no validation outcome).
StageArtifactsMatchStatus ==
  \A i \in Ids :
    /\ outcome[i] # "none" <=> status[i] \in FromValidated
    /\ normal[i] # NoEvent <=> status[i] \in FromNormalized
    /\ results[i] # NoResults => status[i] \in FromEvaluated
    /\ status[i] \in FromAlerted =>
         \A d \in Defs : alerts[i][d] # NoEvent <=> results[i][d] = "matched"
    /\ status[i] \notin FromAlerted => alerts[i] = NoAlerts

\* The results of a submission are all of one release's definitions and none
\* of another's, even when a new release takes over while the old process's
\* transaction is still undecided (detection.Advance: no submission is left
\* with only some of its results).
OneReleaseEvaluated ==
  \A i \in Ids : status[i] \in FromEvaluated =>
    \E r \in Releases : \A d \in Defs : results[i][d] # "none" <=> d \in Active[r]

\* A submission classified other than valid never produces an artifact past
\* its outcome (FR-014).
OnlyValidProceeds ==
  \A i \in Ids : normal[i] # NoEvent => outcome[i] = "valid"

\* No single change of a raw event gets an alert of another event past the
\* verification of its evidence, whenever it is made and whichever stage had
\* already read the event, between the reads and the status update of the
\* verification itself too (NFR-017, AC-015).
OneChangeIsExposed ==
  \A i \in Ids : status[i] = "evidenced" /\ tampers[i] <= 1 =>
    \A d \in Defs : alerts[i][d] \in {NoEvent, digest[i]}

\* The state-changing statements of two processes never undo one another: an
\* unfinished transaction, orphaned or not, still finds its submission where
\* its guard saw it, and no two hold the same submission.
UnfinishedTransactionsCurrent ==
  LET unfinished == orphans \cup (IF pc = "executed" THEN {tx} ELSE {}) IN
  /\ \A t \in unfinished : <<status[t.id], t.to>> \in
       {<<"admitted", "validated">>, <<"validated", "normalized">>,
        <<"normalized", "evaluated">>, <<"evaluated", "alerted">>,
        <<"alerted", "evidenced">>}
  /\ \A t, u \in unfinished : t.id = u.id => t = u

-----------------------------------------------------------------------------
(* What a step may never do. *)

\* An artifact once recorded is never replaced or removed, by a retry, a
\* restart under another release or an orphan's late commit (NFR-006).
ArtifactsImmutable ==
  [][\A i \in Ids :
       /\ outcome[i] # "none" => outcome'[i] = outcome[i]
       /\ normal[i] # NoEvent => normal'[i] = normal[i]
       /\ results[i] # NoResults => results'[i] = results[i]
       /\ alerts[i] # NoAlerts => alerts'[i] = alerts[i]]_vars

\* A submission with an alert becomes evidenced while its raw event is the
\* admitted one: verification and the status advance are atomic
\* (evidence.Advance).
EvidencedWhileIntact ==
  [][\A i \in Ids :
       status[i] = "alerted" /\ status'[i] = "evidenced" /\ MatchedIn(results[i]) # {}
         => raw[i] = digest[i]]_vars

-----------------------------------------------------------------------------
(* Refinement: the tables change as PipelineAbstract allows. *)

Abstract ==
  INSTANCE PipelineAbstract WITH
    status <- status, raw <- raw, digest <- digest, outcome <- outcome,
    normal <- normal, results <- results, alerts <- alerts, held <- held

\* The worker's transactions, with every fault, crash and orphan, implement
\* the stages that move a submission in one step.
ImplementsAbstract == Abstract!Spec

-----------------------------------------------------------------------------
(* Liveness. *)

Healthy(i) ==
  /\ raw[i] = digest[i] /\ digest[i] \in Normalizable
  /\ outcome[i] \in {"none", "valid"}
  /\ Classification[digest[i]] = "valid"

\* Every valid, untouched submission is eventually evidenced, although others
\* fail at every attempt, the process restarts and commits go unacknowledged
\* (NFR-008, AC-018).
HealthyEvidenced ==
  \A i \in Ids :
    (status[i] # "absent" /\ Healthy(i)) ~> (status[i] = "evidenced" \/ ~Healthy(i))

\* Every admitted submission is eventually classified, whatever it contains.
EveryAdmittedClassified ==
  \A i \in Ids : status[i] = "admitted" ~> status[i] # "admitted"

=============================================================================
