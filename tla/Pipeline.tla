------------------------------ MODULE Pipeline ------------------------------
(***************************************************************************)
(* The durable processing pipeline: the tables of the database, the single *)
(* worker that claims a submission and runs its stage's transaction, and   *)
(* what may go wrong around it.  The worker's steps are the points between *)
(* which another actor can act: the claim query, the stage's reads outside *)
(* its transaction, the statements of the transaction, its commit.         *)
(*                                                                         *)
(* A process that dies between its statements and the answer to its commit *)
(* leaves a transaction the server still finishes, either way, while the   *)
(* next process is already claiming: an orphan.  It holds the row lock on  *)
(* its submission until then.                                              *)
(***************************************************************************)
EXTENDS PipelineData

CONSTANTS
  MaxFaults,   \* database errors injected into the worker's calls (bound)
  MaxCrashes,  \* stops of the platform process (bound)
  MaxTampers   \* MaxTampers[i]: changes of raw event i behind the platform's back (bound)

ASSUME PipelineAssumption ==
  /\ MaxFaults \in Nat
  /\ MaxCrashes \in Nat
  /\ MaxTampers \in [Ids -> Nat]

VARIABLES
  status,   \* submissions.status
  raw,      \* submissions.raw_event
  digest,   \* the event submissions.raw_event_sha256 was computed from
  outcome,  \* validation_outcomes, one row per submission or "none"
  normal,   \* normalized_events: the event the row was derived from
  results,  \* detection_results per definition
  alerts,   \* alerts per matched definition
  loaded,   \* detection_definitions
  release,  \* the build that is deployed
  pc,       \* where the worker is: "down", "idle", or in an attempt: "claimed",
            \* "computed", "inspected", "executed"
  cur,      \* the sweep cursor, 0 for nil
  claim,    \* the submission the claim query returned
  work,     \* what the stage read or computed before its transaction
  tx,       \* the worker's transaction once its statements have run
  orphans,  \* transactions whose client is gone
  faults, crashes,  \* how often each has happened
  tampers,  \* how often each submission's raw event was changed
  held      \* history: the events raw_event has held since the status last changed

tables == <<status, raw, digest, outcome, normal, results, alerts, held>>
worker == <<pc, cur, claim, work, tx>>
bounds == <<faults, crashes, tampers>>
vars   == <<tables, loaded, release, worker, orphans, bounds>>

NoClaim == [id |-> 0, status |-> "absent", raw |-> NoEvent]
NoWork  == [event |-> NoEvent, defs |-> {}]
NoTx    == [id |-> 0, to |-> "absent", outcome |-> "none", normal |-> NoEvent,
            results |-> NoResults, alerts |-> NoAlerts]

-----------------------------------------------------------------------------
(* The claim query. *)

\* A non-valid submission is parked at validated: no clause selects it.
Eligible(i) ==
  \/ status[i] \in {"admitted", "normalized", "evaluated", "alerted"}
  \/ status[i] = "validated" /\ outcome[i] = "valid"

\* The eligible submissions strictly after the cursor.
Candidates == {i \in Ids : Eligible(i) /\ i > cur}

-----------------------------------------------------------------------------
(* Admission and the world outside the worker. *)

\* Concurrent intakes commit in any order, so a submission may become visible
\* before one with an earlier position; an insert already sent also commits
\* while the process is down.
Admit(i, e) ==
  /\ status[i] = "absent"
  /\ status' = [status EXCEPT ![i] = "admitted"]
  /\ raw'    = [raw EXCEPT ![i] = e]
  /\ digest' = [digest EXCEPT ![i] = e]
  /\ held'   = [held EXCEPT ![i] = {e}]
  /\ UNCHANGED <<outcome, normal, results, alerts, loaded, release, worker,
                 orphans, bounds>>

\* The row lock an unfinished transaction holds on its submission.
Locked(i) == \E o \in orphans : o.id = i

\* A privileged writer replaces a stored raw event, again and again if it
\* likes and back to the admitted one too, and leaves its digest alone.
Tamper(i, e) ==
  /\ tampers[i] < MaxTampers[i]
  /\ status[i] # "absent" /\ e # raw[i]
  /\ ~Locked(i) /\ tx.id # i
  /\ raw'     = [raw EXCEPT ![i] = e]
  /\ held'    = [held EXCEPT ![i] = @ \cup {e}]
  /\ tampers' = [tampers EXCEPT ![i] = @ + 1]
  /\ UNCHANGED <<status, digest, outcome, normal, results, alerts, loaded,
                 release, worker, orphans, faults, crashes>>

-----------------------------------------------------------------------------
(* The worker loop.  Every way out of an attempt goes back to the claim.   *)

Loop(c) ==
  /\ pc' = "idle" /\ cur' = c /\ claim' = NoClaim /\ work' = NoWork /\ tx' = NoTx

\* Mutation of AttemptFails: the cursor is put past the next position.
AttemptFailsPastNext == Loop(claim.id + 1)

\* Mutation of AttemptFails: a failure does not open a sweep.
AttemptFailsWithoutSweep == Loop(0)

\* A failed attempt opens a sweep past the submission, or continues it.
AttemptFails == Loop(claim.id)

\* Mutation of AttemptSucceeds: a success closes the sweep it belongs to.
AttemptSucceedsClosesSweep == Loop(0)

\* A successful one moves an open sweep on; outside a sweep the cursor stays nil.
AttemptSucceeds == Loop(IF cur # 0 THEN claim.id ELSE 0)

Claim ==
  /\ pc = "idle"
  /\ \E i \in Candidates :
       /\ \A j \in Candidates : i <= j
       /\ claim' = [id |-> i, status |-> status[i], raw |-> raw[i]]
  /\ pc' = "claimed"
  /\ UNCHANGED <<tables, loaded, release, cur, work, tx, orphans, bounds>>

\* Mutation of NoneEligible: the end of a sweep keeps the cursor.
NoneEligibleKeepsCursor ==
  /\ pc = "idle" /\ Candidates = {}
  /\ Loop(cur)
  /\ UNCHANGED <<tables, loaded, release, orphans, bounds>>

NoneEligible ==
  /\ pc = "idle" /\ Candidates = {}
  /\ Loop(0)
  /\ UNCHANGED <<tables, loaded, release, orphans, bounds>>

Fault == faults < MaxFaults /\ faults' = faults + 1

ClaimError ==
  /\ pc = "idle"
  /\ Fault
  /\ Loop(0)
  /\ UNCHANGED <<tables, loaded, release, orphans, crashes, tampers>>

-----------------------------------------------------------------------------
(* Before the transaction: classify or normalize the claimed raw event, or *)
(* read back what earlier stages recorded.                                 *)

InputsAvailable ==
  /\ claim.status = "validated" => claim.raw \in Normalizable
  /\ claim.status \in {"normalized", "evaluated"} => normal[claim.id] # NoEvent
  /\ claim.status = "normalized" => Active[release] \subseteq loaded

\* Mutation of Inputs: every definition ever loaded counts as active.
InputsAllLoaded ==
  [event |-> IF claim.status \in {"normalized", "evaluated"}
             THEN normal[claim.id] ELSE claim.raw,
   defs  |-> IF claim.status = "normalized" THEN loaded
             ELSE IF claim.status = "evaluated" THEN MatchedIn(results[claim.id])
             ELSE {}]

\* Mutation of Inputs: alerting evaluates the active definitions again instead
\* of reading the recorded results.
InputsReevaluated ==
  [event |-> IF claim.status \in {"normalized", "evaluated"}
             THEN normal[claim.id] ELSE claim.raw,
   defs  |-> IF claim.status = "normalized" THEN Active[release]
             ELSE IF claim.status = "evaluated"
             THEN Active[release] \cap Matches[normal[claim.id]] ELSE {}]

Inputs ==
  [event |-> IF claim.status \in {"normalized", "evaluated"}
             THEN normal[claim.id] ELSE claim.raw,
   defs  |-> IF claim.status = "normalized" THEN Active[release]
             ELSE IF claim.status = "evaluated" THEN MatchedIn(results[claim.id])
             ELSE {}]

Prepare ==
  /\ pc = "claimed"
  /\ InputsAvailable
  /\ work' = Inputs
  /\ pc' = "computed"
  /\ UNCHANGED <<tables, loaded, release, cur, claim, tx, orphans, bounds>>

PrepareFails ==
  /\ pc = "claimed"
  /\ ~InputsAvailable
  /\ AttemptFails
  /\ UNCHANGED <<tables, loaded, release, orphans, bounds>>

-----------------------------------------------------------------------------
(* The statements of a stage's transaction: conflict-safe inserts, then    *)
(* the guarded status update.  They see committed rows only and wait for   *)
(* an orphan that holds the submission's row.                              *)

\* INSERT ... ON CONFLICT DO UPDATE WHERE same content RETURNING id: the new
\* value is stored over none or over itself, anything else is a conflict.
Upsertable(old, new, none) == old = none \/ old = new

\* The same for a table with one row per definition, for the definitions of D.
UpsertableAll(old, new, none, D) == \A d \in D : Upsertable(old[d], new[d], none)
UpsertAll(old, new, D) == [d \in Defs |-> IF d \in D THEN new[d] ELSE old[d]]

\* Mutation of Advanceable: the status update has no guard.
AdvanceableAlways == TRUE

\* submission.Advance: the update applies to a row still at the claimed status.
Advanceable == status[claim.id] = claim.status

NewOutcome == Classification[work.event]
NewResults == ResultsOf(work.event, work.defs)
NewAlerts  == AlertsOf(work.event, work.defs)

\* Mutation of InventoryComplete: the artifacts are there, nobody compares digests.
InventoryPresent(i) ==
  /\ normal[i] # NoEvent
  /\ \A d \in MatchedIn(results[i]) :
       outcome[i] # "none" /\ d \in loaded /\ alerts[i][d] # NoEvent

\* evidence.Complete for every matched result: all six artifacts are there and
\* the stored raw event still has the digest taken at admission.
InventoryComplete(i) ==
  /\ normal[i] # NoEvent
  /\ \A d \in MatchedIn(results[i]) :
       /\ outcome[i] # "none" /\ d \in loaded /\ alerts[i][d] # NoEvent
       /\ raw[i] = digest[i]

StatementsSucceed ==
  LET i == claim.id IN
  /\ claim.status = "admitted"   => Upsertable(outcome[i], NewOutcome, "none")
  /\ claim.status = "validated"  => Upsertable(normal[i], work.event, NoEvent)
  /\ claim.status = "normalized" => UpsertableAll(results[i], NewResults, "none", work.defs)
  /\ claim.status = "evaluated"  => UpsertableAll(alerts[i], NewAlerts, NoEvent, work.defs)
  /\ Advanceable

\* The row as the transaction leaves it.
Pending(to, o, n, r, a) ==
  [id |-> claim.id, to |-> to, outcome |-> o, normal |-> n, results |-> r, alerts |-> a]

\* The last stage reads in its transaction, the others before theirs.
ReadsDone == pc = IF claim.status = "alerted" THEN "inspected" ELSE "computed"

Execute(from) ==
  /\ ReadsDone /\ claim.status = from
  /\ ~Locked(claim.id)
  /\ StatementsSucceed
  /\ pc' = "executed"
  /\ UNCHANGED <<tables, loaded, release, cur, claim, work, orphans, bounds>>

Validate ==
  LET i == claim.id IN
  /\ Execute("admitted")
  /\ tx' = Pending("validated", NewOutcome, normal[i], results[i], alerts[i])

Normalize ==
  LET i == claim.id IN
  /\ Execute("validated")
  /\ tx' = Pending("normalized", outcome[i], work.event, results[i], alerts[i])

Detect ==
  LET i == claim.id IN
  /\ Execute("normalized")
  /\ tx' = Pending("evaluated", outcome[i], normal[i],
                   UpsertAll(results[i], NewResults, work.defs), alerts[i])

RaiseAlerts ==
  LET i == claim.id IN
  /\ Execute("evaluated")
  /\ tx' = Pending("alerted", outcome[i], normal[i], results[i],
                   UpsertAll(alerts[i], NewAlerts, work.defs))

\* The SELECTs of evidence.Advance, down to VerifyAlert's of the last alert:
\* they take no lock and wait for none.
Inspect ==
  /\ pc = "computed" /\ claim.status = "alerted"
  /\ InventoryComplete(claim.id)
  /\ pc' = "inspected"
  /\ UNCHANGED <<tables, loaded, release, cur, claim, work, tx, orphans, bounds>>

InspectFails ==
  /\ pc = "computed" /\ claim.status = "alerted"
  /\ ~InventoryComplete(claim.id)
  /\ AttemptFails
  /\ UNCHANGED <<tables, loaded, release, orphans, bounds>>

\* Then its one UPDATE: under READ COMMITTED nothing ties it to what the
\* SELECTs saw but the guard on the status.
Verify ==
  LET i == claim.id IN
  /\ Execute("alerted")
  /\ tx' = Pending("evidenced", outcome[i], normal[i], results[i], alerts[i])

StatementsFail ==
  /\ ReadsDone
  /\ ~Locked(claim.id)
  /\ ~StatementsSucceed
  /\ AttemptFails
  /\ UNCHANGED <<tables, loaded, release, orphans, bounds>>

-----------------------------------------------------------------------------
(* The end of a transaction. *)

Apply(t) ==
  /\ status'  = [status EXCEPT ![t.id] = t.to]
  /\ outcome' = [outcome EXCEPT ![t.id] = t.outcome]
  /\ normal'  = [normal EXCEPT ![t.id] = t.normal]
  /\ results' = [results EXCEPT ![t.id] = t.results]
  /\ alerts'  = [alerts EXCEPT ![t.id] = t.alerts]
  /\ held'    = [held EXCEPT ![t.id] = {raw[t.id]}]
  /\ UNCHANGED <<raw, digest, loaded, release>>

Commit ==
  /\ pc = "executed"
  /\ Apply(tx)
  /\ AttemptSucceeds
  /\ UNCHANGED <<orphans, bounds>>

\* The commit took effect but its answer was lost: the worker sees an error.
CommitUnacknowledged ==
  /\ pc = "executed"
  /\ Fault
  /\ Apply(tx)
  /\ AttemptFails
  /\ UNCHANGED <<orphans, crashes, tampers>>

\* Mutation of StageError: artifacts are inserted outside the transaction and
\* survive its rollback.
StageErrorKeepsArtifacts ==
  /\ pc = "executed"
  /\ Fault
  /\ Apply([tx EXCEPT !.to = status[tx.id]])
  /\ AttemptFails
  /\ UNCHANGED <<orphans, crashes, tampers>>

\* An error in any call of the attempt rolls its transaction back.
StageError ==
  /\ pc \in {"claimed", "computed", "inspected", "executed"}
  /\ Fault
  /\ AttemptFails
  /\ UNCHANGED <<tables, loaded, release, orphans, crashes, tampers>>

-----------------------------------------------------------------------------
(* The process stops, wherever the worker is, and is started again.  The   *)
(* cursor is lost; a transaction in progress is rolled back or orphaned.   *)

Crash ==
  /\ pc # "down" /\ crashes < MaxCrashes
  /\ pc' = "down" /\ cur' = 0 /\ claim' = NoClaim /\ work' = NoWork /\ tx' = NoTx
  /\ \/ orphans' = orphans
     \/ pc = "executed" /\ orphans' = orphans \cup {tx}
  /\ crashes' = crashes + 1
  /\ UNCHANGED <<tables, loaded, release, faults, tampers>>

\* Startup loads the release's definitions before the worker runs; rows
\* that are already there stay.
Restart(r) ==
  /\ pc = "down"
  /\ release' = r
  /\ loaded' = loaded \cup Active[r]
  /\ Loop(0)
  /\ UNCHANGED <<tables, orphans, bounds>>

OrphanCommits(o) ==
  /\ Apply(o)
  /\ orphans' = orphans \ {o}
  /\ UNCHANGED <<worker, bounds>>

OrphanRollsBack(o) ==
  /\ orphans' = orphans \ {o}
  /\ UNCHANGED <<tables, loaded, release, worker, bounds>>

-----------------------------------------------------------------------------
Init ==
  /\ status  = [i \in Ids |-> "absent"]
  /\ raw     = [i \in Ids |-> NoEvent]
  /\ digest  = [i \in Ids |-> NoEvent]
  /\ outcome = [i \in Ids |-> "none"]
  /\ normal  = [i \in Ids |-> NoEvent]
  /\ results = [i \in Ids |-> NoResults]
  /\ alerts  = [i \in Ids |-> NoAlerts]
  /\ held    = [i \in Ids |-> {}]
  /\ release \in Releases
  /\ loaded = Active[release]
  /\ pc = "idle" /\ cur = 0 /\ claim = NoClaim /\ work = NoWork /\ tx = NoTx
  /\ orphans = {}
  /\ faults = 0 /\ crashes = 0 /\ tampers = [i \in Ids |-> 0]

Attempt ==
  \/ Prepare \/ PrepareFails \/ Inspect \/ InspectFails
  \/ Validate \/ Normalize \/ Detect \/ RaiseAlerts \/ Verify
  \/ StatementsFail \/ Commit

Failure == ClaimError \/ StageError \/ CommitUnacknowledged \/ Crash

Startup == \E r \in Releases : Restart(r)

OrphanEnds == \E o \in orphans : OrphanCommits(o) \/ OrphanRollsBack(o)

Environment == \E i \in Ids, e \in Events : Admit(i, e) \/ Tamper(i, e)

Next ==
  \/ Claim \/ NoneEligible \/ Attempt
  \/ Failure \/ Startup \/ OrphanEnds \/ Environment

Spec == Init /\ [][Next]_vars

(***************************************************************************)
(* The loop of the worker never blocks except on the database, a stopped   *)
(* process is started again (compose's restart policy or the operator) and *)
(* PostgreSQL ends a transaction whose client is gone.  Intakes, faults,   *)
(* crashes and tampering happen or do not.                                 *)
(***************************************************************************)
FairSpec ==
  /\ Spec
  /\ WF_vars(Claim \/ NoneEligible \/ Attempt)
  /\ WF_vars(Startup)
  /\ WF_vars(OrphanEnds)

=============================================================================
