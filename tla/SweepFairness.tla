--------------------------- MODULE SweepFairness ---------------------------
(***************************************************************************)
(* The retry rule of worker.Run, observed with a history variable: after   *)
(* an attempt on submission i fails, owed[i] holds the later submissions   *)
(* that were eligible at that moment and have not had their attempt since. *)
(* A lost cursor (the process stopped, or the claim query failed) closes   *)
(* every account, since the code then starts from the oldest again.        *)
(***************************************************************************)
EXTENDS PipelineProperties

VARIABLE owed

sweepVars == <<vars, owed>>

SweepInit == Init /\ owed = [i \in Ids |-> {}]

Failed(i) ==
  claim.id = i /\ (PrepareFails \/ InspectFails \/ StatementsFail \/ StageError \/ CommitUnacknowledged)

Claimed(i) == Claim /\ claim'.id = i

CursorLost == Crash \/ ClaimError

\* The submissions still owed their attempt: an attempt settles the debt, and
\* so does no longer being eligible.
Account ==
  owed' = [i \in Ids |->
    IF CursorLost THEN {}
    ELSE {j \in IF Failed(i) THEN {k \in Ids : k > i /\ Eligible(k)} ELSE owed[i] :
            Eligible(j)' /\ ~Claimed(j)}]

SweepNext == Next /\ Account

SweepSpec == SweepInit /\ [][SweepNext]_sweepVars

\* The fairness of FairSpec; the history variable is no obstacle to any step.
FairSweepSpec ==
  /\ SweepSpec
  /\ WF_vars(Claim \/ NoneEligible \/ Attempt)
  /\ WF_vars(Startup)
  /\ WF_vars(OrphanEnds)

-----------------------------------------------------------------------------
\* No submission is attempted again after a failure while one that was
\* eligible behind it then still waits for its turn: each later eligible
\* submission gets its attempt before the failed one is reconsidered
\* (package worker, NFR-008).
LaterOnesFirst ==
  \A i \in Ids : pc = "claimed" /\ claim.id = i => owed[i] = {}

=============================================================================
