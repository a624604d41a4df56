--------------------------- MODULE PipelineProofs ---------------------------
(***************************************************************************)
(* Theorems about module Pipeline, for every number of submissions, every  *)
(* set of events, definitions and releases, and any bounds on faults,      *)
(* crashes and tampering.                                                  *)
(***************************************************************************)
EXTENDS SweepFairness, TLAPS

-----------------------------------------------------------------------------
(* The operators the stages are built from. *)

\* Evaluating any definitions yields one verdict per definition of the table.
LEMMA ResultsOfType ==
  ASSUME NEW e, NEW D
  PROVE  ResultsOf(e, D) \in Results
  BY DEF ResultsOf, Results, Verdicts

\* The alerts built from an event are rows of the alerts table.
LEMMA AlertsOfType ==
  ASSUME NEW e \in Columns, NEW M
  PROVE  AlertsOf(e, M) \in Alerts
  BY DEF AlertsOf, Alerts, Columns

\* A submission without rows in a per-definition table is well typed too.
LEMMA EmptyRowTypes == NoResults \in Results /\ NoAlerts \in Alerts
  BY DEF NoResults, NoAlerts, Results, Alerts, Verdicts, Columns

\* The conflict-safe inserts of detection keep the results well typed.
LEMMA UpsertAllResultsType ==
  ASSUME NEW old \in Results, NEW new \in Results, NEW D
  PROVE  UpsertAll(old, new, D) \in Results
  BY DEF UpsertAll, Results

\* The conflict-safe inserts of alerting keep the alerts well typed.
LEMMA UpsertAllAlertsType ==
  ASSUME NEW old \in Alerts, NEW new \in Alerts, NEW D
  PROVE  UpsertAll(old, new, D) \in Alerts
  BY DEF UpsertAll, Alerts

-----------------------------------------------------------------------------
(* Types.  TypeOK is inductive once the values the worker holds are tied   *)
(* to where it is: Classification is applied to what it has read.          *)

Busy == {"claimed", "computed", "inspected", "executed"}
Claimable == {"admitted", "validated", "normalized", "evaluated", "alerted"}

HeldTyped ==
  /\ \A i \in Ids : status[i] # "absent" => raw[i] \in Events
  /\ pc \in Busy => /\ claim.id \in Ids /\ status[claim.id] # "absent"
                    /\ claim.status \in Claimable /\ claim.raw \in Events
  /\ pc \in {"computed", "inspected"} => work.event \in Events
  /\ pc = "executed" => tx \in Transactions /\ tx.id = claim.id /\ tx.to # "absent"
  /\ \A o \in orphans : status[o.id] # "absent" /\ o.to # "absent"

TInv == TypeOK /\ HeldTyped

\* The platform starts with empty tables and an idle worker, all well typed.
LEMMA InitTyped == Init => TInv
  <1> SUFFICES ASSUME Init PROVE TInv
    OBVIOUS
  <1>1. NoTx \in Transactions \cup {NoTx}
    OBVIOUS
  <1>2. NoClaim \in [id : 0..MaxId, status : Statuses, raw : Columns]
    BY DataAssumption DEF NoClaim, Statuses, Columns
  <1>3. NoWork \in [event : Columns, defs : SUBSET Defs]
    BY DEF NoWork, Columns
  <1>4. loaded \subseteq Defs /\ release \in Releases
    BY DataAssumption DEF Init
  <1>5. TypeOK
    BY <1>1, <1>2, <1>3, <1>4, EmptyRowTypes, DataAssumption, PipelineAssumption
    DEF Init, TypeOK, Statuses, Columns
  <1>6. HeldTyped
    BY DEF Init, HeldTyped, Busy
  <1> QED
    BY <1>5, <1>6 DEF TInv

\* Going back to the claim leaves a well-typed worker.
LEMMA LoopTyped ==
  ASSUME NEW c \in 0..MaxId, Loop(c)
  PROVE  /\ pc' = "idle" /\ cur' \in 0..MaxId
         /\ claim' \in [id : 0..MaxId, status : Statuses, raw : Columns]
         /\ work' \in [event : Columns, defs : SUBSET Defs]
         /\ tx' \in Transactions \cup {NoTx}
  BY DataAssumption DEF Loop, NoClaim, NoWork, Statuses, Columns

\* A committed transaction leaves well-typed tables.
LEMMA ApplyTyped ==
  ASSUME TInv, NEW t \in Transactions, status[t.id] # "absent", Apply(t)
  PROVE  /\ status' \in [Ids -> Statuses]
         /\ outcome' \in [Ids -> Outcomes \cup {"none"}]
         /\ normal' \in [Ids -> Columns]
         /\ results' \in [Ids -> Results] /\ alerts' \in [Ids -> Alerts]
         /\ held' \in [Ids -> SUBSET Events]
         /\ raw' = raw /\ digest' = digest /\ loaded' = loaded /\ release' = release
  <1>1. t.id \in Ids /\ raw[t.id] \in Events
    BY DEF TInv, TypeOK, HeldTyped, Transactions
  <1> QED
    BY <1>1 DEF Apply, TInv, TypeOK, Transactions

\* The event a transaction is about to derive its row from is a real one.
LEMMA WorkTyped ==
  ASSUME TInv, pc \in {"computed", "inspected"}
  PROVE  /\ NewOutcome \in Outcomes
         /\ NewResults \in Results /\ NewAlerts \in Alerts
  <1>1. work.event \in Events /\ work.event \in Columns
    BY DEF TInv, HeldTyped, Columns
  <1>2. NewOutcome \in Outcomes
    BY <1>1, DataAssumption DEF NewOutcome
  <1> QED
    BY <1>1, <1>2, ResultsOfType, AlertsOfType DEF NewResults, NewAlerts

\* Every transaction whose statements succeed is well typed.
LEMMA ExecuteTyped ==
  ASSUME TInv, NEW from \in Claimable, Execute(from),
         NEW to \in Statuses \ {"absent"}, NEW o \in Outcomes \cup {"none"}, NEW n \in Columns,
         NEW r \in Results, NEW a \in Alerts, tx' = Pending(to, o, n, r, a)
  PROVE  TInv'
  <1>1. claim.id \in Ids
    BY DEF TInv, HeldTyped, Execute, ReadsDone, Busy
  <1>2. tx' \in Transactions /\ tx'.id = claim.id /\ tx'.to = to
    BY <1>1 DEF Pending, Transactions
  <1>3. TypeOK'
    BY <1>2 DEF TInv, TypeOK, Execute, tables, bounds
  <1>4. HeldTyped'
    BY <1>2 DEF TInv, HeldTyped, Execute, ReadsDone, tables, bounds, Busy
  <1> QED
    BY <1>3, <1>4 DEF TInv

\* Columns the worker reads are of their kind.
LEMMA RowTyped ==
  ASSUME TInv, pc \in Busy
  PROVE  /\ claim.id \in Ids /\ claim.id \in 0..MaxId
         /\ outcome[claim.id] \in Outcomes \cup {"none"}
         /\ normal[claim.id] \in Columns /\ status[claim.id] \in Statuses
         /\ results[claim.id] \in Results /\ alerts[claim.id] \in Alerts
         /\ raw[claim.id] \in Columns
  BY DataAssumption DEF TInv, HeldTyped, TypeOK, Ids

\* Every step of the worker, of the processes around it and of a fault keeps the
\* types.
LEMMA NextTyped == TInv /\ [Next]_vars => TInv'
  <1> SUFFICES ASSUME TInv, [Next]_vars PROVE TInv'
    OBVIOUS
  <1> USE DEF TInv
  <1>1. ASSUME NEW i \in Ids, NEW e \in Events, Admit(i, e) PROVE TInv'
    <2>1. TypeOK'
      BY <1>1 DEF Admit, TypeOK, Statuses, Columns, worker, bounds
    <2>2. HeldTyped'
      BY <1>1 DEF Admit, TypeOK, HeldTyped, worker, bounds
    <2> QED
      BY <2>1, <2>2
  <1>2. ASSUME NEW i \in Ids, NEW e \in Events, Tamper(i, e) PROVE TInv'
    <2>3. /\ tampers' \in [Ids -> Nat]
          /\ \A j \in Ids : tampers'[j] <= MaxTampers[j]
      <3>1. /\ tampers' = [tampers EXCEPT ![i] = tampers[i] + 1] /\ tampers \in [Ids -> Nat]
            /\ tampers[i] < MaxTampers[i] /\ tampers[i] \in Nat /\ MaxTampers[i] \in Nat
            /\ \A j \in Ids : tampers[j] <= MaxTampers[j]
        BY <1>2, PipelineAssumption DEF Tamper, TypeOK
      <3>2. tampers[i] + 1 \in Nat /\ tampers[i] + 1 <= MaxTampers[i]
        BY <3>1
      <3> QED
        BY <3>1, <3>2
    <2>4. held' \in [Ids -> SUBSET Events] /\ raw' \in [Ids -> Columns]
      BY <1>2 DEF Tamper, TypeOK, Columns
    <2>1. TypeOK'
      BY <1>2, <2>3, <2>4 DEF Tamper, TypeOK, worker
    <2>2. HeldTyped'
      BY <1>2 DEF Tamper, TypeOK, HeldTyped, worker, bounds
    <2> QED
      BY <2>1, <2>2
  <1>3. CASE Claim
    <2> PICK i \in Candidates : claim' = [id |-> i, status |-> status[i], raw |-> raw[i]]
      BY <1>3 DEF Claim
    <2>1. i \in Ids /\ i \in 0..MaxId /\ status[i] \in Claimable
      BY DataAssumption DEF Candidates, Eligible, Ids, Claimable
    <2>2. raw[i] \in Events /\ raw[i] \in Columns
      BY <2>1 DEF HeldTyped, Claimable, Columns
    <2>3. TypeOK'
      BY <1>3, <2>1, <2>2 DEF Claim, TypeOK, tables, bounds, Claimable, Statuses
    <2>4. HeldTyped'
      BY <1>3, <2>1, <2>2 DEF Claim, HeldTyped, tables, bounds, Busy, Claimable
    <2> QED
      BY <2>3, <2>4
  <1>4. ASSUME NEW c \in 0..MaxId, Loop(c),
               UNCHANGED <<tables, orphans>>,
               loaded' \subseteq Defs, release' \in Releases,
               faults' \in 0..MaxFaults, crashes' \in 0..MaxCrashes,
               UNCHANGED tampers
        PROVE  TInv'
    <2>1. TypeOK'
      BY <1>4, LoopTyped DEF TypeOK, tables
    <2>2. HeldTyped'
      BY <1>4 DEF Loop, HeldTyped, tables, Busy
    <2> QED
      BY <2>1, <2>2
  <1>5. ASSUME NEW t \in Transactions, Apply(t), t.to # "absent",
               status[t.id] # "absent", NEW c \in 0..MaxId, Loop(c),
               UNCHANGED orphans, faults' \in 0..MaxFaults,
               UNCHANGED <<crashes, tampers>>
        PROVE  TInv'
    <2>1. TypeOK'
      BY <1>5, LoopTyped, ApplyTyped DEF TypeOK
    <2>2. HeldTyped'
      BY <1>5 DEF Loop, Apply, HeldTyped, TypeOK, Busy, Transactions
    <2> QED
      BY <2>1, <2>2
  <1>6. CASE NoneEligible
    BY <1>4, <1>6, DataAssumption DEF NoneEligible, TypeOK, bounds
  <1>7. CASE Prepare
    <2>1. pc \in Busy /\ claim.id \in Ids
      BY <1>7 DEF Prepare, HeldTyped, Busy
    <2>2. work'.event \in Events /\ work' \in [event : Columns, defs : SUBSET Defs]
      BY <1>7, <2>1, DataAssumption
      DEF Prepare, InputsAvailable, Inputs, HeldTyped, TypeOK, Columns, MatchedIn
    <2>3. TypeOK'
      BY <1>7, <2>2 DEF Prepare, TypeOK, tables, bounds
    <2>4. HeldTyped'
      BY <1>7, <2>1, <2>2 DEF Prepare, HeldTyped, tables, bounds, Busy
    <2> QED
      BY <2>3, <2>4
  <1>8. CASE PrepareFails
    <2>1. claim.id \in 0..MaxId
      BY DEF TypeOK
    <2> QED
      BY <1>4, <1>8, <2>1 DEF PrepareFails, AttemptFails, TypeOK, bounds
  <1>9. CASE StatementsFail
    <2>1. claim.id \in 0..MaxId
      BY DEF TypeOK
    <2> QED
      BY <1>4, <1>9, <2>1 DEF StatementsFail, AttemptFails, TypeOK, bounds
  <1>10. CASE Validate
    <2>1. pc = "computed" /\ pc \in Busy
      BY <1>10 DEF Validate, Execute, ReadsDone, Busy
    <2> QED
      BY <1>10, <2>1, WorkTyped, RowTyped, ExecuteTyped DEF Validate, Claimable, Statuses
  <1>11. CASE Normalize
    <2>1. pc = "computed" /\ pc \in Busy /\ work.event \in Columns
      BY <1>11 DEF Normalize, Execute, ReadsDone, Busy, TypeOK
    <2> QED
      BY <1>11, <2>1, RowTyped, ExecuteTyped DEF Normalize, Claimable, Statuses
  <1>12. CASE Detect
    <2>1. pc = "computed" /\ pc \in Busy
      BY <1>12 DEF Detect, Execute, ReadsDone, Busy
    <2>2. UpsertAll(results[claim.id], NewResults, work.defs) \in Results
      BY <2>1, WorkTyped, RowTyped, UpsertAllResultsType
    <2> QED
      BY <1>12, <2>1, <2>2, RowTyped, ExecuteTyped DEF Detect, Claimable, Statuses
  <1>13. CASE RaiseAlerts
    <2>1. pc = "computed" /\ pc \in Busy
      BY <1>13 DEF RaiseAlerts, Execute, ReadsDone, Busy
    <2>2. UpsertAll(alerts[claim.id], NewAlerts, work.defs) \in Alerts
      BY <2>1, WorkTyped, RowTyped, UpsertAllAlertsType
    <2> QED
      BY <1>13, <2>1, <2>2, RowTyped, ExecuteTyped DEF RaiseAlerts, Claimable, Statuses
  <1>14. CASE Verify
    <2>1. pc \in Busy
      BY <1>14 DEF Verify, Execute, ReadsDone, Busy
    <2> QED
      BY <1>14, <2>1, RowTyped, ExecuteTyped DEF Verify, Claimable, Statuses
  <1>15. CASE Commit
    <2>1. /\ tx \in Transactions /\ tx.to # "absent" /\ status[tx.id] # "absent"
          /\ claim.id \in 0..MaxId
      BY <1>15 DEF Commit, HeldTyped, Busy, TypeOK
    <2>2. PICK c \in 0..MaxId : Loop(c)
      BY <1>15, <2>1, DataAssumption DEF Commit, AttemptSucceeds
    <2> QED
      BY <1>5, <1>15, <2>1, <2>2 DEF Commit, bounds, TypeOK
  <1>16. CASE CommitUnacknowledged
    <2>1. /\ tx \in Transactions /\ tx.to # "absent" /\ status[tx.id] # "absent"
          /\ claim.id \in 0..MaxId
      BY <1>16 DEF CommitUnacknowledged, HeldTyped, Busy, TypeOK
    <2>2. faults' \in 0..MaxFaults
      BY <1>16, PipelineAssumption DEF CommitUnacknowledged, Fault, TypeOK
    <2> QED
      BY <1>5, <1>16, <2>1, <2>2 DEF CommitUnacknowledged, AttemptFails
  <1>17. CASE ClaimError
    <2>1. faults' \in 0..MaxFaults /\ 0 \in 0..MaxId
      BY <1>17, PipelineAssumption, DataAssumption DEF ClaimError, Fault, TypeOK
    <2> QED
      BY <1>4, <1>17, <2>1 DEF ClaimError, TypeOK
  <1>18. CASE StageError
    <2>1. faults' \in 0..MaxFaults /\ claim.id \in 0..MaxId
      BY <1>18, PipelineAssumption DEF StageError, Fault, TypeOK
    <2> QED
      BY <1>4, <1>18, <2>1 DEF StageError, AttemptFails, TypeOK
  <1>19. CASE Crash
    <2>1. crashes' \in 0..MaxCrashes
      BY <1>19, PipelineAssumption DEF Crash, TypeOK
    <2>2. orphans' \subseteq Transactions
          /\ \A o \in orphans' : status[o.id] # "absent" /\ o.to # "absent"
      BY <1>19 DEF Crash, HeldTyped, TypeOK, Busy
    <2>3. /\ claim' \in [id : 0..MaxId, status : Statuses, raw : Columns]
          /\ work' \in [event : Columns, defs : SUBSET Defs]
          /\ 0 \in 0..MaxId
      BY <1>19, DataAssumption DEF Crash, NoClaim, NoWork, Statuses, Columns
    <2>4. TypeOK'
      BY <1>19, <2>1, <2>2, <2>3 DEF Crash, TypeOK, tables
    <2>5. HeldTyped'
      BY <1>19, <2>2 DEF Crash, HeldTyped, tables, Busy
    <2> QED
      BY <2>4, <2>5
  <1>20. ASSUME NEW r \in Releases, Restart(r) PROVE TInv'
    <2>1. loaded' \subseteq Defs /\ release' \in Releases /\ 0 \in 0..MaxId
      BY <1>20, DataAssumption DEF Restart, TypeOK
    <2> QED
      BY <1>4, <1>20, <2>1 DEF Restart, TypeOK, bounds
  <1>21. ASSUME NEW o \in orphans, OrphanCommits(o) PROVE TInv'
    <2>1. o \in Transactions /\ o.to # "absent" /\ status[o.id] # "absent"
      BY DEF TypeOK, HeldTyped
    <2>2. TypeOK'
      BY <1>21, <2>1, ApplyTyped DEF OrphanCommits, TypeOK, worker, bounds
    <2>3. HeldTyped'
      BY <1>21, <2>1
      DEF OrphanCommits, Apply, HeldTyped, TypeOK, worker, bounds, Transactions, Busy
    <2> QED
      BY <2>2, <2>3
  <1>22. ASSUME NEW o \in orphans, OrphanRollsBack(o) PROVE TInv'
    <2>1. TypeOK'
      BY <1>22 DEF OrphanRollsBack, TypeOK, tables, worker, bounds
    <2>2. HeldTyped'
      BY <1>22 DEF OrphanRollsBack, HeldTyped, tables, worker, bounds
    <2> QED
      BY <2>1, <2>2
  <1>23. CASE UNCHANGED vars
    <2>1. TypeOK'
      BY <1>23 DEF vars, TypeOK, tables, worker, bounds
    <2>2. HeldTyped'
      BY <1>23 DEF vars, HeldTyped, tables, worker, bounds
    <2> QED
      BY <2>1, <2>2
  <1>24. CASE Inspect
    <2>1. TypeOK'
      BY <1>24 DEF Inspect, TypeOK, tables, bounds
    <2>2. HeldTyped'
      BY <1>24 DEF Inspect, HeldTyped, tables, bounds, Busy
    <2> QED
      BY <2>1, <2>2
  <1>25. CASE InspectFails
    <2>1. claim.id \in 0..MaxId
      BY DEF TypeOK
    <2> QED
      BY <1>4, <1>25, <2>1 DEF InspectFails, AttemptFails, TypeOK, bounds
  <1> QED
    BY <1>1, <1>2, <1>3, <1>6, <1>7, <1>8, <1>9, <1>10, <1>11, <1>12, <1>13, <1>14,
       <1>15, <1>16, <1>17, <1>18, <1>19, <1>20, <1>21, <1>22, <1>23, <1>24, <1>25
    DEF Next, Attempt, Failure, Startup, OrphanEnds, Environment

\* So the types hold throughout, with what the worker holds tied to where it is.
LEMMA SpecTyped == Spec => []TInv
  BY InitTyped, NextTyped, PTL DEF Spec

\* Every variable keeps a value of its kind, whatever fails and whenever the
\* process stops.
THEOREM TypeCorrect == Spec => []TypeOK
  <1>1. TInv => TypeOK
    BY DEF TInv
  <1> QED
    BY <1>1, SpecTyped, PTL

-----------------------------------------------------------------------------
(* Safety, from one inductive invariant.  A property of the tables alone   *)
(* is not inductive: what an unfinished transaction is about to write, and *)
(* what the worker has read for the one it is about to start, must fit the *)
(* row they are for.                                                       *)

\* A submission's row and artifacts, as its status st allows: raw event w,
\* admitted event g, events held h, outcome o, normalized event n, results r,
\* alerts a.
Row(st, w, g, h, o, n, r, a) ==
  /\ o # "none" <=> st \in FromValidated
  /\ n # NoEvent <=> st \in FromNormalized
  /\ st \in FromNormalized => o = "valid"
  /\ st \notin FromEvaluated => r = NoResults
  /\ st \in FromEvaluated => \E rel \in Releases : r = ResultsOf(n, Active[rel])
  /\ st \notin FromAlerted => a = NoAlerts
  /\ st \in FromAlerted => a = AlertsOf(n, MatchedIn(r))
  /\ st # "absent" => g \in Events /\ w \in h

\* Transaction t moves such a row one stage on.
Moves(st, g, h, o, n, r, a, t) ==
  \/ /\ st = "admitted" /\ t.to = "validated"
     /\ \E e \in h : t.outcome = Classification[e]
     /\ t.normal = n /\ t.results = r /\ t.alerts = a
  \/ /\ st = "validated" /\ t.to = "normalized" /\ o = "valid"
     /\ t.normal \in h \cap Normalizable
     /\ t.outcome = o /\ t.results = r /\ t.alerts = a
  \/ /\ st = "normalized" /\ t.to = "evaluated"
     /\ \E rel \in Releases : t.results = ResultsOf(n, Active[rel])
     /\ t.outcome = o /\ t.normal = n /\ t.alerts = a
  \/ /\ st = "evaluated" /\ t.to = "alerted"
     /\ t.alerts = AlertsOf(n, MatchedIn(r))
     /\ t.outcome = o /\ t.normal = n /\ t.results = r
  \/ /\ st = "alerted" /\ t.to = "evidenced"
     /\ MatchedIn(r) # {} => g \in h
     /\ t.outcome = o /\ t.normal = n /\ t.results = r /\ t.alerts = a

RowOf(i) ==
  Row(status[i], raw[i], digest[i], held[i], outcome[i], normal[i], results[i], alerts[i])

MovesRow(t) ==
  Moves(status[t.id], digest[t.id], held[t.id], outcome[t.id], normal[t.id],
        results[t.id], alerts[t.id], t)

\* What the claim query returned may be stale, but never ahead of the row.
ClaimCurrent ==
  LET i == claim.id IN
  /\ status[i] = claim.status => claim.raw \in held[i]
  /\ claim.status = "validated"  => status[i] \in FromValidated /\ outcome[i] = "valid"
  /\ claim.status = "normalized" => status[i] \in FromNormalized
  /\ claim.status = "evaluated"  => status[i] \in FromEvaluated
  /\ claim.status = "alerted"    => status[i] \in FromAlerted

\* What the stage computed is derived from recorded data.
WorkCurrent ==
  LET i == claim.id IN
  /\ claim.status \in {"admitted", "validated"} => work.event = claim.raw
  /\ claim.status = "validated" => work.event \in Normalizable
  /\ claim.status \in {"normalized", "evaluated"} => work.event = normal[i]
  /\ claim.status = "normalized" => \E rel \in Releases : work.defs = Active[rel]
  /\ claim.status = "evaluated" => work.defs = MatchedIn(results[i])

\* What the verification has seen, as long as no other has finished it.
InspectionCurrent ==
  LET i == claim.id IN
  /\ claim.status = "alerted"
  /\ status[i] = "alerted" /\ MatchedIn(results[i]) # {} => digest[i] \in held[i]

IInv ==
  /\ \A i \in Ids : RowOf(i)
  /\ \A o \in orphans : MovesRow(o)
  /\ \A o, p \in orphans : o.id = p.id => o = p
  /\ pc \in Busy => ClaimCurrent
  /\ pc = "computed" => WorkCurrent
  /\ pc = "inspected" => InspectionCurrent
  /\ pc = "executed" => MovesRow(tx) /\ ~Locked(tx.id)

-----------------------------------------------------------------------------
(* Lemmas about rows. *)

\* A transaction that moves a well-formed row leaves a well-formed row.
LEMMA MovePreservesRow ==
  ASSUME NEW st \in Statuses, NEW w, NEW g, NEW h, NEW o, NEW n, NEW r, NEW a, NEW t,
         Row(st, w, g, h, o, n, r, a), Moves(st, g, h, o, n, r, a, t),
         h \subseteq Events
  PROVE  Row(t.to, w, g, {w}, t.outcome, t.normal, t.results, t.alerts)
  <1> USE DEF Row, FromValidated, FromNormalized, FromEvaluated, FromAlerted
  <1>1. CASE st = "admitted"
    <2>1. t.outcome \in Outcomes /\ t.outcome # "none"
      BY <1>1, DataAssumption DEF Moves, Outcomes
    <2> QED
      BY <1>1, <2>1 DEF Moves
  <1>2. CASE st = "validated"
    BY <1>2, DataAssumption DEF Moves
  <1>3. CASE st = "normalized"
    BY <1>3 DEF Moves
  <1>4. CASE st = "evaluated"
    BY <1>4 DEF Moves
  <1>5. CASE st = "alerted"
    BY <1>5 DEF Moves
  <1> QED
    BY <1>1, <1>2, <1>3, <1>4, <1>5 DEF Moves

\* A move keeps every artifact the row already has.
LEMMA MoveKeepsArtifacts ==
  ASSUME NEW st, NEW g, NEW h, NEW o, NEW n, NEW r, NEW a, NEW t,
         Moves(st, g, h, o, n, r, a, t)
  PROVE  /\ st \in FromValidated  => t.to \in FromValidated /\ t.outcome = o
         /\ st \in FromNormalized => t.to \in FromNormalized /\ t.normal = n
         /\ st \in FromEvaluated  => t.to \in FromEvaluated /\ t.results = r
         /\ st \in FromAlerted    => t.to \in FromAlerted /\ t.alerts = a
  BY DEF Moves, FromValidated, FromNormalized, FromEvaluated, FromAlerted

\* Upserting one stage's rows over none stores exactly those rows.
LEMMA UpsertOverNone ==
  ASSUME NEW e, NEW D
  PROVE  /\ UpsertAll(NoResults, ResultsOf(e, D), D) = ResultsOf(e, D)
         /\ UpsertAll(NoAlerts, AlertsOf(e, D), D) = AlertsOf(e, D)
  BY DEF UpsertAll, NoResults, NoAlerts, ResultsOf, AlertsOf

\* A commit changes the row of its transaction and no other.
LEMMA ApplyRows ==
  ASSUME TInv, NEW t \in Transactions, Apply(t)
  PROVE  /\ raw' = raw /\ digest' = digest /\ held'[t.id] = {raw[t.id]}
         /\ status'[t.id] = t.to /\ outcome'[t.id] = t.outcome
         /\ normal'[t.id] = t.normal /\ results'[t.id] = t.results
         /\ alerts'[t.id] = t.alerts
         /\ \A i \in Ids \ {t.id} :
              /\ status'[i] = status[i] /\ outcome'[i] = outcome[i]
              /\ normal'[i] = normal[i] /\ results'[i] = results[i]
              /\ alerts'[i] = alerts[i] /\ held'[i] = held[i]
  BY DEF Apply, TInv, TypeOK, Transactions

-----------------------------------------------------------------------------
(* The stages: every transaction whose statements succeed moves its row. *)

\* The stage's transaction, once its statements have run, moves the claimed
\* row, because the guard found it where the claim left it.
LEMMA ExecuteMoves ==
  ASSUME TInv, IInv,
         Validate \/ Normalize \/ Detect \/ RaiseAlerts \/ Verify
  PROVE  /\ MovesRow(tx)' /\ ~Locked(tx.id)' /\ tx'.id = claim.id
         /\ pc \in {"computed", "inspected"} /\ pc' = "executed"
         /\ UNCHANGED <<tables, orphans, claim>>
  <1> DEFINE i == claim.id
  <1>1. /\ ReadsDone /\ pc \in {"computed", "inspected"} /\ pc' = "executed" /\ pc \in Busy
        /\ ~Locked(i) /\ StatementsSucceed
        /\ UNCHANGED <<tables, orphans, claim>>
    BY DEF Validate, Normalize, Detect, RaiseAlerts, Verify, Execute, ReadsDone, Busy
  <1>2. /\ i \in Ids /\ status[i] = claim.status /\ work.event \in Events
        /\ ClaimCurrent /\ RowOf(i)
        /\ claim.status # "alerted" => WorkCurrent
        /\ claim.status = "alerted" => InspectionCurrent
    BY <1>1 DEF TInv, HeldTyped, IInv, StatementsSucceed, Advanceable, ReadsDone
  <1>3. tx'.id = i
    BY DEF Validate, Normalize, Detect, RaiseAlerts, Verify, Pending
  <1>4. ~Locked(tx.id)'
    BY <1>1, <1>3 DEF Locked
  <1>5. Moves(status[i], digest[i], held[i], outcome[i], normal[i], results[i], alerts[i], tx')
    <2>1. CASE Validate
      BY <1>2, <2>1 DEF Validate, Execute, Pending, Moves, NewOutcome, ClaimCurrent, WorkCurrent
    <2>2. CASE Normalize
      BY <1>2, <2>2 DEF Normalize, Execute, Pending, Moves, ClaimCurrent, WorkCurrent
    <2>3. CASE Detect
      <3>1. results[i] = NoResults
        BY <1>2, <2>3 DEF Detect, Execute, RowOf, Row, FromEvaluated
      <3>2. UpsertAll(results[i], NewResults, work.defs) = ResultsOf(normal[i], work.defs)
        BY <1>2, <2>3, <3>1, UpsertOverNone DEF Detect, Execute, NewResults, WorkCurrent
      <3> QED
        BY <1>2, <2>3, <3>2 DEF Detect, Execute, Pending, Moves, WorkCurrent
    <2>4. CASE RaiseAlerts
      <3>1. alerts[i] = NoAlerts
        BY <1>2, <2>4 DEF RaiseAlerts, Execute, RowOf, Row, FromAlerted
      <3>2. UpsertAll(alerts[i], NewAlerts, work.defs) = AlertsOf(normal[i], MatchedIn(results[i]))
        BY <1>2, <2>4, <3>1, UpsertOverNone DEF RaiseAlerts, Execute, NewAlerts, WorkCurrent
      <3> QED
        BY <1>2, <2>4, <3>2 DEF RaiseAlerts, Execute, Pending, Moves
    <2>5. CASE Verify
      <3>1. MatchedIn(results[i]) # {} => digest[i] \in held[i]
        BY <1>2, <2>5 DEF Verify, Execute, InspectionCurrent
      <3> QED
        BY <1>2, <2>5, <3>1 DEF Verify, Execute, Pending, Moves
    <2> QED
      BY <2>1, <2>2, <2>3, <2>4, <2>5
  <1>6. MovesRow(tx)'
    BY <1>1, <1>3, <1>5 DEF MovesRow, tables
  <1> QED
    BY <1>1, <1>3, <1>4, <1>6

-----------------------------------------------------------------------------
(* The invariant is inductive. *)

\* Nothing is recorded, claimed or in progress when the platform first starts.
LEMMA InitInvariant == Init => IInv
  <1> SUFFICES ASSUME Init PROVE IInv
    OBVIOUS
  <1>1. ASSUME NEW i \in Ids PROVE RowOf(i)
    BY DEF Init, RowOf, Row, FromValidated, FromNormalized, FromEvaluated, FromAlerted
  <1> QED
    BY <1>1 DEF Init, IInv, Busy

\* A commit of a transaction that moves its row, while no orphan that stays
\* holds the same row, keeps the rows and the orphans in order.
LEMMA ApplyInvariant ==
  ASSUME TInv, IInv, NEW t \in Transactions, Apply(t), MovesRow(t),
         orphans' \subseteq orphans, \A o \in orphans' : o.id # t.id
  PROVE  /\ \A i \in Ids : RowOf(i)'
         /\ \A o \in orphans' : MovesRow(o)'
         /\ \A o, p \in orphans' : o.id = p.id => o = p
  <1>1. t.id \in Ids /\ \A o \in orphans : o.id \in Ids
    BY DEF TInv, TypeOK, Transactions
  <1>2. ASSUME NEW i \in Ids PROVE RowOf(i)'
    <2>1. CASE i = t.id
      <3>1. /\ RowOf(i) /\ status[i] \in Statuses
            /\ held[i] \subseteq Events
        BY DEF IInv, TInv, TypeOK
      <3>2. Row(t.to, raw[i], digest[i], {raw[i]}, t.outcome, t.normal, t.results, t.alerts)
        BY <2>1, <3>1, MovePreservesRow DEF RowOf, MovesRow
      <3> QED
        BY <1>1, <2>1, <3>2, ApplyRows DEF RowOf
    <2>2. CASE i # t.id
      BY <2>2, ApplyRows DEF RowOf, IInv
    <2> QED
      BY <2>1, <2>2
  <1>3. ASSUME NEW o \in orphans' PROVE MovesRow(o)'
    <2>1. o.id \in Ids \ {t.id} /\ MovesRow(o)
      BY <1>1 DEF IInv
    <2> QED
      BY <2>1, ApplyRows DEF MovesRow
  <1>4. \A o, p \in orphans' : o.id = p.id => o = p
    BY DEF IInv
  <1> QED
    BY <1>2, <1>3, <1>4

\* Going back to the claim, with the tables as they were, keeps the invariant.
LEMMA LoopInvariant ==
  ASSUME IInv, UNCHANGED tables, pc' \in {"idle", "down"}, orphans' \subseteq orphans
  PROVE  IInv'
  <1>1. \A i \in Ids : RowOf(i)'
    BY DEF IInv, RowOf, tables
  <1>2. \A o \in orphans' : MovesRow(o)'
    BY DEF IInv, MovesRow, tables
  <1> QED
    BY <1>1, <1>2 DEF IInv, Busy

\* What the worker read for the stage it is in stays true when an orphan of an
\* earlier process commits: a move keeps every artifact already recorded.
LEMMA OrphanKeepsReads ==
  ASSUME TInv, IInv, NEW o \in orphans, OrphanCommits(o)
  PROVE  /\ pc \in Busy => ClaimCurrent'
         /\ pc = "computed" => WorkCurrent'
         /\ pc = "inspected" => InspectionCurrent'
  <1> DEFINE i == claim.id
  <1>1. /\ o \in Transactions /\ Apply(o) /\ MovesRow(o)
        /\ UNCHANGED <<pc, cur, claim, work, tx>>
    BY DEF OrphanCommits, TInv, TypeOK, IInv, worker
  <1>2. ASSUME pc \in Busy
        PROVE  /\ raw' = raw /\ digest' = digest
               /\ status[i] \in FromValidated  => status'[i] \in FromValidated /\ outcome'[i] = outcome[i]
               /\ status[i] \in FromNormalized => status'[i] \in FromNormalized /\ normal'[i] = normal[i]
               /\ status[i] \in FromEvaluated  => status'[i] \in FromEvaluated /\ results'[i] = results[i]
               /\ status[i] \in FromAlerted    => status'[i] \in FromAlerted
               /\ \/ status'[i] = status[i] /\ held'[i] = held[i]
                  \/ <<status[i], status'[i]>> \in
                       {<<"admitted", "validated">>, <<"validated", "normalized">>,
                        <<"normalized", "evaluated">>, <<"evaluated", "alerted">>,
                        <<"alerted", "evidenced">>}
    <2>1. i \in Ids
      BY <1>2 DEF TInv, HeldTyped
    <2>2. CASE i = o.id
      <3>1. <<status[i], status'[i]>> \in
              {<<"admitted", "validated">>, <<"validated", "normalized">>,
               <<"normalized", "evaluated">>, <<"evaluated", "alerted">>,
               <<"alerted", "evidenced">>}
        BY <1>1, <2>2, ApplyRows DEF MovesRow, Moves
      <3> QED
        BY <1>1, <2>2, <3>1, MoveKeepsArtifacts, ApplyRows DEF MovesRow
    <2>3. CASE i # o.id
      BY <1>1, <2>1, <2>3, ApplyRows
    <2> QED
      BY <2>2, <2>3
  <1>3. ASSUME pc \in Busy PROVE ClaimCurrent'
    <2>1. ClaimCurrent /\ claim' = claim /\ status[i] # "absent" /\ claim.status \in Claimable
      BY <1>1, <1>3 DEF IInv, TInv, HeldTyped
    <2>2. status'[i] = claim.status => status'[i] = status[i] /\ held'[i] = held[i]
      BY <1>2, <1>3, <2>1
      DEF ClaimCurrent, Claimable, FromValidated, FromNormalized, FromEvaluated, FromAlerted
    <2> QED
      BY <1>2, <1>3, <2>1, <2>2 DEF ClaimCurrent, FromValidated
  <1>4. ASSUME pc = "computed" PROVE WorkCurrent'
    <2>1. pc \in Busy /\ ClaimCurrent /\ WorkCurrent
      BY <1>4 DEF IInv, Busy
    <2> QED
      BY <1>1, <1>2, <2>1 DEF ClaimCurrent, WorkCurrent, FromNormalized, FromEvaluated
  <1>5. ASSUME pc = "inspected" PROVE InspectionCurrent'
    <2>1. pc \in Busy /\ ClaimCurrent /\ InspectionCurrent
      BY <1>5 DEF IInv, Busy
    <2> QED
      BY <1>1, <1>2, <2>1 DEF ClaimCurrent, InspectionCurrent, FromAlerted, FromEvaluated
  <1> QED
    BY <1>3, <1>4, <1>5

\* Every step keeps the invariant.
LEMMA NextInvariant == TInv /\ IInv /\ [Next]_vars => IInv'
  <1> SUFFICES ASSUME TInv, IInv, [Next]_vars PROVE IInv'
    OBVIOUS
  <1>1. ASSUME NEW i \in Ids, NEW e \in Events, Admit(i, e) PROVE IInv'
    <2>1. /\ status[i] = "absent" /\ status' = [status EXCEPT ![i] = "admitted"]
          /\ raw' = [raw EXCEPT ![i] = e] /\ digest' = [digest EXCEPT ![i] = e]
          /\ held' = [held EXCEPT ![i] = {e}] /\ held \in [Ids -> SUBSET Events]
          /\ UNCHANGED <<outcome, normal, results, alerts, pc, cur, claim, work, tx, orphans>>
          /\ status \in [Ids -> Statuses] /\ raw \in [Ids -> Columns]
          /\ digest \in [Ids -> Columns] /\ e \in Events
      BY <1>1 DEF Admit, worker, TInv, TypeOK
    <2>2. ASSUME NEW j \in Ids PROVE RowOf(j)'
      <3>1. CASE j = i
        <4>1. RowOf(i) /\ e # NoEvent
          BY <2>1, DataAssumption DEF IInv
        <4> QED
          BY <2>1, <3>1, <4>1
          DEF RowOf, Row, FromValidated, FromNormalized, FromEvaluated, FromAlerted
      <3>2. CASE j # i
        BY <2>1, <3>2 DEF RowOf, IInv
      <3> QED
        BY <3>1, <3>2
    <2>3. ASSUME NEW t, t.id \in Ids, MovesRow(t) PROVE MovesRow(t)'
      <3>1. t.id # i
        BY <2>1, <2>3 DEF MovesRow, Moves
      <3> QED
        BY <2>1, <2>3, <3>1 DEF MovesRow
    <2>4. ASSUME NEW o \in orphans' PROVE MovesRow(o)'
      <3>1. o \in orphans /\ o.id \in Ids /\ MovesRow(o)
        BY <2>1 DEF IInv, TInv, TypeOK, Transactions
      <3> QED
        BY <2>3, <3>1
    <2>5. pc' \in Busy => claim.id \in Ids /\ claim.id # i /\ ClaimCurrent
      BY <2>1 DEF TInv, HeldTyped, IInv
    <2>6. pc' \in Busy => ClaimCurrent'
      BY <2>1, <2>5 DEF ClaimCurrent
    <2>7. pc' = "computed" => WorkCurrent'
      BY <2>1, <2>5 DEF WorkCurrent, IInv, Busy
    <2>9. pc' = "inspected" => InspectionCurrent'
      BY <2>1, <2>5 DEF InspectionCurrent, IInv, Busy
    <2>8. pc' = "executed" => MovesRow(tx)' /\ ~Locked(tx.id)'
      <3> SUFFICES ASSUME pc' = "executed" PROVE MovesRow(tx)' /\ ~Locked(tx.id)'
        OBVIOUS
      <3>1. pc = "executed" /\ tx.id \in Ids /\ MovesRow(tx) /\ ~Locked(tx.id) /\ tx' = tx
        BY <2>1 DEF TInv, HeldTyped, TypeOK, IInv, Busy
      <3> QED
        BY <2>1, <2>3, <3>1 DEF MovesRow, Locked
    <2> QED
      BY <2>1, <2>2, <2>4, <2>6, <2>7, <2>8, <2>9 DEF IInv
  <1>2. ASSUME NEW i \in Ids, NEW e \in Events, Tamper(i, e) PROVE IInv'
    <2>1. /\ status[i] # "absent"
          /\ held' = [held EXCEPT ![i] = @ \cup {e}] /\ held \in [Ids -> SUBSET Events]
          /\ ~Locked(i) /\ tx.id # i
          /\ raw' = [raw EXCEPT ![i] = e]
          /\ UNCHANGED <<status, digest, outcome, normal, results, alerts, pc, cur, claim,
                         work, tx, orphans>>
          /\ raw \in [Ids -> Columns]
      BY <1>2 DEF Tamper, worker, TInv, TypeOK
    <2>2. ASSUME NEW j \in Ids PROVE RowOf(j)'
      <3>1. CASE j = i
        BY <2>1, <3>1 DEF RowOf, Row, IInv
      <3>2. CASE j # i
        BY <2>1, <3>2 DEF RowOf, IInv
      <3> QED
        BY <3>1, <3>2
    <2>3. ASSUME NEW t, t.id # i, MovesRow(t) PROVE MovesRow(t)'
      BY <2>1, <2>3 DEF MovesRow
    <2>4. ASSUME NEW o \in orphans' PROVE MovesRow(o)'
      BY <2>1, <2>3 DEF IInv, Locked
    <2>5. pc' \in Busy => ClaimCurrent'
      BY <2>1 DEF ClaimCurrent, IInv, TInv, HeldTyped
    <2>6. pc' = "computed" => WorkCurrent'
      BY <2>1 DEF WorkCurrent, IInv
    <2>7. pc' = "executed" => MovesRow(tx)' /\ ~Locked(tx.id)'
      BY <2>1 DEF IInv, Locked, MovesRow
    <2>8. pc' = "inspected" => InspectionCurrent'
      BY <2>1 DEF InspectionCurrent, IInv, TInv, HeldTyped, Busy
    <2> QED
      BY <2>1, <2>2, <2>4, <2>5, <2>6, <2>7, <2>8 DEF IInv
  <1>3. CASE Claim
    <2>1. PICK i \in Candidates : claim' = [id |-> i, status |-> status[i], raw |-> raw[i]]
      BY <1>3 DEF Claim
    <2>2. pc' = "claimed" /\ UNCHANGED <<tables, orphans>>
      BY <1>3 DEF Claim
    <2>3. /\ i \in Ids /\ RowOf(i) /\ status[i] # "absent"
          /\ status[i] = "validated" => outcome[i] = "valid"
      BY DEF Candidates, Eligible, IInv
    <2>5. /\ claim'.id = i /\ claim'.status = status[i] /\ claim'.raw = raw[i]
          /\ raw[i] \in held[i]
      BY <2>1, <2>3 DEF RowOf, Row
    <2>4. ClaimCurrent'
      BY <2>2, <2>3, <2>5
      DEF ClaimCurrent, tables, FromValidated, FromNormalized, FromEvaluated, FromAlerted
    <2> QED
      BY <2>2, <2>4 DEF IInv, RowOf, MovesRow, tables, Busy
  <1>4. CASE Prepare
    <2>1. /\ pc = "claimed" /\ InputsAvailable /\ work' = Inputs /\ pc' = "computed"
          /\ UNCHANGED <<tables, claim, orphans>> /\ ClaimCurrent
          /\ release \in Releases
      BY <1>4 DEF Prepare, IInv, Busy, TInv, TypeOK
    <2>2. ClaimCurrent'
      BY <2>1 DEF ClaimCurrent, tables
    <2>3. WorkCurrent'
      BY <2>1 DEF WorkCurrent, InputsAvailable, Inputs, tables
    <2> QED
      BY <2>1, <2>2, <2>3 DEF IInv, RowOf, MovesRow, tables, Busy
  <1>13. CASE Inspect
    <2>1. /\ pc = "computed" /\ claim.status = "alerted" /\ InventoryComplete(claim.id)
          /\ pc' = "inspected" /\ UNCHANGED <<tables, claim, orphans>>
          /\ ClaimCurrent /\ RowOf(claim.id) /\ status[claim.id] # "absent"
      BY <1>13 DEF Inspect, IInv, Busy, TInv, HeldTyped
    <2>2. ClaimCurrent'
      BY <2>1 DEF ClaimCurrent, tables
    <2>3. InspectionCurrent'
      BY <2>1 DEF InspectionCurrent, InventoryComplete, RowOf, Row, tables
    <2> QED
      BY <2>1, <2>2, <2>3 DEF IInv, RowOf, MovesRow, tables, Busy
  <1>5. CASE Validate \/ Normalize \/ Detect \/ RaiseAlerts \/ Verify
    <2>1. /\ MovesRow(tx)' /\ ~Locked(tx.id)' /\ pc \in {"computed", "inspected"} /\ pc' = "executed"
          /\ UNCHANGED <<tables, orphans, claim>>
      BY <1>5, ExecuteMoves
    <2>2. ClaimCurrent'
      BY <2>1 DEF IInv, ClaimCurrent, tables, Busy
    <2> QED
      BY <2>1, <2>2 DEF IInv, RowOf, MovesRow, tables
  <1>6. CASE NoneEligible \/ ClaimError \/ PrepareFails \/ InspectFails \/ StatementsFail
             \/ StageError
    BY <1>6, LoopInvariant
    DEF NoneEligible, ClaimError, PrepareFails, InspectFails, StatementsFail, StageError,
        AttemptFails, Loop
  <1>7. CASE Commit \/ CommitUnacknowledged
    <2>1. /\ pc = "executed" /\ Apply(tx) /\ pc' = "idle" /\ orphans' = orphans
      BY <1>7 DEF Commit, CommitUnacknowledged, AttemptSucceeds, AttemptFails, Loop
    <2>2. tx \in Transactions /\ MovesRow(tx) /\ \A o \in orphans : o.id # tx.id
      BY <2>1 DEF TInv, HeldTyped, IInv, Locked
    <2> QED
      BY <2>1, <2>2, ApplyInvariant DEF IInv, Busy
  <1>8. CASE Crash
    <2>1. /\ pc' = "down" /\ UNCHANGED tables
      BY <1>8 DEF Crash
    <2>2. CASE orphans' = orphans
      BY <2>1, <2>2, LoopInvariant
    <2>3. CASE pc = "executed" /\ orphans' = orphans \cup {tx}
      <3>1. MovesRow(tx) /\ ~Locked(tx.id)
        BY <2>3 DEF IInv
      <3>2. \A o \in orphans' : MovesRow(o)'
        BY <2>1, <2>3, <3>1 DEF IInv, MovesRow, tables
      <3>3. \A o, p \in orphans' : o.id = p.id => o = p
        BY <2>3, <3>1 DEF IInv, Locked
      <3> QED
        BY <2>1, <3>2, <3>3 DEF IInv, RowOf, tables, Busy
    <2> QED
      BY <1>8, <2>2, <2>3 DEF Crash
  <1>9. ASSUME NEW r \in Releases, Restart(r) PROVE IInv'
    BY <1>9, LoopInvariant DEF Restart, Loop
  <1>10. ASSUME NEW o \in orphans, OrphanCommits(o) PROVE IInv'
    <2>1. /\ Apply(o) /\ orphans' = orphans \ {o}
          /\ UNCHANGED <<pc, claim, work, tx>> /\ o \in Transactions /\ MovesRow(o)
          /\ \A p \in orphans' : p.id # o.id
      BY <1>10 DEF OrphanCommits, worker, IInv, TInv, TypeOK
    <2>2. /\ \A i \in Ids : RowOf(i)'
          /\ \A p \in orphans' : MovesRow(p)'
          /\ \A p, q \in orphans' : p.id = q.id => p = q
      BY <2>1, ApplyInvariant
    <2>3. pc' = "executed" => MovesRow(tx)' /\ ~Locked(tx.id)'
      <3> SUFFICES ASSUME pc' = "executed" PROVE MovesRow(tx)' /\ ~Locked(tx.id)'
        OBVIOUS
      <3>1. tx \in Transactions /\ MovesRow(tx) /\ ~Locked(tx.id)
        BY <2>1 DEF IInv, TInv, HeldTyped
      <3>2. tx.id \in Ids \ {o.id}
        BY <3>1 DEF Transactions, Locked
      <3> QED
        BY <2>1, <3>1, <3>2, ApplyRows DEF MovesRow, Locked
    <2> QED
      BY <1>10, <2>1, <2>2, <2>3, OrphanKeepsReads DEF IInv
  <1>11. ASSUME NEW o \in orphans, OrphanRollsBack(o) PROVE IInv'
    <2>1. UNCHANGED <<tables, pc, claim, work, tx>> /\ orphans' = orphans \ {o}
      BY <1>11 DEF OrphanRollsBack, worker
    <2> QED
      BY <2>1
      DEF IInv, RowOf, MovesRow, ClaimCurrent, WorkCurrent, InspectionCurrent, Locked, tables
  <1>12. CASE UNCHANGED vars
    BY <1>12
    DEF vars, worker, tables, IInv, RowOf, MovesRow, ClaimCurrent, WorkCurrent,
        InspectionCurrent, Locked
  <1> QED
    BY <1>1, <1>2, <1>3, <1>4, <1>5, <1>6, <1>7, <1>8, <1>9, <1>10, <1>11, <1>12,
       <1>13
    DEF Next, Attempt, Failure, Startup, OrphanEnds, Environment

\* The invariant holds throughout.
LEMMA SpecInvariant == Spec => [](TInv /\ IInv)
  BY InitTyped, NextTyped, InitInvariant, NextInvariant, PTL DEF Spec

-----------------------------------------------------------------------------
(* The safety properties. *)

\* Every stage's artifacts are recorded exactly when the status says the stage
\* is done: a stage is committed or it is not.
THEOREM ArtifactsMatchStatus == Spec => []StageArtifactsMatchStatus
  <1>1. TInv /\ IInv => StageArtifactsMatchStatus
    <2> SUFFICES ASSUME TInv, IInv, NEW i \in Ids
        PROVE  /\ outcome[i] # "none" <=> status[i] \in FromValidated
               /\ normal[i] # NoEvent <=> status[i] \in FromNormalized
               /\ results[i] # NoResults => status[i] \in FromEvaluated
               /\ status[i] \in FromAlerted =>
                    \A d \in Defs : alerts[i][d] # NoEvent <=> results[i][d] = "matched"
               /\ status[i] \notin FromAlerted => alerts[i] = NoAlerts
      BY DEF StageArtifactsMatchStatus
    <2>1. RowOf(i)
      BY DEF IInv
    <2>2. ASSUME status[i] \in FromAlerted, NEW d \in Defs
          PROVE  alerts[i][d] # NoEvent <=> results[i][d] = "matched"
      <3>1. alerts[i] = AlertsOf(normal[i], MatchedIn(results[i])) /\ normal[i] # NoEvent
        BY <2>1, <2>2 DEF RowOf, Row, FromAlerted, FromNormalized
      <3> QED
        BY <3>1 DEF AlertsOf, MatchedIn
    <2> QED
      BY <2>1, <2>2 DEF RowOf, Row
  <1> QED
    BY <1>1, SpecInvariant, PTL

\* The results of a submission are those of all definitions of one release.
THEOREM ResultsOfOneRelease == Spec => []OneReleaseEvaluated
  <1>1. TInv /\ IInv => OneReleaseEvaluated
    <2> SUFFICES ASSUME IInv, NEW i \in Ids, status[i] \in FromEvaluated
        PROVE  \E r \in Releases : \A d \in Defs : results[i][d] # "none" <=> d \in Active[r]
      BY DEF OneReleaseEvaluated
    <2>1. PICK r \in Releases : results[i] = ResultsOf(normal[i], Active[r])
      BY DEF IInv, RowOf, Row
    <2>2. \A d \in Defs : results[i][d] # "none" <=> d \in Active[r]
      BY <2>1 DEF ResultsOf
    <2> QED
      BY <2>2
  <1> QED
    BY <1>1, SpecInvariant, PTL

\* Nothing is derived from a submission that was not classified valid.
THEOREM NothingPastInvalid == Spec => []OnlyValidProceeds
  <1>1. IInv => OnlyValidProceeds
    BY DEF IInv, OnlyValidProceeds, RowOf, Row
  <1> QED
    BY <1>1, SpecInvariant, PTL

\* An unfinished transaction finds its row where its guard saw it, and no two
\* hold the same submission.
THEOREM TransactionsCurrent == Spec => []UnfinishedTransactionsCurrent
  <1>1. IInv => UnfinishedTransactionsCurrent
    <2> SUFFICES ASSUME IInv PROVE UnfinishedTransactionsCurrent
      OBVIOUS
    <2> DEFINE unfinished == orphans \cup (IF pc = "executed" THEN {tx} ELSE {})
    <2>1. ASSUME NEW t \in unfinished PROVE MovesRow(t)
      BY <2>1 DEF IInv
    <2>2. ASSUME NEW t \in unfinished
          PROVE  <<status[t.id], t.to>> \in
                   {<<"admitted", "validated">>, <<"validated", "normalized">>,
                    <<"normalized", "evaluated">>, <<"evaluated", "alerted">>,
                    <<"alerted", "evidenced">>}
      BY <2>1, <2>2 DEF MovesRow, Moves
    <2>3. ASSUME NEW t \in unfinished, NEW u \in unfinished, t.id = u.id PROVE t = u
      BY <2>3 DEF IInv, Locked
    <2> QED
      BY <2>2, <2>3 DEF UnfinishedTransactionsCurrent
  <1> QED
    BY <1>1, SpecInvariant, PTL

-----------------------------------------------------------------------------
(* What a step may never do. *)

\* A commit keeps the artifacts every row already has.
LEMMA ApplyKeepsArtifacts ==
  ASSUME TInv, IInv, NEW t \in Transactions, Apply(t), MovesRow(t), NEW i \in Ids
  PROVE  /\ outcome[i] # "none" => outcome'[i] = outcome[i]
         /\ normal[i] # NoEvent => normal'[i] = normal[i]
         /\ results[i] # NoResults => results'[i] = results[i]
         /\ alerts[i] # NoAlerts => alerts'[i] = alerts[i]
  <1>1. RowOf(i)
    BY DEF IInv
  <1>2. CASE i = t.id
    BY <1>1, <1>2, MoveKeepsArtifacts, ApplyRows DEF MovesRow, RowOf, Row
  <1>3. CASE i # t.id
    BY <1>3, ApplyRows
  <1> QED
    BY <1>2, <1>3

\* Every step either commits a transaction that moves its row, or admits or
\* tampers with a submission, or leaves the tables alone.
LEMMA TableSteps ==
  ASSUME TInv, IInv, [Next]_vars
  PROVE  \/ \E t \in Transactions : Apply(t) /\ MovesRow(t)
         \/ \E i \in Ids, e \in Events : Admit(i, e) \/ Tamper(i, e)
         \/ UNCHANGED tables
  <1>1. CASE Commit \/ CommitUnacknowledged
    <2>1. tx \in Transactions /\ Apply(tx) /\ MovesRow(tx)
      BY <1>1 DEF Commit, CommitUnacknowledged, TInv, HeldTyped, IInv
    <2> QED
      BY <2>1
  <1>2. ASSUME NEW o \in orphans, OrphanCommits(o)
        PROVE  \E t \in Transactions : Apply(t) /\ MovesRow(t)
    BY <1>2 DEF OrphanCommits, TInv, TypeOK, IInv
  <1>3. CASE Claim \/ NoneEligible \/ ClaimError \/ Prepare \/ PrepareFails \/ Inspect
             \/ InspectFails \/ StatementsFail \/ StageError \/ Crash
    BY <1>3
    DEF Claim, NoneEligible, ClaimError, Prepare, PrepareFails, Inspect, InspectFails,
        StatementsFail, StageError, Crash
  <1>4. CASE Validate \/ Normalize \/ Detect \/ RaiseAlerts \/ Verify
    BY <1>4 DEF Validate, Normalize, Detect, RaiseAlerts, Verify, Execute
  <1>5. ASSUME NEW r \in Releases, Restart(r) PROVE UNCHANGED tables
    BY <1>5 DEF Restart
  <1>6. ASSUME NEW o \in orphans, OrphanRollsBack(o) PROVE UNCHANGED tables
    BY <1>6 DEF OrphanRollsBack
  <1>7. CASE UNCHANGED vars
    BY <1>7 DEF vars
  <1> QED
    BY <1>1, <1>2, <1>3, <1>4, <1>5, <1>6, <1>7
    DEF Next, Attempt, Failure, Startup, OrphanEnds, Environment

\* A recorded artifact is never replaced or removed.
THEOREM ArtifactsNeverChange == Spec => ArtifactsImmutable
  <1> DEFINE Kept ==
        \A i \in Ids :
          /\ outcome[i] # "none" => outcome'[i] = outcome[i]
          /\ normal[i] # NoEvent => normal'[i] = normal[i]
          /\ results[i] # NoResults => results'[i] = results[i]
          /\ alerts[i] # NoAlerts => alerts'[i] = alerts[i]
  <1>1. ASSUME TInv, IInv, [Next]_vars PROVE Kept
    <2>1. CASE \E t \in Transactions : Apply(t) /\ MovesRow(t)
      BY <1>1, <2>1, ApplyKeepsArtifacts
    <2>2. CASE \E i \in Ids, e \in Events : Admit(i, e) \/ Tamper(i, e)
      BY <2>2 DEF Admit, Tamper
    <2>3. CASE UNCHANGED tables
      BY <2>3 DEF tables
    <2> QED
      BY <1>1, <2>1, <2>2, <2>3, TableSteps
  <1>2. TInv /\ IInv /\ [Next]_vars => [Kept]_vars
    BY <1>1
  <1> QED
    BY <1>2, SpecInvariant, PTL DEF Spec, ArtifactsImmutable

-----------------------------------------------------------------------------
(* One change of a raw event.  While there has been none, everything read  *)
(* from the row is the admitted event; after exactly one, the row no       *)
(* longer holds it, so a verification that passed had looked before, when  *)
(* the normalized event was long written.                                  *)

Once ==
  \A i \in Ids :
    /\ status[i] = "absent" => tampers[i] = 0
    /\ tampers[i] = 0 => held[i] \subseteq {digest[i]} /\ normal[i] \in {NoEvent, digest[i]}
    /\ tampers[i] = 1 => raw[i] # digest[i]

\* The evidence of submission i has passed its inspection: it is evidenced, the
\* worker has inspected it, or a transaction is about to say so.
Passed(i) ==
  \/ status[i] = "evidenced"
  \/ pc = "inspected" /\ claim.id = i
  \/ \E t \in orphans : t.id = i /\ t.to = "evidenced"
  \/ pc = "executed" /\ tx.id = i /\ tx.to = "evidenced"

Verified ==
  \A i \in Ids :
    Passed(i) /\ tampers[i] <= 1 /\ MatchedIn(results[i]) # {} => normal[i] = digest[i]

\* A submission whose evidence passed has all its artifacts.
LEMMA PassedHasArtifacts ==
  ASSUME TInv, IInv, NEW i \in Ids, Passed(i)
  PROVE  status[i] \in FromAlerted /\ normal[i] # NoEvent
  <1>1. status[i] \in FromAlerted
    <2>1. CASE status[i] = "evidenced"
      BY <2>1 DEF FromAlerted
    <2>2. CASE pc = "inspected" /\ claim.id = i
      BY <2>2 DEF IInv, ClaimCurrent, InspectionCurrent, Busy
    <2>3. ASSUME NEW t, MovesRow(t), t.id = i, t.to = "evidenced"
          PROVE  status[i] \in FromAlerted
      BY <2>3 DEF MovesRow, Moves, FromAlerted
    <2> QED
      BY <2>1, <2>2, <2>3 DEF Passed, IInv
  <1> QED
    BY <1>1 DEF IInv, RowOf, Row, FromAlerted, FromNormalized

\* Only an inspection of its complete evidence makes a submission pass.
LEMMA PassedByInspection ==
  ASSUME TInv, IInv, [Next]_vars, NEW i \in Ids, Passed(i)', ~Passed(i)
  PROVE  Inspect /\ claim.id = i
  <1>1. CASE Claim \/ NoneEligible \/ ClaimError \/ Prepare \/ PrepareFails
             \/ InspectFails \/ StatementsFail \/ StageError
    BY <1>1
    DEF Claim, NoneEligible, ClaimError, Prepare, PrepareFails, InspectFails, StatementsFail,
        StageError, AttemptFails, Loop, Passed, tables
  <1>2. CASE Inspect
    BY <1>2 DEF Inspect, Passed, tables
  <1>3. CASE Validate \/ Normalize \/ Detect \/ RaiseAlerts
    <2>1. /\ tx'.id = claim.id /\ tx'.to # "evidenced" /\ pc' = "executed"
          /\ UNCHANGED <<status, orphans>>
      BY <1>3 DEF Validate, Normalize, Detect, RaiseAlerts, Execute, Pending, tables
    <2> QED
      BY <2>1 DEF Passed
  <1>4. CASE Verify
    <2>1. /\ tx'.id = claim.id /\ pc = "inspected" /\ pc' = "executed"
          /\ UNCHANGED <<status, orphans>>
      BY <1>4 DEF Verify, Execute, ReadsDone, Pending, tables
    <2> QED
      BY <2>1 DEF Passed
  <1>5. CASE Commit \/ CommitUnacknowledged
    <2>1. /\ pc = "executed" /\ pc' = "idle" /\ orphans' = orphans
          /\ tx \in Transactions /\ Apply(tx)
      BY <1>5
      DEF Commit, CommitUnacknowledged, AttemptSucceeds, AttemptFails, Loop, TInv, HeldTyped,
          Busy
    <2> QED
      BY <2>1, ApplyRows DEF Passed
  <1>6. CASE Crash
    BY <1>6 DEF Crash, Passed, tables
  <1>7. ASSUME NEW r \in Releases, Restart(r) PROVE FALSE
    BY <1>7 DEF Restart, Loop, Passed, tables
  <1>8. ASSUME NEW o \in orphans, OrphanCommits(o) \/ OrphanRollsBack(o) PROVE FALSE
    <2>1. /\ orphans' \subseteq orphans /\ UNCHANGED <<pc, claim, tx>>
          /\ o \in Transactions
          /\ Apply(o) \/ status' = status
      BY <1>8 DEF OrphanCommits, OrphanRollsBack, TInv, TypeOK, worker, tables
    <2> QED
      BY <2>1, ApplyRows DEF Passed
  <1>9. ASSUME NEW j \in Ids, NEW e \in Events, Admit(j, e) \/ Tamper(j, e) PROVE FALSE
    <2>1. /\ UNCHANGED <<pc, claim, tx, orphans>>
          /\ status' = status \/ status' = [status EXCEPT ![j] = "admitted"]
          /\ status \in [Ids -> Statuses]
      BY <1>9 DEF Admit, Tamper, worker, TInv, TypeOK
    <2> QED
      BY <2>1 DEF Passed
  <1>10. CASE UNCHANGED vars
    BY <1>10 DEF vars, worker, tables, Passed
  <1> QED
    BY <1>1, <1>2, <1>3, <1>4, <1>5, <1>6, <1>7, <1>8, <1>9, <1>10
    DEF Next, Attempt, Failure, Startup, OrphanEnds, Environment

\* No step but a tampering counts as one.
LEMMA TampersCounted ==
  ASSUME [Next]_vars, ~ \E i \in Ids, e \in Events : Tamper(i, e)
  PROVE  tampers' = tampers
  BY DEF Next, Attempt, Failure, Startup, OrphanEnds, Environment, vars, bounds,
         Claim, NoneEligible, ClaimError, Prepare, PrepareFails, Inspect, InspectFails,
         StatementsFail, StageError, Crash, Validate, Normalize, Detect, RaiseAlerts, Verify,
         Execute, Commit, CommitUnacknowledged, Restart, OrphanCommits, OrphanRollsBack, Admit

\* Every step keeps both.
LEMMA NextOnce ==
  ASSUME TInv, IInv, Once, Verified, [Next]_vars
  PROVE  Once' /\ Verified'
  <1>1. CASE \E t \in Transactions : Apply(t) /\ MovesRow(t)
    <2>1. PICK t \in Transactions : Apply(t) /\ MovesRow(t)
      BY <1>1
    <2>2. tampers' = tampers
      <3>1. ASSUME NEW j \in Ids, NEW e \in Events, Tamper(j, e) PROVE FALSE
        BY <2>1, <3>1 DEF Tamper, Apply, MovesRow, Moves, TInv, TypeOK, Transactions
      <3> QED
        BY <3>1, TampersCounted
    <2>3. ASSUME NEW i \in Ids
          PROVE  /\ status'[i] = "absent" => tampers'[i] = 0
                 /\ tampers'[i] = 0 =>
                      held'[i] \subseteq {digest'[i]} /\ normal'[i] \in {NoEvent, digest'[i]}
                 /\ tampers'[i] = 1 => raw'[i] # digest'[i]
      <3>1. CASE i = t.id
        <4>1. RowOf(i) /\ status[i] # "absent" /\ raw[i] \in held[i]
          BY <2>1, <3>1 DEF IInv, RowOf, Row, MovesRow, Moves
        <4>2. t.to # "absent" /\ (t.normal = normal[i] \/ t.normal \in held[i])
          BY <2>1, <3>1 DEF MovesRow, Moves
        <4> QED
          BY <2>1, <2>2, <3>1, <4>1, <4>2, ApplyRows DEF Once
      <3>2. CASE i # t.id
        BY <2>1, <2>2, <3>2, ApplyRows DEF Once
      <3> QED
        BY <3>1, <3>2
    <2>4. ASSUME NEW i \in Ids, Passed(i)', tampers'[i] <= 1, MatchedIn(results'[i]) # {}
          PROVE  normal'[i] = digest'[i]
      <3>1. ~Inspect
        BY <2>1 DEF Inspect, tables, Apply, MovesRow, Moves, TInv, TypeOK, Transactions
      <3>2. Passed(i) /\ status[i] \in FromAlerted
        BY <2>4, <3>1, PassedByInspection, PassedHasArtifacts
      <3>3. /\ normal'[i] = normal[i] /\ results'[i] = results[i] /\ digest' = digest
        BY <2>1, <3>2, ApplyRows, MoveKeepsArtifacts
        DEF MovesRow, FromAlerted, FromEvaluated, FromNormalized
      <3> QED
        BY <2>2, <2>4, <3>2, <3>3 DEF Verified
    <2> QED
      BY <2>3, <2>4 DEF Once, Verified
  <1>2. ASSUME NEW j \in Ids, NEW e \in Events, Admit(j, e) PROVE Once' /\ Verified'
    <2>1. /\ status[j] = "absent" /\ status' = [status EXCEPT ![j] = "admitted"]
          /\ held' = [held EXCEPT ![j] = {e}] /\ digest' = [digest EXCEPT ![j] = e]
          /\ raw' = [raw EXCEPT ![j] = e] /\ UNCHANGED <<normal, results, tampers>>
          /\ status \in [Ids -> Statuses] /\ raw \in [Ids -> Columns]
          /\ digest \in [Ids -> Columns] /\ held \in [Ids -> SUBSET Events]
          /\ normal[j] = NoEvent /\ tampers[j] = 0
      BY <1>2
      DEF Admit, bounds, TInv, TypeOK, IInv, RowOf, Row, FromNormalized, Once
    <2>2. ASSUME NEW i \in Ids, Passed(i)' PROVE Passed(i) /\ i # j
      <3>1. ~Inspect
        BY <2>1 DEF Inspect, tables
      <3>2. Passed(i)
        BY <2>2, <3>1, PassedByInspection
      <3> QED
        BY <2>1, <3>2, PassedHasArtifacts DEF FromAlerted
    <2>3. Once'
      BY <2>1 DEF Once
    <2>4. Verified'
      BY <2>1, <2>2 DEF Verified
    <2> QED
      BY <2>3, <2>4
  <1>3. ASSUME NEW j \in Ids, NEW e \in Events, Tamper(j, e) PROVE Once' /\ Verified'
    <2>1. /\ status[j] # "absent" /\ e # raw[j]
          /\ raw' = [raw EXCEPT ![j] = e] /\ held' = [held EXCEPT ![j] = @ \cup {e}]
          /\ tampers' = [tampers EXCEPT ![j] = @ + 1]
          /\ UNCHANGED <<status, digest, normal, results>>
          /\ raw \in [Ids -> Columns] /\ held \in [Ids -> SUBSET Events]
          /\ tampers \in [Ids -> Nat]
      BY <1>3 DEF Tamper, TInv, TypeOK
    <2>2. raw[j] \in held[j]
      BY <2>1 DEF IInv, RowOf, Row
    <2>3. \A i \in Ids : Passed(i)' => Passed(i)
      <3>1. ~Inspect
        BY <2>1 DEF Inspect, bounds, TInv, TypeOK
      <3> QED
        BY <3>1, PassedByInspection
    <2>4. Once'
      <3>1. tampers[j] = 0 => raw[j] = digest[j]
        BY <2>2 DEF Once
      <3>2. tampers'[j] = tampers[j] + 1 /\ tampers[j] \in Nat
        BY <2>1
      <3>3. tampers'[j] # 0 /\ (tampers'[j] = 1 => raw'[j] # digest'[j])
        BY <2>1, <3>1, <3>2
      <3> QED
        BY <2>1, <3>3 DEF Once
    <2>5. ASSUME NEW i \in Ids, tampers'[i] <= 1 PROVE tampers[i] <= 1
      BY <2>1, <2>5
    <2> QED
      BY <2>1, <2>3, <2>4, <2>5 DEF Verified
  <1>4. ASSUME UNCHANGED tables, ~ \E i \in Ids, e \in Events : Tamper(i, e)
        PROVE  Once' /\ Verified'
    <2>1. UNCHANGED <<status, raw, digest, normal, results, held, tampers>>
      BY <1>4, TampersCounted DEF tables
    <2>2. ASSUME NEW i \in Ids, Passed(i)', tampers[i] <= 1, MatchedIn(results[i]) # {}
          PROVE  normal[i] = digest[i]
      <3>1. CASE Passed(i)
        BY <2>2, <3>1 DEF Verified
      <3>2. CASE ~Passed(i)
        <4>1. InventoryComplete(i)
          BY <2>2, <3>2, PassedByInspection DEF Inspect
        <4>2. normal[i] # NoEvent /\ raw[i] = digest[i]
          BY <2>2, <4>1 DEF InventoryComplete
        <4>3. tampers[i] = 0
          <5>1. tampers[i] \in Nat /\ tampers[i] # 1
            BY <4>2 DEF Once, TInv, TypeOK
          <5> QED
            BY <2>2, <5>1
        <4> QED
          BY <4>2, <4>3 DEF Once
      <3> QED
        BY <3>1, <3>2
    <2> QED
      BY <2>1, <2>2 DEF Once, Verified
  <1> QED
    BY <1>1, <1>2, <1>3, <1>4, TableSteps

\* A single change of a raw event, whenever it comes, cannot bring an alert of
\* another event past the verification of its evidence.
THEOREM EvidenceExposesTampering == Spec => []OneChangeIsExposed
  <1>1. TInv /\ IInv /\ Verified => OneChangeIsExposed
    <2> SUFFICES ASSUME IInv, Verified, NEW i \in Ids, status[i] = "evidenced",
                        tampers[i] <= 1, NEW d \in Defs
                 PROVE  alerts[i][d] \in {NoEvent, digest[i]}
      BY DEF OneChangeIsExposed
    <2>1. alerts[i] = AlertsOf(normal[i], MatchedIn(results[i]))
      BY DEF IInv, RowOf, Row, FromAlerted
    <2>2. d \in MatchedIn(results[i]) => normal[i] = digest[i]
      BY DEF Verified, Passed
    <2> QED
      BY <2>1, <2>2 DEF AlertsOf
  <1>2. Init => Once /\ Verified
    BY DEF Init, Once, Verified, Passed
  <1>3. Spec => [](Once /\ Verified)
    BY <1>2, NextOnce, SpecInvariant, PTL DEF Spec
  <1> QED
    BY <1>1, <1>3, SpecInvariant, PTL

-----------------------------------------------------------------------------
(* Refinement. *)

\* Both specifications are over the same data: the abstract one's operators are
\* those of PipelineData.
LEMMA SameData ==
  /\ Abstract!Ids = Ids
  /\ Abstract!NoResults = NoResults /\ Abstract!NoAlerts = NoAlerts
  /\ \A e, D : Abstract!ResultsOf(e, D) = ResultsOf(e, D)
  /\ \A e, D : Abstract!AlertsOf(e, D) = AlertsOf(e, D)
  /\ \A r : Abstract!MatchedIn(r) = MatchedIn(r)
  BY DEF Abstract!Ids, Ids, Abstract!NoResults, NoResults, Abstract!NoAlerts, NoAlerts,
         Abstract!ResultsOf, ResultsOf, Abstract!AlertsOf, AlertsOf,
         Abstract!MatchedIn, MatchedIn

\* A commit of a transaction that moves its row is one of the abstract stages.
LEMMA ApplyRefines ==
  ASSUME TInv, IInv, NEW t \in Transactions, Apply(t), MovesRow(t)
  PROVE  Abstract!Next
  <1> DEFINE i == t.id
  <1>1. /\ i \in Ids /\ status' = [status EXCEPT ![i] = t.to]
        /\ outcome' = [outcome EXCEPT ![i] = t.outcome]
        /\ normal' = [normal EXCEPT ![i] = t.normal]
        /\ results' = [results EXCEPT ![i] = t.results]
        /\ alerts' = [alerts EXCEPT ![i] = t.alerts]
        /\ raw' = raw /\ digest' = digest /\ held' = [held EXCEPT ![i] = {raw[i]}]
        /\ outcome \in [Ids -> Outcomes \cup {"none"}] /\ normal \in [Ids -> Columns]
        /\ results \in [Ids -> Results] /\ alerts \in [Ids -> Alerts]
    BY DEF Apply, TInv, TypeOK, Transactions
  <1>2. /\ t.outcome = outcome[i] => outcome' = outcome
        /\ t.normal = normal[i] => normal' = normal
        /\ t.results = results[i] => results' = results
        /\ t.alerts = alerts[i] => alerts' = alerts
    BY <1>1
  <1> USE DEF MovesRow, Moves, Abstract!Move
  <1>3. CASE status[i] = "admitted"
    <2>1. Abstract!Validate(i)
      BY <1>1, <1>2, <1>3 DEF Abstract!Validate
    <2> QED
      BY <1>1, <2>1, SameData DEF Abstract!Next
  <1>4. CASE status[i] = "validated"
    <2>1. Abstract!Normalize(i)
      BY <1>1, <1>2, <1>4 DEF Abstract!Normalize
    <2> QED
      BY <1>1, <2>1, SameData DEF Abstract!Next
  <1>5. CASE status[i] = "normalized"
    <2>1. Abstract!Evaluate(i)
      BY <1>1, <1>2, <1>5, SameData DEF Abstract!Evaluate
    <2> QED
      BY <1>1, <2>1, SameData DEF Abstract!Next
  <1>6. CASE status[i] = "evaluated"
    <2>1. Abstract!RaiseAlerts(i)
      BY <1>1, <1>2, <1>6, SameData DEF Abstract!RaiseAlerts
    <2> QED
      BY <1>1, <2>1, SameData DEF Abstract!Next
  <1>7. CASE status[i] = "alerted"
    <2>1. Abstract!Verify(i)
      BY <1>1, <1>2, <1>7, SameData DEF Abstract!Verify
    <2> QED
      BY <1>1, <2>1, SameData DEF Abstract!Next
  <1> QED
    BY <1>3, <1>4, <1>5, <1>6, <1>7

\* The worker, its transactions and everything that may go wrong around them
\* implement the five stages that move a submission in one step each.
THEOREM PipelineRefinesStages == Spec => ImplementsAbstract
  <1>1. Init => Abstract!Init
    BY SameData DEF Init, Abstract!Init
  <1>2. TInv /\ IInv /\ [Next]_vars => [Abstract!Next]_(Abstract!vars)
    <2> SUFFICES ASSUME TInv, IInv, [Next]_vars PROVE [Abstract!Next]_(Abstract!vars)
      OBVIOUS
    <2>1. CASE \E t \in Transactions : Apply(t) /\ MovesRow(t)
      BY <2>1, ApplyRefines
    <2>2. CASE \E i \in Ids, e \in Events : Admit(i, e) \/ Tamper(i, e)
      <3>1. PICK i \in Ids, e \in Events : Admit(i, e) \/ Tamper(i, e)
        BY <2>2
      <3>2. Abstract!Admit(i, e) \/ Abstract!Tamper(i, e)
        BY <3>1 DEF Admit, Tamper, Abstract!Admit, Abstract!Tamper
      <3> QED
        BY <3>2, SameData DEF Abstract!Next
    <2>3. CASE UNCHANGED tables
      BY <2>3 DEF tables, Abstract!vars
    <2> QED
      BY <2>1, <2>2, <2>3, TableSteps
  <1> QED
    BY <1>1, <1>2, SpecInvariant, PTL DEF Spec, ImplementsAbstract, Abstract!Spec

-----------------------------------------------------------------------------
(* The retry rule: what is still owed lies ahead of the worker, since a    *)
(* claim takes the next eligible submission after the cursor and every way *)
(* out of an attempt inside a sweep leaves the cursor at that attempt.     *)

\* The last submission the sweep has come to.
Reached == IF pc \in Busy THEN claim.id ELSE cur

\* An attempt is made past the cursor, and a process that is down has none.
CursorBehind == (pc \in Busy => claim.id > cur) /\ (pc = "down" => cur = 0)

\* What is owed since submission i failed is eligible and ahead, and the
\* cursor has not fallen behind i.
DebtsAhead ==
  \A i \in Ids : \A j \in owed[i] : j \in Ids /\ Eligible(j) /\ j > Reached /\ i <= cur

SweepInv == CursorBehind /\ DebtsAhead

\* The sweep specification is the pipeline's, observed.
LEMMA SweepIsPipeline == SweepSpec => Spec
  <1>1. SweepInit => Init
    BY DEF SweepInit
  <1>2. [SweepNext]_sweepVars => [Next]_vars
    BY DEF SweepNext, sweepVars
  <1> QED
    BY <1>1, <1>2, PTL DEF SweepSpec, Spec

\* Nothing is owed before the first attempt.
LEMMA InitSweep == SweepInit => SweepInv
  BY DEF SweepInit, Init, SweepInv, CursorBehind, DebtsAhead, Busy

\* After a failed attempt the sweep stands at the submission that failed.
LEMMA FailedMoves ==
  ASSUME NEW i, Failed(i)
  PROVE  pc \in Busy /\ pc' = "idle" /\ claim.id = i /\ cur' = i
  BY DEF Failed, PrepareFails, InspectFails, StatementsFail, StageError,
         CommitUnacknowledged, ReadsDone, AttemptFails, Loop, Busy

\* What a step does to the worker: it claims the next candidate, ends an
\* attempt inside a sweep or by opening one, leaves claim and cursor alone, or
\* leaves the cursor nil because it is lost, nil or at the end.
EndsInSweep == pc \in Busy /\ pc' = "idle" /\ cur' = claim.id
Stays ==
  /\ cur' = cur /\ claim'.id = claim.id
  /\ pc' \in Busy <=> pc \in Busy
  /\ pc' = "down" <=> pc = "down"
Resets ==
  /\ pc' \notin Busy /\ cur' = 0
  /\ \/ CursorLost
     \/ cur = 0
     \/ pc = "idle" /\ Candidates = {}
WorkerMoves == Claim \/ EndsInSweep \/ Stays \/ Resets

\* Every step of the pipeline is one of these.
LEMMA NextMoves == TInv /\ CursorBehind /\ [Next]_vars => WorkerMoves
  <1> SUFFICES ASSUME TInv, CursorBehind, [Next]_vars PROVE WorkerMoves
    OBVIOUS
  <1> USE DEF WorkerMoves
  <1>1. CASE UNCHANGED vars \/ OrphanEnds \/ Environment
    <2>1. cur' = cur /\ claim' = claim /\ pc' = pc
      BY <1>1 DEF vars, worker, OrphanEnds, OrphanCommits, OrphanRollsBack, Environment, Admit,
                  Tamper
    <2> QED
      BY <2>1 DEF Stays
  <1>2. CASE Claim
    BY <1>2
  <1>3. CASE NoneEligible
    <2>1. pc = "idle" /\ Candidates = {} /\ pc' = "idle" /\ cur' = 0
      BY <1>3 DEF NoneEligible, Loop
    <2> QED
      BY <2>1 DEF Resets, Busy
  <1>4. CASE Prepare \/ Inspect \/ Validate \/ Normalize \/ Detect \/ RaiseAlerts \/ Verify
    <2>1. cur' = cur /\ claim' = claim /\ pc \in Busy /\ pc' \in Busy
      BY <1>4
      DEF Prepare, Inspect, Validate, Normalize, Detect, RaiseAlerts, Verify, Execute, ReadsDone,
          Busy
    <2> QED
      BY <2>1 DEF Stays, Busy
  <1>5. CASE PrepareFails \/ InspectFails \/ StatementsFail \/ StageError \/ CommitUnacknowledged
    <2>1. Failed(claim.id)
      BY <1>5 DEF Failed
    <2> QED
      BY <2>1, FailedMoves DEF EndsInSweep
  <1>6. CASE Commit
    <2>1. pc = "executed" /\ pc' = "idle" /\ cur' = IF cur # 0 THEN claim.id ELSE 0
      BY <1>6 DEF Commit, AttemptSucceeds, Loop
    <2> QED
      BY <2>1 DEF EndsInSweep, Resets, Busy
  <1>7. CASE ClaimError \/ Crash
    <2>1. CursorLost
      BY <1>7 DEF CursorLost
    <2>2. pc' \in {"idle", "down"} /\ cur' = 0
      BY <1>7 DEF ClaimError, Crash, Loop
    <2> QED
      BY <2>1, <2>2 DEF Resets, Busy
  <1>8. CASE Startup
    <2>1. pc = "down" /\ pc' = "idle" /\ cur' = 0
      BY <1>8 DEF Startup, Restart, Loop
    <2> QED
      BY <2>1 DEF Resets, CursorBehind, Busy
  <1> QED
    BY <1>1, <1>2, <1>3, <1>4, <1>5, <1>6, <1>7, <1>8 DEF Next, Attempt, Failure

\* Each of them keeps the debts ahead of the worker.
LEMMA StepSweep == TInv /\ TInv' /\ SweepInv /\ [SweepNext]_sweepVars => SweepInv'
  <1> SUFFICES ASSUME TInv, TInv', SweepInv, [SweepNext]_sweepVars PROVE SweepInv'
    OBVIOUS
  <1> USE DEF SweepInv
  <1>1. CASE UNCHANGED sweepVars
    BY <1>1 DEF sweepVars, vars, worker, tables, CursorBehind, DebtsAhead, Reached, Eligible
  <1>2. CASE SweepNext
    <2>1. WorkerMoves
      BY <1>2, NextMoves DEF SweepNext
    <2>2. cur \in Nat /\ cur' \in Nat /\ (pc \in Busy => claim.id \in Ids)
      BY DEF TInv, TypeOK, HeldTyped
    <2>3. CASE Claim
      <3>1. PICK c \in Candidates :
              (\A j \in Candidates : c <= j) /\ claim' = [id |-> c, status |-> status[c], raw |-> raw[c]]
        BY <2>3 DEF Claim
      <3>2. pc = "idle" /\ pc' = "claimed" /\ cur' = cur /\ claim'.id = c
        BY <2>3, <3>1 DEF Claim
      <3>3. c \in Ids /\ c > cur
        BY <3>1 DEF Candidates
      <3>4. CursorBehind'
        BY <3>2, <3>3 DEF CursorBehind, Busy
      <3>5. Claimed(c)
        BY <2>3, <3>2 DEF Claimed
      <3>6. ASSUME NEW i \in Ids, NEW j \in owed'[i]
            PROVE  j \in Ids /\ Eligible(j)' /\ j > Reached' /\ i <= cur'
        <4>1. ~Failed(i)
          BY <3>2, FailedMoves DEF Busy
        <4>2. j \in owed[i] /\ Eligible(j)' /\ ~Claimed(j)
          BY <1>2, <3>6, <4>1 DEF SweepNext, Account
        <4>3. j \in Candidates /\ i <= cur
          BY <3>2, <4>2 DEF DebtsAhead, Candidates, Reached, Busy
        <4>4. c <= j /\ c # j /\ c \in Nat /\ j \in Nat
          BY <3>1, <3>3, <3>5, <4>2, <4>3 DEF Candidates, Ids
        <4> QED
          BY <3>2, <4>2, <4>3, <4>4 DEF Reached, Busy, Candidates
      <3> QED
        BY <3>4, <3>6 DEF DebtsAhead
    <2>4. CASE EndsInSweep
      <3> USE <2>4 DEF EndsInSweep
      <3>1. ASSUME NEW i \in Ids, NEW j \in owed'[i]
            PROVE  j \in Ids /\ Eligible(j)' /\ j > Reached' /\ i <= cur'
        <4>1. Eligible(j)' /\ j \in IF Failed(i) THEN {k \in Ids : k > i /\ Eligible(k)} ELSE owed[i]
          BY <1>2, <3>1 DEF SweepNext, Account
        <4>2. CASE Failed(i)
          BY <2>2, <2>4, <4>1, <4>2, FailedMoves DEF Reached, Busy, Ids
        <4>3. CASE ~Failed(i)
          <5>1. j \in Ids /\ j > claim.id /\ i <= cur /\ cur < claim.id
            BY <2>4, <4>1, <4>3 DEF DebtsAhead, Reached, CursorBehind
          <5> QED
            BY <2>2, <2>4, <4>1, <5>1 DEF Reached, Busy, Ids
        <4> QED
          BY <4>2, <4>3
      <3> QED
        BY <2>4, <3>1 DEF CursorBehind, DebtsAhead, Busy
    <2>5. CASE Stays
      <3> USE <2>5 DEF Stays
      <3>1. ASSUME NEW i \in Ids, NEW j \in owed'[i]
            PROVE  j \in Ids /\ Eligible(j)' /\ j > Reached' /\ i <= cur'
        <4>1. ~Failed(i)
          BY <2>5, FailedMoves DEF Busy
        <4>2. j \in owed[i] /\ Eligible(j)'
          BY <1>2, <3>1, <4>1 DEF SweepNext, Account
        <4> QED
          BY <2>5, <4>2 DEF DebtsAhead, Reached
      <3> QED
        BY <2>5, <3>1 DEF CursorBehind, DebtsAhead
    <2>6. CASE Resets
      <3> USE <2>6 DEF Resets
      <3>1. ASSUME NEW i \in Ids PROVE owed'[i] = {}
        <4>1. ~Failed(i)
          BY <2>6, FailedMoves DEF Ids
        <4>2. CASE CursorLost
          BY <1>2, <4>2 DEF SweepNext, Account
        <4>3. owed'[i] \subseteq owed[i]
          BY <1>2, <4>1 DEF SweepNext, Account
        <4>4. CASE cur = 0
          BY <4>3, <4>4 DEF DebtsAhead, Ids
        <4>5. CASE pc = "idle" /\ Candidates = {}
          BY <4>3, <4>5 DEF DebtsAhead, Candidates, Reached, Busy
        <4> QED
          BY <2>6, <4>2, <4>4, <4>5
      <3> QED
        BY <2>6, <3>1 DEF CursorBehind, DebtsAhead
    <2> QED
      BY <2>1, <2>3, <2>4, <2>5, <2>6 DEF WorkerMoves
  <1> QED
    BY <1>1, <1>2

\* A failed submission is not attempted again before each later one that was
\* eligible behind it has had its attempt.
THEOREM LaterOnesGoFirst == SweepSpec => []LaterOnesFirst
  <1>1. TInv /\ SweepInv => LaterOnesFirst
    <2> SUFFICES ASSUME TInv, SweepInv, NEW i \in Ids, pc = "claimed", claim.id = i,
                        NEW j \in owed[i]
                 PROVE  FALSE
      BY DEF LaterOnesFirst
    <2>1. i <= cur /\ i > cur
      BY DEF SweepInv, CursorBehind, DebtsAhead, Busy
    <2>2. i \in Nat /\ cur \in Nat
      BY DEF TInv, TypeOK, Ids
    <2> QED
      BY <2>1, <2>2
  <1>2. SweepSpec => []TInv
    BY SweepIsPipeline, SpecTyped, PTL
  <1>3. SweepSpec => []SweepInv
    BY <1>2, InitSweep, StepSweep, PTL DEF SweepSpec
  <1> QED
    BY <1>1, <1>2, <1>3, PTL

=============================================================================
