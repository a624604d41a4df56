---------------------------- MODULE IntakeProofs ----------------------------
(***************************************************************************)
(* Theorems about the submissions table, the answers and the limiter of    *)
(* module Intake, for any number of concurrent requests and any batches,   *)
(* faults, restarts and limits.                                            *)
(***************************************************************************)
EXTENDS IntakeProperties, NumberSets, SequenceTheorems

-----------------------------------------------------------------------------
(* The insert.  Keyed is what the table's unique indexes keep.             *)

Keyed(R) ==
  /\ \A row \in R : row.key = SourceKey(row.item)
  /\ \A row, other \in R : row.key = other.key \/ row.id = other.id => row = other

TrailKey(item) == <<"ct", EventID(item)>>
AuditKey(item) == <<"id", AuditID(item), Stage(item)>>
RawKey(item)   == <<"raw", item.family, item.body>>

\* Keys of different kinds differ, and those of one kind differ in what they
\* are made of.
LEMMA KeysDiffer ==
  ASSUME NEW item, NEW other
  PROVE  /\ TrailKey(item) # AuditKey(other) /\ TrailKey(item) # RawKey(other)
         /\ AuditKey(item) # RawKey(other)
         /\ TrailKey(item) = TrailKey(other) => EventID(item) = EventID(other)
         /\ AuditKey(item) = AuditKey(other) =>
              AuditID(item) = AuditID(other) /\ Stage(item) = Stage(other)
         /\ RawKey(item) = RawKey(other) =>
              item.family = other.family /\ item.body = other.body
  BY DEF TrailKey, AuditKey, RawKey

\* An item's key is of one of the three kinds.
LEMMA KeyKinds ==
  ASSUME NEW item
  PROVE  \/ EventID(item) # "" /\ SourceKey(item) = TrailKey(item)
         \/ /\ EventID(item) = "" /\ AuditID(item) # "" /\ Stage(item) # ""
            /\ SourceKey(item) = AuditKey(item)
         \/ SourceKey(item) = RawKey(item)
  BY Zenon DEF SourceKey, TrailKey, AuditKey, RawKey

\* Only CloudTrail records have an eventID, and only Kubernetes events an
\* auditID or a stage.
LEMMA IdentityTellsFamily ==
  ASSUME NEW item
  PROVE  /\ EventID(item) # "" => /\ item.family = "aws_cloudtrail"
                                  /\ AuditID(item) = "" /\ Stage(item) = ""
         /\ AuditID(item) # "" \/ Stage(item) # "" =>
              item.family = "kubernetes" /\ EventID(item) = ""
  BY DEF EventID, AuditID, Stage

\* Items of one key are of one family and carry one identity.
LEMMA SameKeySameIdentity ==
  ASSUME NEW item, NEW other, SourceKey(item) = SourceKey(other)
  PROVE  /\ item.family = other.family
         /\ AuditID(item) = AuditID(other) /\ Stage(item) = Stage(other)
         /\ EventID(item) = EventID(other)
  <1>1. \/ EventID(item) # "" /\ EventID(item) = EventID(other)
        \/ /\ AuditID(item) # "" /\ AuditID(item) = AuditID(other)
           /\ Stage(item) = Stage(other)
        \/ item.family = other.family /\ item.body = other.body
    BY KeyKinds, KeysDiffer, Zenon
  <1>2. CASE EventID(item) # "" /\ EventID(item) = EventID(other)
    BY <1>2, IdentityTellsFamily
  <1>3. CASE /\ AuditID(item) # "" /\ AuditID(item) = AuditID(other)
             /\ Stage(item) = Stage(other)
    BY <1>3, IdentityTellsFamily
  <1>4. CASE item.family = other.family /\ item.body = other.body
    BY <1>4 DEF AuditID, Stage, EventID
  <1> QED
    BY <1>1, <1>2, <1>3, <1>4

\* Items of one identity have one key.
LEMMA SameIdentitySameKey ==
  ASSUME NEW item, NEW other,
         \/ EventID(item) # "" /\ EventID(item) = EventID(other)
         \/ /\ AuditID(item) # "" /\ Stage(item) # ""
            /\ AuditID(item) = AuditID(other) /\ Stage(item) = Stage(other)
  PROVE  SourceKey(item) = SourceKey(other)
  BY IdentityTellsFamily DEF SourceKey

\* The conflict-safe insert removes and changes no row and adds at most the
\* delivered item's.
LEMMA UpsertGrows ==
  ASSUME NEW item, NEW id
  PROVE  /\ rows \subseteq Upsert(item, id)
         /\ Upsert(item, id) \subseteq rows \cup {RowOf(item, id)}
         /\ \E row \in Upsert(item, id) : row.key = SourceKey(item)
  <1>1. RowOf(item, id).key = SourceKey(item)
    BY DEF RowOf
  <1> QED
    BY <1>1 DEF Upsert, Holding

\* With a fresh id, the insert keeps the table's keys and ids unique.
LEMMA UpsertKeyed ==
  ASSUME NEW item, NEW id, Keyed(rows), \A row \in rows : row.id # id
  PROVE  Keyed(Upsert(item, id))
  <1>1. CASE Holding(item) = {}
    <2>1. /\ RowOf(item, id).key = SourceKey(item) /\ RowOf(item, id).item = item
          /\ RowOf(item, id).id = id
      BY DEF RowOf
    <2>2. \A row \in rows : row.key # SourceKey(item)
      BY <1>1 DEF Holding
    <2> QED
      BY <1>1, <2>1, <2>2 DEF Upsert, Keyed
  <1>2. CASE Holding(item) # {}
    BY <1>2 DEF Upsert
  <1> QED
    BY <1>1, <1>2

-----------------------------------------------------------------------------
(* What a result says about the table.                                     *)

Kinds == {"admitted", "conflict", "capacity", "failed"}
Results == [kind : Kinds, id : Nat]

Admitted(R, item, result) == \E row \in R : row.id = result.id /\ row.item = item
Contested(R, item) == \E row \in R : row.key = SourceKey(item) /\ row.item # item

Truthful(R, item, result) ==
  /\ result.kind = "admitted" => Admitted(R, item, result)
  /\ result.kind = "conflict" => Contested(R, item)

\* Admit's answer is true of the table its insert leaves.
LEMMA AnswerTruthful ==
  ASSUME NEW item, NEW id \in Nat, \A row \in rows : row.id \in Nat
  PROVE  /\ Answer(item, id) \in Results
         /\ Answer(item, id).kind \in {"admitted", "conflict"}
         /\ Truthful(Upsert(item, id), item, Answer(item, id))
  <1> DEFINE same == {row \in Upsert(item, id) : row.key = SourceKey(item) /\ row.item = item}
             one  == CHOOSE row \in same : TRUE
  <1>1. CASE same = {}
    <2>1. Answer(item, id) = [kind |-> "conflict", id |-> 0]
      BY <1>1, Zenon DEF Answer
    <2>2. Contested(Upsert(item, id), item)
      BY <1>1, UpsertGrows DEF Contested
    <2> QED
      BY <2>1, <2>2 DEF Truthful, Kinds, Results
  <1>2. CASE same # {}
    <2>1. Answer(item, id) = [kind |-> "admitted", id |-> one.id]
      BY <1>2, Zenon DEF Answer
    <2>2. one \in same
      BY <1>2, Zenon
    <2>3. one \in Upsert(item, id) /\ one.item = item
      BY <2>2
    <2> HIDE DEF one
    <2>4. one.id \in Nat
      BY <2>3, UpsertGrows DEF RowOf
    <2> QED
      BY <2>1, <2>3, <2>4 DEF Truthful, Admitted, Kinds, Results
  <1> QED
    BY <1>1, <1>2

\* What was true of the table stays true as it grows.
LEMMA TruthfulGrows ==
  ASSUME NEW R, NEW S, R \subseteq S, NEW item, NEW result, Truthful(R, item, result)
  PROVE  Truthful(S, item, result)
  BY DEF Truthful, Admitted, Contested

-----------------------------------------------------------------------------
(* The invariant: the table is keyed, a drawn id is nobody else's until    *)
(* its insert is decided, and every result of every handler is true of the *)
(* table and stands at its item's place.                                   *)

Phases == {"new", "item", "admit", "insert", "answered", "orphan", "dropped"}
Inserting == {"insert", "orphan"}

HandlersTyped ==
  /\ pc \in [Requests -> Phases] /\ batch \in [Requests -> Seq(Items)]
  /\ results \in [Requests -> Seq(Results)]
  /\ drawn \in [Requests -> Nat] /\ status \in [Requests -> Nat]

TableKeyed ==
  /\ nextId \in Nat \ {0} /\ Keyed(rows)
  /\ \A row \in rows : row.id \in 1..nextId - 1 /\ row.item \in Items

DrawnFresh ==
  \A r \in Requests : pc[r] \in Inserting =>
    /\ drawn[r] \in 1..nextId - 1
    /\ \A row \in rows : row.id # drawn[r]
    /\ \A s \in Requests : s # r /\ pc[s] \in Inserting => drawn[s] # drawn[r]

InPlace ==
  \A r \in Requests :
    /\ Len(results[r]) <= Len(batch[r])
    /\ pc[r] \in {"admit", "insert", "orphan"} => Len(results[r]) < Len(batch[r])
    /\ pc[r] = "answered" =>
         Len(results[r]) = Len(batch[r]) /\ status[r] = StatusOf(results[r])

AllTruthful ==
  \A r \in Requests : \A k \in DOMAIN results[r] :
    Truthful(rows, batch[r][k], results[r][k])

IInv == HandlersTyped /\ TableKeyed /\ DrawnFresh /\ InPlace /\ AllTruthful

\* At the start there are no rows and no deliveries.
LEMMA InitInvariant == Init => IInv
  BY DEF Init, IInv, HandlersTyped, TableKeyed, Keyed, DrawnFresh, InPlace, AllTruthful,
         Phases, Inserting, StatusOf

\* The insert of a request's current item, with the id it drew.
LEMMA InsertKeepsTable ==
  ASSUME IInv, NEW r \in Requests, pc[r] \in Inserting, UNCHANGED <<nextId, drawn>>,
         rows' \in {rows, Upsert(Item(r), drawn[r])},
         pc' \in [Requests -> Phases], pc'[r] \notin Inserting,
         \A s \in Requests : s # r => pc'[s] = pc[s]
  PROVE  TableKeyed' /\ DrawnFresh' /\ rows \subseteq rows'
  <1>1. /\ drawn[r] \in 1..nextId - 1 /\ \A row \in rows : row.id # drawn[r]
        /\ \A s \in Requests : s # r /\ pc[s] \in Inserting => drawn[s] # drawn[r]
    BY DEF IInv, DrawnFresh
  <1>2. rows \subseteq rows' /\ rows' \subseteq rows \cup {RowOf(Item(r), drawn[r])}
    BY UpsertGrows
  <1>3. Keyed(rows')
    BY <1>1, UpsertKeyed DEF IInv, TableKeyed
  <1>4. /\ RowOf(Item(r), drawn[r]).id = drawn[r]
        /\ RowOf(Item(r), drawn[r]).item \in Items
    <2>1. /\ batch[r] \in Seq(Items) /\ Len(results[r]) + 1 \in 1..Len(batch[r])
      BY DEF IInv, HandlersTyped, InPlace, Inserting
    <2> QED
      BY <2>1 DEF RowOf, Item
  <1>5. TableKeyed'
    BY <1>1, <1>2, <1>3, <1>4 DEF IInv, TableKeyed
  <1>6. DrawnFresh'
    BY <1>1, <1>2, <1>4 DEF IInv, DrawnFresh
  <1> QED
    BY <1>2, <1>5, <1>6

\* Concluding an item with a result that is true of the table, which at most
\* grows, keeps every result true and in its place.
LEMMA ConcludeInPlace ==
  ASSUME IInv, NEW r \in Requests, Pending(r), NEW result \in Results, Conclude(r, result),
         rows \subseteq rows', Truthful(rows', Item(r), result),
         UNCHANGED <<batch, drawn, status>>
  PROVE  HandlersTyped' /\ InPlace' /\ AllTruthful'
  <1> USE DEF IInv, HandlersTyped
  <1>1. HandlersTyped'
    BY DEF Conclude, Phases
  <1>2. /\ \A s \in Requests \ {r} : results'[s] = results[s] /\ pc'[s] = pc[s]
        /\ results'[r] = Append(results[r], result) /\ pc'[r] = "item"
        /\ Len(results'[r]) = Len(results[r]) + 1 /\ Len(results'[r]) <= Len(batch[r])
        /\ \A k \in 1..Len(results[r]) : results'[r][k] = results[r][k]
        /\ results'[r][Len(results[r]) + 1] = result
    BY DEF Conclude, Pending
  <1>3. InPlace'
    BY <1>2 DEF InPlace
  <1>4. ASSUME NEW s \in Requests, NEW k \in DOMAIN results'[s]
        PROVE  Truthful(rows', batch[s][k], results'[s][k])
    <2>1. CASE s = r /\ k = Len(results[r]) + 1
      BY <1>2, <2>1 DEF Item
    <2>2. CASE s = r /\ k # Len(results[r]) + 1
      <3>1. k \in 1..Len(results[r])
        BY <1>1, <1>2, <2>2
      <3>2. results'[s][k] = results[s][k] /\ k \in DOMAIN results[s]
        BY <1>2, <2>2, <3>1
      <3> QED
        BY <3>2, TruthfulGrows DEF AllTruthful
    <2>3. CASE s # r
      BY <1>2, <2>3, TruthfulGrows DEF AllTruthful
    <2> QED
      BY <2>1, <2>2, <2>3
  <1>5. AllTruthful'
    BY <1>4 DEF AllTruthful
  <1> QED
    BY <1>1, <1>3, <1>5

\* A request starts over with a batch, old or new.
LEMMA DeliverKeeps ==
  ASSUME IInv, NEW r \in Requests, Deliver(r), pc[r] \notin Inserting,
         batch' \in [Requests -> Seq(Items)],
         \A s \in Requests : s # r => batch'[s] = batch[s]
  PROVE  IInv'
  <1> USE DEF IInv, HandlersTyped
  <1>1. /\ \A s \in Requests \ {r} : results'[s] = results[s] /\ pc'[s] = pc[s]
                                     /\ status'[s] = status[s]
        /\ results'[r] = << >> /\ pc'[r] = "item"
        /\ UNCHANGED <<rows, nextId, drawn>>
    BY DEF Deliver, table
  <1>2. HandlersTyped'
    <2>1. << >> \in Seq(Results)
      OBVIOUS
    <2>2. /\ pc' \in [Requests -> Phases] /\ results' \in [Requests -> Seq(Results)]
          /\ status' \in [Requests -> Nat]
      BY <2>1 DEF Deliver, Phases
    <2> QED
      BY <1>1, <2>2
  <1>3. TableKeyed' /\ DrawnFresh'
    BY <1>1 DEF TableKeyed, DrawnFresh, Inserting
  <1>4. InPlace'
    BY <1>1, <1>2 DEF InPlace
  <1>5. AllTruthful'
    <2> SUFFICES ASSUME NEW s \in Requests, NEW k \in DOMAIN results'[s]
                 PROVE  Truthful(rows', batch'[s][k], results'[s][k])
      BY DEF AllTruthful
    <2>1. s # r
      BY <1>1
    <2> QED
      BY <1>1, <2>1 DEF AllTruthful
  <1> QED
    BY <1>2, <1>3, <1>4, <1>5

\* A step that only moves handlers on or drops them, without touching the
\* table or a result.
LEMMA MovesKeep ==
  ASSUME IInv, UNCHANGED <<rows, nextId, drawn, batch, results, status>>,
         pc' \in [Requests -> Phases],
         \A r \in Requests :
           \/ pc'[r] = pc[r] \/ pc'[r] = "dropped" \/ (pc[r] = "insert" /\ pc'[r] = "orphan")
           \/ pc'[r] = "admit" /\ Pending(r)
  PROVE  IInv'
  <1> USE DEF IInv
  <1>1. HandlersTyped' /\ TableKeyed' /\ AllTruthful'
    BY DEF HandlersTyped, TableKeyed, AllTruthful
  <1>2. DrawnFresh'
    BY DEF DrawnFresh, Inserting
  <1>3. InPlace'
    BY DEF InPlace, Pending
  <1> QED
    BY <1>1, <1>2, <1>3

\* A result that claims nothing of the table is true of it.
LEMMA NoClaimTruthful ==
  ASSUME NEW R, NEW item
  PROVE  /\ Truthful(R, item, Failed) /\ Failed \in Results
         /\ Truthful(R, item, Capacity) /\ Capacity \in Results
  BY DEF Truthful, Failed, Capacity, Results, Kinds

\* Every step of a handler keeps the invariant.
LEMMA HandleKeeps ==
  ASSUME IInv, NEW r \in Requests, Handle(r)
  PROVE  IInv'
  <1> USE DEF IInv
  <1>1. CASE Grant(r)
    BY <1>1, MovesKeep DEF Grant, table, HandlersTyped, Phases
  <1>2. CASE Reject(r)
    <2>1. HandlersTyped' /\ InPlace' /\ AllTruthful'
      BY <1>2, ConcludeInPlace, NoClaimTruthful DEF Reject, table
    <2>2. TableKeyed' /\ DrawnFresh'
      BY <1>2 DEF Reject, Conclude, table, TableKeyed, DrawnFresh, HandlersTyped, Inserting
    <2> QED
      BY <2>1, <2>2
  <1>3. CASE Draw(r)
    <2>1. /\ drawn' = [drawn EXCEPT ![r] = nextId] /\ nextId' = nextId + 1
          /\ pc' = [pc EXCEPT ![r] = "insert"] /\ pc[r] = "admit"
          /\ UNCHANGED <<rows, batch, results, status>>
      BY <1>3 DEF Draw
    <2>2. HandlersTyped' /\ AllTruthful'
      BY <2>1 DEF HandlersTyped, TableKeyed, AllTruthful, Phases
    <2>3. TableKeyed'
      BY <2>1 DEF TableKeyed
    <2>4. DrawnFresh'
      BY <2>1 DEF DrawnFresh, TableKeyed, HandlersTyped, Inserting
    <2>5. InPlace'
      BY <2>1 DEF InPlace, HandlersTyped
    <2> QED
      BY <2>2, <2>3, <2>4, <2>5
  <1>4. CASE Settle(r) \/ SettleUnacknowledged(r)
    <2>1. /\ pc[r] = "insert" /\ Pending(r) /\ drawn[r] \in Nat
          /\ rows' = Upsert(Item(r), drawn[r])
          /\ UNCHANGED <<batch, drawn, status, nextId>>
      BY <1>4 DEF Settle, SettleUnacknowledged, InPlace, Pending, HandlersTyped
    <2>2. PICK result \in Results :
            Conclude(r, result) /\ Truthful(rows', Item(r), result)
      <3>1. \A row \in rows : row.id \in Nat
        BY DEF TableKeyed
      <3> QED
        BY <1>4, <2>1, <3>1, AnswerTruthful, NoClaimTruthful DEF Settle, SettleUnacknowledged
    <2>3. /\ pc' \in [Requests -> Phases] /\ pc'[r] \notin Inserting
          /\ \A s \in Requests : s # r => pc'[s] = pc[s]
      BY <2>2 DEF Conclude, HandlersTyped, Phases, Inserting
    <2>4. TableKeyed' /\ DrawnFresh' /\ rows \subseteq rows'
      BY <2>1, <2>3, InsertKeepsTable DEF Inserting
    <2>5. HandlersTyped' /\ InPlace' /\ AllTruthful'
      BY <2>1, <2>2, <2>4, ConcludeInPlace
    <2> QED
      BY <2>4, <2>5
  <1>5. CASE AdmitFails(r)
    <2>1. Pending(r)
      BY <1>5 DEF AdmitFails, InPlace, Pending
    <2>2. HandlersTyped' /\ InPlace' /\ AllTruthful'
      BY <1>5, <2>1, ConcludeInPlace, NoClaimTruthful DEF AdmitFails, table
    <2>3. TableKeyed' /\ DrawnFresh'
      BY <1>5 DEF AdmitFails, Conclude, table, TableKeyed, DrawnFresh, HandlersTyped, Inserting
    <2> QED
      BY <2>2, <2>3
  <1>6. CASE Respond(r)
    <2>1. /\ pc' = [pc EXCEPT ![r] = "answered"]
          /\ status' = [status EXCEPT ![r] = StatusOf(results[r])] /\ ~Pending(r)
          /\ UNCHANGED <<rows, nextId, drawn, batch, results>>
      BY <1>6 DEF Respond, table
    <2>2. StatusOf(results[r]) \in Nat
      BY DEF StatusOf
    <2>3. HandlersTyped' /\ TableKeyed' /\ AllTruthful'
      BY <2>1, <2>2 DEF HandlersTyped, TableKeyed, AllTruthful, Phases
    <2>4. DrawnFresh'
      BY <2>1 DEF DrawnFresh, HandlersTyped, Inserting
    <2>5. InPlace'
      BY <2>1 DEF InPlace, Pending, HandlersTyped
    <2> QED
      BY <2>3, <2>4, <2>5
  <1> QED
    BY <1>1, <1>2, <1>3, <1>4, <1>5, <1>6 DEF Handle

\* Every step of the clients, the handlers, the clock and the process keeps
\* the invariant.
LEMMA StepInvariant == IInv /\ [Next]_vars => IInv'
  <1> SUFFICES ASSUME IInv, [Next]_vars PROVE IInv'
    OBVIOUS
  <1> USE DEF IInv
  <1>1. CASE UNCHANGED vars
    BY <1>1, MovesKeep DEF vars, handler, table, HandlersTyped
  <1>2. ASSUME NEW r \in Requests, NEW b \in Batches, Send(r, b) PROVE IInv'
    BY <1>2, DeliverKeeps, IntakeAssumption DEF Send, HandlersTyped, Inserting
  <1>3. ASSUME NEW r \in Requests, Resend(r) PROVE IInv'
    BY <1>3, DeliverKeeps DEF Resend, HandlersTyped, Inserting
  <1>4. ASSUME NEW r \in Requests, Handle(r) PROVE IInv'
    BY <1>4, HandleKeeps
  <1>5. ASSUME NEW r \in Requests, OrphanEnds(r) PROVE IInv'
    <2>1. /\ pc[r] = "orphan" /\ rows' \in {rows, Upsert(Item(r), drawn[r])}
          /\ pc' = [pc EXCEPT ![r] = "dropped"]
          /\ UNCHANGED <<nextId, drawn, batch, results, status>>
      BY <1>5 DEF OrphanEnds
    <2>2. TableKeyed' /\ DrawnFresh' /\ rows \subseteq rows'
      BY <2>1, InsertKeepsTable DEF HandlersTyped, Phases, Inserting
    <2>3. HandlersTyped' /\ InPlace'
      BY <2>1 DEF HandlersTyped, InPlace, Phases
    <2>4. AllTruthful'
      BY <2>1, <2>2, TruthfulGrows DEF AllTruthful
    <2> QED
      BY <2>2, <2>3, <2>4
  <1>6. CASE Tick
    BY <1>6, MovesKeep DEF Tick, handler, table, HandlersTyped
  <1>7. CASE Restart
    BY <1>7, MovesKeep DEF Restart, table, HandlersTyped, Phases
  <1> QED
    BY <1>1, <1>2, <1>3, <1>4, <1>5, <1>6, <1>7 DEF Next

\* The invariant holds throughout.
LEMMA InvariantAlways == Spec => []IInv
  BY InitInvariant, StepInvariant, PTL DEF Spec

-----------------------------------------------------------------------------
(* What it means to the clients and to the pipeline.                       *)

\* An id once answered names a submission with exactly the delivered content.
THEOREM AnswersNameRows == Spec => []AnsweredIsRecorded
  <1>1. IInv => AnsweredIsRecorded
    BY DEF IInv, AllTruthful, Truthful, Admitted, AnsweredIsRecorded
  <1> QED
    BY <1>1, InvariantAlways, PTL

\* However its deliveries interleave, a source event is one submission.
THEOREM EventsAreSingle == Spec => []OneSubmissionPerEvent
  <1>1. ASSUME IInv, NEW row \in rows, NEW other \in rows,
               SourceKey(row.item) = SourceKey(other.item)
        PROVE  row = other
    BY <1>1 DEF IInv, TableKeyed, Keyed
  <1>2. IInv => OneSubmissionPerEvent
    BY <1>1, SameIdentitySameKey DEF OneSubmissionPerEvent
  <1> QED
    BY <1>2, InvariantAlways, PTL

\* A conflict is answered only for an event of the same family that claims
\* the same identity with other content.
THEOREM ConflictsAreGenuine == Spec => []ConflictIsGenuine
  <1>1. ASSUME IInv, NEW r \in Requests, NEW k \in DOMAIN results[r],
               results[r][k].kind = "conflict"
        PROVE  \E row \in rows :
                 /\ row.item.family = batch[r][k].family /\ row.item # batch[r][k]
                 /\ AuditID(row.item) = AuditID(batch[r][k])
                 /\ Stage(row.item) = Stage(batch[r][k])
                 /\ EventID(row.item) = EventID(batch[r][k])
    <2>1. PICK row \in rows : row.key = SourceKey(batch[r][k]) /\ row.item # batch[r][k]
      BY <1>1 DEF IInv, AllTruthful, Truthful, Contested
    <2>2. SourceKey(row.item) = SourceKey(batch[r][k])
      BY <1>1, <2>1 DEF IInv, TableKeyed, Keyed
    <2> QED
      BY <2>1, <2>2, SameKeySameIdentity
  <1>2. IInv => ConflictIsGenuine
    BY <1>1 DEF ConflictIsGenuine
  <1> QED
    BY <1>2, InvariantAlways, PTL

\* The status of an answered request tells the fate of each of its items.
THEOREM StatusIsTruthful == Spec => []StatusTellsFate
  <1>1. ASSUME IInv, NEW r \in Requests, pc[r] = "answered", NEW k \in DOMAIN batch[r]
        PROVE  /\ status[r] = StatusOf(results[r]) /\ k \in DOMAIN results[r]
               /\ results[r][k].kind \in Kinds
               /\ results[r][k].kind = "admitted" => \E row \in rows : row.item = batch[r][k]
               /\ results[r][k].kind \in {"admitted", "conflict"} =>
                    \E row \in rows : row.key = SourceKey(batch[r][k])
    <2>1. /\ status[r] = StatusOf(results[r]) /\ k \in DOMAIN results[r]
          /\ results[r][k].kind \in Kinds
      <3>1. /\ batch[r] \in Seq(Items) /\ results[r] \in Seq(Results)
            /\ Len(results[r]) = Len(batch[r]) /\ status[r] = StatusOf(results[r])
        BY <1>1 DEF IInv, InPlace, HandlersTyped
      <3>2. k \in DOMAIN results[r] /\ results[r][k] \in Results
        BY <3>1
      <3> QED
        BY <3>1, <3>2 DEF Results
    <2>2. Truthful(rows, batch[r][k], results[r][k])
      BY <1>1, <2>1 DEF IInv, AllTruthful
    <2>3. /\ results[r][k].kind = "admitted" => \E row \in rows : row.item = batch[r][k]
          /\ results[r][k].kind = "conflict" =>
               \E row \in rows : row.key = SourceKey(batch[r][k])
      BY <2>2 DEF Truthful, Admitted, Contested
    <2>4. \A row \in rows : row.key = SourceKey(row.item)
      BY <1>1 DEF IInv, TableKeyed, Keyed
    <2>5. ASSUME results[r][k].kind = "admitted"
          PROVE  \E row \in rows : row.key = SourceKey(batch[r][k])
      <3>1. PICK row \in rows : row.item = batch[r][k]
        BY <2>3, <2>5
      <3>2. row.key = SourceKey(batch[r][k])
        BY <2>4, <3>1
      <3> QED
        BY <3>2
    <2> QED
      BY <2>1, <2>3, <2>5
  <1>2. ASSUME NEW res, NEW k \in DOMAIN res, res[k].kind \in Kinds
        PROVE  /\ StatusOf(res) = 200 => res[k].kind = "admitted"
               /\ StatusOf(res) = 409 => res[k].kind \in {"admitted", "conflict"}
               /\ StatusOf(res) = 429 => res[k].kind \in {"admitted", "conflict", "capacity"}
    BY <1>2 DEF StatusOf, Some, Kinds
  <1>3. IInv => StatusTellsFate
    BY <1>1, <1>2 DEF StatusTellsFate
  <1> QED
    BY <1>3, InvariantAlways, PTL

-----------------------------------------------------------------------------
(* The limiter: the capacity envelope is exact, for every limit and window *)
(* and however the requests interleave.                                    *)

-----------------------------------------------------------------------------
(* The refinement of AdmissionAbstract.                                    *)

\* Two items are one event's exactly when they have one key.
LEMMA OneKeyPerEvent ==
  ASSUME NEW item, NEW other
  PROVE  SameEvent(item, other) <=> SourceKey(item) = SourceKey(other)
  <1>1. SameEvent(item, other) => SourceKey(item) = SourceKey(other)
    <2>1. item.family = other.family /\ item.body = other.body =>
            SourceKey(item) = SourceKey(other)
      BY DEF SourceKey, EventID, AuditID, Stage
    <2> QED
      BY <2>1, SameIdentitySameKey DEF SameEvent
  <1>2. SourceKey(item) = SourceKey(other) => SameEvent(item, other)
    <2> HAVE SourceKey(item) = SourceKey(other)
    <2>1. \/ EventID(item) # "" /\ EventID(item) = EventID(other)
          \/ /\ AuditID(item) # "" /\ Stage(item) # "" /\ AuditID(item) = AuditID(other)
             /\ Stage(item) = Stage(other)
          \/ item.family = other.family /\ item.body = other.body
      BY KeyKinds, KeysDiffer, Zenon
    <2> QED
      BY <2>1 DEF SameEvent
  <1> QED
    BY <1>1, <1>2

\* A decided insert submits the first of its event, or changes nothing.
LEMMA InsertSubmits ==
  ASSUME IInv, NEW r \in Requests, pc[r] \in Inserting,
         rows' \in {rows, Upsert(Item(r), drawn[r])}
  PROVE  Abstract!Submit(Item(r)) \/ UNCHANGED Submissions
  <1> DEFINE item == Item(r)
             new  == [id |-> drawn[r], item |-> item]
  <1>1. CASE rows' = rows
    BY <1>1 DEF Submissions
  <1>2. CASE rows' = rows \cup {RowOf(item, drawn[r])} /\ Holding(item) = {}
    <2>1. RowOf(item, drawn[r]).id = drawn[r] /\ RowOf(item, drawn[r]).item = item
      BY DEF RowOf
    <2>2. Submissions' = Submissions \cup {new}
      BY <1>2, <2>1 DEF Submissions
    <2>3. ASSUME NEW old \in Submissions
          PROVE  old.id # new.id /\ ~SameEvent(old.item, item)
      <3>1. PICK row \in rows : old.id = row.id /\ old.item = row.item
        BY DEF Submissions
      <3>2. row.key # SourceKey(item) /\ row.key = SourceKey(row.item) /\ row.id # drawn[r]
        BY <1>2 DEF Holding, IInv, TableKeyed, Keyed, DrawnFresh
      <3> QED
        BY <3>1, <3>2, OneKeyPerEvent
    <2>4. new.item = item
      OBVIOUS
    <2> HIDE DEF new
    <2> QED
      BY <2>2, <2>3, <2>4 DEF Abstract!Submit
  <1> QED
    BY <1>1, <1>2 DEF Upsert

\* Concluding an item tells its client something true.
LEMMA ConclusionTells ==
  ASSUME IInv, IInv', NEW r \in Requests, Pending(r), NEW result \in Results,
         Conclude(r, result), Truthful(rows', Item(r), result), UNCHANGED batch
  PROVE  Abstract!Tell(r, Item(r))
  <1> DEFINE item == Item(r)
             entry == [item |-> item, answer |-> result]
             at(s, k) == [item |-> batch[s][k], answer |-> results[s][k]]
             told(s) == [k \in DOMAIN results[s] |-> at(s, k)]
             last == Len(results[r]) + 1
  <1>1. /\ results' = [results EXCEPT ![r] = Append(@, result)]
        /\ results \in [Requests -> Seq(Results)] /\ batch' = batch
    BY DEF Conclude, IInv, HandlersTyped
  <1>2. /\ results'[r] = Append(results[r], result) /\ DOMAIN results[r] = 1..Len(results[r])
        /\ DOMAIN results'[r] = 1..last /\ results'[r][last] = result
        /\ \A k \in 1..Len(results[r]) : results'[r][k] = results[r][k]
        /\ \A s \in Requests \ {r} : results'[s] = results[s]
        /\ Len(results[r]) \in Nat
    BY <1>1
  <1>3. Told = [s \in Requests |-> told(s)]
    BY DEF Told
  <1>4. Told' = [s \in Requests |->
                   [k \in DOMAIN results'[s] |-> [item |-> batch[s][k], answer |-> results'[s][k]]]]
    BY <1>1 DEF Told
  <1>5. Told'[r] = [k \in 1..last |-> IF k = last THEN entry ELSE at(r, k)]
    <2>1. Told'[r] = [k \in 1..last |-> [item |-> batch[r][k], answer |-> results'[r][k]]]
      BY <1>2, <1>4
    <2>2. ASSUME NEW k \in 1..last
          PROVE  [item |-> batch[r][k], answer |-> results'[r][k]]
                   = IF k = last THEN entry ELSE at(r, k)
      <3>1. CASE k = last
        BY <1>2, <3>1 DEF Item
      <3>2. CASE k # last
        <4>1. k \in 1..Len(results[r])
          BY <1>2, <3>2
        <4> QED
          BY <1>2, <3>2, <4>1
      <3> QED
        BY <3>1, <3>2
    <2> QED
      BY <2>1, <2>2
  <1>6. Append(told(r), entry) = [k \in 1..last |-> IF k = last THEN entry ELSE at(r, k)]
    <2> DEFINE n == Len(results[r])
    <2>1. told(r) = [k \in 1..n |-> at(r, k)] /\ n \in Nat
      BY <1>2
    <2> HIDE DEF at, entry, n
    <2>2. told(r) \in Seq({at(r, k) : k \in 1..n}) /\ Len(told(r)) = n
      BY <2>1
    <2> QED
      BY <2>1, <2>2 DEF n
  <1>7. Told' = [Told EXCEPT ![r] = Append(@, entry)]
    <2>1. \A s \in Requests \ {r} : Told'[s] = Told[s]
      BY <1>2, <1>3, <1>4
    <2>2. Told'[r] = Append(Told[r], entry)
      BY <1>3, <1>5, <1>6
    <2>3. Told' = [s \in Requests |-> Told'[s]] /\ Told = [s \in Requests |-> Told[s]]
      BY <1>3, <1>4
    <2> HIDE DEF entry
    <2> QED
      BY <2>1, <2>2, <2>3
  <1>8. result \in {Told'[r][k].answer : k \in DOMAIN Told'[r]}
    <2>1. last \in 1..last
      BY <1>2
    <2>2. Told'[r][last] = entry /\ last \in DOMAIN Told'[r] /\ entry.answer = result
      BY <1>5, <2>1
    <2> HIDE DEF entry, last
    <2> QED
      BY <2>2
  <1>9. ASSUME result.kind = "admitted"
        PROVE  \E one \in Submissions' : one.id = result.id /\ one.item = item
    <2>1. PICK row \in rows' : row.id = result.id /\ row.item = item
      BY <1>9 DEF Truthful, Admitted
    <2>2. [id |-> row.id, item |-> row.item] \in Submissions'
      BY DEF Submissions
    <2> QED
      BY <2>1, <2>2
  <1>10. ASSUME result.kind = "conflict"
         PROVE  \E one \in Submissions' :
                  /\ <<one.item, item>> \in {pair \in Items \X Items : SameEvent(pair[1], pair[2])}
                  /\ one.item # item
    <2>1. PICK row \in rows' : row.key = SourceKey(item) /\ row.item # item
      BY <1>10 DEF Truthful, Contested
    <2>2. row.item \in Items /\ row.key = SourceKey(row.item)
      BY DEF IInv, TableKeyed, Keyed
    <2>3. item \in Items
      BY <1>1 DEF Pending, Item, IInv, HandlersTyped
    <2>4. SameEvent(row.item, item)
      BY <2>1, <2>2, OneKeyPerEvent
    <2>5. <<row.item, item>> \in {pair \in Items \X Items : SameEvent(pair[1], pair[2])}
      BY <2>2, <2>3, <2>4
    <2>6. [id |-> row.id, item |-> row.item] \in Submissions'
      BY DEF Submissions
    <2> QED
      BY <2>1, <2>5, <2>6
  <1> HIDE DEF item
  <1> QED
    <2>1. Told' = [Told EXCEPT ![r] = Append(@, [item |-> item, answer |-> result])]
      BY <1>7
    <2> QED
      BY <1>8, <1>9, <1>10, <2>1 DEF Abstract!Tell, item

\* A new delivery forgets what was told of the one before.
LEMMA DeliveryForgets ==
  ASSUME IInv, NEW r \in Requests, Deliver(r), \A s \in Requests \ {r} : batch'[s] = batch[s]
  PROVE  Told' = [Told EXCEPT ![r] = <<>>] /\ UNCHANGED Submissions
  <1>1. /\ results'[r] = <<>> /\ \A s \in Requests \ {r} : results'[s] = results[s]
        /\ rows' = rows
    BY DEF Deliver, table, IInv, HandlersTyped
  <1>2. Told'[r] = <<>>
    BY <1>1 DEF Told
  <1>3. \A s \in Requests \ {r} : Told'[s] = Told[s]
    BY <1>1 DEF Told
  <1>4. Told' = [s \in Requests |-> Told'[s]] /\ Told = [s \in Requests |-> Told[s]]
    BY DEF Told
  <1> QED
    BY <1>1, <1>2, <1>3, <1>4 DEF Submissions

\* Every step of a handler tells its client of one item, submits it or not,
\* or is not seen.
LEMMA HandleImplements ==
  ASSUME IInv, IInv', NEW r \in Requests, Handle(r)
  PROVE  \/ /\ Item(r) \in Items /\ Abstract!Tell(r, Item(r))
            /\ Abstract!Submit(Item(r)) \/ UNCHANGED Submissions
         \/ UNCHANGED <<Submissions, Told>>
  <1>1. CASE Grant(r) \/ Draw(r) \/ Respond(r)
    BY <1>1 DEF Grant, Draw, Respond, table, Submissions, Told
  <1>2. CASE Reject(r) \/ AdmitFails(r)
    <2>1. Pending(r)
      BY <1>2 DEF Reject, AdmitFails, IInv, InPlace, Pending
    <2>2. /\ Conclude(r, Capacity) \/ Conclude(r, Failed)
          /\ UNCHANGED <<batch, rows>>
      BY <1>2 DEF Reject, AdmitFails, table
    <2>3. Abstract!Tell(r, Item(r))
      BY <2>1, <2>2, ConclusionTells, NoClaimTruthful
    <2>4. Item(r) \in Items
      BY <2>1 DEF Pending, Item, IInv, HandlersTyped
    <2> QED
      BY <2>2, <2>3, <2>4 DEF Submissions
  <1>3. CASE Settle(r) \/ SettleUnacknowledged(r)
    <2>1. /\ pc[r] = "insert" /\ Pending(r) /\ drawn[r] \in Nat
          /\ rows' = Upsert(Item(r), drawn[r]) /\ UNCHANGED batch
      BY <1>3 DEF Settle, SettleUnacknowledged, IInv, InPlace, Pending, HandlersTyped
    <2>2. PICK result \in Results :
            Conclude(r, result) /\ Truthful(rows', Item(r), result)
      <3>1. \A row \in rows : row.id \in Nat
        BY DEF IInv, TableKeyed
      <3> QED
        BY <1>3, <2>1, <3>1, AnswerTruthful, NoClaimTruthful DEF Settle, SettleUnacknowledged
    <2>3. Abstract!Tell(r, Item(r))
      BY <2>1, <2>2, ConclusionTells
    <2>4. Abstract!Submit(Item(r)) \/ UNCHANGED Submissions
      BY <2>1, InsertSubmits DEF Inserting
    <2>5. Item(r) \in Items
      BY <2>1 DEF Pending, Item, IInv, HandlersTyped
    <2> QED
      BY <2>3, <2>4, <2>5
  <1> QED
    BY <1>1, <1>2, <1>3 DEF Handle

\* Admission implements its abstract specification.
THEOREM IntakeImplementsAdmission == Spec => ImplementsAdmission
  <1>1. Init => Abstract!Init
    BY DEF Init, Abstract!Init, Submissions, Told
  <1>2. IInv /\ IInv' /\ [Next]_vars => [Abstract!Next]_(Abstract!vars)
    <2> SUFFICES ASSUME IInv, IInv', [Next]_vars PROVE [Abstract!Next]_(Abstract!vars)
      OBVIOUS
    <2>1. ASSUME NEW r \in Requests, NEW b \in Batches, Send(r, b) PROVE Abstract!Next
      BY <2>1, DeliveryForgets DEF Send, Abstract!Next, IInv, HandlersTyped
    <2>2. ASSUME NEW r \in Requests, Resend(r) PROVE Abstract!Next
      BY <2>2, DeliveryForgets DEF Resend, Abstract!Next
    <2>3. ASSUME NEW r \in Requests, Handle(r) PROVE [Abstract!Next]_(Abstract!vars)
      BY <2>3, HandleImplements DEF Abstract!Next, Abstract!vars
    <2>4. ASSUME NEW r \in Requests, OrphanEnds(r) PROVE [Abstract!Next]_(Abstract!vars)
      <3>1. /\ pc[r] = "orphan" /\ rows' \in {rows, Upsert(Item(r), drawn[r])}
            /\ UNCHANGED Told
        BY <2>4 DEF OrphanEnds, Told
      <3>2. Item(r) \in Items
        BY <3>1 DEF Item, IInv, HandlersTyped, InPlace
      <3>3. Abstract!Submit(Item(r)) \/ UNCHANGED Submissions
        BY <3>1, InsertSubmits DEF Inserting
      <3> QED
        BY <3>1, <3>2, <3>3 DEF Abstract!Next, Abstract!vars
    <2>5. CASE Tick \/ Restart \/ UNCHANGED vars
      BY <2>5 DEF Tick, Restart, vars, handler, table, Submissions, Told, Abstract!vars
    <2> QED
      BY <2>1, <2>2, <2>3, <2>4, <2>5 DEF Next
  <1> QED
    BY <1>1, <1>2, InvariantAlways, PTL DEF Spec, ImplementsAdmission, Abstract!Spec

-----------------------------------------------------------------------------
(* The pruned window. *)

\* The limiter's loop stops at the first entry still in the window, or at the end.
LEMMA AgedOutPrefix ==
  ASSUME times \in Seq(Nat), now \in Nat
  PROVE  /\ AgedOut \in 0..Len(times)
         /\ \A k \in 1..AgedOut : ~InWindow(times[k])
         /\ AgedOut < Len(times) => InWindow(times[AgedOut + 1])
  <1> DEFINE Stops == {n \in 0..Len(times) : n < Len(times) => InWindow(times[n + 1])}
             Aged(n) == /\ \A k \in 1..n : ~InWindow(times[k])
                        /\ n < Len(times) => InWindow(times[n + 1])
  <1>1. PICK m \in Stops : \A k \in Stops : m <= k
    <2>1. Len(times) \in Stops
      OBVIOUS
    <2> HIDE DEF Stops
    <2>2. Stops \subseteq Nat
      BY DEF Stops
    <2> QED
      BY <2>1, <2>2, LeastMember
  <1>2. ASSUME NEW k \in 1..m PROVE ~InWindow(times[k])
    <2>1. k - 1 \in 0..Len(times) /\ k - 1 < Len(times) /\ k - 1 < m
      BY <1>1
    <2>2. k - 1 \notin Stops
      BY <1>1, <2>1
    <2> QED
      BY <2>1, <2>2
  <1>3. m \in 0..Len(times) /\ Aged(m)
    BY <1>1, <1>2
  <1>4. AgedOut = CHOOSE n \in 0..Len(times) : Aged(n)
    BY DEF AgedOut
  <1> HIDE DEF Aged
  <1>5. AgedOut \in 0..Len(times) /\ Aged(AgedOut)
    BY <1>3, <1>4, Zenon
  <1> QED
    BY <1>5 DEF Aged

-----------------------------------------------------------------------------
(* The invariant: the stored entries are the latest of all slots granted,  *)
(* the others have left the window, and any Limit + 1 slots granted in a   *)
(* row span a whole window.                                                *)

Older == Len(grants) - Len(times)

LimiterTyped ==
  /\ now \in Nat /\ grants \in Seq(Nat) /\ times \in Seq(Nat)
  /\ Len(times) <= Limit /\ Len(times) <= Len(grants)

TimesAreLatest == \A k \in 1..Len(times) : times[k] = grants[Older + k]

GrantsAscend ==
  /\ \A i, j \in 1..Len(grants) : i <= j => grants[i] <= grants[j]
  /\ \A i \in 1..Len(grants) : grants[i] <= now

OlderAreOut == \A i \in 1..Older : grants[i] <= now - Window

SlotsSpread ==
  \A i, j \in 1..Len(grants) : j - i >= Limit => grants[j] - grants[i] >= Window

LInv == LimiterTyped /\ TimesAreLatest /\ GrantsAscend /\ OlderAreOut /\ SlotsSpread

\* The limiter starts empty.
LEMMA InitLimiter == Init => LInv
  BY IntakeAssumption
  DEF Init, LInv, LimiterTyped, TimesAreLatest, GrantsAscend, OlderAreOut, SlotsSpread, Older

\* Pruning leaves exactly the slots of the trailing window, the latest of all.
LEMMA KeptIsWindow ==
  ASSUME LInv
  PROVE  /\ Kept \in Seq(Nat) /\ Len(Kept) <= Len(times)
         /\ \A k \in 1..Len(Kept) : Kept[k] = grants[Len(grants) - Len(Kept) + k]
         /\ \A i \in 1..Len(grants) - Len(Kept) : grants[i] <= now - Window
         /\ \A i \in Len(grants) - Len(Kept) + 1..Len(grants) : grants[i] > now - Window
  <1> USE IntakeAssumption DEF LInv, LimiterTyped
  <1>1. /\ AgedOut \in 0..Len(times)
        /\ \A k \in 1..AgedOut : ~InWindow(times[k])
        /\ AgedOut < Len(times) => InWindow(times[AgedOut + 1])
    BY AgedOutPrefix
  <1>2. /\ Kept \in Seq(Nat) /\ Len(Kept) = Len(times) - AgedOut
        /\ \A k \in 1..Len(Kept) : Kept[k] = times[AgedOut + k]
    <2> DEFINE m == AgedOut + 1
               n == Len(times)
    <2>1. m \in Int /\ n \in Int /\ m \in 1..n + 1 /\ \A i \in m..n : times[i] \in Nat
      BY <1>1
    <2>2. Kept = SubSeq(times, m, n)
      BY DEF Kept
    <2>3. n - m + 1 = n - AgedOut /\ \A i \in 1..n - m + 1 : m + i - 1 = AgedOut + i
      BY <1>1, <2>1
    <2> HIDE DEF m, n
    <2>4. /\ Kept \in Seq(Nat) /\ Len(Kept) = n - m + 1
          /\ \A i \in 1..n - m + 1 : Kept[i] = times[m + i - 1]
      BY <2>1, <2>2, SubSeqProperties
    <2> QED
      BY <2>3, <2>4 DEF n
  <1>3. ASSUME NEW k \in 1..Len(Kept)
        PROVE  Kept[k] = grants[Len(grants) - Len(Kept) + k]
    <2>1. AgedOut + k \in 1..Len(times) /\ Kept[k] = times[AgedOut + k]
      BY <1>1, <1>2
    <2>2. Older + (AgedOut + k) = Len(grants) - Len(Kept) + k
      BY <1>1, <1>2 DEF Older
    <2> QED
      BY <2>1, <2>2 DEF TimesAreLatest
  <1>4. ASSUME NEW i \in 1..Len(grants) - Len(Kept) PROVE grants[i] <= now - Window
    <2>1. CASE i <= Older
      BY <2>1 DEF OlderAreOut, Older
    <2>2. CASE i > Older
      <3>1. i - Older \in 1..AgedOut /\ i - Older \in 1..Len(times)
        <4>1. Len(Kept) = Len(times) - AgedOut /\ AgedOut \in 0..Len(times)
          BY <1>1, <1>2
        <4>2. Len(times) \in Nat /\ Len(grants) \in Nat
          OBVIOUS
        <4> QED
          BY <2>2, <4>1, <4>2 DEF Older
      <3>2. times[i - Older] = grants[i] /\ times[i - Older] \in Nat
        BY <3>1 DEF TimesAreLatest, Older
      <3>3. ~(times[i - Older] > now - Window)
        BY <1>1, <3>1 DEF InWindow
      <3> QED
        BY <3>2, <3>3
    <2> QED
      BY <2>1, <2>2 DEF Older
  <1>5. ASSUME NEW i \in Len(grants) - Len(Kept) + 1..Len(grants)
        PROVE  grants[i] > now - Window
    <2> DEFINE first == Len(grants) - Len(Kept) + 1
    <2>1. first \in 1..Len(grants) /\ first <= i /\ AgedOut < Len(times) /\ i \in 1..Len(grants)
          /\ first = Older + (AgedOut + 1)
      <3>1. Len(Kept) = Len(times) - AgedOut /\ AgedOut \in 0..Len(times)
        BY <1>1, <1>2
      <3>2. Len(times) \in Nat /\ Len(grants) \in Nat /\ Len(times) <= Len(grants)
        OBVIOUS
      <3> QED
        BY <1>5, <3>1, <3>2 DEF Older
    <2>2. grants[first] = times[AgedOut + 1]
      BY <1>1, <2>1 DEF TimesAreLatest
    <2>3. grants[first] > now - Window
      BY <1>1, <2>1, <2>2 DEF InWindow
    <2>4. grants[first] <= grants[i] /\ grants[first] \in Nat /\ grants[i] \in Nat
      <3>1. first \in 1..Len(grants) /\ i \in 1..Len(grants) /\ first <= i
        BY <2>1
      <3> HIDE DEF first
      <3> QED
        BY <3>1 DEF GrantsAscend
    <2> QED
      BY <2>3, <2>4
  <1> QED
    BY <1>1, <1>2, <1>3, <1>4, <1>5

\* Granting a slot keeps the invariant: the slot Limit before it is out.
LEMMA GrantKeeps ==
  ASSUME LInv, NEW r \in Requests, Grant(r)
  PROVE  LInv'
  <1> USE IntakeAssumption DEF LInv, LimiterTyped
  <1> DEFINE n == Len(grants)
  <1>1. /\ times' = Append(Kept, now) /\ grants' = Append(grants, now) /\ now' = now
        /\ Len(Kept) < Limit
    BY DEF Grant
  <1>2. /\ Len(grants') = n + 1 /\ grants'[n + 1] = now
        /\ \A i \in 1..n : grants'[i] = grants[i]
    BY <1>1
  <1>3. /\ Len(times') = Len(Kept) + 1 /\ times'[Len(Kept) + 1] = now
        /\ \A k \in 1..Len(Kept) : times'[k] = Kept[k]
    BY <1>1, KeptIsWindow
  <1>4. LimiterTyped' /\ Older' = n - Len(Kept)
    BY <1>1, <1>2, <1>3, KeptIsWindow DEF Older
  <1>5. TimesAreLatest'
    <2> SUFFICES ASSUME NEW k \in 1..Len(times') PROVE times'[k] = grants'[Older' + k]
      BY DEF TimesAreLatest
    <2>1. CASE k = Len(Kept) + 1
      BY <1>2, <1>3, <1>4, <2>1, KeptIsWindow
    <2>2. CASE k # Len(Kept) + 1
      <3>1. k \in 1..Len(Kept) /\ n - Len(Kept) + k \in 1..n
        BY <1>3, <2>2, KeptIsWindow
      <3> QED
        BY <1>2, <1>3, <1>4, <3>1, KeptIsWindow
    <2> QED
      BY <2>1, <2>2
  <1>6. GrantsAscend'
    BY <1>1, <1>2 DEF GrantsAscend
  <1>7. OlderAreOut'
    BY <1>1, <1>2, <1>4, KeptIsWindow DEF OlderAreOut
  <1>8. ASSUME NEW i \in 1..n + 1, NEW j \in 1..n + 1, j - i >= Limit
        PROVE  grants'[j] - grants'[i] >= Window
    <2>1. CASE j <= n
      <3>1. i \in 1..n /\ j \in 1..n
        BY <1>8, <2>1, IntakeAssumption
      <3> QED
        BY <1>2, <1>8, <3>1 DEF SlotsSpread
    <2>2. CASE j = n + 1
      <3>1. i \in 1..n - Len(Kept) /\ i \in 1..n
        BY <1>1, <1>8, <2>2, KeptIsWindow
      <3>2. grants[i] <= now - Window /\ grants[i] \in Nat
        BY <3>1, KeptIsWindow
      <3> QED
        BY <1>2, <2>2, <3>1, <3>2
    <2> QED
      BY <2>1, <2>2
  <1>9. SlotsSpread'
    BY <1>2, <1>8 DEF SlotsSpread
  <1> QED
    BY <1>4, <1>5, <1>6, <1>7, <1>9

\* Turning an item away keeps the invariant.
LEMMA RejectKeeps ==
  ASSUME LInv, NEW r \in Requests, Reject(r)
  PROVE  LInv'
  <1> USE IntakeAssumption DEF LInv, LimiterTyped
  <1>1. times' = Kept /\ UNCHANGED <<now, grants>>
    BY DEF Reject
  <1>2. LimiterTyped' /\ GrantsAscend' /\ SlotsSpread'
    BY <1>1, KeptIsWindow DEF GrantsAscend, SlotsSpread
  <1>3. TimesAreLatest' /\ OlderAreOut'
    BY <1>1, KeptIsWindow DEF TimesAreLatest, OlderAreOut, Older
  <1> QED
    BY <1>2, <1>3

\* Every step keeps the invariant; a restart forgets the slots altogether.
LEMMA StepLimiter == LInv /\ [Next]_vars => LInv'
  <1> SUFFICES ASSUME LInv, [Next]_vars PROVE LInv'
    OBVIOUS
  <1>1. ASSUME UNCHANGED limiter PROVE LInv'
    BY <1>1 DEF limiter, LInv, LimiterTyped, TimesAreLatest, GrantsAscend, OlderAreOut,
                SlotsSpread, Older
  <1>2. ASSUME NEW r \in Requests, Handle(r) PROVE LInv'
    BY <1>1, <1>2, GrantKeeps, RejectKeeps
    DEF Handle, Draw, Settle, SettleUnacknowledged, AdmitFails, Respond
  <1>3. CASE Tick
    <2>1. now' = now + 1 /\ UNCHANGED <<times, grants>>
      BY <1>3 DEF Tick
    <2> QED
      BY <2>1, IntakeAssumption
      DEF LInv, LimiterTyped, TimesAreLatest, GrantsAscend, OlderAreOut, SlotsSpread, Older
  <1>4. CASE Restart
    <2>1. now' = now /\ times' = << >> /\ grants' = << >>
      BY <1>4 DEF Restart
    <2> QED
      BY <2>1, IntakeAssumption
      DEF LInv, LimiterTyped, TimesAreLatest, GrantsAscend, OlderAreOut, SlotsSpread, Older
  <1> QED
    BY <1>1, <1>2, <1>3, <1>4 DEF Next, vars, Send, Resend, Deliver, OrphanEnds

\* The invariant holds throughout.
LEMMA LimiterAlways == Spec => []LInv
  BY InitLimiter, StepLimiter, PTL DEF Spec

-----------------------------------------------------------------------------
(* The envelope. *)

\* Slots of one window are fewer than Limit apart, so they are at most Limit.
LEMMA WindowHolds ==
  ASSUME LInv, NEW t \in Nat
  PROVE  Cardinality(Within(t)) <= Limit
  <1> USE IntakeAssumption DEF LInv, LimiterTyped
  <1>1. CASE Within(t) = {}
    BY <1>1, FS_EmptySet
  <1>2. CASE Within(t) # {}
    <2>1. Within(t) \subseteq 1..Len(grants)
      BY DEF Within
    <2>2. PICK m \in Within(t) : \A k \in Within(t) : m <= k
      <3>1. Within(t) \in SUBSET Nat
        BY <2>1
      <3> QED
        BY <1>2, <3>1, LeastMember, Zenon
    <2>3. ASSUME NEW k \in Within(t) PROVE k \in m..m + Limit - 1
      <3> SUFFICES ASSUME k - m >= Limit PROVE FALSE
        BY <2>1, <2>2
      <3>1. grants[k] - grants[m] >= Window
        BY <2>1 DEF SlotsSpread
      <3>2. grants[m] > t - Window /\ grants[k] <= t /\ grants[m] \in Nat /\ grants[k] \in Nat
        BY <2>1 DEF Within
      <3> QED
        BY <3>1, <3>2
    <2>4. m \in Nat
      BY <2>1
    <2>5. IsFiniteSet(m..m + Limit - 1) /\ Cardinality(m..m + Limit - 1) = Limit
      BY <2>4, FS_Interval
    <2> QED
      BY <2>3, <2>5, FS_Subset
  <1> QED
    BY <1>1, <1>2

\* No trailing window ever holds more slots than the limit.
THEOREM EnvelopeHolds == Spec => []WithinEnvelope
  <1>1. LInv => WithinEnvelope
    BY WindowHolds DEF LInv, LimiterTyped, WithinEnvelope
  <1> QED
    BY <1>1, LimiterAlways, PTL

\* An item is turned away only when the trailing window holds Limit slots.
THEOREM RejectionsAreDue == Spec => RejectedOnlyWhenFull
  <1>1. ASSUME LInv, NEW r \in Requests, Reject(r)
        PROVE  Cardinality(Within(now)) = Limit
    <2> USE IntakeAssumption DEF LInv, LimiterTyped
    <2> DEFINE first == Len(grants) - Len(Kept) + 1
    <2>1. Len(Kept) = Limit /\ Len(Kept) <= Len(grants)
      BY <1>1, KeptIsWindow DEF Reject
    <2>2. ASSUME NEW i \in 1..Len(grants)
          PROVE  i \in Within(now) <=> i \in first..Len(grants)
      <3>1. grants[i] <= now /\ grants[i] \in Nat
        BY <1>1 DEF GrantsAscend
      <3>2. CASE i < first
        <4>1. i \in 1..Len(grants) - Len(Kept)
          BY <1>1, <2>1, <3>2
        <4>2. grants[i] <= now - Window
          BY <1>1, <4>1, KeptIsWindow
        <4> QED
          BY <1>1, <3>1, <3>2, <4>2 DEF Within
      <3>3. CASE i >= first
        <4>1. grants[i] > now - Window
          BY <1>1, <2>1, <3>3, KeptIsWindow
        <4> QED
          BY <1>1, <3>1, <3>3, <4>1 DEF Within
      <3> QED
        BY <1>1, <2>1, <3>2, <3>3
    <2>3. Within(now) = first..Len(grants)
      BY <1>1, <2>1, <2>2 DEF Within
    <2> QED
      BY <1>1, <2>1, <2>3, FS_Interval
  <1>2. LInv /\ [Next]_vars =>
          [(\E r \in Requests : Reject(r)) => Cardinality(Within(now)) = Limit]_vars
    BY <1>1
  <1> QED
    BY <1>2, LimiterAlways, PTL DEF Spec, RejectedOnlyWhenFull

=============================================================================
