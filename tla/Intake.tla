------------------------------- MODULE Intake -------------------------------
(***************************************************************************)
(* Admission of telemetry: the two intake endpoints, which share one       *)
(* sliding-window limiter, and the conflict-safe insert that makes a       *)
(* redelivered event the submission it already is.  Requests are handled   *)
(* concurrently, item after item; a client that got no answer, or a        *)
(* retryable one, delivers its batch again.                                *)
(***************************************************************************)
EXTENDS Integers, FiniteSets, SequencesExt

CONSTANTS
  Requests,     \* clients' deliveries in flight
  Batches,      \* the batches they may deliver, sequences of items
  Limit,        \* AdmissionLimit
  Window,       \* AdmissionWindow, in clock ticks
  MaxNow,       \* last clock reading (bound)
  MaxAttempts,  \* deliveries of one request's batch (bound)
  MaxFaults,    \* failed or unacknowledged inserts (bound)
  MaxCrashes    \* stops of the platform process (bound)

Items == UNION {Range(b) : b \in Batches}

ASSUME IntakeAssumption ==
  /\ Batches \subseteq Seq(Items)
  /\ Limit \in Nat \ {0} /\ Window \in Nat \ {0} /\ MaxNow \in Nat
  /\ MaxAttempts \in Nat /\ MaxFaults \in Nat /\ MaxCrashes \in Nat

VARIABLES
  now,       \* the limiter's clock
  times,     \* its stored timestamps, oldest first
  rows,      \* the submissions table
  nextId,    \* its id sequence
  pc,        \* where each request's handler is
  batch,     \* what the request delivers
  results,   \* the items' results so far: the next item is the one after them
  drawn,     \* the id drawn by the request's insert
  status,    \* the response status
  attempts, faults, crashes,
  grants     \* history: the times of all slots this process granted

handler == <<pc, batch, results, drawn, status, attempts>>
limiter == <<now, times, grants>>
table   == <<rows, nextId>>
vars    == <<handler, limiter, table, faults, crashes>>

-----------------------------------------------------------------------------
(* Items, their identity and their key.  A body's identity fields are what *)
(* the endpoints' best-effort decoders make of it, "" when undecodable.    *)

AuditID(item) == IF item.family = "kubernetes" THEN item.body.auditID ELSE ""
Stage(item)   == IF item.family = "kubernetes" THEN item.body.stage ELSE ""
EventID(item) == IF item.family = "aws_cloudtrail" THEN item.body.eventID ELSE ""

\* Mutation of SourceKey: the raw bytes alone when there is no identity.
SourceKeyRawUnscoped(item) ==
  IF EventID(item) # "" THEN <<"ct", EventID(item)>>
  ELSE IF AuditID(item) # "" /\ Stage(item) # "" THEN <<"id", AuditID(item), Stage(item)>>
  ELSE <<"raw", item.body>>

\* Mutation of SourceKey: always the raw bytes.
SourceKeyAlwaysRaw(item) == <<"raw", item.family, item.body>>

SourceKey(item) ==
  IF EventID(item) # "" THEN <<"ct", EventID(item)>>
  ELSE IF AuditID(item) # "" /\ Stage(item) # "" THEN <<"id", AuditID(item), Stage(item)>>
  ELSE <<"raw", item.family, item.body>>

-----------------------------------------------------------------------------
(* The limiter. *)

\* Mutation of InWindow: an entry leaves the window one tick early.
InWindowShort(t) == t > now - Window + 1

\* Mutation of InWindow: an entry exactly one window old still counts.
InWindowClosed(t) == t >= now - Window

\* Strictly after the cutoff.
InWindow(t) == t > now - Window

\* How many of the oldest entries have left the window.
AgedOut ==
  CHOOSE n \in 0..Len(times) :
    /\ \A k \in 1..n : ~InWindow(times[k])
    /\ n < Len(times) => InWindow(times[n + 1])

Kept == SubSeq(times, AgedOut + 1, Len(times))

-----------------------------------------------------------------------------
(* The insert. *)

RowOf(item, id) == [id |-> id, item |-> item, key |-> SourceKey(item)]
Holding(item) == {row \in rows : row.key = SourceKey(item)}

\* Mutation of Upsert: DO UPDATE without its WHERE overwrites the content.
UpsertUnguarded(item, id) ==
  IF Holding(item) = {} THEN rows \cup {RowOf(item, id)}
  ELSE {IF row.key = SourceKey(item) THEN [row EXCEPT !.item = item] ELSE row : row \in rows}

\* A new row, or the one that holds the key as it is.
Upsert(item, id) ==
  IF Holding(item) = {} THEN rows \cup {RowOf(item, id)} ELSE rows

\* What Admit returns: the id of the row with this content, or a conflict.
Answer(item, id) ==
  LET same == {row \in Upsert(item, id) : row.key = SourceKey(item) /\ row.item = item} IN
  IF same = {} THEN [kind |-> "conflict", id |-> 0]
  ELSE [kind |-> "admitted", id |-> (CHOOSE row \in same : TRUE).id]

Capacity == [kind |-> "capacity", id |-> 0]
Failed   == [kind |-> "failed", id |-> 0]

-----------------------------------------------------------------------------
(* The handler of one request. *)

Item(r) == batch[r][Len(results[r]) + 1]
Pending(r) == Len(results[r]) < Len(batch[r])

Deliver(r) ==
  /\ attempts[r] < MaxAttempts
  /\ attempts' = [attempts EXCEPT ![r] = @ + 1]
  /\ pc'       = [pc EXCEPT ![r] = "item"]
  /\ results'  = [results EXCEPT ![r] = << >>]
  /\ status'   = [status EXCEPT ![r] = 0]
  /\ UNCHANGED <<drawn, limiter, table, faults, crashes>>

Send(r, b) ==
  /\ pc[r] = "new"
  /\ batch' = [batch EXCEPT ![r] = b]
  /\ Deliver(r)

\* The answer was not 200, was lost, or the process stopped before it.
Resend(r) ==
  /\ pc[r] \in {"answered", "dropped"}
  /\ Deliver(r)
  /\ UNCHANGED batch

\* The item's result, and on to the next one.
Conclude(r, result) ==
  /\ results' = [results EXCEPT ![r] = Append(@, result)]
  /\ pc'      = [pc EXCEPT ![r] = "item"]

Grant(r) ==
  /\ pc[r] = "item" /\ Pending(r)
  /\ Len(Kept) < Limit
  /\ times'  = Append(Kept, now)
  /\ grants' = Append(grants, now)
  /\ pc'     = [pc EXCEPT ![r] = "admit"]
  /\ UNCHANGED <<now, batch, results, drawn, status, attempts, table, faults, crashes>>

Reject(r) ==
  /\ pc[r] = "item" /\ Pending(r)
  /\ Len(Kept) >= Limit
  /\ times' = Kept
  /\ Conclude(r, Capacity)
  /\ UNCHANGED <<now, grants, batch, drawn, status, attempts, table, faults, crashes>>

\* The insert draws its id before it waits for a concurrent one of the key.
Draw(r) ==
  /\ pc[r] = "admit"
  /\ drawn'  = [drawn EXCEPT ![r] = nextId]
  /\ nextId' = nextId + 1
  /\ pc'     = [pc EXCEPT ![r] = "insert"]
  /\ UNCHANGED <<batch, results, status, attempts, limiter, rows, faults, crashes>>

Settle(r) ==
  /\ pc[r] = "insert"
  /\ rows' = Upsert(Item(r), drawn[r])
  /\ Conclude(r, Answer(Item(r), drawn[r]))
  /\ UNCHANGED <<batch, drawn, status, attempts, limiter, nextId, faults, crashes>>

Fault == faults < MaxFaults /\ faults' = faults + 1

\* The row is there, but the handler sees an error.
SettleUnacknowledged(r) ==
  /\ pc[r] = "insert"
  /\ Fault
  /\ rows' = Upsert(Item(r), drawn[r])
  /\ Conclude(r, Failed)
  /\ UNCHANGED <<batch, drawn, status, attempts, limiter, nextId, crashes>>

AdmitFails(r) ==
  /\ pc[r] \in {"admit", "insert"}
  /\ Fault
  /\ Conclude(r, Failed)
  /\ UNCHANGED <<batch, drawn, status, attempts, limiter, table, crashes>>

Some(res, kind) == \E k \in DOMAIN res : res[k].kind = kind

\* Mutation of StatusOf: a conflict hides a capacity rejection.
StatusConflictFirst(res) ==
  IF Some(res, "failed") THEN 503
  ELSE IF Some(res, "conflict") THEN 409
  ELSE IF Some(res, "capacity") THEN 429
  ELSE 200

StatusOf(res) ==
  IF Some(res, "failed") THEN 503
  ELSE IF Some(res, "capacity") THEN 429
  ELSE IF Some(res, "conflict") THEN 409
  ELSE 200

Respond(r) ==
  /\ pc[r] = "item" /\ ~Pending(r)
  /\ status' = [status EXCEPT ![r] = StatusOf(results[r])]
  /\ pc'     = [pc EXCEPT ![r] = "answered"]
  /\ UNCHANGED <<batch, results, drawn, attempts, limiter, table, faults, crashes>>

-----------------------------------------------------------------------------
(* The rest of the world. *)

Tick ==
  /\ now < MaxNow
  /\ now' = now + 1
  /\ UNCHANGED <<times, grants, handler, table, faults, crashes>>

\* The process stops and starts again with an empty limiter; an insert that
\* was already sent is still decided by the database.
Restart ==
  /\ crashes < MaxCrashes
  /\ crashes' = crashes + 1
  /\ times' = << >> /\ grants' = << >>
  /\ pc' = [r \in Requests |->
              IF pc[r] = "insert" THEN "orphan"
              ELSE IF pc[r] \in {"item", "admit"} THEN "dropped" ELSE pc[r]]
  /\ UNCHANGED <<now, batch, results, drawn, status, attempts, table, faults>>

OrphanEnds(r) ==
  /\ pc[r] = "orphan"
  /\ rows' \in {rows, Upsert(Item(r), drawn[r])}
  /\ pc' = [pc EXCEPT ![r] = "dropped"]
  /\ UNCHANGED <<batch, results, drawn, status, attempts, limiter, nextId, faults, crashes>>

-----------------------------------------------------------------------------
Init ==
  /\ now = 0 /\ times = << >> /\ grants = << >>
  /\ rows = {} /\ nextId = 1
  /\ pc       = [r \in Requests |-> "new"]
  /\ batch    = [r \in Requests |-> << >>]
  /\ results  = [r \in Requests |-> << >>]
  /\ drawn    = [r \in Requests |-> 0]
  /\ status   = [r \in Requests |-> 0]
  /\ attempts = [r \in Requests |-> 0]
  /\ faults = 0 /\ crashes = 0

Handle(r) ==
  \/ Grant(r) \/ Reject(r) \/ Draw(r) \/ Settle(r) \/ SettleUnacknowledged(r)
  \/ AdmitFails(r) \/ Respond(r)

Next ==
  \/ \E r \in Requests : \E b \in Batches : Send(r, b)
  \/ \E r \in Requests : Resend(r) \/ Handle(r) \/ OrphanEnds(r)
  \/ Tick \/ Restart

Spec == Init /\ [][Next]_vars

=============================================================================
