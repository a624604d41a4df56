------------------------------- MODULE Bridge -------------------------------
(***************************************************************************)
(* The CloudTrail bridge: one process that receives an event at a time     *)
(* from an SQS queue, posts its record to the platform and deletes it from *)
(* the queue once admitted.  The queue redelivers what is not deleted, up  *)
(* to MaxReceive times; the platform records an event once.  Both are      *)
(* external to the bridge; the operator repairs its configuration and      *)
(* restarts it.                                                            *)
(***************************************************************************)
EXTENDS Integers, Sequences

CONSTANTS
  Messages,        \* the queue's messages
  Usable,          \* those whose envelope carries a record
  RecordOf,        \* the record of each message, [event, body]
  MaxReceive,      \* the redrive policy's maxReceiveCount
  InitialBackoff, MaxBackoff,
  Misanswers,      \* what posts to a wrong endpoint, or with a wrong token, may yield
  MaxFaults        \* failed calls, stops and misconfigurations (bound)

NoMessage == "none"

ASSUME BridgeAssumption ==
  /\ Usable \subseteq Messages /\ NoMessage \notin Messages
  /\ MaxReceive \in Nat \ {0} /\ MaxFaults \in Nat
  /\ Misanswers \subseteq Nat \ {200}
  /\ InitialBackoff \in Nat \ {0} /\ MaxBackoff \in Nat /\ InitialBackoff <= MaxBackoff

VARIABLES
  queue,     \* where each message is: unsent, visible, inflight, dlq, deleted
  receives,  \* its receive count
  recorded,  \* the records the platform holds
  late,      \* records of posts given up, which the platform may yet insert
  broken,    \* {}, or the one status every post gets from a wrong endpoint or token
  pc,        \* stopped, polling, posting, deleting or sleeping
  held,      \* the message being posted or deleted
  backoff,   \* the duration of the next sleep
  faults, starts,
  streak,    \* history: the sleeps since the backoff was last reset, the cap once
  wasted     \* history: the receives of each message an untold misconfiguration cost it

sqs      == <<queue, receives>>
platform == <<recorded, late>>
bridge   == <<pc, held, backoff, streak>>
vars     == <<sqs, platform, broken, bridge, faults, starts, wasted>>

Records == {RecordOf[m] : m \in Usable}

-----------------------------------------------------------------------------
(* The platform's answer to a post (modules Intake and IntakeProperties).  *)

Conflicting(rec) == {other \in recorded : other.event = rec.event /\ other # rec}
Upsert(rec) == IF Conflicting(rec) = {} THEN recorded \cup {rec} ELSE recorded
StatusFor(rec) == IF Conflicting(rec) = {} THEN 200 ELSE 409

-----------------------------------------------------------------------------
(* The four outcomes of a message; 0 stands for no response.               *)

\* Mutation of classifyStatus: a conflict counts as already admitted.
classifyStatusConflictDeletes(s) ==
  CASE s \in {200, 409} -> "delete" [] s \in {401, 403, 404, 405} -> "fatal" [] OTHER -> "retainBackoff"

\* Mutation of classifyStatus: a wrong endpoint is blamed on the message.
classifyStatusRetains404(s) ==
  CASE s = 200 -> "delete" [] s \in {401, 403} -> "fatal"
    [] s \in {0, 429} \/ s >= 500 -> "retainBackoff" [] OTHER -> "retainImmediate"

\* Mutation of classifyStatus: an overload is taken for an admission.
classifyStatusOverloadDeletes(s) ==
  CASE s \in {200, 429} -> "delete" [] s \in {401, 403, 404, 405} -> "fatal"
    [] s = 0 \/ s >= 500 -> "retainBackoff" [] OTHER -> "retainImmediate"

classifyStatus(s) ==
  CASE s = 200                       -> "delete"
    [] s \in {401, 403, 404, 405}    -> "fatal"
    [] s \in {0, 429} \/ s >= 500    -> "retainBackoff"
    [] OTHER                         -> "retainImmediate"

\* Mutation of PcAfter: any failure ends the loop.
PcAfterStops(outcome) == IF outcome = "delete" THEN "deleting" ELSE "stopped"

\* Where the loop goes next.
PcAfter(outcome) ==
  CASE outcome = "delete"          -> "deleting"
    [] outcome = "retainImmediate" -> "polling"
    [] outcome = "retainBackoff"   -> "sleeping"
    [] outcome = "fatal"           -> "stopped"

Conclude(outcome) ==
  /\ pc'   = PcAfter(outcome)
  /\ held' = IF outcome = "delete" THEN held ELSE NoMessage
  /\ UNCHANGED <<backoff, streak>>

Reset ==
  /\ pc' = "polling" /\ held' = NoMessage
  /\ backoff' = InitialBackoff /\ streak' = <<>>

\* The statuses that cannot be about one message (post.go, outcomeFatal).
Telling == {401, 403, 404, 405}

Fault == faults < MaxFaults /\ faults' = faults + 1

-----------------------------------------------------------------------------
(* The run loop: receive. *)

ReceiveEmpty ==
  /\ pc = "polling"
  /\ Reset
  /\ UNCHANGED <<sqs, platform, broken, faults, starts, wasted>>

\* A message received; one without a usable envelope is left as it is.
Receive(m) ==
  /\ pc = "polling"
  /\ queue[m] = "visible" /\ receives[m] < MaxReceive
  /\ queue'    = [queue EXCEPT ![m] = "inflight"]
  /\ receives' = [receives EXCEPT ![m] = @ + 1]
  /\ IF m \in Usable
     THEN pc' = "posting" /\ held' = m /\ UNCHANGED <<backoff, streak>>
     ELSE Conclude("retainImmediate")
  /\ UNCHANGED <<platform, broken, faults, starts, wasted>>

ReceiveFails ==
  /\ pc = "polling"
  /\ Fault
  /\ \/ Conclude("retainBackoff")
     \/ Conclude("fatal")
  /\ UNCHANGED <<sqs, platform, broken, starts, wasted>>

-----------------------------------------------------------------------------
(* The run loop: post, delete, sleep. *)

Post ==
  /\ pc = "posting" /\ broken = {}
  /\ recorded' = Upsert(RecordOf[held])
  /\ Conclude(classifyStatus(StatusFor(RecordOf[held])))
  /\ UNCHANGED <<sqs, late, broken, faults, starts, wasted>>

\* A malformed or unreachable endpoint has no answer, and a wrong path or
\* token always the same one; the history takes the statuses that tell a
\* misconfiguration from a bad message for free.
PostMisdirected ==
  /\ pc = "posting"
  /\ \E status \in broken :
       /\ Conclude(classifyStatus(status))
       /\ wasted' = [wasted EXCEPT ![held] = IF status \in Telling THEN @ ELSE @ + 1]
  /\ UNCHANGED <<sqs, platform, broken, faults, starts>>

PostRejected ==
  /\ pc = "posting" /\ broken = {}
  /\ Fault
  /\ Conclude(classifyStatus(429))
  /\ UNCHANGED <<sqs, platform, broken, starts, wasted>>

\* No answer in time, or an error after the insert was sent.
PostFails ==
  /\ pc = "posting" /\ broken = {}
  /\ Fault
  /\ \E status \in {0, 503} : Conclude(classifyStatus(status))
  /\ late' = late \cup {RecordOf[held]}
  /\ UNCHANGED <<sqs, recorded, broken, starts, wasted>>

Deleted == [queue EXCEPT ![held] = "deleted"]

Delete ==
  /\ pc = "deleting"
  /\ queue' = Deleted
  /\ Reset
  /\ UNCHANGED <<receives, platform, broken, faults, starts, wasted>>

\* The call fails, whether or not the queue carried it out.
DeleteFails ==
  /\ pc = "deleting"
  /\ Fault
  /\ \/ queue' \in {queue, Deleted} /\ Reset
     \/ queue' = queue /\ Conclude("fatal")
  /\ UNCHANGED <<receives, platform, broken, starts, wasted>>

\* Mutation of NextBackoff: no cap.
NextBackoffUncapped == 2 * backoff

NextBackoff == IF 2 * backoff > MaxBackoff THEN MaxBackoff ELSE 2 * backoff

\* The last sleep was a capped one: the history does not repeat it.
AtCap == streak # <<>> /\ streak[Len(streak)] = MaxBackoff

sleepWithBackoff ==
  /\ pc = "sleeping"
  /\ pc' = "polling"
  /\ streak'  = IF AtCap THEN streak ELSE Append(streak, backoff)
  /\ backoff' = NextBackoff
  /\ UNCHANGED <<sqs, platform, broken, held, faults, starts, wasted>>

-----------------------------------------------------------------------------
(* The process and its surroundings. *)

\* A signal or a crash at any point; what was sent may still take effect.
Stop ==
  /\ pc # "stopped"
  /\ Fault
  /\ pc' = "stopped" /\ held' = NoMessage
  /\ late'  = IF pc = "posting" /\ broken = {} THEN late \cup {RecordOf[held]} ELSE late
  /\ queue' \in IF pc = "deleting" THEN {queue, Deleted} ELSE {queue}
  /\ UNCHANGED <<receives, recorded, broken, backoff, streak, starts, wasted>>

\* The operator repairs the configuration and starts the bridge again, once
\* for every fault that can have stopped it.
Start ==
  /\ pc = "stopped" /\ starts <= MaxFaults
  /\ starts' = starts + 1
  /\ broken' = {}
  /\ Reset
  /\ UNCHANGED <<sqs, platform, faults, wasted>>

Misconfigure ==
  /\ broken = {}
  /\ Fault
  /\ \E status \in Misanswers : broken' = {status}
  /\ UNCHANGED <<sqs, platform, bridge, starts, wasted>>

Late(rec) ==
  /\ rec \in late
  /\ late' = late \ {rec}
  /\ recorded' \in {recorded, Upsert(rec)}
  /\ UNCHANGED <<sqs, broken, bridge, faults, starts, wasted>>

Move(m, from, to) == queue[m] = from /\ queue' = [queue EXCEPT ![m] = to]

Send(m) ==
  /\ Move(m, "unsent", "visible")
  /\ UNCHANGED <<receives, platform, broken, bridge, faults, starts, wasted>>

\* The visibility timeout ends, perhaps while the bridge still works on it.
Expire(m) ==
  /\ Move(m, "inflight", "visible")
  /\ UNCHANGED <<receives, platform, broken, bridge, faults, starts, wasted>>

\* A poll finds the message received too often already.
Redrive(m) ==
  /\ pc = "polling" /\ receives[m] = MaxReceive
  /\ Move(m, "visible", "dlq")
  /\ UNCHANGED <<receives, platform, broken, bridge, faults, starts, wasted>>

-----------------------------------------------------------------------------
Init ==
  /\ queue = [m \in Messages |-> "unsent"] /\ receives = [m \in Messages |-> 0]
  /\ recorded = {} /\ late = {} /\ broken = {}
  /\ pc = "stopped" /\ held = NoMessage /\ backoff = InitialBackoff
  /\ faults = 0 /\ starts = 0 /\ streak = <<>>
  /\ wasted = [m \in Messages |-> 0]

Posting == Post \/ PostMisdirected \/ PostRejected \/ PostFails
Deleting == Delete \/ DeleteFails

Next ==
  \/ ReceiveEmpty \/ ReceiveFails \/ Posting \/ Deleting \/ sleepWithBackoff
  \/ Stop \/ Start \/ Misconfigure
  \/ \E m \in Messages : Receive(m) \/ Send(m) \/ Expire(m) \/ Redrive(m)
  \/ \E rec \in Records : Late(rec)

Spec == Init /\ [][Next]_vars

\* Calls return, the operator restarts, a timeout ends, and a queue that is
\* polled again and again delivers each visible message some time.
Fairness ==
  /\ WF_vars(Posting) /\ WF_vars(Deleting) /\ WF_vars(sleepWithBackoff) /\ WF_vars(Start)
  /\ \A m \in Messages : WF_vars(Expire(m)) /\ SF_vars(Receive(m) \/ Redrive(m))

FairSpec == Spec /\ Fairness

=============================================================================
