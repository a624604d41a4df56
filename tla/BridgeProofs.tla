---------------------------- MODULE BridgeProofs ----------------------------
(***************************************************************************)
(* Theorems about module Bridge, for every set of messages and records,    *)
(* every redrive policy, and any bound on faults.                          *)
(***************************************************************************)
EXTENDS BridgeProperties, TLAPS

-----------------------------------------------------------------------------
(* The operators the loop is built from. *)

\* The loop always knows where to go next.
LEMMA PcAfterType ==
  ASSUME NEW s \in Nat
  PROVE  /\ classifyStatus(s) \in {"delete", "retainImmediate", "retainBackoff", "fatal"}
         /\ classifyStatus(s) = "delete" <=> s = 200
  BY DEF classifyStatus

\* The platform forgets no record, and holds a record it answers 200 for.
LEMMA UpsertGrows ==
  ASSUME NEW rec \in Records, recorded \subseteq Records
  PROVE  /\ recorded \subseteq Upsert(rec) /\ Upsert(rec) \subseteq Records
         /\ StatusFor(rec) \in {200, 409}
         /\ StatusFor(rec) = 200 => rec \in Upsert(rec)
         /\ StatusFor(rec) = 409 => Conflicting(rec) # {}
  BY DEF Upsert, StatusFor

\* Doubling keeps the backoff within its cap.
LEMMA NextBackoffType ==
  ASSUME backoff \in InitialBackoff..MaxBackoff
  PROVE  NextBackoff \in InitialBackoff..MaxBackoff
  BY BridgeAssumption DEF NextBackoff

\* A record no other record contradicts is never refused.
LEMMA RecordableNeverConflicts ==
  ASSUME NEW m \in Recordable, recorded \subseteq Records
  PROVE  Conflicting(RecordOf[m]) = {}
  BY DEF Recordable, Conflicting, Records

-----------------------------------------------------------------------------
(* Types. *)

TInv == TypeOK /\ faults \in Nat

\* The bridge starts stopped, with an empty queue.
LEMMA InitTyped == Init => TInv
  <1> SUFFICES ASSUME Init PROVE TInv
    OBVIOUS
  <1>1. broken = {} /\ wasted \in [Messages -> Nat]
    BY DEF Init
  <1>2. /\ held \in Usable \cup {NoMessage}
        /\ held = NoMessage /\ pc \notin {"posting", "deleting"}
    BY DEF Init
  <1>3. /\ queue \in [Messages -> {"unsent", "visible", "inflight", "dlq", "deleted"}]
        /\ receives \in [Messages -> 0..MaxReceive]
        /\ backoff \in InitialBackoff..MaxBackoff /\ faults \in Nat
    BY BridgeAssumption DEF Init
  <1> QED
    BY <1>1, <1>2, <1>3 DEF Init, TInv, TypeOK

\* Wherever a message's outcome sends the loop, what it holds fits.
LEMMA ConcludeTyped ==
  ASSUME TypeOK, NEW outcome \in {"delete", "retainImmediate", "retainBackoff", "fatal"},
         Conclude(outcome), outcome = "delete" => pc = "posting"
  PROVE  /\ pc' \in {"stopped", "polling", "posting", "deleting", "sleeping"}
         /\ held' \in Usable \cup {NoMessage}
         /\ (held' # NoMessage) = (pc' \in {"posting", "deleting"})
         /\ backoff' \in InitialBackoff..MaxBackoff
         /\ pc' = "deleting" => outcome = "delete" /\ held' = held
         /\ pc' # "posting"
         /\ outcome # "delete" => held' = NoMessage
  BY DEF Conclude, PcAfter, TypeOK

\* Every step of the bridge, the queue, the platform and the operator keeps
\* the variables well typed.
LEMMA StepTyped == TInv /\ [Next]_vars => TInv'
  <1> SUFFICES ASSUME TInv, [Next]_vars PROVE TInv'
    OBVIOUS
  <1> USE BridgeAssumption DEF TInv
  <1>1. CASE UNCHANGED vars
    BY <1>1 DEF vars, sqs, platform, bridge, TypeOK
  <1>2. CASE ReceiveEmpty
    BY <1>2 DEF ReceiveEmpty, Reset, sqs, platform, TypeOK
  <1>3. CASE ReceiveFails
    BY <1>3, ConcludeTyped DEF ReceiveFails, Fault, sqs, platform, TypeOK
  <1>4. CASE Posting
    <2>1. pc = "posting" /\ held \in Usable /\ RecordOf[held] \in Records
      BY <1>4 DEF Posting, Post, PostMisdirected, PostRejected, PostFails, TypeOK, Records
    <2>2. CASE Post
      <3>1. /\ StatusFor(RecordOf[held]) \in Nat
            /\ recorded' \subseteq Records
        BY <2>1, <2>2, UpsertGrows DEF Post, TypeOK
      <3> QED
        BY <2>1, <2>2, <3>1, PcAfterType, ConcludeTyped DEF Post, sqs, TypeOK
    <2>3. CASE PostMisdirected
      <3>1. PICK status \in broken :
              /\ Conclude(classifyStatus(status))
              /\ wasted' = [wasted EXCEPT ![held] = IF status \in Telling THEN @ ELSE @ + 1]
        BY <2>3 DEF PostMisdirected
      <3>2. status \in Nat /\ held \in Messages
        BY <2>1 DEF TypeOK
      <3>3. wasted' \in [Messages -> Nat]
        BY <3>1, <3>2 DEF TypeOK
      <3> QED
        BY <2>1, <2>3, <3>1, <3>2, <3>3, PcAfterType, ConcludeTyped
        DEF PostMisdirected, sqs, platform, TypeOK
    <2>4. CASE PostRejected
      BY <2>1, <2>4, PcAfterType, ConcludeTyped DEF PostRejected, Fault, sqs, platform, TypeOK
    <2>5. CASE PostFails
      BY <2>1, <2>5, PcAfterType, ConcludeTyped DEF PostFails, Fault, sqs, TypeOK
    <2> QED
      BY <1>4, <2>2, <2>3, <2>4, <2>5 DEF Posting
  <1>5. CASE Deleting
    <2>1. Deleted \in [Messages -> {"unsent", "visible", "inflight", "dlq", "deleted"}]
      BY DEF Deleted, TypeOK
    <2>2. CASE Delete
      BY <2>1, <2>2 DEF Delete, Reset, platform, TypeOK
    <2>3. CASE DeleteFails
      BY <2>1, <2>3, ConcludeTyped DEF DeleteFails, Fault, Reset, platform, TypeOK
    <2> QED
      BY <1>5, <2>2, <2>3 DEF Deleting
  <1>6. CASE sleepWithBackoff
    BY <1>6, NextBackoffType DEF sleepWithBackoff, sqs, platform, TypeOK
  <1>7. CASE Stop
    BY <1>7 DEF Stop, Fault, Deleted, Records, TypeOK
  <1>8. CASE Start
    <2>1. broken' = {}
      BY <1>8 DEF Start
    <2> QED
      BY <1>8, <2>1 DEF Start, Reset, sqs, platform, TypeOK
  <1>9. CASE Misconfigure
    BY <1>9 DEF Misconfigure, Fault, sqs, platform, bridge, TypeOK
  <1>10. ASSUME NEW m \in Messages, Receive(m) PROVE TInv'
    <2>1. /\ queue' \in [Messages -> {"unsent", "visible", "inflight", "dlq", "deleted"}]
          /\ receives' \in [Messages -> 0..MaxReceive]
      BY <1>10 DEF Receive, TypeOK
    <2> QED
      BY <1>10, <2>1, ConcludeTyped DEF Receive, platform, TypeOK
  <1>11. ASSUME NEW m \in Messages, Send(m) \/ Expire(m) \/ Redrive(m) PROVE TInv'
    BY <1>11 DEF Send, Expire, Redrive, Move, platform, bridge, TypeOK
  <1>12. ASSUME NEW rec \in Records, Late(rec) PROVE TInv'
    BY <1>12, UpsertGrows DEF Late, sqs, bridge, TypeOK
  <1> QED
    BY <1>1, <1>2, <1>3, <1>4, <1>5, <1>6, <1>7, <1>8, <1>9, <1>10, <1>11, <1>12 DEF Next

\* Every variable of the bridge and its surroundings keeps its kind, and a
\* message is held exactly while it is being posted or deleted.
THEOREM TypeCorrect == Spec => []TypeOK
  <1>1. Spec => []TInv
    BY InitTyped, StepTyped, PTL DEF Spec
  <1> QED
    BY <1>1, PTL DEF TInv

-----------------------------------------------------------------------------
(* What is deleted is recorded: the bridge goes on to the deletion of a    *)
(* message only with its record at the platform, which forgets none.       *)

Confirmed == pc = "deleting" => RecordOf[held] \in recorded

SInv == TInv /\ Confirmed /\ DeletedIsRecorded

\* Nothing is deleted or being deleted at the start.
LEMMA InitConfirmed == Init => Confirmed /\ DeletedIsRecorded
  BY DEF Init, Confirmed, DeletedIsRecorded

\* A step that leaves the queue's deleted messages alone, forgets no record
\* and does not go on to a deletion keeps what was deleted recorded.
LEMMA KeepsConfirmed ==
  ASSUME SInv, recorded \subseteq recorded',
         pc' = "deleting" => pc = "deleting" /\ held' = held,
         \A m \in Messages : queue'[m] = "deleted" =>
           queue[m] = "deleted" \/ (pc = "deleting" /\ m = held)
  PROVE  Confirmed' /\ DeletedIsRecorded'
  BY BridgeAssumption DEF SInv, TInv, TypeOK, Confirmed, DeletedIsRecorded

\* Every step keeps the deleted messages' records at the platform.
LEMMA StepConfirmed == SInv /\ [Next]_vars => Confirmed' /\ DeletedIsRecorded'
  <1> SUFFICES ASSUME SInv, [Next]_vars PROVE Confirmed' /\ DeletedIsRecorded'
    OBVIOUS
  <1> USE DEF SInv, TInv
  <1>1. CASE UNCHANGED vars \/ Misconfigure
    BY <1>1, KeepsConfirmed DEF vars, Misconfigure, sqs, platform, bridge
  <1>2. CASE ReceiveEmpty \/ Start \/ sleepWithBackoff
    BY <1>2, KeepsConfirmed DEF ReceiveEmpty, Start, sleepWithBackoff, Reset, sqs, platform
  <1>3. CASE ReceiveFails
    BY <1>3, ConcludeTyped, KeepsConfirmed DEF ReceiveFails, sqs, platform
  <1>4. CASE Posting
    <2>1. pc = "posting" /\ held \in Usable /\ RecordOf[held] \in Records
      BY <1>4, BridgeAssumption
      DEF Posting, Post, PostMisdirected, PostRejected, PostFails, TypeOK, Records
    <2>2. CASE Post
      <3>1. /\ recorded \subseteq recorded' /\ recorded' = Upsert(RecordOf[held])
            /\ StatusFor(RecordOf[held]) \in Nat /\ queue' = queue
        BY <2>1, <2>2, UpsertGrows DEF Post, TypeOK, sqs
      <3>2. pc' = "deleting" => held' = held /\ StatusFor(RecordOf[held]) = 200
        BY <2>1, <2>2, <3>1, PcAfterType, ConcludeTyped DEF Post
      <3>3. Confirmed'
        BY <2>1, <3>1, <3>2, UpsertGrows DEF Confirmed, TypeOK
      <3> QED
        BY <3>1, <3>3 DEF DeletedIsRecorded
    <2>3. CASE PostMisdirected
      <3>1. PICK status \in broken : Conclude(classifyStatus(status))
        BY <2>3 DEF PostMisdirected
      <3>2. status \in Nat /\ status # 200
        BY BridgeAssumption DEF TypeOK
      <3> QED
        BY <2>1, <2>3, <3>1, <3>2, PcAfterType, ConcludeTyped, KeepsConfirmed
        DEF PostMisdirected, sqs, platform
    <2>4. CASE PostRejected
      BY <2>1, <2>4, PcAfterType, ConcludeTyped, KeepsConfirmed DEF PostRejected, sqs, platform
    <2>5. CASE PostFails
      BY <2>1, <2>5, PcAfterType, ConcludeTyped, KeepsConfirmed DEF PostFails, sqs
    <2> QED
      BY <1>4, <2>2, <2>3, <2>4, <2>5 DEF Posting
  <1>5. CASE Deleting
    <2>1. \A m \in Messages : Deleted[m] = "deleted" => queue[m] = "deleted" \/ m = held
      BY DEF Deleted, TypeOK
    <2>2. CASE Delete
      BY <2>1, <2>2, KeepsConfirmed DEF Delete, Reset, platform
    <2>3. CASE DeleteFails
      BY <2>1, <2>3, ConcludeTyped, KeepsConfirmed DEF DeleteFails, Reset, platform
    <2> QED
      BY <1>5, <2>2, <2>3 DEF Deleting
  <1>6. CASE Stop
    BY <1>6, KeepsConfirmed DEF Stop, Deleted, TypeOK
  <1>7. ASSUME NEW m \in Messages, Receive(m) PROVE Confirmed' /\ DeletedIsRecorded'
    BY <1>7, ConcludeTyped, KeepsConfirmed DEF Receive, platform, TypeOK
  <1>8. ASSUME NEW m \in Messages, Send(m) \/ Expire(m) \/ Redrive(m)
        PROVE  Confirmed' /\ DeletedIsRecorded'
    BY <1>8, KeepsConfirmed DEF Send, Expire, Redrive, Move, platform, bridge, TypeOK
  <1>9. ASSUME NEW rec \in Records, Late(rec) PROVE Confirmed' /\ DeletedIsRecorded'
    BY <1>9, UpsertGrows, KeepsConfirmed DEF Late, sqs, bridge, TypeOK
  <1> QED
    BY <1>1, <1>2, <1>3, <1>4, <1>5, <1>6, <1>7, <1>8, <1>9 DEF Next

\* The two invariants the last theorem needs as well, together.
LEMMA ConfirmedAlways == Spec => []SInv
  <1>1. Init => SInv
    BY InitTyped, InitConfirmed DEF SInv
  <1>2. SInv /\ [Next]_vars => SInv'
    BY StepTyped, StepConfirmed DEF SInv
  <1> QED
    BY <1>1, <1>2, PTL DEF Spec

\* A message is deleted only when the platform holds exactly its record.
THEOREM DeletionIsSafe == Spec => []DeletedIsRecorded
  BY ConfirmedAlways, PTL DEF SInv

-----------------------------------------------------------------------------
(* One fault costs a good event at most one of its receives, but for the   *)
(* posts wasted on an endpoint that is wrong and does not tell: what it    *)
(* has been received beyond those is the receive in progress, and a        *)
(* misconfiguration of the running bridge that will tell is a fault not    *)
(* yet paid for.                                                           *)

Unrecorded(m) == m \in Recordable /\ RecordOf[m] \notin recorded
InProgress(m) == IF held = m THEN 1 ELSE 0
Owed == IF broken \cap Telling # {} /\ pc # "stopped" THEN 1 ELSE 0

Charged ==
  \A m \in Usable :
    Unrecorded(m) => receives[m] + Owed <= faults + wasted[m] + InProgress(m)

FInv == SInv /\ Charged /\ OneFaultDoesNotDrain

\* A step that does not advance a good event's receives beyond the faults
\* keeps the account and puts no message aside.
LEMMA KeepsCharged ==
  ASSUME FInv, TInv', recorded \subseteq recorded', faults <= faults',
         \A m \in Usable : wasted[m] <= wasted'[m],
         \A m \in Usable : queue'[m] = "dlq" => queue[m] = "dlq",
         \A m \in Usable : Unrecorded(m)' =>
           receives'[m] - receives[m] + (Owed' - Owed)
             <= (faults' - faults) + (wasted'[m] - wasted[m])
                + (InProgress(m)' - InProgress(m))
  PROVE  Charged' /\ OneFaultDoesNotDrain'
  <1> USE BridgeAssumption DEF FInv, SInv, TInv
  <1>1. \A m \in Usable : Unrecorded(m)' => Unrecorded(m)
    BY DEF Unrecorded, Recordable
  <1>2. Charged'
    <2> SUFFICES ASSUME NEW m \in Usable, Unrecorded(m)'
                 PROVE  receives'[m] + Owed' <= faults' + wasted'[m] + InProgress(m)'
      BY DEF Charged
    <2>1. receives[m] + Owed <= faults + wasted[m] + InProgress(m)
      BY <1>1 DEF Charged
    <2>2. /\ receives[m] \in Int /\ receives'[m] \in Int
          /\ wasted[m] \in Int /\ wasted'[m] \in Int
          /\ Owed \in Int /\ Owed' \in Int /\ InProgress(m) \in Int /\ InProgress(m)' \in Int
      BY DEF TypeOK, Owed, InProgress
    <2> QED
      BY <2>1, <2>2
  <1>3. OneFaultDoesNotDrain'
    <2> SUFFICES ASSUME NEW m \in Recordable, queue'[m] = "dlq", RecordOf[m] \notin recorded'
                 PROVE  faults' + wasted'[m] >= MaxReceive
      BY DEF OneFaultDoesNotDrain
    <2>1. m \in Usable /\ m \in Messages
      BY DEF Recordable
    <2>2. faults + wasted[m] >= MaxReceive
      BY <2>1 DEF OneFaultDoesNotDrain
    <2>3. wasted[m] \in Int /\ wasted'[m] \in Int /\ wasted[m] <= wasted'[m]
      BY <2>1 DEF TypeOK
    <2> QED
      BY <2>2, <2>3
  <1> QED
    BY <1>2, <1>3

\* No good event has been received at the start.
LEMMA InitCharged == Init => Charged /\ OneFaultDoesNotDrain
  BY BridgeAssumption DEF Init, Charged, OneFaultDoesNotDrain, Recordable, Owed, InProgress

\* Every step keeps the account.
LEMMA StepCharged == FInv /\ [Next]_vars => Charged' /\ OneFaultDoesNotDrain'
  <1> SUFFICES ASSUME FInv, [Next]_vars PROVE Charged' /\ OneFaultDoesNotDrain'
    OBVIOUS
  <1> USE BridgeAssumption DEF FInv, SInv, TInv
  <1>1. TInv'
    BY StepTyped
  <1>2. /\ faults \in Nat /\ faults' \in Nat /\ NoMessage \notin Usable
        /\ \A m \in Usable : /\ receives[m] \in Int /\ receives'[m] \in Int
                            /\ wasted[m] \in Int /\ wasted'[m] \in Int
    BY <1>1 DEF TypeOK
  <1>3. CASE UNCHANGED vars
    BY <1>1, <1>2, <1>3, KeepsCharged DEF vars, sqs, platform, bridge, Owed, InProgress
  <1>4. CASE ReceiveEmpty \/ Start \/ sleepWithBackoff
    BY <1>1, <1>2, <1>4, KeepsCharged
    DEF ReceiveEmpty, Start, sleepWithBackoff, Reset, sqs, platform, Owed, InProgress, TypeOK
  <1>5. CASE ReceiveFails
    BY <1>1, <1>2, <1>5, KeepsCharged
    DEF ReceiveFails, Fault, Conclude, PcAfter, sqs, platform, Owed, InProgress, TypeOK
  <1>6. CASE Posting
    <2>1. pc = "posting" /\ held \in Usable /\ RecordOf[held] \in Records
      BY <1>6 DEF Posting, Post, PostMisdirected, PostRejected, PostFails, TypeOK, Records
    <2>2. CASE Post
      <3>1. /\ recorded \subseteq recorded' /\ recorded' = Upsert(RecordOf[held])
            /\ queue' = queue /\ receives' = receives /\ faults' = faults
            /\ wasted' = wasted /\ broken = {} /\ broken' = {}
        BY <2>1, <2>2, UpsertGrows DEF Post, TypeOK, sqs
      <3>2. \A m \in Usable : Unrecorded(m)' => m # held
        <4> SUFFICES held \in Recordable => RecordOf[held] \in recorded'
          BY DEF Unrecorded, Recordable
        <4> QED
          BY <2>1, <3>1, RecordableNeverConflicts DEF Upsert, TypeOK
      <3>3. \A m \in Usable : Unrecorded(m)' => InProgress(m) = 0 /\ InProgress(m)' = 0
        BY <1>2, <2>2, <3>2 DEF Post, Conclude, InProgress
      <3>4. Owed = 0 /\ Owed' = 0
        BY <3>1 DEF Owed
      <3> QED
        BY <1>1, <1>2, <3>1, <3>3, <3>4, KeepsCharged
    <2>3. CASE PostMisdirected
      <3>1. PICK status \in broken :
              /\ Conclude(classifyStatus(status))
              /\ wasted' = [wasted EXCEPT ![held] = IF status \in Telling THEN @ ELSE @ + 1]
        BY <2>3 DEF PostMisdirected
      <3>2. /\ status \in Nat /\ status # 200 /\ broken = {status}
            /\ held \in Messages /\ wasted \in [Messages -> Nat]
        BY <2>1 DEF TypeOK
      <3>3. /\ held' = NoMessage /\ broken' = broken /\ faults' = faults
            /\ queue' = queue /\ receives' = receives /\ recorded' = recorded
        BY <2>1, <2>3, <3>1, <3>2, PcAfterType, ConcludeTyped
        DEF PostMisdirected, sqs, platform
      <3>4. CASE status \in Telling
        <4>1. classifyStatus(status) = "fatal"
          BY <3>4 DEF classifyStatus, Telling
        <4>2. pc' = "stopped" /\ wasted' = wasted
          BY <3>1, <3>2, <3>4, <4>1 DEF Conclude, PcAfter
        <4>3. Owed = 1 /\ Owed' = 0
          BY <2>1, <3>2, <3>4, <4>2 DEF Owed
        <4>4. \A m \in Usable : InProgress(m)' - InProgress(m) \in {0, -1}
          BY <1>2, <3>3 DEF InProgress
        <4> QED
          BY <1>1, <1>2, <3>3, <4>2, <4>3, <4>4, KeepsCharged
      <3>5. CASE status \notin Telling
        <4>1. Owed = 0 /\ Owed' = 0
          BY <3>2, <3>3, <3>5 DEF Owed
        <4>2. \A m \in Usable : wasted'[m] - wasted[m] = InProgress(m) /\ InProgress(m)' = 0
          BY <1>2, <3>1, <3>2, <3>3, <3>5 DEF InProgress
        <4>3. \A m \in Usable : InProgress(m) \in 0..1
          BY DEF InProgress
        <4>4. \A m \in Usable : wasted[m] <= wasted'[m]
          BY <1>2, <4>2, <4>3
        <4>5. \A m \in Usable : receives'[m] - receives[m] + (Owed' - Owed)
                <= (faults' - faults) + (wasted'[m] - wasted[m]) + (InProgress(m)' - InProgress(m))
          BY <1>2, <3>3, <4>1, <4>2, <4>3
        <4> QED
          BY <1>1, <1>2, <3>3, <4>4, <4>5, KeepsCharged
      <3> QED
        BY <3>4, <3>5
    <2>4. CASE PostRejected \/ PostFails
      <3>1. /\ faults' = faults + 1 /\ receives' = receives /\ queue' = queue
            /\ recorded' = recorded /\ wasted' = wasted /\ broken = {} /\ broken' = {}
        BY <2>4 DEF PostRejected, PostFails, Fault, sqs, platform
      <3>2. Owed = 0 /\ Owed' = 0
        BY <3>1 DEF Owed
      <3>3. \A m \in Usable : InProgress(m) \in 0..1 /\ InProgress(m)' \in 0..1
        BY DEF InProgress
      <3> QED
        BY <1>1, <1>2, <3>1, <3>2, <3>3, KeepsCharged
    <2> QED
      BY <1>6, <2>2, <2>3, <2>4 DEF Posting
  <1>7. CASE Deleting
    <2>1. /\ pc = "deleting" /\ held \in Usable /\ RecordOf[held] \in recorded
          /\ recorded' = recorded /\ receives' = receives /\ broken' = broken
          /\ wasted' = wasted
          /\ faults <= faults' /\ held' = NoMessage
          /\ \A m \in Messages : queue'[m] = "dlq" => queue[m] = "dlq"
      <3>1. pc = "deleting" /\ held \in Usable /\ RecordOf[held] \in recorded
        BY <1>7 DEF Deleting, Delete, DeleteFails, TypeOK, Confirmed
      <3>2. held' = NoMessage
        BY <1>7 DEF Deleting, Delete, DeleteFails, Reset, Conclude
      <3> QED
        BY <1>2, <1>7, <3>1, <3>2
        DEF Deleting, Delete, DeleteFails, Deleted, Fault, platform, TypeOK
    <2>2. pc' \in {"polling", "stopped"}
      BY <1>7 DEF Deleting, Delete, DeleteFails, Reset, Conclude, PcAfter
    <2>3. Owed' <= Owed /\ Owed \in Int /\ Owed' \in Int
      BY <2>1, <2>2 DEF Owed
    <2>4. \A m \in Usable : Unrecorded(m)' => InProgress(m) = 0 /\ InProgress(m)' = 0
      BY <1>2, <2>1 DEF Unrecorded, InProgress
    <2> QED
      BY <1>1, <1>2, <2>1, <2>3, <2>4, KeepsCharged
  <1>8. CASE Stop
    BY <1>1, <1>2, <1>8, KeepsCharged DEF Stop, Fault, Deleted, Owed, InProgress, TypeOK
  <1>9. CASE Misconfigure
    BY <1>1, <1>2, <1>9, KeepsCharged
    DEF Misconfigure, Fault, sqs, platform, bridge, Owed, InProgress, TypeOK
  <1>10. ASSUME NEW n \in Messages, Receive(n) PROVE Charged' /\ OneFaultDoesNotDrain'
    <2>1. /\ pc = "polling" /\ held = NoMessage /\ broken' = broken /\ pc' # "stopped"
          /\ faults' = faults /\ recorded' = recorded /\ wasted' = wasted
          /\ held' = IF n \in Usable THEN n ELSE NoMessage
          /\ receives' = [receives EXCEPT ![n] = @ + 1]
          /\ queue' = [queue EXCEPT ![n] = "inflight"]
      BY <1>10 DEF Receive, Conclude, PcAfter, platform, TypeOK
    <2>2. Owed' = Owed /\ Owed \in Int
      BY <2>1 DEF Owed
    <2>3. \A m \in Usable : receives'[m] - receives[m] = InProgress(m)' - InProgress(m)
      BY <1>2, <2>1 DEF InProgress, TypeOK
    <2>4. \A m \in Usable : InProgress(m) \in Int /\ InProgress(m)' \in Int
      BY DEF InProgress
    <2>5. \A m \in Usable : queue'[m] = "dlq" => queue[m] = "dlq"
      BY <2>1 DEF TypeOK
    <2> QED
      BY <1>1, <1>2, <2>1, <2>2, <2>3, <2>4, <2>5, KeepsCharged
  <1>11. ASSUME NEW n \in Messages, Send(n) \/ Expire(n) PROVE Charged' /\ OneFaultDoesNotDrain'
    BY <1>1, <1>2, <1>11, KeepsCharged
    DEF Send, Expire, Move, platform, bridge, Owed, InProgress, TypeOK
  <1>12. ASSUME NEW n \in Messages, Redrive(n) PROVE Charged' /\ OneFaultDoesNotDrain'
    <2>1. /\ pc = "polling" /\ held = NoMessage /\ receives[n] = MaxReceive
          /\ queue' = [queue EXCEPT ![n] = "dlq"]
          /\ UNCHANGED <<receives, recorded, broken, pc, held, faults, wasted>>
      BY <1>12 DEF Redrive, Move, platform, bridge, TypeOK
    <2>2. Charged'
      BY <2>1 DEF Charged, Unrecorded, Recordable, Owed, InProgress
    <2>3. n \in Usable /\ Unrecorded(n) => faults + wasted[n] >= MaxReceive
      <3> SUFFICES ASSUME n \in Usable, Unrecorded(n) PROVE faults + wasted[n] >= MaxReceive
        OBVIOUS
      <3>1. receives[n] + Owed <= faults + wasted[n] + InProgress(n)
        BY DEF Charged
      <3>2. InProgress(n) = 0 /\ Owed \in 0..1
        BY <1>2, <2>1 DEF InProgress, Owed
      <3> QED
        BY <1>2, <2>1, <3>1, <3>2
    <2> QED
      BY <2>1, <2>2, <2>3 DEF OneFaultDoesNotDrain, Unrecorded, Recordable, TypeOK
  <1>13. ASSUME NEW rec \in Records, Late(rec) PROVE Charged' /\ OneFaultDoesNotDrain'
    BY <1>1, <1>2, <1>13, UpsertGrows, KeepsCharged
    DEF Late, sqs, bridge, Owed, InProgress, TypeOK
  <1> QED
    BY <1>3, <1>4, <1>5, <1>6, <1>7, <1>8, <1>9, <1>10, <1>11, <1>12, <1>13 DEF Next

\* A good event that was never recorded is put aside only after as many
\* faults, and posts wasted on a wrong endpoint that does not tell, as the
\* redrive policy allows receives.
THEOREM NoSingleFaultDrains == Spec => []OneFaultDoesNotDrain
  <1>1. Init => FInv
    BY InitTyped, InitConfirmed, InitCharged DEF FInv, SInv
  <1>2. FInv /\ [Next]_vars => FInv'
    BY StepTyped, StepConfirmed, StepCharged DEF FInv, SInv
  <1> QED
    BY <1>1, <1>2, PTL DEF Spec, FInv

-----------------------------------------------------------------------------
(* The backoff is the next sleep of the episode, while asleep and at work. *)

Paced ==
  /\ backoff \in InitialBackoff..MaxBackoff
  /\ streak \in Seq(InitialBackoff..MaxBackoff)
  /\ pc # "stopped" => DoublesUpToCap(Append(streak, backoff))

\* An episode starts with the initial backoff.
LEMMA FirstSleep == DoublesUpToCap(Append(<<>>, InitialBackoff))
  <1>1. Append(<<>>, InitialBackoff) = <<InitialBackoff>>
    OBVIOUS
  <1> QED
    BY <1>1, BridgeAssumption DEF DoublesUpToCap

\* And goes on with the doubled one, or the cap.
LEMMA FollowingSleep ==
  ASSUME Paced, pc = "sleeping"
  PROVE  /\ DoublesUpToCap(Append(Append(streak, backoff), NextBackoff))
         /\ AtCap => DoublesUpToCap(Append(streak, NextBackoff))
  <1> USE BridgeAssumption
  <1> DEFINE slept == Append(streak, backoff)
             n == Len(streak)
             longer == Append(slept, NextBackoff)
  <1>1. /\ n \in Nat /\ slept \in Seq(Nat) /\ Len(slept) = n + 1 /\ slept[n + 1] = backoff
        /\ \A k \in 1..n : slept[k] = streak[k]
        /\ DoublesUpToCap(slept) /\ NextBackoff \in Nat
    BY DEF Paced, NextBackoff
  <1>2. ASSUME AtCap PROVE DoublesUpToCap(Append(streak, NextBackoff))
    <2>1. n \in 1..n /\ streak[n] = MaxBackoff
      BY <1>1, <1>2 DEF AtCap, Paced
    <2>2. backoff = MaxBackoff
      BY <1>1, <2>1 DEF DoublesUpToCap
    <2>3. NextBackoff = MaxBackoff
      BY <2>2 DEF NextBackoff
    <2> QED
      BY <1>1, <2>2, <2>3
  <1> HIDE DEF slept, n
  <1>3. /\ Len(longer) = n + 2 /\ longer[n + 2] = NextBackoff
        /\ \A k \in 1..(n + 1) : longer[k] = slept[k]
    BY <1>1
  <1> HIDE DEF longer
  <1>4. longer[1] = InitialBackoff
    BY <1>1, <1>3 DEF DoublesUpToCap
  <1>5. ASSUME NEW k \in 1..(Len(longer) - 1)
        PROVE  longer[k + 1] = IF 2 * longer[k] > MaxBackoff THEN MaxBackoff ELSE 2 * longer[k]
    <2>1. CASE k = n + 1
      BY <1>1, <1>3, <2>1 DEF NextBackoff
    <2>2. CASE k # n + 1
      <3>1. k \in 1..(Len(slept) - 1) /\ k \in 1..(n + 1) /\ k + 1 \in 1..(n + 1)
        BY <1>1, <1>3, <2>2
      <3> QED
        BY <1>1, <1>3, <3>1 DEF DoublesUpToCap
    <2> QED
      BY <2>1, <2>2
  <1>6. DoublesUpToCap(longer)
    BY <1>4, <1>5 DEF DoublesUpToCap
  <1> QED
    BY <1>2, <1>6 DEF longer, slept

\* A fresh episode after a success, an empty receive or a start.
LEMMA ResetPaced == ASSUME Reset PROVE Paced'
  <1>1. pc' = "polling" /\ backoff' = InitialBackoff /\ streak' = <<>>
    BY DEF Reset
  <1>2. DoublesUpToCap(Append(streak, backoff))'
    BY <1>1, FirstSleep DEF DoublesUpToCap
  <1>3. /\ backoff' \in InitialBackoff..MaxBackoff
        /\ streak' \in Seq(InitialBackoff..MaxBackoff)
    BY <1>1, BridgeAssumption
  <1> QED
    BY <1>2, <1>3 DEF Paced

\* A step that leaves the pacing alone, and does not start a stopped bridge.
LEMMA KeepsPaced ==
  ASSUME Paced, streak' = streak, backoff' = backoff, pc = "stopped" => pc' = "stopped"
  PROVE  Paced'
  BY DEF Paced, DoublesUpToCap

\* What becomes of a message leaves the pacing alone.
LEMMA ConcludePaced ==
  ASSUME Paced, pc # "stopped", NEW outcome, Conclude(outcome)
  PROVE  Paced'
  BY KeepsPaced DEF Conclude

\* Every step of the bridge and its surroundings keeps the pace.
LEMMA StepPaced == Paced /\ [Next]_vars => Paced'
  <1> SUFFICES ASSUME Paced, [Next]_vars PROVE Paced'
    OBVIOUS
  <1>1. CASE UNCHANGED vars \/ Misconfigure
    BY <1>1, KeepsPaced DEF vars, Misconfigure, bridge
  <1>2. CASE ReceiveEmpty \/ Start
    BY <1>2, ResetPaced DEF ReceiveEmpty, Start
  <1>3. CASE ReceiveFails
    BY <1>3, ConcludePaced DEF ReceiveFails
  <1>4. CASE Posting
    <2>1. pc = "posting" /\ \E status : Conclude(classifyStatus(status))
      BY <1>4 DEF Posting, Post, PostMisdirected, PostRejected, PostFails
    <2> QED
      BY <2>1, ConcludePaced
  <1>5. CASE Deleting
    BY <1>5, ResetPaced, ConcludePaced DEF Deleting, Delete, DeleteFails
  <1>6. CASE sleepWithBackoff
    <2>1. /\ pc = "sleeping" /\ pc' = "polling" /\ backoff' = NextBackoff
          /\ streak' = IF AtCap THEN streak ELSE Append(streak, backoff)
      BY <1>6 DEF sleepWithBackoff
    <2>2. /\ backoff' \in InitialBackoff..MaxBackoff
          /\ streak' \in Seq(InitialBackoff..MaxBackoff)
      <3>1. NextBackoff \in InitialBackoff..MaxBackoff
        BY NextBackoffType DEF Paced
      <3>2. Append(streak, backoff) \in Seq(InitialBackoff..MaxBackoff)
        BY DEF Paced
      <3> QED
        BY <2>1, <3>1, <3>2 DEF Paced
    <2>3. DoublesUpToCap(Append(streak, backoff))'
      BY <2>1, FollowingSleep DEF DoublesUpToCap
    <2> QED
      BY <2>2, <2>3 DEF Paced
  <1>7. CASE Stop
    BY <1>7, KeepsPaced DEF Stop
  <1>8. ASSUME NEW m \in Messages, Receive(m) PROVE Paced'
    <2>1. CASE m \in Usable
      BY <1>8, <2>1, KeepsPaced DEF Receive
    <2>2. CASE m \notin Usable
      BY <1>8, <2>2, ConcludePaced DEF Receive
    <2> QED
      BY <2>1, <2>2
  <1>9. ASSUME NEW m \in Messages, Send(m) \/ Expire(m) \/ Redrive(m) PROVE Paced'
    BY <1>9, KeepsPaced DEF Send, Expire, Redrive, bridge
  <1>10. ASSUME NEW rec \in Records, Late(rec) PROVE Paced'
    BY <1>10, KeepsPaced DEF Late, bridge
  <1> QED
    BY <1>1, <1>2, <1>3, <1>4, <1>5, <1>6, <1>7, <1>8, <1>9, <1>10 DEF Next

\* Within an episode of transient failures each sleep takes twice the one
\* before, up to the cap, and every episode starts afresh.
THEOREM SleepsDouble == Spec => []BackoffFollowsStreak
  <1>1. Init => Paced
    BY BridgeAssumption DEF Init, Paced
  <1>2. Paced => BackoffFollowsStreak
    BY DEF Paced, BackoffFollowsStreak
  <1> QED
    BY <1>1, <1>2, StepPaced, PTL DEF Spec

=============================================================================
