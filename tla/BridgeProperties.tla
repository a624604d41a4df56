-------------------------- MODULE BridgeProperties --------------------------
(***************************************************************************)
(* What the bridge promises about the events it carries.                   *)
(***************************************************************************)
EXTENDS Bridge

\* Every variable holds a value of its kind; a message is held exactly while
\* it is being posted or deleted.
TypeOK ==
  /\ queue \in [Messages -> {"unsent", "visible", "inflight", "dlq", "deleted"}]
  /\ receives \in [Messages -> 0..MaxReceive]
  /\ recorded \subseteq Records /\ late \subseteq Records
  /\ broken = {} \/ (\E status \in Misanswers : broken = {status})
  /\ wasted \in [Messages -> Nat]
  /\ pc \in {"stopped", "polling", "posting", "deleting", "sleeping"}
  /\ held \in Usable \cup {NoMessage}
  /\ (held # NoMessage) = (pc \in {"posting", "deleting"})
  /\ backoff \in InitialBackoff..MaxBackoff

\* A message is deleted only when the platform holds exactly its record: not
\* after a conflict, an overload, a lost answer or a stop half-way.
DeletedIsRecorded ==
  \A m \in Messages : queue[m] = "deleted" => m \in Usable /\ RecordOf[m] \in recorded

\* The sleeps of one episode: the first takes the initial backoff, each later
\* one twice the one before, up to the cap.
DoublesUpToCap(sleeps) ==
  /\ sleeps[1] = InitialBackoff
  /\ \A k \in 1..(Len(sleeps) - 1) :
       sleeps[k + 1] = IF 2 * sleeps[k] > MaxBackoff THEN MaxBackoff ELSE 2 * sleeps[k]

\* The sleeps of one episode of transient failures double up to the cap; a
\* success or an empty receive ends the episode, a bad message neither
\* lengthens nor ends it (main.go: "2s, 4s, 8s, 16s, 30s, 30s, ... capped").
BackoffFollowsStreak == pc = "sleeping" => DoublesUpToCap(Append(streak, backoff))

\* The good events: those the platform can record, no other message claiming
\* their identity with other content.
Recordable ==
  {m \in Usable :
     \A n \in Usable : RecordOf[n].event = RecordOf[m].event => RecordOf[n] = RecordOf[m]}

\* A good event that was never recorded ends in the dead-letter queue only if
\* each of its receives is accounted for: by a fault of its own, or by a post to
\* a wrong endpoint whose answer does not tell it from a bad message or an
\* overload.  So a wrong endpoint or token that is answered by 401, 403, 404 or
\* 405 does not drain the backlog (post.go, outcomeFatal).
OneFaultDoesNotDrain ==
  \A m \in Recordable :
    queue[m] = "dlq" /\ RecordOf[m] \notin recorded
      => faults + wasted[m] >= MaxReceive

\* Every message that reaches the queue is in the end deleted or put aside in
\* the dead-letter queue, whatever bad messages are around it.
EveryMessageSettles ==
  \A m \in Messages : queue[m] # "unsent" ~> queue[m] \in {"deleted", "dlq"}

\* A good event is in the end recorded, through stops, lost answers, overload
\* and bad messages, unless faults and posts to a wrong endpoint that was not
\* told used up its receives.
GoodEventsArrive ==
  \A m \in Recordable :
    queue[m] # "unsent"
      ~> RecordOf[m] \in recorded \/ faults + wasted[m] >= MaxReceive

=============================================================================
