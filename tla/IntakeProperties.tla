-------------------------- MODULE IntakeProperties --------------------------
(***************************************************************************)
(* What admission guarantees to the pipeline behind it and to the clients  *)
(* in front of it.                                                         *)
(***************************************************************************)
EXTENDS Intake

\* An id once answered names a submission with exactly the delivered content,
\* whatever is delivered under the same identity later (FR-003, NFR-006).
AnsweredIsRecorded ==
  \A r \in Requests : \A k \in DOMAIN results[r] :
    results[r][k].kind = "admitted" =>
      \E row \in rows : row.id = results[r][k].id /\ row.item = batch[r][k]

\* Redeliveries, concurrent ones and those after a lost answer or a restart
\* included, never make a second submission of one source event.
OneSubmissionPerEvent ==
  \A row, other \in rows :
    /\ row.item = other.item => row = other
    /\ EventID(row.item) # "" /\ EventID(row.item) = EventID(other.item) => row = other
    /\ AuditID(row.item) # "" /\ Stage(row.item) # ""
       /\ AuditID(row.item) = AuditID(other.item) /\ Stage(row.item) = Stage(other.item)
       => row = other

\* What two deliveries claim to be one source event by: their bytes in the same
\* family, or an identity of either family.
SameEvent(item, other) ==
  \/ item.family = other.family /\ item.body = other.body
  \/ EventID(item) # "" /\ EventID(item) = EventID(other)
  \/ /\ AuditID(item) # "" /\ Stage(item) # ""
     /\ AuditID(item) = AuditID(other) /\ Stage(item) = Stage(other)

\* A delivery is refused as a conflict only for an event of its own family that
\* claims its identity with other content: families never collide (ADR-0006).
ConflictIsGenuine ==
  \A r \in Requests : \A k \in DOMAIN results[r] :
    results[r][k].kind = "conflict" =>
      \E row \in rows :
        /\ row.item.family = batch[r][k].family /\ row.item # batch[r][k]
        /\ AuditID(row.item) = AuditID(batch[r][k]) /\ Stage(row.item) = Stage(batch[r][k])
        /\ EventID(row.item) = EventID(batch[r][k])

\* The status tells a client what to do: after 200 every item is recorded,
\* after 409 a retry changes nothing, after 429 no item's fate is in doubt.
StatusTellsFate ==
  \A r \in Requests : pc[r] = "answered" =>
    LET recorded(k) == \E row \in rows : row.item = batch[r][k]
        taken(k)    == \E row \in rows : row.key = SourceKey(batch[r][k]) IN
    /\ status[r] = 200 => \A k \in DOMAIN batch[r] : recorded(k)
    /\ status[r] = 409 => \A k \in DOMAIN batch[r] : taken(k)
    /\ status[r] = 429 => \A k \in DOMAIN batch[r] :
                            taken(k) \/ results[r][k].kind = "capacity"

Within(t) == {k \in DOMAIN grants : grants[k] > t - Window /\ grants[k] <= t}

\* However the requests interleave, no trailing window ever holds more slots
\* than the capacity envelope (NFR-003, AC-022), by the record of every slot
\* granted and not only the limiter's own pruned one.
WithinEnvelope == \A t \in 0..now : Cardinality(Within(t)) <= Limit

\* An item is turned away only while the trailing window is full: a slot exactly
\* one window old is free again (admission.go: "no more and no less").
RejectedOnlyWhenFull ==
  [][(\E r \in Requests : Reject(r)) => Cardinality(Within(now)) = Limit]_vars

\* The table and the answers as the abstract specification sees them.
Submissions == {[id |-> row.id, item |-> row.item] : row \in rows}

Told ==
  [r \in Requests |->
     [k \in DOMAIN results[r] |-> [item |-> batch[r][k], answer |-> results[r][k]]]]

Abstract ==
  INSTANCE AdmissionAbstract WITH
    Same <- {pair \in Items \X Items : SameEvent(pair[1], pair[2])},
    submissions <- Submissions, told <- Told

\* Whatever handlers do at once, and wherever they fail or stop, a delivery
\* adds the first submission of its event or none, no submission is ever
\* changed or removed, and every answer is true when it is given.
ImplementsAdmission == Abstract!Spec

=============================================================================
