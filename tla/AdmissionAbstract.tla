------------------------- MODULE AdmissionAbstract -------------------------
(***************************************************************************)
(* What admission promises, with no handler, no limiter, no insert and no  *)
(* restart in sight: a source event becomes a submission once and keeps    *)
(* its id and content for good, and what a client is told of an item is    *)
(* true when it is told (FR-003, NFR-006, ADR-0006).                       *)
(***************************************************************************)
EXTENDS Sequences

CONSTANTS
  Requests,  \* clients' deliveries
  Items,     \* what they may deliver
  Same       \* the pairs of items that claim to be one source event

VARIABLES
  submissions,  \* what is admitted, under its id
  told          \* what each client has been told of its present delivery

vars == <<submissions, told>>

Init == submissions = {} /\ told = [r \in Requests |-> <<>>]

\* The first of its event, under an id of its own.
Submit(item) ==
  \E new \in submissions' :
    /\ submissions' = submissions \cup {new} /\ new.item = item
    /\ \A old \in submissions : old.id # new.id /\ <<old.item, item>> \notin Same

\* An id is told of the very content only, a conflict only of an event that has
\* another.  Whoever is told that an item had no room or failed knows nothing.
Tell(r, item) ==
  \E answer \in {told'[r][k].answer : k \in DOMAIN told'[r]} :
    /\ told' = [told EXCEPT ![r] = Append(@, [item |-> item, answer |-> answer])]
    /\ answer.kind = "admitted" => \E one \in submissions' : one.id = answer.id /\ one.item = item
    /\ answer.kind = "conflict" =>
         \E one \in submissions' : <<one.item, item>> \in Same /\ one.item # item

Next ==
  \/ \E item \in Items : Submit(item) /\ UNCHANGED told
  \/ \E r \in Requests, item \in Items : Tell(r, item) /\ (Submit(item) \/ UNCHANGED submissions)
  \/ \E r \in Requests : told' = [told EXCEPT ![r] = <<>>] /\ UNCHANGED submissions

Spec == Init /\ [][Next]_vars

=============================================================================
