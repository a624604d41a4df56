---------------------- MODULE SubmissionsListProperties ----------------------
(***************************************************************************)
(* What a client that walks through the whole list may rely on, and what   *)
(* it may not.                                                             *)
(***************************************************************************)
EXTENDS SubmissionsList

Above(a, b) == a[1] < b[1] \/ (a[1] = b[1] /\ a[2] < b[2])

IdsShown == {RowAt(at).id : at \in Shown}

\* Over all pages on display the rows' ids ascend strictly: none is shown
\* twice, whatever is inserted, classified, refetched, cancelled or lost
\* between two pages.
RowsAscend ==
  \A a, b \in Shown : Above(a, b) => RowAt(a).id < RowAt(b).id

\* A submission that matched when the first page on display was asked for, and
\* still does when there is no further page to load, is on display.
NothingStableMissed ==
  data.pages # <<>> /\ ~hasNextPage =>
    data.baseline \cap Matching(filter) \subseteq IdsShown

\* Between the two queries of an outcome page no row gets lost: the handler
\* never answers with ErrCompositionMismatch.
NeverMismatch == pc # "mismatch"

\* No row says pending of a submission it shows as advanced, although status
\* and outcome are read by separate queries (List before BatchGet).
AdvancedRowsCarryOutcome ==
  LET page == SubmissionsPage IN
  page.screen = "rows" =>
    \A row \in Range(page.rows) : row.status = "advanced" => row.label \in Outcomes

\* "Rows of total": the total is no smaller than the rows it is printed next
\* to, although each page has one of its own, except for pending, which
\* submissions leave while they are read.
TotalCoversRows ==
  SubmissionsPage.screen = "rows" /\ filter # filterPending => SubmissionsPage.total >= Cardinality(Shown)

\* What the comment on List promises of keyset pages under concurrent writes,
\* that they do not skip rows: a submission the cursor has gone past is shown.
NothingSkipped ==
  filter = "" /\ pc = "idle" =>
    \A id \in Committed : (\E shown \in IdsShown : id <= shown) => id \in IdsShown

=============================================================================
