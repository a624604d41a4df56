--------------------------- MODULE SubmissionsList ---------------------------
(***************************************************************************)
(* The submissions list (GET /v1/submissions) and the browser's page of it: *)
(* pages are composed from several queries that share no transaction while *)
(* requests insert submissions and the worker classifies them; the browser *)
(* accumulates pages under one filter, each beginning after the last id of *)
(* the one before, and fetches all of them again when they are stale.      *)
(***************************************************************************)
EXTENDS Integers, SequencesExt, ApiClient

CONSTANTS
  Outcomes,  \* the validation outcomes
  Limit,     \* the client's page size
  MaxId      \* last id of the sequence (bound)

filterPending == "pending"

ASSUME ListAssumption == Limit \in Nat \ {0} /\ MaxId \in Nat
ASSUME OutcomesAssumption == "" \notin Outcomes /\ filterPending \notin Outcomes /\ "none" \notin Outcomes

VARIABLES
  nextId,   \* the id sequence of submissions
  status,   \* of each id: unused, inserting, admitted, advanced or aborted
  outcome,  \* its validation outcome, none before it is classified
  pc,       \* the request under way: idle, list, join, count or mismatch
  filter,   \* the outcome filter: "", pending or an outcome
  after,    \* the request's cursor, 0 for none
  rows,     \* the rows of the page being composed, the lookahead row included
  draft,    \* the page sequence being fetched
  goal,     \* how many pages it will have, at most
  data,     \* the page sequence on display
  error     \* of the last fetch: none, unauthorized or unavailable

db      == <<nextId, status, outcome>>
handler == <<pc, after, rows>>
query   == <<draft, goal, data, error>>
vars    == <<db, handler, filter, query>>

Ids == 1..MaxId
Filters == {"", filterPending} \cup Outcomes

-----------------------------------------------------------------------------
(* The tables. *)

Draw ==
  /\ nextId <= MaxId
  /\ nextId' = nextId + 1
  /\ status' = [status EXCEPT ![nextId] = "inserting"]
  /\ UNCHANGED <<outcome, handler, filter, query>>

\* An insert ends: its row becomes visible, or its id stays a gap.
EndInsert(id) ==
  /\ status[id] = "inserting"
  /\ \E end \in {"admitted", "aborted"} : status' = [status EXCEPT ![id] = end]
  /\ UNCHANGED <<nextId, outcome, handler, filter, query>>

\* Mutation of Classify: the status is committed before the outcome is.
ClassifyStatusFirst(id, o) ==
  /\ status[id] = "admitted" \/ (status[id] = "advanced" /\ outcome[id] = "none")
  /\ status' = [status EXCEPT ![id] = "advanced"]
  /\ outcome' = IF status[id] = "advanced" THEN [outcome EXCEPT ![id] = o] ELSE outcome
  /\ UNCHANGED <<nextId, handler, filter, query>>

\* Outcome and status in one transaction.
Classify(id, o) ==
  /\ status[id] = "admitted"
  /\ outcome' = [outcome EXCEPT ![id] = o]
  /\ status'  = [status EXCEPT ![id] = "advanced"]
  /\ UNCHANGED <<nextId, handler, filter, query>>

-----------------------------------------------------------------------------
(* The queries. *)

Committed == {id \in Ids : status[id] \in {"admitted", "advanced"}}

Matching(f) ==
  CASE f = ""            -> Committed
    [] f = filterPending -> {id \in Ids : status[id] = "admitted"}
    [] OTHER             -> {id \in Ids : outcome[id] = f}

Beyond(id) == id > after

First(n, s) == SubSeq(s, 1, IF Len(s) < n THEN Len(s) ELSE n)

\* ORDER BY id.
Ascending(S) ==
  CHOOSE s \in [1..Cardinality(S) -> S] :
    \A i, j \in 1..Cardinality(S) : i < j => s[i] < s[j]

\* The first page of a keyset: at most Limit rows and one to look ahead.
Keyset(f) == First(Limit + 1, Ascending({id \in Matching(f) : Beyond(id)}))

\* Mutation of GetMany: only as many rows as the page shows.
GetManyOfPage(ids) == {id \in Range(First(Limit, ids)) : id \in Committed}

GetMany(ids) == {id \in Range(ids) : id \in Committed}

Count(f) == Cardinality(Matching(f))

-----------------------------------------------------------------------------
(* The handler. *)

\* submission.List reads ids and statuses, validation.ListByOutcome outcomes.
List ==
  /\ pc = "list"
  /\ rows' = [k \in DOMAIN Keyset(filter) |->
                LET id == Keyset(filter)[k] IN
                [id |-> id,
                 status  |-> IF filter \in Outcomes THEN "unread" ELSE status[id],
                 outcome |-> IF filter \in Outcomes THEN filter ELSE "none"]]
  /\ pc' = IF filter = filterPending THEN "count" ELSE "join"
  /\ UNCHANGED <<db, after, filter, query>>

IdsOf(page) == [k \in DOMAIN page |-> page[k].id]

\* validation.BatchGet reads the outcomes of an unfiltered page.
BatchGet ==
  /\ pc = "join" /\ filter = ""
  /\ rows' = [k \in DOMAIN rows |-> [rows[k] EXCEPT !.outcome = outcome[rows[k].id]]]
  /\ pc' = "count"
  /\ UNCHANGED <<db, after, filter, query>>

\* submission.GetMany reads the submissions of a page of outcomes.
JoinMany ==
  /\ pc = "join" /\ filter \in Outcomes
  /\ IF \A k \in DOMAIN rows : rows[k].id \in GetMany(IdsOf(rows))
     THEN /\ rows' = [k \in DOMAIN rows |-> [rows[k] EXCEPT !.status = status[rows[k].id]]]
          /\ pc' = "count"
     ELSE pc' = "mismatch" /\ UNCHANGED rows
  /\ UNCHANGED <<db, after, filter, query>>

\* Mutation of NextCursor: the lookahead row's id.
NextCursorLookahead(page) == page[Limit + 1].id

NextCursor(page) == page[Limit].id

\* The page trimmed, and a cursor if there is a next one.
PageOf(page) ==
  [rows |-> First(Limit, page), total |-> Count(filter),
   next |-> IF Len(page) > Limit THEN NextCursor(page) ELSE 0]

-----------------------------------------------------------------------------
(* The browser: useInfiniteQuery, and the page that shows what it holds. *)

\* Pages, and (history) what matched when the first of them was asked for.
NoPages == [pages |-> <<>>, baseline |-> {}]

Current(d) == d.pages[Len(d.pages)]

\* Where the rows on display are, page after page: a page, and a row of it.
Shown == UNION {{p} \X DOMAIN data.pages[p].rows : p \in DOMAIN data.pages}

RowAt(at) == data.pages[at[1]].rows[at[2]]

\* Mutation of Total: the first page's.
TotalOfFirst == IF data.pages = <<>> THEN 0 ELSE data.pages[1].total

Total == IF data.pages = <<>> THEN 0 ELSE Current(data).total

hasNextPage == data.pages # <<>> /\ Current(data).next # 0

\* A row's badge: an outcome that is not available is pending.
outcomeLabel(row) == IF row.outcome = "none" THEN "Pending" ELSE row.outcome

outcomeTone(row) ==
  CASE row.outcome = "valid"                      -> "intact"
    [] row.outcome = "incomplete"                 -> "warning"
    [] row.outcome \in {"invalid", "unsupported"} -> "broken"
    [] OTHER                                      -> "neutral"

SubmissionRow(row) ==
  [id |-> row.id, status |-> row.status, label |-> outcomeLabel(row), tone |-> outcomeTone(row)]

\* Exactly one screen; the count and the button come with rows alone.
SubmissionsPage ==
  CASE error # "none"     -> [screen |-> error]
    [] data.pages = <<>>  -> [screen |-> "loading"]
    [] Shown = {}         -> [screen |-> "empty", total |-> Total]
    [] OTHER -> [screen |-> "rows", total |-> Total, loadMore |-> hasNextPage,
                 rows |-> [at \in Shown |-> SubmissionRow(RowAt(at))]]

\* All pages again from the first, as many as there are, or the first one, when
\* the page is opened, its data stale or the connection back; by the button of
\* ErrorState also in place of a fetch under way.
Refetch ==
  /\ pc = "idle" \/ SubmissionsPage.screen = "unavailable"
  /\ pc' = "list" /\ after' = 0 /\ rows' = <<>>
  /\ draft' = [NoPages EXCEPT !.baseline = Matching(filter)]
  /\ goal'  = IF data.pages = <<>> THEN 1 ELSE Len(data.pages)
  /\ error' = IF data.pages = <<>> THEN "none" ELSE error
  /\ UNCHANGED <<db, filter, data>>

\* The button is there on success, and disabled while it is at work; a refetch
\* under way is cancelled.
LoadMore ==
  /\ SubmissionsPage.screen = "rows" /\ hasNextPage
  /\ pc = "idle" \/ goal = Len(data.pages)
  /\ pc' = "list" /\ after' = Current(data).next /\ rows' = <<>>
  /\ draft' = data /\ goal' = Len(data.pages) + 1
  /\ UNCHANGED <<db, filter, data, error>>

Stop == pc' = "idle" /\ after' = 0 /\ rows' = <<>> /\ draft' = NoPages /\ goal' = 0

\* Mutation of Answer: a refetched page goes on display at once, after the old.
AnswerAppending ==
  /\ pc = "count"
  /\ data' = [data EXCEPT !.pages = Append(@, PageOf(rows))]
  /\ Stop
  /\ error' = "none"
  /\ UNCHANGED <<db, filter>>

\* A page arrives: the next one is asked for, or all of them are displayed.
Answer ==
  /\ pc = "count"
  /\ LET fetched == [draft EXCEPT !.pages = Append(@, PageOf(rows))] IN
     IF Len(fetched.pages) < goal /\ PageOf(rows).next # 0
     THEN /\ draft' = fetched /\ pc' = "list" /\ after' = PageOf(rows).next /\ rows' = <<>>
          /\ UNCHANGED <<goal, data, error>>
     ELSE data' = fetched /\ error' = "none" /\ Stop
  /\ UNCHANGED <<db, filter>>

\* The request fails, or its answer is lost: the data stays behind the error.
Fail ==
  /\ pc # "idle" /\ Stop
  /\ error' \in {fetchSubmissions(reply) : reply \in Faults}
  /\ UNCHANGED <<db, filter, data>>

\* Another page or another filter, with pages of its own: the fetch is cancelled.
Leave ==
  /\ pc # "idle"
  /\ Stop
  /\ UNCHANGED <<db, filter, data, error>>

-----------------------------------------------------------------------------
Init ==
  /\ nextId = 1 /\ status = [id \in Ids |-> "unused"] /\ outcome = [id \in Ids |-> "none"]
  /\ pc = "idle" /\ filter \in Filters /\ after = 0 /\ rows = << >>
  /\ draft = NoPages /\ goal = 0 /\ data = NoPages /\ error = "none"

Next ==
  \/ Draw
  \/ \E id \in Ids : EndInsert(id)
  \/ \E id \in Ids, o \in Outcomes : Classify(id, o)
  \/ List \/ BatchGet \/ JoinMany
  \/ Refetch \/ LoadMore \/ Answer \/ Fail \/ Leave

Spec == Init /\ [][Next]_vars

=============================================================================
