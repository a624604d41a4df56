----------------------------- MODULE AlertPages -----------------------------
(***************************************************************************)
(* The alert inventory and the alert investigation page in the browser,    *)
(* over the handlers they ask.  Each page reads one entry of the query     *)
(* cache, under the key of its hook; leaving a page cancels its request.   *)
(* The cache (TanStack Query) is modelled from how the hooks configure it. *)
(***************************************************************************)
EXTENDS Evidence, ApiClient

CONSTANTS Pins, NoPin   \* characteristics, and none

ASSUME PinAssumption == NoPin \notin Pins

VARIABLES
  route,   \* the page the address asks for
  cache,   \* the query of each key: its status, its error, its data
  before,  \* the entry to go back to when the request under way is cancelled
  picked   \* InvestigationMap's selectedConditionKey

page == <<route, cache, before, picked>>
vars == <<db, req, page>>

NoData  == [page |-> -1]
Unasked == [status |-> "pending", error |-> "none", data |-> NoData]

\* Mutation of QueryKey: the alert's id is left out.
QueryKeyWithoutId(p) == IF p = Inventory THEN Inventory ELSE CHOOSE a \in Alerts : TRUE

QueryKey(p) == p

Query(p) == cache[QueryKey(p)]

-----------------------------------------------------------------------------
(* What the pages show. *)

\* Exactly one screen: with an error its own, which hides the data there may be.
AlertInvestigationPage(query) ==
  CASE query.status = "success" -> "evidence"
    [] query.status = "pending" -> "loading"
    [] query.status = "error"   -> query.error

\* The table, or that there is no alert yet, counts as the evidence here.
AlertInventoryPage(query) ==
  CASE query.status = "pending" -> "loading"
    [] query.status = "success" -> "evidence"
    [] query.status = "error"   -> IF query.error = "unauthorized" THEN "unauthorized" ELSE "unavailable"

ScreenOf(p, query) ==
  [kind |-> IF p = Inventory THEN AlertInventoryPage(query) ELSE AlertInvestigationPage(query),
   of   |-> IF query.status = "success" THEN query.data.page ELSE p]

Screen == ScreenOf(route, Query(route))

\* The map is the one alert's; another alert's is another map.
MapOf(screen) == IF screen.kind = "evidence" /\ screen.of # Inventory THEN screen.of ELSE -1

\* Mutation of Settle: without the key property one map serves every alert.
SettleUnkeyed ==
  picked' = IF MapOf(Screen) # -1 /\ MapOf(Screen') # -1 THEN picked ELSE NoPin

\* The selection lives in the map's state and goes with it.
Settle == picked' = IF MapOf(Screen) # -1 /\ MapOf(Screen') = MapOf(Screen) THEN picked ELSE NoPin

-----------------------------------------------------------------------------
(* The query cache. *)

\* A fetch without data shows as pending again; with data the status stays.
Fetching(query) ==
  IF query.data = NoData THEN [query EXCEPT !.status = "pending", !.error = "none"] ELSE query

\* A fetch begins for the page now shown; c is the cache it begins in.
Fetch(p, c) ==
  /\ req' = RequestOf(p)
  /\ before' = c[QueryKey(p)]
  /\ cache' = [c EXCEPT ![QueryKey(p)] = Fetching(@)]

\* Leaving a page cancels its request: its entry is what it was before.
Cancelled == IF req = Idle THEN cache ELSE [cache EXCEPT ![QueryKey(req.page)] = before]

\* An answer is fresh for 30 seconds (staleTime), so it may be fresh or stale;
\* what is no answer is never fresh.
MayBeFresh(query) == query.status = "success"

Open(p) ==
  /\ p # route /\ route' = p
  /\ \/ Fetch(p, Cancelled)
     \/ /\ MayBeFresh(Cancelled[QueryKey(p)])
        /\ req' = Idle /\ cache' = Cancelled /\ before' = Unasked
  /\ Settle
  /\ UNCHANGED db

\* The button of UnavailableScreen and ErrorState; a request under way for an
\* entry with data is cancelled and replaced.
Retry ==
  /\ Screen.kind = "unavailable"
  /\ UNCHANGED <<db, route>>
  /\ Fetch(route, cache) /\ Settle

\* The connection is back: what is stale is fetched again, unless it already is.
Reconnect ==
  /\ req = Idle
  /\ UNCHANGED <<db, route>>
  /\ Fetch(route, cache) /\ Settle

Ends(query) ==
  /\ cache' = [cache EXCEPT ![QueryKey(req.page)] = query]
  /\ req' = Idle /\ before' = Unasked /\ UNCHANGED <<db, route>>
  /\ Settle

\* toResponse: the inventory as composed.
ResponseOf(r) ==
  [page |-> r.page, found |-> r.found, raw |-> r.raw, chain |-> r.chain, repaired |-> r.repaired]

Answer ==
  /\ req.step = "answer" /\ validated(Ok) = "ok"
  /\ Ends([status |-> "success", error |-> "none", data |-> ResponseOf(req)])

\* The error of the page's fetch function for a reply.
FetchError(p, reply) ==
  IF p = Inventory THEN fetchAlertInventory(reply) ELSE fetchAlertInvestigation(reply)

\* Mutation of FailsWith: with retry: true the query asks again instead.
FailsWithRetried(error) ==
  /\ req' = RequestOf(req.page)
  /\ UNCHANGED <<db, route, cache, before>>
  /\ Settle

\* The data stays, and the query is not retried (retry: false).
FailsWith(error) == Ends([Query(req.page) EXCEPT !.status = "error", !.error = error])

Absent == req.step = "absent" /\ FailsWith(FetchError(req.page, NotFound))

Fail ==
  /\ req # Idle
  /\ \E error \in {FetchError(req.page, reply) : reply \in Faults} : FailsWith(error)

\* An entry no page reads is collected after five minutes.
Collect(key) ==
  /\ key # QueryKey(route) /\ cache[key] # Unasked
  /\ cache' = [cache EXCEPT ![key] = Unasked]
  /\ UNCHANGED <<db, req, route, before, picked>>

\* handleSelectCondition, on a pin of the definition shown; a pin selected
\* before is selected no more.
Select(pin) ==
  /\ MapOf(Screen) # -1 /\ "definition" \in Query(route).data.found
  /\ picked' = IF picked = pin THEN NoPin ELSE pin
  /\ UNCHANGED <<db, req, route, cache, before>>

-----------------------------------------------------------------------------
\* The address the browser starts with, its page mounted and asking.
Init ==
  /\ due = Alerts \ Touched
  /\ rows = [a \in Alerts |-> IF a \in due THEN Artifacts \ {"alert"} ELSE Artifacts]
  /\ raw \in [Alerts -> {"genuine", "content"}] /\ \A a \in Alerts \ Touched : raw[a] = "genuine"
  /\ writes = 0
  /\ route \in Pages /\ req = RequestOf(route)
  /\ cache = [p \in Pages |-> Unasked] /\ before = Unasked /\ picked = NoPin

Handler == Handle /\ UNCHANGED page

Environment == Change /\ UNCHANGED page

Next ==
  \/ Environment \/ Handler
  \/ \E p \in Pages : Open(p) \/ Collect(p)
  \/ Retry \/ Reconnect \/ Answer \/ Absent \/ Fail
  \/ \E pin \in Pins : Select(pin)

Spec == Init /\ [][Next]_vars

\* The handler works on a request it has, and its reply arrives.
FairSpec == Spec /\ WF_vars(Handler) /\ WF_vars(Answer \/ Absent)

=============================================================================
