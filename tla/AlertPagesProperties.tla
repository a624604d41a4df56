------------------------ MODULE AlertPagesProperties ------------------------
(***************************************************************************)
(* What the alert pages may tell their reader, and that they tell it.      *)
(***************************************************************************)
EXTENDS AlertPages

Response ==
  [page : Pages, found : SUBSET Artifacts, raw : {"genuine", "content", "identity"},
   chain : [Alerts -> Verdicts \cup {"unlisted"}], repaired : BOOLEAN]

Entry ==
  [status : {"pending", "error", "success"},
   error : {"none", "unauthorized", "not-found", "unavailable"},
   data : Response \cup {NoData}]

\* An entry is a success only with data of its own page, an error only with
\* its kind; what is pending has no data.
Sound(p, query) ==
  /\ query.data.page \in {p, -1}
  /\ query.status = "success" => query.data # NoData
  /\ query.status = "error" <=> query.error # "none"
  /\ query.status = "pending" => query.data = NoData

\* Every variable holds a value of its kind; a page is never left loading with
\* no request under way, and only an alert's own evidence has a selection.
TypeOK ==
  /\ rows \in [Alerts -> SUBSET Artifacts]
  /\ raw \in [Alerts -> {"genuine", "content", "identity"}]
  /\ due \subseteq Alerts /\ writes \in 0..MaxWrites
  /\ route \in Pages /\ picked \in Pins \cup {NoPin}
  /\ \A p \in Pages : cache[p] \in Entry /\ Sound(p, cache[p])
  /\ before \in Entry
  /\ req.page \in Pages \cup {-1}
  /\ req # Idle => req.page = route /\ Sound(route, before)
  /\ Screen.kind = "loading" => req # Idle
  /\ picked # NoPin => MapOf(Screen) = route

-----------------------------------------------------------------------------
Composed == {cache[a].data : a \in Alerts} \ {NoData}

\* A page that says the chain is intact shows the raw event that was admitted
\* and every artifact of the chain and its definition, although each was read
\* by a query of its own while rows changed, unless the event was changed and
\* put back while the evidence was composed (FR-034, AC-015).
IntactVouches ==
  \A data \in Composed :
    data.chain[data.page] = "intact" =>
      /\ Chain \cup {"definition"} \subseteq data.found
      /\ data.repaired \/ data.raw = "genuine"

\* An artifact a composed inventory reports unavailable is missing, or, for the
\* definition, the result that names it is (FR-035: absence is represented,
\* never fabricated).
NeverDenies ==
  \A data \in Composed : \A artifact \in Artifacts \ data.found :
    \/ artifact \notin rows[data.page]
    \/ artifact = "definition" /\ "result" \notin rows[data.page]

-----------------------------------------------------------------------------
(* Refinement. *)

Reader ==
  INSTANCE AlertScreen WITH
    Kinds <- {"evidence", "loading", "unauthorized", "not-found", "unavailable"},
    page <- route, screen <- Screen, picked <- picked

\* The pages, with a cache of their own, cancelled and failed requests and
\* refetches behind the evidence, implement the screens the reader is promised.
ImplementsScreen == Reader!Spec

-----------------------------------------------------------------------------
(* Liveness. *)

\* A loading page comes to show evidence or an error unless it is left, even
\* when every answer is an error and its entry was cancelled, collected or
\* failed before (useAlertInvestigation: retry: false).
LoadingEnds == \A p \in Pages : (route = p /\ Screen.kind = "loading") ~>
                                ~(route = p /\ Screen.kind = "loading")

=============================================================================
