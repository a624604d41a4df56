-------------------------- MODULE AlertPagesProofs --------------------------
(***************************************************************************)
(* Theorems about module AlertPages, for any set of alerts, any deletions  *)
(* and any number of an operator's changes.                                *)
(***************************************************************************)
EXTENDS AlertPagesProperties, TLAPS

-----------------------------------------------------------------------------
(* The inductive invariant. *)

RawKinds == {"genuine", "content", "identity"}

Steps == Artifacts \cup {"idle", "list", "locate", "absent", "verify", "answer"}

Requests ==
  [page : Pages \cup {-1}, step : Steps, found : SUBSET Artifacts, raw : RawKinds,
   chain : [Alerts -> Verdicts \cup {"unlisted", "unverified"}], repaired : BOOLEAN]

\* A definition is never deleted, and an alert that is due has no row yet.
DbInv ==
  /\ rows \in [Alerts -> SUBSET Artifacts] /\ raw \in [Alerts -> RawKinds]
  /\ due \subseteq Alerts /\ writes \in 0..MaxWrites
  /\ \A a \in Alerts : "definition" \in rows[a] /\ (a \in due => "alert" \notin rows[a])

\* Each kind of request takes its own steps; the chain of an alert is verified
\* last, that of a list while there is an alert left.
ReqShape ==
  /\ req \in Requests
  /\ req.page = -1 => req = Idle
  /\ req.page = Inventory => req.step \in {"list", "verify", "answer"}
  /\ req.page \in Alerts => req.step \notin {"list", "idle"}
  /\ req.page # Inventory \/ req.step = "answer" => \A a \in Alerts : req.chain[a] # "unverified"
  /\ req.page \in Alerts /\ req.step # "answer" => req.chain[req.page] = "unlisted"
  /\ req.step \in {"locate", "submission"} => req.raw = "genuine"

\* The artifacts Compose has asked for when it is at a step.
Past(step) ==
  CASE step = "validation" -> {"submission"}
    [] step = "normalized" -> {"submission", "validation"}
    [] step = "result"     -> {"submission", "validation", "normalized"}
    [] step = "definition" -> {"submission", "validation", "normalized", "result"}
    [] step = "alert"      -> Artifacts \ {"alert"}
    [] step \in {"verify", "answer"} -> Artifacts
    [] OTHER -> {}

\* An artifact is gone for good, or the result that names it is.
Gone(a, artifact) ==
  artifact \notin rows[a] \/ (artifact = "definition" /\ "result" \notin rows[a])

\* What the verdict intact vouches for.
Vouched(r) ==
  r.chain[r.page] = "intact" =>
    Chain \cup {"definition"} \subseteq r.found /\ (r.repaired \/ r.raw = "genuine")

\* What Compose did not find when it asked is gone, and a raw event that was
\* not genuine when it was read still is not, or has been repaired since.
ReqTrue ==
  req.page \in Alerts /\ req.step \notin {"locate", "absent"} =>
    /\ req.page \notin due
    /\ \A artifact \in Past(req.step) \ req.found : Gone(req.page, artifact)
    /\ req.raw # "genuine" => raw[req.page] # "genuine" \/ req.repaired
    /\ Vouched(req)

\* The same of what was answered.
DataTrue(data) ==
  data.page \in Alerts =>
    /\ data.page \notin due
    /\ \A artifact \in Artifacts \ data.found : Gone(data.page, artifact)
    /\ Vouched(data)

EntryTrue(p, query) == query \in Entry /\ Sound(p, query) /\ DataTrue(query.data)

CacheInv ==
  /\ cache \in [Pages -> Entry] /\ \A p \in Pages : EntryTrue(p, cache[p])
  /\ before \in Entry /\ DataTrue(before.data)
  /\ req # Idle => Sound(route, before)

PageInv ==
  /\ route \in Pages /\ picked \in Pins \cup {NoPin}
  /\ req # Idle => req.page = route
  /\ Screen.kind = "loading" => req # Idle
  /\ picked # NoPin => MapOf(Screen) = route

EvidenceInv == DbInv /\ ReqShape /\ ReqTrue

IInv == EvidenceInv /\ CacheInv /\ PageInv

-----------------------------------------------------------------------------
(* The handler and the tables. *)

\* No page is the page of no request, and the inventory is no alert's.
LEMMA PageNumbers == -1 \notin Pages /\ Inventory \notin Alerts /\ Alerts \subseteq Pages
  BY EvidenceAssumption DEF Pages, Inventory

\* A fresh request has read nothing and verified nothing.
LEMMA RequestFresh ==
  ASSUME NEW p \in Pages
  PROVE  /\ RequestOf(p) \in Requests /\ RequestOf(p) # Idle /\ RequestOf(p).page = p
         /\ RequestOf(p).step = IF p = Inventory THEN "list" ELSE "locate"
         /\ \A a \in Alerts : RequestOf(p).chain[a] = "unlisted"
  BY PageNumbers DEF RequestOf, Idle, Requests, Steps, RawKinds, Verdicts

\* So is no request.
LEMMA IdleShape == Idle \in Requests /\ Idle.page = -1 /\ Idle.step = "idle"
                   /\ \A a \in Alerts : Idle.chain[a] = "unlisted"
  BY DEF Idle, Requests, Steps, RawKinds

\* The first step of Compose: an alert that is located is not due.
LEMMA LocateInv == EvidenceInv /\ Locate => EvidenceInv'
  <1> SUFFICES ASSUME EvidenceInv, Locate PROVE EvidenceInv'
    OBVIOUS
  <1> USE DEF EvidenceInv
  <1>1. req.page \in Alerts /\ req # Idle
    BY PageNumbers, IdleShape DEF Locate, ReqShape, Requests, Pages
  <1>2. DbInv'
    BY DEF DbInv, Locate, db
  <1>3. ReqShape'
    BY <1>1, PageNumbers DEF ReqShape, Requests, Locate, Steps, Artifacts
  <1>4. ReqTrue'
    <2>1. CASE Chain \subseteq rows[req.page]
      <3>1. req' = [req EXCEPT !.step = "submission"] /\ UNCHANGED <<rows, raw, due>>
        BY <2>1 DEF Locate, db
      <3>2. req.page \notin due
        BY <2>1, <1>1 DEF DbInv, Chain
      <3>3. req'.raw = "genuine" /\ req'.chain[req.page] = "unlisted" /\ req'.page = req.page
        BY <3>1, <1>1 DEF ReqShape, Requests, Locate
      <3>4. Past(req'.step) = {}
        BY <3>1 DEF Past, ReqShape, Requests
      <3> QED
        BY <3>1, <3>2, <3>3, <3>4 DEF ReqTrue, Vouched
    <2>2. CASE ~(Chain \subseteq rows[req.page])
      BY <2>2 DEF ReqTrue, Locate, ReqShape, Requests
    <2> QED
      BY <2>1, <2>2
  <1> QED
    BY <1>2, <1>3, <1>4

\* Reading an artifact: it is found, or it is gone.
LEMMA ReadInv ==
  ASSUME NEW artifact \in Artifacts, EvidenceInv, Read(artifact)
  PROVE  EvidenceInv'
  <1> USE DEF EvidenceInv
  <1> DEFINE there == artifact \in rows[req.page]
             next  == IF artifact = "result" /\ ~there THEN "alert" ELSE Following[artifact]
  <1>1. req.page \in Alerts /\ req # Idle /\ req.step = artifact
    BY PageNumbers, IdleShape DEF Read, ReqShape, Requests, Pages, Artifacts
  <1>2. DbInv' /\ UNCHANGED <<rows, raw, due>>
    BY DEF DbInv, Read, db
  <1>3. next \in (Artifacts \cup {"verify"}) \ {"submission"}
    BY DEF Following, Artifacts
  <1>4. /\ req'.page = req.page /\ req'.chain = req.chain /\ req'.repaired = req.repaired
        /\ req'.step = next /\ req' \in Requests
        /\ req'.found = IF there THEN req.found \cup {artifact} ELSE req.found
        /\ req'.raw = IF artifact = "submission" /\ there THEN raw[req.page] ELSE req.raw
    BY <1>1, <1>3 DEF Read, ReqShape, Requests, DbInv, Steps
  <1>5. ReqShape'
    <2>1. req'.step \notin {"list", "idle", "answer", "locate", "submission"}
      BY <1>3, <1>4 DEF Artifacts
    <2>2. req'.page # -1 /\ req'.page # Inventory
      BY <1>1, <1>4, PageNumbers DEF Pages
    <2>3. \A a \in Alerts : req'.chain[a] # "unverified"
      BY <1>1, <1>4, PageNumbers DEF ReqShape
    <2>4. req'.chain[req'.page] = "unlisted"
      BY <1>1, <1>4 DEF ReqShape, Artifacts
    <2> QED
      BY <2>1, <2>2, <2>3, <2>4, <1>4 DEF ReqShape
  <1>6. ReqTrue'
    <2>1. req.page \notin due
      BY <1>1 DEF ReqTrue, Artifacts
    <2>2. ASSUME NEW b \in Past(next) \ req'.found PROVE Gone(req.page, b)
      <3>1. CASE b = artifact
        BY <3>1, <2>2, <1>4 DEF Gone
      <3>2. CASE b # artifact /\ b \in Past(artifact)
        BY <3>2, <2>2, <1>1, <1>4 DEF ReqTrue, Artifacts
      <3>3. CASE b # artifact /\ b \notin Past(artifact)
        <4>1. artifact = "result" /\ ~there /\ b = "definition"
          BY <3>3, <2>2 DEF Past, Following, Artifacts
        <4> QED
          BY <4>1 DEF Gone
      <3> QED
        BY <3>1, <3>2, <3>3
    <2>3. req'.raw # "genuine" => raw[req.page] # "genuine" \/ req.repaired
      BY <1>1, <1>4 DEF ReqTrue, Artifacts
    <2>4. req'.chain[req'.page] # "intact"
      BY <1>1, <1>4 DEF ReqShape, Artifacts
    <2> QED
      BY <2>1, <2>2, <2>3, <2>4, <1>2, <1>4 DEF ReqTrue, Vouched, Gone
  <1> QED
    BY <1>2, <1>5, <1>6

\* Verifying the chain: intact only if every artifact is still there, so that
\* each was there when it was asked for.
LEMMA VerifyInv == EvidenceInv /\ Verify => EvidenceInv'
  <1> SUFFICES ASSUME EvidenceInv, Verify PROVE EvidenceInv'
    OBVIOUS
  <1> USE DEF EvidenceInv
  <1>1. req.page \in Alerts /\ req # Idle /\ req.step = "verify"
    BY PageNumbers, IdleShape DEF Verify, ReqShape, Requests, Pages
  <1>2. DbInv' /\ UNCHANGED <<rows, raw, due>>
    BY DEF DbInv, Verify, db
  <1>3. VerifyAlert(req.page) \in Verdicts
    BY DEF VerifyAlert, Verdicts
  <1>4. /\ req'.page = req.page /\ req'.repaired = req.repaired /\ req'.step = "answer"
        /\ req'.found = req.found /\ req'.raw = req.raw /\ req' \in Requests
        /\ req'.chain = [req.chain EXCEPT ![req.page] = VerifyAlert(req.page)]
    BY <1>1, <1>3 DEF Verify, ReqShape, Requests, Following, Steps
  <1>5. ReqShape'
    <2>1. \A a \in Alerts : req.chain[a] # "unverified"
      BY <1>1, PageNumbers DEF ReqShape
    <2>2. \A a \in Alerts : req'.chain[a] # "unverified"
      BY <2>1, <1>1, <1>3, <1>4 DEF Verdicts, ReqShape, Requests
    <2> QED
      BY <2>2, <1>1, <1>4, PageNumbers DEF ReqShape, Pages
  <1>6. Vouched(req')
    <2>1. SUFFICES ASSUME VerifyAlert(req.page) = "intact"
                   PROVE  /\ Chain \cup {"definition"} \subseteq req.found
                          /\ req.repaired \/ req.raw = "genuine"
      BY <1>1, <1>4 DEF Vouched, ReqShape, Requests
    <2>2. Chain \subseteq rows[req.page]
      BY <2>1 DEF VerifyAlert
    <2>3. raw[req.page] = "genuine"
      BY <2>1, <1>1 DEF VerifyAlert, DbInv, RawKinds
    <2>4. \A artifact \in Artifacts \ req.found : Gone(req.page, artifact)
      BY <1>1 DEF ReqTrue, Past
    <2>5. "definition" \in rows[req.page]
      BY <1>1 DEF DbInv
    <2>6. Chain \cup {"definition"} \subseteq req.found
      BY <2>2, <2>4, <2>5 DEF Gone, Chain, Artifacts
    <2> QED
      BY <2>3, <2>6, <1>1 DEF ReqTrue
  <1>7. ReqTrue'
    BY <1>1, <1>2, <1>4, <1>6 DEF ReqTrue, Past, Gone
  <1> QED
    BY <1>2, <1>5, <1>7

\* The steps of ComposeList.
LEMMA ListInv == EvidenceInv /\ (List \/ VerifyNext) => EvidenceInv'
  <1> SUFFICES ASSUME EvidenceInv, List \/ VerifyNext PROVE EvidenceInv'
    OBVIOUS
  <1> USE DEF EvidenceInv
  <1>1. req.page = Inventory /\ req # Idle
    BY PageNumbers, IdleShape DEF List, VerifyNext, ReqShape, Requests, Pages
  <1>2. DbInv' /\ UNCHANGED <<rows, raw, due>>
    BY DEF DbInv, List, VerifyNext, db
  <1>3. CASE List
    <2>1. /\ req'.page = Inventory /\ req'.step = "verify" /\ req' \in Requests
      BY <1>1, <1>3 DEF List, ReqShape, Requests, Steps
    <2> QED
      BY <2>1, <1>1, <1>2, PageNumbers DEF ReqShape, ReqTrue, Pages
  <1>4. CASE VerifyNext /\ Unseen = {} /\ req' = [req EXCEPT !.step = "answer"]
    <2>1. /\ req'.page = Inventory /\ req'.step = "answer" /\ req' \in Requests
          /\ req'.chain = req.chain
      BY <1>1, <1>4 DEF ReqShape, Requests, Steps
    <2>2. \A a \in Alerts : req'.chain[a] # "unverified"
      BY <1>4, <2>1 DEF Unseen
    <2> QED
      BY <2>1, <2>2, <1>1, <1>2, PageNumbers DEF ReqShape, ReqTrue, Pages
  <1>5. ASSUME NEW a \in Unseen, req.step = "verify",
               req' = [req EXCEPT !.chain[a] = VerifyAlert(a)]
        PROVE  EvidenceInv'
    <2>1. VerifyAlert(a) \in Verdicts
      BY DEF VerifyAlert, Verdicts
    <2>2. /\ req'.page = Inventory /\ req'.step = "verify" /\ req' \in Requests
      BY <1>1, <1>5, <2>1 DEF Unseen, ReqShape, Requests, Steps
    <2> QED
      BY <2>2, <1>1, <1>2, PageNumbers DEF ReqShape, ReqTrue, Pages
  <1> QED
    BY <1>3, <1>4, <1>5 DEF VerifyNext

\* Every step of the handler; none writes.
LEMMA HandleInv == EvidenceInv /\ Handle => EvidenceInv' /\ req' # Idle /\ req # Idle
                                            /\ req'.page = req.page /\ UNCHANGED db
  <1> SUFFICES ASSUME EvidenceInv, Handle
               PROVE  EvidenceInv' /\ req' # Idle /\ req # Idle /\ req'.page = req.page
                      /\ UNCHANGED db
    OBVIOUS
  <1>1. EvidenceInv'
    BY LocateInv, ReadInv, VerifyInv, ListInv DEF Handle
  <1>2. req # Idle
    BY IdleShape DEF Handle, Locate, Read, Verify, List, VerifyNext, Artifacts
  <1>3. req'.page = req.page /\ UNCHANGED db
    BY DEF Handle, Locate, Read, Verify, List, VerifyNext, EvidenceInv, ReqShape, Requests
  <1> QED
    BY <1>1, <1>2, <1>3, IdleShape, PageNumbers DEF EvidenceInv, ReqShape

\* What the tables can do: rows of an alert that is raised only go, and what
\* is gone stays gone.
LEMMA ChangeDb ==
  ASSUME EvidenceInv, Change
  PROVE  /\ DbInv' /\ due' \subseteq due
         /\ \A a \in Alerts \ due : rows'[a] \subseteq rows[a]
         /\ \/ req' = req /\ \A a \in Alerts : raw[a] # "genuine" => raw'[a] # "genuine"
            \/ \E a \in Alerts : /\ \A b \in Alerts \ {a} : raw'[b] = raw[b]
                                 /\ req' = IF req.page = a THEN [req EXCEPT !.repaired = TRUE] ELSE req
  <1> USE DEF EvidenceInv
  <1>1. PICK a \in Alerts :
          \/ Raise(a) \/ Repair(a)
          \/ \E kind \in {"content", "identity"} : Tamper(a, kind)
          \/ \E gone \in Removals : Delete(a, gone)
    BY DEF Change
  <1>2. CASE Raise(a)
    BY <1>2 DEF Raise, DbInv, Artifacts
  <1>3. CASE Repair(a)
    <2>1. DbInv'
      BY <1>3, EvidenceAssumption DEF Repair, Operate, DbInv, RawKinds
    <2> QED
      BY <1>3, <2>1 DEF Repair, DbInv
  <1>4. ASSUME NEW kind \in {"content", "identity"}, Tamper(a, kind)
        PROVE  /\ DbInv' /\ UNCHANGED <<rows, due, req>>
               /\ \A b \in Alerts : raw[b] # "genuine" => raw'[b] # "genuine"
    BY <1>4, EvidenceAssumption DEF Tamper, Operate, DbInv, RawKinds
  <1>5. ASSUME NEW gone \in Removals, Delete(a, gone)
        PROVE  DbInv' /\ (\A b \in Alerts : rows'[b] \subseteq rows[b]) /\ UNCHANGED <<raw, due, req>>
    BY <1>5, EvidenceAssumption DEF Delete, Operate, DbInv
  <1> QED
    BY <1>1, <1>2, <1>3, <1>4, <1>5

\* An operator's change or the worker's keeps what is known of the request.
LEMMA ChangeInv ==
  ASSUME EvidenceInv, Change
  PROVE  EvidenceInv' /\ (req = Idle <=> req' = Idle) /\ req'.page = req.page
  <1> USE DEF EvidenceInv
  <1>1. req' = req \/ (req.page \in Alerts /\ req' = [req EXCEPT !.repaired = TRUE])
    BY ChangeDb
  <1>2. /\ req' \in Requests /\ req'.page = req.page /\ req'.step = req.step
        /\ req'.found = req.found /\ req'.raw = req.raw /\ req'.chain = req.chain
        /\ (req.repaired => req'.repaired)
    BY <1>1 DEF ReqShape, Requests
  <1>3. req = Idle <=> req' = Idle
    BY <1>1, <1>2, IdleShape, PageNumbers
  <1>4. ReqShape'
    BY <1>2, <1>3 DEF ReqShape
  <1>5. ReqTrue'
    <2> SUFFICES ASSUME req.page \in Alerts, req.step \notin {"locate", "absent"}
                 PROVE  /\ req.page \notin due'
                        /\ \A b \in Past(req.step) \ req.found : Gone(req.page, b)'
                        /\ req.raw # "genuine" => raw'[req.page] # "genuine" \/ req'.repaired
                        /\ Vouched(req')
      BY <1>2 DEF ReqTrue, Gone
    <2>1. req.page \notin due'
      BY ChangeDb DEF ReqTrue
    <2>2. \A b \in Past(req.step) \ req.found : Gone(req.page, b)'
      BY ChangeDb, <1>2 DEF ReqTrue, Gone
    <2>3. req.raw # "genuine" => raw'[req.page] # "genuine" \/ req'.repaired
      <3>1. req.raw # "genuine" => raw[req.page] # "genuine" \/ req.repaired
        BY DEF ReqTrue
      <3>2. raw[req.page] # "genuine" => raw'[req.page] # "genuine" \/ req'.repaired
        BY ChangeDb DEF ReqShape, Requests
      <3> QED
        BY <3>1, <3>2, <1>2
    <2>4. Vouched(req')
      BY <1>2 DEF ReqTrue, Vouched
    <2> QED
      BY <2>1, <2>2, <2>3, <2>4
  <1> QED
    BY ChangeDb, <1>2, <1>3, <1>4, <1>5

\* What was answered stays true whatever the tables do.
LEMMA DataStays ==
  ASSUME EvidenceInv, Change \/ UNCHANGED db, NEW data, DataTrue(data)
  PROVE  DataTrue(data)'
  <1>1. due' \subseteq due /\ \A a \in Alerts \ due : rows'[a] \subseteq rows[a]
    BY ChangeDb DEF db
  <1> QED
    BY <1>1 DEF DataTrue, Gone, Vouched

-----------------------------------------------------------------------------
(* The query cache and the pages. *)

\* A screen is that of its page; its map, if there is one, that page's.
LEMMA ScreenPage ==
  ASSUME NEW p \in Pages, NEW query \in Entry, Sound(p, query)
  PROVE  /\ ScreenOf(p, query).of = p
         /\ ScreenOf(p, query).kind \in
              {"evidence", "loading", "unauthorized", "not-found", "unavailable"}
         /\ ScreenOf(p, query).kind = "evidence" <=> query.status = "success"
         /\ ScreenOf(p, query).kind = "loading" <=> query.status = "pending"
         /\ MapOf(ScreenOf(p, query)) \in {-1, p}
         /\ MapOf(ScreenOf(p, query)) # -1 => ScreenOf(p, query).kind = "evidence"
  <1>1. query.status \in {"pending", "error", "success"}
        /\ query.error \in {"none", "unauthorized", "not-found", "unavailable"}
    BY DEF Entry
  <1>2. query.status = "success" => query.data.page = p
    <2>1. query.data \in Response \cup {NoData} /\ query.data.page \in {p, -1}
      BY DEF Entry, Sound
    <2>2. query.status = "success" => query.data \in Response
      BY <2>1 DEF Sound
    <2> QED
      BY <2>1, <2>2, PageNumbers DEF Response
  <1>3. query.status = "error" => query.error # "none"
    BY DEF Sound
  <1> QED
    BY <1>1, <1>2, <1>3, PageNumbers
    DEF ScreenOf, AlertInvestigationPage, AlertInventoryPage, MapOf

\* A fetch that begins keeps what its entry has.
LEMMA FetchingTrue ==
  ASSUME NEW p \in Pages, NEW query, EntryTrue(p, query)
  PROVE  /\ EntryTrue(p, Fetching(query))
         /\ query.status = "success" => Fetching(query) = query
  <1> USE DEF EntryTrue
  <1>1. CASE query.data = NoData
    BY <1>1 DEF Fetching, Entry, Sound
  <1>2. CASE query.data # NoData
    BY <1>2 DEF Fetching
  <1> QED
    BY <1>1, <1>2 DEF Sound

\* An entry never asked for.
LEMMA UnaskedTrue == \A p \in Pages : EntryTrue(p, Unasked) /\ Unasked \in Entry /\ DataTrue(NoData)
  BY PageNumbers DEF EntryTrue, Unasked, NoData, Entry, Sound, DataTrue

\* The cache as a cancelled request leaves it.
LEMMA CancelledTrue ==
  ASSUME CacheInv, PageInv
  PROVE  Cancelled \in [Pages -> Entry] /\ \A p \in Pages : EntryTrue(p, Cancelled[p])
  BY DEF CacheInv, PageInv, Cancelled, QueryKey, EntryTrue

\* A fetch begins: from a cache that holds the truth to one that does.
LEMMA FetchInv ==
  ASSUME NEW p \in Pages, NEW c \in [Pages -> Entry],
         \A q \in Pages : EntryTrue(q, c[q]),
         EvidenceInv, PageInv, Fetch(p, c), route' = p, Settle, UNCHANGED db
  PROVE  IInv'
  <1> USE DEF QueryKey
  <1>1. \A data : DataTrue(data)' <=> DataTrue(data)
    BY DEF DataTrue, db, Gone, Vouched
  <1>2. cache' = [c EXCEPT ![p] = Fetching(c[p])] /\ before' = c[p] /\ req' = RequestOf(p)
    BY DEF Fetch
  <1>3. cache' \in [Pages -> Entry] /\ \A q \in Pages : EntryTrue(q, cache'[q])
    BY <1>2, FetchingTrue DEF EntryTrue
  <1>4. CacheInv'
    BY <1>1, <1>2, <1>3 DEF CacheInv, EntryTrue
  <1>5. PageInv'
    <2>1. Screen' = ScreenOf(p, cache'[p])
      BY DEF Screen, Query
    <2>2. MapOf(Screen)' \in {-1, p}
      BY <1>3, <2>1, ScreenPage DEF EntryTrue, MapOf
    <2>3. req' # Idle /\ req'.page = p
      BY <1>2, RequestFresh
    <2>4. picked' # NoPin => MapOf(Screen)' = p
      BY <2>2 DEF Settle, MapOf
    <2> QED
      BY <2>3, <2>4 DEF PageInv, Settle
  <1>6. EvidenceInv'
    <2>1. DbInv'
      BY DEF EvidenceInv, DbInv, db
    <2>2. ReqShape'
      BY <1>2, RequestFresh, PageNumbers DEF ReqShape, RequestOf, Idle, Pages
    <2>3. ReqTrue'
      BY <1>2, RequestFresh, PageNumbers DEF ReqTrue
    <2> QED
      BY <2>1, <2>2, <2>3 DEF EvidenceInv
  <1> QED
    BY <1>4, <1>5, <1>6 DEF IInv

\* What a request ends with is the truth about its page, and no loading.
LEMMA EndsWith ==
  ASSUME IInv, Answer \/ Absent \/ Fail
  PROVE  \E query : /\ Ends(query) /\ req # Idle
                    /\ EntryTrue(route, query) /\ query.status # "pending"
  <1> USE DEF IInv, QueryKey, Query
  <1>1. req # Idle /\ req.page = route /\ route \in Pages
    BY IdleShape DEF Answer, Absent, Fail, PageInv
  <1>2. CASE Answer
    <2> DEFINE query == [status |-> "success", error |-> "none", data |-> ResponseOf(req)]
    <2>1. Ends(query) /\ req.step = "answer"
      BY <1>2 DEF Answer
    <2>2. ResponseOf(req) \in Response
      BY <1>1, <2>1 DEF EvidenceInv, ReqShape, Requests, ResponseOf, Response, RawKinds
    <2>3. DataTrue(ResponseOf(req))
      BY <2>1 DEF EvidenceInv, ReqTrue, Past, DataTrue, ResponseOf, Vouched
    <2>4. ResponseOf(req) # NoData /\ ResponseOf(req).page = route
      BY <1>1, <2>2, PageNumbers DEF ResponseOf, NoData
    <2>5. EntryTrue(route, query)
      BY <2>2, <2>3, <2>4 DEF EntryTrue, Entry, Sound
    <2> QED
      BY <1>1, <2>1, <2>5
  <1>3. ASSUME NEW error \in {"unauthorized", "not-found", "unavailable"}, FailsWith(error)
        PROVE  \E query : /\ Ends(query) /\ EntryTrue(route, query) /\ query.status # "pending"
    <2> DEFINE query == [cache[route] EXCEPT !.status = "error", !.error = error]
    <2>1. Ends(query)
      BY <1>1, <1>3 DEF FailsWith
    <2>2. EntryTrue(route, cache[route])
      BY <1>1 DEF CacheInv
    <2>3. EntryTrue(route, query) /\ query.status # "pending"
      BY <2>2 DEF EntryTrue, Entry, Sound
    <2> QED
      BY <2>1, <2>3
  <1>4. \A p, reply : FetchError(p, reply) \in {"unauthorized", "not-found", "unavailable"}
    BY DEF FetchError, fetchAlertInvestigation, fetchAlertInventory, toAlertFetchErrorKind,
           toListFetchErrorKind
  <1>5. CASE Absent \/ Fail
    BY <1>1, <1>3, <1>4, <1>5 DEF Absent, Fail
  <1> QED
    BY <1>2, <1>5

\* The end of a request keeps the invariant.
LEMMA EndsInv ==
  ASSUME IInv, NEW query, Ends(query), req # Idle, EntryTrue(route, query),
         query.status # "pending"
  PROVE  /\ IInv' /\ route' = route /\ Screen' = ScreenOf(route, query)
  <1> USE DEF IInv, QueryKey, Query
  <1>1. req.page = route /\ route \in Pages /\ route' = route
    BY DEF PageInv, Ends
  <1>2. \A data : DataTrue(data)' <=> DataTrue(data)
    BY DEF DataTrue, Ends, db, Gone, Vouched
  <1>3. cache' = [cache EXCEPT ![route] = query] /\ before' = Unasked /\ req' = Idle
    BY <1>1 DEF Ends
  <1>4. cache' \in [Pages -> Entry] /\ \A q \in Pages : EntryTrue(q, cache'[q])
    BY <1>1, <1>3 DEF CacheInv, EntryTrue
  <1>5. CacheInv'
    BY <1>1, <1>2, <1>3, <1>4, UnaskedTrue DEF CacheInv, EntryTrue, Unasked
  <1>6. Screen' = ScreenOf(route, query)
    BY <1>1, <1>3 DEF Screen, CacheInv
  <1>7. PageInv'
    <2>1. MapOf(Screen)' \in {-1, route} /\ Screen'.kind # "loading"
      BY <1>1, <1>6, ScreenPage DEF EntryTrue, MapOf
    <2>2. picked' # NoPin => MapOf(Screen)' = route
      BY <2>1, <1>1, PageNumbers DEF Ends, Settle, MapOf
    <2>3. picked' \in Pins \cup {NoPin}
      BY DEF Ends, Settle, PageInv
    <2> QED
      BY <1>1, <1>3, <2>1, <2>2, <2>3 DEF PageInv
  <1>8. EvidenceInv'
    BY <1>3, IdleShape, PageNumbers DEF Ends, EvidenceInv, DbInv, db, ReqShape, ReqTrue, Pages
  <1> QED
    BY <1>1, <1>5, <1>6, <1>7, <1>8

\* Opening a page.
LEMMA OpenInv ==
  ASSUME IInv, NEW p \in Pages, Open(p)
  PROVE  IInv'
  <1> USE DEF IInv, QueryKey, Query
  <1>1. route' = p /\ Settle /\ UNCHANGED db
    BY DEF Open
  <1>2. CASE Fetch(p, Cancelled)
    BY <1>1, <1>2, CancelledTrue, FetchInv
  <1>3. CASE MayBeFresh(Cancelled[p]) /\ req' = Idle /\ cache' = Cancelled /\ before' = Unasked
    <2>1. \A data : DataTrue(data)' <=> DataTrue(data)
      BY <1>1 DEF DataTrue, db, Gone, Vouched
    <2>2. CacheInv'
      BY <1>3, <2>1, CancelledTrue, UnaskedTrue DEF CacheInv, EntryTrue, Unasked
    <2>3. Screen' = ScreenOf(p, Cancelled[p])
      BY <1>1, <1>3 DEF Screen
    <2>4. MapOf(Screen)' \in {-1, p} /\ Screen'.kind = "evidence"
      BY <1>3, <2>3, CancelledTrue, ScreenPage DEF EntryTrue, MapOf, MayBeFresh
    <2>5. picked' # NoPin => MapOf(Screen)' = p
      BY <1>1, <2>4, PageNumbers DEF Settle, MapOf
    <2>6. PageInv'
      BY <1>1, <1>3, <2>4, <2>5 DEF PageInv, Settle
    <2>7. EvidenceInv'
      BY <1>1, <1>3, IdleShape, PageNumbers DEF EvidenceInv, DbInv, db, ReqShape, ReqTrue, Pages
    <2> QED
      BY <2>2, <2>6, <2>7
  <1> QED
    BY <1>2, <1>3 DEF Open

\* A step of the tables or of the handler leaves the pages alone.
LEMMA BehindInv ==
  ASSUME IInv, Handler \/ Environment
  PROVE  IInv'
  <1> USE DEF IInv
  <1>1. EvidenceInv' /\ (req = Idle <=> req' = Idle) /\ req'.page = req.page /\ UNCHANGED page
    BY HandleInv, ChangeInv DEF Handler, Environment
  <1>2. \A data : DataTrue(data) => DataTrue(data)'
    BY HandleInv, DataStays DEF Handler, Environment
  <1>3. CacheInv'
    BY <1>1, <1>2 DEF CacheInv, EntryTrue, page
  <1>4. PageInv'
    BY <1>1 DEF PageInv, page, Screen, Query
  <1> QED
    BY <1>1, <1>3, <1>4

\* The first page asks, and nothing is known yet.
LEMMA InitInv == Init => IInv
  <1> SUFFICES ASSUME Init PROVE IInv
    OBVIOUS
  <1>1. req = RequestOf(route) /\ route \in Pages /\ cache = [p \in Pages |-> Unasked]
        /\ before = Unasked /\ picked = NoPin
    BY DEF Init
  <1>2. DbInv
    BY EvidenceAssumption DEF Init, DbInv, RawKinds, Artifacts
  <1>3. ReqShape /\ ReqTrue
    BY <1>1, RequestFresh, PageNumbers DEF ReqShape, ReqTrue, RequestOf, Idle, Pages
  <1>4. CacheInv
    BY <1>1, UnaskedTrue DEF CacheInv, EntryTrue, Unasked
  <1>5. PageInv
    BY <1>1, RequestFresh DEF PageInv
  <1> QED
    BY <1>2, <1>3, <1>4, <1>5 DEF IInv, EvidenceInv

\* Every step keeps the invariant.
LEMMA NextInv == IInv /\ [Next]_vars => IInv'
  <1> SUFFICES ASSUME IInv, [Next]_vars PROVE IInv'
    OBVIOUS
  <1> USE DEF IInv, QueryKey, Query
  <1>1. CASE Environment \/ Handler
    BY <1>1, BehindInv
  <1>2. CASE \E p \in Pages : Open(p)
    BY <1>2, OpenInv
  <1>3. CASE Answer \/ Absent \/ Fail
    BY <1>3, EndsWith, EndsInv
  <1>4. CASE Retry \/ Reconnect
    <2>1. route \in Pages /\ cache \in [Pages -> Entry] /\ \A q \in Pages : EntryTrue(q, cache[q])
      BY DEF PageInv, CacheInv
    <2> QED
      BY <1>4, <2>1, FetchInv DEF Retry, Reconnect
  <1>5. ASSUME NEW p \in Pages, Collect(p) PROVE IInv'
    <2>1. p # route /\ cache' = [cache EXCEPT ![p] = Unasked]
          /\ UNCHANGED <<rows, raw, due, writes, req, route, before, picked>>
      BY <1>5 DEF Collect, db
    <2>2. \A data : DataTrue(data)' <=> DataTrue(data)
      BY <2>1 DEF DataTrue, Gone, Vouched
    <2>3. CacheInv'
      BY <2>1, <2>2, UnaskedTrue DEF CacheInv, EntryTrue
    <2>4. Screen' = Screen
      BY <2>1 DEF Screen, CacheInv, PageInv
    <2>5. PageInv'
      BY <2>1, <2>4 DEF PageInv, MapOf
    <2>6. EvidenceInv'
      BY <2>1 DEF EvidenceInv, DbInv, ReqShape, ReqTrue, Gone, Vouched
    <2> QED
      BY <2>3, <2>5, <2>6
  <1>6. ASSUME NEW pin \in Pins, Select(pin) PROVE IInv'
    <2>1. UNCHANGED <<db, req, route, cache, before>> /\ picked' \in Pins \cup {NoPin}
          /\ MapOf(Screen) # -1
      BY <1>6 DEF Select
    <2>2. CacheInv' /\ EvidenceInv'
      BY <2>1 DEF CacheInv, EntryTrue, DataTrue, db, EvidenceInv, DbInv, ReqShape, ReqTrue, Gone, Vouched
    <2>3. MapOf(Screen) = route
      BY <2>1, ScreenPage DEF EntryTrue, Screen, CacheInv, PageInv
    <2>4. PageInv'
      BY <2>1, <2>3 DEF PageInv, Screen, MapOf
    <2> QED
      BY <2>2, <2>4
  <1>7. CASE UNCHANGED vars
    BY <1>7 DEF vars, page, db, EvidenceInv, DbInv, ReqShape, ReqTrue, CacheInv, EntryTrue,
                DataTrue, Gone, Vouched, PageInv, Screen
  <1> QED
    BY <1>1, <1>2, <1>3, <1>4, <1>5, <1>6, <1>7 DEF Next

\* The invariant, of every reachable state.
THEOREM Invariance == Spec => []IInv
  BY InitInv, NextInv, PTL DEF Spec

-----------------------------------------------------------------------------
(* The theorems. *)

\* Every variable holds a value of its kind and the pages agree with the cache.
THEOREM TypeCorrect == Spec => []TypeOK
  <1>1. IInv => TypeOK
    BY IdleShape DEF IInv, EvidenceInv, DbInv, ReqShape, Requests, CacheInv, EntryTrue, PageInv,
                     TypeOK, RawKinds
  <1> QED
    BY <1>1, Invariance, PTL

\* However the tables change while the evidence of an alert is read, a page
\* that says the chain is intact shows the event that was admitted and every
\* artifact of the chain.
THEOREM IntactIsVouchedFor == Spec => []IntactVouches
  <1>1. IInv => IntactVouches
    <2> SUFFICES ASSUME IInv, NEW a \in Alerts, cache[a].data # NoData,
                        cache[a].data.chain[cache[a].data.page] = "intact"
                 PROVE  /\ Chain \cup {"definition"} \subseteq cache[a].data.found
                        /\ cache[a].data.repaired \/ cache[a].data.raw = "genuine"
      BY DEF IntactVouches, Composed
    <2>1. EntryTrue(a, cache[a])
      BY PageNumbers DEF IInv, CacheInv
    <2>2. cache[a].data.page \in Alerts
      BY <2>1, PageNumbers DEF EntryTrue, Entry, Response, Sound
    <2> QED
      BY <2>1, <2>2 DEF EntryTrue, DataTrue, Vouched
  <1> QED
    BY <1>1, Invariance, PTL

\* A page never reports an artifact unavailable that is there.
THEOREM NothingIsDenied == Spec => []NeverDenies
  <1>1. IInv => NeverDenies
    <2> SUFFICES ASSUME IInv, NEW a \in Alerts, cache[a].data # NoData,
                        NEW artifact \in Artifacts \ cache[a].data.found
                 PROVE  Gone(cache[a].data.page, artifact)
      BY DEF NeverDenies, Composed, Gone
    <2>1. EntryTrue(a, cache[a])
      BY PageNumbers DEF IInv, CacheInv
    <2>2. cache[a].data.page \in Alerts
      BY <2>1, PageNumbers DEF EntryTrue, Entry, Response, Sound
    <2> QED
      BY <2>1, <2>2 DEF EntryTrue, DataTrue
  <1> QED
    BY <1>1, Invariance, PTL

-----------------------------------------------------------------------------
(* Refinement. *)

Kinds == {"evidence", "loading", "unauthorized", "not-found", "unavailable"}

\* Every step of the pages is one the reader is promised, or shows him nothing.
LEMMA StepIsPromised == IInv /\ IInv' /\ [Next]_vars => [Reader!Next]_(Reader!vars)
  <1> SUFFICES ASSUME IInv, IInv', [Next]_vars PROVE [Reader!Next]_(Reader!vars)
    OBVIOUS
  <1> USE DEF QueryKey, Query
  <1>1. /\ route \in Pages /\ EntryTrue(route, cache[route])
        /\ Screen = ScreenOf(route, cache[route])
    BY DEF IInv, PageInv, CacheInv, Screen
  <1>2. /\ Screen.of = route /\ Screen.kind \in Kinds /\ MapOf(Screen) \in {-1, route}
        /\ Screen \in [kind : Kinds, of : Pages]
        /\ MapOf(Screen) # -1 => Screen.kind = "evidence"
    BY <1>1, ScreenPage DEF EntryTrue, Kinds, ScreenOf
  <1>3. /\ route' \in Pages /\ cache'[route'] \in Entry /\ Sound(route', cache'[route'])
        /\ Screen' = ScreenOf(route', cache'[route'])
    BY DEF IInv, PageInv, CacheInv, Screen, EntryTrue, Sound
  <1>4. /\ Screen'.of = route' /\ Screen'.kind \in Kinds /\ MapOf(Screen)' \in {-1, route'}
        /\ Screen' \in [kind : Kinds, of : Pages]
    BY <1>3, ScreenPage DEF Kinds, ScreenOf, MapOf
  <1>5. ASSUME NEW p \in Pages, Open(p) PROVE Reader!Visit(p)
    <2>1. p # route /\ route' = p /\ Settle
      BY <1>5 DEF Open
    <2>2. picked' = NoPin
      BY <1>2, <1>4, <2>1 DEF Settle, MapOf
    <2> QED
      BY <1>4, <2>1, <2>2 DEF Reader!Visit, Reader!Screen, Kinds
  <1>6. ASSUME route' = route, Settle, Screen.kind = "evidence" => Screen'.kind # "loading"
        PROVE  Reader!Turn
    <2>1. picked' = IF Screen.kind = "evidence" /\ Screen' = Screen THEN picked ELSE NoPin
      <3>1. picked # NoPin => MapOf(Screen) = route
        BY DEF IInv, PageInv
      <3> QED
        BY <1>2, <1>4, <1>6, <3>1, PageNumbers DEF Settle, MapOf
    <2> QED
      BY <1>2, <1>4, <1>6, <2>1 DEF Reader!Turn, Reader!Screen, Kinds
  <1>7. CASE Retry \/ Reconnect
    <2>1. cache'[route] = Fetching(cache[route]) /\ route' = route /\ Settle
      BY <1>1, <1>7 DEF Retry, Reconnect, Fetch, IInv, CacheInv
    <2>2. Screen.kind = "evidence" => Screen' = Screen
      BY <1>1, <1>3, <2>1, ScreenPage, FetchingTrue DEF EntryTrue
    <2> QED
      BY <1>6, <2>1, <2>2 DEF Reader!Next
  <1>8. CASE Answer \/ Absent \/ Fail
    <2>1. PICK query : /\ Ends(query) /\ req # Idle
                       /\ EntryTrue(route, query) /\ query.status # "pending"
      BY <1>8, EndsWith
    <2>2. route' = route /\ Screen' = ScreenOf(route, query) /\ Settle
      BY <2>1, EndsInv DEF Ends
    <2>3. Screen'.kind # "loading"
      BY <1>1, <2>1, <2>2, ScreenPage DEF EntryTrue
    <2> QED
      BY <1>6, <2>2, <2>3 DEF Reader!Next
  <1>9. ASSUME NEW pin \in Pins, Select(pin) PROVE Reader!Pick(pin)
    BY <1>2, <1>9 DEF Select, Reader!Pick, Screen
  <1>10. ASSUME NEW p \in Pages, Collect(p) PROVE UNCHANGED <<route, Screen, picked>>
    BY <1>10 DEF Collect, Screen, IInv, CacheInv
  <1>11. CASE Environment \/ Handler \/ UNCHANGED vars
    BY <1>11 DEF Environment, Handler, vars, page, Screen, Reader!vars
  <1> QED
    BY <1>5, <1>7, <1>8, <1>9, <1>10, <1>11 DEF Next, Reader!Next, Reader!vars

\* The pages implement what their reader is promised.
THEOREM PagesImplementScreen == Spec => ImplementsScreen
  <1>1. Init => Reader!Init
    <2> SUFFICES ASSUME Init PROVE Reader!Init
      OBVIOUS
    <2>1. route \in Pages /\ EntryTrue(route, Unasked) /\ Screen = ScreenOf(route, Unasked)
          /\ picked = NoPin
      BY UnaskedTrue DEF Init, Screen, Query, QueryKey
    <2> QED
      BY <2>1 DEF Reader!Init, Reader!Screen, ScreenOf, AlertInvestigationPage,
                  AlertInventoryPage, Unasked
  <1> QED
    BY <1>1, StepIsPromised, Invariance, PTL DEF Spec, ImplementsScreen, Reader!Spec

=============================================================================
