# CNSDP: specifications, model checks and proofs

CNSDP receives security telemetry (Kubernetes audit events, AWS CloudTrail
management events), stores each event as a *submission* in PostgreSQL, moves it
through five stages (validation, normalization, detection, alerting, evidence
verification), and answers read-only queries about the result. This directory
holds TLA+ modules for that program, TLC configurations that check them on
small instances, and TLAPS proofs, for every instance, of every safety property
the runs check. Paths are relative to the repository's root, which the modules
call `src/`.

Contents: [inventory](#1-inventory), [modules](#2-modules-and-how-they-correspond-to-the-code),
[runs](#3-runs-bounds-and-what-they-show), [fairness](#4-fairness-and-why-the-code-justifies-it),
[proofs](#5-proofs), [findings](#6-where-code-and-documentation-disagree),
[not modelled](#7-what-is-not-modelled), [plan](#8-plan).

## 1. Inventory

Two processes run the program: the **platform** (`cmd/platform`, HTTP endpoints
and one worker goroutine) and the **CloudTrail bridge**
(`cmd/cloudtrail-bridge`). They share nothing but an HTTP endpoint. Inside the
platform, all components meet in the database: the worker hands a submission
from stage to stage only through its `status` column. No stage calls another.

| component | state | operations | interacts with |
|---|---|---|---|
| intake (`internal/intake`) | none of its own | the two `ServeHTTP` handlers: per item, ask the limiter, derive the identity, `submission.Admit`; one status for the batch | limiter, submission store, clients and bridge |
| admission limiter (`intake/admission.go`) | a list of timestamps under a mutex, in memory | `Allow` | both handlers |
| submission store (`internal/submission`) | table `submissions` | `Admit` (conflict-safe insert under a source key), `Advance` (guarded status update), `Get`, `List`, `GetMany`, `Count` | every other component |
| worker (`internal/worker`) | a sweep cursor on the stack | `Run`: claim the oldest eligible submission, dispatch it to its stage | the five stages |
| validation | `validation_outcomes` | `Classify`, `Advance`, readers | worker, submissions list |
| normalization | `normalized_events` | `Normalize`, `Advance`, `Get` | worker |
| detection | `detection_definitions`, `detection_results` | `LoadFS`, `ActiveDefinitions`, `evaluate`, `Advance`, readers | platform start, worker |
| alerting | `alerts` | `Advance`, readers | worker |
| evidence | none | `Complete`, `Advance`, `Compose` | worker, retrieval |
| traceability | none | `VerifyAlert`, `Locate` | evidence, retrieval |
| retrieval (`internal/retrieval`) | none | `listSubmissionsPage`, the alert readers over `Compose` and `ComposeList`, detections | all tables |
| data sources, diagnostics, auth, db | none | aggregate queries; logging; a token comparison; connection and migrations | tables |
| bridge | backoff on the stack | receive, post, delete, sleep | SQS, intake |
| frontend, fetch layer (`frontend/src/lib/api`) | none | `apiGet`, the contract's decoders, the kinds of error | retrieval |
| frontend, submissions page | one cache entry of accumulated pages, the filter | load more, refetch, retry | submissions list |
| frontend, alert inventory and investigation page | one cache entry per key, the route, the selected characteristic | routing, fetch, cancel, retry, select | alert readers |
| frontend, investigation logic (`alert-investigation/lib`) | none | `buildAlertInvestigationViewModel`: concordance, provenance, register, finding, proof, all from one response | investigation page |
| frontend, evidence map (`components/evidence-map`) | none but the selection handed down | rows, marks, pins, rays, tally, wires and rail of a response and a selection | investigation logic |
| frontend, detections and data sources pages | a cache entry each | one query and a table or cards | retrieval |
| harness, provisioning scripts | none of the program's | acceptance tests; set-up | from outside |

What is hard here, and for which component:

* **Stages** read outside their transaction (alerting reads the normalized event
  and the results before it opens one), a commit's answer can be lost, and a
  process can die with its transaction undecided while the next process is
  already claiming. *Correct* means: artifacts and status move together, are
  never replaced, are of one release and of the admitted event.
* **Worker**: a submission that fails at every attempt is always the oldest.
  *Correct* means it starves nobody, and that later ones get their turn first.
* **Intake**: two handlers interleave on one limiter and on one unique key, and
  clients redeliver. *Correct* means one submission per event, conflicts only
  when genuine, an exact sliding window, a truthful status.
* **Bridge**: post and delete are two calls, each of which can fail after
  taking effect; the queue counts receives and gives up. *Correct* means nothing
  unrecorded is deleted, everything settles, and a wrong endpoint or token whose
  answer tells so does not empty the backlog into the dead-letter queue.
* **Submissions list**: a page is composed of several queries with no common
  transaction, and pages follow one another while rows are inserted and
  classified. *Correct* means no row twice, no stable row missed, no mixed row, in the
  browser that accumulates, refetches and abandons such pages too.
* **Alert readers**: `Compose` asks for the six artifacts and the verdict on the
  chain in up to eight queries without a common transaction, while alerts are
  raised and rows are changed, repaired or deleted behind the platform's back.
  *Correct* means an intact verdict vouches for what was read, and nothing that
  is there is reported missing.
* **Alert pages**: requests are cancelled, fail and are repeated while the reader
  goes from page to page over a cache. *Correct* means each screen is of the
  page asked for, a selection never outlives its map, and loading ends.
* **Investigation**: the page evaluates the definition anew, in another language,
  from the match reason, and derives provenance from tables of paths that no
  compiler compares with the platform's. *Correct* means it never claims more
  than the evidence shows and its several accounts of one chain agree.
* **Decision functions**: validation and normalization decode the same event
  separately and to different depths, detection is generic over definitions.
  *Correct* means their composition is what the requirements say of the raw event.

`PROJECT.json` lists every hazard at its line with the properties that cover it.

## 2. Modules and how they correspond to the code

`X.tla` is the model, `XProperties.tla` its properties, `MCX.tla` gives the
constants values. An operator `FooBar...` under a comment *Mutation of Foo* is a
plausible mistake in `Foo`; the specification never uses it. It is there to show
that the property it is listed with in `PROJECT.json` notices that mistake.

### The pipeline: `PipelineData`, `PipelineAbstract`, `Pipeline`, `SweepFairness`

`PipelineData` is the data the stages derive. The decision functions are
deterministic, so here they are constants (`Classification`, `Normalizable`,
`Matches`) about which nothing else is assumed; the instances in `MCPipeline`
get their values from the modules of the decision functions below, applied to
four representative source events and to definitions of two releases.

`Pipeline` has the tables as functions of the submission, and the worker as a
program counter whose values are the points where others can act:

| `pc` | the worker is about to | code | actions |
|---|---|---|---|
| `idle` | run the claim query | `oldestEligibleAfter` | `Claim`, `NoneEligible`, `ClaimError` |
| `claimed` | read or compute the stage's inputs | before `BeginTx` in each `Advance` | `Prepare`, `PrepareFails`, `StageError` |
| `computed` | run the transaction's statements, or, for an alerted submission, the reads of its evidence | the upserts and `submission.Advance`; `assembleInventory` | `Validate`, `Normalize`, `Detect`, `RaiseAlerts`, `Inspect`, `InspectFails`, `StatementsFail`, `StageError` |
| `inspected` | run the status update of the verification | the `submission.Advance` of `evidence.Advance` | `Verify`, `StatementsFail`, `StageError` |
| `executed` | commit | `tx.Commit` | `Commit`, `CommitUnacknowledged`, `StageError` |
| `down` | start again | `main` | `Restart` (with any release, loading its definitions) |

The statements of a transaction that write are one step because nobody else can
see between them; their effect is held in `tx` until the commit applies it. The
verification also reads in its transaction, and there the order matters: under
READ COMMITTED `VerifyAlert`'s `SELECT` takes no lock, so `Inspect` and `Verify`
are two steps and the raw event may change between them (finding 3). `Crash`
leaves a transaction whose fate is undecided in `orphans`, where
`OrphanCommits` or `OrphanRollsBack` decides it; it keeps the row lock on its
submission until then. `Admit` makes a submission visible. `Tamper` replaces a
stored raw event behind the platform's back, as often as `MaxTampers` allows for
that submission and back to the admitted one too: evidence verification exists
because of it. `tampers` counts the changes, and the history variable `held` has
the events the row has held since its status last changed. Submissions are numbered in claim order, (created_at, id), and
may become visible in any order.

`cur` is the sweep cursor (0 for nil). `AttemptFails`, `AttemptSucceeds`,
`NoneEligible` and `ClaimError` are the four assignments `Run` makes to it.

`PipelineAbstract` is the promise: a submission moves through the five stages,
each in one step that writes status and artifacts together, all results of one
release, all alerts of the recorded results. What raw event a stage works from is
one that was `held`: stored at some moment since the stage before; and evidence
with alerts passes only if the admitted event was. It knows no worker,
transaction, crash or deployed release. `ImplementsAbstract` says `Pipeline` refines it. The mapping
is the identity on the tables: what is pending in `tx` or in an orphan does not
count until it is committed, so each commit is one abstract stage and every
other step a stutter or an admission.

`SweepFairness` adds a history variable to `Pipeline`: for each failed
submission, the later ones that were eligible then and have not been attempted
since.

### The decision functions: `SourceEvents`, `Validation`, `Normalization`, `DetectionRules`, `EventDecisions`

`SourceEvents` has the two families' raw events as records of what the code
looks at: a field that only has to be present is a BOOLEAN, one that is compared
keeps its value. `Validation`, `Normalization` and `DetectionRules` translate
`Classify`, `Normalize` and `evaluate` with their helpers, under the code's
names, including the *two* scenario resolvers per family: the packages keep
their own on purpose (`normalization.go`, package comment). `DetectionRules`
also has the six files of `definitions/`. `EventDecisions` runs an event through
the three.

Encoding details that change the outcome are kept: `encoding/json` goes on after
a field of a wrong type but stops at a field that decodes itself (a timestamp)
and fails, so a malformed event has `malformed = "field"` or `"early"`;
validation leaves a Pod's `spec` undecoded and never looks at a binding's
subjects, normalization decodes both (`object.fits`); CloudTrail parameters that
are no object decode to nothing.

### Admission: `Intake`, `AdmissionAbstract`

Requests are processes. An item is decided in the handler's order: `Grant` or
`Reject` (the limiter, under its mutex, hence one step), `Draw` (the insert
draws its id before it can wait for a concurrent insert of the same key),
`Settle` (the conflict-safe insert takes effect and answers), `Respond` (the
batch's status by its precedence). `SettleUnacknowledged`, `AdmitFails`,
`Restart` and `OrphanEnds` are the failures; `Resend` the client's or the
bridge's retry. `SourceKey` keeps the three namespaces of the code's key. The
properties keep their own record, `grants`, of every slot granted, because the
limiter prunes its list.

`AdmissionAbstract` is the promise, with no handler, limiter, drawn id or
restart: the first item of a source event becomes a submission under an id of
its own, submissions are never changed or removed, and a client is told an id
only of the very content it delivered, a conflict only of an event that has
another. Which items claim to be one event is its constant `Same`;
`ImplementsAdmission` gives it `SameEvent`, which speaks of identities and bytes
and not of `SourceKey`, and maps the rows without their keys to `submissions` and
each handler's results so far to `told`.

### The bridge: `Bridge`

`pc` is the position in `run`: polling, posting, deleting, sleeping, stopped.
The four outcomes of a message and `classifyStatus` are the code's. A
misconfiguration, `broken`, is the one status every post then gets, from
`Misanswers`: 0 when a malformed or unreachable endpoint gives no answer, 401,
403, 404 or 405 (`Telling`), at which the bridge stops, or another, such as 400,
which `classifyStatus` blames on the message. It lasts until the operator
restarts the bridge. Two history variables: `wasted` counts the posts each
message lost to an answer that did not tell, `streak` has the sleeps of the
current episode of transient failures. The queue
(visibility timeout, receive count, redrive), the operator and the platform's
side of a post are external; the platform answers as `Intake` does, recording
one content per event. A post that is given up may still be carried out later
(`late`).

### The submissions list and its page: `SubmissionsList`

Inside a page, the handler's queries in their order: `List` (`submission.List`,
or `validation.ListByOutcome`), `BatchGet` or `JoinMany` (`GetMany` and the
merge), `Answer` (`Count`, trimming, the next cursor). Between any two, ids are
drawn, inserts end, and the worker classifies.

Around it the browser (`useSubmissions`, `SubmissionsPage`): `data` is the page
sequence on display, `draft` the one being fetched. `LoadMore` fetches one more
page after the last cursor, `Refetch` all of them again from the first; `Leave`
cancels a fetch; `Fail` ends one with the kind of error `ApiClient` makes of the
reply and keeps the data, though the error screen hides it. Each filter has a
cache entry of its own, so a behaviour is about one filter, chosen at the start. `SubmissionsPage` is the screen as a function of those variables, with the
total, the button and each row's badge.

### The alert readers: `Evidence`

The tables as they concern one alert (which of its artifacts have a row, and
whether the raw event is the genuine one) and the handler's queries one by one:
`Locate`, then `Read(artifact)` in the order `Following` gives, then `Verify`,
for `Compose`; `List`, then `VerifyNext` for each alert, for `ComposeList`.
Between any two the worker raises alerts (`Raise`) and an operator changes,
repairs or deletes rows (`Tamper`, `Repair`, `Delete`, which respects the foreign
keys). The tables start in the states the pipeline leaves them in:
`StageArtifactsMatchStatus` says everything an alert refers to is recorded.

### The alert pages: `ApiClient`, `AlertPages`, `AlertScreen`

`ApiClient` is the fetch layer: from a reply (arrived, status, JSON, shape) to
the kind of error a page distinguishes. `AlertPages` puts the browser on top of
`Evidence`: `route`, one `cache` entry per query key, and `picked`, the state of
`InvestigationMap`. Its actions are what the reader does (`Open`, `Retry`,
`Select`), what the cache does (`Reconnect`, `Collect`, cancelling and putting
`before` back) and how a request ends (`Answer`, `Absent`, `Fail`). TanStack
Query is not part of the repository and is modelled as the hooks configure it:
no retries, stale after 30 s, requests cancelled on leaving.

`AlertScreen` is the promise, without cache, request or failure: the screen is
always of the page asked for, evidence never gives way to a loading screen
except by leaving, a selection lasts as long as its map. `ImplementsScreen` maps
the address to the page and `Screen`, computed from the cache, to the screen.

### The investigation: `InvestigationView`, `EvidenceMap`

`InvestigationView` has the pure functions of `alert-investigation/lib` under
their names; a response is a record of what they tell apart. `EvidenceMap` has
what each component of `InvestigationMap` shows for a response and a selected
characteristic; coordinates are reduced to whether both ends of a connector are
on the page. `InvestigationViewProperties` extends the properties of the
decision functions: the response is built from what `Validation`,
`Normalization` and `DetectionRules` decided of the same source event, so a
path that is misspelled on one side of the wire is noticed.

The modules call a Pod's flag `hostPath` where the code has `hostPathVolume`, on
both sides.

## 3. Runs, bounds and what they show

| run | configuration | distinct states | shows |
|---|---|---|---|
| `pipeline_safety` | `MCPipelineSafety` | 1.1 million | artifacts match statuses and never change, results are of one release, a single change of a raw event is exposed, unfinished transactions are current, and the pipeline implements `PipelineAbstract` |
| `pipeline_progress` | `MCSweep` | 119 thousand | nothing keeps a healthy submission from being evidenced or any from being classified; a failed one waits for each later one |
| `evidence_gap` | `MCPipelineEvidenceGap` | (violated) | finding 3 |
| `intake` | `MCIntake` | 1.9 million | idempotent admission, genuine conflicts, truthful status, exact window, no rejection before it is due; the handlers implement `AdmissionAbstract` |
| `bridge_safety` | `MCBridge` | 1.5 million | nothing unrecorded is deleted, backoff, a misconfiguration that its answer tells does not drain the queue |
| `bridge_liveness` | `MCBridgeLiveness` | 128 thousand | every message settles, good events arrive |
| `list_pages` | `MCSubmissionsList` | 2.1 million | what the reader of the submissions page may rely on across pages, queries, refetches and errors |
| `list_skip` | `MCSubmissionsListSkip` | (violated) | finding 1 |
| `decisions` | `MCEventDecisions` | 212,934 | classification, normalization and evaluation together match what the requirements say of the raw event, and the investigation page derives the same verdict and an honest provenance from it |
| `decisions_normalizable` | `MCEventDecisionsNormalizable` | (violated) | finding 2 |
| `decisions_malformed` | `MCEventDecisionsMalformed` | (violated) | finding 4 |
| `investigation` | `MCAlertPages` | 414,064 | an intact chain vouches for what was read, nothing is denied, the pages implement `AlertScreen`, loading ends |

Bounds, and why they are enough for the cases to happen:

* **Pipeline, safety.** `MaxId = 2` submissions, three kinds of event (one that
  matches, one that matches nothing, one malformed; the one that is valid but
  not normalizable is in the progress run), two releases that share a definition
  and differ in another, one fault, one crash, and two changes of the first
  submission's raw event, none of the second's. Two submissions are what a
  cursor needs to skip one; one crash makes one orphan next to a live
  transaction; a release change needs one restart; two changes are what it takes
  to put an event back. The proofs lift every one of these bounds for the safety
  properties.
* **Pipeline, progress.** `MaxId = 3`, so that a sweep has a failing submission
  before, between and after healthy ones; one release, since progress does not
  depend on it; one fault, one crash and no changed event, which would only
  end what the property asks for (`Healthy`).
* **Intake.** Two requests with batches of one or two items, chosen so that
  items collide in every way: the same event twice, one identity with two
  contents, the same undecodable bytes in both families. `Limit = 2` and
  `Window = 2` on a clock up to 2: the limit is reached inside one batch and a
  slot becomes exactly one window old. `MaxAttempts = 2` deliveries, one failed
  insert, one restart. Requests are interchangeable, so they are a symmetry set
  (there is no liveness property in this run). `CHECK_DEADLOCK FALSE`: when every
  request is answered and used up, and the clock at its bound, nothing is left.
* **Bridge.** A good event, two with one identity and different content, a
  message without an envelope; `MaxReceive = 2` stands for the queue's 50 (what
  matters is that it runs out), backoff 2 capped at 5 for 2 s capped at 30 s,
  two faults of any kind. `Misanswers` has one status for each way the bridge
  goes on: 0 (it sleeps), 400 (it goes on at once), 404 (it stops); for liveness
  0 and 404, the three usable messages, two faults and a backoff that starts at
  its cap. `streak` records the cap once, so it stays finite.
* **Submissions list.** Three ids, page size 1 (every page but the last has a
  lookahead row, and three pages are on display at most), two outcomes and all
  filters. One browser: browsers do not influence each other.
* **Alert pages.** Two alerts and the inventory: one raised, whose rows an operator
  may change once, one due to be raised at any time. He deletes a row nobody
  refers to, or the alert with its result; one change is enough to come between
  any two queries, and the raw event may have been changed before, so that the
  one change can be the repair. One characteristic to select. The proofs lift
  the number of alerts, changes and pins.
* **Decisions.** All combinations of the fields' boundary values: verbs, the
  targets of the scenarios and near misses of them, response codes 0, 199, 200,
  299 and 300, at most two of a Pod's six risks, role kinds and names,
  parameters and policies, principals; and defects of form one at a time. For
  each event that raises an alert, every set of missing artifacts, every verdict
  on the chain and every characteristic the definition declares.
  `CHECK_DEADLOCK FALSE` because an event's decisions come to an end.

Every property of a passing run has a mutant in `PROJECT.json`: with that mistake
in the model, the run reports the property violated.

`MatchesAsRequired` deserves a remark. `Required` is the reference definition,
written from FR-024 to FR-026 and FR-037 to FR-039 over the raw event; nothing
of normalization, of the characteristics or of the generic algorithm is in it.

## 4. Fairness and why the code justifies it

* *Worker* (`Pipeline!FairSpec`, and the same with history in
  `SweepFairness!FairSweepSpec`): weak fairness of
  `Claim \/ NoneEligible \/ Attempt`, one condition for the loop as a whole.
  `Run` is a loop in one goroutine that leaves an iteration only by the ways
  modelled, and waits for nothing but the database. No fairness for any stage,
  submission or success alone.
* *Restart*: weak fairness of `Startup`; `docker-compose.yml` has
  `restart: unless-stopped` on the platform.
* *Orphans*: weak fairness of `OrphanEnds`; PostgreSQL ends a transaction whose
  client is gone.
* *Bridge* (`Bridge!Fairness`): weak fairness of posting, deleting and sleeping:
  each call has a timeout (25 s, 15 s, 10 s). Weak fairness of `Start`: the
  operator restarts a bridge that stopped on a fatal error
  (`docs/reference-environment.md`). Weak fairness of `Expire`: the visibility
  timeout. Strong fairness, per message, of `Receive \/ Redrive`: SQS delivers a
  visible message some time if it is polled again and again; weak fairness would
  be too little, since each poll for another message disables it.
* *Alert pages* (`AlertPages!FairSpec`): weak fairness of the handler's queries and
  of the arrival of its reply. The handler is a sequence of queries that waits for
  nothing but the database; that a reply or an error arrives some time is an
  assumption about the connection, since neither `apiGet` nor the server's
  handlers have a timeout. Nothing is assumed of the reader, of failures or of
  refetches. A request cancelled by leaving is not fair to anyone, and
  `LoadingEnds` does not need it: leaving ends the loading too.
* Faults, crashes, tampering, admissions and misconfigurations happen or do not;
  they are bounded, so the liveness properties speak about runs in which errors
  end some time. A submission that fails *by its content* fails for ever, and
  that is not bounded.

Without the sweep (`AttemptFailsWithoutSweep`), `HealthyEvidenced` fails under
the same fairness: it is the cursor, not the assumption, that makes it true.

## 5. Proofs

TLAPS proves the 36 results below for any values of the constants: every safety
invariant and action property of the passing runs, and the three refinements. In
each component the argument is an inductive invariant, `IInv` or named as below:
it holds initially, every action keeps it, and it implies the properties.

### The pipeline: `PipelineProofs`

| theorem | statement |
|---|---|
| `TypeCorrect` | `Spec => []TypeOK` |
| `ArtifactsMatchStatus` | `Spec => []StageArtifactsMatchStatus` |
| `ResultsOfOneRelease` | `Spec => []OneReleaseEvaluated` |
| `NothingPastInvalid` | `Spec => []OnlyValidProceeds` |
| `EvidenceExposesTampering` | `Spec => []OneChangeIsExposed` |
| `TransactionsCurrent` | `Spec => []UnfinishedTransactionsCurrent` |
| `ArtifactsNeverChange` | `Spec => ArtifactsImmutable` |
| `PipelineRefinesStages` | `Spec => ImplementsAbstract` |
| `LaterOnesGoFirst` | `SweepSpec => []LaterOnesFirst` |

Assumptions: `DataAssumption` and `PipelineAssumption`, which say of what kind
the constants are and no more. In particular nothing relates `Classification` to
`Normalizable`: the proofs hold although a valid event may be impossible to
normalize (finding 2).

No property of the tables alone is inductive. The step that
changes the tables is a commit, and what it writes was put together several
steps earlier, perhaps by a process that is gone. The inductive invariant
therefore follows the data along its way:

* `RowOf(i)`: a submission's artifacts are those its status allows: alerts are
  those of its results, results those of one release for its normalized event,
  and the raw event it has now is among those it has `held`;
* `MovesRow(t)` for each unfinished transaction, the worker's and every orphan:
  its submission is still at the status it read, and what it holds is that row
  moved one stage on; no two hold one submission;
* `ClaimCurrent`: what the claim returned may be stale but is never ahead of the
  row;
* `WorkCurrent`: what the stage computed is derived from recorded data. For
  alerting, which reads outside its transaction, this is where it matters that
  artifacts are never replaced;
* `InspectionCurrent`: a verification that has finished its reads found the
  admitted event stored after the alerts were raised, unless another process has
  finished the stage since.

`MovePreservesRow` is the core lemma: a row moved by a transaction is again a
row. `ExecuteMoves` shows that the five stages build such transactions,
`ApplyInvariant` that committing one keeps `IInv`, and `OrphanKeepsReads` that an
orphan's late commit does not invalidate what the next process has already read:
either it concerns another submission, or the guarded status update will refuse
the reader's own transaction. `NextInvariant` puts them together, one step per
action. The action property and the refinement then follow from `IInv` and
`TableSteps`: a step applies one transaction that moves a row, admits, tampers,
or leaves the tables alone. `OnlyValidProceeds` has no run of its own: the refinement,
which the run checks, implies it.

`EvidenceExposesTampering` is about the submissions whose raw event was changed at
most once, and needs an account of the changes next to `IInv`. `Once`: before the
first change everything read from the row is the admitted event, the normalized
one included; after exactly one the row no longer holds it. `Verified`: whatever
has `Passed` the inspection, be it inspected, in a transaction, in an orphan or
evidenced already, was normalized from the admitted event if it has matches.
For the inspection, which is where a submission passes (`PassedByInspection`),
found the admitted event stored, so at that moment nothing had been changed; the
normalized event was long written, and a change that comes afterwards cannot
reach it. The bound of one change is exact: changed, normalized and
put back, an event passes (section 6).

`LaterOnesGoFirst` is about the worker's cursor and the history variable `owed` of
`SweepFairness`. Its invariant has two parts. `CursorBehind`: an attempt under way
is made past the cursor, and a new process starts without one. `DebtsAhead`:
whatever is owed a turn since a submission failed is eligible and lies ahead of
where the sweep has come to, while the cursor has not fallen behind the one that
failed. The first attempt of a submission that still owes someone would thus be at
or before the cursor and past it at once. `WorkerMoves` summarises the actions for
this: the sweep stays where it is, claims the least eligible submission after the
cursor, moves the cursor up to the attempt, or begins anew, which only happens
when nothing is left ahead of it or with the debts struck out.

### Admission: `IntakeProofs`, `NumberSets`

| theorem | statement |
|---|---|
| `AnswersNameRows` | `Spec => []AnsweredIsRecorded` |
| `EventsAreSingle` | `Spec => []OneSubmissionPerEvent` |
| `ConflictsAreGenuine` | `Spec => []ConflictIsGenuine` |
| `StatusIsTruthful` | `Spec => []StatusTellsFate` |
| `EnvelopeHolds` | `Spec => []WithinEnvelope` |
| `RejectionsAreDue` | `Spec => RejectedOnlyWhenFull` |
| `IntakeImplementsAdmission` | `Spec => ImplementsAdmission` |

Assumption: `IntakeAssumption`: batches are sequences of items, limit and window
are positive, the bounds are numbers.

*The table.* An id is drawn before the insert can wait for
another of the same key, and a handler may die with the insert undecided, so
`IInv` says what is reserved as well as what is there: `TableKeyed` (one row per
key, under the id it was drawn for), `DrawnFresh` (an id drawn by a handler or an
orphan has no row and no second holder), `InPlace` (a handler's results are those
of its batch so far) and `AllTruthful` (each result says of its item what the
table says). Rows are never removed, hence what was answered stays true. For the
refinement, an insert that finds its key free is `Submit`, since the keys tell
exactly the events apart (two items share a key iff `SameEvent` relates them), and
the end of an item is `Tell`; draws, grants, status and restarts are stutters. An
orphan's insert is a `Submit` that nobody is told of.

*The limiter.* The property speaks of every slot
granted, the code keeps a list it prunes: `TimesAreLatest` says the list is an end
of the grants and `OlderAreOut` that what is missing has aged out; `SlotsSpread`,
that a grant and the one `Limit` after it are a window apart, is what makes the
envelope inductive. That pruning finds the right place needs the least index that
has not aged out; `NumberSets` proves that a set of numbers has a least member,
by well-founded induction over strict inclusion.

### The bridge: `BridgeProofs`

| theorem | statement |
|---|---|
| `DeletionIsSafe` | `Spec => []DeletedIsRecorded` |
| `NoSingleFaultDrains` | `Spec => []OneFaultDoesNotDrain` |
| `SleepsDouble` | `Spec => []BackoffFollowsStreak` |

Assumption: `BridgeAssumption`. For the first the invariant adds `Confirmed`: a
message being deleted is already recorded, exactly as it is. For the second it
adds an account, `Charged`: each receive of a good event that is not recorded was
paid for, by a fault or by a post `wasted` on an endpoint that is wrong and does
not tell, except the one under way; and while a misconfiguration that will tell
is ahead of a running bridge, one fault is set aside (`Owed`) for the receive it
is going to spoil. That the bridge stops on a fatal answer, and does not go on
receiving, is what keeps it at one.

`BackoffFollowsStreak` says that the sleeps of one episode, `streak` and the one
under way, start at the initial backoff and double up to the cap
(`DoublesUpToCap`). `Paced` says it of the next sleep at every moment the bridge
runs; `FirstSleep` starts the sequence and `FollowingSleep` extends it by one.

### The submissions list: `SubmissionsListProofs`

| theorem | statement |
|---|---|
| `CompositionNeverMismatches` | `Spec => []NeverMismatch` |
| `NoneShownTwice` | `Spec => []RowsAscend` |
| `StableRowsShown` | `Spec => []NothingStableMissed` |
| `AdvancedRowsNamed` | `Spec => []AdvancedRowsCarryOutcome` |
| `TotalsCover` | `Spec => []TotalCoversRows` |

Assumptions: `ListAssumption`, `OutcomesAssumption`. `Request` says that
the rows of an outcome page which waits for its second query have that outcome;
`Tables`, that an outcome belongs to a submission that is there. So the error path
`ErrCompositionMismatch` is a guard against bugs, not a state of the program.

The other four speak of all pages at once. Their invariant says of a page sequence,
the one on display and the one being fetched, by position and not by
concatenation: down the pages the ids ascend (`InOrder`), a page with a next one is
full and the next one starts after its last row (`Chained`), rows are labelled and
match (`RowsOf`), and what was there when the first page was asked for and still
matches is on the pages as far as they reach (`Covers`). `Request` says the same of
the page under way: it follows the pages it will be appended to, and its rows leave
nothing of the baseline out up to the lookahead row. Filters other than "pending"
never lose a submission again, so a row shown stays a match; that is why
`TotalCoversRows` excepts "pending", and why the total, counted after the rows
were read, cannot be below their number. That what the first query returns can be
put in ascending order at all is proved by a least counterexample (`NumberSets`).

### The alert pages: `AlertPagesProofs`

| theorem | statement |
|---|---|
| `TypeCorrect` | `Spec => []TypeOK` |
| `IntactIsVouchedFor` | `Spec => []IntactVouches` |
| `NothingIsDenied` | `Spec => []NeverDenies` |
| `PagesImplementScreen` | `Spec => ImplementsScreen` |

Assumptions: `EvidenceAssumption`, `PinAssumption`. What a reader found is true at
different moments, so the invariant says what of it lasts: an artifact that was not found
has no row any more, now or later (rows go, and a raised alert was located
first), and until the verdict is taken an artifact not found means the verdict
will not be intact. Once it is taken, an intact verdict means everything was
still there *after* it was read, hence when it was read: this is why the order of
`Compose`, verification last, matters, and the mutant that verifies first
breaks it. `CacheInv` carries this into each cache entry and into the copy
kept for a cancelled request; `PageInv` relates screen, request and selection. The
refinement follows step by step.

### The decision functions: `DecisionsProofs`

| theorem | statement |
|---|---|
| `RulesMatchRequirements` | `Spec => []MatchesAsRequired` |
| `ReasonsAreComplete` | `Spec => []ReasonIsComplete` |
| `OutcomesHavePrecedence` | `Spec => []PrecedenceHolds` |
| `ResolversAlwaysAgree` | `Spec => []ResolversAgree` |

Assumption: `RawAssumption`, the events are of the two families as `SourceEvents`
describes them: any strings for verbs, resources, names, principals and policies, any
response code, any set of risks, any combination of defects. The invariant is that
each stage holds its function of the event: past validation the outcome is its
classification, past normalization the normal form, past evaluation the result of
each scenario's definition. What remains is about functions: `AuditPresent` and
`RecordPresent` derive the characteristics from the raw event through
normalization, `AuditCharacteristics` and `RecordCharacteristics` those each
definition finds satisfied, `MatchesSpelled` what the generic algorithm makes of the
six definitions, and `MatchesRequired` compares it with the requirements,
scenario by scenario.

### The investigation: `InvestigationProofs`

| theorem | statement |
|---|---|
| `VerdictIsReproduced` | `Spec => []VerdictReproduced` |
| `ProvenanceIsHonest` | `Spec => []ProvenanceHonest` |
| `LitRowTells` | `Spec => []LitRowShowsTheFact` |
| `AccountsAlwaysAgree` | `Spec => []AccountsAgree` |

The page's functions are applied to a response built from what was decided of the
event, so these rest on the same invariant and assumption. `DeclaredInOrder` and
`OrderListed` fix the order in which a definition lists its characteristics,
`ConditionsBuilt` and `ClausesHold` evaluate its clauses over the match reason,
`ProvenanceStates` goes through the tables of paths, and `PinsDrawn`, `TallyCounts`,
`BreaksAgree` and `GroupsLabelled` through the map's components.
`LitRowShowsTheFact` is limited to the flags of scenarios 1 and 2, in the run and in
the theorem: for scenario 3 it is false (section 6).

### Only model-checked

The five liveness properties, `HealthyEvidenced`, `EveryAdmittedClassified`,
`EveryMessageSettles`, `GoodEventsArrive` and `LoadingEnds`: the prover knows no
`ENABLED`, hence no fairness. Of what they need, `LaterOnesGoFirst` and
`NoSingleFaultDrains` are the parts that are safety.

What the theorems do not do is relate the specifications to each other: that
the pipeline's `Classification`, `Normalizable` and `Matches` are the decision
functions, and that the alert readers' tables start as the pipeline leaves them,
is how the instances are built.

## 6. Where code and documentation disagree

Each is a run that TLC finds violated.

1. `list_skip`. The comment on `submission.List` says keyset paging does not skip
   rows under concurrent writes; an id that was drawn early and commits late is
   passed (`internal/submission/submission.go:330`). What does hold is
   `NothingStableMissed`: whatever was there when the first page was asked for
   and still matches is shown.
2. `decisions_normalizable`. The comment on `Normalize` says a valid submission is
   normalizable by construction; validation does not decode a Pod's
   specification or a binding's subjects, normalization does
   (`internal/normalization/normalization.go:253`). Such a submission is retried
   for ever. `HealthyEvidenced` shows it hurts no other.
3. `evidence_gap`. The comment on `evidence.Advance` says that verification and
   the status advance are atomic since all reads go through the open transaction
   (`internal/evidence/evidence.go:88`). The transaction is READ COMMITTED and
   `VerifyAlert`'s `SELECT` takes no lock, so a change of the raw event that
   commits between it and the status update (`:131`) leaves the submission
   evidenced with an event that no longer has its digest. What does hold is
   `OneChangeIsExposed`: the alerts are still those of the admitted event; and
   readers of the chain are told that it is broken for as long as it is.
4. `decisions_malformed`. The comments on `classifyKubernetes` and
   `cloudTrailRecord` say that the markers are decoded even when another field is
   malformed, and FR-008 has such a submission classified invalid. A timestamp
   decodes itself, and an error of its own ends the decoding
   (`internal/validation/validation.go:76`): when it stands before `kind`,
   `apiVersion` or `eventCategory`, the submission is classified unsupported.
   What does hold is `PrecedenceHolds`: no malformed event is incomplete or
   valid, and one malformed in a field of a wrong type is invalid.

Met while reading and modelling, without a run of their own:

* A raw event that is changed, read by a stage, and put back before the
  verification looks leaves alerts of another event on an evidenced submission;
  NFR-017 asks that a modification be prevented or detectable
  (`docs/non-functional-requirements.md:394`). The digest is compared once, at
  the end. The model has this behaviour, which is why `OneChangeIsExposed` is
  limited to one change.
* The requirements say a non-match occurs only when all information needed was
  there (`docs/functional-requirements.md:456`); for an attached policy,
  validation asks only for some request parameters (`validation.go:397`), so one
  without a `policyArn` is a non-match of scenario 6. The model has the case.
* Selecting scenario 3's characteristic lights no row and draws no trace:
  `provenance.ts:68` names the path `clusterRoleBinding.roleRef.name`,
  `NormalizedEventSurface.tsx:82` shows that field in the row
  `clusterRoleBinding.roleRef`, and `:106` compares the two for equality; the
  specification of the page asks for the trace
  (`docs/frontend/alert-investigation-ux-spec.md:201`). For the flags of
  scenarios 1 and 2, `LitRowShowsTheFact` holds.
* The bridge's comment calls a malformed endpoint "functionally equivalent to the
  fatal path" (`post.go:103`). It is not: the bridge does not stop, and every
  message is received again and again until the redrive policy puts it aside,
  as it is when a wrong path answers 400. `OneFaultDoesNotDrain` therefore has to
  set such receives (`wasted`) apart. That a foreign server answers 200 is not
  in the model: the bridge would delete what nobody recorded.
* The worker's comment (`worker.go:25`) says a sweep ends only when no eligible
  submission remains after the cursor; a failing claim query ends it too (`:118`,
  `ClaimError`). Progress is not lost: `HealthyEvidenced` holds with such errors.
* The limiter's comment (`admission.go:22`) speaks of admitted submissions; it keeps
  the slot of an attempt whose insert failed or found an existing row (`:108`).
* The frontend tells the family of a raw event by its content (`contract.ts`): a
  Kubernetes event that carries a member `eventID` would be shown as CloudTrail's.
* The header says the detection's identity is unavailable also when only the alert's
  summary is missing, which takes a deletion between `Locate` and that read.
* A pin's mark in the raw URI is not shown when the event has a `requestObject`.
* The selected pin is drawn dimmed to the others even if a refetch no longer has
  its definition; the trace is measured again only on selection and resize.
* `UnauthorizedState` has no button to retry.
* The data sources endpoint counts all submissions under `POST /v1/audit-events`,
  those of CloudTrail included.

## 7. What is not modelled

* *Detections* and *data sources* endpoints: one query each, nothing they could
  mix; their pages show a table under the same screens as the alert inventory.
* *Refusals before an intake's item loop* (token, body size, malformed
  envelope), *diagnostics*, *auth*: no state, no ordering.
* *Parsing of definitions* and their revision numbers: a definition is what it
  says after parsing; `Validate`'s rejections stop the platform before it serves.
* *Wording* of reasons, labels and errors, log lines, and content no definition
  looks at.
* *Connection pool, migrations, signal handling, server timeouts*: a call fails
  or it does not; a stop at any point is `Crash`.
* *Frontend*: layout and styling; measured positions; the command palette; the
  dossier, an earlier presentation of the same view model that no route mounts.
  The query library is modelled by how the hooks use it.
* *Verification harness, provisioning scripts*: outside the program.
* Isolation below the row: PostgreSQL's read-committed statements, unique
  indexes and row locks are taken as PostgreSQL defines them.

## 8. Plan

Done, in this order: the pipeline with its properties and abstract
specification; its proofs; the sweep; admission; the bridge; the submissions
list; the decision functions, from which the pipeline's instances take
their constants; the alert readers and pages with their abstract specification
and proofs; the investigation's logic and map against the decision functions;
the browser around the submissions list; proofs about admission, the bridge and
the list; admission's abstract specification and its refinement; proofs about the
sweep, the decision functions and the investigation.

Left, by importance:

1. *Composition of bridge and intake.* The bridge's view of the platform
   (`Upsert`, `StatusFor`) shown to be implemented by `Intake` for batches of
   one record; `AdmissionAbstract` is what the two would meet in.
2. *An abstract specification of the queue's promise*, refined by `Bridge`.
3. *Definitions.* `LoadFS` row by row, with the revision derived from content, to
   replace the constant `Active` by what is in the table after a rollback.
4. *Readers over the pipeline.* `Evidence` takes the states its tables start in from
   `StageArtifactsMatchStatus`; instantiated over `Pipeline`'s own tables the two
   would be one specification.
5. *Proofs.* The decision functions' facts (`Classify` and `NormalizeEvent` as
   functions of a raw event) lifted into `Pipeline`'s constants.
