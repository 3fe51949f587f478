# AegisClaims AI: a verification development

TLA+ models of the claims platform in `src/packages/backend`, and of the part
of its web client that signs in, checked with TLC and, for what matters most, proved
with TLAPS. `B/` below stands for
`src/packages/backend/src/insurance_platform/`. `PROJECT.json` maps every
definition to the lines it models, and lists runs, hazards, findings and
theorems.

## 1. The system

The backend is a FastAPI service over PostgreSQL, an object store and Redis.
`infrastructure/terraform/compute.tf` runs two API tasks, and every request
has a database session of its own at the engine's default isolation, READ
COMMITTED. Nothing takes a lock (`SELECT ... FOR UPDATE` does not occur):
what keeps concurrent requests apart are unique constraints, one conditional
UPDATE, and foreign keys. The models therefore interleave requests at every
commit, and between a read and the commit that relies on it.

| Component | State it keeps | Operations | What makes it correct |
|---|---|---|---|
| controlled workflows, `B/workflows` | run row, checkpoints, events, review actions, review task, artifact | start, review, cancel, retry; view and history read | one gapless history; one answer per checkpoint; the retry budget; no completion without the review that was called for; tasks that agree with the run |
| document ingestion, `B/documents` | document row and status, pages, facts, conflicts | ingest, process (upload and retry) | a row never claims more than was stored; facts and chunks are visible exactly for ready documents; every attempt ends; the conflict table says what the facts say |
| retrieval, `B/retrieval` | document index and chunks | index_document, index_claim, search, answer | one index per document and version; a ready document can be found |
| persistence, `B/infrastructure/models.py`, `repositories.py` | all tables, their constraints | queries, `rebuild_conflicts`, `add_audit` | constraints refuse what handlers do not check |
| object storage, `B/infrastructure/object_storage.py` | originals, derived artifacts | put, get | an original is written before it is needed |
| model assistance, `B/model_assistance` | briefs, invocations | create, view, latest | one brief per key; only answers that passed the validation are stored; staleness is shown |
| sessions and identity, `B/security` | user sessions, login transactions | login, callback, verify, revoke | a login transaction is used once; expired and revoked sessions are refused |
| authorization, `B/security/authorization.py` | none | permission table | roles only widen along the hierarchy |
| job queue and worker, `B/infrastructure/queue.py`, `B/delivery/worker.py` | queue, results | enqueue, dequeue, complete, result | a job gets its result, unless a fault takes it |
| rate limiting, `B/infrastructure/rate_limit.py` | counters per window | check | the limit per window |
| configuration, `B/config.py`, `B/delivery/components.py` | settings, adapters | validate, build | what is accepted builds, and deployed processes share their state |
| read views, `B/application/services.py` | none | dashboard, claims, workspace, review queue | views agree with one another |
| web client, `src/apps/web` | session shown, page, cookies | sign in and out, navigate, call | it shows the user its cookie belongs to |
| delivery, domain, observability, evaluation, seed, migrations, deployment | no state of their own that handlers rely on | | |

How they interact: `delivery/routes.py` makes one service call per request.
A workflow's retrieval node calls the retrieval service in-process, which
reads what ingestion committed. Ingestion's last transaction calls
`index_document`. Workflows and briefs fingerprint the document rows of the
claim. The review task of a workflow feeds back into later runs through
`review_status`, and shows in the review queue. Every request passes the
sessions (or the development token) and the permission table first; logins,
uploads, questions and briefs also pass the rate limiter. There are
no callbacks and no cross-service messages other than the job queue, which only
carries a smoke-test job today.

The hard parts are therefore: stale ORM copies that outlive a commit; requests
that commit several times and can stop in between; one exception handler that
writes over whatever happened meanwhile; an object store outside the
transaction; a derived table rebuilt from a snapshot; cookies, answers and page
loads of a browser that overtake one another; a list that forgets a job when it
hands it out; and a clock read before the counter it selects.

## 2. The modules

| Module | Purpose |
|---|---|
| `ControlledWorkflow` | start, review, cancel and retry of one run, step by step |
| `WorkflowLifecycle` | what a run promises as one atomic object |
| `MCControlledWorkflow` | instances for TLC |
| `ControlledWorkflowProofs` | the inductive core: types and gapless history |
| `ControlledWorkflowSafety` | the other safety theorems of interleaved requests |
| `ControlledWorkflowRefinement` | the run implements `WorkflowLifecycle`; what holds of requests one after the other; open tasks |
| `DocumentIngestion` | upload and retry of the documents of one claim |
| `DocumentIngestionProofs` | all its safety theorems |
| `MCDocumentIngestion` | instances for TLC |
| `BriefAssistance` | the evidence briefs of one claim |
| `BriefAssistanceProofs` | all its safety theorems |
| `MCBriefAssistance` | instance for TLC |
| `SignIn` | sessions, login transactions, cookies and the client |
| `SignInProofs` | theorems of its four properties, and that a revocation is final |
| `MCSignIn` | instance for TLC |
| `RateLimiter`, `JobQueue`, `Startup` | limiters, job queue with workers, start of a process |
| `PageIndexing`, `SearchRanking` | chunks of a document, ranking of passages |
| `ClaimViews` | roles, queries and the views that read them |
| `MCPlatform` | one instance for the six modules above |
| `PlatformProofs` | theorems of `Startup`, `RateLimiter` and `JobQueue` |
| `ReadingProofs` | theorems of `PageIndexing`, `SearchRanking` and `ClaimViews` |

### 2.1 ControlledWorkflow

The rows of one run are variables: `run` (the row of `workflow_runs`),
`checkpoints`, `events`, `actions`, `task`, `artifact`. `docs` is what the
workflow sees of the claim's documents. A session (`pc`, `req`, `row`,
`state`, `seen`) is a request handler: `row` is the ORM copy it loaded, `state`
the graph state it persists next, `seen` what the selects before an upsert found.

| Action | Code in `B/workflows/service.py` |
|---|---|
| `StartRead`, `StartCreate` | `start` up to the first commit; a lost race on the idempotency key ends with the replayed view |
| `PersistStage` | one `_persist`: row, checkpoint, event in one commit |
| `Retrieve`, `NodeFailure` | the retrieval node of `engine.py`, the one that reads the database and can raise |
| `TailRead`, `TailCommit` | `_upsert_artifact`, `_upsert_review_task` and their commit |
| `FailLoad`, `FailCommit` | the `except` branch of `start`; retry has none |
| `RetryLoad`, `RetryCreate` | `retry` up to the first commit |
| `ReviewCheck`, `ReviewApply` | `review`: checks, then the conditional UPDATE and its transaction |
| `CancelLoad`, `CancelPersist`, `CancelTask` | `cancel`, which commits twice |
| `Crash` | the process stops between two steps |
| `DocumentStored`, `DocumentReady` | the ingestion, as far as a run can see it |

Choices a reader should know:

- A request that answers 404, 409 or a replayed view changes nothing and is a
  stuttering step.
- Reads a few statements apart within a load, or within the tail's selects,
  are one step. If the run changes between them, the request's next commit
  fails on the version anyway; artifact and task rows are never deleted.
- The graph streams values, so its input is emitted first. `retry` persists it
  as the `created` checkpoint; `start` has persisted that one already and
  skips it. The node `determine_review` changes no stage and is skipped by the
  loop of both.
- `actions[..].docs` and `failures` are history variables. `failures` counts the
  failures of nodes in `start` and `retry`, and remembers two more things: that a
  cancellation broke off between its two commits (`cancel`), and that a tail opened
  the task although the run had moved on since its last checkpoint (`tail`).
- Timestamps, audit rows, correlation ids and error texts are left out. The
  `failed` branch of provenance validation is left out because retrieval only
  returns citations that pass it.
- The environment of documents is that of ingestion without overlap. An
  overlapped ingestion can take a document out of `ready`
  (`DocumentIngestion`, `ReadyIsStable`), which this module does not show to a run.

`ImplementsLifecycle` instantiates `WorkflowLifecycle` with a mapping from the
rows: the detailed module, with all its sessions, is one atomic object that
takes one step per version. The lifecycle is the diagram
`docs/diagrams/05-langgraph-workflow.mmd` plus two edges that the code has
and the diagram lacks.

### 2.2 DocumentIngestion

`status`, `facts`, `conflicts`, `indexed` and `chunks` are tables, `originals`
the object store, and a session has `pc`, `job` and `view`. `process` commits
after every stage; each of those is an action. The last transaction is split
where a later statement relies on the snapshot of an earlier one:

| Step | Statement |
|---|---|
| `DropConflicts` | the delete in `rebuild_conflicts`: its snapshot of the conflict rows |
| `ReadFacts` | the select of the facts, after waiting for row locks of another such delete |
| `Commit` | inserts and commit; fails on a foreign key or a unique constraint |

- The ORM writes `processing_status` only when it differs from what the session
  loaded: `Validate` of a document loaded as `validating` writes nothing.
- A document states one comparable fact. Two documents conflict when their
  values differ. Pages go with the facts they are written with; chunks follow
  their pages (`ON DELETE CASCADE`).
- At statement level, two extractions of one document, or an extraction and a
  commit, are either serial or one of them fails; the failures are among those
  of `Fault`.
- The two reads of a retry (status, original) are one step: originals are never
  deleted.
- `search.py` uses chunks of a ready index whatever the status of the document,
  which is why `EvidenceMeansReady` speaks of chunks and not of the status.
- Rejected uploads (size, type, a document this actor may not add to) and
  duplicates of a checksum stutter. Events, audit rows and derived artifacts
  are left out.

### 2.3 BriefAssistance

`briefs` and `invocations` are tables, `docs` and `review` what the service sees
of the claim, and a session has `pc` and `job`, the local variables of
`ClaimEvidenceBriefService.create`.

| Action | Code in `B/model_assistance/service.py` |
|---|---|
| `Lookup` | the select by idempotency key |
| `Retrieve`, `TakeFingerprint` | the two reads, in this order; `StepAfter` holds it |
| `Attempt` | one turn of the loop: an answer, validated, or none |
| `Reject` | the commit of an invocation without a brief |
| `ReadReview` | the read of the review status after an accepted answer |
| `CommitBrief` | the commit of both rows; a brief whose key was taken meanwhile rolls its invocation back |
| `Crash` | the process stops, or an exception nobody handles |
| `DocumentStored`, `DocumentReady`, `ReviewChanges` | ingestion and workflows of the claim |

- A request that finds its key answers with the stored brief, or with a conflict
  when the task differs. Both change nothing, so the task of a key is left out.
- The model may answer anything. Malformed output, timeout, throttling and an
  unavailable provider do the same to the request and are one failure,
  `no_answer`.
- `prohibited` is the set of texts of an answer (`TextField`) that have a
  prohibited phrase. `_validate` looks through three of them (`ScannedField`); all
  are stored with the brief.
- The retrieval may return any ready documents (`ReadyDocs`): ranking is data.
  The bound on the characters shown to the model changes what it knows, not what
  it may cite.
- Documents are never removed. `review` is the status of the claim, over all
  its review tasks. `waited` in a job is a history variable: the review was open
  from the lookup on.

### 2.4 SignIn

`sessions` and `logins` are tables, `audited` the sessions whose login has its
audit event, `codes` what the identity provider knows, `jar` and `client` the
browser. A `call` is one HTTP request with the cookies it was sent with; it goes
on when the page that sent it is gone, and its answer is then lost. There is one
browser with one open page: a second tab that shares its cookies is not modelled.

| Action | Code |
|---|---|
| `SendLogin`, `SendInit`, `SendApi`, `SendLogout`, `SendStart` | `SignInView.vue`, `auth.ts`, `api.ts`, `AppShell.vue` |
| `Authenticate`, `Issue`, `Audit` | `login` of `routes.py` with `authenticate` and `issue_for_user` of `sessions.py`: two commits |
| `Verify`, `Seen` | `verify`: the check, and the later commit of `last_seen_at` |
| `Revoke` | `revoke` |
| `IssueBearer`, `VerifyBearer` | the development token |
| `Begin`, `ReadLogin`, `Consume`, `Exchange`, `MapUser` | `oidc_start` and `oidc_callback`, then as a login |
| `Break` | the handler ends at any point |
| `TakeCookie` | the browser, when the headers of an answer arrive (`fetch` in `api.ts` and `auth.ts`) |
| `Receive...`, `GiveUp`, `Navigate`, `Reload` | what the client does with an answer, without one, and in the router |
| `Authorize`, `Disable`, `Tick` | the provider, an operator, and time |

- The answer to a login or a sign-out reaches the browser in two steps. Its cookie
  is taken at the `fetch`; the page acts later, a login after it has awaited the
  body as well. In between, the other answer may come. `client.late` is history:
  when the page came to show a user, the cookie of that login was gone already.
  An answer that loads a page (`ReceiveCallback`, `ReceiveStart`) is one step, since
  no page waits for it.
- Passwords are right or wrong, the limiter may refuse anything, and the answer
  of the provider may be refused for any reason: signatures, nonces and formats
  are data.
- The two lifetimes of a session (with and without "remember me") are the one
  constant `Ttl`: no property depends on which one a session has.
- `active` stands for `is_active` and `account_status`, which the seed moves
  together. `verify` reads both, the bearer path (`get_active`) only the first.
- A verification that began before a sign-out may end after it, and is served.
  `dead` marks requests that were sent when the session was already dead; those
  are the ones the property is about. In the same way `replay` marks callbacks
  that were sent after a code of the transaction had been presented. Two
  callbacks in flight at once can both pass the check, which the module allows
  (the provider then refuses the second code).

### 2.5 The smaller parts

`RateLimiter` splits `check` between the clock and the counter: a request may be
late by `Slack` ticks. Redis drops counters that are due; the memory limiter
keeps one bucket per subject. `Slack` is at most one tick because Redis keeps a
counter for one second more than the window, and a request that takes longer than
that is beyond what the code provides for.

`JobQueue` has a place per process for the memory adapter and one shared place
for Redis. `lost` records what a fault took: a worker that dies, an answer of
`BLPOP` that is lost, a `complete` that raises. Only the kind `platform.smoke` is
processed, others are dropped. A stop signal is looked at in the head of the loop.

`Startup` takes any settings from a set, validates them and builds the adapters.
The checks are those of `validate_environment_safety`; the branches are those of
`build_components`.

`PageIndexing` is the loop of `chunk_page`, one window per step, and the flush of
`index_document`. A text is its length, its white space, and which of it a window
may end at. `SearchRanking` is the loop and the fusion of `search`; scores are
levels, and the fused score is compared as a fraction, without rounding.

`ClaimViews` has the permission table, the queries of claims and review tasks,
and one reader who goes from the dashboard to the claims, a workspace, and the
pages of the review queue, while tasks open, close and are opened again. The
process that opens a task dates it before its commit and by a clock of its own
(`created_at` of `models.py`), and a review that sends a run back opens its task
again as old as it was: a task may therefore come into the queue ahead of others
that wait there (`EnterQueue`). `moves` counts how often the queue shifted in this
way, or because a task was finished, while the reader paged. Rows created at one
instant come in any order, and not the same in every query.

`MCPlatform` puts the six modules of this section into one instance: `part`
names the one that moves. They share no state, so that this loses nothing.

## 3. What the runs check

| Run | Instance | Shows |
|---|---|---|
| `concurrent` | 2 sessions, 3 keys, 1 document, 2 retries, 1 node failure, 1 crash; symmetric sessions and keys | all safety invariants of the workflow, `TerminalLeftOnlyByFailure` and `ImplementsLifecycle` |
| `sequential` | 1 session, 2 documents, 2 node failures, no crash | `RestingConsistent`, `HumanHold` |
| `liveness` | 2 sessions, 2 keys, no document, clean or conflicting evidence, perhaps another open task, 1 retry, 1 node failure, no crash, no symmetry, fair | `ProcessingSettles`, `WaitingGetsTask` |
| `ingestion` | 2 sessions, 1 seeded and 2 new documents, one of which contradicts the others, 3 requests, 1 fault, 1 crash, fair | all properties of the ingestion |
| `briefs` | 2 sessions, 1 key, 2 documents, one of another policy edition, 5 answers (one that passes, one for each reason to reject, one with a prohibited phrase in a text that is not looked through), 1 retry, 2 requests, 1 crash | all properties of the briefs |
| `sign_in` | 2 users, 2 tokens, 1 login transaction, 2 requests in flight, lifetimes of 1 tick, symmetric | the four properties of `SignIn` |
| `platform` | limiter: 3 requests, limit 1, window 2, 4 ticks, slack 1; queue: 3 jobs (2 supported), 2 workers, 2 faults, fair; start: all settings two changes away from a local and a deployed one; indexing: 2 pages of up to 6 characters, window 4, overlap 1; ranking: 3 passages, 3 levels, 2 returned; views: 3 accounts, 2 claims, 2 tenants, 2 tasks, 2 shifts of the queue, pages of 1 | the eight properties of the smaller parts |
| `stale_evidence`, `retry_node_failure`, `crash_before_task`, `cancelled_revived`, `retry_unsearchable` | small | five statements of the documentation that the code does not keep (section 6) |

Why the bounds are enough. Every hazard of the workflow is between two
requests: a third session adds no new kind of read-to-commit gap, because a
commit compares the version it loaded with one row. Three keys allow a review,
a retry and a second answer to either; two retries let the budget run out with
another one waiting. One document in three processing states is enough to make
the fingerprint differ from the evidence; the sequential run has two, so that
fingerprints can differ without being subsets. In the ingestion, three requests
by two sessions allow two uploads at once and a retry that overlaps one of
them. The instance was checked to reach a wait for row locks, both ways a
commit can fail, a document whose facts cannot be deleted, and a missed
conflict. Briefs interact only through a key, so two requests for one key make
the race; one retry is the default of the settings, and lets an answer be
followed by a timeout. In `sign_in`, two requests are what it takes for one to
overtake another (a sign-out and a verification, two callbacks, a late 401 and a
login), two tokens let a user sign in again, and one tick is long enough to
expire. The limiter's three requests fill a window and are late for it. Pages of
six characters have a window that ends at a gap, one that ends in a word, and one
that ends the page; the theorem has no such bound. Three passages let ranks tie
and differ in both orders. Two tasks and pages of one let the reader miss the
second task when the first is finished, or see the first twice when it is opened
again; with three tasks and three shifts the property was checked once and held.
The bounds `MaxRequests`, `MaxFaults`, `MaxCrashes`, `MaxNodeFailures`,
`Horizon`, `MaxTime`, `MaxPages`, `MaxLength`, `MaxTasks`, `MaxMoves` and the number of `Keys`
are those of the models; `MaxRetries` is the
program's own: a field of a workflow's row, a setting for briefs.

Deadlock checking is off: a run may be over, and every key or request used.

Fairness is weak fairness of `Serve(s)` for each session: a request that a
server has accepted goes on (its next statement is executed), because handlers
wait for nothing but the database, and row locks are held by a session that
goes on as well. Nobody has to ask for anything: no fairness on requests, on
documents, or on crashes, and `NodeFailure` and `Fault` are alternatives within
`Serve`, never forced.

`QueueFairness` is weak fairness of the loop of each worker and of its restart:
the loop only waits for Redis with a timeout, and the service that runs the
workers (`infrastructure/terraform/compute.tf`) replaces one that ends. Faults are
bounded, so that a queue that is worked on empties.

Some properties have an exception in their statement, and these are real. For
`ProcessingSettles` of the workflow it is a retry that loses a node, and for
`ConflictsComplete` overlapping rebuilds. `WindowLimit` allows the memory limiter
its limit again for each late request. `RankedByMerit` puts an applicable passage
first only up to 33 candidates (from there on 0.65 no longer outweighs every
difference of rank). `ViewsAgree` lets the reader miss one task for each shift of
the queue under it, and speaks of the pages only when no two tasks share an instant.
`ShownUserHoldsCookie` lets a client show a user without a cookie in three cases:
the session has grown too old; the page has yet to act on a sign-out whose cookie
is already gone; or the late answer to an earlier sign-out came in between the
cookie of a login and its screen. In the last case the user stays on the
screen until the next request is answered with 401. `TaskJustified` lets a run
that is over have an open task between the two commits of a cancellation, after
one that broke off there, and after a tail that came late.

## 4. What is proved

Every invariant and every action property of a passing run, and the refinement
of `WorkflowLifecycle`, is a theorem. Each holds for any sets of sessions, keys
and documents, any budget and any bound, from `ConstantsAssumption` or
`IngestionAssumption`, `BriefAssumption`, `SignInAssumption` and their like alone,
but for two theorems of the workflow that name their hypotheses. `ViewAssumption`
says that the claims are finitely many, as the rows of a table are: without it a
count would mean nothing.

**Workflow.** `HistoryGapless` is not inductive: a session could hold a copy
from nowhere. `CoreInv` adds that a run exists exactly when it has a version
(`Begun`) and, for each session (`Holding`), that its copy is of a recorded
version and is the row itself while that version is the latest. The key lemma
is then `FreeMeansCurrent`: if the version after a session's copy is free, the
copy is the current row, which is the optimistic lock that the unique
constraint amounts to. There is one lemma per
action; `CoreStep` puts them together, and `TypeCorrectness` and
`HistoryIsGapless` follow.

`ControlledWorkflowSafety` first reduces every step to a few kinds of
transition of the rows (`StepKind`): quiet, begin, advance, retry, decide,
cancel, fail. `AllIntent` is the second strengthening: what a session is about
to persist fits the row it holds. `HistoryIsLinked`, `EachCheckpointAnsweredOnce`,
`DecisionsMatchTheirSnapshot`, `RetryBudgetHolds`, `CompletionNeedsReview`
and the action property `OnlyFailureLeavesTheEnd` are then
proved one transition at a time.

`LifecycleIsImplemented` needs a third strengthening, `CourseInv`. The graph state
that a session persists must be the one that comes next after the copy it holds
(`Follows`), which the rows alone do not show: the call for a human, for instance,
is decided in one node and persisted in another. And the failed flag of the
abstract run must be set once: only the request that created the run has a
handler that fails it (`FailsOnce`). Then every kind of transition is an action
of the lifecycle.

`RestingRunsAreConsistent` and `HumansHoldTheRun` assume that there is one session
and no crash, which is the instance of the run `sequential`. Without the second,
the first of them is false, as `crash_before_task` shows; node failures, retries
and the growth of the evidence remain arbitrary. `SequentialInv` says that the
copy of the one request is the row (`Attended`), that the task fits the run but
between two commits of one request (`TaskFits`), and that after a human has asked
for more the task stays open until the run is over (`HoldInv`). It stands on
`CoreInv`, `AllIntent` and `CourseInv`, so that only what is new about a lone
request had to be proved.

`TasksAreJustified` is for any number of sessions and crashes again. That a task
exists only for a run that waited, and is closed only by an answer, is in
`TaskExplained` of `ControlledWorkflowSafety`. The rest is `TaskInv`: as long as no
cancellation broke off and no tail came late (`Orderly`), an open task belongs to a
run that is not over, unless a cancellation is between its commits, and makes what
is under way call for a human (`OpenTaskHolds`); and a session at its tail holds a
copy that waits exactly when a human was called for (`AtTail`). The first keeps a
run with an open task from completing unseen, the second shows that a tail on time
opens no task of a run that is over (`TailOpens`).

**Ingestion.** `TypeInv` adds to the types that a session at work has a
document. `OriginalsAreKept` needs that a session past the put has an original
(`PutDone`). `ConflictsAreJustified` needs no strengthening: every step either
leaves the conflicts alone and drops only facts that no row refers to
(`FactsStep`), or inserts rows whose facts are there. `ConflictsAreComplete`
rests on `Attentive`: a session that nobody overtook since it read the facts
has seen all facts there are, because whoever publishes in between has
overtaken it. `EvidenceIsOfReadyDocuments` and `ReadyStays` share
`EvidenceInv`: a document that was never overlapped is served by one session at
most (`Exclusive`), is not ready while it is (`AtWork`), and has a ready index
only when it is ready itself (`IndexMeansReady`). `StepTreats` then says that a
step keeps its evidence, removes it from a document that is not ready, or makes
it ready.

**Briefs.** `BriefInv` says what a session has in hand at each stage
(`Holding`): evidence among the documents there are, a fingerprint that covers
it, attempts within the bound, and a candidate that passed the validation
whenever nothing is held against it. The last part is what makes a leftover
candidate harmless: an attempt without an answer keeps the candidate and adds a
failure. `RowStep` reduces every step to a rejection, a brief, or neither, and
`BriefIsSound` says what a brief is when it is written.
`InvocationsMatchBriefs` needs, besides, that requests have numbers of their own
(`Numbered`), so that a rejection is never taken for the invocation of a brief.

**Sign-in.** `SignInInv` is types, `AllSound` and `RowsAgree`. The rows only move
one way (`Stable`): time passes, accounts are disabled, sessions are revoked and
transactions consumed, and nothing takes that back. So what a request has found
out stays true while it waits (`StaysSound`), and every step need only be looked
at for the one request it replaces (`OneCall`) or for all that it detaches
(`AllDetached`). `Dying` is what makes `DeadSessionsServeNothing` inductive: a
dead request that has not verified yet still finds its row unusable. `Replaying`
does the same for callbacks: whoever presents a code has consumed its transaction.

`ScreenFollowsCookie` is about the client, and its invariant `ShownInv` about the
answers it still waits for. It waits only on the page that sent the request
(`WaitsInPlace`), for one navigation (`OneNavigates`) and one login (`OneSignsIn`)
at a time, and the request
with which a page starts carries the cookie the browser still has, or one it has
dropped since (`InitCarriesCookie`). A login whose cookie was taken, and whose
screen is yet to follow, still has its cookie in the browser or finds none, for no
other login can have put one there (`OneSignsIn`). With these, an answer that sets
the user shown is never one that another user's cookie has overtaken, and the
excuses for showing a user without a cookie last as long as they are needed
(`ExcusesStay`). `RowsKeep` says that a
session keeps its user, its end and its revocation; `RevocationIsFinal` states it
as an action property of its own, which no run checks.

**Rate limiter.** `RedisInv`: a window has admitted no more than its counter while
requests of it may still come, and the counter outlives them. This is where
`Slack` meets the extra second of `EXPIRE`. `MemoryInv` counts what a late
request may spoil: each lets the window in memory begin anew once.

**Job queue.** All jobs wait in one list, that of the API (`QueueBase`). Every step
leaves them, appends one, takes the first, or lets a worker go of what it holds
(`QueueSteps`); `KeptStep` and `ApartStep` follow for each of these. `TakenOnce`,
which says that no job is taken twice, is proved and not checked by a run.

**Indexing.** `Covered` says that short passages are whole up to `Reach`, the place
the windows have got to, with the overlap. It needs that a window that does not
end its page ends more than the overlap beyond its start (`EndIs`), which is why
the overlap may be at most half a window. `Numbered` gives the chunks of a page
the ordinals from 0 on: two pages with text then always clash, one never does.

**Ranking.** `EvidenceIsRankedByMerit` follows from the definition of the fused list,
not from its steps: `SearchInv` says little more than that a passage is scored once.
The work is in the order. Fused scores are compared as fractions, and `AheadOrders`
shows that this is a strict total order, whence every rank is given once.
`BetterRanks` takes better scores to better ranks in both lists.
`PenaltyOutweighs` is the arithmetic of 33 candidates, and `PenaltyMayNotOutweigh`
the two ranks of 34 that break it, so that the bound is exact.

**Views.** `ViewsAreOfTheSameRows` needs to know what the reader's pages have in
common with the count on the dashboard. `Accounted` is the invariant: the
tasks that waited all along, stand at a place the reader has paged past and were
not shown, and the rows that came in ahead of one that waits, are together no more
than `moves`. A row that leaves brings at most one other over the place the reader
has got to (`OneComesForward`), one that comes in brings none, and the waiting tasks
that stand beyond their own number are no more than the rows that came in ahead
(`BeyondAreJumped`). The waiting tasks are open (`WaitingOpen`) and no more than were
counted (`WaitingCounted`), so that at the end all of them are accounted for
(`MissedAtTheEnd`). `CountIsOfList` joins the two queries of claims, one of which
counts and the other lists.

**Start-up** is by cases on the settings.

**Only model-checked.** The four leads-to properties: `ProcessingSettles` and
`WaitingGetsTask` of the workflow, `ProcessingSettles` of the ingestion, and
`JobsSettle`. They rest on fairness, and the prover handles neither fairness nor
ENABLED. It does not do inductions over data either, nor RECURSIVE operators; the
modules use neither. The five runs of section 6 that expect a violation show a
counterexample, and are not for proof.

## 5. What is not modelled

Evaluation, observability, migrations, the generation of fixtures and the
deployment have no behaviour that interleaves with the rest; the constraints that
migrations create are modelled from `models.py`. Of the read views, the ones that
only copy columns (documents, operations, histories, briefs) are left out, and of
the web client everything but sign-in: it may call the API in any order, which the
modules allow. A panel of the client makes a new idempotency key for every click,
so that a repeated start is a second run: the modules treat keys as the server
does. Text extraction, OCR, regular expressions, embeddings and the answer text
are data: the modules distinguish only what they lead to (a fact, a failure, an
evidence state, a level of a score). The model and identity providers, Redis and
PostgreSQL are used, not verified.

Three hazards are listed without a property, since no document or comment says
what should hold: an upload whose original was never stored cannot be repeated; a
brief shows as current when an older document row becomes ready later; and the
keys of the client, above.

## 6. Where documentation and code differ

| Run | The documentation | The code |
|---|---|---|
| `cancelled_revived` | cancelled is a final state | the failure handler of `start` can write `failed` over it |
| `retry_node_failure` | node failures become `failed` with a checkpoint | only in `start`; in `retry` the run stays in a processing state, which no retry accepts |
| `stale_evidence` | new evidence invalidates the review | not when the document row existed before and was processed later |
| `crash_before_task` | restarts lose no state | a stop between the last checkpoint and the tail leaves a waiting run without a task |
| `retry_unsearchable` | retries are safe | one that overlaps the upload deletes the chunks and keeps the ready index |
| `briefs` (`OnlyVettedContent`) | prohibited recommendations in the output of a model are rejected | phrases are looked for in three of its texts, and all are stored: one of the run's answers has a phrase in `conflicts` and becomes a brief. The property, and `BriefsAreVetted`, speak of the three texts only |
| `platform` (`OnePageIndexes`) | documents are cut into page-bounded windows | ordinals start again on every page and must be unique in an index: a document with text on two pages always fails |

## 7. The plan

Done: the workflow with its abstract lifecycle, the ingestion, the briefs,
sign-in, the job queue, the limiters, start-up, indexing, ranking and the views;
proofs of every invariant, every action property and the refinement.

Left, in this order:

1. A composition of ingestion with the workflow, in which the documents of a run
   are those of `DocumentIngestion`.
2. The staleness of a brief on view, once it is said what it should promise.
3. Proofs of what the leads-to properties rest on short of fairness: that the
   steps of a request come to an end.
