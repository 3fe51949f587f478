------------------------- MODULE ControlledWorkflow -------------------------
(***************************************************************************)
(* One controlled evidence-review workflow of a claim, as                  *)
(* workflows/service.py runs it: HTTP requests handled concurrently, each  *)
(* with a database session of its own, over the run row, its checkpoints   *)
(* and events, the review actions, the review task and the artifact.       *)
(*                                                                         *)
(* A session holds the ORM copy of the run it loaded (row) and the graph   *)
(* state it is about to persist (state).  One step is one transaction, or  *)
(* one read whose result a later transaction of the same request relies    *)
(* on.  A request that answers 404, 409 or a replayed view changes nothing *)
(* and is a stuttering step.                                               *)
(***************************************************************************)
EXTENDS Naturals, Sequences, FiniteSets

CONSTANTS
  Sessions,         \* request handlers, each with its own database session
  Keys,             \* idempotency keys of review and retry requests
  Docs,             \* documents of the claim, told apart by their checksum
  Findings,         \* outcomes of retrieval that are considered
  ReviewActions,    \* review actions that are considered
  OtherTaskOpen,    \* what the claim's other review tasks may answer
  MaxRetries,       \* WorkflowRunModel.max_retries
  MaxNodeFailures,  \* bound on the failures of a graph node
  MaxCrashes        \* bound on the crashes of a request

EvidenceStates ==
  {"answerable", "insufficient_evidence", "conflicting_evidence", "ambiguous_evidence"}

TerminalActions == {"acknowledge", "approve_proposed_next_step", "reject_proposal"}

AllReviewActions ==
  TerminalActions \cup {"request_more_information", "return_for_evidence_review"}

ASSUME ConstantsAssumption ==
  /\ "none" \notin Keys
  /\ Findings \subseteq EvidenceStates
  /\ ReviewActions \subseteq AllReviewActions
  /\ OtherTaskOpen \subseteq BOOLEAN
  /\ MaxRetries \in Nat
  /\ MaxNodeFailures \in Nat
  /\ MaxCrashes \in Nat

VARIABLES
  run,          \* the workflow_runs row
  checkpoints,  \* workflow_checkpoints: version -> graph state
  events,       \* workflow_events, by sequence
  actions,      \* workflow_review_actions
  task,         \* status of the human_review_tasks row, "none" without one
  artifact,     \* version whose state the review_artifacts row shows, 0 without one
  docs,         \* documents of the claim and how far each is processed
  pc,           \* next database step of each session
  req,          \* the request a session serves
  row,          \* the session's ORM copy of the run
  state,        \* the graph state the session persists next
  seen,         \* rows the tail of start and retry found
  failures,     \* history: node failures so far, by the operation that met them, and
                \* whether a tail opened a task late or a cancel broke off halfway
  crashes       \* crashes so far

dbVars == <<run, checkpoints, events, actions, task, artifact>>
sessionVars == <<pc, req, row, state, seen>>
vars == <<run, checkpoints, events, actions, task, artifact, docs,
          pc, req, row, state, seen, failures, crashes>>

-----------------------------------------------------------------------------
(* Values *)

SettledStatus ==
  {"awaiting_human_review", "completed", "failed",
   "awaiting_additional_information", "cancelled"}

ProcessingStatus == {"created", "gathering_evidence"} \cup EvidenceStates

WorkflowStatus == ProcessingStatus \cup SettledStatus

WorkflowStage ==
  {"created", "gathering_evidence", "evaluating_evidence",
   "determining_review_requirements"} \cup SettledStatus

\* Mutant: the action's own name is stored as the approval state.
ActionAsApproval == [action \in AllReviewActions |-> action]

\* The approval state each review action leaves.
ApprovalOf ==
  [acknowledge |-> "acknowledged",
   approve_proposed_next_step |-> "proposal_approved",
   reject_proposal |-> "proposal_rejected",
   request_more_information |-> "more_information_requested",
   return_for_evidence_review |-> "returned_for_evidence_review"]

ApprovalState ==
  {"not_required", "pending", "acknowledged", "proposal_approved",
   "proposal_rejected", "more_information_requested",
   "returned_for_evidence_review", "cancelled"}

WorkflowState ==
  [stage : WorkflowStage, status : WorkflowStatus, human : BOOLEAN,
   approval : ApprovalState, fingerprint : SUBSET Docs,
   evidence : SUBSET Docs, flagged : BOOLEAN]

WorkflowRun ==
  [version : Nat, status : WorkflowStatus \cup {"absent"},
   stage : WorkflowStage \cup {"absent"}, human : BOOLEAN,
   approval : ApprovalState, retryCount : Nat, fingerprint : SUBSET Docs]

NoRun ==
  [version |-> 0, status |-> "absent", stage |-> "absent", human |-> FALSE,
   approval |-> "not_required", retryCount |-> 0, fingerprint |-> {}]

NoRequest == [op |-> "none", key |-> "none", action |-> "none"]
NothingSeen == [artifact |-> FALSE, task |-> FALSE]

\* The checksums _fingerprint hashes: every document row, processed or not.
Fingerprint == {d \in Docs : docs[d] # "absent"}

\* The documents whose index the retrieval searches.
ReadyDocs == {d \in Docs : docs[d] = "ready"}

\* WorkflowState as _initial_state builds it.
InitialState(mandatory, fingerprint) ==
  [stage |-> "created", status |-> "created", human |-> mandatory,
   approval |-> "not_required", fingerprint |-> fingerprint,
   evidence |-> {}, flagged |-> FALSE]

NoState == InitialState(FALSE, {})

\* The latest checkpoint's state.
LatestState == checkpoints[run.version]

-----------------------------------------------------------------------------
(* The graph: the state each node makes of the one before it.              *)

LoadClaimContext(g) ==
  [g EXCEPT !.stage = "gathering_evidence", !.status = "gathering_evidence"]

RetrieveEvidence(g, finding, flagged) ==
  [g EXCEPT !.stage = "evaluating_evidence", !.status = finding,
            !.evidence = ReadyDocs, !.flagged = flagged]

ValidateProvenance(g) == [g EXCEPT !.stage = "determining_review_requirements"]

\* Mutant: only a mandatory review counts, the findings do not.
DetermineMandatoryOnly(g) ==
  [g EXCEPT !.approval = IF g.human THEN "pending" ELSE "not_required"]

\* Mutant: only the findings count, a mandatory review does not.
DetermineFindingsOnly(g) ==
  [g EXCEPT !.human = g.flagged,
            !.approval = IF g.flagged THEN "pending" ELSE "not_required"]

\* Any finding but a clean answer, flagged content or an open task of the
\* claim calls for a human.
DetermineReview(g) ==
  LET review == g.flagged \/ g.human
  IN  [g EXCEPT !.human = review,
                !.approval = IF review THEN "pending" ELSE "not_required"]

PrepareArtifact(g) ==
  LET final == IF g.human THEN "awaiting_human_review" ELSE "completed"
  IN  [g EXCEPT !.stage = final, !.status = final]

\* What a session does once the state of a stage is persisted.
AfterStage(g) ==
  CASE g.stage = "created"             -> <<"persist", LoadClaimContext(g)>>
    [] g.stage = "gathering_evidence"  -> <<"retrieve", g>>
    [] g.stage = "evaluating_evidence" -> <<"persist", ValidateProvenance(g)>>
    [] g.stage = "determining_review_requirements" ->
         <<"persist", PrepareArtifact(DetermineReview(g))>>
    [] OTHER                           -> <<"tailRead", g>>

-----------------------------------------------------------------------------
(* The steps handlers share *)

\* A session ends its request, answered or broken off.
Finish(s) ==
  /\ pc' = [pc EXCEPT ![s] = "idle"]
  /\ req' = [req EXCEPT ![s] = NoRequest]
  /\ row' = [row EXCEPT ![s] = NoRun]
  /\ state' = [state EXCEPT ![s] = NoState]
  /\ seen' = [seen EXCEPT ![s] = NothingSeen]

\* Mutant: checkpoints have no unique version.
AnyVersionFree(v) == TRUE

\* The database accepts the checkpoint that follows version v:
\* uq_workflow_checkpoint_version.
VersionFree(v) == v + 1 \notin DOMAIN checkpoints

\* The run row after r takes over the state g under the next version.
RowWith(r, g) ==
  [version |-> r.version + 1, status |-> g.status, stage |-> g.stage,
   human |-> g.human, approval |-> g.approval,
   retryCount |-> r.retryCount, fingerprint |-> r.fingerprint]

\* The transaction of _persist: row, checkpoint and event, all or nothing.
Record(newRow, g, kind, previous) ==
  /\ run' = newRow
  /\ checkpoints' = [v \in DOMAIN checkpoints \cup {newRow.version} |->
                       IF v = newRow.version THEN g ELSE checkpoints[v]]
  /\ events' = Append(events, [kind |-> kind, previous |-> previous, new |-> g.status])

\* Mutant: start has no exception handler either.
RaiseUnhandled(s) == Finish(s)

\* An exception in start runs its handler; in retry it ends the request.
Raise(s) ==
  \/ /\ req[s].op = "start"
     /\ pc' = [pc EXCEPT ![s] = "failLoad"]
     /\ UNCHANGED <<req, row, state, seen>>
  \/ /\ req[s].op = "retry"
     /\ Finish(s)

\* A session goes on to its graph after g was persisted as row r.
Continue(s, r, g) ==
  /\ pc' = [pc EXCEPT ![s] = AfterStage(g)[1]]
  /\ state' = [state EXCEPT ![s] = AfterStage(g)[2]]
  /\ row' = [row EXCEPT ![s] = r]

-----------------------------------------------------------------------------
(* start *)

\* The run does not exist for this idempotency key; the fingerprint and the
\* claim's review status are read.
StartRead(s) ==
  /\ pc[s] = "idle"
  /\ run.status = "absent"
  /\ \E other \in OtherTaskOpen :
       state' = [state EXCEPT ![s] = InitialState(other, Fingerprint)]
  /\ pc' = [pc EXCEPT ![s] = "startCreate"]
  /\ req' = [req EXCEPT ![s] = [NoRequest EXCEPT !.op = "start"]]
  /\ UNCHANGED <<dbVars, docs, row, seen, failures, crashes>>

\* The row is inserted and committed with its first checkpoint, unless a
\* concurrent start with the same key came first.
StartCreate(s) ==
  /\ pc[s] = "startCreate"
  /\ \/ LET new == RowWith([NoRun EXCEPT !.fingerprint = state[s].fingerprint], state[s])
        IN  /\ run.status = "absent"
            /\ Record(new, state[s], "start", "none")
            /\ Continue(s, new, state[s])
            /\ UNCHANGED <<req, seen>>
     \/ /\ run.status # "absent"
        /\ Finish(s)
        /\ UNCHANGED <<run, checkpoints, events>>
  /\ UNCHANGED <<actions, task, artifact, docs, failures, crashes>>

-----------------------------------------------------------------------------
(* The graph loop and the tail that start and retry share *)

PersistStage(s) ==
  /\ pc[s] = "persist"
  /\ \/ LET new == RowWith(row[s], state[s])
        IN  /\ VersionFree(row[s].version)
            /\ Record(new, state[s], req[s].op, row[s].status)
            /\ Continue(s, new, state[s])
            /\ UNCHANGED <<req, seen>>
     \/ /\ ~ VersionFree(row[s].version)
        /\ Raise(s)
        /\ UNCHANGED <<run, checkpoints, events>>
  /\ UNCHANGED <<actions, task, artifact, docs, failures, crashes>>

Retrieve(s) ==
  /\ pc[s] = "retrieve"
  /\ \E finding \in Findings, injection \in BOOLEAN :
       state' = [state EXCEPT ![s] =
                   RetrieveEvidence(@, finding, injection \/ finding # "answerable")]
  /\ pc' = [pc EXCEPT ![s] = "persist"]
  /\ UNCHANGED <<dbVars, docs, req, row, seen, failures, crashes>>

\* Retrieval is the one node that reads the database and may raise.
NodeFailure(s) ==
  /\ pc[s] = "retrieve"
  /\ failures["start"] + failures["retry"] < MaxNodeFailures
  /\ failures' = [failures EXCEPT ![req[s].op] = @ + 1]
  /\ Raise(s)
  /\ UNCHANGED <<dbVars, docs, crashes>>

\* The selects of _upsert_artifact and _upsert_review_task.
TailRead(s) ==
  /\ pc[s] = "tailRead"
  /\ seen' = [seen EXCEPT ![s] = [artifact |-> artifact # 0, task |-> task # "none"]]
  /\ pc' = [pc EXCEPT ![s] = "tailCommit"]
  /\ UNCHANGED <<dbVars, docs, req, row, state, failures, crashes>>

\* An insert of a row another session inserted since breaks
\* uq_review_artifact_workflow or uq_review_task_workflow.
TailCollides(s) ==
  \/ ~seen[s].artifact /\ artifact # 0
  \/ state[s].human /\ ~seen[s].task /\ task # "none"

\* Mutant: a task is opened for every run without one.
TaskForEveryRun(s) == IF ~seen[s].task THEN "open" ELSE task

\* Mutant: the task is left to someone else.
TaskForNoRun(s) == task

TaskAfterTail(s) == IF state[s].human /\ ~seen[s].task THEN "open" ELSE task

\* The tail opens the task of a run that has gone on since.
OpensLate(s) == TaskAfterTail(s) # task /\ row[s].version # run.version

TailCommit(s) ==
  /\ pc[s] = "tailCommit"
  /\ \/ /\ ~ TailCollides(s)
        /\ artifact' = row[s].version
        /\ task' = TaskAfterTail(s)
        /\ failures' = IF OpensLate(s) THEN [failures EXCEPT !["tail"] = 1] ELSE failures
        /\ Finish(s)
     \/ /\ TailCollides(s)
        /\ Raise(s)
        /\ UNCHANGED <<artifact, task, failures>>
  /\ UNCHANGED <<run, checkpoints, events, actions, docs, crashes>>

\* The exception handler of start reloads the run and its latest checkpoint.
FailLoad(s) ==
  /\ pc[s] = "failLoad"
  /\ row' = [row EXCEPT ![s] = run]
  /\ state' = [state EXCEPT ![s] = [LatestState EXCEPT !.stage = "failed", !.status = "failed"]]
  /\ pc' = [pc EXCEPT ![s] = "failCommit"]
  /\ UNCHANGED <<dbVars, docs, req, seen, failures, crashes>>

FailCommit(s) ==
  /\ pc[s] = "failCommit"
  /\ \/ /\ VersionFree(row[s].version)
        /\ Record(RowWith(row[s], state[s]), state[s], "failure", row[s].status)
     \/ /\ ~ VersionFree(row[s].version)
        /\ UNCHANGED <<run, checkpoints, events>>
  /\ Finish(s)
  /\ UNCHANGED <<actions, task, artifact, docs, failures, crashes>>

-----------------------------------------------------------------------------
(* retry *)

UsedKeys == {a.key : a \in actions}

\* Whether the claim has an open review task: its own, or another one's.
RetryLoad(s) ==
  /\ pc[s] = "idle"
  /\ run.status \in {"failed", "awaiting_additional_information"}
  /\ run.retryCount < MaxRetries
  /\ \E key \in Keys \ UsedKeys :
       req' = [req EXCEPT ![s] = [op |-> "retry", key |-> key, action |-> "retry"]]
  /\ \E other \in OtherTaskOpen :
       state' = [state EXCEPT ![s] = InitialState(other \/ task = "open", Fingerprint)]
  /\ row' = [row EXCEPT ![s] = run]
  /\ pc' = [pc EXCEPT ![s] = "retryCreate"]
  /\ UNCHANGED <<dbVars, docs, seen, failures, crashes>>

\* The first persist of a retry carries the action row, the spent budget and
\* the new fingerprint.
RetryCreate(s) ==
  /\ pc[s] = "retryCreate"
  /\ \/ LET retried == [row[s] EXCEPT !.retryCount = @ + 1,
                                      !.fingerprint = state[s].fingerprint]
            new == RowWith(retried, state[s])
        IN  /\ VersionFree(row[s].version)
            /\ req[s].key \notin UsedKeys
            /\ Record(new, state[s], "retry", row[s].status)
            /\ actions' = actions \cup
                 {[key |-> req[s].key, action |-> "retry", expected |-> row[s].version,
                   docs |-> state[s].fingerprint]}
            /\ Continue(s, new, state[s])
            /\ UNCHANGED <<req, seen>>
     \/ /\ ~ VersionFree(row[s].version) \/ req[s].key \in UsedKeys
        /\ Finish(s)
        /\ UNCHANGED <<run, checkpoints, events, actions>>
  /\ UNCHANGED <<task, artifact, docs, failures, crashes>>

-----------------------------------------------------------------------------
(* review *)

\* Mutant: the evidence is not compared.
AlwaysFresh(r) == TRUE

\* The claim's documents are those the run fingerprinted.
StillFresh(r) == Fingerprint = r.fingerprint

\* The checks before the conditional update: the key is new, the run waits at
\* the version the reviewer saw, and the documents are those fingerprinted.
ReviewCheck(s) ==
  /\ pc[s] = "idle"
  /\ run.status = "awaiting_human_review"
  /\ StillFresh(run)
  /\ \E key \in Keys \ UsedKeys, action \in ReviewActions :
       req' = [req EXCEPT ![s] = [op |-> "review", key |-> key, action |-> action]]
  /\ row' = [row EXCEPT ![s] = run]
  /\ state' = [state EXCEPT ![s].fingerprint = Fingerprint]
  /\ pc' = [pc EXCEPT ![s] = "reviewApply"]
  /\ UNCHANGED <<dbVars, docs, seen, failures, crashes>>

\* Mutant: the update names the run only.
ReviewMatchesAnything(s) == TRUE

\* Mutant: the update names the run and the status, not the version.
ReviewMatchesStatus(s) == run.status = "awaiting_human_review"

\* The row the conditional update matches.
ReviewMatches(s) ==
  /\ run.version = row[s].version
  /\ run.status = "awaiting_human_review"

\* Mutant: a review leaves the task to the reviewer.
TaskLeftByReview(action) == task

\* Mutant: every review action closes the task.
TaskClosedByReview(action) == IF task = "none" THEN task ELSE "completed"

TaskAfterReview(action) ==
  IF task = "none" THEN task
  ELSE IF action \in TerminalActions THEN "completed" ELSE "open"

ReviewApply(s) ==
  /\ pc[s] = "reviewApply"
  /\ \/ LET action == req[s].action
            new == IF action \in TerminalActions THEN "completed"
                   ELSE "awaiting_additional_information"
            decided == [LatestState EXCEPT !.status = new, !.stage = new,
                                           !.approval = ApprovalOf[action]]
        IN  /\ ReviewMatches(s)
            /\ req[s].key \notin UsedKeys
            /\ Record(RowWith(run, decided), decided, "review", "awaiting_human_review")
            /\ actions' = actions \cup
                 {[key |-> req[s].key, action |-> action, expected |-> row[s].version,
                   docs |-> state[s].fingerprint]}
            /\ task' = TaskAfterReview(action)
     \/ /\ ~ ReviewMatches(s) \/ req[s].key \in UsedKeys
        /\ UNCHANGED <<run, checkpoints, events, actions, task>>
  /\ Finish(s)
  /\ UNCHANGED <<artifact, docs, failures, crashes>>

-----------------------------------------------------------------------------
(* cancel *)

\* Mutant: a completed run can be cancelled.
CompletedCancellable == run.status \notin {"absent", "cancelled"}

Cancellable == run.status \notin {"absent", "completed", "cancelled"}

CancelLoad(s) ==
  /\ pc[s] = "idle"
  /\ Cancellable
  /\ req' = [req EXCEPT ![s] = [NoRequest EXCEPT !.op = "cancel"]]
  /\ row' = [row EXCEPT ![s] = run]
  /\ state' = [state EXCEPT ![s] =
                 [LatestState EXCEPT !.stage = "cancelled", !.status = "cancelled",
                                     !.approval = "cancelled"]]
  /\ pc' = [pc EXCEPT ![s] = "cancelPersist"]
  /\ UNCHANGED <<dbVars, docs, seen, failures, crashes>>

\* The first commit of cancel: status, checkpoint and event.
CancelPersist(s) ==
  /\ pc[s] = "cancelPersist"
  /\ \/ /\ VersionFree(row[s].version)
        /\ Record(RowWith(row[s], state[s]), state[s], "cancel", row[s].status)
        /\ pc' = [pc EXCEPT ![s] = "cancelTask"]
        /\ UNCHANGED <<req, row, state, seen>>
     \/ /\ ~ VersionFree(row[s].version)
        /\ Finish(s)
        /\ UNCHANGED <<run, checkpoints, events>>
  /\ UNCHANGED <<actions, task, artifact, docs, failures, crashes>>

\* The second commit of cancel closes the review task, if there is one.
CancelTask(s) ==
  /\ pc[s] = "cancelTask"
  /\ task' = IF task = "none" THEN task ELSE "cancelled"
  /\ Finish(s)
  /\ UNCHANGED <<run, checkpoints, events, actions, artifact, docs, failures, crashes>>

-----------------------------------------------------------------------------
(* The environment *)

\* A request is broken off between two of its steps.
Crash(s) ==
  /\ pc[s] # "idle"
  /\ crashes < MaxCrashes
  /\ crashes' = crashes + 1
  /\ failures' = IF pc[s] = "cancelTask" THEN [failures EXCEPT !["cancel"] = 1] ELSE failures
  /\ Finish(s)
  /\ UNCHANGED <<dbVars, docs>>

\* Ingestion adds the row of a new document, and later makes it ready; a
\* document whose processing failed stays "stored" until a retry succeeds.
DocumentStored(d) ==
  /\ docs[d] = "absent"
  /\ docs' = [docs EXCEPT ![d] = "stored"]
  /\ UNCHANGED <<dbVars, sessionVars, failures, crashes>>

DocumentReady(d) ==
  /\ docs[d] = "stored"
  /\ docs' = [docs EXCEPT ![d] = "ready"]
  /\ UNCHANGED <<dbVars, sessionVars, failures, crashes>>

-----------------------------------------------------------------------------
Init ==
  /\ run = NoRun
  /\ checkpoints = [v \in {} |-> NoState]
  /\ events = << >>
  /\ actions = {}
  /\ task = "none"
  /\ artifact = 0
  /\ docs \in [Docs -> {"absent", "stored", "ready"}]
  /\ pc = [s \in Sessions |-> "idle"]
  /\ req = [s \in Sessions |-> NoRequest]
  /\ row = [s \in Sessions |-> NoRun]
  /\ state = [s \in Sessions |-> NoState]
  /\ seen = [s \in Sessions |-> NothingSeen]
  /\ failures = [start |-> 0, retry |-> 0, tail |-> 0, cancel |-> 0]
  /\ crashes = 0

\* What a client asks for.
Request(s) == StartRead(s) \/ RetryLoad(s) \/ ReviewCheck(s) \/ CancelLoad(s)

\* What the server does next for a request it has accepted.
Serve(s) ==
  \/ StartCreate(s) \/ PersistStage(s) \/ Retrieve(s) \/ NodeFailure(s)
  \/ TailRead(s) \/ TailCommit(s) \/ FailLoad(s) \/ FailCommit(s)
  \/ RetryCreate(s) \/ ReviewApply(s) \/ CancelPersist(s) \/ CancelTask(s)

Next ==
  \/ \E s \in Sessions : Request(s) \/ Serve(s) \/ Crash(s)
  \/ \E d \in Docs : DocumentStored(d) \/ DocumentReady(d)

Spec == Init /\ [][Next]_vars

\* A request that is being served goes on; no client has to ask for anything
\* and no document has to be processed.
FairSpec == Spec /\ \A s \in Sessions : WF_vars(Serve(s))

-----------------------------------------------------------------------------
(* Properties *)

Kinds == {"start", "retry", "review", "cancel", "failure"}

ActionRow ==
  [key : Keys, action : AllReviewActions \cup {"retry"}, expected : Nat, docs : SUBSET Docs]

IsReview(a) == a.action # "retry"

AllIdle == \A s \in Sessions : pc[s] = "idle"

\* Every variable has its type.
TypeOK ==
  /\ run \in WorkflowRun
  /\ DOMAIN checkpoints \subseteq Nat
  /\ \A v \in DOMAIN checkpoints : checkpoints[v] \in WorkflowState
  /\ events \in Seq([kind : Kinds, previous : WorkflowStatus \cup {"none"}, new : WorkflowStatus])
  /\ actions \subseteq ActionRow
  /\ task \in {"none", "open", "completed", "cancelled"}
  /\ artifact \in Nat
  /\ docs \in [Docs -> {"absent", "stored", "ready"}]
  /\ pc \in [Sessions -> {"idle", "startCreate", "persist", "retrieve", "tailRead",
                          "tailCommit", "failLoad", "failCommit", "retryCreate",
                          "reviewApply", "cancelPersist", "cancelTask"}]
  /\ req \in [Sessions -> [op : {"none", "start", "retry", "review", "cancel"},
                           key : Keys \cup {"none"},
                           action : AllReviewActions \cup {"none", "retry"}]]
  /\ row \in [Sessions -> WorkflowRun]
  /\ state \in [Sessions -> WorkflowState]
  /\ seen \in [Sessions -> [artifact : BOOLEAN, task : BOOLEAN]]
  /\ failures \in [{"start", "retry", "tail", "cancel"} -> Nat]
  /\ crashes \in Nat

\* However requests interleave and crash, the run's history has no gap and no
\* fork: one checkpoint and one event per version, and the row is what the
\* latest checkpoint says.
HistoryGapless ==
  /\ DOMAIN checkpoints = 1..run.version
  /\ Len(events) = run.version
  /\ run.version > 0 =>
       /\ LatestState.status = run.status
       /\ LatestState.stage = run.stage
       /\ LatestState.human = run.human
       /\ LatestState.approval = run.approval
       /\ LatestState.fingerprint = run.fingerprint

\* Each event starts from the status the event before it led to, although the
\* handlers write the previous status from a copy loaded earlier.
HistoryLinked ==
  \A n \in 1..Len(events) :
    /\ n \in DOMAIN checkpoints => events[n].new = checkpoints[n].status
    /\ events[n].previous = IF n = 1 THEN "none" ELSE events[n - 1].new

\* The retry budget counts every retry that began, under any interleaving of
\* retries that all saw budget left.
RetryBudget ==
  /\ run.retryCount <= MaxRetries
  /\ run.retryCount = Cardinality({a \in actions : ~IsReview(a)})
  /\ run.retryCount =
       Cardinality({n \in DOMAIN events : events[n].kind = "retry" /\ events[n].new = "created"})

\* A checkpoint is answered by at most one review or retry, the answer is the
\* very next version, and it answers a status that allowed it.
OneAnswerPerCheckpoint ==
  /\ \A a, b \in actions : a.expected = b.expected \/ a.key = b.key => a = b
  /\ \A a \in actions :
       /\ a.expected \in DOMAIN checkpoints
       /\ a.expected < Len(events)
       /\ checkpoints[a.expected].status \in
            IF IsReview(a) THEN {"awaiting_human_review"}
            ELSE {"failed", "awaiting_additional_information"}
       /\ events[a.expected + 1].kind = IF IsReview(a) THEN "review" ELSE "retry"

\* A run that called for a human never completes by itself: every completed
\* checkpoint is either one of clean evidence that no open task made mandatory,
\* or the one a terminal human action produced.
CompletionIsReviewed ==
  \A v \in DOMAIN checkpoints :
    checkpoints[v].status = "completed" =>
      \/ ~checkpoints[v].human /\ ~checkpoints[v].flagged
      \/ \E a \in actions : a.action \in TerminalActions /\ a.expected = v - 1

\* A decision was taken on a checkpoint whose fingerprint is that of the
\* documents its freshness check saw, also after retries renewed it.
DecisionMatchesSnapshot ==
  \A a \in actions :
    IsReview(a) /\ a.expected \in DOMAIN checkpoints =>
      checkpoints[a.expected].fingerprint = a.docs

\* A review task exists only for a run that has waited for a human, and is
\* closed only by what closes it: a terminal action or a cancellation.  A run that
\* is over has no open task, but for three cases: a cancellation is between its
\* two commits, one has broken off there, or a tail came so late that it opened
\* the task of a run that had gone on.
TaskJustified ==
  /\ task # "none" =>
       \E v \in DOMAIN checkpoints : checkpoints[v].status = "awaiting_human_review"
  /\ task = "completed" => \E a \in actions : a.action \in TerminalActions
  /\ task = "cancelled" =>
       \E v \in DOMAIN checkpoints : checkpoints[v].status = "cancelled"
  /\ task = "open" /\ run.status \in {"completed", "cancelled"} =>
       \/ \E s \in Sessions : pc[s] = "cancelTask"
       \/ failures["cancel"] + failures["tail"] > 0

\* Nothing but the failure handler of start takes a run out of completed or
\* cancelled.
TerminalLeftOnlyByFailure ==
  [][run.status \in {"completed", "cancelled"} /\ run' # run
       => run'.status = "failed" /\ events'[Len(events')].kind = "failure"]_vars

-----------------------------------------------------------------------------
(* What holds when clients ask one after the other *)

\* Between requests, a run that waits shows its open task and its own
\* artifact, and a run that is over has no open task.
RestingConsistent ==
  AllIdle =>
    /\ run.status = "awaiting_human_review" => task = "open" /\ artifact = run.version
    /\ run.status \in {"completed", "cancelled"} => task # "open"

\* Once a human asked for more, the run completes only through a human: the
\* open task makes every later attempt call for review.
HumanHold ==
  \A a \in actions, v \in DOMAIN checkpoints :
    /\ IsReview(a) /\ a.action \notin TerminalActions
    /\ a.expected < v
    /\ checkpoints[v].status = "completed"
    => checkpoints[v].human

\* Between requests every node failure has left a failed checkpoint of its
\* own.
NodeFailuresAreRecorded ==
  AllIdle =>
    Cardinality({v \in DOMAIN checkpoints : checkpoints[v].status = "failed"})
      >= failures["start"] + failures["retry"]

-----------------------------------------------------------------------------
(* What the documentation promises *)

\* A run that waits for a human and that no request is working on has its
\* review task.
WaitingRunHasTask ==
  AllIdle /\ run.status = "awaiting_human_review" => task # "none"

\* A cancelled run stays cancelled.
CancelledIsTerminal ==
  [][run.status = "cancelled" => run'.status = "cancelled"]_vars

\* A human decides on all the evidence that can be retrieved for the claim.
DecisionOnCurrentEvidence ==
  [][\A a \in actions' \ actions :
       IsReview(a) => checkpoints[a.expected].evidence = ReadyDocs]_vars

-----------------------------------------------------------------------------
(* Liveness *)

\* A run leaves the processing states, unless a retry lost a node.
ProcessingSettles ==
  run.status \in ProcessingStatus ~>
    run.status \in SettledStatus \/ failures["retry"] > 0

\* A run that waits for a human gets its task, or moves on.
WaitingGetsTask ==
  run.status = "awaiting_human_review" ~>
    task # "none" \/ run.status # "awaiting_human_review"

-----------------------------------------------------------------------------
(* The abstract lifecycle *)

Lifecycle == INSTANCE WorkflowLifecycle WITH
  EvidenceOutcomes <- EvidenceStates,
  RetryLimit <- MaxRetries,
  status <- run.status,
  version <- run.version,
  review <- run.human,
  routed <- run.stage = "determining_review_requirements",
  retries <- run.retryCount,
  failed <- \E n \in DOMAIN events : events[n].kind = "failure"

\* Interleaved requests with their stale copies, crashes and lost commits
\* make a run that behaves as one atomic object.
ImplementsLifecycle == Lifecycle!LifecycleSpec
=============================================================================
