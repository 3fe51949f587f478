---------------------- MODULE ControlledWorkflowProofs ----------------------
(***************************************************************************)
(* Proofs about ControlledWorkflow for every set of sessions, keys and     *)
(* documents and every bound.                                              *)
(***************************************************************************)
EXTENDS ControlledWorkflow, TLAPS

SessionStep ==
  {"idle", "startCreate", "persist", "retrieve", "tailRead", "tailCommit", "failLoad",
   "failCommit", "retryCreate", "reviewApply", "cancelPersist", "cancelTask"}

Requests ==
  [op : {"none", "start", "retry", "review", "cancel"}, key : Keys \cup {"none"},
   action : AllReviewActions \cup {"none", "retry"}]

EventRow ==
  [kind : Kinds, previous : WorkflowStatus \cup {"none"}, new : WorkflowStatus]

-----------------------------------------------------------------------------
(* Operators *)

\* RowWith takes over a graph state and moves to the next version.
LEMMA RowWithFields ==
  ASSUME NEW r \in WorkflowRun, NEW g \in WorkflowState
  PROVE  /\ RowWith(r, g) \in WorkflowRun
         /\ RowWith(r, g).version = r.version + 1
         /\ RowWith(r, g).status = g.status
         /\ RowWith(r, g).stage = g.stage
         /\ RowWith(r, g).human = g.human
         /\ RowWith(r, g).approval = g.approval
         /\ RowWith(r, g).retryCount = r.retryCount
         /\ RowWith(r, g).fingerprint = r.fingerprint
  BY DEF RowWith, WorkflowRun, WorkflowState

\* A retry spends budget and takes over a fingerprint.
LEMMA RetriedFields ==
  ASSUME NEW r \in WorkflowRun, NEW f \in SUBSET Docs
  PROVE  LET retried == [r EXCEPT !.retryCount = @ + 1, !.fingerprint = f]
         IN  /\ retried \in WorkflowRun
             /\ retried.version = r.version
             /\ retried.retryCount = r.retryCount + 1
             /\ retried.fingerprint = f
<1>1. r.retryCount + 1 \in Nat
  BY DEF WorkflowRun
<1>2. QED
  BY <1>1 DEF WorkflowRun

\* The state a new attempt starts from.
LEMMA InitialStateType ==
  ASSUME NEW m \in BOOLEAN, NEW f \in SUBSET Docs
  PROVE  InitialState(m, f) \in WorkflowState
  BY DEF InitialState, WorkflowState, WorkflowStage, WorkflowStatus, ProcessingStatus,
         SettledStatus, ApprovalState

\* What follows a persisted stage is typed, keeps the fingerprint, and
\* prepares a completed state only from a state that calls for no review.
LEMMA AfterStageType ==
  ASSUME NEW g \in WorkflowState
  PROVE  /\ AfterStage(g)[1] \in {"persist", "retrieve", "tailRead"}
         /\ AfterStage(g)[2] \in WorkflowState
         /\ AfterStage(g)[2].fingerprint = g.fingerprint
<1> DEFINE c == LoadClaimContext(g)
           v == ValidateProvenance(g)
           d == DetermineReview(g)
           p == PrepareArtifact(d)
<1>1. c \in WorkflowState /\ c.fingerprint = g.fingerprint
  BY DEF LoadClaimContext, WorkflowState, WorkflowStage, WorkflowStatus, ProcessingStatus
<1>2. v \in WorkflowState /\ v.fingerprint = g.fingerprint
  BY DEF ValidateProvenance, WorkflowState, WorkflowStage
<1>3. d \in WorkflowState /\ d.fingerprint = g.fingerprint
  BY DEF DetermineReview, WorkflowState, ApprovalState
<1>4. p \in WorkflowState /\ p.fingerprint = g.fingerprint
  BY <1>3 DEF PrepareArtifact, WorkflowState, WorkflowStage, WorkflowStatus, SettledStatus
<1>5. QED
  BY <1>1, <1>2, <1>4 DEF AfterStage

-----------------------------------------------------------------------------
(* Type correctness, in three parts *)

RunTyped ==
  /\ run \in WorkflowRun
  /\ DOMAIN checkpoints \subseteq Nat
  /\ \A v \in DOMAIN checkpoints : checkpoints[v] \in WorkflowState
  /\ events \in Seq(EventRow)

RestTyped ==
  /\ actions \subseteq ActionRow
  /\ task \in {"none", "open", "completed", "cancelled"}
  /\ artifact \in Nat
  /\ docs \in [Docs -> {"absent", "stored", "ready"}]
  /\ failures \in [{"start", "retry", "tail", "cancel"} -> Nat]
  /\ crashes \in Nat

SessionsTyped ==
  /\ pc \in [Sessions -> SessionStep]
  /\ req \in [Sessions -> Requests]
  /\ row \in [Sessions -> WorkflowRun]
  /\ state \in [Sessions -> WorkflowState]
  /\ seen \in [Sessions -> [artifact : BOOLEAN, task : BOOLEAN]]

\* The type invariant splits into what one step touches together.
LEMMA TypeParts == TypeOK <=> RunTyped /\ RestTyped /\ SessionsTyped
  BY DEF TypeOK, RunTyped, RestTyped, SessionsTyped, SessionStep, Requests, EventRow

\* The values of an absent run and an idle session are typed.
LEMMA NothingTyped ==
  /\ NoRun \in WorkflowRun
  /\ NoState \in WorkflowState
  /\ NoRequest \in Requests
  /\ NothingSeen \in [artifact : BOOLEAN, task : BOOLEAN]
<1>1. NoRun \in WorkflowRun
  BY DEF NoRun, WorkflowRun, ApprovalState
<1>2. NoState \in WorkflowState
  BY InitialStateType DEF NoState
<1>3. NoRequest \in Requests /\ NothingSeen \in [artifact : BOOLEAN, task : BOOLEAN]
  BY DEF NoRequest, Requests, NothingSeen
<1>4. QED
  BY <1>1, <1>2, <1>3

\* Ending a request keeps the sessions typed.
LEMMA FinishTyped ==
  ASSUME SessionsTyped, NEW s \in Sessions, Finish(s)
  PROVE  SessionsTyped'
<1>1. pc' \in [Sessions -> SessionStep]
  BY DEF SessionsTyped, Finish, SessionStep
<1>2. /\ req' \in [Sessions -> Requests]
      /\ row' \in [Sessions -> WorkflowRun]
      /\ state' \in [Sessions -> WorkflowState]
      /\ seen' \in [Sessions -> [artifact : BOOLEAN, task : BOOLEAN]]
  BY NothingTyped DEF SessionsTyped, Finish
<1>3. QED
  BY <1>1, <1>2 DEF SessionsTyped

\* So does raising an exception.
LEMMA RaiseTyped ==
  ASSUME SessionsTyped, NEW s \in Sessions, Raise(s)
  PROVE  SessionsTyped'
<1>1. CASE Finish(s)
  BY <1>1, FinishTyped
<1>2. CASE pc' = [pc EXCEPT ![s] = "failLoad"] /\ UNCHANGED <<req, row, state, seen>>
  BY <1>2 DEF SessionsTyped, SessionStep
<1>3. QED
  BY <1>1, <1>2 DEF Raise

\* So does going on to the graph.
LEMMA ContinueTyped ==
  ASSUME SessionsTyped, NEW s \in Sessions, NEW r \in WorkflowRun, NEW g \in WorkflowState,
         Continue(s, r, g), UNCHANGED <<req, seen>>
  PROVE  SessionsTyped'
  BY AfterStageType DEF SessionsTyped, SessionStep, Continue

\* Recording a version keeps row, checkpoints and events typed.
LEMMA RecordTyped ==
  ASSUME RunTyped, NEW r \in WorkflowRun, NEW g \in WorkflowState, NEW k \in Kinds,
         NEW p \in WorkflowStatus \cup {"none"}, Record(r, g, k, p)
  PROVE  RunTyped'
<1>1. run' \in WorkflowRun /\ r.version \in Nat
  BY DEF Record, WorkflowRun
<1>2. /\ DOMAIN checkpoints' \subseteq Nat
      /\ \A v \in DOMAIN checkpoints' : checkpoints'[v] \in WorkflowState
  BY <1>1 DEF Record, RunTyped
<1>3. events' \in Seq(EventRow)
  <2>1. g.status \in WorkflowStatus
    BY DEF WorkflowState
  <2>2. [kind |-> k, previous |-> p, new |-> g.status] \in EventRow
    BY <2>1 DEF EventRow
  <2>3. QED
    BY <2>2 DEF Record, RunTyped
<1>4. QED
  BY <1>1, <1>2, <1>3 DEF RunTyped

-----------------------------------------------------------------------------
(* The core of the inductive invariant *)

\* The run exists exactly when it has a version.
Begun ==
  /\ run.status = "absent" <=> run.version = 0
  /\ run.version = 0 => run = NoRun

\* What a session holds.  Its copy of the run is of a version that was
\* recorded, and is the run itself while that version is the latest: this is
\* what makes the unique checkpoint version an optimistic lock.  The state it
\* is about to record has the fingerprint of its copy.
Holding(s) ==
  /\ pc[s] \notin {"idle", "startCreate"} => run.version > 0
  /\ pc[s] \notin {"idle", "startCreate", "failLoad"} =>
       /\ row[s].version \in 1..run.version
       /\ row[s].version = run.version => row[s] = run
  /\ pc[s] \in {"startCreate", "retryCreate"} =>
       state[s].status = "created" /\ state[s].stage = "created"
  /\ pc[s] = "startCreate" => req[s].op = "start"
  /\ pc[s] = "retryCreate" => req[s].op = "retry"
  /\ pc[s] \in {"persist", "retrieve", "tailRead", "tailCommit"} => req[s].op \in {"start", "retry"}
  /\ pc[s] \in {"persist", "retrieve", "reviewApply"} => state[s].fingerprint = row[s].fingerprint
  /\ pc[s] \in {"failCommit", "cancelPersist"} /\ row[s].version = run.version =>
       state[s].fingerprint = row[s].fingerprint
  /\ pc[s] \in {"retryCreate", "reviewApply"} => req[s].key \in Keys
  /\ pc[s] = "reviewApply" => req[s].action \in AllReviewActions

CoreInv ==
  /\ TypeOK
  /\ HistoryGapless
  /\ Begun
  /\ \A s \in Sessions : Holding(s)

\* Every session but s is where it was.
OthersStay(s) ==
  \A t \in Sessions \ {s} :
    pc'[t] = pc[t] /\ req'[t] = req[t] /\ row'[t] = row[t] /\ state'[t] = state[t]

\* A new version makes the copies of other sessions stale, nothing worse.
LEMMA OthersHold ==
  ASSUME CoreInv, NEW s \in Sessions, OthersStay(s),
         run' = run \/ run'.version = run.version + 1
  PROVE  \A t \in Sessions \ {s} : Holding(t)'
<1> SUFFICES ASSUME NEW t \in Sessions \ {s}
             PROVE  Holding(t)'
  OBVIOUS
<1>1. /\ pc'[t] = pc[t] /\ req'[t] = req[t] /\ row'[t] = row[t] /\ state'[t] = state[t]
      /\ Holding(t)
  BY DEF OthersStay, CoreInv
<1>2. run.version \in Nat /\ row[t].version \in Nat
  BY TypeParts DEF CoreInv, RunTyped, SessionsTyped, WorkflowRun
<1>3. CASE run' = run
  BY <1>1, <1>3 DEF Holding
<1>4. CASE run'.version = run.version + 1
  BY <1>1, <1>2, <1>4 DEF Holding
<1>5. QED
  BY <1>3, <1>4

\* A session that ends its request holds nothing.
LEMMA FinishHolds ==
  ASSUME SessionsTyped, NEW s \in Sessions, Finish(s)
  PROVE  OthersStay(s) /\ Holding(s)'
  BY DEF SessionsTyped, Finish, OthersStay, Holding

\* A step that leaves the history alone keeps it gapless.
LEMMA QuietHistory ==
  ASSUME CoreInv, UNCHANGED <<run, checkpoints, events>>
  PROVE  HistoryGapless' /\ Begun' /\ RunTyped'
  BY TypeParts DEF CoreInv, HistoryGapless, LatestState, Begun, RunTyped

\* The latest checkpoint of a run that exists.
LEMMA LatestTyped ==
  ASSUME CoreInv, run.version > 0
  PROVE  LatestState \in WorkflowState /\ LatestState.fingerprint = run.fingerprint
<1>1. run.version \in DOMAIN checkpoints
  BY TypeParts DEF CoreInv, HistoryGapless, RunTyped, WorkflowRun
<1>2. QED
  BY <1>1, TypeParts DEF CoreInv, HistoryGapless, RunTyped, LatestState

\* Recording the version after the latest keeps the history gapless.
LEMMA RecordGapless ==
  ASSUME CoreInv, NEW r \in WorkflowRun, NEW g \in WorkflowState, NEW k \in Kinds,
         NEW p \in WorkflowStatus \cup {"none"}, Record(r, g, k, p),
         r.version = run.version + 1, r.status = g.status, r.stage = g.stage,
         r.human = g.human, r.approval = g.approval, r.fingerprint = g.fingerprint
  PROVE  HistoryGapless' /\ Begun' /\ RunTyped'
<1>1. RunTyped'
  BY RecordTyped, TypeParts DEF CoreInv
<1>2. run.version \in Nat /\ DOMAIN checkpoints = 1..run.version /\ Len(events) = run.version
      /\ events \in Seq(EventRow)
  BY TypeParts DEF CoreInv, HistoryGapless, RunTyped, WorkflowRun
<1>3. DOMAIN checkpoints' = 1..run'.version
  BY <1>2 DEF Record
<1>4. Len(events') = run'.version
  <2>1. [kind |-> k, previous |-> p, new |-> g.status] \in EventRow
    BY DEF EventRow, WorkflowState
  <2>2. QED
    BY <1>2, <2>1 DEF Record
<1>5. run' = r /\ LatestState' = g
  BY <1>2, <1>3 DEF Record, LatestState
<1>6. r.status # "absent"
  BY DEF WorkflowState, WorkflowStatus, ProcessingStatus, SettledStatus, EvidenceStates
<1>7. HistoryGapless'
  BY <1>3, <1>4, <1>5 DEF HistoryGapless
<1>8. Begun'
  BY <1>2, <1>5, <1>6 DEF Begun
<1>9. QED
  BY <1>1, <1>7, <1>8

\* The pieces of the core, assembled after a step of one session.
LEMMA CorePieces ==
  ASSUME CoreInv, NEW s \in Sessions, RunTyped', RestTyped', SessionsTyped',
         HistoryGapless', Begun', OthersStay(s), Holding(s)',
         run' = run \/ run'.version = run.version + 1
  PROVE  CoreInv'
<1>1. TypeOK'
  BY TypeParts, PTL
<1>2. \A t \in Sessions : Holding(t)'
  BY OthersHold
<1>3. QED
  BY <1>1, <1>2 DEF CoreInv

\* A checkpoint that can be recorded next to a session's copy shows that the
\* copy is the run.
LEMMA FreeMeansCurrent ==
  ASSUME CoreInv, NEW s \in Sessions, pc[s] \notin {"idle", "startCreate", "failLoad"},
         VersionFree(row[s].version)
  PROVE  row[s] = run
<1>1. run.version \in Nat /\ row[s].version \in Nat
  BY TypeParts DEF CoreInv, RunTyped, SessionsTyped, WorkflowRun
<1>2. row[s].version \in 1..run.version /\ (row[s].version = run.version => row[s] = run)
  BY DEF CoreInv, Holding
<1>3. row[s].version + 1 \notin 1..run.version
  BY DEF CoreInv, HistoryGapless, VersionFree
<1>4. QED
  BY <1>1, <1>2, <1>3

\* What the exception handler of start holds at first.
LEMMA RaiseHolds ==
  ASSUME CoreInv, NEW s \in Sessions, pc[s] \in {"persist", "retrieve", "tailCommit"},
         Raise(s), run' = run
  PROVE  OthersStay(s) /\ Holding(s)'
<1>1. SessionsTyped
  BY TypeParts DEF CoreInv
<1>2. CASE Finish(s)
  BY <1>1, <1>2, FinishHolds
<1>3. CASE pc' = [pc EXCEPT ![s] = "failLoad"] /\ UNCHANGED <<req, row, state, seen>>
  <2>1. pc'[s] = "failLoad" /\ OthersStay(s)
    BY <1>1, <1>3 DEF SessionsTyped, OthersStay
  <2>2. run'.version > 0
    BY DEF CoreInv, Holding
  <2>3. QED
    BY <2>1, <2>2 DEF Holding
<1>4. QED
  BY <1>2, <1>3 DEF Raise

\* A session that goes on to the graph holds the run itself.
LEMMA ContinueHolds ==
  ASSUME CoreInv, NEW s \in Sessions, NEW r \in WorkflowRun, NEW g \in WorkflowState,
         Continue(s, r, g), req' = req, run' = r, r.version > 0,
         r.fingerprint = g.fingerprint, req[s].op \in {"start", "retry"}
  PROVE  OthersStay(s) /\ Holding(s)'
<1>1. SessionsTyped
  BY TypeParts DEF CoreInv
<1>2. OthersStay(s)
  BY <1>1 DEF Continue, SessionsTyped, OthersStay
<1>3. /\ pc'[s] \in {"persist", "retrieve", "tailRead"}
      /\ row'[s] = r
      /\ state'[s].fingerprint = r.fingerprint
  BY <1>1, AfterStageType DEF Continue, SessionsTyped
<1>4. r.version \in Nat
  BY DEF WorkflowRun
<1>5. Holding(s)'
  BY <1>3, <1>4 DEF Holding
<1>6. QED
  BY <1>2, <1>5

-----------------------------------------------------------------------------
(* Every action preserves the core *)

\* StartRead preserves the core.
LEMMA StartReadCore ==
  ASSUME CoreInv, ConstantsAssumption, NEW s \in Sessions, StartRead(s)
  PROVE  CoreInv'
<1>1. SessionsTyped /\ RestTyped
  BY TypeParts DEF CoreInv
<1>2. PICK other \in OtherTaskOpen :
        state' = [state EXCEPT ![s] = InitialState(other, Fingerprint)]
  BY DEF StartRead
<1>3. InitialState(other, Fingerprint) \in WorkflowState
  BY InitialStateType DEF ConstantsAssumption, Fingerprint
<1>4. [NoRequest EXCEPT !.op = "start"] \in Requests
  BY DEF NoRequest, Requests
<1>5. SessionsTyped'
  BY <1>1, <1>2, <1>3, <1>4 DEF StartRead, SessionsTyped, SessionStep
<1>6. RestTyped'
  BY <1>1 DEF StartRead, RestTyped, dbVars
<1>7. OthersStay(s) /\ Holding(s)'
  BY <1>1, <1>2 DEF StartRead, SessionsTyped, OthersStay, Holding, InitialState
<1>8. UNCHANGED <<run, checkpoints, events>>
  BY DEF StartRead, dbVars
<1>9. QED
  BY <1>5, <1>6, <1>7, <1>8, QuietHistory, CorePieces

\* StartCreate preserves the core.
LEMMA StartCreateCore ==
  ASSUME CoreInv, NEW s \in Sessions, StartCreate(s)
  PROVE  CoreInv'
<1> DEFINE r == [NoRun EXCEPT !.fingerprint = state[s].fingerprint]
           new == RowWith(r, state[s])
<1>1. SessionsTyped /\ RestTyped
  BY TypeParts DEF CoreInv
<1>2. RestTyped'
  BY <1>1 DEF StartCreate, RestTyped
<1>3. CASE Finish(s) /\ UNCHANGED <<run, checkpoints, events>>
  BY <1>1, <1>2, <1>3, FinishTyped, FinishHolds, QuietHistory, CorePieces
<1>4. CASE /\ run.status = "absent"
           /\ Record(new, state[s], "start", "none")
           /\ Continue(s, new, state[s])
           /\ UNCHANGED <<req, seen>>
  <2>1. state[s] \in WorkflowState
    BY <1>1 DEF SessionsTyped
  <2>2. r \in WorkflowRun /\ r.version = 0 /\ r.fingerprint = state[s].fingerprint
    BY <2>1, NothingTyped DEF WorkflowRun, NoRun, WorkflowState
  <2> HIDE DEF r
  <2>3. /\ new \in WorkflowRun /\ new.version = 1 /\ new.fingerprint = state[s].fingerprint
        /\ new.status = state[s].status /\ new.stage = state[s].stage
        /\ new.human = state[s].human /\ new.approval = state[s].approval
    BY <2>1, <2>2, RowWithFields
  <2>4. run.version = 0
    BY <1>4 DEF CoreInv, Begun
  <2>5. HistoryGapless' /\ Begun' /\ RunTyped'
    BY <1>4, <2>1, <2>3, <2>4, RecordGapless DEF Kinds
  <2>6. run' = new
    BY <1>4 DEF Record
  <2>7. SessionsTyped'
    BY <1>1, <1>4, <2>1, <2>3, ContinueTyped
  <2>8. req[s].op \in {"start", "retry"}
    BY DEF StartCreate, CoreInv, Holding
  <2>9. OthersStay(s) /\ Holding(s)'
    BY <1>4, <2>1, <2>3, <2>6, <2>8, ContinueHolds
  <2>10. QED
    BY <1>2, <2>3, <2>4, <2>5, <2>6, <2>7, <2>9, CorePieces
<1>5. QED
  BY <1>3, <1>4 DEF StartCreate

\* PersistStage preserves the core.
LEMMA PersistStageCore ==
  ASSUME CoreInv, NEW s \in Sessions, PersistStage(s)
  PROVE  CoreInv'
<1> DEFINE new == RowWith(row[s], state[s])
<1>1. SessionsTyped /\ RestTyped /\ row[s] \in WorkflowRun /\ state[s] \in WorkflowState
  BY TypeParts DEF CoreInv, SessionsTyped
<1>2. RestTyped'
  BY <1>1 DEF PersistStage, RestTyped
<1>3. pc[s] = "persist"
  BY DEF PersistStage
<1>4. CASE Raise(s) /\ UNCHANGED <<run, checkpoints, events>>
  BY <1>1, <1>2, <1>3, <1>4, RaiseTyped, RaiseHolds, QuietHistory, CorePieces
<1>5. CASE /\ VersionFree(row[s].version)
           /\ Record(new, state[s], req[s].op, row[s].status)
           /\ Continue(s, new, state[s])
           /\ UNCHANGED <<req, seen>>
  <2>1. row[s] = run
    BY <1>3, <1>5, FreeMeansCurrent
  <2>2. /\ run.version > 0 /\ run.version \in Nat
        /\ req[s].op \in {"start", "retry"}
        /\ state[s].fingerprint = run.fingerprint
    BY <1>1, <1>3, <2>1 DEF CoreInv, Holding, WorkflowRun
  <2>3. /\ new \in WorkflowRun /\ new.version = run.version + 1
        /\ new.fingerprint = state[s].fingerprint
        /\ new.status = state[s].status /\ new.stage = state[s].stage
        /\ new.human = state[s].human /\ new.approval = state[s].approval
    BY <1>1, <2>1, <2>2, RowWithFields
  <2>4. row[s].status \in WorkflowStatus \cup {"none"}
    BY <1>1, <2>1, <2>2 DEF CoreInv, Begun, WorkflowRun
  <2>5. HistoryGapless' /\ Begun' /\ RunTyped'
    BY <1>1, <1>5, <2>2, <2>3, <2>4, RecordGapless DEF Kinds
  <2>6. run' = new
    BY <1>5 DEF Record
  <2>7. SessionsTyped'
    BY <1>1, <1>5, <2>3, ContinueTyped
  <2>8. OthersStay(s) /\ Holding(s)'
    BY <1>1, <1>5, <2>2, <2>3, <2>6, ContinueHolds
  <2>9. QED
    BY <1>2, <2>3, <2>5, <2>6, <2>7, <2>8, CorePieces
<1>6. QED
  BY <1>4, <1>5 DEF PersistStage

\* Retrieve preserves the core.
LEMMA RetrieveCore ==
  ASSUME CoreInv, ConstantsAssumption, NEW s \in Sessions, Retrieve(s)
  PROVE  CoreInv'
<1>1. SessionsTyped /\ RestTyped /\ state[s] \in WorkflowState /\ pc[s] = "retrieve"
  BY TypeParts DEF CoreInv, SessionsTyped, Retrieve
<1>2. PICK finding \in Findings, injection \in BOOLEAN :
        state' = [state EXCEPT ![s] =
                    RetrieveEvidence(@, finding, injection \/ finding # "answerable")]
  BY DEF Retrieve
<1> DEFINE flag == injection \/ finding # "answerable"
           g == RetrieveEvidence(state[s], finding, flag)
<1>3. g \in WorkflowState /\ g.fingerprint = state[s].fingerprint
  <2>1. finding \in WorkflowStatus /\ ReadyDocs \in SUBSET Docs /\ flag \in BOOLEAN
    BY DEF ConstantsAssumption, WorkflowStatus, ProcessingStatus, ReadyDocs
  <2> HIDE DEF flag
  <2>2. QED
    BY <1>1, <2>1 DEF RetrieveEvidence, WorkflowState, WorkflowStage
<1> HIDE DEF flag, g
<1>4. state' = [state EXCEPT ![s] = g]
  BY <1>2 DEF g, flag
<1>5. SessionsTyped' /\ OthersStay(s)
  BY <1>1, <1>3, <1>4 DEF Retrieve, SessionsTyped, SessionStep, OthersStay
<1>6. RestTyped'
  BY <1>1 DEF Retrieve, RestTyped, dbVars
<1>7. UNCHANGED <<run, checkpoints, events>>
  BY DEF Retrieve, dbVars
<1>8. Holding(s)'
  <2>1. /\ pc'[s] = "persist" /\ state'[s].fingerprint = state[s].fingerprint
        /\ row'[s] = row[s] /\ req'[s] = req[s]
    BY <1>1, <1>3, <1>4 DEF Retrieve, SessionsTyped
  <2>2. Holding(s)
    BY DEF CoreInv
  <2>3. QED
    BY <1>1, <1>7, <2>1, <2>2 DEF Holding
<1>9. QED
  BY <1>5, <1>6, <1>7, <1>8, QuietHistory, CorePieces

\* NodeFailure preserves the core.
LEMMA NodeFailureCore ==
  ASSUME CoreInv, NEW s \in Sessions, NodeFailure(s)
  PROVE  CoreInv'
<1>1. SessionsTyped /\ RestTyped
  BY TypeParts DEF CoreInv
<1>2. RestTyped'
  <2>1. req[s].op \in {"start", "retry"}
    BY DEF NodeFailure, CoreInv, Holding
  <2>2. QED
    BY <1>1, <2>1 DEF NodeFailure, RestTyped, dbVars
<1>3. Raise(s) /\ UNCHANGED <<run, checkpoints, events>> /\ pc[s] = "retrieve"
  BY DEF NodeFailure, dbVars
<1>4. QED
  BY <1>1, <1>2, <1>3, RaiseTyped, RaiseHolds, QuietHistory, CorePieces

\* TailRead preserves the core.
LEMMA TailReadCore ==
  ASSUME CoreInv, NEW s \in Sessions, TailRead(s)
  PROVE  CoreInv'
<1>1. SessionsTyped /\ RestTyped
  BY TypeParts DEF CoreInv
<1>2. SessionsTyped' /\ OthersStay(s)
  BY <1>1 DEF TailRead, SessionsTyped, SessionStep, OthersStay
<1>3. RestTyped'
  BY <1>1 DEF TailRead, RestTyped, dbVars
<1>4. UNCHANGED <<run, checkpoints, events>>
  BY DEF TailRead, dbVars
<1>5. Holding(s)'
  <2>1. pc'[s] = "tailCommit" /\ state' = state /\ row' = row /\ req' = req
    BY <1>1 DEF TailRead, SessionsTyped
  <2>2. Holding(s) /\ pc[s] = "tailRead"
    BY DEF CoreInv, TailRead
  <2>3. QED
    BY <1>4, <2>1, <2>2 DEF Holding
<1>6. QED
  BY <1>2, <1>3, <1>4, <1>5, QuietHistory, CorePieces

\* TailCommit preserves the core.
LEMMA TailCommitCore ==
  ASSUME CoreInv, NEW s \in Sessions, TailCommit(s)
  PROVE  CoreInv'
<1>1. SessionsTyped /\ RestTyped /\ pc[s] = "tailCommit"
  BY TypeParts DEF CoreInv, TailCommit
<1>2. UNCHANGED <<run, checkpoints, events>>
  BY DEF TailCommit
<1>3. RestTyped'
  BY <1>1 DEF TailCommit, RestTyped, TaskAfterTail, SessionsTyped, WorkflowRun
<1>4. CASE Finish(s)
  BY <1>1, <1>2, <1>3, <1>4, FinishTyped, FinishHolds, QuietHistory, CorePieces
<1>5. CASE Raise(s)
  BY <1>1, <1>2, <1>3, <1>5, RaiseTyped, RaiseHolds, QuietHistory, CorePieces
<1>6. QED
  BY <1>4, <1>5 DEF TailCommit

\* FailLoad preserves the core.
LEMMA FailLoadCore ==
  ASSUME CoreInv, NEW s \in Sessions, FailLoad(s)
  PROVE  CoreInv'
<1> DEFINE g == [LatestState EXCEPT !.stage = "failed", !.status = "failed"]
<1>1. SessionsTyped /\ RestTyped /\ run \in WorkflowRun /\ run.version \in Nat
  BY TypeParts DEF CoreInv, RunTyped, WorkflowRun
<1>2. run.version > 0
  BY DEF FailLoad, CoreInv, Holding
<1>3. /\ g \in WorkflowState /\ g.status = "failed"
      /\ g.fingerprint = run.fingerprint
  BY <1>2, LatestTyped DEF WorkflowState, WorkflowStage, WorkflowStatus, SettledStatus
<1>4. state' = [state EXCEPT ![s] = g]
  BY DEF FailLoad
<1> HIDE DEF g
<1>5. SessionsTyped' /\ OthersStay(s)
  BY <1>1, <1>3, <1>4 DEF FailLoad, SessionsTyped, SessionStep, OthersStay
<1>6. RestTyped'
  BY <1>1 DEF FailLoad, RestTyped, dbVars
<1>7. UNCHANGED <<run, checkpoints, events>>
  BY DEF FailLoad, dbVars
<1>8. Holding(s)'
  <2>1. pc'[s] = "failCommit" /\ state'[s] = g /\ row'[s] = run
    BY <1>1, <1>4 DEF FailLoad, SessionsTyped
  <2>2. QED
    BY <1>1, <1>2, <1>3, <1>7, <2>1 DEF Holding
<1>9. QED
  BY <1>5, <1>6, <1>7, <1>8, QuietHistory, CorePieces

\* Recording the state a session holds next to its copy, as the exception
\* handler and cancel do.
LEMMA RecordHeld ==
  ASSUME CoreInv, NEW s \in Sessions, pc[s] \in {"failCommit", "cancelPersist"},
         VersionFree(row[s].version), NEW k \in Kinds,
         Record(RowWith(row[s], state[s]), state[s], k, row[s].status)
  PROVE  HistoryGapless' /\ Begun' /\ RunTyped' /\ run'.version = run.version + 1
<1> DEFINE new == RowWith(row[s], state[s])
<1>1. row[s] \in WorkflowRun /\ state[s] \in WorkflowState
  BY TypeParts DEF CoreInv, SessionsTyped
<1>2. row[s] = run
  BY FreeMeansCurrent
<1>3. run.version > 0 /\ state[s].fingerprint = run.fingerprint
  BY <1>2 DEF CoreInv, Holding
<1>4. /\ new \in WorkflowRun /\ new.version = run.version + 1
      /\ new.fingerprint = state[s].fingerprint
      /\ new.status = state[s].status /\ new.stage = state[s].stage
      /\ new.human = state[s].human /\ new.approval = state[s].approval
  BY <1>1, <1>2, <1>3, RowWithFields
<1>5. row[s].status \in WorkflowStatus \cup {"none"}
  BY <1>1, <1>2, <1>3 DEF CoreInv, Begun, WorkflowRun
<1>6. run' = new
  BY DEF Record
<1>7. QED
  BY <1>1, <1>4, <1>5, <1>6, RecordGapless

\* FailCommit preserves the core.
LEMMA FailCommitCore ==
  ASSUME CoreInv, NEW s \in Sessions, FailCommit(s)
  PROVE  CoreInv'
<1>1. SessionsTyped /\ RestTyped /\ pc[s] = "failCommit" /\ Finish(s)
  BY TypeParts DEF CoreInv, FailCommit
<1>2. RestTyped'
  BY <1>1 DEF FailCommit, RestTyped
<1>3. SessionsTyped' /\ OthersStay(s) /\ Holding(s)'
  BY <1>1, FinishTyped, FinishHolds
<1>4. CASE UNCHANGED <<run, checkpoints, events>>
  BY <1>2, <1>3, <1>4, QuietHistory, CorePieces
<1>5. CASE /\ VersionFree(row[s].version)
           /\ Record(RowWith(row[s], state[s]), state[s], "failure", row[s].status)
  BY <1>1, <1>2, <1>3, <1>5, RecordHeld, CorePieces DEF Kinds
<1>6. QED
  BY <1>4, <1>5 DEF FailCommit

\* RetryLoad preserves the core.
LEMMA RetryLoadCore ==
  ASSUME CoreInv, ConstantsAssumption, NEW s \in Sessions, RetryLoad(s)
  PROVE  CoreInv'
<1>1. SessionsTyped /\ RestTyped /\ run \in WorkflowRun /\ run.version \in Nat
  BY TypeParts DEF CoreInv, RunTyped, WorkflowRun
<1>2. PICK key \in Keys \ UsedKeys :
        req' = [req EXCEPT ![s] = [op |-> "retry", key |-> key, action |-> "retry"]]
  BY DEF RetryLoad
<1>3. PICK other \in OtherTaskOpen :
        state' = [state EXCEPT ![s] = InitialState(other \/ task = "open", Fingerprint)]
  BY DEF RetryLoad
<1>4. InitialState(other \/ task = "open", Fingerprint) \in WorkflowState
  BY InitialStateType DEF ConstantsAssumption, Fingerprint
<1>5. [op |-> "retry", key |-> key, action |-> "retry"] \in Requests
  BY DEF Requests
<1>6. SessionsTyped'
  BY <1>1, <1>2, <1>3, <1>4, <1>5 DEF RetryLoad, SessionsTyped, SessionStep
<1>7. RestTyped'
  BY <1>1 DEF RetryLoad, RestTyped, dbVars
<1>8. UNCHANGED <<run, checkpoints, events>>
  BY DEF RetryLoad, dbVars
<1>9. OthersStay(s)
  BY <1>1, <1>2, <1>3 DEF RetryLoad, SessionsTyped, OthersStay
<1>10. Holding(s)'
  <2>1. /\ pc'[s] = "retryCreate" /\ row'[s] = run
        /\ req'[s].op = "retry" /\ req'[s].key \in Keys
        /\ state'[s].status = "created" /\ state'[s].stage = "created"
    BY <1>1, <1>2, <1>3 DEF RetryLoad, SessionsTyped, InitialState
  <2>2. run.version > 0
    BY <1>1 DEF RetryLoad, CoreInv, Begun
  <2>3. QED
    BY <1>1, <1>8, <2>1, <2>2 DEF Holding
<1>11. QED
  BY <1>6, <1>7, <1>8, <1>9, <1>10, QuietHistory, CorePieces

\* RetryCreate preserves the core.
LEMMA RetryCreateCore ==
  ASSUME CoreInv, NEW s \in Sessions, RetryCreate(s)
  PROVE  CoreInv'
<1> DEFINE retried == [row[s] EXCEPT !.retryCount = @ + 1,
                                     !.fingerprint = state[s].fingerprint]
           new == RowWith(retried, state[s])
           answer == [key |-> req[s].key, action |-> "retry", expected |-> row[s].version,
                      docs |-> state[s].fingerprint]
<1>1. /\ SessionsTyped /\ RestTyped /\ row[s] \in WorkflowRun /\ state[s] \in WorkflowState
      /\ pc[s] = "retryCreate"
  BY TypeParts DEF CoreInv, SessionsTyped, RetryCreate
<1>2. CASE Finish(s) /\ UNCHANGED <<run, checkpoints, events, actions>>
  <2>1. RestTyped'
    BY <1>1, <1>2 DEF RetryCreate, RestTyped
  <2>2. QED
    BY <1>1, <1>2, <2>1, FinishTyped, FinishHolds, QuietHistory, CorePieces
<1>3. CASE /\ VersionFree(row[s].version)
           /\ Record(new, state[s], "retry", row[s].status)
           /\ actions' = actions \cup {answer}
           /\ Continue(s, new, state[s])
           /\ UNCHANGED <<req, seen>>
  <2>1. row[s] = run
    BY <1>1, <1>3, FreeMeansCurrent
  <2>2. /\ run.version > 0 /\ run.version \in Nat
        /\ req[s].op = "retry" /\ req[s].key \in Keys
    BY <1>1, <2>1 DEF CoreInv, Holding, WorkflowRun
  <2>3. /\ retried \in WorkflowRun /\ retried.version = run.version
        /\ retried.fingerprint = state[s].fingerprint
    BY <1>1, <2>1, RetriedFields DEF WorkflowState
  <2>4. answer \in ActionRow
    BY <1>1, <2>2 DEF ActionRow, WorkflowRun, WorkflowState
  <2> HIDE DEF retried, answer
  <2>5. /\ new \in WorkflowRun /\ new.version = run.version + 1
        /\ new.fingerprint = state[s].fingerprint
        /\ new.status = state[s].status /\ new.stage = state[s].stage
        /\ new.human = state[s].human /\ new.approval = state[s].approval
    BY <1>1, <2>3, RowWithFields
  <2>6. row[s].status \in WorkflowStatus \cup {"none"}
    BY <1>1, <2>1, <2>2 DEF CoreInv, Begun, WorkflowRun
  <2> HIDE DEF new
  <2>7. HistoryGapless' /\ Begun' /\ RunTyped'
    BY <1>1, <1>3, <2>2, <2>5, <2>6, RecordGapless DEF Kinds
  <2>8. run' = new
    BY <1>3 DEF Record
  <2>9. SessionsTyped'
    BY <1>1, <1>3, <2>5, ContinueTyped
  <2>10. OthersStay(s) /\ Holding(s)'
    BY <1>1, <1>3, <2>2, <2>5, <2>8, ContinueHolds
  <2>11. RestTyped'
    BY <1>1, <1>3, <2>4 DEF RetryCreate, RestTyped
  <2>12. QED
    BY <2>5, <2>7, <2>8, <2>9, <2>10, <2>11, CorePieces
<1>4. QED
  BY <1>2, <1>3 DEF RetryCreate

\* ReviewCheck preserves the core.
LEMMA ReviewCheckCore ==
  ASSUME CoreInv, ConstantsAssumption, NEW s \in Sessions, ReviewCheck(s)
  PROVE  CoreInv'
<1>1. SessionsTyped /\ RestTyped /\ run \in WorkflowRun /\ run.version \in Nat
  BY TypeParts DEF CoreInv, RunTyped, WorkflowRun
<1>2. PICK key \in Keys \ UsedKeys, action \in ReviewActions :
        req' = [req EXCEPT ![s] = [op |-> "review", key |-> key, action |-> action]]
  BY DEF ReviewCheck
<1>3. Fingerprint \in SUBSET Docs /\ Fingerprint = run.fingerprint
  BY DEF ReviewCheck, StillFresh, Fingerprint
<1>4. state' = [state EXCEPT ![s].fingerprint = Fingerprint]
  BY DEF ReviewCheck
<1>5. [op |-> "review", key |-> key, action |-> action] \in Requests
  BY DEF Requests, ConstantsAssumption
<1>6. state' \in [Sessions -> WorkflowState] /\ state'[s].fingerprint = Fingerprint
  <2>1. state[s] \in WorkflowState
    BY <1>1 DEF SessionsTyped
  <2>2. LET g == [state[s] EXCEPT !.fingerprint = Fingerprint]
        IN  g \in WorkflowState /\ g.fingerprint = Fingerprint
    BY <1>3, <2>1 DEF WorkflowState
  <2>3. QED
    BY <1>1, <1>4, <2>2 DEF SessionsTyped
<1>7. SessionsTyped'
  BY <1>1, <1>2, <1>5, <1>6 DEF ReviewCheck, SessionsTyped, SessionStep
<1>8. RestTyped'
  BY <1>1 DEF ReviewCheck, RestTyped, dbVars
<1>9. UNCHANGED <<run, checkpoints, events>>
  BY DEF ReviewCheck, dbVars
<1>10. OthersStay(s)
  BY <1>1, <1>2, <1>4 DEF ReviewCheck, SessionsTyped, OthersStay
<1>11. Holding(s)'
  <2>1. /\ pc'[s] = "reviewApply" /\ row'[s] = run
        /\ req'[s].key \in Keys /\ req'[s].action \in AllReviewActions
    BY <1>1, <1>2 DEF ReviewCheck, SessionsTyped, ConstantsAssumption
  <2>2. run.version > 0
    BY <1>1 DEF ReviewCheck, CoreInv, Begun
  <2>3. QED
    BY <1>1, <1>3, <1>6, <1>9, <2>1, <2>2 DEF Holding
<1>12. QED
  BY <1>7, <1>8, <1>9, <1>10, <1>11, QuietHistory, CorePieces

\* The state a decision records.
Decided(action) ==
  LET new == IF action \in TerminalActions THEN "completed"
             ELSE "awaiting_additional_information"
  IN  [LatestState EXCEPT !.status = new, !.stage = new, !.approval = ApprovalOf[action]]

\* What a review records of the latest checkpoint.
LEMMA DecidedType ==
  ASSUME CoreInv, run.version > 0, NEW action \in AllReviewActions
  PROVE  /\ Decided(action) \in WorkflowState
         /\ Decided(action).fingerprint = run.fingerprint
         /\ Decided(action).status = (IF action \in TerminalActions THEN "completed"
                                      ELSE "awaiting_additional_information")
<1> DEFINE new == IF action \in TerminalActions THEN "completed"
                  ELSE "awaiting_additional_information"
<1>1. new \in WorkflowStatus /\ new \in WorkflowStage
  BY DEF WorkflowStatus, WorkflowStage, SettledStatus
<1>2. ApprovalOf[action] \in ApprovalState
  BY DEF ApprovalOf, ApprovalState, AllReviewActions, TerminalActions
<1>3. LatestState \in WorkflowState /\ LatestState.fingerprint = run.fingerprint
  BY LatestTyped
<1> HIDE DEF new
<1>4. /\ [LatestState EXCEPT !.status = new, !.stage = new, !.approval = ApprovalOf[action]]
           \in WorkflowState
      /\ [LatestState EXCEPT !.status = new, !.stage = new,
                             !.approval = ApprovalOf[action]].fingerprint = run.fingerprint
      /\ [LatestState EXCEPT !.status = new, !.stage = new,
                             !.approval = ApprovalOf[action]].status = new
  BY <1>1, <1>2, <1>3 DEF WorkflowState
<1>5. QED
  BY <1>4 DEF Decided, new

\* ReviewApply preserves the core.
LEMMA ReviewApplyCore ==
  ASSUME CoreInv, NEW s \in Sessions, ReviewApply(s)
  PROVE  CoreInv'
<1> DEFINE action == req[s].action
           g == Decided(action)
           new == RowWith(run, g)
           answer == [key |-> req[s].key, action |-> action, expected |-> row[s].version,
                      docs |-> state[s].fingerprint]
<1>1. /\ SessionsTyped /\ RestTyped /\ row[s] \in WorkflowRun /\ state[s] \in WorkflowState
      /\ run \in WorkflowRun /\ run.version \in Nat
      /\ pc[s] = "reviewApply" /\ Finish(s)
  BY TypeParts DEF CoreInv, RunTyped, WorkflowRun, SessionsTyped, ReviewApply
<1>2. SessionsTyped' /\ OthersStay(s) /\ Holding(s)'
  BY <1>1, FinishTyped, FinishHolds
<1>3. CASE UNCHANGED <<run, checkpoints, events, actions, task>>
  <2>1. RestTyped'
    BY <1>1, <1>3 DEF ReviewApply, RestTyped
  <2>2. QED
    BY <1>2, <1>3, <2>1, QuietHistory, CorePieces
<1>4. CASE /\ Record(new, g, "review", "awaiting_human_review")
           /\ actions' = actions \cup {answer}
           /\ task' = TaskAfterReview(action)
  <2>1. run.version > 0 /\ req[s].key \in Keys /\ action \in AllReviewActions
    BY <1>1 DEF CoreInv, Holding
  <2>2. answer \in ActionRow
    BY <1>1, <2>1 DEF ActionRow, WorkflowRun, WorkflowState
  <2>3. g \in WorkflowState /\ g.fingerprint = run.fingerprint
    BY <2>1, DecidedType
  <2>4. RestTyped'
    BY <1>1, <1>4, <2>2 DEF ReviewApply, RestTyped, TaskAfterReview
  <2> HIDE DEF answer, g
  <2>5. /\ new \in WorkflowRun /\ new.version = run.version + 1
        /\ new.fingerprint = g.fingerprint
        /\ new.status = g.status /\ new.stage = g.stage
        /\ new.human = g.human /\ new.approval = g.approval
    BY <1>1, <2>3, RowWithFields
  <2>6. HistoryGapless' /\ Begun' /\ RunTyped'
    <3>1. "review" \in Kinds /\ "awaiting_human_review" \in WorkflowStatus \cup {"none"}
      BY DEF Kinds, WorkflowStatus, SettledStatus
    <3> HIDE DEF new
    <3>2. QED
      BY <1>4, <2>3, <2>5, <3>1, RecordGapless
  <2>7. run' = new
    BY <1>4 DEF Record
  <2>8. QED
    BY <1>2, <2>4, <2>5, <2>6, <2>7, CorePieces
<1>5. QED
  BY <1>3, <1>4 DEF ReviewApply, Decided

\* CancelLoad preserves the core.
LEMMA CancelLoadCore ==
  ASSUME CoreInv, NEW s \in Sessions, CancelLoad(s)
  PROVE  CoreInv'
<1> DEFINE g == [LatestState EXCEPT !.stage = "cancelled", !.status = "cancelled",
                                    !.approval = "cancelled"]
<1>1. SessionsTyped /\ RestTyped /\ run \in WorkflowRun /\ run.version \in Nat
  BY TypeParts DEF CoreInv, RunTyped, WorkflowRun
<1>2. run.version > 0
  BY <1>1 DEF CancelLoad, Cancellable, CoreInv, Begun
<1>3. /\ g \in WorkflowState /\ g.status = "cancelled"
      /\ g.fingerprint = run.fingerprint
  BY <1>2, LatestTyped
  DEF WorkflowState, WorkflowStage, WorkflowStatus, SettledStatus, ApprovalState
<1>4. state' = [state EXCEPT ![s] = g]
  BY DEF CancelLoad
<1> HIDE DEF g
<1>5. [NoRequest EXCEPT !.op = "cancel"] \in Requests
  BY DEF NoRequest, Requests
<1>6. SessionsTyped' /\ OthersStay(s)
  BY <1>1, <1>3, <1>4, <1>5 DEF CancelLoad, SessionsTyped, SessionStep, OthersStay
<1>7. RestTyped'
  BY <1>1 DEF CancelLoad, RestTyped, dbVars
<1>8. UNCHANGED <<run, checkpoints, events>>
  BY DEF CancelLoad, dbVars
<1>9. Holding(s)'
  <2>1. pc'[s] = "cancelPersist" /\ state'[s] = g /\ row'[s] = run
    BY <1>1, <1>4 DEF CancelLoad, SessionsTyped
  <2>2. QED
    BY <1>1, <1>2, <1>3, <1>8, <2>1 DEF Holding
<1>10. QED
  BY <1>6, <1>7, <1>8, <1>9, QuietHistory, CorePieces

\* CancelPersist preserves the core.
LEMMA CancelPersistCore ==
  ASSUME CoreInv, NEW s \in Sessions, CancelPersist(s)
  PROVE  CoreInv'
<1>1. SessionsTyped /\ RestTyped /\ pc[s] = "cancelPersist"
  BY TypeParts DEF CoreInv, CancelPersist
<1>2. RestTyped'
  BY <1>1 DEF CancelPersist, RestTyped
<1>3. CASE Finish(s) /\ UNCHANGED <<run, checkpoints, events>>
  BY <1>1, <1>2, <1>3, FinishTyped, FinishHolds, QuietHistory, CorePieces
<1>4. CASE /\ VersionFree(row[s].version)
           /\ Record(RowWith(row[s], state[s]), state[s], "cancel", row[s].status)
           /\ pc' = [pc EXCEPT ![s] = "cancelTask"]
           /\ UNCHANGED <<req, row, state, seen>>
  <2>1. HistoryGapless' /\ Begun' /\ RunTyped' /\ run'.version = run.version + 1
    BY <1>1, <1>4, RecordHeld DEF Kinds
  <2>2. SessionsTyped' /\ OthersStay(s) /\ pc'[s] = "cancelTask" /\ row' = row
    BY <1>1, <1>4 DEF SessionsTyped, SessionStep, OthersStay
  <2>3. Holding(s)'
    <3>1. row[s].version \in 1..run.version /\ row[s].version \in Nat /\ run.version \in Nat
      BY <1>1, TypeParts DEF CoreInv, Holding, RunTyped, SessionsTyped, WorkflowRun
    <3>2. QED
      BY <2>1, <2>2, <3>1 DEF Holding
  <2>4. QED
    BY <1>2, <2>1, <2>2, <2>3, CorePieces
<1>5. QED
  BY <1>3, <1>4 DEF CancelPersist

\* CancelTask preserves the core.
LEMMA CancelTaskCore ==
  ASSUME CoreInv, NEW s \in Sessions, CancelTask(s)
  PROVE  CoreInv'
<1>1. SessionsTyped /\ RestTyped /\ Finish(s)
  BY TypeParts DEF CoreInv, CancelTask
<1>2. RestTyped'
  BY <1>1 DEF CancelTask, RestTyped
<1>3. UNCHANGED <<run, checkpoints, events>>
  BY DEF CancelTask
<1>4. QED
  BY <1>1, <1>2, <1>3, FinishTyped, FinishHolds, QuietHistory, CorePieces

\* Crash preserves the core.
LEMMA CrashCore ==
  ASSUME CoreInv, NEW s \in Sessions, Crash(s)
  PROVE  CoreInv'
<1>1. SessionsTyped /\ RestTyped /\ Finish(s)
  BY TypeParts DEF CoreInv, Crash
<1>2. RestTyped'
  BY <1>1 DEF Crash, RestTyped, dbVars
<1>3. UNCHANGED <<run, checkpoints, events>>
  BY DEF Crash, dbVars
<1>4. QED
  BY <1>1, <1>2, <1>3, FinishTyped, FinishHolds, QuietHistory, CorePieces

\* A step that leaves the database and the sessions alone.
LEMMA IdleStepCore ==
  ASSUME CoreInv, RestTyped', UNCHANGED <<run, checkpoints, events>>, UNCHANGED sessionVars
  PROVE  CoreInv'
<1>1. RunTyped' /\ HistoryGapless' /\ Begun'
  BY QuietHistory
<1>2. SessionsTyped'
  BY TypeParts DEF CoreInv, SessionsTyped, sessionVars
<1>3. TypeOK'
  BY <1>1, <1>2, TypeParts, PTL
<1>4. \A s \in Sessions : Holding(s)'
  BY DEF CoreInv, Holding, sessionVars
<1>5. QED
  BY <1>1, <1>3, <1>4 DEF CoreInv

\* Document preserves the core.
LEMMA DocumentCore ==
  ASSUME CoreInv, NEW d \in Docs, DocumentStored(d) \/ DocumentReady(d)
  PROVE  CoreInv'
<1>1. RestTyped'
  BY TypeParts DEF CoreInv, DocumentStored, DocumentReady, RestTyped, dbVars
<1>2. UNCHANGED <<run, checkpoints, events>> /\ UNCHANGED sessionVars
  BY DEF DocumentStored, DocumentReady, dbVars
<1>3. QED
  BY <1>1, <1>2, IdleStepCore

\* The core holds of a workflow nobody asked for yet.
LEMMA CoreInit == Init => CoreInv
<1> SUFFICES ASSUME Init PROVE CoreInv
  OBVIOUS
<1>1. RunTyped
  BY NothingTyped DEF Init, RunTyped
<1>2. RestTyped
  BY DEF Init, RestTyped
<1>3. SessionsTyped
  BY NothingTyped DEF Init, SessionsTyped, SessionStep
<1>4. HistoryGapless /\ Begun
  BY DEF Init, NoRun, HistoryGapless, Begun
<1>5. \A s \in Sessions : Holding(s)
  BY DEF Init, Holding
<1>6. QED
  BY <1>1, <1>2, <1>3, <1>4, <1>5, TypeParts DEF CoreInv

\* Every step preserves the core.
LEMMA CoreStep == CoreInv /\ [Next]_vars => CoreInv'
<1> SUFFICES ASSUME CoreInv, [Next]_vars PROVE CoreInv'
  OBVIOUS
<1>1. ASSUME NEW s \in Sessions, Request(s) PROVE CoreInv'
  BY <1>1, ConstantsAssumption, StartReadCore, RetryLoadCore, ReviewCheckCore, CancelLoadCore
  DEF Request
<1>2. ASSUME NEW s \in Sessions, Serve(s) PROVE CoreInv'
  BY <1>2, ConstantsAssumption, StartCreateCore, PersistStageCore, RetrieveCore,
     NodeFailureCore, TailReadCore, TailCommitCore, FailLoadCore, FailCommitCore,
     RetryCreateCore, ReviewApplyCore, CancelPersistCore, CancelTaskCore
  DEF Serve
<1>3. ASSUME NEW s \in Sessions, Crash(s) PROVE CoreInv'
  BY <1>3, CrashCore
<1>4. ASSUME NEW d \in Docs, DocumentStored(d) \/ DocumentReady(d) PROVE CoreInv'
  BY <1>4, DocumentCore
<1>5. CASE UNCHANGED vars
  <2>1. UNCHANGED <<run, checkpoints, events>> /\ UNCHANGED sessionVars
    BY <1>5 DEF vars, sessionVars
  <2>2. RestTyped'
    BY <1>5, TypeParts DEF CoreInv, RestTyped, vars
  <2>3. QED
    BY <2>1, <2>2, IdleStepCore
<1>6. QED
  BY <1>1, <1>2, <1>3, <1>4, <1>5 DEF Next

\* The core is invariant: whatever the number of concurrent requests, a
\* session's copy of the run is stale or the run itself.
THEOREM CoreInvariance == Spec => []CoreInv
<1>1. QED
  BY CoreInit, CoreStep, PTL DEF Spec

\* Every variable keeps its type.
THEOREM TypeCorrectness == Spec => []TypeOK
<1>1. CoreInv => TypeOK
  BY DEF CoreInv
<1>2. QED
  BY <1>1, CoreInvariance, PTL

\* The history of a run has one checkpoint and one event per version and its
\* row is what the latest checkpoint says (_persist, review, cancel).
THEOREM HistoryIsGapless == Spec => []HistoryGapless
<1>1. CoreInv => HistoryGapless
  BY DEF CoreInv
<1>2. QED
  BY <1>1, CoreInvariance, PTL
=============================================================================
