---------------------- MODULE ControlledWorkflowSafety ----------------------
(***************************************************************************)
(* Proofs of the safety properties of ControlledWorkflow that the runs     *)
(* check, on top of the core invariant: every recording step is one of six *)
(* transitions of the run itself, whatever copies the other sessions hold. *)
(***************************************************************************)
EXTENDS ControlledWorkflowProofs, FiniteSetTheorems

-----------------------------------------------------------------------------
(* The six transitions *)

\* start creates the run.
Begins(s) ==
  /\ pc[s] = "startCreate"
  /\ run.status = "absent"
  /\ LET new == RowWith([NoRun EXCEPT !.fingerprint = state[s].fingerprint], state[s])
     IN  /\ Record(new, state[s], "start", "none")
         /\ Continue(s, new, state[s])
  /\ UNCHANGED <<req, actions, task>>

\* The graph of a start or retry reaches its next stage.
Advances(s) ==
  /\ pc[s] = "persist"
  /\ row[s] = run
  /\ Record(RowWith(run, state[s]), state[s], req[s].op, run.status)
  /\ Continue(s, RowWith(run, state[s]), state[s])
  /\ UNCHANGED <<req, actions, task>>

\* The handler of start records its failure.
Fails(s) ==
  /\ pc[s] = "failCommit"
  /\ row[s] = run
  /\ Record(RowWith(run, state[s]), state[s], "failure", run.status)
  /\ Finish(s)
  /\ UNCHANGED <<actions, task>>

\* A retry begins.
Retries(s) ==
  /\ pc[s] = "retryCreate"
  /\ row[s] = run
  /\ req[s].key \notin UsedKeys
  /\ LET retried == [run EXCEPT !.retryCount = @ + 1, !.fingerprint = state[s].fingerprint]
         new == RowWith(retried, state[s])
     IN  /\ Record(new, state[s], "retry", run.status)
         /\ Continue(s, new, state[s])
  /\ actions' = actions \cup
       {[key |-> req[s].key, action |-> "retry", expected |-> run.version,
         docs |-> state[s].fingerprint]}
  /\ UNCHANGED <<req, task>>

\* A human decides.
Decides(s) ==
  /\ pc[s] = "reviewApply"
  /\ row[s] = run
  /\ run.status = "awaiting_human_review"
  /\ req[s].key \notin UsedKeys
  /\ Record(RowWith(run, Decided(req[s].action)), Decided(req[s].action), "review", run.status)
  /\ actions' = actions \cup
       {[key |-> req[s].key, action |-> req[s].action, expected |-> run.version,
         docs |-> state[s].fingerprint]}
  /\ task' = TaskAfterReview(req[s].action)
  /\ Finish(s)

\* A cancellation takes effect.
Cancels(s) ==
  /\ pc[s] = "cancelPersist"
  /\ row[s] = run
  /\ Record(RowWith(run, state[s]), state[s], "cancel", run.status)
  /\ pc' = [pc EXCEPT ![s] = "cancelTask"]
  /\ UNCHANGED <<req, row, state, actions, task>>

Transition(s) ==
  Begins(s) \/ Advances(s) \/ Fails(s) \/ Retries(s) \/ Decides(s) \/ Cancels(s)

Quiet == UNCHANGED <<run, checkpoints, events, actions>>

\* A request's step records nothing or is one of the six.
LEMMA SessionStepKind ==
  ASSUME CoreInv, NEW s \in Sessions, Request(s) \/ Serve(s) \/ Crash(s)
  PROVE  Quiet \/ Transition(s)
<1>1. ASSUME Request(s) PROVE Quiet
  BY <1>1 DEF Request, StartRead, RetryLoad, ReviewCheck, CancelLoad, Quiet, dbVars
<1>2. ASSUME Retrieve(s) \/ NodeFailure(s) \/ TailRead(s) \/ TailCommit(s) \/ FailLoad(s)
             \/ CancelTask(s) \/ Crash(s)
      PROVE  Quiet
  BY <1>2 DEF Retrieve, NodeFailure, TailRead, TailCommit, FailLoad, CancelTask, Crash,
              Quiet, dbVars
<1>3. ASSUME StartCreate(s) PROVE Quiet \/ Begins(s)
  BY <1>3 DEF StartCreate, Begins, Quiet
<1>4. ASSUME PersistStage(s) PROVE Quiet \/ Advances(s)
  BY <1>4, FreeMeansCurrent DEF PersistStage, Advances, Quiet
<1>5. ASSUME FailCommit(s) PROVE Quiet \/ Fails(s)
  BY <1>5, FreeMeansCurrent DEF FailCommit, Fails, Quiet
<1>6. ASSUME RetryCreate(s) PROVE Quiet \/ Retries(s)
  BY <1>6, FreeMeansCurrent DEF RetryCreate, Retries, Quiet
<1>7. ASSUME ReviewApply(s) PROVE Quiet \/ Decides(s)
  <2>1. ASSUME ReviewMatches(s) PROVE row[s] = run
    BY <1>7, <2>1 DEF ReviewApply, ReviewMatches, CoreInv, Holding
  <2>2. QED
    BY <1>7, <2>1 DEF ReviewApply, ReviewMatches, Decides, Decided, Quiet
<1>8. ASSUME CancelPersist(s) PROVE Quiet \/ Cancels(s)
  BY <1>8, FreeMeansCurrent DEF CancelPersist, Cancels, Quiet
<1>9. QED
  BY <1>1, <1>2, <1>3, <1>4, <1>5, <1>6, <1>7, <1>8 DEF Serve, Transition

\* Every step records nothing or is one of the six transitions.
LEMMA StepKind ==
  ASSUME CoreInv, [Next]_vars
  PROVE  Quiet \/ \E s \in Sessions : Transition(s)
<1>1. ASSUME NEW d \in Docs, DocumentStored(d) \/ DocumentReady(d) PROVE Quiet
  BY <1>1 DEF DocumentStored, DocumentReady, Quiet, dbVars
<1>2. CASE UNCHANGED vars
  BY <1>2 DEF vars, Quiet
<1>3. QED
  BY <1>1, <1>2, SessionStepKind DEF Next

\* What the session of a transition holds.
LEMMA TransitionTyped ==
  ASSUME CoreInv, NEW s \in Sessions
  PROVE  /\ run \in WorkflowRun /\ run.version \in Nat
         /\ row[s] \in WorkflowRun /\ state[s] \in WorkflowState
         /\ DOMAIN checkpoints = 1..run.version
         /\ \A v \in DOMAIN checkpoints : checkpoints[v] \in WorkflowState
         /\ events \in Seq(EventRow) /\ Len(events) = run.version
         /\ actions \subseteq ActionRow
         /\ pc \in [Sessions -> SessionStep]
  BY TypeParts DEF CoreInv, RunTyped, RestTyped, SessionsTyped, HistoryGapless, WorkflowRun

\* The row and the state each transition records.
LEMMA BeginsRow ==
  ASSUME CoreInv, NEW s \in Sessions, Begins(s)
  PROVE  LET r == RowWith([NoRun EXCEPT !.fingerprint = state[s].fingerprint], state[s])
         IN  /\ r \in WorkflowRun /\ r.version = run.version + 1 /\ run.version = 0
             /\ r.status = state[s].status /\ r.stage = state[s].stage
             /\ r.human = state[s].human /\ r.retryCount = 0
             /\ run' = r
<1> DEFINE fresh == [NoRun EXCEPT !.fingerprint = state[s].fingerprint]
<1>1. state[s] \in WorkflowState
  BY TransitionTyped
<1>2. fresh \in WorkflowRun /\ fresh.version = 0 /\ fresh.retryCount = 0
  BY <1>1, NothingTyped DEF WorkflowRun, NoRun, WorkflowState
<1>3. run.version = 0
  BY DEF Begins, CoreInv, Begun
<1>4. run' = RowWith(fresh, state[s])
  BY DEF Begins, Record
<1> HIDE DEF fresh
<1>5. /\ RowWith(fresh, state[s]) \in WorkflowRun
      /\ RowWith(fresh, state[s]).version = run.version + 1
      /\ RowWith(fresh, state[s]).status = state[s].status
      /\ RowWith(fresh, state[s]).stage = state[s].stage
      /\ RowWith(fresh, state[s]).human = state[s].human
      /\ RowWith(fresh, state[s]).retryCount = 0
  BY <1>1, <1>2, <1>3, RowWithFields
<1>6. QED
  BY <1>3, <1>4, <1>5 DEF fresh

\* The row a retry records.
LEMMA RetriesRow ==
  ASSUME CoreInv, NEW s \in Sessions, Retries(s)
  PROVE  LET r == RowWith([run EXCEPT !.retryCount = @ + 1,
                                      !.fingerprint = state[s].fingerprint], state[s])
         IN  /\ r \in WorkflowRun /\ r.version = run.version + 1 /\ run.version > 0
             /\ r.status = state[s].status /\ r.stage = state[s].stage
             /\ r.human = state[s].human /\ r.retryCount = run.retryCount + 1
             /\ run' = r
<1> DEFINE retried == [run EXCEPT !.retryCount = @ + 1, !.fingerprint = state[s].fingerprint]
<1>1. run \in WorkflowRun /\ state[s] \in WorkflowState
  BY TransitionTyped
<1>2. /\ retried \in WorkflowRun /\ retried.version = run.version
      /\ retried.retryCount = run.retryCount + 1
  BY <1>1, RetriedFields DEF WorkflowState
<1>3. run.version > 0
  BY DEF Retries, CoreInv, Holding
<1>4. run' = RowWith(retried, state[s])
  BY DEF Retries, Record
<1> HIDE DEF retried
<1>5. /\ RowWith(retried, state[s]) \in WorkflowRun
      /\ RowWith(retried, state[s]).version = run.version + 1
      /\ RowWith(retried, state[s]).status = state[s].status
      /\ RowWith(retried, state[s]).stage = state[s].stage
      /\ RowWith(retried, state[s]).human = state[s].human
      /\ RowWith(retried, state[s]).retryCount = run.retryCount + 1
  BY <1>1, <1>2, RowWithFields
<1>6. QED
  BY <1>3, <1>4, <1>5 DEF retried

\* The row that takes over a state, in the other four transitions.
LEMMA TakenOver ==
  ASSUME CoreInv, NEW g \in WorkflowState, NEW k, NEW p, Record(RowWith(run, g), g, k, p)
  PROVE  /\ run' \in WorkflowRun /\ run'.version = run.version + 1
         /\ run'.status = g.status /\ run'.stage = g.stage /\ run'.human = g.human
         /\ run'.retryCount = run.retryCount
<1>1. run \in WorkflowRun
  BY TypeParts DEF CoreInv, RunTyped
<1>2. QED
  BY <1>1, RowWithFields DEF Record

\* Every transition records one version after the latest, from the status the
\* run has.
LEMMA TransitionRecords ==
  ASSUME CoreInv, NEW s \in Sessions, Transition(s)
  PROVE  \E r \in WorkflowRun, g \in WorkflowState, k \in Kinds :
           /\ r.version = run.version + 1
           /\ Record(r, g, k, IF run.version = 0 THEN "none" ELSE run.status)
<1>1. state[s] \in WorkflowState
  BY TransitionTyped
<1>2. CASE Begins(s)
  <2> DEFINE new == RowWith([NoRun EXCEPT !.fingerprint = state[s].fingerprint], state[s])
  <2>1. new \in WorkflowRun /\ new.version = run.version + 1 /\ run.version = 0
    BY <1>2, BeginsRow
  <2>2. Record(new, state[s], "start", "none")
    BY <1>2 DEF Begins
  <2> HIDE DEF new
  <2>3. "start" \in Kinds
    BY DEF Kinds
  <2>4. Record(new, state[s], "start", IF run.version = 0 THEN "none" ELSE run.status)
    BY <2>1, <2>2
  <2>5. QED
    BY <1>1, <2>1, <2>3, <2>4
<1>3. CASE Retries(s)
  <2> DEFINE new == RowWith([run EXCEPT !.retryCount = @ + 1,
                                        !.fingerprint = state[s].fingerprint], state[s])
  <2>1. new \in WorkflowRun /\ new.version = run.version + 1 /\ run.version > 0
    BY <1>3, RetriesRow
  <2>2. Record(new, state[s], "retry", run.status)
    BY <1>3 DEF Retries
  <2> HIDE DEF new
  <2>3. "retry" \in Kinds
    BY DEF Kinds
  <2>4. Record(new, state[s], "retry", IF run.version = 0 THEN "none" ELSE run.status)
    BY <2>1, <2>2
  <2>5. QED
    BY <1>1, <2>1, <2>3, <2>4
<1>4. CASE Advances(s)
  <2>1. run.version > 0 /\ req[s].op \in Kinds
    BY <1>4 DEF Advances, CoreInv, Holding, Kinds
  <2>2. Record(RowWith(run, state[s]), state[s], req[s].op, run.status)
    BY <1>4 DEF Advances
  <2>3. RowWith(run, state[s]) \in WorkflowRun /\ RowWith(run, state[s]).version = run.version + 1
    BY <1>1, TransitionTyped, RowWithFields
  <2>4. QED
    BY <1>1, <2>1, <2>2, <2>3
<1>5. CASE Fails(s)
  <2>1. run.version > 0
    BY <1>5 DEF Fails, CoreInv, Holding
  <2>2. Record(RowWith(run, state[s]), state[s], "failure", run.status)
    BY <1>5 DEF Fails
  <2>3. RowWith(run, state[s]) \in WorkflowRun /\ RowWith(run, state[s]).version = run.version + 1
    BY <1>1, TransitionTyped, RowWithFields
  <2>4. QED
    BY <1>1, <2>1, <2>2, <2>3 DEF Kinds
<1>6. CASE Cancels(s)
  <2>1. run.version > 0
    BY <1>6 DEF Cancels, CoreInv, Holding
  <2>2. Record(RowWith(run, state[s]), state[s], "cancel", run.status)
    BY <1>6 DEF Cancels
  <2>3. RowWith(run, state[s]) \in WorkflowRun /\ RowWith(run, state[s]).version = run.version + 1
    BY <1>1, TransitionTyped, RowWithFields
  <2>4. QED
    BY <1>1, <2>1, <2>2, <2>3 DEF Kinds
<1>7. CASE Decides(s)
  <2> DEFINE g == Decided(req[s].action)
  <2>1. run.version > 0 /\ g \in WorkflowState
    BY <1>7, DecidedType DEF Decides, CoreInv, Holding
  <2>2. Record(RowWith(run, g), g, "review", run.status)
    BY <1>7 DEF Decides
  <2>3. RowWith(run, g) \in WorkflowRun /\ RowWith(run, g).version = run.version + 1
    BY <2>1, TransitionTyped, RowWithFields
  <2>4. QED
    BY <2>1, <2>2, <2>3 DEF Kinds
<1>8. QED
  BY <1>2, <1>3, <1>4, <1>5, <1>6, <1>7 DEF Transition

\* No step rewrites a recorded checkpoint or event.
LEMMA HistoryKept ==
  ASSUME CoreInv, [Next]_vars
  PROVE  /\ \A v \in DOMAIN checkpoints :
              v \in DOMAIN checkpoints' /\ checkpoints'[v] = checkpoints[v]
         /\ \A n \in 1..Len(events) : events'[n] = events[n]
         /\ run'.version \in {run.version, run.version + 1}
<1>1. CASE Quiet
  BY <1>1 DEF Quiet
<1>2. ASSUME NEW s \in Sessions, Transition(s) PROVE
        /\ \A v \in DOMAIN checkpoints :
             v \in DOMAIN checkpoints' /\ checkpoints'[v] = checkpoints[v]
        /\ \A n \in 1..Len(events) : events'[n] = events[n]
        /\ run'.version = run.version + 1
  <2>1. PICK r \in WorkflowRun, g \in WorkflowState, k \in Kinds :
          /\ r.version = run.version + 1
          /\ Record(r, g, k, IF run.version = 0 THEN "none" ELSE run.status)
    BY <1>2, TransitionRecords
  <2>2. /\ run.version \in Nat /\ DOMAIN checkpoints = 1..run.version
        /\ events \in Seq(EventRow)
    BY TransitionTyped
  <2>3. QED
    BY <2>1, <2>2 DEF Record
<1>3. QED
  BY <1>1, <1>2, StepKind

-----------------------------------------------------------------------------
(* Events link up *)

\* A recording step links its event to the one before.
LEMMA LinkedStep ==
  ASSUME CoreInv, HistoryLinked, NEW s \in Sessions, Transition(s)
  PROVE  HistoryLinked'
<1> DEFINE p == IF run.version = 0 THEN "none" ELSE run.status
<1>1. PICK r \in WorkflowRun, g \in WorkflowState, k \in Kinds :
        r.version = run.version + 1 /\ Record(r, g, k, p)
  BY TransitionRecords
<1>2. /\ run.version \in Nat /\ DOMAIN checkpoints = 1..run.version
      /\ events \in Seq(EventRow) /\ Len(events) = run.version
  BY TransitionTyped
<1>3. run.version > 0 => events[run.version].new = run.status
  BY <1>2 DEF HistoryLinked, CoreInv, HistoryGapless, LatestState
<1> DEFINE e == [kind |-> k, previous |-> p, new |-> g.status]
<1>4. /\ events' = Append(events, e) /\ Len(events') = run.version + 1
      /\ events'[run.version + 1] = e
      /\ \A n \in 1..run.version : events'[n] = events[n]
  BY <1>1, <1>2 DEF Record
<1>5. /\ checkpoints'[run.version + 1] = g
      /\ \A v \in 1..run.version : v \in DOMAIN checkpoints' => checkpoints'[v] = checkpoints[v]
  BY <1>1, <1>2 DEF Record
<1>6. ASSUME NEW n \in 1..Len(events')
      PROVE  /\ n \in DOMAIN checkpoints' => events'[n].new = checkpoints'[n].status
             /\ events'[n].previous = IF n = 1 THEN "none" ELSE events'[n - 1].new
  <2>1. CASE n = run.version + 1
    BY <1>2, <1>3, <1>4, <1>5, <2>1
  <2>2. CASE n \in 1..run.version
    BY <1>2, <1>4, <1>5, <2>2 DEF HistoryLinked
  <2>3. QED
    BY <1>2, <1>4, <2>1, <2>2
<1>7. QED
  BY <1>6 DEF HistoryLinked

\* Each event starts from the status the event before it led to, whichever
\* requests wrote the two.
THEOREM HistoryIsLinked == Spec => []HistoryLinked
<1>1. Init => HistoryLinked
  BY DEF Init, HistoryLinked
<1>2. CoreInv /\ HistoryLinked /\ [Next]_vars => HistoryLinked'
  <2>1. ASSUME CoreInv, HistoryLinked, [Next]_vars, Quiet PROVE HistoryLinked'
    BY <2>1 DEF Quiet, HistoryLinked
  <2>2. QED
    BY <2>1, StepKind, LinkedStep
<1>3. QED
  BY <1>1, <1>2, CoreInvariance, PTL DEF Spec

-----------------------------------------------------------------------------
(* What a session is about to record *)

\* Some checkpoint waited for a human, or was cancelled.
Reached(status) == \E v \in DOMAIN checkpoints : checkpoints[v].status = status

\* A state the graph leads to: in the middle of the graph, or at its end with
\* the human it calls for.
Staged(g) ==
  \/ /\ g.stage \in {"gathering_evidence", "evaluating_evidence",
                     "determining_review_requirements"}
     /\ g.status \in ProcessingStatus \ {"created"}
  \/ /\ g.stage = g.status
     /\ g.status = IF g.human THEN "awaiting_human_review" ELSE "completed"
     /\ g.flagged => g.human

\* The state a session is about to record, and the status its copy of the run
\* has, are those its request is about.
Intent(s) ==
  /\ pc[s] = "retryCreate" =>
       /\ row[s].status \in {"failed", "awaiting_additional_information"}
       /\ row[s].retryCount < MaxRetries
  /\ pc[s] \in {"persist", "retrieve"} => row[s].status \in ProcessingStatus
  /\ pc[s] = "persist" => Staged(state[s])
  /\ pc[s] \in {"tailRead", "tailCommit"} /\ state[s].human => Reached("awaiting_human_review")
  /\ pc[s] = "failCommit" => state[s].status = "failed"
  /\ pc[s] = "cancelPersist" =>
       state[s].status = "cancelled" /\ row[s].status \notin {"completed", "cancelled"}
  /\ pc[s] = "cancelTask" => Reached("cancelled")

AllIntent == \A s \in Sessions : Intent(s)

\* The states the graph leads to.
LEMMA GraphStages ==
  ASSUME NEW g \in WorkflowState, NEW r \in WorkflowRun,
         r.status = g.status, Staged(g) \/ (g.stage = "created" /\ g.status = "created")
  PROVE  LET next == AfterStage(g)
         IN  /\ next[1] \in {"persist", "retrieve"} => r.status \in ProcessingStatus
             /\ next[1] = "persist" => Staged(next[2])
             /\ next[1] = "tailRead" => next[2] = g /\ (g.human => g.status = "awaiting_human_review")
<1>1. CASE g.stage = "created"
  BY <1>1 DEF AfterStage, LoadClaimContext, Staged, WorkflowState, ProcessingStatus
<1>2. CASE g.stage = "gathering_evidence"
  BY <1>2 DEF AfterStage, Staged
<1>3. CASE g.stage = "evaluating_evidence"
  BY <1>3 DEF AfterStage, ValidateProvenance, Staged, WorkflowState
<1>4. CASE g.stage = "determining_review_requirements"
  <2> DEFINE d == DetermineReview(g)
             p == PrepareArtifact(d)
  <2>1. AfterStage(g) = <<"persist", p>>
    BY <1>4 DEF AfterStage
  <2>2. d \in WorkflowState /\ d.flagged = g.flagged /\ d.human = (g.flagged \/ g.human)
    BY DEF DetermineReview, WorkflowState, ApprovalState
  <2>3. d.flagged => d.human
    BY <2>2
  <2> HIDE DEF d
  <2>4. /\ p.human = d.human /\ p.flagged = d.flagged /\ p.stage = p.status
        /\ p.status = IF d.human THEN "awaiting_human_review" ELSE "completed"
    BY <2>2 DEF PrepareArtifact, WorkflowState
  <2>5. Staged(p)
    BY <2>3, <2>4 DEF Staged
  <2>6. r.status \in ProcessingStatus
    BY <1>4 DEF Staged
  <2>7. QED
    BY <2>1, <2>5, <2>6
<1>5. CASE g.stage \notin {"created", "gathering_evidence", "evaluating_evidence",
                           "determining_review_requirements"}
  BY <1>5 DEF AfterStage, Staged
<1>6. QED
  BY <1>1, <1>2, <1>3, <1>4, <1>5

\* What another session is about to record is not disturbed.
LEMMA OthersIntend ==
  ASSUME CoreInv, AllIntent, [Next]_vars, NEW s \in Sessions, OthersStay(s)
  PROVE  \A t \in Sessions \ {s} : Intent(t)'
<1>1. \A status : Reached(status) => Reached(status)'
  BY HistoryKept DEF Reached
<1>2. QED
  BY <1>1 DEF OthersStay, AllIntent, Intent

\* A session that goes on to the graph after recording a state.
LEMMA ContinueIntends ==
  ASSUME CoreInv, NEW s \in Sessions, NEW r \in WorkflowRun, NEW g \in WorkflowState,
         Continue(s, r, g), req' = req, r.status = g.status, g = checkpoints'[r.version],
         r.version \in DOMAIN checkpoints',
         Staged(g) \/ (g.stage = "created" /\ g.status = "created")
  PROVE  OthersStay(s) /\ Intent(s)'
<1>1. SessionsTyped
  BY TypeParts DEF CoreInv
<1>2. OthersStay(s)
  BY <1>1 DEF Continue, SessionsTyped, OthersStay
<1>3. pc'[s] = AfterStage(g)[1] /\ state'[s] = AfterStage(g)[2] /\ row'[s] = r
  BY <1>1 DEF Continue, SessionsTyped
<1>4. AfterStage(g)[1] \in {"persist", "retrieve", "tailRead"}
  BY AfterStageType
<1>5. g.status = "awaiting_human_review" => Reached("awaiting_human_review")'
  BY DEF Reached
<1>6. Intent(s)'
  BY <1>3, <1>4, <1>5, GraphStages DEF Intent
<1>7. QED
  BY <1>2, <1>6

\* A session that ends its request, or enters the exception handler.
LEMMA RaiseIntends ==
  ASSUME CoreInv, NEW s \in Sessions, Raise(s) \/ Finish(s)
  PROVE  OthersStay(s) /\ Intent(s)'
<1>1. SessionsTyped
  BY TypeParts DEF CoreInv
<1>2. CASE Finish(s)
  <2>1. pc'[s] = "idle"
    BY <1>1, <1>2 DEF Finish, SessionsTyped
  <2>2. QED
    BY <1>1, <1>2, <2>1, FinishHolds DEF Intent
<1>3. CASE pc' = [pc EXCEPT ![s] = "failLoad"] /\ UNCHANGED <<req, row, state, seen>>
  <2>1. pc'[s] = "failLoad" /\ OthersStay(s)
    BY <1>1, <1>3 DEF SessionsTyped, OthersStay
  <2>2. QED
    BY <2>1 DEF Intent
<1>4. QED
  BY <1>2, <1>3 DEF Raise

\* The session that created the run goes on along the graph.
LEMMA BeginsIntends ==
  ASSUME CoreInv, NEW s \in Sessions, Begins(s)
  PROVE  OthersStay(s) /\ Intent(s)'
<1> DEFINE new == RowWith([NoRun EXCEPT !.fingerprint = state[s].fingerprint], state[s])
<1>1. state[s] \in WorkflowState /\ state[s].stage = "created" /\ state[s].status = "created"
  BY TransitionTyped DEF Begins, CoreInv, Holding
<1>2. /\ new \in WorkflowRun /\ new.status = state[s].status
      /\ Record(new, state[s], "start", "none") /\ Continue(s, new, state[s]) /\ req' = req
  BY BeginsRow DEF Begins
<1> HIDE DEF new
<1>3. state[s] = checkpoints'[new.version] /\ new.version \in DOMAIN checkpoints'
  BY <1>2 DEF Record
<1>4. QED
  BY <1>1, <1>2, <1>3, ContinueIntends

\* The graph of start or retry goes on to its next stage.
LEMMA AdvancesIntends ==
  ASSUME CoreInv, AllIntent, NEW s \in Sessions, Advances(s)
  PROVE  OthersStay(s) /\ Intent(s)'
<1> DEFINE new == RowWith(run, state[s])
<1>1. state[s] \in WorkflowState /\ Staged(state[s])
  BY TransitionTyped DEF Advances, AllIntent, Intent
<1>2. new \in WorkflowRun /\ new.status = state[s].status
  BY <1>1, TransitionTyped, RowWithFields
<1>3. Record(new, state[s], req[s].op, run.status) /\ Continue(s, new, state[s]) /\ req' = req
  BY DEF Advances
<1> HIDE DEF new
<1>4. state[s] = checkpoints'[new.version] /\ new.version \in DOMAIN checkpoints'
  BY <1>3 DEF Record
<1>5. QED
  BY <1>1, <1>2, <1>3, <1>4, ContinueIntends

\* The session that began a retry goes on along the graph.
LEMMA RetriesIntends ==
  ASSUME CoreInv, NEW s \in Sessions, Retries(s)
  PROVE  OthersStay(s) /\ Intent(s)'
<1> DEFINE new == RowWith([run EXCEPT !.retryCount = @ + 1,
                                      !.fingerprint = state[s].fingerprint], state[s])
<1>1. state[s] \in WorkflowState /\ state[s].stage = "created" /\ state[s].status = "created"
  BY TransitionTyped DEF Retries, CoreInv, Holding
<1>2. new \in WorkflowRun /\ new.status = state[s].status
  BY RetriesRow
<1>3. Record(new, state[s], "retry", run.status) /\ Continue(s, new, state[s]) /\ req' = req
  BY DEF Retries
<1> HIDE DEF new
<1>4. state[s] = checkpoints'[new.version] /\ new.version \in DOMAIN checkpoints'
  BY <1>3 DEF Record
<1>5. QED
  BY <1>1, <1>2, <1>3, <1>4, ContinueIntends

\* A cancelled checkpoint precedes the closing of the task.
LEMMA CancelsIntends ==
  ASSUME CoreInv, AllIntent, NEW s \in Sessions, Cancels(s)
  PROVE  OthersStay(s) /\ Intent(s)'
<1>1. pc'[s] = "cancelTask" /\ OthersStay(s)
  BY TransitionTyped DEF Cancels, OthersStay
<1>2. state[s].status = "cancelled" /\ Record(RowWith(run, state[s]), state[s], "cancel", run.status)
  BY DEF Cancels, AllIntent, Intent
<1>3. Reached("cancelled")'
  BY <1>2 DEF Record, Reached
<1>4. QED
  BY <1>1, <1>3 DEF Intent

\* The requests that begin, and the steps of a request that only read.
LEMMA ReadIntends ==
  ASSUME CoreInv, AllIntent, ConstantsAssumption, NEW s \in Sessions,
         Request(s) \/ Retrieve(s) \/ TailRead(s) \/ FailLoad(s)
  PROVE  OthersStay(s) /\ Intent(s)'
<1>1. SessionsTyped /\ UNCHANGED <<run, checkpoints>>
  BY TypeParts
  DEF CoreInv, Request, StartRead, RetryLoad, ReviewCheck, CancelLoad, Retrieve, TailRead,
      FailLoad, dbVars
<1>2. OthersStay(s)
  BY <1>1
  DEF SessionsTyped, OthersStay, Request, StartRead, RetryLoad, ReviewCheck, CancelLoad,
      Retrieve, TailRead, FailLoad
<1>3. CASE StartRead(s) \/ ReviewCheck(s)
  <2>1. pc'[s] \in {"startCreate", "reviewApply"}
    BY <1>1, <1>3 DEF SessionsTyped, StartRead, ReviewCheck
  <2>2. QED
    BY <1>2, <2>1 DEF Intent
<1>4. CASE RetryLoad(s)
  <2>1. pc'[s] = "retryCreate" /\ row'[s] = run
    BY <1>1, <1>4 DEF SessionsTyped, RetryLoad
  <2>2. QED
    BY <1>2, <1>4, <2>1 DEF RetryLoad, Intent
<1>5. CASE CancelLoad(s)
  <2>1. run.version > 0
    BY <1>5, TransitionTyped DEF CancelLoad, Cancellable, CoreInv, Begun
  <2>2. /\ pc'[s] = "cancelPersist" /\ row'[s] = run
        /\ state'[s] = [LatestState EXCEPT !.stage = "cancelled", !.status = "cancelled",
                                           !.approval = "cancelled"]
    BY <1>1, <1>5 DEF SessionsTyped, CancelLoad
  <2>3. state'[s].status = "cancelled"
    BY <2>1, <2>2, LatestTyped DEF WorkflowState
  <2>4. QED
    BY <1>2, <1>5, <2>2, <2>3 DEF CancelLoad, Cancellable, Intent
<1>6. CASE FailLoad(s)
  <2>1. run.version > 0
    BY <1>6 DEF FailLoad, CoreInv, Holding
  <2>2. /\ pc'[s] = "failCommit"
        /\ state'[s] = [LatestState EXCEPT !.stage = "failed", !.status = "failed"]
    BY <1>1, <1>6 DEF SessionsTyped, FailLoad
  <2>3. state'[s].status = "failed"
    BY <2>1, <2>2, LatestTyped DEF WorkflowState
  <2>4. QED
    BY <1>2, <2>2, <2>3 DEF Intent
<1>7. CASE TailRead(s)
  <2>1. pc'[s] = "tailCommit" /\ state' = state /\ pc[s] = "tailRead"
    BY <1>1, <1>7 DEF SessionsTyped, TailRead
  <2>2. QED
    BY <1>1, <1>2, <2>1 DEF AllIntent, Intent, Reached
<1>8. CASE Retrieve(s)
  <2>1. PICK finding \in Findings, flag \in BOOLEAN :
          state' = [state EXCEPT ![s] = RetrieveEvidence(@, finding, flag)]
    BY <1>8 DEF Retrieve
  <2>2. /\ pc'[s] = "persist" /\ row' = row /\ pc[s] = "retrieve"
        /\ state'[s] = RetrieveEvidence(state[s], finding, flag)
        /\ state[s] \in WorkflowState
    BY <1>1, <1>8, <2>1 DEF SessionsTyped, Retrieve
  <2>3. state'[s].stage = "evaluating_evidence" /\ state'[s].status = finding
    BY <2>2 DEF RetrieveEvidence, WorkflowState
  <2>4. finding \in ProcessingStatus \ {"created"}
    BY DEF ConstantsAssumption, ProcessingStatus, EvidenceStates
  <2>5. QED
    BY <1>2, <2>2, <2>3, <2>4 DEF AllIntent, Intent, Staged
<1>9. QED
  BY <1>3, <1>4, <1>5, <1>6, <1>7, <1>8 DEF Request

\* A request's step disturbs no other session, and leaves its own about to
\* record what its request is about.
LEMMA SessionIntends ==
  ASSUME CoreInv, AllIntent, NEW s \in Sessions, Request(s) \/ Serve(s) \/ Crash(s)
  PROVE  OthersStay(s) /\ Intent(s)'
<1>1. CASE Request(s) \/ Retrieve(s) \/ TailRead(s) \/ FailLoad(s)
  BY <1>1, ConstantsAssumption, ReadIntends
<1>2. CASE NodeFailure(s) \/ TailCommit(s) \/ FailCommit(s) \/ ReviewApply(s)
           \/ CancelTask(s) \/ Crash(s)
  BY <1>2, RaiseIntends
  DEF NodeFailure, TailCommit, FailCommit, ReviewApply, CancelTask, Crash
<1>3. CASE StartCreate(s)
  BY <1>3, RaiseIntends, BeginsIntends DEF StartCreate, Begins
<1>4. CASE PersistStage(s)
  BY <1>4, FreeMeansCurrent, RaiseIntends, AdvancesIntends DEF PersistStage, Advances
<1>5. CASE RetryCreate(s)
  BY <1>5, FreeMeansCurrent, RaiseIntends, RetriesIntends DEF RetryCreate, Retries
<1>6. CASE CancelPersist(s)
  BY <1>6, FreeMeansCurrent, RaiseIntends, CancelsIntends DEF CancelPersist, Cancels
<1>7. QED
  BY <1>1, <1>2, <1>3, <1>4, <1>5, <1>6 DEF Serve

\* Every step preserves what the sessions are about to record.
LEMMA IntentStep ==
  ASSUME CoreInv, AllIntent, [Next]_vars
  PROVE  AllIntent'
<1>1. ASSUME NEW s \in Sessions, OthersStay(s) /\ Intent(s)'
      PROVE  AllIntent'
  BY <1>1, OthersIntend DEF AllIntent
<1>2. ASSUME NEW s \in Sessions, Request(s) \/ Serve(s) \/ Crash(s)
      PROVE  OthersStay(s) /\ Intent(s)'
  BY <1>2, SessionIntends
<1>3. CASE UNCHANGED vars \/ \E d \in Docs : DocumentStored(d) \/ DocumentReady(d)
  <2>1. UNCHANGED <<checkpoints, pc, row, state>>
    BY <1>3 DEF vars, DocumentStored, DocumentReady, dbVars, sessionVars
  <2>2. QED
    BY <2>1 DEF AllIntent, Intent, Reached
<1>4. QED
  BY <1>1, <1>2, <1>3 DEF Next

\* What every session is about to record, at any time.
LEMMA IntentInvariance == Spec => []AllIntent
<1>1. Init => AllIntent
  BY DEF Init, AllIntent, Intent
<1>2. QED
  BY <1>1, IntentStep, CoreInvariance, PTL DEF Spec

-----------------------------------------------------------------------------
(* Answers *)

\* The answers, each with the evidence it was given on.
AnswersInv == OneAnswerPerCheckpoint /\ DecisionMatchesSnapshot

\* What a new answer has to show to keep that.
LEMMA NewAnswer ==
  ASSUME CoreInv, AnswersInv, [Next]_vars, NEW a \in ActionRow,
         a.expected = run.version, run.version > 0, a.key \notin UsedKeys,
         actions' = actions \cup {a}, run'.version = run.version + 1,
         run.status \in IF IsReview(a) THEN {"awaiting_human_review"}
                        ELSE {"failed", "awaiting_additional_information"},
         Len(events') = run.version + 1,
         events'[run.version + 1].kind = IF IsReview(a) THEN "review" ELSE "retry",
         IsReview(a) => a.docs = run.fingerprint
  PROVE  AnswersInv'
<1>1. /\ run.version \in Nat /\ DOMAIN checkpoints = 1..run.version
      /\ Len(events) = run.version
  BY TransitionTyped, TypeParts DEF CoreInv, RunTyped, WorkflowRun, HistoryGapless
<1>2. /\ \A v \in DOMAIN checkpoints :
           v \in DOMAIN checkpoints' /\ checkpoints'[v] = checkpoints[v]
      /\ \A n \in 1..Len(events) : events'[n] = events[n]
  BY HistoryKept
<1>3. checkpoints[run.version].status = run.status
      /\ checkpoints[run.version].fingerprint = run.fingerprint
  BY <1>1 DEF CoreInv, HistoryGapless, LatestState
<1>4. \A b \in actions : b.expected < run.version /\ b.expected \in 1..run.version /\ b.key # a.key
  BY <1>1 DEF AnswersInv, OneAnswerPerCheckpoint, UsedKeys
<1>5. ASSUME NEW b \in actions', NEW c \in actions',
             b.expected = c.expected \/ b.key = c.key
      PROVE  b = c
  BY <1>1, <1>4, <1>5 DEF AnswersInv, OneAnswerPerCheckpoint
<1>6. ASSUME NEW b \in actions'
      PROVE  /\ b.expected \in DOMAIN checkpoints'
             /\ b.expected < Len(events')
             /\ checkpoints'[b.expected].status \in
                  IF IsReview(b) THEN {"awaiting_human_review"}
                  ELSE {"failed", "awaiting_additional_information"}
             /\ events'[b.expected + 1].kind = IF IsReview(b) THEN "review" ELSE "retry"
             /\ IsReview(b) => checkpoints'[b.expected].fingerprint = b.docs
  <2>1. CASE b = a
    BY <1>1, <1>2, <1>3, <2>1
  <2>2. CASE b \in actions
    <3>1. b.expected \in 1..run.version /\ b.expected + 1 \in 1..run.version
      BY <1>1, <1>4, <2>2
    <3>2. QED
      BY <1>1, <1>2, <2>2, <3>1
      DEF AnswersInv, OneAnswerPerCheckpoint, DecisionMatchesSnapshot
  <2>3. QED
    BY <2>1, <2>2
<1>7. QED
  BY <1>5, <1>6 DEF AnswersInv, OneAnswerPerCheckpoint, DecisionMatchesSnapshot, IsReview

\* Only a retry and a decision add an answer.
LEMMA AnswersStep ==
  ASSUME CoreInv, AllIntent, AnswersInv, [Next]_vars
  PROVE  AnswersInv'
<1>1. /\ run.version \in Nat /\ DOMAIN checkpoints = 1..run.version
      /\ Len(events) = run.version /\ events \in Seq(EventRow)
  BY TypeParts DEF CoreInv, RunTyped, WorkflowRun, HistoryGapless
<1>2. CASE actions' = actions
  <2>1. /\ \A v \in DOMAIN checkpoints :
             v \in DOMAIN checkpoints' /\ checkpoints'[v] = checkpoints[v]
        /\ \A n \in 1..Len(events) : events'[n] = events[n]
    BY HistoryKept
  <2>2. Len(events') \in {run.version, run.version + 1}
    <3>1. HistoryGapless' /\ run'.version \in {run.version, run.version + 1}
      BY CoreStep, HistoryKept DEF CoreInv
    <3>2. QED
      BY <1>1, <3>1 DEF HistoryGapless
  <2>3. ASSUME NEW a \in actions
        PROVE  /\ a.expected \in 1..run.version /\ a.expected + 1 \in 1..run.version
               /\ checkpoints'[a.expected] = checkpoints[a.expected]
               /\ events'[a.expected + 1] = events[a.expected + 1]
               /\ a.expected \in DOMAIN checkpoints'
               /\ a.expected < Len(events')
    <3>1. a.expected \in 1..run.version /\ a.expected < Len(events)
      BY <1>1 DEF AnswersInv, OneAnswerPerCheckpoint
    <3>2. QED
      BY <1>1, <2>1, <2>2, <3>1
  <2>4. QED
    BY <1>1, <1>2, <2>3
    DEF AnswersInv, OneAnswerPerCheckpoint, DecisionMatchesSnapshot, IsReview
<1>3. ASSUME NEW s \in Sessions, Retries(s) PROVE AnswersInv'
  <2> DEFINE a == [key |-> req[s].key, action |-> "retry", expected |-> run.version,
                   docs |-> state[s].fingerprint]
             new == RowWith([run EXCEPT !.retryCount = @ + 1,
                                        !.fingerprint = state[s].fingerprint], state[s])
  <2>1. new.version = run.version + 1 /\ run' = new /\ run.version > 0
    BY <1>3, RetriesRow
  <2>2. Record(new, state[s], "retry", run.status)
    BY <1>3 DEF Retries
  <2> HIDE DEF new
  <2>3. run.status \in {"failed", "awaiting_additional_information"}
    BY <1>3 DEF Retries, AllIntent, Intent
  <2>4. a \in ActionRow /\ a.key \notin UsedKeys
    BY <1>1, <1>3, TransitionTyped DEF Retries, CoreInv, Holding, ActionRow, WorkflowState
  <2>5. Len(events') = run.version + 1 /\ events'[run.version + 1].kind = "retry"
    BY <1>1, <2>2 DEF Record
  <2>6. actions' = actions \cup {a} /\ ~IsReview(a)
    BY <1>3 DEF Retries, IsReview
  <2>7. QED
    BY <2>1, <2>3, <2>4, <2>5, <2>6, NewAnswer
<1>4. ASSUME NEW s \in Sessions, Decides(s) PROVE AnswersInv'
  <2> DEFINE a == [key |-> req[s].key, action |-> req[s].action, expected |-> run.version,
                   docs |-> state[s].fingerprint]
             g == Decided(req[s].action)
  <2>1. /\ run.version > 0 /\ req[s].action \in AllReviewActions
        /\ state[s].fingerprint = run.fingerprint
    BY <1>4 DEF Decides, CoreInv, Holding
  <2>2. g \in WorkflowState
    BY <2>1, DecidedType
  <2>3. Record(RowWith(run, g), g, "review", run.status)
    BY <1>4 DEF Decides
  <2> HIDE DEF g
  <2>4. RowWith(run, g).version = run.version + 1 /\ run' = RowWith(run, g)
    BY <2>2, <2>3, TransitionTyped, RowWithFields DEF Record
  <2>5. a \in ActionRow /\ a.key \notin UsedKeys
    BY <1>1, <1>4, <2>1, TransitionTyped DEF Decides, CoreInv, Holding, ActionRow, WorkflowState
  <2>6. Len(events') = run.version + 1 /\ events'[run.version + 1].kind = "review"
    BY <1>1, <2>3 DEF Record
  <2>7. actions' = actions \cup {a} /\ IsReview(a) /\ run.status = "awaiting_human_review"
    BY <1>4, <2>1 DEF Decides, IsReview, AllReviewActions, TerminalActions
  <2>8. QED
    BY <2>1, <2>4, <2>5, <2>6, <2>7, NewAnswer
<1>5. QED
  BY <1>2, <1>3, <1>4, StepKind
  DEF Quiet, Transition, Begins, Advances, Fails, Cancels

\* Answers and their evidence, at any time.
LEMMA AnswersInvariance == Spec => []AnswersInv
<1>1. Init => AnswersInv
  BY DEF Init, AnswersInv, OneAnswerPerCheckpoint, DecisionMatchesSnapshot
<1>2. QED
  BY <1>1, AnswersStep, CoreInvariance, IntentInvariance, PTL DEF Spec

\* A checkpoint is answered once, by the next version, in a status that
\* allows it: the conditional update of review and the unique version of
\* retry, under any interleaving.
THEOREM EachCheckpointAnsweredOnce == Spec => []OneAnswerPerCheckpoint
<1>1. AnswersInv => OneAnswerPerCheckpoint
  BY DEF AnswersInv
<1>2. QED
  BY <1>1, AnswersInvariance, PTL

\* The version a decision names has the fingerprint its freshness check saw,
\* although documents and run change between the check and the update.
THEOREM DecisionsMatchTheirSnapshot == Spec => []DecisionMatchesSnapshot
<1>1. AnswersInv => DecisionMatchesSnapshot
  BY DEF AnswersInv
<1>2. QED
  BY <1>1, AnswersInvariance, PTL

-----------------------------------------------------------------------------
(* The retry budget *)

RetryActions == {a \in actions : ~IsReview(a)}
RetriesBegun == {n \in DOMAIN events : events[n].kind = "retry" /\ events[n].new = "created"}

BudgetInv == RetryBudget /\ IsFiniteSet(RetryActions) /\ IsFiniteSet(RetriesBegun)

\* A recording step that is not the beginning of a retry spends nothing.
LEMMA NothingSpent ==
  ASSUME CoreInv, BudgetInv, NEW r, NEW g \in WorkflowState, NEW k \in Kinds, NEW p,
         Record(r, g, k, p), k # "retry" \/ g.status # "created",
         run'.retryCount = run.retryCount,
         {a \in actions' : ~IsReview(a)} = RetryActions
  PROVE  BudgetInv'
<1>1. events \in Seq(EventRow) /\ events' = Append(events, [kind |-> k, previous |-> p, new |-> g.status])
  BY TransitionTyped, TypeParts DEF Record, CoreInv, RunTyped
<1>2. RetriesBegun' = RetriesBegun
  BY <1>1 DEF RetriesBegun
<1>3. RetryActions' = RetryActions
  BY DEF RetryActions, IsReview
<1>4. QED
  BY <1>2, <1>3 DEF BudgetInv, RetryBudget, RetryActions, RetriesBegun

\* Only the beginning of a retry spends budget.
LEMMA BudgetStep ==
  ASSUME CoreInv, AllIntent, BudgetInv, [Next]_vars
  PROVE  BudgetInv'
<1>1. events \in Seq(EventRow) /\ run \in WorkflowRun /\ Len(events) \in Nat
  BY TypeParts DEF CoreInv, RunTyped
<1>2. CASE Quiet
  BY <1>2 DEF Quiet, BudgetInv, RetryBudget, RetryActions, RetriesBegun, IsReview
<1>3. ASSUME NEW s \in Sessions, Begins(s) PROVE BudgetInv'
  <2> DEFINE new == RowWith([NoRun EXCEPT !.fingerprint = state[s].fingerprint], state[s])
  <2>1. /\ run' = new /\ new.retryCount = 0 /\ run.version = 0
        /\ Record(new, state[s], "start", "none")
    BY <1>3, BeginsRow DEF Begins
  <2> HIDE DEF new
  <2>2. run.retryCount = 0
    BY <2>1 DEF CoreInv, Begun, NoRun
  <2>3. {a \in actions' : ~IsReview(a)} = RetryActions
    BY <1>3 DEF Begins, RetryActions
  <2>4. state[s] \in WorkflowState /\ "start" \in Kinds /\ run'.retryCount = run.retryCount
    BY <2>1, <2>2, TransitionTyped DEF Kinds
  <2>5. QED
    BY <2>1, <2>3, <2>4, NothingSpent
<1>4. ASSUME NEW s \in Sessions, Advances(s) PROVE BudgetInv'
  <2>1. /\ Record(RowWith(run, state[s]), state[s], req[s].op, run.status)
        /\ state[s] \in WorkflowState /\ req[s].op \in Kinds
    BY <1>4, TransitionTyped DEF Advances, CoreInv, Holding, Kinds
  <2>2. state[s].status # "created"
    BY <1>4 DEF Advances, AllIntent, Intent, Staged
  <2>3. run'.retryCount = run.retryCount
    BY <2>1, TakenOver
  <2>4. {a \in actions' : ~IsReview(a)} = RetryActions
    BY <1>4 DEF Advances, RetryActions
  <2>5. QED
    BY <2>1, <2>2, <2>3, <2>4, NothingSpent
<1>5. ASSUME NEW s \in Sessions, NEW k \in {"failure", "cancel"}, actions' = actions,
             Record(RowWith(run, state[s]), state[s], k, run.status)
      PROVE  BudgetInv'
  <2>1. state[s] \in WorkflowState /\ k \in Kinds
    BY TransitionTyped DEF Kinds
  <2>2. run'.retryCount = run.retryCount
    BY <1>5, <2>1, TakenOver
  <2>3. {a \in actions' : ~IsReview(a)} = RetryActions
    BY <1>5 DEF RetryActions
  <2>4. QED
    BY <1>5, <2>1, <2>2, <2>3, NothingSpent
<1>6. ASSUME NEW s \in Sessions, Decides(s) PROVE BudgetInv'
  <2> DEFINE g == Decided(req[s].action)
  <2>1. run.version > 0 /\ req[s].action \in AllReviewActions
    BY <1>6 DEF Decides, CoreInv, Holding
  <2>2. g \in WorkflowState /\ "review" \in Kinds
    BY <2>1, DecidedType DEF Kinds
  <2>3. Record(RowWith(run, g), g, "review", run.status)
    BY <1>6 DEF Decides
  <2> HIDE DEF g
  <2>4. run'.retryCount = run.retryCount
    BY <2>2, <2>3, TakenOver
  <2>5. {a \in actions' : ~IsReview(a)} = RetryActions
    <3>1. req[s].action # "retry"
      BY <2>1 DEF AllReviewActions, TerminalActions
    <3>2. QED
      BY <1>6, <3>1 DEF Decides, RetryActions, IsReview
  <2>6. QED
    BY <2>2, <2>3, <2>4, <2>5, NothingSpent
<1>7. ASSUME NEW s \in Sessions, Retries(s) PROVE BudgetInv'
  <2> DEFINE new == RowWith([run EXCEPT !.retryCount = @ + 1,
                                        !.fingerprint = state[s].fingerprint], state[s])
             a == [key |-> req[s].key, action |-> "retry", expected |-> run.version,
                   docs |-> state[s].fingerprint]
  <2>1. /\ run' = new /\ new.retryCount = run.retryCount + 1
        /\ Record(new, state[s], "retry", run.status)
    BY <1>7, RetriesRow DEF Retries
  <2> HIDE DEF new
  <2>2. state[s].status = "created" /\ run.retryCount < MaxRetries
    BY <1>7 DEF Retries, CoreInv, Holding, AllIntent, Intent
  <2>3. RetryActions' = RetryActions \cup {a} /\ a \notin RetryActions
    BY <1>7 DEF Retries, RetryActions, IsReview, UsedKeys
  <2>4. /\ RetriesBegun' = RetriesBegun \cup {Len(events) + 1}
        /\ Len(events) + 1 \notin RetriesBegun
    <3>1. events' = Append(events, [kind |-> "retry", previous |-> run.status, new |-> "created"])
      BY <2>1, <2>2 DEF Record
    <3>2. QED
      BY <1>1, <3>1 DEF RetriesBegun
  <2>5. /\ IsFiniteSet(RetryActions') /\ Cardinality(RetryActions') = Cardinality(RetryActions) + 1
        /\ IsFiniteSet(RetriesBegun') /\ Cardinality(RetriesBegun') = Cardinality(RetriesBegun) + 1
    BY <2>3, <2>4, FS_AddElement DEF BudgetInv
  <2>6. run'.retryCount = run.retryCount + 1 /\ run'.retryCount <= MaxRetries
    BY <1>1, <2>1, <2>2, ConstantsAssumption DEF ConstantsAssumption, WorkflowRun
  <2>7. /\ run.retryCount = Cardinality(RetryActions)
        /\ run.retryCount = Cardinality(RetriesBegun)
    BY DEF BudgetInv, RetryBudget, RetryActions, RetriesBegun
  <2>8. QED
    BY <2>5, <2>6, <2>7 DEF BudgetInv, RetryBudget, RetryActions, RetriesBegun
<1>8. QED
  BY <1>2, <1>3, <1>4, <1>5, <1>6, <1>7, StepKind DEF Transition, Fails, Cancels

\* The budget is never overspent and counts the retries that began, however
\* many of them saw budget left.
THEOREM RetryBudgetHolds == Spec => []RetryBudget
<1>1. Init => BudgetInv
  <2>1. ASSUME Init PROVE RetryActions = {} /\ RetriesBegun = {} /\ run.retryCount = 0
    BY <2>1 DEF Init, RetryActions, RetriesBegun, NoRun
  <2>2. ASSUME Init
        PROVE  /\ run.retryCount <= MaxRetries
               /\ IsFiniteSet(RetryActions) /\ run.retryCount = Cardinality(RetryActions)
               /\ IsFiniteSet(RetriesBegun) /\ run.retryCount = Cardinality(RetriesBegun)
    BY <2>1, <2>2, FS_EmptySet, ConstantsAssumption DEF ConstantsAssumption
  <2>3. QED
    BY <2>2 DEF BudgetInv, RetryBudget, RetryActions, RetriesBegun
<1>2. BudgetInv => RetryBudget
  BY DEF BudgetInv
<1>3. QED
  BY <1>1, <1>2, BudgetStep, CoreInvariance, IntentInvariance, PTL DEF Spec

-----------------------------------------------------------------------------
(* Completion and the review task *)

\* A completed checkpoint at version v has its reason.
Reviewed(g, v, answers) ==
  \/ ~g.human /\ ~g.flagged
  \/ \E a \in answers : a.action \in TerminalActions /\ a.expected = v - 1

\* What a recording step has to show about the checkpoint it adds.
LEMMA NewCheckpoint ==
  ASSUME CoreInv, CompletionIsReviewed, NEW r, NEW g, NEW k, NEW p, Record(r, g, k, p),
         r.version = run.version + 1, actions \subseteq actions',
         g.status = "completed" => Reviewed(g, run.version + 1, actions')
  PROVE  CompletionIsReviewed'
<1>1. run.version \in Nat /\ DOMAIN checkpoints = 1..run.version
  BY TypeParts DEF CoreInv, RunTyped, WorkflowRun, HistoryGapless
<1>2. /\ DOMAIN checkpoints' = DOMAIN checkpoints \cup {run.version + 1}
      /\ \A v \in DOMAIN checkpoints : checkpoints'[v] = checkpoints[v]
      /\ checkpoints'[run.version + 1] = g
  BY <1>1 DEF Record
<1>3. QED
  BY <1>2 DEF CompletionIsReviewed, Reviewed

\* Every checkpoint that completes the run has its reason.
LEMMA CompletionStep ==
  ASSUME CoreInv, AllIntent, CompletionIsReviewed, [Next]_vars
  PROVE  CompletionIsReviewed'
<1>1. CASE Quiet
  BY <1>1 DEF Quiet, CompletionIsReviewed
<1>2. ASSUME NEW s \in Sessions, Begins(s) PROVE CompletionIsReviewed'
  <2> DEFINE new == RowWith([NoRun EXCEPT !.fingerprint = state[s].fingerprint], state[s])
  <2>1. new.version = run.version + 1 /\ Record(new, state[s], "start", "none")
    BY <1>2, BeginsRow DEF Begins
  <2> HIDE DEF new
  <2>2. state[s].status # "completed" /\ actions' = actions
    BY <1>2 DEF Begins, CoreInv, Holding
  <2>3. QED
    BY <2>1, <2>2, NewCheckpoint
<1>3. ASSUME NEW s \in Sessions, Retries(s) PROVE CompletionIsReviewed'
  <2> DEFINE new == RowWith([run EXCEPT !.retryCount = @ + 1,
                                        !.fingerprint = state[s].fingerprint], state[s])
  <2>1. new.version = run.version + 1 /\ Record(new, state[s], "retry", run.status)
    BY <1>3, RetriesRow DEF Retries
  <2> HIDE DEF new
  <2>2. state[s].status # "completed" /\ actions \subseteq actions'
    BY <1>3 DEF Retries, CoreInv, Holding
  <2>3. QED
    BY <2>1, <2>2, NewCheckpoint
<1>4. ASSUME NEW s \in Sessions, NEW k, actions' = actions,
             Record(RowWith(run, state[s]), state[s], k, run.status),
             state[s].status \in {"failed", "cancelled"} \/ Staged(state[s])
      PROVE  CompletionIsReviewed'
  <2>1. RowWith(run, state[s]).version = run.version + 1 /\ state[s] \in WorkflowState
    BY TransitionTyped, RowWithFields
  <2>2. state[s].status = "completed" => ~state[s].human /\ ~state[s].flagged
    BY <1>4, <2>1 DEF Staged, ProcessingStatus, EvidenceStates
  <2>3. QED
    BY <1>4, <2>1, <2>2, NewCheckpoint DEF Reviewed
<1>5. ASSUME NEW s \in Sessions, Decides(s) PROVE CompletionIsReviewed'
  <2> DEFINE g == Decided(req[s].action)
             a == [key |-> req[s].key, action |-> req[s].action, expected |-> run.version,
                   docs |-> state[s].fingerprint]
  <2>1. run.version > 0 /\ run.version \in Nat /\ req[s].action \in AllReviewActions
    BY <1>5, TransitionTyped DEF Decides, CoreInv, Holding
  <2>2. g \in WorkflowState /\ (g.status = "completed" => req[s].action \in TerminalActions)
    BY <2>1, DecidedType
  <2>3. Record(RowWith(run, g), g, "review", run.status)
    BY <1>5 DEF Decides
  <2> HIDE DEF g
  <2>4. RowWith(run, g).version = run.version + 1
    BY <2>2, TransitionTyped, RowWithFields
  <2>5. actions' = actions \cup {a}
    BY <1>5 DEF Decides
  <2>6. a \in actions' /\ a.action = req[s].action /\ a.expected = (run.version + 1) - 1
    BY <2>1, <2>5
  <2> HIDE DEF a
  <2>7. g.status = "completed" => Reviewed(g, run.version + 1, actions')
    BY <2>2, <2>6 DEF Reviewed
  <2>8. QED
    BY <2>3, <2>4, <2>5, <2>7, NewCheckpoint
<1>6. QED
  BY <1>1, <1>2, <1>3, <1>4, <1>5, StepKind
  DEF Transition, Advances, Fails, Cancels, AllIntent, Intent

\* No interleaving completes a run that called for a human without the
\* terminal decision of one.
THEOREM CompletionNeedsReview == Spec => []CompletionIsReviewed
<1>1. Init => CompletionIsReviewed
  BY DEF Init, CompletionIsReviewed
<1>2. QED
  BY <1>1, CompletionStep, CoreInvariance, IntentInvariance, PTL DEF Spec

\* What the state of the task says of the past.
TaskExplained ==
  /\ task # "none" => Reached("awaiting_human_review")
  /\ task = "completed" => \E a \in actions : a.action \in TerminalActions
  /\ task = "cancelled" => Reached("cancelled")

\* Only the tail, a review and a cancellation touch the task.
LEMMA ExplainedStep ==
  ASSUME CoreInv, AllIntent, TaskExplained, [Next]_vars
  PROVE  TaskExplained'
<1>1. /\ \A status : Reached(status) => Reached(status)'
      /\ \A a \in actions : a \in actions'
  <2>1. \A status : Reached(status) => Reached(status)'
    BY HistoryKept DEF Reached
  <2>2. \A a \in actions : a \in actions'
    BY StepKind DEF Quiet, Transition, Begins, Advances, Fails, Retries, Decides, Cancels
  <2>3. QED
    BY <2>1, <2>2
<1>2. TaskExplained = ( /\ task # "none" => Reached("awaiting_human_review")
                        /\ task = "completed" => \E a \in actions : a.action \in TerminalActions
                        /\ task = "cancelled" => Reached("cancelled") )
  BY DEF TaskExplained
<1>3. TaskExplained' = ( /\ task' # "none" => Reached("awaiting_human_review")'
                         /\ task' = "completed" =>
                              \E a \in actions' : a.action \in TerminalActions
                         /\ task' = "cancelled" => Reached("cancelled")' )
  BY DEF TaskExplained
<1>4. CASE task' = task
  BY <1>1, <1>2, <1>3, <1>4
<1>5. ASSUME NEW s \in Sessions, TailCommit(s), task' # task PROVE TaskExplained'
  <2>1. pc[s] = "tailCommit" /\ state[s].human /\ task' = "open"
    BY <1>5 DEF TailCommit, TaskAfterTail
  <2>2. Reached("awaiting_human_review")
    BY <2>1 DEF AllIntent, Intent
  <2>3. QED
    BY <1>1, <1>3, <2>1, <2>2
<1>6. ASSUME NEW s \in Sessions, ReviewApply(s), task' # task PROVE TaskExplained'
  <2> DEFINE a == [key |-> req[s].key, action |-> req[s].action, expected |-> row[s].version,
                   docs |-> state[s].fingerprint]
  <2>1. task' = TaskAfterReview(req[s].action) /\ actions' = actions \cup {a}
    BY <1>6 DEF ReviewApply
  <2>2. a \in actions' /\ a.action = req[s].action
    BY <2>1
  <2> HIDE DEF a
  <2>3. /\ task # "none" /\ task' \in {"open", "completed"}
        /\ task' = "completed" => req[s].action \in TerminalActions
    BY <1>6, <2>1 DEF TaskAfterReview
  <2>4. QED
    BY <1>1, <1>2, <1>3, <2>2, <2>3
<1>7. ASSUME NEW s \in Sessions, CancelTask(s), task' # task PROVE TaskExplained'
  <2>1. task # "none" /\ task' = "cancelled" /\ Reached("cancelled")
    BY <1>7 DEF CancelTask, AllIntent, Intent
  <2>2. QED
    BY <1>1, <1>2, <1>3, <2>1
<1>8. ASSUME task' # task
      PROVE  \E s \in Sessions : TailCommit(s) \/ ReviewApply(s) \/ CancelTask(s)
  BY <1>8
  DEF Next, vars, Request, Serve, StartRead, RetryLoad, ReviewCheck, CancelLoad, StartCreate,
      PersistStage, Retrieve, NodeFailure, TailRead, FailLoad, FailCommit, RetryCreate,
      CancelPersist, Crash, DocumentStored, DocumentReady, dbVars
<1>9. QED
  BY <1>4, <1>5, <1>6, <1>7, <1>8

\* The task is explained at all times.
LEMMA ExplainedInvariance == Spec => []TaskExplained
<1>1. Init => TaskExplained
  BY DEF Init, TaskExplained
<1>2. QED
  BY <1>1, ExplainedStep, CoreInvariance, IntentInvariance, PTL DEF Spec

-----------------------------------------------------------------------------
(* The end of a run *)

\* What a step may do to a run that is over.
EndKept ==
  run.status \in {"completed", "cancelled"} /\ run' # run
    => run'.status = "failed" /\ events'[Len(events')].kind = "failure"

\* No transition but a failure starts from the end of a run.
LEMMA EndStep ==
  ASSUME CoreInv, AllIntent, [Next]_vars
  PROVE  EndKept
<1> SUFFICES ASSUME run.status \in {"completed", "cancelled"}, run' # run
             PROVE  run'.status = "failed" /\ events'[Len(events')].kind = "failure"
  BY DEF EndKept
<1>1. PICK s \in Sessions : Transition(s)
  BY StepKind DEF Quiet
<1>2. ~Begins(s) /\ ~Decides(s)
  BY DEF Begins, Decides
<1>3. ~Advances(s) /\ ~Retries(s) /\ ~Cancels(s)
  BY DEF Advances, Retries, Cancels, AllIntent, Intent, ProcessingStatus, EvidenceStates
<1>4. /\ Fails(s) /\ state[s].status = "failed" /\ state[s] \in WorkflowState
      /\ Record(RowWith(run, state[s]), state[s], "failure", run.status)
  BY <1>1, <1>2, <1>3, TransitionTyped DEF Transition, Fails, AllIntent, Intent
<1>5. run'.status = "failed"
  BY <1>4, TakenOver
<1>6. events'[Len(events')].kind = "failure"
  BY <1>4, TransitionTyped DEF Record
<1>7. QED
  BY <1>5, <1>6

\* Only the exception handler of start takes a run out of completed or
\* cancelled; no stale copy of review, retry, cancel or the graph does.
THEOREM OnlyFailureLeavesTheEnd == Spec => TerminalLeftOnlyByFailure
<1>1. CoreInv /\ AllIntent /\ [Next]_vars => [EndKept]_vars
  BY EndStep
<1>2. QED
  BY <1>1, CoreInvariance, IntentInvariance, PTL DEF Spec, TerminalLeftOnlyByFailure, EndKept
=============================================================================
