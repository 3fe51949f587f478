-------------------- MODULE ControlledWorkflowRefinement --------------------
(***************************************************************************)
(* Proof that ControlledWorkflow implements WorkflowLifecycle: requests    *)
(* with stale copies, lost commits and crashes make a run that behaves as  *)
(* one atomic object.  The mapping shows the abstract run in the row, and  *)
(* its failed flag in the events.                                          *)
(*                                                                         *)
(* The second half is about clients that ask one after the other, with no  *)
(* request broken off and however graph nodes fail: the two hypotheses the *)
(* sequential run also makes.                                              *)
(***************************************************************************)
EXTENDS ControlledWorkflowSafety

-----------------------------------------------------------------------------
(* Where the graph is *)

\* A state the graph has recorded.  A finding that is no clean answer was
\* flagged.
OnGraph(g) ==
  \/ g.status \in {"created", "gathering_evidence"} /\ g.stage = g.status
  \/ /\ g.stage \in {"evaluating_evidence", "determining_review_requirements"}
     /\ g.status \in EvidenceStates
     /\ g.status # "answerable" => g.flagged
  \/ /\ g.status = IF g.human THEN "awaiting_human_review" ELSE "completed"
     /\ g.stage = g.status

\* The state g is what the graph makes next of the row r.
Follows(r, g) ==
  \/ /\ r.status = "created" /\ r.stage = "created"
     /\ g.status = "gathering_evidence" /\ g.stage = "gathering_evidence"
     /\ g.human = r.human
  \/ /\ r.status = "gathering_evidence" /\ r.stage = "gathering_evidence"
     /\ g.status \in EvidenceStates /\ g.stage = "evaluating_evidence"
     /\ g.human = r.human
     /\ g.status # "answerable" => g.flagged
  \/ /\ r.status \in EvidenceStates /\ r.stage = "evaluating_evidence"
     /\ g.status = r.status /\ g.stage = "determining_review_requirements"
     /\ g.human = r.human
     /\ g.status # "answerable" => g.flagged
  \/ /\ r.status \in EvidenceStates /\ r.stage = "determining_review_requirements"
     /\ g.status = IF g.human THEN "awaiting_human_review" ELSE "completed"
     /\ g.stage = g.status
     /\ r.human \/ r.status # "answerable" => g.human

\* What a session persists is the next state of the graph after its copy, or
\* ends the run without touching the call for a human.
Course(s) ==
  /\ pc[s] = "persist" => Follows(row[s], state[s])
  /\ pc[s] = "retrieve" =>
       /\ row[s].status = "gathering_evidence" /\ row[s].stage = "gathering_evidence"
       /\ state[s].human = row[s].human
  /\ pc[s] \in {"failCommit", "cancelPersist"} =>
       state[s].human = row[s].human /\ state[s].stage = state[s].status
  /\ pc[s] \in {"failLoad", "failCommit"} => req[s].op = "start"

\* The request that created the run and is still working on it.
Creating(s) == req[s].op = "start" /\ pc[s] \notin {"idle", "startCreate"}

FailureRecorded == \E n \in DOMAIN events : events[n].kind = "failure"

\* One request at most works on the run it created, and while it does no
\* failure has been recorded: the handler of start runs once.
FailsOnce ==
  /\ \A s, t \in Sessions : Creating(s) /\ Creating(t) => s = t
  /\ \A s \in Sessions : Creating(s) => ~FailureRecorded

CourseInv == FailsOnce /\ \A s \in Sessions : Course(s)

\* What a session persists next is on the graph.
LEMMA FollowsOnGraph ==
  ASSUME NEW r \in WorkflowRun, NEW g \in WorkflowState, Follows(r, g)
  PROVE  OnGraph(g)
  BY DEF Follows, OnGraph

\* The states the graph makes of a recorded one.
LEMMA GraphFollows ==
  ASSUME NEW g \in WorkflowState, NEW r \in WorkflowRun, OnGraph(g),
         r.status = g.status, r.stage = g.stage, r.human = g.human
  PROVE  LET next == AfterStage(g)
         IN  /\ next[1] = "persist" => Follows(r, next[2])
             /\ next[1] = "retrieve" =>
                  /\ r.status = "gathering_evidence" /\ r.stage = "gathering_evidence"
                  /\ next[2].human = r.human
<1>1. CASE g.stage = "created"
  <2>1. g.status = "created"
    BY <1>1 DEF OnGraph
  <2>2. QED
    BY <1>1, <2>1 DEF AfterStage, LoadClaimContext, Follows, WorkflowState
<1>2. CASE g.stage = "gathering_evidence"
  BY <1>2 DEF AfterStage, OnGraph
<1>3. CASE g.stage = "evaluating_evidence"
  <2>1. g.status \in EvidenceStates /\ (g.status # "answerable" => g.flagged)
    BY <1>3 DEF OnGraph
  <2>2. QED
    BY <1>3, <2>1 DEF AfterStage, ValidateProvenance, Follows, WorkflowState
<1>4. CASE g.stage = "determining_review_requirements"
  <2> DEFINE d == DetermineReview(g)
             p == PrepareArtifact(d)
  <2>1. AfterStage(g) = <<"persist", p>>
    BY <1>4 DEF AfterStage
  <2>2. g.status \in EvidenceStates /\ (g.status # "answerable" => g.flagged)
    BY <1>4 DEF OnGraph
  <2>3. d \in WorkflowState /\ d.human = (g.flagged \/ g.human)
    BY DEF DetermineReview, WorkflowState, ApprovalState
  <2> HIDE DEF d
  <2>4. /\ p.human = d.human /\ p.stage = p.status
        /\ p.status = IF d.human THEN "awaiting_human_review" ELSE "completed"
    BY <2>3 DEF PrepareArtifact, WorkflowState
  <2>5. r.human \/ r.status # "answerable" => p.human
    BY <2>2, <2>3, <2>4
  <2> HIDE DEF p
  <2>6. Follows(r, p)
    BY <1>4, <2>2, <2>4, <2>5 DEF Follows
  <2>7. QED
    BY <2>1, <2>6
<1>5. CASE g.stage \notin {"created", "gathering_evidence", "evaluating_evidence",
                           "determining_review_requirements"}
  BY <1>5 DEF AfterStage
<1>6. QED
  BY <1>1, <1>2, <1>3, <1>4, <1>5

-----------------------------------------------------------------------------
(* Every session keeps its course *)

\* A session that goes on to the graph after recording a state.
LEMMA ContinueCourse ==
  ASSUME CoreInv, NEW s \in Sessions, NEW r \in WorkflowRun, NEW g \in WorkflowState,
         Continue(s, r, g), OnGraph(g),
         r.status = g.status, r.stage = g.stage, r.human = g.human
  PROVE  Course(s)'
<1>1. SessionsTyped
  BY TypeParts DEF CoreInv
<1>2. pc'[s] = AfterStage(g)[1] /\ state'[s] = AfterStage(g)[2] /\ row'[s] = r
  BY <1>1 DEF Continue, SessionsTyped
<1>3. AfterStage(g)[1] \in {"persist", "retrieve", "tailRead"}
  BY AfterStageType
<1>4. QED
  BY <1>2, <1>3, GraphFollows DEF Course

\* A session that ends its request, or enters the handler of start.
LEMMA RaiseCourse ==
  ASSUME CoreInv, NEW s \in Sessions, Raise(s) \/ Finish(s)
  PROVE  Course(s)'
<1>1. SessionsTyped
  BY TypeParts DEF CoreInv
<1>2. CASE Finish(s)
  <2>1. pc'[s] = "idle"
    BY <1>1, <1>2 DEF Finish, SessionsTyped
  <2>2. QED
    BY <2>1 DEF Course
<1>3. CASE req[s].op = "start" /\ pc' = [pc EXCEPT ![s] = "failLoad"]
           /\ UNCHANGED <<req, row, state, seen>>
  <2>1. pc'[s] = "failLoad" /\ req'[s].op = "start"
    BY <1>1, <1>3 DEF SessionsTyped
  <2>2. QED
    BY <2>1 DEF Course
<1>4. QED
  BY <1>2, <1>3 DEF Raise

\* The latest state with its stage and status replaced still calls for a
\* human as the run does.
LEMMA LatestHuman ==
  ASSUME CoreInv, run.version > 0
  PROVE  LatestState \in WorkflowState /\ LatestState.human = run.human
  BY LatestTyped DEF CoreInv, HistoryGapless

\* The requests that begin, and the steps of a request that only read.
LEMMA ReadCourse ==
  ASSUME CoreInv, \A t \in Sessions : Course(t), NEW s \in Sessions,
         Request(s) \/ Retrieve(s) \/ TailRead(s) \/ FailLoad(s)
  PROVE  Course(s)'
<1>1. SessionsTyped
  BY TypeParts DEF CoreInv
<1>2. CASE StartRead(s) \/ ReviewCheck(s) \/ RetryLoad(s) \/ TailRead(s)
  <2>1. pc'[s] \in {"startCreate", "reviewApply", "retryCreate", "tailCommit"}
    BY <1>1, <1>2 DEF SessionsTyped, StartRead, ReviewCheck, RetryLoad, TailRead
  <2>2. QED
    BY <2>1 DEF Course
<1>3. CASE CancelLoad(s)
  <2>1. run.version > 0
    BY <1>3, TransitionTyped DEF CancelLoad, Cancellable, CoreInv, Begun
  <2>2. /\ pc'[s] = "cancelPersist" /\ row'[s] = run
        /\ state'[s] = [LatestState EXCEPT !.stage = "cancelled", !.status = "cancelled",
                                           !.approval = "cancelled"]
    BY <1>1, <1>3 DEF SessionsTyped, CancelLoad
  <2>3. state'[s].human = row'[s].human /\ state'[s].stage = state'[s].status
    BY <2>1, <2>2, LatestHuman DEF WorkflowState
  <2>4. QED
    BY <2>2, <2>3 DEF Course
<1>4. CASE FailLoad(s)
  <2>1. run.version > 0 /\ req[s].op = "start"
    BY <1>4 DEF FailLoad, CoreInv, Holding, Course
  <2>2. /\ pc'[s] = "failCommit" /\ row'[s] = run /\ req' = req
        /\ state'[s] = [LatestState EXCEPT !.stage = "failed", !.status = "failed"]
    BY <1>1, <1>4 DEF SessionsTyped, FailLoad
  <2>3. state'[s].human = row'[s].human /\ state'[s].stage = state'[s].status
    BY <2>1, <2>2, LatestHuman DEF WorkflowState
  <2>4. QED
    BY <2>1, <2>2, <2>3 DEF Course
<1>5. CASE Retrieve(s)
  <2>1. PICK finding \in Findings, injection \in BOOLEAN :
          state' = [state EXCEPT ![s] =
                      RetrieveEvidence(@, finding, injection \/ finding # "answerable")]
    BY <1>5 DEF Retrieve
  <2> DEFINE flagged == injection \/ finding # "answerable"
  <2>2. /\ pc'[s] = "persist" /\ row' = row /\ pc[s] = "retrieve"
        /\ state'[s] = RetrieveEvidence(state[s], finding, flagged)
        /\ state[s] \in WorkflowState
    BY <1>1, <1>5, <2>1 DEF SessionsTyped, Retrieve
  <2>3. /\ state'[s].stage = "evaluating_evidence" /\ state'[s].status = finding
        /\ state'[s].human = state[s].human /\ state'[s].flagged = flagged
    BY <2>2 DEF RetrieveEvidence, WorkflowState
  <2>4. finding \in EvidenceStates
    BY ConstantsAssumption DEF ConstantsAssumption
  <2>5. Follows(row[s], state'[s])
    BY <2>2, <2>3, <2>4 DEF Course, Follows
  <2>6. QED
    BY <2>2, <2>5 DEF Course
<1>6. QED
  BY <1>2, <1>3, <1>4, <1>5 DEF Request

\* The session of a transition goes on along the graph or ends its request.
LEMMA TransitionCourse ==
  ASSUME CoreInv, \A t \in Sessions : Course(t), NEW s \in Sessions, Transition(s)
  PROVE  Course(s)'
<1>1. CASE Begins(s)
  <2> DEFINE new == RowWith([NoRun EXCEPT !.fingerprint = state[s].fingerprint], state[s])
  <2>1. /\ new \in WorkflowRun /\ new.status = state[s].status
        /\ new.stage = state[s].stage /\ new.human = state[s].human
        /\ Continue(s, new, state[s])
    BY <1>1, BeginsRow DEF Begins
  <2> HIDE DEF new
  <2>2. state[s] \in WorkflowState /\ OnGraph(state[s])
    BY <1>1, TransitionTyped DEF Begins, CoreInv, Holding, OnGraph
  <2>3. QED
    BY <2>1, <2>2, ContinueCourse
<1>2. CASE Retries(s)
  <2> DEFINE new == RowWith([run EXCEPT !.retryCount = @ + 1,
                                        !.fingerprint = state[s].fingerprint], state[s])
  <2>1. /\ new \in WorkflowRun /\ new.status = state[s].status
        /\ new.stage = state[s].stage /\ new.human = state[s].human
        /\ Continue(s, new, state[s])
    BY <1>2, RetriesRow DEF Retries
  <2> HIDE DEF new
  <2>2. state[s] \in WorkflowState /\ OnGraph(state[s])
    BY <1>2, TransitionTyped DEF Retries, CoreInv, Holding, OnGraph
  <2>3. QED
    BY <2>1, <2>2, ContinueCourse
<1>3. CASE Advances(s)
  <2> DEFINE new == RowWith(run, state[s])
  <2>1. state[s] \in WorkflowState /\ OnGraph(state[s])
    BY <1>3, TransitionTyped, FollowsOnGraph DEF Advances, Course
  <2>2. /\ new \in WorkflowRun /\ new.status = state[s].status
        /\ new.stage = state[s].stage /\ new.human = state[s].human
    BY <2>1, TransitionTyped, RowWithFields
  <2>3. Continue(s, new, state[s])
    BY <1>3 DEF Advances
  <2> HIDE DEF new
  <2>4. QED
    BY <2>1, <2>2, <2>3, ContinueCourse
<1>4. CASE Fails(s) \/ Decides(s)
  BY <1>4, RaiseCourse DEF Fails, Decides
<1>5. CASE Cancels(s)
  <2>1. pc'[s] = "cancelTask"
    BY <1>5, TransitionTyped DEF Cancels
  <2>2. QED
    BY <2>1 DEF Course
<1>6. QED
  BY <1>1, <1>2, <1>3, <1>4, <1>5 DEF Transition

\* A request's step keeps the course of its session.
LEMMA SessionCourse ==
  ASSUME CoreInv, \A t \in Sessions : Course(t), NEW s \in Sessions,
         Request(s) \/ Serve(s) \/ Crash(s)
  PROVE  Course(s)'
<1>1. CASE Request(s) \/ Retrieve(s) \/ TailRead(s) \/ FailLoad(s)
  BY <1>1, ReadCourse
<1>2. CASE Raise(s) \/ Finish(s)
  BY <1>2, RaiseCourse
<1>3. CASE Transition(s)
  BY <1>3, TransitionCourse
<1>4. CASE NodeFailure(s) \/ TailCommit(s) \/ FailCommit(s) \/ ReviewApply(s) \/ CancelTask(s)
           \/ Crash(s)
  BY <1>2, <1>4 DEF NodeFailure, TailCommit, FailCommit, ReviewApply, CancelTask, Crash
<1>5. CASE StartCreate(s) \/ PersistStage(s) \/ RetryCreate(s) \/ CancelPersist(s)
  BY <1>2, <1>3, <1>5, FreeMeansCurrent
  DEF StartCreate, PersistStage, RetryCreate, CancelPersist, Transition, Begins, Advances,
      Retries, Cancels
<1>6. QED
  BY <1>1, <1>4, <1>5 DEF Serve

-----------------------------------------------------------------------------
(* A failure is recorded once *)

\* Only the request that creates the run starts to work on it as its creator.
LEMMA CreatingKept ==
  ASSUME CoreInv, NEW s \in Sessions, Request(s) \/ Serve(s) \/ Crash(s), Creating(s)'
  PROVE  Creating(s) \/ Begins(s)
<1>1. SessionsTyped
  BY TypeParts DEF CoreInv
<1>2. ~Finish(s)
  BY <1>1 DEF SessionsTyped, Finish, Creating
<1>3. ~Request(s)
  <2>1. Request(s) => pc'[s] = "startCreate" \/ req'[s].op \in {"retry", "review", "cancel"}
    BY <1>1
    DEF SessionsTyped, Request, StartRead, RetryLoad, ReviewCheck, CancelLoad, NoRequest
  <2>2. QED
    BY <2>1 DEF Creating
<1>4. ASSUME pc[s] \notin {"idle", "startCreate"}, req' = req PROVE Creating(s)
  BY <1>4 DEF Creating
<1>5. CASE StartCreate(s)
  BY <1>2, <1>5 DEF StartCreate, Begins
<1>6. CASE PersistStage(s) \/ NodeFailure(s) \/ TailCommit(s)
  BY <1>2, <1>4, <1>6 DEF PersistStage, NodeFailure, TailCommit, Raise
<1>7. CASE Retrieve(s) \/ TailRead(s) \/ FailLoad(s) \/ RetryCreate(s) \/ CancelPersist(s)
  BY <1>2, <1>4, <1>7 DEF Retrieve, TailRead, FailLoad, RetryCreate, CancelPersist
<1>8. CASE FailCommit(s) \/ ReviewApply(s) \/ CancelTask(s) \/ Crash(s)
  BY <1>2, <1>8 DEF FailCommit, ReviewApply, CancelTask, Crash
<1>9. QED
  BY <1>3, <1>5, <1>6, <1>7, <1>8 DEF Serve

\* The kind of event each transition records.
LEMMA FailureKept ==
  ASSUME CoreInv, NEW s \in Sessions, Transition(s)
  PROVE  FailureRecorded' = (FailureRecorded \/ Fails(s))
<1>1. events \in Seq(EventRow) /\ state[s] \in WorkflowState
  BY TransitionTyped
<1>2. ASSUME NEW r, NEW g, NEW k, NEW p, Record(r, g, k, p)
      PROVE  FailureRecorded' = (FailureRecorded \/ k = "failure")
  <2> DEFINE e == [kind |-> k, previous |-> p, new |-> g.status]
  <2>1. events' = Append(events, e)
    BY <1>2 DEF Record
  <2>2. /\ DOMAIN events' = DOMAIN events \cup {Len(events) + 1}
        /\ events'[Len(events) + 1] = e
        /\ \A n \in DOMAIN events : events'[n] = events[n]
    BY <1>1, <2>1
  <2>3. e.kind = k
    OBVIOUS
  <2>4. QED
    BY <2>2, <2>3 DEF FailureRecorded
<1>3. CASE Fails(s)
  BY <1>2, <1>3 DEF Fails
<1>4. CASE Begins(s)
  BY <1>2, <1>4 DEF Begins, Fails
<1>5. CASE Retries(s)
  BY <1>2, <1>5 DEF Retries, Fails
<1>6. CASE Advances(s)
  <2>1. req[s].op # "failure" /\ ~Fails(s)
    BY <1>6 DEF Advances, Fails, CoreInv, Holding
  <2>2. QED
    BY <1>2, <1>6, <2>1 DEF Advances
<1>7. CASE Cancels(s)
  BY <1>2, <1>7 DEF Cancels, Fails
<1>8. CASE Decides(s)
  BY <1>2, <1>8 DEF Decides, Fails
<1>9. QED
  BY <1>3, <1>4, <1>5, <1>6, <1>7, <1>8 DEF Transition

\* A request's step keeps the creator unique and its failure unrecorded.
LEMMA SessionFailsOnce ==
  ASSUME CoreInv, CourseInv, NEW s \in Sessions, Request(s) \/ Serve(s) \/ Crash(s), OthersStay(s)
  PROVE  FailsOnce'
<1>1. \A t \in Sessions \ {s} : Creating(t)' <=> Creating(t)
  BY DEF OthersStay, Creating
<1>2. CASE Begins(s)
  <2>1. run.version = 0
    BY <1>2 DEF Begins, CoreInv, Begun
  <2>2. \A t \in Sessions : ~Creating(t)
    BY <2>1 DEF Creating, CoreInv, Holding
  <2>3. ~FailureRecorded /\ ~Fails(s)
    BY <1>2, <2>1, TransitionTyped DEF FailureRecorded, Begins, Fails
  <2>4. ~FailureRecorded'
    BY <1>2, <2>3, FailureKept DEF Transition
  <2>5. QED
    BY <1>1, <2>2, <2>4 DEF FailsOnce
<1>3. CASE Fails(s)
  <2>1. Creating(s) /\ ~Creating(s)'
    BY <1>3, TypeParts DEF Fails, Finish, Creating, CourseInv, Course, CoreInv, SessionsTyped
  <2>2. \A t \in Sessions : ~Creating(t)'
    BY <1>1, <2>1 DEF CourseInv, FailsOnce
  <2>3. QED
    BY <2>2 DEF FailsOnce
<1>4. CASE ~Begins(s) /\ ~Fails(s)
  <2>1. \A t \in Sessions : Creating(t)' => Creating(t)
    BY <1>1, <1>4, CreatingKept
  <2>2. FailureRecorded' = FailureRecorded
    <3>1. CASE Quiet
      BY <3>1 DEF Quiet, FailureRecorded
    <3>2. CASE Transition(s)
      BY <1>4, <3>2, FailureKept DEF FailureRecorded
    <3>3. QED
      BY <3>1, <3>2, SessionStepKind
  <2>3. QED
    BY <2>1, <2>2 DEF CourseInv, FailsOnce
<1>5. QED
  BY <1>2, <1>3, <1>4

\* Every step keeps every session on its course and the failure recorded once.
LEMMA CourseStep ==
  ASSUME CoreInv, AllIntent, CourseInv, [Next]_vars
  PROVE  CourseInv'
<1>1. ASSUME NEW s \in Sessions, Request(s) \/ Serve(s) \/ Crash(s)
      PROVE  CourseInv'
  <2>1. OthersStay(s)
    BY <1>1, SessionIntends
  <2>2. Course(s)'
    BY <1>1, SessionCourse DEF CourseInv
  <2>3. \A t \in Sessions \ {s} : Course(t)'
    BY <2>1 DEF OthersStay, CourseInv, Course
  <2>4. FailsOnce'
    BY <1>1, <2>1, SessionFailsOnce
  <2>5. QED
    BY <2>2, <2>3, <2>4 DEF CourseInv
<1>2. CASE UNCHANGED vars \/ \E d \in Docs : DocumentStored(d) \/ DocumentReady(d)
  <2>1. UNCHANGED <<events, pc, req, row, state>>
    BY <1>2 DEF vars, DocumentStored, DocumentReady, dbVars, sessionVars
  <2>2. QED
    BY <2>1 DEF CourseInv, Course, FailsOnce, Creating, FailureRecorded
<1>3. QED
  BY <1>1, <1>2 DEF Next

\* Courses, at any time.
LEMMA CourseInvariance == Spec => []CourseInv
<1>1. Init => CourseInv
  BY DEF Init, CourseInv, Course, FailsOnce, Creating
<1>2. QED
  BY <1>1, CourseStep, CoreInvariance, IntentInvariance, PTL DEF Spec

-----------------------------------------------------------------------------
(* The refinement *)

\* The graph's step of the run is a step of the abstract one.
LEMMA AdvancesImplement ==
  ASSUME CoreInv, CourseInv, NEW s \in Sessions, Advances(s)
  PROVE  Lifecycle!LifecycleNext
<1> DEFINE g == state[s]
<1>1. /\ g \in WorkflowState /\ run.human \in BOOLEAN
      /\ Record(RowWith(run, g), g, req[s].op, run.status)
  BY TransitionTyped DEF Advances, WorkflowRun
<1>2. /\ run'.version = run.version + 1 /\ run'.status = g.status /\ run'.stage = g.stage
      /\ run'.human = g.human /\ run'.retryCount = run.retryCount
  BY <1>1, TakenOver
<1>3. FailureRecorded' = FailureRecorded
  BY FailureKept DEF Transition, FailureRecorded, Advances, Fails
<1>4. Follows(run, g) /\ g.human \in BOOLEAN
  BY <1>1 DEF Advances, CourseInv, Course, WorkflowState
<1> HIDE DEF g
<1>5. CASE run.status = "created" /\ run.stage = "created"
  <2>1. Lifecycle!Gather
    BY <1>2, <1>3, <1>4, <1>5
    DEF Follows, Lifecycle!Gather, Lifecycle!Step, FailureRecorded, EvidenceStates
  <2>2. QED
    BY <2>1 DEF Lifecycle!LifecycleNext
<1>6. CASE run.status = "gathering_evidence" /\ run.stage = "gathering_evidence"
  <2>1. g.status \in EvidenceStates /\ g.stage = "evaluating_evidence" /\ g.human = run.human
    BY <1>4, <1>6 DEF Follows, EvidenceStates
  <2>2. Lifecycle!Evaluate
    BY <1>2, <1>3, <1>6, <2>1 DEF Lifecycle!Evaluate, Lifecycle!Step, FailureRecorded
  <2>3. QED
    BY <2>2 DEF Lifecycle!LifecycleNext
<1>7. CASE run.status \in EvidenceStates /\ run.stage = "evaluating_evidence"
  <2>1. /\ g.status = run.status /\ g.stage = "determining_review_requirements"
        /\ g.human = run.human
    BY <1>4, <1>7 DEF Follows, EvidenceStates
  <2>2. Lifecycle!Route
    BY <1>2, <1>3, <1>7, <2>1 DEF Lifecycle!Route, Lifecycle!Step, FailureRecorded
  <2>3. QED
    BY <2>2 DEF Lifecycle!LifecycleNext
<1>8. CASE run.status \in EvidenceStates /\ run.stage = "determining_review_requirements"
  <2>1. /\ g.status = IF g.human THEN "awaiting_human_review" ELSE "completed"
        /\ g.stage = g.status
        /\ run.human \/ run.status # "answerable" => g.human
    BY <1>4, <1>8 DEF Follows, EvidenceStates
  <2>2. run'.stage # "determining_review_requirements"
    BY <1>2, <2>1
  <2>3. Lifecycle!Deliver
    BY <1>2, <1>3, <1>4, <1>8, <2>1, <2>2
    DEF Lifecycle!Deliver, Lifecycle!Step, FailureRecorded
  <2>4. QED
    BY <2>3 DEF Lifecycle!LifecycleNext
<1>9. QED
  BY <1>4, <1>5, <1>6, <1>7, <1>8 DEF Follows

\* So is the beginning of the run, and of a retry.
LEMMA BeginningsImplement ==
  ASSUME CoreInv, AllIntent, NEW s \in Sessions, Begins(s) \/ Retries(s)
  PROVE  Lifecycle!LifecycleNext
<1>1. FailureRecorded' = FailureRecorded
  BY FailureKept DEF Transition, FailureRecorded, Begins, Retries, Fails
<1>2. /\ state[s].status = "created" /\ state[s].stage = "created"
      /\ state[s].human \in BOOLEAN
  BY TransitionTyped DEF Begins, Retries, CoreInv, Holding, WorkflowState
<1>3. CASE Begins(s)
  <2>1. /\ run.status = "absent" /\ run'.version = run.version + 1 /\ run'.status = "created"
        /\ run'.stage = "created" /\ run'.human \in BOOLEAN /\ run'.retryCount = run.retryCount
    BY <1>2, <1>3, BeginsRow DEF Begins, CoreInv, Begun, NoRun
  <2>2. Lifecycle!Begin
    BY <1>1, <2>1 DEF Lifecycle!Begin, Lifecycle!Step, FailureRecorded
  <2>3. QED
    BY <2>2 DEF Lifecycle!LifecycleNext
<1>4. CASE Retries(s)
  <2>1. /\ run.status \in {"failed", "awaiting_additional_information"}
        /\ run.retryCount < MaxRetries
    BY <1>4 DEF Retries, AllIntent, Intent
  <2>2. /\ run'.version = run.version + 1 /\ run'.status = "created" /\ run'.stage = "created"
        /\ run'.human \in BOOLEAN /\ run'.retryCount = run.retryCount + 1
    BY <1>2, <1>4, RetriesRow
  <2>3. Lifecycle!Retry
    BY <1>1, <2>1, <2>2 DEF Lifecycle!Retry, Lifecycle!Step, FailureRecorded
  <2>4. QED
    BY <2>3 DEF Lifecycle!LifecycleNext
<1>5. QED
  BY <1>3, <1>4

\* So are the endings: a decision, a cancellation and the recorded failure.
LEMMA EndingsImplement ==
  ASSUME CoreInv, AllIntent, CourseInv, NEW s \in Sessions, Decides(s) \/ Cancels(s) \/ Fails(s)
  PROVE  Lifecycle!LifecycleNext
<1>1. run.version > 0 /\ run.status # "absent"
  BY TransitionTyped DEF Decides, Cancels, Fails, CoreInv, Holding, Begun
<1>2. CASE Decides(s)
  <2> DEFINE g == Decided(req[s].action)
  <2>1. req[s].action \in AllReviewActions /\ run.status = "awaiting_human_review"
    BY <1>2 DEF Decides, CoreInv, Holding
  <2>2. /\ g \in WorkflowState /\ g.human = run.human /\ g.stage = g.status
        /\ g.status \in {"completed", "awaiting_additional_information"}
    BY <1>1, <2>1, DecidedType, LatestHuman DEF Decided, WorkflowState
  <2>3. Record(RowWith(run, g), g, "review", run.status)
    BY <1>2 DEF Decides
  <2> HIDE DEF g
  <2>4. /\ run'.version = run.version + 1 /\ run'.status = g.status /\ run'.stage = g.stage
        /\ run'.human = run.human /\ run'.retryCount = run.retryCount
    BY <2>2, <2>3, TakenOver
  <2>5. FailureRecorded' = FailureRecorded
    BY <1>2, FailureKept DEF Transition, FailureRecorded, Decides, Fails
  <2>6. Lifecycle!Decide
    BY <2>1, <2>2, <2>4, <2>5 DEF Lifecycle!Decide, Lifecycle!Step, FailureRecorded
  <2>7. QED
    BY <2>6 DEF Lifecycle!LifecycleNext
<1>3. CASE Cancels(s)
  <2>1. /\ state[s] \in WorkflowState /\ state[s].status = "cancelled"
        /\ state[s].stage = "cancelled" /\ state[s].human = run.human
        /\ run.status \notin {"completed", "cancelled"}
    BY <1>3, TransitionTyped DEF Cancels, AllIntent, Intent, CourseInv, Course
  <2>2. Record(RowWith(run, state[s]), state[s], "cancel", run.status)
    BY <1>3 DEF Cancels
  <2>3. /\ run'.version = run.version + 1 /\ run'.status = "cancelled" /\ run'.stage = "cancelled"
        /\ run'.human = run.human /\ run'.retryCount = run.retryCount
    BY <2>1, <2>2, TakenOver
  <2>4. FailureRecorded' = FailureRecorded
    BY <1>3, FailureKept DEF Transition, FailureRecorded, Cancels, Fails
  <2>5. Lifecycle!Cancel
    BY <1>1, <2>1, <2>3, <2>4 DEF Lifecycle!Cancel, Lifecycle!Step, FailureRecorded
  <2>6. QED
    BY <2>5 DEF Lifecycle!LifecycleNext
<1>4. CASE Fails(s)
  <2>1. /\ state[s] \in WorkflowState /\ state[s].status = "failed"
        /\ state[s].stage = "failed" /\ state[s].human = run.human
    BY <1>4, TransitionTyped DEF Fails, AllIntent, Intent, CourseInv, Course
  <2>2. Record(RowWith(run, state[s]), state[s], "failure", run.status)
    BY <1>4 DEF Fails
  <2>3. /\ run'.version = run.version + 1 /\ run'.status = "failed" /\ run'.stage = "failed"
        /\ run'.human = run.human /\ run'.retryCount = run.retryCount
    BY <2>1, <2>2, TakenOver
  <2>4. ~FailureRecorded
    BY <1>4 DEF Fails, CourseInv, Course, FailsOnce, Creating
  <2>5. FailureRecorded'
    BY <1>4, FailureKept DEF Transition
  <2>6. Lifecycle!RecordFailure
    BY <1>1, <2>3, <2>4, <2>5 DEF Lifecycle!RecordFailure, Lifecycle!Step, FailureRecorded
  <2>7. QED
    BY <2>6 DEF Lifecycle!LifecycleNext
<1>5. QED
  BY <1>2, <1>3, <1>4

\* However requests interleave, crash and lose commits, the run lives the
\* life of one atomic object: every step is a step of WorkflowLifecycle or
\* leaves what it shows alone.
THEOREM LifecycleIsImplemented == Spec => ImplementsLifecycle
<1>1. Init => Lifecycle!LifecycleInit
  BY DEF Init, NoRun, Lifecycle!LifecycleInit
<1>2. CoreInv /\ AllIntent /\ CourseInv /\ [Next]_vars
        => [Lifecycle!LifecycleNext]_(Lifecycle!lifecycleVars)
  <2> SUFFICES ASSUME CoreInv, AllIntent, CourseInv, [Next]_vars
               PROVE  Lifecycle!LifecycleNext \/ UNCHANGED Lifecycle!lifecycleVars
    OBVIOUS
  <2>1. CASE Quiet
    BY <2>1 DEF Quiet, Lifecycle!lifecycleVars
  <2>2. ASSUME NEW s \in Sessions, Transition(s) PROVE Lifecycle!LifecycleNext
    BY <2>2, AdvancesImplement, BeginningsImplement, EndingsImplement DEF Transition
  <2>3. QED
    BY <2>1, <2>2, StepKind
<1>3. QED
  BY <1>1, <1>2, CoreInvariance, IntentInvariance, CourseInvariance, PTL
  DEF Spec, ImplementsLifecycle, Lifecycle!LifecycleSpec

-----------------------------------------------------------------------------
(* Requests one after the other *)

\* Requests are served one at a time.
OneAtATime == \E s : Sessions = {s}

-----------------------------------------------------------------------------
(* The invariant *)

\* A request that nobody interferes with holds the run itself, and finds the
\* rows it saw still there.
Attended(s) ==
  /\ pc[s] \notin {"idle", "startCreate", "failLoad", "cancelTask"} => row[s] = run
  /\ pc[s] = "startCreate" => run.version = 0
  /\ pc[s] \in {"failLoad", "failCommit"} => run.status \in ProcessingStatus
  /\ pc[s] = "retryCreate" /\ task = "open" => state[s].human
  /\ pc[s] \in {"tailRead", "tailCommit"} =>
       run.status = IF state[s].human THEN "awaiting_human_review" ELSE "completed"
  /\ pc[s] = "tailCommit" =>
       (seen[s].artifact <=> artifact # 0) /\ (seen[s].task <=> task # "none")
  /\ pc[s] = "cancelTask" => run.status = "cancelled"

\* The task fits the run, but for the moments between the two commits of the
\* tail and of cancel.  An open task keeps the run calling for a human.
TaskFits(s) ==
  /\ run.version = 0 => task = "none"
  /\ run.status \notin {"completed", "cancelled"} => task \in {"none", "open"}
  /\ run.status \in ProcessingStatus /\ task = "open" => run.human
  /\ run.status = "awaiting_human_review" => run.human
  /\ run.status = "awaiting_human_review" /\ pc[s] \notin {"tailRead", "tailCommit"} =>
       task = "open" /\ artifact = run.version
  /\ run.status \in {"completed", "cancelled"} /\ pc[s] # "cancelTask" => task # "open"

\* A human has asked for more.
Returned == \E a \in actions : IsReview(a) /\ a.action \notin TerminalActions

\* Until the run is over the task that asks for the human's decision is open.
HoldInv ==
  /\ HumanHold
  /\ Returned /\ run.status \notin {"completed", "cancelled"} => task = "open"

SequentialInv == HoldInv /\ \A s \in Sessions : Attended(s) /\ TaskFits(s)

-----------------------------------------------------------------------------
(* Steps that record nothing *)

\* While the session's copy is the run, its next version is free.
LEMMA AttendedFree ==
  ASSUME CoreInv, NEW s \in Sessions, row[s] = run
  PROVE  VersionFree(row[s].version)
<1>1. run.version \in Nat /\ DOMAIN checkpoints = 1..run.version
  BY TransitionTyped
<1>2. QED
  BY <1>1 DEF VersionFree

\* A request that ends and has left the database alone.
LEMMA FinishFits ==
  ASSUME CoreInv, NEW s \in Sessions, TaskFits(s), Finish(s), UNCHANGED <<run, task, artifact>>,
         pc[s] \notin {"tailRead", "tailCommit", "cancelTask"}
  PROVE  Attended(s)' /\ TaskFits(s)'
<1>1. pc'[s] = "idle"
  BY TypeParts DEF CoreInv, SessionsTyped, Finish
<1>2. QED
  BY <1>1 DEF Attended, TaskFits

\* What a client's request finds.
LEMMA RequestFits ==
  ASSUME CoreInv, NEW s \in Sessions, Attended(s), TaskFits(s), Request(s)
  PROVE  Attended(s)' /\ TaskFits(s)'
<1>1. SessionsTyped /\ UNCHANGED <<run, task, artifact>> /\ pc[s] = "idle"
  BY TypeParts
  DEF CoreInv, Request, StartRead, RetryLoad, ReviewCheck, CancelLoad, dbVars
<1>2. CASE StartRead(s)
  <2>1. pc'[s] = "startCreate" /\ run.version = 0
    BY <1>1, <1>2 DEF StartRead, SessionsTyped, CoreInv, Begun
  <2>2. QED
    BY <1>1, <2>1 DEF Attended, TaskFits
<1>3. CASE RetryLoad(s)
  <2>1. PICK other \in OtherTaskOpen :
          state' = [state EXCEPT ![s] = InitialState(other \/ task = "open", Fingerprint)]
    BY <1>3 DEF RetryLoad
  <2>2. task = "open" => state'[s].human
    BY <1>1, <2>1 DEF SessionsTyped, InitialState
  <2>3. pc'[s] = "retryCreate" /\ row'[s] = run
    BY <1>1, <1>3 DEF RetryLoad, SessionsTyped
  <2>4. QED
    BY <1>1, <2>2, <2>3 DEF Attended, TaskFits
<1>4. CASE ReviewCheck(s) \/ CancelLoad(s)
  <2>1. pc'[s] \in {"reviewApply", "cancelPersist"} /\ row'[s] = run
    BY <1>1, <1>4 DEF ReviewCheck, CancelLoad, SessionsTyped
  <2>2. QED
    BY <1>1, <2>1 DEF Attended, TaskFits
<1>5. QED
  BY <1>2, <1>3, <1>4 DEF Request

\* The reads of a request that is being served, and a failing node.
LEMMA ServeReadFits ==
  ASSUME CoreInv, AllIntent, CourseInv, NEW s \in Sessions, Attended(s), TaskFits(s),
         Retrieve(s) \/ NodeFailure(s) \/ TailRead(s) \/ FailLoad(s)
  PROVE  Attended(s)' /\ TaskFits(s)'
<1>1. SessionsTyped /\ UNCHANGED <<run, task, artifact>>
  BY TypeParts DEF CoreInv, Retrieve, NodeFailure, TailRead, FailLoad, dbVars
<1>2. CASE Retrieve(s)
  <2>1. pc'[s] = "persist" /\ row' = row /\ pc[s] = "retrieve"
    BY <1>1, <1>2 DEF Retrieve, SessionsTyped
  <2>2. QED
    BY <1>1, <2>1 DEF Attended, TaskFits
<1>3. CASE NodeFailure(s)
  <2>1. pc[s] = "retrieve" /\ run.status = "gathering_evidence"
    BY <1>3 DEF NodeFailure, Attended, CourseInv, Course
  <2>2. pc'[s] \in {"failLoad", "idle"}
    BY <1>1, <1>3 DEF NodeFailure, Raise, Finish, SessionsTyped
  <2>3. QED
    BY <1>1, <2>1, <2>2 DEF Attended, TaskFits, ProcessingStatus
<1>4. CASE TailRead(s)
  <2>1. /\ pc[s] = "tailRead" /\ pc'[s] = "tailCommit" /\ row' = row /\ state' = state
        /\ (seen'[s].artifact <=> artifact # 0) /\ (seen'[s].task <=> task # "none")
    BY <1>1, <1>4 DEF TailRead, SessionsTyped
  <2>2. QED
    BY <1>1, <2>1 DEF Attended, TaskFits
<1>5. CASE FailLoad(s)
  <2>1. pc[s] = "failLoad" /\ pc'[s] = "failCommit" /\ row'[s] = run
    BY <1>1, <1>5 DEF FailLoad, SessionsTyped
  <2>2. QED
    BY <1>1, <2>1 DEF Attended, TaskFits
<1>6. QED
  BY <1>2, <1>3, <1>4, <1>5

\* The tail finds the rows it read, and leaves a waiting run with its task
\* and its artifact.
LEMMA TailCommitFits ==
  ASSUME CoreInv, NEW s \in Sessions, Attended(s), TaskFits(s), TailCommit(s)
  PROVE  /\ Attended(s)' /\ TaskFits(s)'
         /\ task' = task \/ task' = "open"
<1>1. /\ SessionsTyped /\ pc[s] = "tailCommit" /\ row[s] = run
      /\ (seen[s].artifact <=> artifact # 0) /\ (seen[s].task <=> task # "none")
      /\ run.status = IF state[s].human THEN "awaiting_human_review" ELSE "completed"
      /\ run.version > 0 /\ run' = run
  BY TypeParts DEF CoreInv, TailCommit, Attended, Holding
<1>2. ~TailCollides(s)
  BY <1>1 DEF TailCollides
<1>3. artifact' = run.version /\ task' = TaskAfterTail(s) /\ pc'[s] = "idle"
  BY <1>1, <1>2 DEF TailCommit, Finish, SessionsTyped
<1>4. state[s].human => task \in {"none", "open"} /\ task' = "open"
  BY <1>1, <1>3 DEF TaskAfterTail, TaskFits
<1>5. ~state[s].human => task # "open" /\ task' = task
  BY <1>1, <1>3 DEF TaskAfterTail, TaskFits
<1>6. QED
  BY <1>1, <1>3, <1>4, <1>5 DEF Attended, TaskFits, ProcessingStatus, EvidenceStates

\* The second commit of cancel closes the task.
LEMMA CancelTaskFits ==
  ASSUME CoreInv, NEW s \in Sessions, Attended(s), TaskFits(s), CancelTask(s)
  PROVE  Attended(s)' /\ TaskFits(s)' /\ run.status = "cancelled"
<1>1. run' = run /\ artifact' = artifact /\ pc'[s] = "idle" /\ run.status = "cancelled"
      /\ run.version > 0
  BY TypeParts DEF CoreInv, SessionsTyped, CancelTask, Finish, Attended, Holding
<1>2. task' # "open"
  BY DEF CancelTask
<1>3. QED
  BY <1>1, <1>2 DEF Attended, TaskFits, ProcessingStatus, EvidenceStates
-----------------------------------------------------------------------------
(* Steps that record a version *)

\* A session that goes on to the graph holds what it recorded, and comes to
\* the tail at the end of the graph only.
LEMMA ContinueFits ==
  ASSUME CoreInv, NEW s \in Sessions, NEW r \in WorkflowRun, NEW g \in WorkflowState,
         Continue(s, r, g), run' = r, OnGraph(g), r.status = g.status, r.version > 0
  PROVE  /\ Attended(s)'
         /\ run'.status = "awaiting_human_review" => pc'[s] = "tailRead"
         /\ pc'[s] # "cancelTask"
<1>1. pc'[s] = AfterStage(g)[1] /\ state'[s] = AfterStage(g)[2] /\ row'[s] = r
  BY TypeParts DEF CoreInv, Continue, SessionsTyped
<1>2. AfterStage(g)[1] \in {"persist", "retrieve", "tailRead"}
  BY AfterStageType
<1>3. ASSUME AfterStage(g)[1] = "tailRead"
      PROVE  /\ AfterStage(g)[2] = g
             /\ g.status = IF g.human THEN "awaiting_human_review" ELSE "completed"
  BY <1>3 DEF AfterStage, OnGraph
<1>4. ASSUME g.status = "awaiting_human_review" PROVE AfterStage(g)[1] = "tailRead"
  BY <1>4 DEF AfterStage, OnGraph, EvidenceStates
<1>5. QED
  BY <1>1, <1>2, <1>3, <1>4 DEF Attended

\* The graph comes to its end with a human when the task is open.
LEMMA AdvancesFits ==
  ASSUME CoreInv, AllIntent, CourseInv, NEW s \in Sessions, Attended(s), TaskFits(s),
         Advances(s)
  PROVE  /\ Attended(s)' /\ TaskFits(s)'
         /\ run.status \in ProcessingStatus
         /\ state[s].status = "completed" => task # "open"
<1>1. /\ state[s] \in WorkflowState /\ run \in WorkflowRun /\ run.version \in Nat
      /\ Record(RowWith(run, state[s]), state[s], req[s].op, run.status)
      /\ Continue(s, RowWith(run, state[s]), state[s])
      /\ task' = task
  BY TransitionTyped DEF Advances
<1>2. /\ run' \in WorkflowRun /\ run'.version = run.version + 1
      /\ run'.status = state[s].status /\ run'.human = state[s].human
      /\ run' = RowWith(run, state[s])
  BY <1>1, TakenOver DEF Record
<1>3. Follows(run, state[s]) /\ run.status \in ProcessingStatus
  BY DEF Advances, CourseInv, Course, AllIntent, Intent
<1>4. /\ Attended(s)' /\ pc'[s] # "cancelTask"
      /\ run'.status = "awaiting_human_review" => pc'[s] = "tailRead"
  BY <1>1, <1>2, <1>3, FollowsOnGraph, ContinueFits
<1>5. task \in {"none", "open"} /\ (task = "open" => run.human)
  BY <1>3 DEF TaskFits, ProcessingStatus, EvidenceStates
<1>6. /\ task = "open" => state[s].human
      /\ state[s].status = "awaiting_human_review" => state[s].human
      /\ state[s].status = "completed" => ~state[s].human
      /\ state[s].status # "cancelled"
  BY <1>3, <1>5 DEF Follows, EvidenceStates
<1>7. TaskFits(s)'
  BY <1>1, <1>2, <1>4, <1>5, <1>6 DEF TaskFits
<1>8. QED
  BY <1>3, <1>4, <1>6, <1>7

\* The run begins without a task, and a retry with the call for a human that
\* an open task makes.
LEMMA BeginningsFit ==
  ASSUME CoreInv, AllIntent, NEW s \in Sessions, Attended(s), TaskFits(s),
         Begins(s) \/ Retries(s)
  PROVE  Attended(s)' /\ TaskFits(s)'
<1>1. /\ state[s] \in WorkflowState /\ OnGraph(state[s]) /\ run.version \in Nat
      /\ state[s].status = "created"
  BY TransitionTyped DEF Begins, Retries, CoreInv, Holding, OnGraph
<1>2. \E r \in WorkflowRun :
        /\ run' = r /\ Continue(s, r, state[s])
        /\ r.version = run.version + 1 /\ r.status = "created" /\ r.human = state[s].human
  BY <1>1, BeginsRow, RetriesRow DEF Begins, Retries
<1>3. Attended(s)' /\ run'.version = run.version + 1 /\ run'.status = "created"
      /\ run'.human = state[s].human
  BY <1>1, <1>2, ContinueFits
<1>4. task' = task /\ task \in {"none", "open"} /\ (task = "open" => state[s].human)
  BY DEF Begins, Retries, Attended, TaskFits, AllIntent, Intent
<1>5. QED
  BY <1>1, <1>3, <1>4 DEF TaskFits

\* A decision finds the task open and leaves it closed or open as the action
\* says; a recorded failure finds no closed task; a cancelled run keeps its
\* task until the next commit.
LEMMA EndingsFit ==
  ASSUME CoreInv, AllIntent, NEW s \in Sessions, Attended(s), TaskFits(s),
         Decides(s) \/ Cancels(s) \/ Fails(s)
  PROVE  Attended(s)' /\ TaskFits(s)'
<1>1. SessionsTyped /\ run.version \in Nat
  BY TypeParts, TransitionTyped DEF CoreInv
<1>2. CASE Decides(s)
  <2> DEFINE g == Decided(req[s].action)
  <2>1. req[s].action \in AllReviewActions /\ run.version > 0
    BY <1>2 DEF Decides, CoreInv, Holding
  <2>2. /\ g \in WorkflowState
        /\ g.status = IF req[s].action \in TerminalActions THEN "completed"
                      ELSE "awaiting_additional_information"
    BY <2>1, DecidedType
  <2>3. Record(RowWith(run, g), g, "review", run.status)
    BY <1>2 DEF Decides
  <2> HIDE DEF g
  <2>4. run'.version = run.version + 1 /\ run'.status = g.status
    BY <2>2, <2>3, TakenOver
  <2>5. task = "open"
    BY <1>2 DEF Decides, TaskFits
  <2>6. task' = IF req[s].action \in TerminalActions THEN "completed" ELSE "open"
    BY <1>2, <2>5 DEF Decides, TaskAfterReview
  <2>7. pc'[s] = "idle"
    BY <1>1, <1>2 DEF Decides, Finish, SessionsTyped
  <2>8. QED
    BY <1>1, <2>2, <2>4, <2>6, <2>7 DEF Attended, TaskFits, ProcessingStatus, EvidenceStates
<1>3. CASE Cancels(s)
  <2>1. /\ state[s] \in WorkflowState /\ state[s].status = "cancelled" /\ task' = task
        /\ Record(RowWith(run, state[s]), state[s], "cancel", run.status)
    BY <1>3, TransitionTyped DEF Cancels, AllIntent, Intent
  <2>2. run'.version = run.version + 1 /\ run'.status = "cancelled"
    BY <2>1, TakenOver
  <2>3. pc'[s] = "cancelTask"
    BY <1>1, <1>3 DEF Cancels, SessionsTyped
  <2>4. QED
    BY <1>1, <2>1, <2>2, <2>3 DEF Attended, TaskFits, ProcessingStatus, EvidenceStates
<1>4. CASE Fails(s)
  <2>1. /\ state[s] \in WorkflowState /\ state[s].status = "failed" /\ task' = task
        /\ Record(RowWith(run, state[s]), state[s], "failure", run.status)
    BY <1>4, TransitionTyped DEF Fails, AllIntent, Intent
  <2>2. run'.version = run.version + 1 /\ run'.status = "failed"
    BY <2>1, TakenOver
  <2>3. pc'[s] = "idle"
    BY <1>1, <1>4 DEF Fails, Finish, SessionsTyped
  <2>4. task \in {"none", "open"}
    BY <1>4 DEF Fails, Attended, TaskFits, ProcessingStatus, EvidenceStates
  <2>5. QED
    BY <1>1, <2>1, <2>2, <2>3, <2>4 DEF Attended, TaskFits, ProcessingStatus, EvidenceStates
<1>5. QED
  BY <1>2, <1>3, <1>4

\* A request that fails to record anything ends, nobody having come between.
LEMMA LostFits ==
  ASSUME CoreInv, NEW s \in Sessions, Attended(s), TaskFits(s),
         StartCreate(s) \/ PersistStage(s) \/ FailCommit(s) \/ RetryCreate(s)
           \/ ReviewApply(s) \/ CancelPersist(s),
         ~Transition(s)
  PROVE  Attended(s)' /\ TaskFits(s)' /\ UNCHANGED <<run, checkpoints, actions, task>>
<1>1. CASE StartCreate(s)
  <2>1. run.status = "absent"
    BY <1>1 DEF StartCreate, Attended, CoreInv, Begun
  <2>2. QED
    BY <1>1, <2>1 DEF StartCreate, Transition, Begins
<1>2. CASE PersistStage(s) \/ FailCommit(s) \/ CancelPersist(s)
  <2>1. row[s] = run /\ VersionFree(row[s].version)
    BY <1>2, AttendedFree DEF PersistStage, FailCommit, CancelPersist, Attended
  <2>2. QED
    BY <1>2, <2>1
    DEF PersistStage, FailCommit, CancelPersist, Transition, Advances, Fails, Cancels
<1>3. CASE RetryCreate(s)
  <2>1. row[s] = run
    BY <1>3 DEF RetryCreate, Attended
  <2>2. /\ Finish(s) /\ pc[s] = "retryCreate"
        /\ UNCHANGED <<run, checkpoints, actions, task, artifact>>
    BY <1>3, <2>1 DEF RetryCreate, Transition, Retries
  <2>3. QED
    BY <2>2, FinishFits
<1>4. CASE ReviewApply(s)
  <2>1. row[s] = run
    BY <1>4 DEF ReviewApply, Attended
  <2>2. /\ Finish(s) /\ pc[s] = "reviewApply"
        /\ UNCHANGED <<run, checkpoints, actions, task, artifact>>
    BY <1>4, <2>1 DEF ReviewApply, ReviewMatches, Transition, Decides, Decided
  <2>3. QED
    BY <2>2, FinishFits
<1>5. QED
  BY <1>1, <1>2, <1>3, <1>4

-----------------------------------------------------------------------------
(* The hold *)

\* What a recording step has to show about its checkpoint and its answer.
LEMMA HoldKept ==
  ASSUME CoreInv, HoldInv, NEW r, NEW g, NEW k, NEW p, Record(r, g, k, p),
         r.version = run.version + 1, actions \subseteq actions',
         \A a \in actions' \ actions : a.expected = run.version,
         g.status = "completed" /\ Returned' => g.human
  PROVE  HumanHold'
<1>1. run.version \in Nat /\ DOMAIN checkpoints = 1..run.version
  BY TransitionTyped, TypeParts DEF CoreInv, RunTyped, WorkflowRun, HistoryGapless
<1>2. /\ DOMAIN checkpoints' = 1..(run.version + 1)
      /\ \A v \in 1..run.version : checkpoints'[v] = checkpoints[v]
      /\ checkpoints'[run.version + 1] = g
  BY <1>1 DEF Record
<1>3. ASSUME NEW a \in actions', NEW v \in DOMAIN checkpoints',
             IsReview(a), a.action \notin TerminalActions, a.expected < v,
             checkpoints'[v].status = "completed"
      PROVE  checkpoints'[v].human
  <2>1. CASE v = run.version + 1
    BY <1>2, <1>3, <2>1 DEF Returned, IsReview
  <2>2. CASE v \in 1..run.version
    <3>1. a \in actions
      BY <1>1, <1>3, <2>2
    <3>2. QED
      BY <1>1, <1>2, <1>3, <2>2, <3>1 DEF HoldInv, HumanHold
  <2>3. QED
    BY <1>1, <1>2, <2>1, <2>2
<1>4. QED
  BY <1>3 DEF HumanHold, IsReview

\* Every transition keeps the task open for a human who asked for more.
LEMMA TransitionHolds ==
  ASSUME CoreInv, AllIntent, CourseInv, HoldInv, OneAnswerPerCheckpoint, NEW s \in Sessions,
         Attended(s), TaskFits(s), Transition(s)
  PROVE  HoldInv'
<1>1. state[s] \in WorkflowState /\ run.version \in Nat /\ DOMAIN checkpoints = 1..run.version
  BY TransitionTyped
<1>2. CASE Begins(s)
  <2> DEFINE new == RowWith([NoRun EXCEPT !.fingerprint = state[s].fingerprint], state[s])
  <2>1. /\ run' = new /\ new.version = run.version + 1 /\ run.version = 0
        /\ Record(new, state[s], "start", "none") /\ actions' = actions
        /\ state[s].status = "created"
    BY <1>2, BeginsRow DEF Begins, CoreInv, Holding
  <2> HIDE DEF new
  <2>2. actions = {}
    BY <1>1, <2>1 DEF OneAnswerPerCheckpoint
  <2>3. QED
    BY <2>1, <2>2 DEF HoldInv, HumanHold, Returned
<1>3. CASE Retries(s)
  <2> DEFINE new == RowWith([run EXCEPT !.retryCount = @ + 1,
                                        !.fingerprint = state[s].fingerprint], state[s])
             a == [key |-> req[s].key, action |-> "retry", expected |-> run.version,
                   docs |-> state[s].fingerprint]
  <2>1. /\ new.version = run.version + 1 /\ Record(new, state[s], "retry", run.status)
        /\ actions' = actions \cup {a} /\ task' = task
    BY <1>3, RetriesRow DEF Retries
  <2> HIDE DEF new
  <2>2. /\ state[s].status = "created"
        /\ run.status \in {"failed", "awaiting_additional_information"}
    BY <1>3 DEF Retries, CoreInv, Holding, AllIntent, Intent
  <2>3. HumanHold'
    BY <2>1, <2>2, HoldKept
  <2>4. Returned' => Returned
    BY <2>1 DEF Returned, IsReview
  <2>5. QED
    BY <2>1, <2>2, <2>3, <2>4 DEF HoldInv
<1>4. CASE Advances(s)
  <2>1. run.status \in ProcessingStatus /\ (state[s].status = "completed" => task # "open")
    BY <1>4, AdvancesFits
  <2>2. /\ RowWith(run, state[s]).version = run.version + 1
        /\ Record(RowWith(run, state[s]), state[s], req[s].op, run.status)
        /\ actions' = actions /\ task' = task
    BY <1>1, <1>4, TransitionTyped, RowWithFields DEF Advances
  <2>3. Returned' = Returned /\ (Returned => task = "open")
    BY <2>1, <2>2 DEF Returned, HoldInv, ProcessingStatus, EvidenceStates
  <2>4. HumanHold'
    BY <2>1, <2>2, <2>3, HoldKept
  <2>5. QED
    BY <2>2, <2>3, <2>4 DEF HoldInv
<1>5. CASE Fails(s) \/ Cancels(s)
  <2>1. /\ RowWith(run, state[s]).version = run.version + 1
        /\ \E k \in {"failure", "cancel"} :
             Record(RowWith(run, state[s]), state[s], k, run.status)
        /\ actions' = actions /\ task' = task /\ state[s].status \in {"failed", "cancelled"}
    BY <1>1, <1>5, TransitionTyped, RowWithFields DEF Fails, Cancels, AllIntent, Intent
  <2>2. HumanHold'
    BY <2>1, HoldKept
  <2>3. run.status \notin {"completed", "cancelled"}
    BY <1>5
    DEF Fails, Cancels, Attended, AllIntent, Intent, ProcessingStatus, EvidenceStates
  <2>4. QED
    BY <2>1, <2>2, <2>3 DEF HoldInv, Returned
<1>6. CASE Decides(s)
  <2> DEFINE g == Decided(req[s].action)
             a == [key |-> req[s].key, action |-> req[s].action, expected |-> run.version,
                   docs |-> state[s].fingerprint]
  <2>1. req[s].action \in AllReviewActions /\ run.version > 0 /\ run.human /\ task = "open"
    BY <1>6 DEF Decides, CoreInv, Holding, TaskFits
  <2>2. g \in WorkflowState /\ g.human
    BY <2>1, DecidedType, LatestHuman DEF Decided, WorkflowState
  <2>3. g.status = IF req[s].action \in TerminalActions THEN "completed"
                   ELSE "awaiting_additional_information"
    BY <2>1, DecidedType
  <2>4. /\ Record(RowWith(run, g), g, "review", run.status)
        /\ actions' = actions \cup {a} /\ task' = TaskAfterReview(req[s].action)
    BY <1>6 DEF Decides
  <2> HIDE DEF g
  <2>5. run'.version = run.version + 1 /\ run'.status = g.status /\ run' = RowWith(run, g)
    BY <2>2, <2>4, TakenOver DEF Record
  <2>6. HumanHold'
    BY <2>2, <2>4, <2>5, HoldKept
  <2>7. run'.status # "completed" => task' = "open"
    BY <2>1, <2>3, <2>4, <2>5 DEF TaskAfterReview
  <2>8. QED
    BY <2>6, <2>7 DEF HoldInv
<1>7. QED
  BY <1>2, <1>3, <1>4, <1>5, <1>6 DEF Transition

-----------------------------------------------------------------------------
(* The sequential invariant *)

\* Every step of the one request that is served.
LEMMA SequentialServe ==
  ASSUME CoreInv, AllIntent, CourseInv, OneAnswerPerCheckpoint, HoldInv, NEW s \in Sessions,
         Attended(s), TaskFits(s), Request(s) \/ Serve(s)
  PROVE  Attended(s)' /\ TaskFits(s)' /\ HoldInv'
<1>1. ASSUME UNCHANGED <<run, checkpoints, actions>>,
             task' = task \/ task' = "open" \/ run.status = "cancelled"
      PROVE  HoldInv'
  BY <1>1 DEF HoldInv, HumanHold, Returned, IsReview
<1>2. CASE Request(s)
  <2>1. UNCHANGED <<run, checkpoints, actions, task>>
    BY <1>2 DEF Request, StartRead, RetryLoad, ReviewCheck, CancelLoad, dbVars
  <2>2. QED
    BY <1>1, <1>2, <2>1, RequestFits
<1>3. CASE Retrieve(s) \/ NodeFailure(s) \/ TailRead(s) \/ FailLoad(s)
  <2>1. UNCHANGED <<run, checkpoints, actions, task>>
    BY <1>3 DEF Retrieve, NodeFailure, TailRead, FailLoad, dbVars
  <2>2. QED
    BY <1>1, <1>3, <2>1, ServeReadFits
<1>4. CASE TailCommit(s) \/ CancelTask(s)
  <2>1. UNCHANGED <<run, checkpoints, actions>>
    BY <1>4 DEF TailCommit, CancelTask
  <2>2. QED
    BY <1>1, <1>4, <2>1, TailCommitFits, CancelTaskFits
<1>5. CASE Transition(s)
  BY <1>5, TransitionHolds, AdvancesFits, BeginningsFit, EndingsFit DEF Transition
<1>6. CASE ~Transition(s) /\ (StartCreate(s) \/ PersistStage(s) \/ FailCommit(s)
             \/ RetryCreate(s) \/ ReviewApply(s) \/ CancelPersist(s))
  BY <1>1, <1>6, LostFits
<1>7. QED
  BY <1>2, <1>3, <1>4, <1>5, <1>6 DEF Serve

\* Every step, when there is one request at a time and none is broken off.
LEMMA SequentialStep ==
  ASSUME OneAtATime, MaxCrashes = 0, CoreInv, AllIntent, CourseInv, OneAnswerPerCheckpoint,
         SequentialInv, [Next]_vars
  PROVE  SequentialInv'
<1>1. ASSUME NEW s \in Sessions, Request(s) \/ Serve(s) PROVE SequentialInv'
  <2>1. Attended(s)' /\ TaskFits(s)' /\ HoldInv'
    BY <1>1, SequentialServe DEF SequentialInv
  <2>2. \A t \in Sessions : t = s
    BY DEF OneAtATime
  <2>3. QED
    BY <2>1, <2>2 DEF SequentialInv
<1>2. \A s \in Sessions : ~Crash(s)
  <2>1. crashes \in Nat
    BY TypeParts DEF CoreInv, RestTyped
  <2>2. QED
    BY <2>1 DEF Crash
<1>3. CASE UNCHANGED vars \/ \E d \in Docs : DocumentStored(d) \/ DocumentReady(d)
  <2>1. UNCHANGED <<run, checkpoints, actions, task, artifact, pc, row, state, seen>>
    BY <1>3 DEF vars, DocumentStored, DocumentReady, dbVars, sessionVars
  <2>2. QED
    BY <2>1
    DEF SequentialInv, HoldInv, HumanHold, Returned, IsReview, Attended, TaskFits
<1>4. QED
  BY <1>1, <1>2, <1>3 DEF Next

\* The sequential invariant, at any time.
LEMMA SequentialInvariance ==
  ASSUME OneAtATime, MaxCrashes = 0
  PROVE  Spec => []SequentialInv
<1>1. Init => SequentialInv
  BY DEF Init, SequentialInv, HoldInv, HumanHold, Returned, Attended, TaskFits, NoRun,
         ProcessingStatus, EvidenceStates
<1>2. CoreInv /\ AllIntent /\ CourseInv /\ OneAnswerPerCheckpoint /\ SequentialInv /\ [Next]_vars
        => SequentialInv'
  BY SequentialStep
<1>3. QED
  BY <1>1, <1>2, CoreInvariance, IntentInvariance, CourseInvariance,
     EachCheckpointAnsweredOnce, PTL DEF Spec

\* When clients ask one after the other and no request is broken off, a run
\* at rest that waits has its open task and its own artifact, and one that is
\* over has no open task, whatever nodes failed on the way.
THEOREM RestingRunsAreConsistent ==
  ASSUME OneAtATime, MaxCrashes = 0
  PROVE  Spec => []RestingConsistent
<1>1. SequentialInv => RestingConsistent
  BY DEF OneAtATime, SequentialInv, TaskFits, RestingConsistent, AllIdle
<1>2. QED
  BY <1>1, SequentialInvariance, PTL

\* Once a human has asked for more, no automatic completion comes after it:
\* the open task makes every later attempt call for a human again.
THEOREM HumansHoldTheRun ==
  ASSUME OneAtATime, MaxCrashes = 0
  PROVE  Spec => []HumanHold
<1>1. SequentialInv => HumanHold
  BY DEF SequentialInv, HoldInv
<1>2. QED
  BY <1>1, SequentialInvariance, PTL

-----------------------------------------------------------------------------
(* Open tasks, with any number of sessions *)

\* No cancellation has broken off halfway, and no tail has opened a task late.
Orderly == failures["cancel"] = 0 /\ failures["tail"] = 0

Cancelling == \E s \in Sessions : pc[s] = "cancelTask"

\* An open task makes what is under way call for a human, and a run that is over
\* is about to close it.
OpenTaskHolds ==
  /\ run.status \in ProcessingStatus => run.human
  /\ run.status \in {"completed", "cancelled"} => Cancelling
  /\ \A s \in Sessions :
       pc[s] = "retryCreate" /\ row[s].version = run.version => state[s].human

\* A session comes to the tail with the end of the graph.
AtTail(s) ==
  pc[s] \in {"tailRead", "tailCommit"} =>
    row[s].status = IF state[s].human THEN "awaiting_human_review" ELSE "completed"

TaskInv ==
  /\ \A s \in Sessions : AtTail(s)
  /\ Orderly /\ task = "open" => OpenTaskHolds

\* A session that goes on to the graph from a state on it.
LEMMA ContinueAtTail ==
  ASSUME CoreInv, NEW s \in Sessions, NEW r \in WorkflowRun, NEW g \in WorkflowState,
         Continue(s, r, g), OnGraph(g), r.status = g.status
  PROVE  AtTail(s)' /\ pc'[s] # "retryCreate"
<1>1. pc'[s] = AfterStage(g)[1] /\ state'[s] = AfterStage(g)[2] /\ row'[s] = r
  BY TypeParts DEF CoreInv, Continue, SessionsTyped
<1>2. AfterStage(g)[1] \in {"persist", "retrieve", "tailRead"}
  BY AfterStageType
<1>3. ASSUME AfterStage(g)[1] = "tailRead"
      PROVE  /\ AfterStage(g)[2] = g
             /\ g.status = IF g.human THEN "awaiting_human_review" ELSE "completed"
  BY <1>3 DEF AfterStage, OnGraph
<1>4. QED
  BY <1>1, <1>2, <1>3 DEF AtTail

\* A session that ends its request, or raises an exception.
LEMMA RaiseAtTail ==
  ASSUME CoreInv, NEW s \in Sessions, Raise(s) \/ Finish(s)
  PROVE  AtTail(s)' /\ pc'[s] \in {"idle", "failLoad"}
<1>1. pc'[s] \in {"idle", "failLoad"}
  BY TypeParts DEF CoreInv, SessionsTyped, Raise, Finish
<1>2. QED
  BY <1>1 DEF AtTail

\* A transition keeps its session from the tail, but at the end of the graph.
LEMMA TransitionAtTail ==
  ASSUME CoreInv, CourseInv, NEW s \in Sessions, Transition(s)
  PROVE  AtTail(s)' /\ pc'[s] # "retryCreate"
<1>1. state[s] \in WorkflowState
  BY TransitionTyped
<1>2. CASE Begins(s) \/ Retries(s)
  <2>1. OnGraph(state[s])
    BY <1>2 DEF Begins, Retries, CoreInv, Holding, OnGraph
  <2>2. \E r \in WorkflowRun : Continue(s, r, state[s]) /\ r.status = state[s].status
    BY <1>2, BeginsRow, RetriesRow DEF Begins, Retries
  <2>3. QED
    BY <1>1, <2>1, <2>2, ContinueAtTail
<1>3. CASE Advances(s)
  <2>1. OnGraph(state[s])
    BY <1>3, FollowsOnGraph, TransitionTyped DEF Advances, CourseInv, Course
  <2>2. RowWith(run, state[s]) \in WorkflowRun /\ RowWith(run, state[s]).status = state[s].status
    BY <1>1, TransitionTyped, RowWithFields
  <2>3. QED
    BY <1>1, <1>3, <2>1, <2>2, ContinueAtTail DEF Advances
<1>4. CASE Fails(s) \/ Decides(s)
  BY <1>4, RaiseAtTail DEF Fails, Decides
<1>5. CASE Cancels(s)
  <2>1. pc'[s] = "cancelTask"
    BY <1>5, TransitionTyped DEF Cancels
  <2>2. QED
    BY <2>1 DEF AtTail
<1>6. QED
  BY <1>2, <1>3, <1>4, <1>5 DEF Transition

\* Steps that record nothing.  Only a retry that begins may come to create, and
\* an open task makes it call for a human.
LEMMA QuietAtTail ==
  ASSUME CoreInv, NEW s \in Sessions, AtTail(s), Request(s) \/ Serve(s) \/ Crash(s),
         ~ Transition(s)
  PROVE  AtTail(s)' /\ (pc'[s] = "retryCreate" /\ task = "open" => state'[s].human)
<1>1. SessionsTyped
  BY TypeParts DEF CoreInv
<1>2. CASE Raise(s) \/ Finish(s)
  BY <1>2, RaiseAtTail
<1>3. CASE NodeFailure(s) \/ TailCommit(s) \/ FailCommit(s) \/ ReviewApply(s) \/ CancelTask(s)
           \/ Crash(s)
  BY <1>2, <1>3 DEF NodeFailure, TailCommit, FailCommit, ReviewApply, CancelTask, Crash
<1>4. CASE StartCreate(s) \/ PersistStage(s) \/ RetryCreate(s) \/ CancelPersist(s)
  BY <1>2, <1>4, FreeMeansCurrent
  DEF StartCreate, PersistStage, RetryCreate, CancelPersist, Transition, Begins, Advances,
      Retries, Cancels
<1>5. CASE StartRead(s) \/ ReviewCheck(s) \/ CancelLoad(s) \/ FailLoad(s) \/ Retrieve(s)
  <2>1. pc'[s] \in {"startCreate", "reviewApply", "cancelPersist", "failCommit", "persist"}
    BY <1>1, <1>5
    DEF SessionsTyped, StartRead, ReviewCheck, CancelLoad, FailLoad, Retrieve
  <2>2. QED
    BY <2>1 DEF AtTail
<1>6. CASE RetryLoad(s)
  <2>1. PICK other \in OtherTaskOpen :
          state'[s] = InitialState(other \/ task = "open", Fingerprint)
    BY <1>1, <1>6 DEF RetryLoad, SessionsTyped
  <2>2. pc'[s] = "retryCreate"
    BY <1>1, <1>6 DEF RetryLoad, SessionsTyped
  <2>3. \A mandatory : InitialState(mandatory, Fingerprint).human = mandatory
    BY DEF InitialState
  <2>4. task = "open" => state'[s].human
    BY <2>1, <2>3, Zenon
  <2>5. QED
    BY <2>2, <2>4 DEF AtTail
<1>7. CASE TailRead(s)
  <2>1. pc'[s] = "tailCommit" /\ pc[s] = "tailRead" /\ row' = row /\ state' = state
    BY <1>1, <1>7 DEF TailRead, SessionsTyped
  <2>2. QED
    BY <2>1 DEF AtTail
<1>8. QED
  BY <1>3, <1>4, <1>5, <1>6, <1>7 DEF Request, Serve

\* What goes wrong is not forgotten.
LEMMA OrderlyBefore ==
  ASSUME CoreInv, NEW s \in Sessions, Request(s) \/ Serve(s) \/ Crash(s), Orderly'
  PROVE  /\ Orderly
         /\ TailCommit(s) => failures' = failures
         /\ Crash(s) => pc[s] # "cancelTask"
<1>1. failures \in [{"start", "retry", "tail", "cancel"} -> Nat]
  BY TypeParts DEF CoreInv, RestTyped
<1>2. CASE failures' = failures /\ ~ Crash(s)
  BY <1>2 DEF Orderly
<1>3. CASE Crash(s)
  BY <1>1, <1>3 DEF Crash, Orderly
<1>4. CASE TailCommit(s)
  BY <1>1, <1>4 DEF TailCommit, Orderly, Crash
<1>5. CASE NodeFailure(s)
  <2>1. req[s].op \in {"start", "retry"}
    BY <1>5 DEF NodeFailure, CoreInv, Holding
  <2>2. QED
    BY <1>1, <1>5, <2>1 DEF NodeFailure, Orderly, TailCommit, Crash
<1>6. QED
  BY <1>2, <1>3, <1>4, <1>5
  DEF Request, Serve, StartRead, RetryLoad, ReviewCheck, CancelLoad, StartCreate, PersistStage,
      Retrieve, TailRead, FailLoad, FailCommit, RetryCreate, ReviewApply, CancelPersist,
      CancelTask

\* A transition of a run with an open task.
LEMMA TransitionOpen ==
  ASSUME CoreInv, AllIntent, CourseInv, TaskExplained, NEW s \in Sessions, Transition(s),
         OthersStay(s), task = "open" => OpenTaskHolds, task' = "open"
  PROVE  OpenTaskHolds'
<1>1. /\ run \in WorkflowRun /\ run.version \in Nat /\ state[s] \in WorkflowState
      /\ \A t \in Sessions : row[t] \in WorkflowRun
      /\ pc \in [Sessions -> SessionStep]
  BY TransitionTyped
<1>2. run'.version = run.version + 1
  BY HistoryKept, TransitionRecords DEF Record
<1>3. \A t \in Sessions : pc'[t] = "retryCreate" => row'[t].version # run'.version
  <2>1. pc'[s] # "retryCreate"
    BY TransitionAtTail
  <2>2. ASSUME NEW t \in Sessions \ {s}, pc'[t] = "retryCreate"
        PROVE  row'[t].version # run'.version
    <3>1. row'[t] = row[t] /\ row[t].version \in 1..run.version
      BY <2>2 DEF OthersStay, CoreInv, Holding
    <3>2. QED
      BY <1>1, <1>2, <3>1
  <2>3. QED
    BY <2>1, <2>2
<1>4. CASE Begins(s)
  <2>1. run.version = 0
    BY <1>4 DEF Begins, CoreInv, Begun
  <2>2. task = "none"
    BY <2>1, TransitionTyped DEF TaskExplained, Reached, CoreInv, TypeOK
  <2>3. QED
    BY <1>4, <2>2 DEF Begins
<1>5. CASE Advances(s)
  <2>1. task = "open" /\ run.status \in ProcessingStatus /\ Follows(run, state[s])
    BY <1>5 DEF Advances, AllIntent, Intent, CourseInv, Course
  <2>2. run'.status = state[s].status /\ run'.human = state[s].human
    BY <1>1, <1>5, TakenOver DEF Advances
  <2>3. run.human
    BY <2>1 DEF OpenTaskHolds
  <2>4. state[s].human /\ state[s].status \notin {"completed", "cancelled"}
    BY <2>1, <2>3 DEF Follows, EvidenceStates
  <2>5. QED
    BY <1>3, <2>2, <2>4 DEF OpenTaskHolds
<1>6. CASE Retries(s)
  <2>1. state[s].human /\ state[s].status = "created"
    BY <1>6 DEF Retries, OpenTaskHolds, CoreInv, Holding
  <2>2. run'.status = state[s].status /\ run'.human = state[s].human
    BY <1>6, RetriesRow
  <2>3. QED
    BY <1>3, <2>1, <2>2 DEF OpenTaskHolds
<1>7. CASE Fails(s)
  <2>1. run'.status = "failed"
    BY <1>1, <1>7, TakenOver DEF Fails, AllIntent, Intent
  <2>2. QED
    BY <1>3, <2>1 DEF OpenTaskHolds, ProcessingStatus, EvidenceStates
<1>8. CASE Cancels(s)
  <2>1. run'.status = "cancelled" /\ pc'[s] = "cancelTask"
    BY <1>1, <1>8, TakenOver DEF Cancels, AllIntent, Intent
  <2>2. QED
    BY <1>3, <2>1 DEF OpenTaskHolds, Cancelling, ProcessingStatus, EvidenceStates
<1>9. CASE Decides(s)
  <2> DEFINE g == Decided(req[s].action)
  <2>1. req[s].action \notin TerminalActions
    BY <1>9 DEF Decides, TaskAfterReview, OpenTaskHolds
  <2>2. g \in WorkflowState
    BY <1>9, DecidedType DEF Decides, CoreInv, Holding
  <2>3. g.status = "awaiting_additional_information"
    BY <1>9, <2>1, LatestTyped DEF Decides, Decided, CoreInv, Holding, WorkflowState
  <2>4. Record(RowWith(run, g), g, "review", run.status)
    BY <1>9 DEF Decides
  <2> HIDE DEF g
  <2>5. run'.status = "awaiting_additional_information"
    BY <2>2, <2>3, <2>4, TakenOver
  <2>6. QED
    BY <1>3, <2>5 DEF OpenTaskHolds, ProcessingStatus, EvidenceStates
<1>10. QED
  BY <1>4, <1>5, <1>6, <1>7, <1>8, <1>9 DEF Transition

\* A tail that opens the task in time finds the run waiting.
LEMMA TailOpens ==
  ASSUME CoreInv, AllIntent, NEW s \in Sessions, AtTail(s), TailCommit(s), OthersStay(s),
         failures' = failures, Orderly, task # "open", task' = "open"
  PROVE  OpenTaskHolds'
<1>1. /\ failures \in [{"start", "retry", "tail", "cancel"} -> Nat]
      /\ pc[s] = "tailCommit" /\ run' = run /\ Finish(s)
      /\ task' = TaskAfterTail(s)
      /\ failures' = IF OpensLate(s) THEN [failures EXCEPT !["tail"] = 1] ELSE failures
  BY TypeParts DEF CoreInv, RestTyped, TailCommit
<1>2. ~ OpensLate(s)
  BY <1>1 DEF Orderly
<1>3. row[s] = run /\ state[s].human
  BY <1>1, <1>2 DEF OpensLate, TaskAfterTail, CoreInv, Holding
<1>4. run.status = "awaiting_human_review"
  BY <1>1, <1>3 DEF AtTail
<1>5. pc'[s] = "idle"
  BY <1>1, TypeParts DEF CoreInv, SessionsTyped, Finish
<1>6. ASSUME NEW t \in Sessions, pc'[t] = "retryCreate" PROVE row'[t].version # run'.version
  <2>1. t # s
    BY <1>5, <1>6
  <2>2. pc[t] = "retryCreate" /\ row'[t] = row[t]
    BY <1>6, <2>1 DEF OthersStay
  <2>3. row[t].status # run.status /\ (row[t].version = run.version => row[t] = run)
    BY <1>4, <2>2 DEF AllIntent, Intent, CoreInv, Holding
  <2>4. QED
    BY <1>1, <2>2, <2>3
<1>7. QED
  BY <1>1, <1>4, <1>6 DEF OpenTaskHolds, ProcessingStatus, EvidenceStates

\* Every step of a session keeps what an open task means.
LEMMA SessionTask ==
  ASSUME CoreInv, AllIntent, CourseInv, TaskExplained, TaskInv, NEW s \in Sessions,
         Request(s) \/ Serve(s) \/ Crash(s)
  PROVE  TaskInv'
<1>1. OthersStay(s)
  BY SessionIntends
<1>2. \A t \in Sessions : AtTail(t)'
  <2>1. AtTail(s)'
    BY TransitionAtTail, QuietAtTail DEF TaskInv
  <2>2. QED
    BY <1>1, <2>1 DEF OthersStay, TaskInv, AtTail
<1>3. ASSUME Orderly', task' = "open" PROVE OpenTaskHolds'
  <2>1. Orderly /\ (task = "open" => OpenTaskHolds)
    BY <1>3, OrderlyBefore DEF TaskInv
  <2>2. CASE Transition(s)
    BY <1>1, <1>3, <2>1, <2>2, TransitionOpen
  <2>3. CASE ~ Transition(s) /\ task = "open"
    <3>1. OpenTaskHolds /\ run' = run
      BY <2>1, <2>3, SessionStepKind DEF Quiet
    <3>2. Cancelling => Cancelling'
      <4>1. pc[s] # "cancelTask"
        <5>1. ~ CancelTask(s)
          BY <1>3, <2>3 DEF CancelTask
        <5>2. ~ (Crash(s) /\ pc[s] = "cancelTask")
          BY <1>3, OrderlyBefore
        <5>3. QED
          BY <5>1, <5>2
          DEF Request, Serve, StartRead, RetryLoad, ReviewCheck, CancelLoad, StartCreate,
              PersistStage, Retrieve, NodeFailure, TailRead, TailCommit, FailLoad, FailCommit,
              RetryCreate, ReviewApply, CancelPersist
      <4>2. QED
        BY <1>1, <4>1 DEF Cancelling, OthersStay
    <3>3. pc'[s] = "retryCreate" => state'[s].human
      BY <2>3, QuietAtTail DEF TaskInv
    <3>4. QED
      BY <1>1, <3>1, <3>2, <3>3 DEF OpenTaskHolds, OthersStay
  <2>4. CASE ~ Transition(s) /\ task # "open"
    <3>1. run' = run /\ actions' = actions
      BY <2>4, SessionStepKind DEF Quiet
    <3>2. TailCommit(s)
      <4>1. ~ CancelTask(s)
        BY <1>3 DEF CancelTask
      <4>2. ReviewApply(s) => task' = task
        BY <2>4, FreeMeansCurrent DEF ReviewApply, Transition, Decides, Decided, ReviewMatches,
           CoreInv, Holding
      <4>3. QED
        BY <1>3, <2>4, <4>1, <4>2
        DEF Request, Serve, StartRead, RetryLoad, ReviewCheck, CancelLoad, StartCreate,
            PersistStage, Retrieve, NodeFailure, TailRead, FailLoad, FailCommit,
            RetryCreate, CancelPersist, Crash, dbVars
    <3>3. failures' = failures
      BY <1>3, <3>2, OrderlyBefore
    <3>4. QED
      BY <1>1, <1>3, <2>1, <2>4, <3>2, <3>3, TailOpens DEF TaskInv
  <2>5. QED
    BY <2>2, <2>3, <2>4
<1>4. QED
  BY <1>2, <1>3 DEF TaskInv

LEMMA TaskStep ==
  ASSUME CoreInv, AllIntent, CourseInv, TaskExplained, TaskInv, [Next]_vars
  PROVE  TaskInv'
<1>1. CASE UNCHANGED vars \/ \E d \in Docs : DocumentStored(d) \/ DocumentReady(d)
  <2>1. UNCHANGED <<run, task, failures, pc, req, row, state>>
    BY <1>1 DEF vars, DocumentStored, DocumentReady, dbVars, sessionVars
  <2>2. QED
    BY <2>1 DEF TaskInv, AtTail, Orderly, OpenTaskHolds, Cancelling
<1>2. QED
  BY <1>1, SessionTask DEF Next

\* A review task stands for a run that waited for a human, was closed only by a
\* terminal decision or a cancellation, and is not open when the run is over,
\* but for a cancellation that is not finished or a tail that came late.
THEOREM TasksAreJustified == Spec => []TaskJustified
<1>1. Init => TaskInv
  BY DEF Init, TaskInv, AtTail
<1>2. Spec => []TaskInv
  BY <1>1, TaskStep, CoreInvariance, IntentInvariance, CourseInvariance, ExplainedInvariance,
     PTL DEF Spec
<1>3. CoreInv /\ TaskExplained /\ TaskInv => TaskJustified
  <2> SUFFICES ASSUME CoreInv, TaskExplained, TaskInv PROVE TaskJustified
    OBVIOUS
  <2>1. failures \in [{"start", "retry", "tail", "cancel"} -> Nat]
    BY TypeParts DEF CoreInv, RestTyped
  <2>2. Orderly \/ failures["cancel"] + failures["tail"] > 0
    BY <2>1 DEF Orderly
  <2>3. QED
    BY <2>2 DEF TaskInv, OpenTaskHolds, Cancelling, TaskExplained, Reached, TaskJustified
<1>4. QED
  BY <1>2, <1>3, CoreInvariance, ExplainedInvariance, PTL
=============================================================================
