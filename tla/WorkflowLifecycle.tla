------------------------- MODULE WorkflowLifecycle --------------------------
(***************************************************************************)
(* What a controlled workflow promises, as one atomic object: the life of  *)
(* a run without requests, sessions or storage.  Every step is one version *)
(* of the run.  It is the lifecycle of the diagram                         *)
(* docs/diagrams/05-langgraph-workflow.mmd, with the two edges the code    *)
(* has and the diagram lacks: a run can be cancelled in any status but     *)
(* completed and cancelled, and the request that created it may once       *)
(* record a failure, whatever became of the run meanwhile.                 *)
(***************************************************************************)
EXTENDS Naturals

CONSTANTS EvidenceOutcomes, RetryLimit

VARIABLES
  status,      \* status of the run
  version,     \* steps taken
  review,      \* whether a human has to decide, once that is known
  routed,      \* whether it is known
  retries,     \* retries spent
  failed       \* whether a failure was recorded

lifecycleVars == <<status, version, review, routed, retries, failed>>

Step(from, to) ==
  /\ status \in from
  /\ status' = to
  /\ version' = version + 1

Begin ==
  /\ Step({"absent"}, "created")
  /\ routed' = FALSE
  /\ review' \in BOOLEAN
  /\ UNCHANGED <<retries, failed>>

Gather ==
  /\ Step({"created"}, "gathering_evidence")
  /\ UNCHANGED <<review, routed, retries, failed>>

\* Evidence is evaluated; anything but a clean answer needs a human.
Evaluate ==
  /\ \E outcome \in EvidenceOutcomes : Step({"gathering_evidence"}, outcome)
  /\ UNCHANGED <<review, routed, retries, failed>>

\* The run learns whether a human has to decide.  A review an open task
\* made mandatory stays so.
Route ==
  /\ \E outcome \in EvidenceOutcomes : Step({outcome}, outcome)
  /\ ~routed
  /\ routed' = TRUE
  /\ UNCHANGED <<review, retries, failed>>

Deliver ==
  /\ routed
  /\ review' \in BOOLEAN
  /\ review => review'
  /\ status # "answerable" => review'
  /\ Step(EvidenceOutcomes, IF review' THEN "awaiting_human_review" ELSE "completed")
  /\ routed' = FALSE
  /\ UNCHANGED <<retries, failed>>

Decide ==
  /\ Step({"awaiting_human_review"}, "completed")
     \/ Step({"awaiting_human_review"}, "awaiting_additional_information")
  /\ routed' = FALSE
  /\ UNCHANGED <<review, retries, failed>>

Retry ==
  /\ Step({"failed", "awaiting_additional_information"}, "created")
  /\ retries < RetryLimit
  /\ retries' = retries + 1
  /\ review' \in BOOLEAN
  /\ routed' = FALSE
  /\ UNCHANGED failed

Cancel ==
  /\ status \notin {"absent", "completed", "cancelled"}
  /\ Step({status}, "cancelled")
  /\ routed' = FALSE
  /\ UNCHANGED <<review, retries, failed>>

RecordFailure ==
  /\ ~failed
  /\ status # "absent"
  /\ Step({status}, "failed")
  /\ routed' = FALSE
  /\ failed' = TRUE
  /\ UNCHANGED <<review, retries>>

LifecycleInit ==
  /\ status = "absent"
  /\ version = 0
  /\ review = FALSE
  /\ routed = FALSE
  /\ retries = 0
  /\ failed = FALSE

LifecycleNext ==
  \/ Begin \/ Gather \/ Evaluate \/ Route \/ Deliver \/ Decide
  \/ Retry \/ Cancel \/ RecordFailure

LifecycleSpec == LifecycleInit /\ [][LifecycleNext]_lifecycleVars
=============================================================================
