----------------------- MODULE BriefAssistanceProofs -----------------------
(* What holds of BriefAssistance for every value of its constants. *)
EXTENDS BriefAssistance, TLAPS

-----------------------------------------------------------------------------
(* Types *)

RowsTyped ==
  /\ briefs \subseteq Brief
  /\ invocations \subseteq Invocation
  /\ docs \in [Docs -> {"absent", "stored", "ready"}]
  /\ review \in ReviewStatus
  /\ requests \in Nat
  /\ crashes \in Nat

SessionsTyped ==
  /\ pc \in [Sessions -> Stage]
  /\ job \in [Sessions -> Job]

\* What a session has in hand at each stage: a key, evidence among the
\* documents there are, a fingerprint that covers it, attempts within the
\* bound, and a candidate that passed when nothing is held against it.
Holding(s) ==
  /\ job[s].evidence \subseteq Fingerprint
  /\ pc[s] # "idle" => job[s].key \in Keys
  /\ job[s].waited => review = "open"
  /\ pc[s] \in {"invoke", "record", "commit"} =>
       /\ job[s].evidence \subseteq job[s].fingerprint
       /\ Accepted(s) => Validate(job[s].candidate, job[s].evidence) = {}
  /\ pc[s] \in {"retrieve", "fingerprint"} => job[s].attempts = 0 /\ ~ job[s].answered
  /\ pc[s] = "invoke" => job[s].attempts <= MaxRetries
  /\ pc[s] \in {"record", "commit"} =>
       /\ job[s].attempts \in 1..(MaxRetries + 1)
       /\ job[s].failures # {} => job[s].attempts = MaxRetries + 1
       /\ ~ job[s].answered => job[s].failures # {}
  /\ pc[s] = "commit" => Accepted(s) /\ (job[s].waited => job[s].human)

SessionsHold == \A s \in Sessions : Holding(s)

BriefInv == RowsTyped /\ SessionsTyped /\ SessionsHold

\* The parts make the type invariant.
LEMMA TypeParts == RowsTyped /\ SessionsTyped <=> TypeOK
  BY DEF RowsTyped, SessionsTyped, TypeOK

\* The job of a session without work.
LEMMA NothingTyped == NoJob \in Job
  BY DEF NoJob, Job, NoCandidate, Candidate, Handles

\* A session that ends its request is typed and holds nothing.
LEMMA FinishHolds ==
  ASSUME BriefInv, NEW s \in Sessions, Finish(s), UNCHANGED <<docs, review>>
  PROVE  SessionsTyped' /\ SessionsHold'
<1>1. SessionsTyped'
  BY NothingTyped DEF BriefInv, SessionsTyped, Finish, Stage
<1>2. ASSUME NEW t \in Sessions
      PROVE  Holding(t)'
  <2>1. CASE t = s
    <3>1. pc'[s] = "idle" /\ job'[s] = NoJob
      BY DEF Finish, BriefInv, SessionsTyped
    <3>2. QED
      BY <2>1, <3>1 DEF Holding, NoJob
  <2>2. CASE t # s
    <3>1. pc'[t] = pc[t] /\ job'[t] = job[t]
      BY <2>2 DEF Finish, BriefInv, SessionsTyped
    <3>2. QED
      BY <3>1 DEF BriefInv, SessionsHold, Holding, Accepted, Fingerprint
  <2>3. QED
    BY <2>1, <2>2
<1>3. QED
  BY <1>1, <1>2 DEF SessionsHold

\* A session that goes on leaves the others where they are.
LEMMA GoesOn ==
  ASSUME BriefInv, NEW s \in Sessions, NEW stage \in Stage, NEW j \in Job,
         pc' = [pc EXCEPT ![s] = stage], job' = [job EXCEPT ![s] = j],
         UNCHANGED <<docs, review>>, Holding(s)'
  PROVE  SessionsTyped' /\ SessionsHold'
<1>1. SessionsTyped'
  BY DEF BriefInv, SessionsTyped
<1>2. ASSUME NEW t \in Sessions \ {s}
      PROVE  Holding(t)'
  <2>1. pc'[t] = pc[t] /\ job'[t] = job[t]
    BY DEF BriefInv, SessionsTyped
  <2>2. QED
    BY <2>1 DEF BriefInv, SessionsHold, Holding, Accepted, Fingerprint
<1>3. QED
  BY <1>1, <1>2 DEF SessionsHold

\* The rows a session writes.
LEMMA RowsOf ==
  ASSUME BriefInv, NEW s \in Sessions, pc[s] \in {"record", "commit"}
  PROVE  BriefOf(s) \in Brief /\ InvocationOf(s) \in Invocation
<1>1. job[s] \in Job /\ job[s].key \in Keys /\ job[s].attempts - 1 \in Nat
  BY BriefAssumption DEF BriefInv, SessionsTyped, SessionsHold, Holding, Job
<1>2. QED
  BY <1>1 DEF BriefOf, InvocationOf, OutcomeOf, Job, Candidate, Brief, Invocation

\* A step of the environment leaves sessions alone and removes no document.
LEMMA EnvironmentHolds ==
  ASSUME BriefInv, UNCHANGED <<pc, job, review>>, Fingerprint \subseteq Fingerprint'
  PROVE  SessionsTyped' /\ SessionsHold'
  BY DEF BriefInv, SessionsTyped, SessionsHold, Holding, Accepted

\* The fields of a job.
LEMMA JobFields ==
  ASSUME NEW j \in Job
  PROVE  /\ j.request \in Nat /\ j.evidence \subseteq Docs /\ j.fingerprint \subseteq Docs
         /\ j.attempts \in Nat /\ j.candidate \in Candidate /\ j.failures \subseteq Failure
  BY DEF Job

\* The stage and the job a session goes on with.
LEMMA JobAfter ==
  ASSUME BriefInv, NEW s \in Sessions, NEW stage, NEW j,
         pc' = [pc EXCEPT ![s] = stage], job' = [job EXCEPT ![s] = j]
  PROVE  pc'[s] = stage /\ job'[s] = j
  BY DEF BriefInv, SessionsTyped

\* An answer is typed, and is held with what _validate says of it.
LEMMA AnsweredIs ==
  ASSUME BriefInv, NEW s \in Sessions, NEW c \in Answers
  PROVE  /\ Answered(s, c) \in Job
         /\ Answered(s, c).attempts = job[s].attempts + 1
         /\ Answered(s, c).answered
         /\ Answered(s, c).candidate = c
         /\ Answered(s, c).failures = Validate(c, job[s].evidence)
         /\ Answered(s, c).evidence = job[s].evidence
         /\ Answered(s, c).fingerprint = job[s].fingerprint
         /\ Answered(s, c).key = job[s].key
         /\ Answered(s, c).waited = job[s].waited
<1>1. job[s] \in Job
  BY DEF BriefInv, SessionsTyped
<1>2. c \in Candidate /\ Validate(c, job[s].evidence) \subseteq Failure
  BY BriefAssumption DEF Candidate, Handles, Validate
<1>3. job[s].attempts + 1 \in Nat
  BY <1>1, JobFields
<1>4. Answered(s, c) \in Job
  BY <1>1, <1>2, <1>3 DEF Answered, Job
<1>5. QED
  BY <1>1, <1>4 DEF Answered, Job

\* So is an attempt without an answer, with a failure.
LEMMA NotAnsweredIs ==
  ASSUME BriefInv, NEW s \in Sessions
  PROVE  /\ NotAnswered(s) \in Job
         /\ NotAnswered(s).attempts = job[s].attempts + 1
         /\ NotAnswered(s).failures # {}
         /\ NotAnswered(s).evidence = job[s].evidence
         /\ NotAnswered(s).fingerprint = job[s].fingerprint
         /\ NotAnswered(s).key = job[s].key
         /\ NotAnswered(s).waited = job[s].waited
<1>1. job[s] \in Job
  BY DEF BriefInv, SessionsTyped
<1>2. Unanswered \subseteq Failure /\ Unanswered # {}
  BY DEF Unanswered, Failure
<1>3. job[s].attempts + 1 \in Nat
  BY <1>1, JobFields
<1>4. NotAnswered(s) \in Job
  BY <1>1, <1>2, <1>3 DEF NotAnswered, Job
<1>5. QED
  BY <1>1, <1>2, <1>4 DEF NotAnswered, Job

\* What a session holds after an attempt.
LEMMA AttemptHolds ==
  ASSUME BriefInv, NEW s \in Sessions, Attempt(s)
  PROVE  SessionsTyped' /\ SessionsHold'
<1>1. pc[s] = "invoke" /\ Holding(s) /\ UNCHANGED <<docs, review>>
  BY DEF Attempt, BriefInv, SessionsHold
<1>2. MaxRetries \in Nat /\ job[s].attempts \in Nat /\ job[s].attempts <= MaxRetries
  BY <1>1, JobFields, BriefAssumption DEF BriefInv, SessionsTyped, Holding
<1>3. PICK stage \in {"invoke", "record"} :
        /\ pc' = [pc EXCEPT ![s] = stage]
        /\ stage = "record" <=> (job'[s].failures = {} \/ job[s].attempts >= MaxRetries)
  BY DEF Attempt, LastAttempt
<1>4. PICK j \in Job :
        /\ job' = [job EXCEPT ![s] = j]
        /\ j.attempts = job[s].attempts + 1 /\ j.evidence = job[s].evidence
        /\ j.fingerprint = job[s].fingerprint
        /\ j.key = job[s].key
        /\ j.waited = job[s].waited
        /\ j.failures = {} => j.answered /\ Validate(j.candidate, j.evidence) = {}
  <2>1. CASE \E c \in Answers : job' = [job EXCEPT ![s] = Answered(s, c)]
    <3>1. PICK c \in Answers : job' = [job EXCEPT ![s] = Answered(s, c)]
      BY <2>1
    <3>2. Answered(s, c).failures = {} =>
            Validate(Answered(s, c).candidate, Answered(s, c).evidence) = {}
      BY AnsweredIs
    <3>3. QED
      BY <3>1, <3>2, AnsweredIs
  <2>2. CASE job' = [job EXCEPT ![s] = NotAnswered(s)]
    BY <2>2, NotAnsweredIs
  <2>3. QED
    BY <2>1, <2>2 DEF Attempt
<1>5. pc'[s] = stage /\ job'[s] = j
  BY <1>3, <1>4, JobAfter
<1>6. /\ stage = "invoke" => j.attempts <= MaxRetries
      /\ stage = "record" => j.attempts \in 1..(MaxRetries + 1)
      /\ (stage = "record" /\ j.failures # {}) => j.attempts = MaxRetries + 1
  BY <1>2, <1>3, <1>4, <1>5
<1>7. Holding(s)'
  BY <1>1, <1>4, <1>5, <1>6 DEF Holding, Accepted, Fingerprint
<1>8. QED
  BY <1>1, <1>3, <1>4, <1>7, GoesOn DEF Stage

\* The reads of a request keep what it holds.
LEMMA ReadsHold ==
  ASSUME BriefInv, NEW s \in Sessions, Retrieve(s) \/ TakeFingerprint(s) \/ ReadReview(s)
  PROVE  SessionsTyped' /\ SessionsHold'
<1>1. job[s] \in Job /\ Holding(s) /\ UNCHANGED <<docs, review>> /\ MaxRetries \in Nat
  BY BriefAssumption DEF Retrieve, TakeFingerprint, ReadReview, BriefInv, SessionsTyped, SessionsHold
<1>2. CASE Retrieve(s)
  <2>1. PICK found \in SUBSET ReadyDocs :
          job' = [job EXCEPT ![s] = [job[s] EXCEPT !.evidence = found]]
    BY <1>2 DEF Retrieve
  <2> DEFINE j == [job[s] EXCEPT !.evidence = found]
  <2>2. found \subseteq Fingerprint /\ found \subseteq Docs
    BY DEF ReadyDocs, Fingerprint
  <2>3. j \in Job /\ job' = [job EXCEPT ![s] = j]
    BY <1>1, <2>1, <2>2 DEF Job
  <2>4. /\ j.evidence = found /\ j.key = job[s].key /\ j.waited = job[s].waited
        /\ j.attempts = job[s].attempts /\ j.answered = job[s].answered
    BY <1>1 DEF Job
  <2>5. pc[s] = "retrieve" /\ pc' = [pc EXCEPT ![s] = "fingerprint"]
    BY <1>2 DEF Retrieve, StepAfter
  <2> HIDE DEF j
  <2>6. Holding(s)'
    <3>1. pc'[s] = "fingerprint" /\ job'[s] = j
      BY <2>3, <2>5, JobAfter
    <3>2. j.evidence \subseteq Fingerprint'
      BY <1>1, <2>2, <2>4 DEF Fingerprint
    <3>3. j.attempts = 0 /\ ~ j.answered /\ j.key \in Keys /\ (j.waited => review = "open")
      BY <1>1, <2>4, <2>5 DEF Holding
    <3>4. QED
      BY <1>1, <3>1, <3>2, <3>3 DEF Holding
  <2>7. QED
    BY <1>1, <2>3, <2>5, <2>6, GoesOn DEF Stage
<1>3. CASE TakeFingerprint(s)
  <2> DEFINE j == [job[s] EXCEPT !.fingerprint = Fingerprint]
  <2>1. j \in Job /\ job' = [job EXCEPT ![s] = j]
    BY <1>1, <1>3 DEF TakeFingerprint, Job, Fingerprint
  <2>2. /\ j.fingerprint = Fingerprint /\ j.evidence = job[s].evidence /\ j.key = job[s].key
        /\ j.waited = job[s].waited /\ j.attempts = job[s].attempts
        /\ j.answered = job[s].answered /\ j.failures = job[s].failures
        /\ j.candidate = job[s].candidate
    BY <1>1 DEF Job
  <2>3. pc[s] = "fingerprint" /\ pc' = [pc EXCEPT ![s] = "invoke"]
    BY <1>3 DEF TakeFingerprint, StepAfter
  <2> HIDE DEF j
  <2>4. Holding(s)'
    <3>1. pc'[s] = "invoke" /\ job'[s] = j
      BY <2>1, <2>3, JobAfter
    <3>2. /\ j.evidence \subseteq Fingerprint' /\ j.evidence \subseteq j.fingerprint
          /\ j.attempts <= MaxRetries
      BY <1>1, <2>2, <2>3 DEF Holding, Fingerprint
    <3>3. ~ j.answered
      BY <1>1, <2>2, <2>3 DEF Holding
    <3>4. QED
      BY <1>1, <2>2, <2>3, <3>1, <3>2, <3>3 DEF Holding, Accepted
  <2>5. QED
    BY <1>1, <2>1, <2>3, <2>4, GoesOn DEF Stage
<1>4. CASE ReadReview(s)
  <2> DEFINE j == [job[s] EXCEPT !.human = NeedsHuman(s)]
  <2>1. NeedsHuman(s) \in BOOLEAN
    BY DEF NeedsHuman
  <2>2. j \in Job /\ job' = [job EXCEPT ![s] = j]
    BY <1>1, <1>4, <2>1 DEF ReadReview, Job
  <2>3. /\ j.human = NeedsHuman(s) /\ j.evidence = job[s].evidence /\ j.key = job[s].key
        /\ j.fingerprint = job[s].fingerprint /\ j.waited = job[s].waited
        /\ j.attempts = job[s].attempts /\ j.answered = job[s].answered
        /\ j.failures = job[s].failures /\ j.candidate = job[s].candidate
    BY <1>1 DEF Job
  <2>4. /\ pc[s] = "record" /\ Accepted(s)
        /\ pc' = [pc EXCEPT ![s] = "commit"]
    BY <1>4 DEF ReadReview
  <2>5. job[s].waited => NeedsHuman(s)
    BY <1>1 DEF Holding, NeedsHuman
  <2> HIDE DEF j
  <2>6. Holding(s)'
    <3>1. pc'[s] = "commit" /\ job'[s] = j
      BY <2>2, <2>4, JobAfter
    <3>2. QED
      BY <1>1, <2>3, <2>4, <2>5, <3>1 DEF Holding, Fingerprint, Accepted
  <2>7. QED
    BY <1>1, <2>2, <2>4, <2>6, GoesOn DEF Stage
<1>5. QED
  BY <1>2, <1>3, <1>4

\* A review that opens or closes ends the wait of every request.
LEMMA ReviewHolds ==
  ASSUME BriefInv, ReviewChanges
  PROVE  SessionsTyped' /\ SessionsHold'
<1>1. ASSUME NEW s \in Sessions
      PROVE  job'[s] \in Job /\ Holding(s)'
  <2>1. job'[s] = [job[s] EXCEPT !.waited = FALSE] /\ pc' = pc /\ docs' = docs /\ job[s] \in Job
    BY DEF ReviewChanges, BriefInv, SessionsTyped
  <2>2. /\ job'[s] \in Job /\ ~ job'[s].waited
        /\ job'[s].evidence = job[s].evidence /\ job'[s].key = job[s].key
        /\ job'[s].fingerprint = job[s].fingerprint /\ job'[s].attempts = job[s].attempts
        /\ job'[s].answered = job[s].answered /\ job'[s].failures = job[s].failures
        /\ job'[s].candidate = job[s].candidate
    BY <2>1 DEF Job
  <2>3. QED
    BY <2>1, <2>2 DEF BriefInv, SessionsHold, Holding, Fingerprint, Accepted
<1>2. SessionsTyped'
  BY <1>1 DEF ReviewChanges, BriefInv, SessionsTyped
<1>3. QED
  BY <1>1, <1>2 DEF SessionsHold

\* Initially nothing is held.
LEMMA BriefInit == Init => BriefInv
<1> SUFFICES ASSUME Init PROVE BriefInv
  OBVIOUS
<1>1. RowsTyped
  BY DEF Init, RowsTyped, ReviewStatus
<1>2. SessionsTyped
  BY NothingTyped DEF Init, SessionsTyped, Stage
<1>3. SessionsHold
  BY DEF Init, SessionsHold, Holding, NoJob
<1>4. QED
  BY <1>1, <1>2, <1>3 DEF BriefInv

\* Every step keeps types and holdings.
LEMMA BriefStep == BriefInv /\ [Next]_vars => BriefInv'
<1> SUFFICES ASSUME BriefInv, [Next]_vars PROVE RowsTyped' /\ SessionsTyped' /\ SessionsHold'
  BY DEF BriefInv
<1>1. CASE UNCHANGED vars
  BY <1>1, EnvironmentHolds DEF vars, BriefInv, RowsTyped, Fingerprint
<1>2. ASSUME NEW s \in Sessions, NEW k \in Keys, Lookup(s, k)
      PROVE  RowsTyped' /\ SessionsTyped' /\ SessionsHold'
  <2>1. RowsTyped' /\ UNCHANGED <<docs, review>> /\ requests + 1 \in Nat
    BY <1>2 DEF Lookup, BriefInv, RowsTyped
  <2>2. PICK w \in BOOLEAN : w = (review = "open")
    OBVIOUS
  <2> DEFINE j == [NoJob EXCEPT !.request = requests + 1, !.key = k, !.waited = w]
  <2>3. pc' = [pc EXCEPT ![s] = "retrieve"] /\ job' = [job EXCEPT ![s] = j]
    BY <1>2, <2>2 DEF Lookup, StepAfter
  <2>4. j \in Job
    BY <2>1, NothingTyped DEF NoJob, Job
  <2>5. j.key = k /\ j.evidence = {} /\ j.attempts = 0 /\ ~ j.answered /\ j.waited = w
    BY DEF NoJob
  <2> HIDE DEF j
  <2>6. Holding(s)'
    <3>1. pc'[s] = "retrieve" /\ job'[s] = j
      BY <2>3, JobAfter
    <3>2. QED
      BY <2>1, <2>2, <2>5, <3>1 DEF Holding
  <2>7. QED
    BY <2>1, <2>3, <2>4, <2>6, GoesOn DEF Stage
<1>3. ASSUME NEW s \in Sessions, Retrieve(s) \/ TakeFingerprint(s) \/ ReadReview(s)
      PROVE  RowsTyped' /\ SessionsTyped' /\ SessionsHold'
  BY <1>3, ReadsHold DEF Retrieve, TakeFingerprint, ReadReview, BriefInv, RowsTyped
<1>4. ASSUME NEW s \in Sessions, Attempt(s)
      PROVE  RowsTyped' /\ SessionsTyped' /\ SessionsHold'
  <2>1. RowsTyped'
    BY <1>4 DEF Attempt, BriefInv, RowsTyped
  <2>2. QED
    BY <1>4, <2>1, AttemptHolds
<1>5. ASSUME NEW s \in Sessions, Reject(s) \/ CommitBrief(s)
      PROVE  RowsTyped' /\ SessionsTyped' /\ SessionsHold'
  <2>1. RowsTyped'
    BY <1>5, RowsOf DEF Reject, CommitBrief, InvocationsRolledBack, BriefInv, RowsTyped
  <2>2. QED
    BY <1>5, <2>1, FinishHolds DEF Reject, CommitBrief
<1>6. ASSUME NEW s \in Sessions, Crash(s)
      PROVE  RowsTyped' /\ SessionsTyped' /\ SessionsHold'
  BY <1>6, FinishHolds DEF Crash, BriefInv, RowsTyped
<1>7. ASSUME NEW d \in Docs, DocumentStored(d) \/ DocumentReady(d)
      PROVE  RowsTyped' /\ SessionsTyped' /\ SessionsHold'
  <2>1. RowsTyped'
    BY <1>7 DEF DocumentStored, DocumentReady, BriefInv, RowsTyped
  <2>2. Fingerprint \subseteq Fingerprint'
    BY <1>7 DEF DocumentStored, DocumentReady, Fingerprint, BriefInv, RowsTyped
  <2>3. QED
    BY <1>7, <2>1, <2>2, EnvironmentHolds DEF DocumentStored, DocumentReady
<1>8. CASE ReviewChanges
  BY <1>8, ReviewHolds DEF ReviewChanges, BriefInv, RowsTyped, ReviewStatus
<1>9. QED
  BY <1>1, <1>2, <1>3, <1>4, <1>5, <1>6, <1>7, <1>8 DEF Next, Serve

\* The invariant the theorems below rest on.
LEMMA BriefInvariance == Spec => []BriefInv
  BY BriefInit, BriefStep, PTL DEF Spec

\* TypeOK holds for any sessions, keys, documents and answers.
THEOREM BriefTypes == Spec => []TypeOK
<1>1. BriefInv => TypeOK
  BY TypeParts DEF BriefInv
<1>2. QED
  BY <1>1, BriefInvariance, PTL

-----------------------------------------------------------------------------
(* The rows *)

\* A step that writes no row, writes the invocation of a rejected request, or
\* writes a brief under a key that was free, with its invocation.
Rejects(s) ==
  /\ pc[s] = "record" /\ pc'[s] = "idle" /\ ~ Accepted(s)
  /\ briefs' = briefs
  /\ invocations' = invocations \cup {InvocationOf(s)}

Writes(s) ==
  /\ pc[s] = "commit" /\ pc'[s] = "idle" /\ KeyFree(job[s].key)
  /\ briefs' = briefs \cup {BriefOf(s)}
  /\ invocations' = invocations \cup {InvocationOf(s)}

\* Every step is one of these.
LEMMA RowStep ==
  ASSUME BriefInv, [Next]_vars
  PROVE  \/ UNCHANGED <<briefs, invocations>>
         \/ \E s \in Sessions : Rejects(s) \/ Writes(s)
<1>1. CASE UNCHANGED vars
  BY <1>1 DEF vars
<1>2. ASSUME NEW s \in Sessions, NEW k \in Keys, Lookup(s, k)
      PROVE  UNCHANGED <<briefs, invocations>>
  BY <1>2 DEF Lookup
<1>3. ASSUME NEW s \in Sessions,
             Retrieve(s) \/ TakeFingerprint(s) \/ Attempt(s) \/ ReadReview(s) \/ Crash(s)
      PROVE  UNCHANGED <<briefs, invocations>>
  BY <1>3 DEF Retrieve, TakeFingerprint, Attempt, ReadReview, Crash
<1>4. ASSUME NEW s \in Sessions, Reject(s)
      PROVE  Rejects(s)
  BY <1>4 DEF Reject, Rejects, Finish, BriefInv, SessionsTyped
<1>5. ASSUME NEW s \in Sessions, CommitBrief(s)
      PROVE  UNCHANGED <<briefs, invocations>> \/ Writes(s)
  BY <1>5 DEF CommitBrief, InvocationsRolledBack, Writes, Finish, BriefInv, SessionsTyped
<1>6. ASSUME NEW d \in Docs, DocumentStored(d) \/ DocumentReady(d)
      PROVE  UNCHANGED <<briefs, invocations>>
  BY <1>6 DEF DocumentStored, DocumentReady
<1>7. CASE ReviewChanges
  BY <1>7 DEF ReviewChanges
<1>8. QED
  BY <1>1, <1>2, <1>3, <1>4, <1>5, <1>6, <1>7 DEF Next, Serve

\* What a brief is when it is written: vetted, fingerprinted over what it
\* cites, and marked for the review the claim waits for.
LEMMA BriefIsSound ==
  ASSUME BriefInv, NEW s \in Sessions, pc[s] = "commit"
  PROVE  /\ BriefOf(s).prohibited \cap ScannedField = {}
         /\ BriefOf(s).cites \subseteq job[s].evidence \ WrongEdition
         /\ BriefOf(s).cites \subseteq BriefOf(s).fingerprint
         /\ BriefOf(s).waited => BriefOf(s).human
         /\ job[s].evidence \subseteq Docs
<1>1. Holding(s) /\ Accepted(s)
  BY DEF BriefInv, SessionsHold, Holding
<1>2. Validate(job[s].candidate, job[s].evidence) = {}
  BY <1>1 DEF Holding
<1>3. \A f \in Failure : ~ (f \in Validate(job[s].candidate, job[s].evidence))
  BY <1>2
<1>4. /\ job[s].candidate.prohibited \cap ScannedField = {}
      /\ job[s].candidate.cites \subseteq job[s].evidence
      /\ job[s].candidate.cites \cap job[s].evidence \cap WrongEdition = {}
  BY <1>3 DEF Validate, Failure
<1>5. job[s].evidence \subseteq job[s].fingerprint /\ job[s].evidence \subseteq Docs
  BY <1>1 DEF Holding, Fingerprint
<1>6. job[s].waited => job[s].human
  BY <1>1 DEF Holding
<1>7. QED
  BY <1>4, <1>5, <1>6 DEF BriefOf

\* Two briefs never have the same key.
THEOREM KeysAreUnique == Spec => []OneBriefPerKey
<1>1. Init => OneBriefPerKey
  BY DEF Init, OneBriefPerKey
<1>2. BriefInv /\ OneBriefPerKey /\ [Next]_vars => OneBriefPerKey'
  <2> SUFFICES ASSUME BriefInv, OneBriefPerKey, [Next]_vars PROVE OneBriefPerKey'
    OBVIOUS
  <2>1. ASSUME NEW s \in Sessions, Writes(s)
        PROVE  OneBriefPerKey'
    BY <2>1 DEF Writes, KeyFree, OneBriefPerKey, BriefOf
  <2>2. QED
    BY <2>1, RowStep DEF OneBriefPerKey, Rejects
<1>3. QED
  BY <1>1, <1>2, BriefInvariance, PTL DEF Spec

\* A stored brief is vetted as far as _validate goes, whatever the attempts before
\* it left behind.
THEOREM BriefsAreVetted == Spec => []OnlyVettedContent
<1>1. Init => OnlyVettedContent
  BY DEF Init, OnlyVettedContent
<1>2. BriefInv /\ OnlyVettedContent /\ [Next]_vars => OnlyVettedContent'
  <2> SUFFICES ASSUME BriefInv, OnlyVettedContent, [Next]_vars PROVE OnlyVettedContent'
    OBVIOUS
  <2>1. ASSUME NEW s \in Sessions, Writes(s)
        PROVE  OnlyVettedContent'
    BY <2>1, BriefIsSound DEF Writes, OnlyVettedContent
  <2>2. QED
    BY <2>1, RowStep DEF OnlyVettedContent, Rejects
<1>3. QED
  BY <1>1, <1>2, BriefInvariance, PTL DEF Spec

\* A brief is fingerprinted over every document it cites.
THEOREM CitationsAreFingerprinted == Spec => []CitedIsFingerprinted
<1>1. Init => CitedIsFingerprinted
  BY DEF Init, CitedIsFingerprinted
<1>2. BriefInv /\ CitedIsFingerprinted /\ [Next]_vars => CitedIsFingerprinted'
  <2> SUFFICES ASSUME BriefInv, CitedIsFingerprinted, [Next]_vars PROVE CitedIsFingerprinted'
    OBVIOUS
  <2>1. ASSUME NEW s \in Sessions, Writes(s)
        PROVE  CitedIsFingerprinted'
    BY <2>1, BriefIsSound DEF Writes, CitedIsFingerprinted
  <2>2. QED
    BY <2>1, RowStep DEF CitedIsFingerprinted, Rejects
<1>3. QED
  BY <1>1, <1>2, BriefInvariance, PTL DEF Spec

\* A brief made while the claim waited for a review asks for a human.
THEOREM ReviewsAreCarried == Spec => []ReviewIsCarried
<1>1. Init => ReviewIsCarried
  BY DEF Init, ReviewIsCarried
<1>2. BriefInv /\ ReviewIsCarried /\ [Next]_vars => ReviewIsCarried'
  <2> SUFFICES ASSUME BriefInv, ReviewIsCarried, [Next]_vars PROVE ReviewIsCarried'
    OBVIOUS
  <2>1. ASSUME NEW s \in Sessions, Writes(s)
        PROVE  ReviewIsCarried'
    BY <2>1, BriefIsSound DEF Writes, ReviewIsCarried
  <2>2. QED
    BY <2>1, RowStep DEF ReviewIsCarried, Rejects
<1>3. QED
  BY <1>1, <1>2, BriefInvariance, PTL DEF Spec

\* A request is rejected only when all its attempts failed.
THEOREM AttemptsAreUsed == Spec => []RetriesAreUsed
<1>1. Init => RetriesAreUsed
  BY DEF Init, RetriesAreUsed
<1>2. BriefInv /\ RetriesAreUsed /\ [Next]_vars => RetriesAreUsed'
  <2> SUFFICES ASSUME BriefInv, RetriesAreUsed, [Next]_vars PROVE RetriesAreUsed'
    OBVIOUS
  <2>1. ASSUME NEW s \in Sessions, Rejects(s) \/ Writes(s)
        PROVE  /\ InvocationOf(s).retries <= MaxRetries
               /\ IF InvocationOf(s).outcome = "rejected"
                  THEN InvocationOf(s).failures # {} /\ InvocationOf(s).retries = MaxRetries
                  ELSE InvocationOf(s).failures = {}
    <3>1. Holding(s) /\ pc[s] \in {"record", "commit"} /\ MaxRetries \in Nat
      BY <2>1, BriefAssumption DEF BriefInv, SessionsHold, Rejects, Writes
    <3>2. CASE Accepted(s)
      BY <3>1, <3>2 DEF InvocationOf, OutcomeOf, Accepted, Holding
    <3>3. CASE ~ Accepted(s)
      BY <3>1, <3>3 DEF InvocationOf, OutcomeOf, Accepted, Holding
    <3>4. QED
      BY <3>2, <3>3
  <2>2. QED
    BY <2>1, RowStep DEF RetriesAreUsed, Rejects, Writes
<1>3. QED
  BY <1>1, <1>2, BriefInvariance, PTL DEF Spec
-----------------------------------------------------------------------------
(* The record of model calls *)

\* Requests in service have numbers of their own, that no row has.
Numbered ==
  /\ requests \in Nat
  /\ \A i \in invocations : i.request \in 1..requests
  /\ \A s \in Sessions : pc[s] # "idle" =>
       /\ job[s].request \in 1..requests
       /\ \A i \in invocations : i.request # job[s].request
       /\ \A t \in Sessions \ {s} : pc[t] # "idle" => job[t].request # job[s].request

\* A session that is in service, and in the same request, as before.
Continues(t) == pc'[t] # "idle" => pc[t] # "idle" /\ job'[t].request = job[t].request

\* A step that begins no request continues those there are.
Continuing == requests' = requests /\ \A t \in Sessions : Continues(t)

\* A session that keeps its number, or ends, continues, and so do the others.
LEMMA ContinuesOn ==
  ASSUME BriefInv, requests' = requests, NEW s \in Sessions, pc[s] # "idle",
         NEW stage, NEW j, j.request = job[s].request \/ stage = "idle",
         pc' = [pc EXCEPT ![s] = stage], job' = [job EXCEPT ![s] = j]
  PROVE  Continuing
<1>1. pc'[s] = stage /\ job'[s] = j
  BY JobAfter
<1>2. \A t \in Sessions \ {s} : pc'[t] = pc[t] /\ job'[t] = job[t]
  BY DEF BriefInv, SessionsTyped
<1>3. QED
  BY <1>1, <1>2 DEF Continuing, Continues

\* A step begins a request or continues the others.
LEMMA NumberStep ==
  ASSUME BriefInv, [Next]_vars
  PROVE  Continuing \/ \E s \in Sessions, k \in Keys : Lookup(s, k)
<1> USE DEF Continuing, Continues
<1>1. CASE UNCHANGED vars
  BY <1>1 DEF vars
<1>2. ASSUME NEW s \in Sessions, Retrieve(s)
      PROVE  Continuing
  <2>1. PICK found \in SUBSET ReadyDocs :
          job' = [job EXCEPT ![s] = [job[s] EXCEPT !.evidence = found]]
    BY <1>2 DEF Retrieve
  <2>2. [job[s] EXCEPT !.evidence = found].request = job[s].request
    BY DEF BriefInv, SessionsTyped, Job
  <2>3. QED
    BY <1>2, <2>1, <2>2, ContinuesOn DEF Retrieve
<1>3. ASSUME NEW s \in Sessions, TakeFingerprint(s)
      PROVE  Continuing
  <2>1. [job[s] EXCEPT !.fingerprint = Fingerprint].request = job[s].request
    BY DEF BriefInv, SessionsTyped, Job
  <2>2. QED
    BY <1>3, <2>1, ContinuesOn DEF TakeFingerprint
<1>4. ASSUME NEW s \in Sessions, ReadReview(s)
      PROVE  Continuing
  <2>1. [job[s] EXCEPT !.human = NeedsHuman(s)].request = job[s].request
    BY DEF BriefInv, SessionsTyped, Job
  <2>2. QED
    BY <1>4, <2>1, ContinuesOn DEF ReadReview
<1>5. ASSUME NEW s \in Sessions, Attempt(s)
      PROVE  Continuing
  <2>1. PICK stage \in {"invoke", "record"} : pc' = [pc EXCEPT ![s] = stage]
    BY <1>5 DEF Attempt
  <2>2. PICK j : job' = [job EXCEPT ![s] = j] /\ j.request = job[s].request
    <3>1. \A c \in Answers : Answered(s, c).request = job[s].request
      BY DEF Answered, BriefInv, SessionsTyped, Job
    <3>2. NotAnswered(s).request = job[s].request
      BY DEF NotAnswered, BriefInv, SessionsTyped, Job
    <3>3. QED
      BY <1>5, <3>1, <3>2 DEF Attempt
  <2>3. QED
    BY <1>5, <2>1, <2>2, ContinuesOn DEF Attempt
<1>6. ASSUME NEW s \in Sessions, Reject(s) \/ CommitBrief(s) \/ Crash(s)
      PROVE  Continuing
  BY <1>6, ContinuesOn DEF Reject, CommitBrief, Crash, Finish
<1>7. ASSUME NEW d \in Docs, DocumentStored(d) \/ DocumentReady(d)
      PROVE  Continuing
  BY <1>7 DEF DocumentStored, DocumentReady
<1>8. CASE ReviewChanges
  <2>1. ASSUME NEW t \in Sessions
        PROVE  job'[t].request = job[t].request
    BY <1>8 DEF ReviewChanges, BriefInv, SessionsTyped, Job
  <2>2. QED
    BY <1>8, <2>1 DEF ReviewChanges
<1>9. QED
  BY <1>1, <1>2, <1>3, <1>4, <1>5, <1>6, <1>7, <1>8 DEF Next, Serve

\* Numbers stay unique.
LEMMA NumberedStep ==
  ASSUME BriefInv, Numbered, [Next]_vars
  PROVE  Numbered'
<1>1. CASE \E s \in Sessions, k \in Keys : Lookup(s, k)
  <2>1. PICK s \in Sessions, k \in Keys : Lookup(s, k)
    BY <1>1
  <2> DEFINE j == [NoJob EXCEPT !.request = requests + 1, !.key = k, !.waited = review = "open"]
  <2>2. /\ requests' = requests + 1 /\ invocations' = invocations /\ pc[s] = "idle"
        /\ pc' = [pc EXCEPT ![s] = "retrieve"] /\ job' = [job EXCEPT ![s] = j]
    BY <2>1 DEF Lookup, StepAfter
  <2>3. j.request = requests + 1
    BY DEF NoJob
  <2> HIDE DEF j
  <2>4. pc'[s] = "retrieve" /\ job'[s].request = requests + 1
    BY <2>2, <2>3, JobAfter
  <2>5. \A t \in Sessions \ {s} : pc'[t] = pc[t] /\ job'[t] = job[t]
    BY <2>2 DEF BriefInv, SessionsTyped
  <2>6. QED
    BY <2>2, <2>4, <2>5 DEF Numbered
<1>2. CASE Continuing /\ UNCHANGED invocations
  BY <1>2 DEF Continuing, Continues, Numbered
<1>3. ASSUME Continuing, NEW s \in Sessions, Rejects(s) \/ Writes(s)
      PROVE  Numbered'
  <2>1. /\ pc[s] # "idle" /\ pc'[s] = "idle"
        /\ invocations' = invocations \cup {InvocationOf(s)}
        /\ InvocationOf(s).request = job[s].request
    BY <1>3 DEF Rejects, Writes, InvocationOf
  <2>2. \A t \in Sessions : pc'[t] # "idle" => job'[t].request # job[s].request
    BY <1>3, <2>1 DEF Continuing, Continues, Numbered
  <2>3. QED
    BY <1>3, <2>1, <2>2 DEF Continuing, Continues, Numbered
<1>4. QED
  BY <1>1, <1>2, <1>3, NumberStep, RowStep

\* Each brief has its valid invocation, and each valid invocation its brief.
THEOREM InvocationsMatchBriefs == Spec => []BriefsHaveInvocations
<1>1. Init => Numbered /\ BriefsHaveInvocations
  BY DEF Init, Numbered, BriefsHaveInvocations
<1>2. BriefInv /\ Numbered /\ BriefsHaveInvocations /\ [Next]_vars => BriefsHaveInvocations'
  <2> SUFFICES ASSUME BriefInv, Numbered, BriefsHaveInvocations, [Next]_vars
               PROVE  BriefsHaveInvocations'
    OBVIOUS
  <2>1. ASSUME NEW s \in Sessions, Writes(s)
        PROVE  BriefsHaveInvocations'
    <3>1. /\ Accepted(s)
          /\ BriefOf(s).cites \subseteq job[s].evidence
      BY <2>1, BriefIsSound DEF Writes, BriefInv, SessionsHold, Holding
    <3>2. /\ InvocationOf(s).request = BriefOf(s).request
          /\ InvocationOf(s).outcome = "valid"
          /\ InvocationOf(s).fingerprint = BriefOf(s).fingerprint
          /\ BriefOf(s).cites \subseteq InvocationOf(s).authorized
      BY <3>1 DEF InvocationOf, BriefOf, OutcomeOf
    <3>3. \A i \in invocations : i.request # BriefOf(s).request
      BY <2>1 DEF Writes, Numbered, BriefOf
    <3>4. QED
      BY <2>1, <3>2, <3>3 DEF Writes, BriefsHaveInvocations
  <2>2. ASSUME NEW s \in Sessions, Rejects(s)
        PROVE  BriefsHaveInvocations'
    <3>1. InvocationOf(s).outcome # "valid" /\ InvocationOf(s).request = job[s].request
      BY <2>2 DEF Rejects, InvocationOf, OutcomeOf
    <3>2. \A b \in briefs : b.request # job[s].request
      BY <2>2 DEF Rejects, Numbered, BriefsHaveInvocations
    <3>3. QED
      BY <2>2, <3>1, <3>2 DEF Rejects, BriefsHaveInvocations
  <2>3. QED
    BY <2>1, <2>2, RowStep DEF BriefsHaveInvocations
<1>3. BriefInv /\ Numbered /\ [Next]_vars => Numbered'
  BY NumberedStep
<1>4. QED
  BY <1>1, <1>2, <1>3, BriefInvariance, PTL DEF Spec
=============================================================================
