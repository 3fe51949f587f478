-------------------------- MODULE BriefAssistance --------------------------
(***************************************************************************)
(* Evidence briefs of one claim, as model_assistance/service.py makes them:*)
(* requests with idempotency keys, each with a database session, retrieve  *)
(* evidence, fingerprint the documents, call a model a bounded number of   *)
(* times, validate what it answers, and commit the invocation with the     *)
(* brief or without one.                                                   *)
(*                                                                         *)
(* The model answers anything.  A request that finds a brief for its key   *)
(* answers at once and is a stuttering step, and so is the view of a brief.*)
(***************************************************************************)
EXTENDS Naturals, FiniteSets

CONSTANTS
  Sessions,      \* request handlers, each with its own database session
  Keys,          \* idempotency keys
  Docs,          \* documents of the claim
  WrongEdition,  \* documents that belong to another policy edition
  Answers,       \* well-formed answers of the model that are considered
  MaxRetries,    \* settings.model_max_retries
  MaxRequests,   \* bound on the requests that begin
  MaxCrashes     \* bound on the requests broken off

\* The texts of an answer that _validate looks through.
ScannedField == {"claim_summary", "evidence_summary", "limitations"}

\* All its texts: each is stored with the brief.
TextField ==
  ScannedField \cup
    {"applicable_policy_summary", "missing_information", "conflicts", "ambiguities",
     "safety_flags"}

ASSUME BriefAssumption ==
  /\ "invented" \notin Docs
  /\ WrongEdition \subseteq Docs
  /\ Answers \subseteq
       [cites : SUBSET (Docs \cup {"invented"}), prohibited : SUBSET TextField,
        review : BOOLEAN]
  /\ MaxRetries \in Nat
  /\ MaxRequests \in Nat
  /\ MaxCrashes \in Nat

VARIABLES
  briefs,       \* claim_evidence_briefs rows
  invocations,  \* model_invocations rows
  docs,         \* documents of the claim and how far each is processed
  review,       \* review_status of the claim
  pc,           \* next step of each session
  job,          \* what each session has found, asked and been told
  requests,     \* requests so far
  crashes       \* requests broken off so far

vars == <<briefs, invocations, docs, review, pc, job, requests, crashes>>

-----------------------------------------------------------------------------
(* Values *)

\* Citation handles a model may answer with; one of them is made up.
Handles == Docs \cup {"invented"}

\* A well-formed answer: what it cites, which of its texts have a prohibited
\* phrase, and whether it asks for a human.
Candidate == [cites : SUBSET Handles, prohibited : SUBSET TextField, review : BOOLEAN]

NoCandidate == [cites |-> {}, prohibited |-> {}, review |-> FALSE]

\* The reasons _validate gives, and one for every way to get no answer:
\* malformed output, a timeout, throttling, a provider that is down.
Failure ==
  {"unauthorized_citation", "wrong_policy_citation", "prohibited_output", "no_answer"}

ReviewStatus == {"not_required", "open", "completed", "cancelled"}

Stage ==
  {"idle", "retrieve", "fingerprint", "invoke", "record", "commit"}

Job ==
  [request : Nat, key : Keys \cup {"none"}, evidence : SUBSET Docs,
   fingerprint : SUBSET Docs, attempts : Nat, answered : BOOLEAN,
   candidate : Candidate, failures : SUBSET Failure, human : BOOLEAN,
   waited : BOOLEAN]  \* history: the claim has waited for a review all along

NoJob ==
  [request |-> 0, key |-> "none", evidence |-> {}, fingerprint |-> {},
   attempts |-> 0, answered |-> FALSE, candidate |-> NoCandidate,
   failures |-> {}, human |-> FALSE, waited |-> FALSE]

Brief ==
  [request : Nat, key : Keys, fingerprint : SUBSET Docs, cites : SUBSET Handles,
   prohibited : SUBSET TextField, human : BOOLEAN, waited : BOOLEAN]

Invocation ==
  [request : Nat, outcome : {"valid", "rejected"}, fingerprint : SUBSET Docs,
   authorized : SUBSET Docs, failures : SUBSET Failure, retries : Nat]

Fingerprint == {d \in Docs : docs[d] # "absent"}

ReadyDocs == {d \in Docs : docs[d] = "ready"}

\* Mutant: keys are not unique.
AnyKeyFree(k) == TRUE

\* No brief has this key: the lookup of create, and uq_brief_idempotency.
KeyFree(k) == \A b \in briefs : b.key # k

-----------------------------------------------------------------------------
(* The request up to the model *)

Finish(s) ==
  /\ pc' = [pc EXCEPT ![s] = "idle"]
  /\ job' = [job EXCEPT ![s] = NoJob]

\* Mutant: the documents are fingerprinted before the retrieval.
FingerprintFirst ==
  [lookup |-> "fingerprint", fingerprint |-> "retrieve", retrieve |-> "invoke"]

\* The order of the reads in create.
StepAfter ==
  [lookup |-> "retrieve", retrieve |-> "fingerprint", fingerprint |-> "invoke"]

Lookup(s, k) ==
  /\ pc[s] = "idle"
  /\ requests < MaxRequests
  /\ KeyFree(k)
  /\ requests' = requests + 1
  /\ pc' = [pc EXCEPT ![s] = StepAfter["lookup"]]
  /\ job' = [job EXCEPT ![s] = [NoJob EXCEPT !.request = requests + 1, !.key = k,
                                               !.waited = review = "open"]]
  /\ UNCHANGED <<briefs, invocations, docs, review, crashes>>

\* The search returns the best chunks of documents that are ready.
Retrieve(s) ==
  /\ pc[s] = "retrieve"
  /\ \E found \in SUBSET ReadyDocs : job' = [job EXCEPT ![s] = [job[s] EXCEPT !.evidence = found]]
  /\ pc' = [pc EXCEPT ![s] = StepAfter["retrieve"]]
  /\ UNCHANGED <<briefs, invocations, docs, review, requests, crashes>>

TakeFingerprint(s) ==
  /\ pc[s] = "fingerprint"
  /\ job' = [job EXCEPT ![s] = [job[s] EXCEPT !.fingerprint = Fingerprint]]
  /\ pc' = [pc EXCEPT ![s] = StepAfter["fingerprint"]]
  /\ UNCHANGED <<briefs, invocations, docs, review, requests, crashes>>

-----------------------------------------------------------------------------
(* The attempts *)

\* _validate, against all that was retrieved.  It looks for prohibited phrases in
\* three of the texts only.
Validate(c, evidence) ==
  {f \in Failure :
    \/ f = "unauthorized_citation" /\ ~ (c.cites \subseteq evidence)
    \/ f = "wrong_policy_citation" /\ c.cites \cap evidence \cap WrongEdition # {}
    \/ f = "prohibited_output" /\ c.prohibited \cap ScannedField # {}}

\* Mutant: an attempt without an answer is not a failure.
NoFailure == {}

\* What an attempt without an answer leaves in the list of failures.  The
\* candidate of an earlier attempt stays where it is.
Unanswered == {"no_answer"}

\* Mutant: the loop is one attempt short.
OneAttemptLess(s) == job[s].attempts + 1 >= MaxRetries

\* This attempt is the last of the loop.
LastAttempt(s) == job[s].attempts >= MaxRetries

Answered(s, c) ==
  [job[s] EXCEPT !.attempts = job[s].attempts + 1, !.answered = TRUE, !.candidate = c,
                 !.failures = Validate(c, job[s].evidence)]

NotAnswered(s) ==
  [job[s] EXCEPT !.attempts = job[s].attempts + 1, !.failures = Unanswered]

\* One call of the provider, and what becomes of its answer.
Attempt(s) ==
  /\ pc[s] = "invoke"
  /\ \/ \E c \in Answers :
          job' = [job EXCEPT ![s] = Answered(s, c)]
     \/ job' = [job EXCEPT ![s] = NotAnswered(s)]
  /\ pc' = [pc EXCEPT ![s] = IF job'[s].failures = {} \/ LastAttempt(s)
                             THEN "record" ELSE "invoke"]
  /\ UNCHANGED <<briefs, invocations, docs, review, requests, crashes>>

-----------------------------------------------------------------------------
(* The outcome *)

Accepted(s) == job[s].answered /\ job[s].failures = {}

\* Mutant: the outcome names no rejection.
FailedOutcome(s) == IF Accepted(s) THEN "valid" ELSE "failed"

OutcomeOf(s) == IF Accepted(s) THEN "valid" ELSE "rejected"

InvocationOf(s) ==
  [request |-> job[s].request, outcome |-> OutcomeOf(s),
   fingerprint |-> job[s].fingerprint, authorized |-> job[s].evidence,
   failures |-> job[s].failures, retries |-> job[s].attempts - 1]

BriefOf(s) ==
  [request |-> job[s].request, key |-> job[s].key, fingerprint |-> job[s].fingerprint,
   cites |-> job[s].candidate.cites, prohibited |-> job[s].candidate.prohibited,
   human |-> job[s].human, waited |-> job[s].waited]

Reject(s) ==
  /\ pc[s] = "record"
  /\ ~ Accepted(s)
  /\ invocations' = invocations \cup {InvocationOf(s)}
  /\ Finish(s)
  /\ UNCHANGED <<briefs, docs, review, requests, crashes>>

\* Mutant: the model alone says whether a human is needed.
ModelDecides(s) == job[s].candidate.review

\* A review the claim is waiting for is carried into the brief.
NeedsHuman(s) == job[s].candidate.review \/ review \notin {"not_required", "completed"}

ReadReview(s) ==
  /\ pc[s] = "record"
  /\ Accepted(s)
  /\ job' = [job EXCEPT ![s] = [job[s] EXCEPT !.human = NeedsHuman(s)]]
  /\ pc' = [pc EXCEPT ![s] = "commit"]
  /\ UNCHANGED <<briefs, invocations, docs, review, requests, crashes>>

\* Mutant: the invocation is committed before the brief.
InvocationCommitted(s) == invocations \cup {InvocationOf(s)}

\* A brief that breaks the constraint rolls its invocation back.
InvocationsRolledBack(s) == invocations

CommitBrief(s) ==
  /\ pc[s] = "commit"
  /\ \/ /\ KeyFree(job[s].key)
        /\ briefs' = briefs \cup {BriefOf(s)}
        /\ invocations' = invocations \cup {InvocationOf(s)}
     \/ /\ ~ KeyFree(job[s].key)
        /\ invocations' = InvocationsRolledBack(s)
        /\ UNCHANGED briefs
  /\ Finish(s)
  /\ UNCHANGED <<docs, review, requests, crashes>>

-----------------------------------------------------------------------------
(* The environment *)

Crash(s) ==
  /\ pc[s] # "idle"
  /\ crashes < MaxCrashes
  /\ crashes' = crashes + 1
  /\ Finish(s)
  /\ UNCHANGED <<briefs, invocations, docs, review, requests>>

\* Ingestion adds a document, and makes it ready.
DocumentStored(d) ==
  /\ docs[d] = "absent"
  /\ docs' = [docs EXCEPT ![d] = "stored"]
  /\ UNCHANGED <<briefs, invocations, review, pc, job, requests, crashes>>

DocumentReady(d) ==
  /\ docs[d] = "stored"
  /\ docs' = [docs EXCEPT ![d] = "ready"]
  /\ UNCHANGED <<briefs, invocations, review, pc, job, requests, crashes>>

\* A workflow of the claim opens a review task, or closes it.
ReviewChanges ==
  /\ review' \in IF review = "open" THEN {"completed", "cancelled"} ELSE {"open"}
  /\ job' = [s \in Sessions |-> [job[s] EXCEPT !.waited = FALSE]]
  /\ UNCHANGED <<briefs, invocations, docs, pc, requests, crashes>>

-----------------------------------------------------------------------------
Init ==
  /\ briefs = {}
  /\ invocations = {}
  /\ docs \in [Docs -> {"absent", "stored", "ready"}]
  /\ review = "not_required"
  /\ pc = [s \in Sessions |-> "idle"]
  /\ job = [s \in Sessions |-> NoJob]
  /\ requests = 0
  /\ crashes = 0

\* What the server does next for a request it has accepted.
Serve(s) ==
  \/ Retrieve(s) \/ TakeFingerprint(s) \/ Attempt(s)
  \/ Reject(s) \/ ReadReview(s) \/ CommitBrief(s)

Next ==
  \/ \E s \in Sessions :
       \/ \E k \in Keys : Lookup(s, k)
       \/ Serve(s)
       \/ Crash(s)
  \/ \E d \in Docs : DocumentStored(d) \/ DocumentReady(d)
  \/ ReviewChanges

Spec == Init /\ [][Next]_vars

-----------------------------------------------------------------------------
(* Properties *)

\* Every variable has its type.
TypeOK ==
  /\ briefs \subseteq Brief
  /\ invocations \subseteq Invocation
  /\ docs \in [Docs -> {"absent", "stored", "ready"}]
  /\ review \in ReviewStatus
  /\ pc \in [Sessions -> Stage]
  /\ job \in [Sessions -> Job]
  /\ requests \in Nat
  /\ crashes \in Nat

\* The record of model calls is the record of briefs: each brief has the valid
\* invocation that produced it, and a request that lost the race for its key
\* leaves no valid invocation behind.
BriefsHaveInvocations ==
  /\ \A b \in briefs :
       \E i \in invocations :
         /\ i.request = b.request
         /\ i.outcome = "valid"
         /\ i.fingerprint = b.fingerprint
         /\ b.cites \subseteq i.authorized
  /\ \A i \in invocations :
       i.outcome = "valid" <=> \E b \in briefs : b.request = i.request

\* Requests that repeat a key while the first is in service never leave two
\* briefs for it.
OneBriefPerKey == \A b, c \in briefs : b.key = c.key => b = c

\* Whatever the model answered on the way, and in whichever order answers and
\* timeouts came, a stored brief cites no document of another edition and no
\* made-up handle, and has no prohibited phrase in the summaries of the claim and
\* the evidence and in the limitations.  Nothing is said of the other texts: they
\* are stored as they come, and a brief may well have one there.
OnlyVettedContent ==
  \A b \in briefs :
    /\ b.prohibited \cap ScannedField = {}
    /\ b.cites \subseteq Docs \ WrongEdition

\* A brief is fingerprinted over every document it cites, although documents
\* become ready while it is made: one that changes cannot go unnoticed.
CitedIsFingerprinted == \A b \in briefs : b.cites \subseteq b.fingerprint

\* A claim that waited for a review while the brief was made says so in the
\* brief, although the model did not ask for one and no lock is held.
ReviewIsCarried == \A b \in briefs : b.waited => b.human

\* A request is only rejected after all its attempts failed, and spends no
\* attempt after one that passed.
RetriesAreUsed ==
  \A i \in invocations :
    /\ i.retries <= MaxRetries
    /\ IF i.outcome = "rejected" THEN i.failures # {} /\ i.retries = MaxRetries
       ELSE i.failures = {}
=============================================================================
