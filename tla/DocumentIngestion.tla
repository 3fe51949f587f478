------------------------- MODULE DocumentIngestion -------------------------
(***************************************************************************)
(* Ingestion of the documents of one claim, as documents/ingestion.py runs *)
(* it: uploads and retries in concurrent requests of several API tasks,    *)
(* each with a database session, over the document rows, their facts, the  *)
(* claim's conflict table, the retrieval index and the object store.       *)
(*                                                                         *)
(* One step is one transaction, one awaited call, or one statement of the  *)
(* long last transaction whose snapshot a later statement relies on (the   *)
(* database is PostgreSQL at READ COMMITTED).  Every document states one   *)
(* comparable fact; two documents conflict when their values differ.  A    *)
(* rejected upload and a retry answered at once are stuttering steps.      *)
(***************************************************************************)
EXTENDS Naturals, FiniteSets

CONSTANTS
  Sessions,     \* request handlers, each with its own database session
  Docs,         \* documents of the claim, told apart by their checksum
  Values,       \* values of the comparable fact
  Value,        \* the value each document states
  SeededDocs,   \* documents that are ready from the start
  MaxRequests,  \* bound on the requests that begin
  MaxFaults,    \* bound on the exceptions inside process
  MaxCrashes    \* bound on the requests broken off

ASSUME IngestionAssumption ==
  /\ Value \in [Docs -> Values]
  /\ SeededDocs \subseteq Docs
  /\ MaxRequests \in Nat
  /\ MaxFaults \in Nat
  /\ MaxCrashes \in Nat

VARIABLES
  status,      \* processing_status of each document row, "absent" without one
  originals,   \* documents whose original is in the object store
  facts,       \* document_facts rows: the document and the request that wrote it
  conflicts,   \* fact_conflicts rows: a pair of facts and the request that wrote it
  indexed,     \* documents with a ready document_indexes row
  chunks,      \* documents with retrieval_chunks rows
  pc,          \* next step of each session
  job,         \* the document a session processes, as which request, loaded in which status
  view,        \* what the statements of the last transaction have seen
  requests,    \* requests so far
  faults,      \* exceptions so far
  crashes,     \* requests broken off so far
  overlapped,  \* history: documents two requests worked on at the same time
  skewed       \* history: whether the last rebuild of the conflicts overlapped another

rowVars == <<status, facts, conflicts, indexed, chunks>>
boundVars == <<requests, faults, crashes>>
vars == <<status, originals, facts, conflicts, indexed, chunks, pc, job, view,
          requests, faults, crashes, overlapped, skewed>>

-----------------------------------------------------------------------------
(* Values *)

Processing == {"uploaded", "validating", "stored", "extracting", "classifying", "normalizing"}

DocumentStatus == Processing \cup {"absent", "ready", "failed"}

Fact == [doc : Docs, request : Nat]

Stage ==
  {"idle", "upload", "validate", "put", "store", "extractStart", "extract",
   "classify", "dropConflicts", "readFacts", "finish", "fail"}

\* The steps inside the try block of process.
Guarded == Stage \ {"idle", "upload", "fail"}

NoJob == [doc |-> "none", request |-> 0, loaded |-> "absent"]
NoView == [dropped |-> {}, facts |-> {}, indexed |-> FALSE, alone |-> TRUE]

FactsOf(d) == {f \in facts : f.doc = d}

\* The pairs rebuild_conflicts finds among a set of facts.
Disagreements(fs) ==
  {{p[1], p[2]} : p \in {q \in fs \X fs : Value[q[1].doc] # Value[q[2].doc]}}

ConflictRow == [pair : SUBSET Fact, request : Nat]

\* The rows a request writes for pairs of facts.
RowsFor(pairs, request) == [pair : pairs, request : {request}]

PairsOf(rows) == {c.pair : c \in rows}

\* The requests that serve document d.
Serving(d) == {s \in Sessions : pc[s] # "idle" /\ job[s].doc = d}

\* Mutant: the foreign key of the conflict rows is not enforced.
NeverReferenced(fs) == FALSE

\* Deleting facts a conflict row refers to breaks its foreign key.
Referenced(fs) == \E c \in conflicts : c.pair \cap fs # {}

-----------------------------------------------------------------------------
(* The steps requests share *)

Finish(s) ==
  /\ pc' = [pc EXCEPT ![s] = "idle"]
  /\ job' = [job EXCEPT ![s] = NoJob]
  /\ view' = [view EXCEPT ![s] = NoView]

Goto(s, stage) ==
  /\ pc' = [pc EXCEPT ![s] = stage]
  /\ UNCHANGED <<job, view>>

\* Mutant: an exception ends the request.
RaiseUnhandled(s) == Finish(s)

\* An exception rolls back and runs the handler of process.
Raise(s) ==
  /\ pc' = [pc EXCEPT ![s] = "fail"]
  /\ view' = [view EXCEPT ![s] = NoView]
  /\ UNCHANGED job

\* A request begins to work on document d.
Accept(s, d, stage) ==
  /\ pc[s] = "idle"
  /\ requests < MaxRequests
  /\ requests' = requests + 1
  /\ pc' = [pc EXCEPT ![s] = stage]
  /\ job' = [job EXCEPT ![s] = [doc |-> d, request |-> requests + 1, loaded |-> status[d]]]
  /\ overlapped' = IF Serving(d) = {} THEN overlapped ELSE overlapped \cup {d}
  /\ UNCHANGED <<rowVars, originals, view, faults, crashes, skewed>>

\* A transaction of _transition alone, from one stage to the next.
Advance(s, from, new, to) ==
  /\ pc[s] = from
  /\ status' = [status EXCEPT ![job[s].doc] = new]
  /\ Goto(s, to)
  /\ UNCHANGED <<originals, facts, conflicts, indexed, chunks, boundVars, overlapped, skewed>>

-----------------------------------------------------------------------------
(* Upload and retry *)

\* ingest finds no document with this checksum.
Upload(s, d) ==
  /\ status[d] = "absent"
  /\ Accept(s, d, "upload")

\* The row is inserted, unless another upload came first: uq_document_hash.
UploadCommit(s) ==
  /\ pc[s] = "upload"
  /\ \/ /\ status[job[s].doc] = "absent"
        /\ status' = [status EXCEPT ![job[s].doc] = "uploaded"]
        /\ job' = [job EXCEPT ![s].loaded = "uploaded"]
        /\ pc' = [pc EXCEPT ![s] = "validate"]
        /\ UNCHANGED view
     \/ /\ status[job[s].doc] # "absent"
        /\ Finish(s)
        /\ UNCHANGED status
  /\ UNCHANGED <<originals, facts, conflicts, indexed, chunks, boundVars, overlapped, skewed>>

\* Mutant: a ready document is processed again.
AnyRetriable(d) == status[d] # "absent"

\* process answers at once for a ready document, and reads the original first.
Retriable(d) == status[d] \notin {"absent", "ready"}

Retry(s, d) ==
  /\ Retriable(d)
  /\ d \in originals
  /\ Accept(s, d, "validate")

-----------------------------------------------------------------------------
(* The stages of process *)

\* The ORM writes processing_status only when it differs from the loaded one.
Validate(s) ==
  /\ pc[s] = "validate"
  /\ status' = IF job[s].loaded = "validating" THEN status
               ELSE [status EXCEPT ![job[s].doc] = "validating"]
  /\ Goto(s, "put")
  /\ UNCHANGED <<originals, facts, conflicts, indexed, chunks, boundVars, overlapped, skewed>>

\* Mutant: the original is not written.
OriginalsUnchanged(s) == originals

OriginalsAfterPut(s) == originals \cup {job[s].doc}

\* The awaited put of the original.
PutOriginal(s) ==
  /\ pc[s] = "put"
  /\ originals' = OriginalsAfterPut(s)
  /\ Goto(s, "store")
  /\ UNCHANGED <<rowVars, boundVars, overlapped, skewed>>

Store(s) == Advance(s, "store", "stored", "extractStart")

ExtractStart(s) == Advance(s, "extractStart", "extracting", "extract")

\* Pages and facts of an earlier attempt are replaced.  The chunks go with
\* their pages (ON DELETE CASCADE); facts that conflict rows refer to cannot go.
Extract(s) ==
  /\ pc[s] = "extract"
  /\ \/ /\ ~ Referenced(FactsOf(job[s].doc))
        /\ facts' = facts \ FactsOf(job[s].doc)
        /\ chunks' = chunks \ {job[s].doc}
        /\ status' = [status EXCEPT ![job[s].doc] = "classifying"]
        /\ Goto(s, "classify")
     \/ /\ Referenced(FactsOf(job[s].doc))
        /\ Raise(s)
        /\ UNCHANGED <<status, facts, chunks>>
  /\ UNCHANGED <<originals, conflicts, indexed, boundVars, overlapped, skewed>>

Classify(s) == Advance(s, "classify", "normalizing", "dropConflicts")

-----------------------------------------------------------------------------
(* The last transaction *)

\* Another transaction holds conflict rows this one wants to delete.
Locked(s) ==
  \E t \in Sessions \ {s} :
    /\ pc[t] = "finish"
    /\ view[t].dropped \cap view[s].dropped \cap conflicts # {}

\* Sessions whose last transaction has rebuilt the conflicts and is not committed.
Finishing == {t \in Sessions : pc[t] = "finish"}

\* The delete of rebuild_conflicts takes its snapshot of the conflict rows.
DropConflicts(s) ==
  /\ pc[s] = "dropConflicts"
  /\ pc' = [pc EXCEPT ![s] = "readFacts"]
  /\ view' = [view EXCEPT ![s].dropped = conflicts]
  /\ UNCHANGED <<rowVars, originals, job, boundVars, overlapped, skewed>>

\* It holds its rows; the facts are read by a snapshot of their own.
ReadFacts(s) ==
  /\ pc[s] = "readFacts"
  /\ ~ Locked(s)
  /\ pc' = [pc EXCEPT ![s] = "finish"]
  /\ view' = [t \in Sessions |->
       IF t = s THEN [view[s] EXCEPT !.facts = facts, !.indexed = job[s].doc \in indexed,
                                     !.alone = Finishing = {}]
       ELSE IF t \in Finishing THEN [view[t] EXCEPT !.alone = FALSE]
       ELSE view[t]]
  /\ UNCHANGED <<rowVars, originals, job, boundVars, overlapped, skewed>>

\* The fact the document states, as this request writes it.
OwnFact(s) == [doc |-> job[s].doc, request |-> job[s].request]

\* Mutant: the conflicts are rebuilt from what was committed before.
RebuiltWithoutOwn(s) == Disagreements(view[s].facts)

\* The conflict rows rebuild_conflicts inserts.
Rebuilt(s) == Disagreements(view[s].facts \cup {OwnFact(s)})

\* A fact a new row refers to is gone, or another session has inserted a row
\* for the same pair since: uq_fact_conflict.
Collides(s) ==
  \/ \E pair \in Rebuilt(s) : ~ (pair \subseteq facts \cup {OwnFact(s)})
  \/ Rebuilt(s) \cap PairsOf(conflicts \ view[s].dropped) # {}

\* Another session has inserted the same index: uq_document_index_version.
IndexCollides(s) == ~ view[s].indexed /\ job[s].doc \in indexed

\* Facts, conflicts, index and the ready status become visible at once.  A
\* ready index is taken as it is.
Publish(s) ==
  LET d == job[s].doc
  IN  /\ facts' = facts \cup {OwnFact(s)}
      /\ conflicts' = (conflicts \ view[s].dropped) \cup RowsFor(Rebuilt(s), job[s].request)
      /\ indexed' = indexed \cup {d}
      /\ chunks' = IF d \in indexed THEN chunks ELSE chunks \cup {d}
      /\ status' = [status EXCEPT ![d] = "ready"]
      /\ skewed' = ~ view[s].alone
      /\ Finish(s)

\* An index another session inserted since the facts were read is found by
\* the select of index_document, or collides with its insert.
Commit(s) ==
  /\ pc[s] = "finish"
  /\ \/ ~ Collides(s) /\ Publish(s)
     \/ /\ Collides(s) \/ IndexCollides(s)
        /\ Raise(s)
        /\ UNCHANGED <<rowVars, skewed>>
  /\ UNCHANGED <<originals, boundVars, overlapped>>

-----------------------------------------------------------------------------
(* Failure *)

\* A stage raises: the store is unreachable, no text can be extracted, the
\* database refuses a statement.
Fault(s) ==
  /\ pc[s] \in Guarded
  /\ faults < MaxFaults
  /\ faults' = faults + 1
  /\ Raise(s)
  /\ UNCHANGED <<rowVars, originals, requests, crashes, overlapped, skewed>>

\* Mutant: a failure is stored as a rejection.
RejectedStatus == "rejected"

FailureStatus == "failed"

\* The handler of process, after its rollback.
Fail(s) ==
  /\ pc[s] = "fail"
  /\ status' = [status EXCEPT ![job[s].doc] = FailureStatus]
  /\ Finish(s)
  /\ UNCHANGED <<originals, facts, conflicts, indexed, chunks, boundVars, overlapped, skewed>>

\* A request is broken off between two of its steps.
Crash(s) ==
  /\ pc[s] # "idle"
  /\ crashes < MaxCrashes
  /\ crashes' = crashes + 1
  /\ Finish(s)
  /\ UNCHANGED <<rowVars, originals, requests, faults, overlapped, skewed>>

-----------------------------------------------------------------------------
Init ==
  /\ status = [d \in Docs |-> IF d \in SeededDocs THEN "ready" ELSE "absent"]
  /\ originals = SeededDocs
  /\ facts = [doc : SeededDocs, request : {0}]
  /\ conflicts = RowsFor(Disagreements(facts), 0)
  /\ indexed = SeededDocs
  /\ chunks = SeededDocs
  /\ pc = [s \in Sessions |-> "idle"]
  /\ job = [s \in Sessions |-> NoJob]
  /\ view = [s \in Sessions |-> NoView]
  /\ requests = 0
  /\ faults = 0
  /\ crashes = 0
  /\ overlapped = {}
  /\ skewed = FALSE

\* What the server does next for a request it has accepted.
Serve(s) ==
  \/ UploadCommit(s) \/ Validate(s) \/ PutOriginal(s) \/ Store(s) \/ ExtractStart(s)
  \/ Extract(s) \/ Classify(s) \/ DropConflicts(s) \/ ReadFacts(s) \/ Commit(s)
  \/ Fault(s) \/ Fail(s)

Next ==
  \E s \in Sessions :
    \/ \E d \in Docs : Upload(s, d) \/ Retry(s, d)
    \/ Serve(s)
    \/ Crash(s)

Spec == Init /\ [][Next]_vars

\* A request that is being served goes on; nobody has to ask for a retry.
FairSpec == Spec /\ \A s \in Sessions : WF_vars(Serve(s))

-----------------------------------------------------------------------------
(* Properties *)

\* Every variable has its type.
TypeOK ==
  /\ status \in [Docs -> DocumentStatus]
  /\ originals \subseteq Docs
  /\ facts \subseteq Fact
  /\ conflicts \subseteq ConflictRow
  /\ indexed \subseteq Docs
  /\ chunks \subseteq Docs
  /\ pc \in [Sessions -> Stage]
  /\ job \in [Sessions -> [doc : Docs \cup {"none"}, request : Nat, loaded : DocumentStatus]]
  /\ view \in [Sessions -> [dropped : SUBSET ConflictRow, facts : SUBSET Fact,
                            indexed : BOOLEAN, alone : BOOLEAN]]
  /\ requests \in Nat
  /\ faults \in Nat
  /\ crashes \in Nat
  /\ overlapped \subseteq Docs
  /\ skewed \in BOOLEAN

\* The object store and the database commit apart, requests overlap and
\* crash, yet no row says a document is stored, or more, without its original.
OriginalKept ==
  \A d \in Docs :
    status[d] \in {"stored", "extracting", "classifying", "normalizing", "ready"} =>
      d \in originals

\* No conflict is shown that is not one: each row names two facts that exist
\* and differ, although facts are deleted and conflicts rebuilt concurrently.
ConflictsJustified ==
  \A c \in conflicts :
    \E f, g \in facts : c.pair = {f, g} /\ Value[f.doc] # Value[g.doc]

\* No conflict is missed, unless two rebuilds overlapped and none has run
\* alone since.
ConflictsComplete == skewed \/ Disagreements(facts) \subseteq PairsOf(conflicts)

\* While requests for a document do not overlap, whatever happens to other
\* documents of the claim, it is evidence exactly while it is ready: a failed
\* or crashed attempt leaves no fact and no chunk, and a ready document has
\* one fact row and its chunks.
EvidenceMeansReady ==
  \A d \in Docs \ overlapped :
    IF status[d] = "ready"
    THEN d \in chunks /\ Cardinality(FactsOf(d)) = 1
    ELSE d \notin chunks /\ FactsOf(d) = {}

\* A document no two requests worked on at once stays ready.
ReadyIsStable ==
  [][\A d \in Docs : status[d] = "ready" /\ status'[d] # "ready" => d \in overlapped']_vars

\* A document that is being processed becomes ready or failed, unless a
\* request was broken off.
ProcessingSettles ==
  \A d \in Docs :
    status[d] \in Processing ~> status[d] \in {"ready", "failed"} \/ crashes > 0

AllIdle == \A s \in Sessions : pc[s] = "idle"

\* A retry is safe: between requests, a ready document can be retrieved.
ReadyIsSearchable ==
  AllIdle => \A d \in Docs : status[d] = "ready" => d \in chunks
=============================================================================
