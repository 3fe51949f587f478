---------------------- MODULE DocumentIngestionProofs ----------------------
(* What holds of DocumentIngestion for every value of its constants. *)
EXTENDS DocumentIngestion, FiniteSetTheorems, TLAPS


-----------------------------------------------------------------------------
(* Types *)

Job == [doc : Docs \cup {"none"}, request : Nat, loaded : DocumentStatus]
View == [dropped : SUBSET ConflictRow, facts : SUBSET Fact, indexed : BOOLEAN, alone : BOOLEAN]

RowsTyped ==
  /\ status \in [Docs -> DocumentStatus]
  /\ originals \subseteq Docs
  /\ facts \subseteq Fact
  /\ conflicts \subseteq ConflictRow
  /\ indexed \subseteq Docs
  /\ chunks \subseteq Docs

\* A session at work has a document.
SessionsTyped ==
  /\ pc \in [Sessions -> Stage]
  /\ job \in [Sessions -> Job]
  /\ view \in [Sessions -> View]
  /\ \A s \in Sessions : pc[s] # "idle" => job[s].doc \in Docs

BoundsTyped ==
  /\ requests \in Nat
  /\ faults \in Nat
  /\ crashes \in Nat
  /\ overlapped \subseteq Docs
  /\ skewed \in BOOLEAN

TypeInv == RowsTyped /\ SessionsTyped /\ BoundsTyped

\* The parts are the type invariant and more.
LEMMA TypeParts == TypeInv => TypeOK
  BY DEF TypeInv, TypeOK, RowsTyped, SessionsTyped, BoundsTyped, Job, View

\* The records of a session without work.
LEMMA NothingTyped == NoJob \in Job /\ NoView \in View
  BY DEF NoJob, NoView, Job, View, DocumentStatus

\* A finished session is typed.
LEMMA FinishTyped ==
  ASSUME SessionsTyped, NEW s \in Sessions, Finish(s)
  PROVE  SessionsTyped'
  BY NothingTyped DEF SessionsTyped, Finish, Stage

\* A session that goes on to its next stage is typed.
LEMMA GotoTyped ==
  ASSUME SessionsTyped, NEW s \in Sessions, NEW stage \in Stage, pc[s] # "idle",
         Goto(s, stage)
  PROVE  SessionsTyped'
  BY DEF SessionsTyped, Goto

\* A session that raises is typed.
LEMMA RaiseTyped ==
  ASSUME SessionsTyped, NEW s \in Sessions, pc[s] # "idle", Raise(s)
  PROVE  SessionsTyped'
  BY NothingTyped DEF SessionsTyped, Raise, Stage

\* Disagreements are pairs of the facts they were found among.
LEMMA DisagreementsAre ==
  ASSUME NEW fs, NEW pair
  PROVE  pair \in Disagreements(fs) <=>
           \E f, g \in fs : Value[f.doc] # Value[g.doc] /\ pair = {f, g}
<1>1. ASSUME pair \in Disagreements(fs)
      PROVE  \E f, g \in fs : Value[f.doc] # Value[g.doc] /\ pair = {f, g}
  BY <1>1 DEF Disagreements
<1>2. ASSUME NEW f \in fs, NEW g \in fs, Value[f.doc] # Value[g.doc], pair = {f, g}
      PROVE  pair \in Disagreements(fs)
  <2>1. <<f, g>> \in {q \in fs \X fs : Value[q[1].doc] # Value[q[2].doc]}
    BY <1>2
  <2>2. pair = {<<f, g>>[1], <<f, g>>[2]}
    BY <1>2
  <2>3. QED
    BY <2>1, <2>2, Zenon DEF Disagreements
<1>3. QED
  BY <1>1, <1>2

\* The rows a request writes are conflict rows.
LEMMA RowsTypedFor ==
  ASSUME NEW fs, fs \subseteq Fact, NEW request \in Nat
  PROVE  RowsFor(Disagreements(fs), request) \subseteq ConflictRow
<1>1. \A pair \in Disagreements(fs) : pair \in SUBSET Fact
  BY DisagreementsAre
<1>2. QED
  BY <1>1 DEF RowsFor, ConflictRow

\* What a session at work reads of itself.
LEMMA OwnTyped ==
  ASSUME TypeInv, NEW s \in Sessions, pc[s] # "idle"
  PROVE  /\ job[s].doc \in Docs
         /\ job[s].request \in Nat
         /\ OwnFact(s) \in Fact
         /\ view[s].facts \subseteq Fact
  BY DEF TypeInv, SessionsTyped, Job, View, OwnFact, Fact

\* Accepting a request keeps the types.
LEMMA AcceptTyped ==
  ASSUME TypeInv, NEW s \in Sessions, NEW d \in Docs, NEW stage \in Stage, Accept(s, d, stage)
  PROVE  TypeInv'
<1>1. RowsTyped'
  BY DEF TypeInv, Accept, RowsTyped, rowVars
<1>2. [doc |-> d, request |-> requests + 1, loaded |-> status[d]] \in Job
  BY DEF TypeInv, RowsTyped, BoundsTyped, Job
<1>3. SessionsTyped'
  BY <1>2 DEF TypeInv, Accept, SessionsTyped
<1>4. BoundsTyped'
  BY DEF TypeInv, Accept, BoundsTyped
<1>5. QED
  BY <1>1, <1>3, <1>4 DEF TypeInv

\* So does a transaction that only advances the status.
LEMMA AdvanceTyped ==
  ASSUME TypeInv, NEW s \in Sessions, NEW from \in Stage \ {"idle"},
         NEW new \in DocumentStatus, NEW to \in Stage, Advance(s, from, new, to)
  PROVE  TypeInv'
<1>1. RowsTyped'
  BY DEF TypeInv, Advance, RowsTyped
<1>2. SessionsTyped'
  BY GotoTyped DEF TypeInv, Advance
<1>3. BoundsTyped'
  BY DEF TypeInv, Advance, BoundsTyped, boundVars
<1>4. QED
  BY <1>1, <1>2, <1>3 DEF TypeInv

\* The last transaction keeps the types.
LEMMA PublishTyped ==
  ASSUME TypeInv, NEW s \in Sessions, pc[s] = "finish", Publish(s), UNCHANGED originals
  PROVE  RowsTyped' /\ SessionsTyped' /\ skewed' \in BOOLEAN
<1>1. /\ job[s].doc \in Docs
      /\ job[s].request \in Nat
      /\ OwnFact(s) \in Fact
      /\ view[s].facts \subseteq Fact
  BY OwnTyped
<1>2. RowsFor(Rebuilt(s), job[s].request) \subseteq ConflictRow
  BY <1>1, RowsTypedFor DEF Rebuilt
<1>3. RowsTyped'
  <2>1. /\ facts' = facts \cup {OwnFact(s)}
        /\ conflicts' = (conflicts \ view[s].dropped) \cup RowsFor(Rebuilt(s), job[s].request)
        /\ indexed' = indexed \cup {job[s].doc}
        /\ chunks' = IF job[s].doc \in indexed THEN chunks ELSE chunks \cup {job[s].doc}
        /\ status' = [status EXCEPT ![job[s].doc] = "ready"]
    BY DEF Publish
  <2>2. QED
    BY <1>1, <1>2, <2>1 DEF TypeInv, RowsTyped, DocumentStatus
<1>4. SessionsTyped'
  BY FinishTyped DEF TypeInv, Publish
<1>5. skewed' \in BOOLEAN
  BY DEF Publish
<1>6. QED
  BY <1>3, <1>4, <1>5

\* A view whose parts are typed.
LEMMA ViewParts ==
  ASSUME NEW v \in View, NEW fs \in SUBSET Fact, NEW a \in BOOLEAN, NEW b \in BOOLEAN
  PROVE  [v EXCEPT !.facts = fs, !.indexed = a, !.alone = b] \in View
  BY DEF View

\* The statements of the last transaction keep the types.
LEMMA ViewTyped ==
  ASSUME TypeInv, NEW s \in Sessions, DropConflicts(s) \/ ReadFacts(s)
  PROVE  TypeInv'
<1>1. CASE DropConflicts(s)
  <2>1. [view[s] EXCEPT !.dropped = conflicts] \in View
    BY DEF TypeInv, RowsTyped, SessionsTyped, View
  <2>2. view' \in [Sessions -> View]
    BY <1>1, <2>1 DEF TypeInv, SessionsTyped, DropConflicts
  <2>3. QED
    BY <1>1, <2>2 DEF TypeInv, RowsTyped, SessionsTyped, BoundsTyped, DropConflicts, rowVars,
                      boundVars, Stage
<1>2. CASE ReadFacts(s)
  <2>1. [view[s] EXCEPT !.facts = facts, !.indexed = job[s].doc \in indexed,
                        !.alone = Finishing = {}] \in View
    <3>1. view[s] \in View /\ facts \in SUBSET Fact
      BY DEF TypeInv, RowsTyped, SessionsTyped
    <3>2. (job[s].doc \in indexed) \in BOOLEAN /\ (Finishing = {}) \in BOOLEAN
      OBVIOUS
    <3>3. QED
      BY <3>1, <3>2, ViewParts, Zenon
  <2>2. \A t \in Sessions : [view[t] EXCEPT !.alone = FALSE] \in View
    BY DEF TypeInv, SessionsTyped, View
  <2>3. view' \in [Sessions -> View]
    BY <1>2, <2>1, <2>2 DEF TypeInv, SessionsTyped, ReadFacts
  <2>4. QED
    BY <1>2, <2>3 DEF TypeInv, RowsTyped, SessionsTyped, BoundsTyped, ReadFacts, rowVars,
                      boundVars, Stage
<1>3. QED
  BY <1>1, <1>2

\* Initially every variable is typed.
LEMMA TypeInit == Init => TypeInv
<1> SUFFICES ASSUME Init PROVE TypeInv
  OBVIOUS
<1>1. facts \subseteq Fact /\ SeededDocs \subseteq Docs
  BY IngestionAssumption DEF Init, Fact
<1>2. conflicts \subseteq ConflictRow
  BY <1>1, RowsTypedFor DEF Init
<1>3. RowsTyped
  BY <1>1, <1>2 DEF Init, RowsTyped, DocumentStatus
<1>4. SessionsTyped
  BY NothingTyped DEF Init, SessionsTyped, Stage
<1>5. QED
  BY <1>3, <1>4 DEF Init, BoundsTyped, TypeInv

\* Every step keeps the types.
LEMMA TypeStep == TypeInv /\ [Next]_vars => TypeInv'
<1> SUFFICES ASSUME TypeInv, [Next]_vars PROVE TypeInv'
  OBVIOUS
<1>1. CASE UNCHANGED vars
  BY <1>1 DEF vars, TypeInv, RowsTyped, SessionsTyped, BoundsTyped
<1>2. ASSUME NEW s \in Sessions, NEW d \in Docs, Upload(s, d) \/ Retry(s, d)
      PROVE  TypeInv'
  BY <1>2, AcceptTyped DEF Upload, Retry, Stage
<1>3. ASSUME NEW s \in Sessions, UploadCommit(s)
      PROVE  TypeInv'
  <2>1. job[s].doc \in Docs
    BY <1>3, OwnTyped DEF UploadCommit
  <2>2. RowsTyped' /\ BoundsTyped'
    BY <1>3, <2>1 DEF UploadCommit, TypeInv, RowsTyped, BoundsTyped, boundVars, DocumentStatus, Processing
  <2>3. CASE status[job[s].doc] # "absent"
    BY <1>3, <2>2, <2>3, FinishTyped DEF UploadCommit, TypeInv
  <2>4. CASE status[job[s].doc] = "absent"
    <3>1. [job[s] EXCEPT !.loaded = "uploaded"] \in Job
      BY DEF TypeInv, SessionsTyped, Job, DocumentStatus, Processing
    <3>2. SessionsTyped'
      BY <1>3, <2>1, <2>4, <3>1 DEF UploadCommit, TypeInv, SessionsTyped, Stage, Job
    <3>3. QED
      BY <2>2, <3>2 DEF TypeInv
  <2>5. QED
    BY <2>3, <2>4
<1>4. ASSUME NEW s \in Sessions, Validate(s) \/ PutOriginal(s)
      PROVE  TypeInv'
  <2>1. SessionsTyped'
    BY <1>4, GotoTyped DEF Validate, PutOriginal, TypeInv, Stage
  <2>2. job[s].doc \in Docs
    BY <1>4, OwnTyped DEF Validate, PutOriginal
  <2>3. RowsTyped' /\ BoundsTyped'
    BY <1>4, <2>2 DEF Validate, PutOriginal, OriginalsAfterPut, TypeInv, RowsTyped, BoundsTyped,
                      boundVars, rowVars, DocumentStatus, Processing
  <2>4. QED
    BY <2>1, <2>3 DEF TypeInv
<1>5. ASSUME NEW s \in Sessions, Store(s) \/ ExtractStart(s) \/ Classify(s)
      PROVE  TypeInv'
  BY <1>5, AdvanceTyped DEF Store, ExtractStart, Classify, Stage, DocumentStatus, Processing
<1>6. ASSUME NEW s \in Sessions, Extract(s)
      PROVE  TypeInv'
  <2>1. SessionsTyped'
    BY <1>6, GotoTyped, RaiseTyped DEF Extract, TypeInv, Stage
  <2>2. RowsTyped' /\ BoundsTyped'
    BY <1>6 DEF Extract, TypeInv, RowsTyped, BoundsTyped, boundVars, DocumentStatus, Processing
  <2>3. QED
    BY <2>1, <2>2 DEF TypeInv
<1>7. ASSUME NEW s \in Sessions, Commit(s)
      PROVE  TypeInv'
  <2>1. originals' = originals /\ UNCHANGED <<boundVars, overlapped>>
    BY <1>7 DEF Commit
  <2>2. CASE Publish(s)
    BY <1>7, <2>1, <2>2, PublishTyped DEF Commit, TypeInv, BoundsTyped, boundVars
  <2>3. CASE Raise(s) /\ UNCHANGED <<rowVars, skewed>>
    <3>1. SessionsTyped'
      BY <1>7, <2>3, RaiseTyped DEF Commit, TypeInv
    <3>2. QED
      BY <2>1, <2>3, <3>1 DEF TypeInv, RowsTyped, BoundsTyped, boundVars, rowVars
  <2>4. QED
    BY <1>7, <2>2, <2>3 DEF Commit
<1>8. ASSUME NEW s \in Sessions, Fault(s)
      PROVE  TypeInv'
  <2>1. SessionsTyped'
    BY <1>8, RaiseTyped DEF Fault, Guarded, TypeInv
  <2>2. QED
    BY <1>8, <2>1 DEF Fault, TypeInv, RowsTyped, BoundsTyped, rowVars
<1>9. ASSUME NEW s \in Sessions, Fail(s)
      PROVE  TypeInv'
  <2>1. SessionsTyped'
    BY <1>9, FinishTyped DEF Fail, TypeInv
  <2>2. QED
    BY <1>9, <2>1 DEF Fail, FailureStatus, TypeInv, RowsTyped, BoundsTyped, boundVars, DocumentStatus
<1>10. ASSUME NEW s \in Sessions, Crash(s)
       PROVE  TypeInv'
  <2>1. SessionsTyped'
    BY <1>10, FinishTyped DEF Crash, TypeInv
  <2>2. QED
    BY <1>10, <2>1 DEF Crash, TypeInv, RowsTyped, BoundsTyped, rowVars
<1>11. QED
  BY <1>1, <1>2, <1>3, <1>4, <1>5, <1>6, <1>7, <1>8, <1>9, <1>10, ViewTyped DEF Next, Serve

\* Every variable of the ingestion keeps its type, and a session at work has
\* a document.
THEOREM TypeInvariance == Spec => []TypeInv
  BY TypeInit, TypeStep, PTL DEF Spec

\* TypeOK holds for any sessions, documents and bounds.
THEOREM IngestionTypes == Spec => []TypeOK
  BY TypeInvariance, TypeParts, PTL

-----------------------------------------------------------------------------
(* The object store *)

\* The stages that follow the put of the original.
AfterPut ==
  {"store", "extractStart", "extract", "classify", "dropConflicts", "readFacts", "finish"}

\* A session past the put has an original to work on.
PutDone == \A s \in Sessions : pc[s] \in AfterPut => job[s].doc \in originals

StoreInv == TypeInv /\ OriginalKept /\ PutDone

\* Originals stay, and a status past the put is only written past the put.
LEMMA StoreStep == StoreInv /\ [Next]_vars => StoreInv'
<1> SUFFICES ASSUME StoreInv, [Next]_vars PROVE OriginalKept' /\ PutDone'
  BY TypeStep DEF StoreInv
<1> USE DEF StoreInv, TypeInv, RowsTyped, SessionsTyped, Job, OriginalKept, PutDone, AfterPut
<1>1. CASE UNCHANGED vars
  BY <1>1 DEF vars
<1>2. ASSUME NEW s \in Sessions, NEW d \in Docs, Upload(s, d) \/ Retry(s, d)
      PROVE  OriginalKept' /\ PutDone'
  BY <1>2 DEF Upload, Retry, Accept, rowVars
<1>3. ASSUME NEW s \in Sessions, UploadCommit(s)
      PROVE  OriginalKept' /\ PutDone'
  BY <1>3 DEF UploadCommit, Finish
<1>4. ASSUME NEW s \in Sessions, Validate(s)
      PROVE  OriginalKept' /\ PutDone'
  BY <1>4 DEF Validate, Goto
<1>5. ASSUME NEW s \in Sessions, PutOriginal(s)
      PROVE  OriginalKept' /\ PutDone'
  BY <1>5 DEF PutOriginal, OriginalsAfterPut, Goto, rowVars
<1>6. ASSUME NEW s \in Sessions, Store(s) \/ ExtractStart(s) \/ Classify(s)
      PROVE  OriginalKept' /\ PutDone'
  BY <1>6 DEF Store, ExtractStart, Classify, Advance, Goto
<1>7. ASSUME NEW s \in Sessions, Extract(s)
      PROVE  OriginalKept' /\ PutDone'
  BY <1>7 DEF Extract, Goto, Raise
<1>8. ASSUME NEW s \in Sessions, DropConflicts(s) \/ ReadFacts(s)
      PROVE  OriginalKept' /\ PutDone'
  BY <1>8 DEF DropConflicts, ReadFacts, rowVars
<1>9. ASSUME NEW s \in Sessions, Commit(s)
      PROVE  OriginalKept' /\ PutDone'
  BY <1>9 DEF Commit, Publish, Finish, Raise, rowVars
<1>10. ASSUME NEW s \in Sessions, Fault(s) \/ Fail(s) \/ Crash(s)
       PROVE  OriginalKept' /\ PutDone'
  BY <1>10 DEF Fault, Fail, FailureStatus, Crash, Raise, Finish, rowVars
<1>11. QED
  BY <1>1, <1>2, <1>3, <1>4, <1>5, <1>6, <1>7, <1>8, <1>9, <1>10 DEF Next, Serve

\* A document that is stored, or further, has its original in the object
\* store, although store and database commit apart.
THEOREM OriginalsAreKept == Spec => []OriginalKept
<1>1. Init => StoreInv
  BY TypeInit DEF Init, StoreInv, OriginalKept, PutDone, AfterPut
<1>2. StoreInv => OriginalKept
  BY DEF StoreInv
<1>3. QED
  BY <1>1, <1>2, StoreStep, PTL DEF Spec

-----------------------------------------------------------------------------
(* The conflict table *)

\* A step that leaves facts and conflicts alone, or only drops facts no
\* conflict refers to.
FactsLeft ==
  /\ conflicts' = conflicts
  /\ facts' \subseteq facts
  /\ ~ Referenced(facts \ facts')

\* A session publishes what its last transaction has seen.
Published(s) == ~ Collides(s) /\ Publish(s)

\* Every step is one or the other.
LEMMA FactsStep ==
  ASSUME [Next]_vars
  PROVE  FactsLeft \/ \E s \in Sessions : pc[s] = "finish" /\ Published(s)
<1>0. UNCHANGED <<facts, conflicts>> => FactsLeft
  BY DEF FactsLeft, Referenced
<1>1. CASE UNCHANGED vars
  BY <1>0, <1>1 DEF vars
<1>2. ASSUME NEW s \in Sessions, NEW d \in Docs, Upload(s, d) \/ Retry(s, d)
      PROVE  FactsLeft
  BY <1>0, <1>2 DEF Upload, Retry, Accept, rowVars
<1>3. ASSUME NEW s \in Sessions, Extract(s)
      PROVE  FactsLeft
  BY <1>3 DEF Extract, FactsLeft, Referenced, FactsOf
<1>4. ASSUME NEW s \in Sessions, Commit(s)
      PROVE  FactsLeft \/ (pc[s] = "finish" /\ Published(s))
  <2>1. CASE Published(s)
    BY <1>4, <2>1 DEF Commit
  <2>2. CASE UNCHANGED rowVars
    BY <1>0, <2>2 DEF rowVars
  <2>3. QED
    BY <1>4, <2>1, <2>2 DEF Commit, Published
<1>5. ASSUME NEW s \in Sessions,
             \/ UploadCommit(s) \/ Validate(s) \/ PutOriginal(s) \/ Store(s) \/ ExtractStart(s)
             \/ Classify(s) \/ DropConflicts(s) \/ ReadFacts(s) \/ Fault(s) \/ Fail(s) \/ Crash(s)
      PROVE  FactsLeft
  BY <1>0, <1>5 DEF UploadCommit, Validate, PutOriginal, Store, ExtractStart, Classify, Advance,
                    DropConflicts, ReadFacts, Fault, Fail, Crash, rowVars
<1>6. QED
  BY <1>1, <1>2, <1>3, <1>4, <1>5 DEF Next, Serve

\* Two facts that exist and differ make the pair of a row.
Justified(pair) == \E f, g \in facts : pair = {f, g} /\ Value[f.doc] # Value[g.doc]

\* Facts a row names are not deleted, and rows are only inserted for facts
\* that are there.
LEMMA JustifiedStep == ConflictsJustified /\ [Next]_vars => ConflictsJustified'
<1> SUFFICES ASSUME ConflictsJustified, [Next]_vars, NEW c \in conflicts' PROVE Justified(c.pair)'
  BY DEF ConflictsJustified, Justified
<1>1. CASE FactsLeft
  <2>1. PICK f \in facts, g \in facts : c.pair = {f, g} /\ Value[f.doc] # Value[g.doc]
    BY <1>1 DEF FactsLeft, ConflictsJustified
  <2>2. f \in facts' /\ g \in facts'
    BY <1>1, <2>1 DEF FactsLeft, Referenced
  <2>3. QED
    BY <2>1, <2>2 DEF Justified
<1>2. ASSUME NEW s \in Sessions, Published(s)
      PROVE  Justified(c.pair)'
  <2>1. /\ facts' = facts \cup {OwnFact(s)}
        /\ conflicts' = (conflicts \ view[s].dropped) \cup RowsFor(Rebuilt(s), job[s].request)
    BY <1>2 DEF Published, Publish
  <2>2. CASE c \in conflicts
    BY <2>1, <2>2 DEF ConflictsJustified, Justified
  <2>3. CASE c \in RowsFor(Rebuilt(s), job[s].request)
    <3>1. c.pair \in Rebuilt(s)
      BY <2>3 DEF RowsFor
    <3>2. c.pair \subseteq facts'
      BY <1>2, <2>1, <3>1 DEF Published, Collides
    <3>3. PICK f, g : c.pair = {f, g} /\ Value[f.doc] # Value[g.doc]
      BY <3>1, DisagreementsAre DEF Rebuilt
    <3>4. QED
      BY <3>2, <3>3 DEF Justified
  <2>4. QED
    BY <2>1, <2>2, <2>3
<1>3. QED
  BY <1>1, <1>2, FactsStep

\* Each row of the conflict table names two facts that exist and differ,
\* although facts are deleted and conflicts rebuilt concurrently.
THEOREM ConflictsAreJustified == Spec => []ConflictsJustified
<1>1. Init => ConflictsJustified
  <2> SUFFICES ASSUME Init, NEW c \in conflicts PROVE Justified(c.pair)
    BY DEF ConflictsJustified, Justified
  <2>1. c.pair \in Disagreements(facts)
    BY DEF Init, RowsFor
  <2>2. QED
    BY <2>1, DisagreementsAre DEF Justified
<1>2. QED
  BY <1>1, JustifiedStep, PTL DEF Spec

-----------------------------------------------------------------------------
(* Documents no two requests work on at once *)

\* At most one session serves such a document.
Exclusive ==
  \A s, t \in Sessions :
    /\ pc[s] # "idle" /\ pc[t] # "idle"
    /\ job[s].doc = job[t].doc
    /\ job[s].doc \notin overlapped
    => s = t

\* While it is served it is neither ready nor, once its row is there, absent.
AtWork ==
  \A s \in Sessions :
    job[s].doc \notin overlapped =>
      /\ pc[s] = "upload" => status[job[s].doc] = "absent"
      /\ pc[s] \notin {"idle", "upload"} => status[job[s].doc] \notin {"absent", "ready"}

\* Its index is ready only when it is.
IndexMeansReady == \A d \in Docs \ overlapped : d \in indexed => status[d] = "ready"

EvidenceInv ==
  /\ TypeInv
  /\ EvidenceMeansReady
  /\ IndexMeansReady
  /\ Exclusive
  /\ AtWork

\* What a step of a session that serves a document may do: it ends the request
\* or goes on with the same document, which is not ready then.
Works(s) ==
  /\ pc[s] # "idle"
  /\ overlapped' = overlapped
  /\ \A t \in Sessions \ {s} : pc'[t] = pc[t] /\ job'[t] = job[t]
  /\ \A d \in Docs \ {job[s].doc} : status'[d] = status[d]
  /\ \/ pc'[s] = "idle"
     \/ /\ pc'[s] \notin {"idle", "upload"}
        /\ job'[s].doc = job[s].doc
        /\ job[s].doc \notin overlapped => status'[job[s].doc] \notin {"absent", "ready"}

\* Every step of a session at work is of that kind.
LEMMA ServeWorks ==
  ASSUME EvidenceInv, NEW s \in Sessions, Serve(s) \/ Crash(s)
  PROVE  Works(s)
<1> USE DEF EvidenceInv, TypeInv, RowsTyped, SessionsTyped, Job, AtWork, Works
<1>1. CASE UploadCommit(s)
  BY <1>1 DEF UploadCommit, Finish
<1>2. CASE Validate(s)
  BY <1>2 DEF Validate, Goto
<1>3. CASE PutOriginal(s)
  BY <1>3 DEF PutOriginal, Goto, rowVars
<1>4. CASE Store(s) \/ ExtractStart(s) \/ Classify(s)
  BY <1>4 DEF Store, ExtractStart, Classify, Advance, Goto
<1>5. CASE Extract(s)
  BY <1>5 DEF Extract, Goto, Raise
<1>6. CASE DropConflicts(s) \/ ReadFacts(s)
  BY <1>6 DEF DropConflicts, ReadFacts, rowVars
<1>7. CASE Commit(s)
  <2>1. CASE Publish(s)
    BY <1>7, <2>1 DEF Commit, Publish, Finish
  <2>2. CASE Raise(s) /\ UNCHANGED <<rowVars, skewed>>
    BY <1>7, <2>2 DEF Commit, Raise, rowVars
  <2>3. QED
    BY <1>7, <2>1, <2>2 DEF Commit
<1>8. CASE Fault(s)
  BY <1>8 DEF Fault, Guarded, Raise, rowVars
<1>9. CASE Fail(s) \/ Crash(s)
  BY <1>9 DEF Fail, Crash, Finish, rowVars
<1>10. QED
  BY <1>1, <1>2, <1>3, <1>4, <1>5, <1>6, <1>7, <1>8, <1>9 DEF Serve

\* Such a step leaves the other sessions alone with their documents.
LEMMA WorksExclusive ==
  ASSUME EvidenceInv, NEW s \in Sessions, Works(s)
  PROVE  Exclusive' /\ AtWork'
<1>1. \A t \in Sessions : pc'[t] # "idle" => pc[t] # "idle" /\ job'[t].doc = job[t].doc
  BY DEF Works
<1>2. Exclusive'
  BY <1>1 DEF EvidenceInv, Exclusive, Works
<1>3. AtWork'
  <2> SUFFICES ASSUME NEW t \in Sessions, pc'[t] # "idle", job'[t].doc \notin overlapped'
               PROVE  /\ pc'[t] = "upload" => status'[job'[t].doc] = "absent"
                      /\ pc'[t] \notin {"idle", "upload"} =>
                           status'[job'[t].doc] \notin {"absent", "ready"}
    BY DEF AtWork
  <2>1. CASE t = s
    BY <2>1 DEF Works
  <2>2. CASE t # s
    <3>1. pc'[t] = pc[t] /\ job'[t] = job[t] /\ job[t].doc \notin overlapped
      BY <2>2 DEF Works
    <3>2. job[t].doc # job[s].doc /\ job[t].doc \in Docs
      BY <2>2, <3>1 DEF EvidenceInv, Exclusive, Works, TypeInv, SessionsTyped
    <3>3. status'[job[t].doc] = status[job[t].doc]
      BY <3>2 DEF Works
    <3>4. QED
      BY <3>1, <3>3 DEF EvidenceInv, AtWork
  <2>3. QED
    BY <2>1, <2>2
<1>4. QED
  BY <1>2, <1>3

\* A request that begins is alone with its document, or marks it overlapped.
LEMMA AcceptExclusive ==
  ASSUME EvidenceInv, NEW s \in Sessions, NEW d \in Docs, Upload(s, d) \/ Retry(s, d)
  PROVE  Exclusive' /\ AtWork'
<1>1. PICK stage \in {"upload", "validate"} :
        /\ Accept(s, d, stage)
        /\ stage = "upload" => status[d] = "absent"
        /\ stage = "validate" => status[d] \notin {"absent", "ready"}
  BY DEF Upload, Retry, Retriable
<1>2. /\ pc' = [pc EXCEPT ![s] = stage]
      /\ job'[s].doc = d
      /\ \A t \in Sessions \ {s} : pc'[t] = pc[t] /\ job'[t] = job[t]
      /\ pc'[s] = stage
      /\ status' = status
  BY <1>1 DEF Accept, rowVars, EvidenceInv, TypeInv, SessionsTyped
<1>3. overlapped \subseteq overlapped'
  BY <1>1 DEF Accept
<1>4. ASSUME NEW t \in Sessions \ {s}, pc[t] # "idle", job[t].doc = d
      PROVE  d \in overlapped'
  BY <1>1, <1>4 DEF Accept, Serving
<1>5. Exclusive'
  BY <1>2, <1>3, <1>4 DEF EvidenceInv, Exclusive
<1>6. AtWork'
  BY <1>1, <1>2, <1>3 DEF EvidenceInv, AtWork
<1>7. QED
  BY <1>5, <1>6

\* What a step may do to the evidence of a document: nothing, leave it without
\* evidence, or make it ready with a fact and its chunks.
Kept(d) ==
  /\ status'[d] = status[d]
  /\ FactsOf(d)' = FactsOf(d)
  /\ d \in chunks' <=> d \in chunks
  /\ d \in indexed' <=> d \in indexed

Unready(d) ==
  /\ status[d] # "ready" /\ status'[d] # "ready"
  /\ FactsOf(d)' = {}
  /\ d \notin chunks' /\ d \notin indexed'

Readied(d) ==
  /\ status[d] # "ready" /\ status'[d] = "ready"
  /\ \E f : FactsOf(d)' = {f}
  /\ d \in chunks'

\* A document that nobody works on, or two sessions do, aside, the step of a
\* session does one of these.
LEMMA ServeTreats ==
  ASSUME EvidenceInv, NEW s \in Sessions, Serve(s) \/ Crash(s), NEW d \in Docs \ overlapped
  PROVE  Kept(d) \/ Unready(d) \/ Readied(d)
<1> USE DEF EvidenceInv, TypeInv, RowsTyped
<1>1. Works(s)
  BY ServeWorks
<1>2. CASE UNCHANGED rowVars
  BY <1>2 DEF rowVars, Kept, FactsOf
<1>3. CASE /\ UNCHANGED <<facts, chunks, indexed>>
           /\ status' = [status EXCEPT ![job[s].doc] = status'[job[s].doc]]
           /\ pc[s] # "idle"
           /\ status'[job[s].doc] # "ready"
  <2>1. CASE d # job[s].doc
    BY <1>3, <2>1 DEF Kept, FactsOf
  <2>2. CASE d = job[s].doc
    <3>1. status[d] # "ready"
      BY <1>3, <2>2 DEF AtWork
    <3>2. QED
      BY <1>3, <2>2, <3>1 DEF Unready, FactsOf, EvidenceMeansReady, IndexMeansReady
  <2>3. QED
    BY <2>1, <2>2
<1>4. CASE UploadCommit(s)
  BY <1>2, <1>3, <1>4, OwnTyped DEF UploadCommit, rowVars
<1>5. CASE Validate(s)
  <2>1. CASE job[s].loaded = "validating"
    BY <1>2, <1>5, <2>1 DEF Validate, rowVars
  <2>2. CASE job[s].loaded # "validating"
    BY <1>3, <1>5, <2>2, OwnTyped DEF Validate
  <2>3. QED
    BY <2>1, <2>2
<1>6. CASE Store(s) \/ ExtractStart(s) \/ Classify(s)
  BY <1>3, <1>6, OwnTyped DEF Store, ExtractStart, Classify, Advance
<1>7. CASE PutOriginal(s) \/ DropConflicts(s) \/ ReadFacts(s) \/ Fault(s) \/ Crash(s)
  BY <1>2, <1>7 DEF PutOriginal, DropConflicts, ReadFacts, Fault, Crash
<1>8. CASE Fail(s)
  BY <1>3, <1>8, OwnTyped DEF Fail, FailureStatus
<1>9. CASE Extract(s)
  <2>1. CASE UNCHANGED <<status, facts, chunks>>
    BY <1>2, <1>9, <2>1 DEF Extract, rowVars
  <2>2. CASE /\ facts' = facts \ FactsOf(job[s].doc)
             /\ chunks' = chunks \ {job[s].doc}
             /\ status' = [status EXCEPT ![job[s].doc] = "classifying"]
    <3>1. indexed' = indexed /\ pc[s] = "extract"
      BY <1>9 DEF Extract
    <3>2. CASE d # job[s].doc
      BY <2>2, <3>1, <3>2 DEF Kept, FactsOf
    <3>3. CASE d = job[s].doc
      BY <2>2, <3>1, <3>3 DEF AtWork, Unready, FactsOf, IndexMeansReady
    <3>4. QED
      BY <3>2, <3>3
  <2>3. QED
    BY <1>9, <2>1, <2>2 DEF Extract
<1>10. CASE Commit(s)
  <2>1. CASE UNCHANGED rowVars
    BY <1>2, <2>1
  <2>2. CASE Publish(s)
    <3>1. /\ facts' = facts \cup {OwnFact(s)}
          /\ indexed' = indexed \cup {job[s].doc}
          /\ chunks' = IF job[s].doc \in indexed THEN chunks ELSE chunks \cup {job[s].doc}
          /\ status' = [status EXCEPT ![job[s].doc] = "ready"]
      BY <2>2 DEF Publish
    <3>2. OwnFact(s).doc = job[s].doc
      BY DEF OwnFact
    <3>3. CASE d # job[s].doc
      BY <3>1, <3>2, <3>3 DEF Kept, FactsOf
    <3>4. CASE d = job[s].doc
      <4>1. status[d] # "ready"
        BY <1>10, <3>4 DEF Commit, AtWork
      <4>2. FactsOf(d) = {} /\ d \notin indexed
        BY <4>1 DEF EvidenceMeansReady, IndexMeansReady
      <4>3. FactsOf(d)' = {OwnFact(s)}
        BY <3>1, <3>2, <3>4, <4>2 DEF FactsOf
      <4>4. QED
        BY <3>1, <3>4, <4>1, <4>2, <4>3 DEF Readied
    <3>5. QED
      BY <3>3, <3>4
  <2>3. QED
    BY <1>10, <2>1, <2>2 DEF Commit
<1>11. QED
  BY <1>4, <1>5, <1>6, <1>7, <1>8, <1>9, <1>10 DEF Serve

\* The same of every step.
LEMMA StepTreats ==
  ASSUME EvidenceInv, [Next]_vars, NEW d \in Docs \ overlapped'
  PROVE  d \notin overlapped /\ (Kept(d) \/ Unready(d) \/ Readied(d))
<1>1. CASE UNCHANGED vars
  BY <1>1 DEF vars, Kept, FactsOf
<1>2. ASSUME NEW s \in Sessions, NEW e \in Docs, Upload(s, e) \/ Retry(s, e)
      PROVE  d \notin overlapped /\ Kept(d)
  BY <1>2 DEF Upload, Retry, Accept, rowVars, Kept, FactsOf
<1>3. ASSUME NEW s \in Sessions, Serve(s) \/ Crash(s)
      PROVE  d \notin overlapped /\ (Kept(d) \/ Unready(d) \/ Readied(d))
  <2>1. overlapped' = overlapped
    BY <1>3, ServeWorks DEF Works
  <2>2. QED
    BY <1>3, <2>1, ServeTreats
<1>4. QED
  BY <1>1, <1>2, <1>3 DEF Next

\* Every step keeps the evidence invariant.
LEMMA EvidenceStep == EvidenceInv /\ [Next]_vars => EvidenceInv'
<1> SUFFICES ASSUME EvidenceInv, [Next]_vars PROVE EvidenceInv'
  OBVIOUS
<1>1. TypeInv'
  BY TypeStep DEF EvidenceInv
<1>2. EvidenceMeansReady'
  <2> SUFFICES ASSUME NEW d \in Docs \ overlapped'
               PROVE  IF status'[d] = "ready"
                      THEN d \in chunks' /\ Cardinality(FactsOf(d)') = 1
                      ELSE d \notin chunks' /\ FactsOf(d)' = {}
    BY DEF EvidenceMeansReady
  <2>1. CASE Kept(d)
    BY <2>1, StepTreats DEF Kept, EvidenceInv, EvidenceMeansReady
  <2>2. CASE Unready(d)
    BY <2>2 DEF Unready
  <2>3. CASE Readied(d)
    BY <2>3, FS_Singleton DEF Readied
  <2>4. QED
    BY <2>1, <2>2, <2>3, StepTreats
<1>3. IndexMeansReady'
  BY StepTreats DEF Kept, Unready, Readied, EvidenceInv, IndexMeansReady
<1>4. Exclusive' /\ AtWork'
  <2>1. CASE UNCHANGED vars
    BY <2>1 DEF vars, EvidenceInv, Exclusive, AtWork
  <2>2. ASSUME NEW s \in Sessions, NEW d \in Docs, Upload(s, d) \/ Retry(s, d)
        PROVE  Exclusive' /\ AtWork'
    BY <2>2, AcceptExclusive
  <2>3. ASSUME NEW s \in Sessions, Serve(s) \/ Crash(s)
        PROVE  Exclusive' /\ AtWork'
    BY <2>3, ServeWorks, WorksExclusive
  <2>4. QED
    BY <2>1, <2>2, <2>3 DEF Next
<1>5. QED
  BY <1>1, <1>2, <1>3, <1>4 DEF EvidenceInv

\* Initially nothing is served.
LEMMA EvidenceInit == Init => EvidenceInv
<1> SUFFICES ASSUME Init PROVE EvidenceInv
  OBVIOUS
<1>1. Exclusive /\ AtWork /\ IndexMeansReady
  BY DEF Init, Exclusive, AtWork, IndexMeansReady
<1>2. EvidenceMeansReady
  <2> SUFFICES ASSUME NEW d \in Docs
               PROVE  IF status[d] = "ready"
                      THEN d \in chunks /\ Cardinality(FactsOf(d)) = 1
                      ELSE d \notin chunks /\ FactsOf(d) = {}
    BY DEF EvidenceMeansReady
  <2>1. CASE d \in SeededDocs
    <3>1. FactsOf(d) = {[doc |-> d, request |-> 0]}
      BY <2>1 DEF Init, FactsOf
    <3>2. QED
      BY <2>1, <3>1, FS_Singleton DEF Init
  <2>2. CASE d \notin SeededDocs
    BY <2>2 DEF Init, FactsOf
  <2>3. QED
    BY <2>1, <2>2
<1>3. QED
  BY <1>1, <1>2, TypeInit DEF EvidenceInv

\* The invariant the next two theorems rest on.
LEMMA EvidenceInvariance == Spec => []EvidenceInv
  BY EvidenceInit, EvidenceStep, PTL DEF Spec

\* A document no two requests worked on at once has one fact and its chunks
\* while it is ready, and neither otherwise.
THEOREM EvidenceIsOfReadyDocuments == Spec => []EvidenceMeansReady
<1>1. EvidenceInv => EvidenceMeansReady
  BY DEF EvidenceInv
<1>2. QED
  BY <1>1, EvidenceInvariance, PTL

\* Such a document stays ready.
THEOREM ReadyStays == Spec => ReadyIsStable
<1>1. ASSUME EvidenceInv, [Next]_vars
      PROVE  [\A d \in Docs : status[d] = "ready" /\ status'[d] # "ready" => d \in overlapped']_vars
  BY <1>1, StepTreats DEF Kept, Unready, Readied
<1>2. QED
  BY <1>1, EvidenceInvariance, PTL DEF Spec, ReadyIsStable

-----------------------------------------------------------------------------
(* The conflicts that are missed *)

\* A session that nobody overtook since it read the facts has seen every fact.
Attentive ==
  \A s \in Sessions :
    pc[s] = "finish" /\ view[s].alone =>
      facts \subseteq view[s].facts /\ Finishing = {s}

CompleteInv == TypeInv /\ ConflictsComplete /\ Attentive

\* A step that neither reads the facts in a last transaction nor publishes.
Passes ==
  /\ facts' \subseteq facts
  /\ UNCHANGED <<conflicts, skewed>>
  /\ \A t \in Sessions : pc'[t] = "finish" => pc[t] = "finish" /\ view'[t] = view[t]

\* Every other step is of that kind.
LEMMA OtherStepsPass ==
  ASSUME TypeInv, [Next]_vars
  PROVE  Passes \/ \E s \in Sessions : ReadFacts(s) \/ (pc[s] = "finish" /\ Publish(s))
<1> USE DEF TypeInv, SessionsTyped, Passes
<1>1. CASE UNCHANGED vars
  BY <1>1 DEF vars
<1>2. ASSUME NEW s \in Sessions, NEW d \in Docs, Upload(s, d) \/ Retry(s, d)
      PROVE  Passes
  BY <1>2 DEF Upload, Retry, Accept, rowVars
<1>3. ASSUME NEW s \in Sessions, UploadCommit(s) \/ Validate(s) \/ PutOriginal(s)
      PROVE  Passes
  BY <1>3 DEF UploadCommit, Validate, PutOriginal, Goto, Finish, rowVars
<1>4. ASSUME NEW s \in Sessions, Store(s) \/ ExtractStart(s) \/ Classify(s)
      PROVE  Passes
  BY <1>4 DEF Store, ExtractStart, Classify, Advance, Goto
<1>5. ASSUME NEW s \in Sessions, Extract(s)
      PROVE  Passes
  BY <1>5 DEF Extract, Goto, Raise
<1>6. ASSUME NEW s \in Sessions, DropConflicts(s)
      PROVE  Passes
  BY <1>6 DEF DropConflicts, rowVars
<1>7. ASSUME NEW s \in Sessions, Commit(s)
      PROVE  Passes \/ (pc[s] = "finish" /\ Publish(s))
  <2>1. CASE Raise(s) /\ UNCHANGED <<rowVars, skewed>>
    BY <2>1 DEF Raise, rowVars
  <2>2. CASE Publish(s)
    BY <1>7, <2>2 DEF Commit
  <2>3. QED
    BY <1>7, <2>1, <2>2 DEF Commit
<1>8. ASSUME NEW s \in Sessions, Fault(s) \/ Fail(s) \/ Crash(s)
      PROVE  Passes
  BY <1>8 DEF Fault, Fail, Crash, Raise, Finish, rowVars
<1>9. QED
  BY <1>1, <1>2, <1>3, <1>4, <1>5, <1>6, <1>7, <1>8 DEF Next, Serve

\* Fewer facts disagree less.
LEMMA DisagreementsGrow ==
  ASSUME NEW fs, NEW gs, fs \subseteq gs
  PROVE  Disagreements(fs) \subseteq Disagreements(gs)
  BY DisagreementsAre

\* The pairs of the rows a request writes.
LEMMA PairsWritten ==
  ASSUME NEW pairs, NEW request
  PROVE  PairsOf(RowsFor(pairs, request)) = pairs
<1>1. \A pair \in pairs : [pair |-> pair, request |-> request] \in RowsFor(pairs, request)
  BY DEF RowsFor
<1>2. \A c \in RowsFor(pairs, request) : c.pair \in pairs
  BY DEF RowsFor
<1>3. QED
  <2>1. PairsOf(RowsFor(pairs, request)) \subseteq pairs
    BY <1>2 DEF PairsOf
  <2>2. ASSUME NEW pair \in pairs PROVE pair \in PairsOf(RowsFor(pairs, request))
    <3>1. [pair |-> pair, request |-> request].pair = pair
      OBVIOUS
    <3>2. QED
      BY <1>1, <3>1, Zenon DEF PairsOf
  <2>3. QED
    BY <2>1, <2>2

\* A rebuild that nobody overtook leaves no conflict out.
LEMMA CompleteStep == CompleteInv /\ [Next]_vars => CompleteInv'
<1> SUFFICES ASSUME CompleteInv, [Next]_vars PROVE ConflictsComplete' /\ Attentive'
  BY TypeStep DEF CompleteInv
<1>1. CASE Passes
  <2>1. ConflictsComplete'
    <3>1. Disagreements(facts') \subseteq Disagreements(facts)
      BY <1>1, DisagreementsGrow DEF Passes
    <3>2. QED
      BY <1>1, <3>1 DEF Passes, CompleteInv, ConflictsComplete, PairsOf, Disagreements
  <2>2. Attentive'
    BY <1>1 DEF Passes, CompleteInv, Attentive, Finishing
  <2>3. QED
    BY <2>1, <2>2
<1>2. ASSUME NEW s \in Sessions, ReadFacts(s)
      PROVE  ConflictsComplete' /\ Attentive'
  <2>1. ConflictsComplete'
    BY <1>2 DEF ReadFacts, rowVars, CompleteInv, ConflictsComplete, PairsOf, Disagreements
  <2>2. ASSUME NEW t \in Sessions, pc'[t] = "finish", view'[t].alone
        PROVE  t = s /\ Finishing = {} /\ facts' \subseteq view'[t].facts
    BY <1>2, <2>2 DEF ReadFacts, rowVars, CompleteInv, TypeInv, SessionsTyped, View, Finishing
  <2>3. \A t \in Sessions : pc'[t] = "finish" <=> t = s \/ t \in Finishing
    BY <1>2 DEF ReadFacts, CompleteInv, TypeInv, SessionsTyped, Finishing
  <2>4. Attentive'
    BY <2>2, <2>3 DEF Attentive, Finishing
  <2>5. QED
    BY <2>1, <2>4
<1>3. ASSUME NEW s \in Sessions, pc[s] = "finish", Publish(s)
      PROVE  ConflictsComplete' /\ Attentive'
  <2>1. /\ facts' = facts \cup {OwnFact(s)}
        /\ conflicts' = (conflicts \ view[s].dropped) \cup RowsFor(Rebuilt(s), job[s].request)
        /\ skewed' = ~ view[s].alone
        /\ Finish(s)
    BY <1>3 DEF Publish
  <2>2. ConflictsComplete'
    <3>1. CASE ~ view[s].alone
      BY <2>1, <3>1 DEF ConflictsComplete
    <3>2. CASE view[s].alone
      <4>1. facts' \subseteq view[s].facts \cup {OwnFact(s)}
        BY <1>3, <2>1, <3>2 DEF CompleteInv, Attentive
      <4>2. Disagreements(facts') \subseteq Rebuilt(s)
        BY <4>1, DisagreementsGrow DEF Rebuilt
      <4>3. PairsOf(RowsFor(Rebuilt(s), job[s].request)) = Rebuilt(s)
        BY PairsWritten
      <4>4. Rebuilt(s) \subseteq PairsOf(conflicts')
        BY <2>1, <4>3 DEF PairsOf
      <4>5. QED
        BY <4>2, <4>4 DEF ConflictsComplete, PairsOf, Disagreements
    <3>3. QED
      BY <3>1, <3>2
  <2>3. Attentive'
    <3> SUFFICES ASSUME NEW t \in Sessions, pc'[t] = "finish", view'[t].alone PROVE FALSE
      BY DEF Attentive
    <3>1. t # s /\ pc[t] = "finish" /\ view[t].alone
      BY <2>1 DEF Finish, CompleteInv, TypeInv, SessionsTyped
    <3>2. Finishing = {t} /\ s \in Finishing
      BY <1>3, <3>1 DEF CompleteInv, Attentive, Finishing
    <3>3. QED
      BY <3>1, <3>2
  <2>4. QED
    BY <2>2, <2>3
<1>4. QED
  BY <1>1, <1>2, <1>3, OtherStepsPass DEF CompleteInv

\* No conflict is missed unless two rebuilds overlapped and none has run alone
\* since.
THEOREM ConflictsAreComplete == Spec => []ConflictsComplete
<1>1. Init => CompleteInv
  <2> SUFFICES ASSUME Init PROVE CompleteInv
    OBVIOUS
  <2>1. PairsOf(conflicts) = Disagreements(facts)
    BY PairsWritten DEF Init
  <2>2. QED
    BY <2>1, TypeInit DEF Init, CompleteInv, ConflictsComplete, Attentive
<1>2. CompleteInv => ConflictsComplete
  BY DEF CompleteInv
<1>3. QED
  BY <1>1, <1>2, CompleteStep, PTL DEF Spec
=============================================================================
