--------------------------- MODULE ReadingProofs ----------------------------
(***************************************************************************)
(* Proofs about what is read: chunks and indexes of document pages         *)
(* (PageIndexing), the evidence a search returns (SearchRanking), and the  *)
(* views of the claims (ClaimViews).  The three share nothing.             *)
(*                                                                         *)
(* An index: text is covered by chunks up to a place that moves on with    *)
(* the window (Covered).  A search: ranks are positions in a total order   *)
(* of fractions, so that better ranks, or a penalty that outweighs them,   *)
(* put a candidate ahead (AheadOrders).  The views: without ties a row has *)
(* one place in the queue; a row that enters brings none forward, one that *)
(* leaves brings the others forward by one, so that the rows overlooked and*)
(* those that jumped the queue are no more than the shifts (Accounted).    *)
(***************************************************************************)
EXTENDS PageIndexing, SearchRanking, ClaimViews, FiniteSetTheorems, TLAPS

-----------------------------------------------------------------------------
(* PageIndexing *)

\* Text of a page up to this place has its short passages in chunks.
Reach == IF start = 0 THEN 0 ELSE IF start < text.length THEN start + Overlap ELSE text.length

Passage(p, q) ==
  /\ p \in 0 .. text.length /\ q \in 0 .. text.length
  /\ p < q /\ q - p <= Overlap + 1
  /\ p \notin text.blank /\ q - 1 \notin text.blank

Whole(p, q) == \E c \in pending : c.page = page /\ c.source_start <= p /\ q <= c.source_end

Covered == \A p, q : Passage(p, q) /\ q <= Reach => Whole(p, q)

\* The chunks of a page have the ordinals from 0 on, one each.
Numbered ==
  /\ \A c \in pending : c.page = page => c.ordinal < ordinal
  /\ \A c \in pending : c.identifier[2] = c.ordinal
  /\ \A c, d \in pending : c.page = d.page /\ c.ordinal = d.ordinal => c = d
  /\ \A c \in pending : \E d \in pending : d.page = c.page /\ d.ordinal = 0
  /\ ordinal > 0 => \E d \in pending : d.page = page /\ d.ordinal = 0

Accepted == (index = "ready" => ~Clash) /\ (index = "refused" => Clash)

IndexInv ==
  /\ IndexTypeOK
  /\ page = 0 => text.length = 0
  /\ Covered
  /\ Numbered
  /\ Accepted

LEMMA TextIs ==
  ASSUME NEW t \in Text
  PROVE  t.length \in Nat /\ t.length <= MaxLength /\ \A i \in t.blank : i \in Nat /\ i < t.length - 1
<1>1. t \in Texts /\ \A i \in t.blank : i < t.length - 1
  BY DEF Text
<1>2. t.length \in 0 .. MaxLength /\ t.blank \subseteq 1 .. MaxLength - 2
  BY <1>1 DEF Texts
<1> QED
  BY <1>1, <1>2, ChunkAssumption

LEMMA NoTextIsText == NoText \in Text /\ NoText.length = 0
<1>1. NoText \in Texts
  BY ChunkAssumption DEF NoText, Texts
<1> QED
  BY <1>1 DEF Text, NoText

\* The end of a window lies beyond its start by more than the overlap, unless
\* it is that of the page.
LEMMA EndIs ==
  ASSUME IndexTypeOK, InPage, NEW e \in start + 1 .. text.length, IsEnd(e)
  PROVE  /\ e \in Nat
         /\ e < text.length => e > start + Overlap
<1>1. /\ start \in Nat /\ text.length \in Nat /\ e \in Nat
      /\ MaxChars \in Nat \ {0} /\ Overlap \in Nat /\ Overlap <= MaxChars \div 2
      /\ MaxChars \div 2 \in Nat /\ MaxChars \div 2 < MaxChars
  BY TextIs, ChunkAssumption DEF IndexTypeOK
<1> DEFINE proposed == Lesser(start + MaxChars, text.length)
           cut == Boundaries(start, proposed)
<1>2. CASE proposed < text.length /\ cut # {}
  <2>1. e \in cut
    BY <1>2 DEF IsEnd
  <2> QED
    BY <1>1, <2>1 DEF Boundaries
<1>3. CASE ~(proposed < text.length /\ cut # {})
  <2>1. e = proposed
    BY <1>3 DEF IsEnd
  <2> QED
    BY <1>1, <2>1 DEF Lesser
<1> QED
  BY <1>1, <1>2, <1>3

\* What a turn of the loop does.
LEMMA WindowIs ==
  ASSUME IndexTypeOK, CutWindow
  PROVE  \E e \in start + 1 .. text.length, from, to \in start .. text.length :
           /\ IsPlace(start, e, from, to)
           /\ e \in Nat /\ from \in Nat /\ to \in Nat /\ from <= to
           /\ pending' = pending \cup {Chunk(start, e, from, to)}
           /\ \/ e = text.length /\ start' = text.length
              \/ e < text.length /\ start' = e - Overlap /\ start < start' /\ start' < text.length
           /\ ordinal' = ordinal + 1
           /\ UNCHANGED <<page, text, index>>
<1>1. PICK e \in start + 1 .. text.length, from, to \in start .. text.length :
        /\ IsEnd(e)
        /\ IsPlace(start, e, from, to)
        /\ pending' = pending \cup {Chunk(start, e, from, to)}
        /\ start' = IF e >= text.length THEN text.length ELSE NextStart(e)
  BY DEF CutWindow
<1>2. start \in Nat /\ text.length \in Nat /\ Overlap \in Nat
  BY TextIs, ChunkAssumption DEF IndexTypeOK
<1>3. e \in Nat /\ (e < text.length => e > start + Overlap)
  BY <1>1, EndIs DEF CutWindow
<1>4. e < text.length => /\ NextStart(e) = e - Overlap
                         /\ start < NextStart(e) /\ NextStart(e) < text.length
  BY <1>2, <1>3 DEF NextStart, Greater
<1>5. from \in Nat /\ to \in Nat /\ from <= to
  BY <1>1, <1>2 DEF IsPlace
<1>6. ordinal' = ordinal + 1 /\ UNCHANGED <<page, text, index>>
  BY DEF CutWindow
<1>7. \/ e = text.length /\ start' = text.length
      \/ e < text.length /\ start' = e - Overlap /\ start < start' /\ start' < text.length
  BY <1>1, <1>2, <1>3, <1>4
<1> QED
  BY <1>1, <1>3, <1>5, <1>6, <1>7

LEMMA IndexTypes ==
  ASSUME IndexTypeOK, page = 0 => text.length = 0, [IndexNext]_indexVars
  PROVE  IndexTypeOK' /\ (page = 0 => text.length = 0)'
<1>0. /\ page \in Nat /\ MaxPages \in Nat /\ page <= MaxPages /\ MaxLength \in Nat
      /\ text.length \in Nat /\ text.length <= MaxLength /\ start \in Nat /\ start <= text.length
      /\ ordinal \in Nat
  BY TextIs, ChunkAssumption DEF IndexTypeOK
<1>1. CASE NextPage
  <2>1. /\ text' \in Text /\ page' = page + 1 /\ page < MaxPages /\ start' = 0 /\ ordinal' = 0
        /\ UNCHANGED <<pending, index>>
    BY <1>1 DEF NextPage, FirstOrdinal
  <2>2. text'.length \in Nat
    BY <2>1, TextIs
  <2> QED
    BY <1>0, <2>1, <2>2 DEF IndexTypeOK
<1>2. CASE CutWindow
  <2>1. PICK e \in start + 1 .. text.length, from, to \in start .. text.length :
           /\ e \in Nat /\ from \in Nat /\ to \in Nat /\ from <= to
           /\ pending' = pending \cup {Chunk(start, e, from, to)}
           /\ \/ e = text.length /\ start' = text.length
              \/ e < text.length /\ start' = e - Overlap /\ start < start' /\ start' < text.length
           /\ ordinal' = ordinal + 1
           /\ UNCHANGED <<page, text, index>>
    BY <1>2, WindowIs
  <2>2. start' \in 0 .. text.length
    <3>1. Overlap \in Nat
      BY ChunkAssumption
    <3> QED
      BY <1>0, <2>1, <3>1
  <2>3. page >= 1
    BY <1>0, <1>2 DEF CutWindow, InPage
  <2>4. /\ Chunk(start, e, from, to).page \in 1 .. page
        /\ Chunk(start, e, from, to).ordinal \in Nat
        /\ Chunk(start, e, from, to).source_start \in 0 .. MaxLength
        /\ Chunk(start, e, from, to).source_end \in from .. MaxLength
        /\ Chunk(start, e, from, to).source_start = from
    BY <1>0, <2>1, <2>3 DEF Chunk
  <2> QED
    BY <1>0, <2>1, <2>2, <2>4 DEF IndexTypeOK
<1>3. CASE Store
  BY <1>3 DEF Store, IndexTypeOK
<1>4. CASE UNCHANGED indexVars
  BY <1>4 DEF indexVars, IndexTypeOK
<1> QED
  BY <1>1, <1>2, <1>3, <1>4 DEF IndexNext

\* A window holds the short passages that begin in it and end in it, and those
\* that begin before it are in an earlier chunk.
LEMMA StaysCovered ==
  ASSUME IndexInv, [IndexNext]_indexVars
  PROVE  Covered'
<1>0. /\ IndexTypeOK /\ Covered
      /\ text.length \in Nat /\ start \in Nat /\ start <= text.length /\ Overlap \in Nat
  BY TextIs, ChunkAssumption DEF IndexInv, IndexTypeOK
<1>1. CASE NextPage
  <2>1. start' = 0
    BY <1>1 DEF NextPage
  <2> QED
    BY <2>1 DEF Covered, Reach, Passage
<1>2. CASE CutWindow
  <2>1. PICK e \in start + 1 .. text.length, from, to \in start .. text.length :
           /\ IsPlace(start, e, from, to)
           /\ e \in Nat /\ from \in Nat /\ to \in Nat /\ from <= to
           /\ pending' = pending \cup {Chunk(start, e, from, to)}
           /\ \/ e = text.length /\ start' = text.length
              \/ e < text.length /\ start' = e - Overlap /\ start < start' /\ start' < text.length
           /\ ordinal' = ordinal + 1
           /\ UNCHANGED <<page, text, index>>
    BY <1>0, <1>2, WindowIs
  <2>2. Reach' = e
    BY <1>0, <2>1 DEF Reach
  <2> SUFFICES ASSUME NEW p, NEW q, Passage(p, q), q <= e PROVE Whole(p, q)'
    BY <2>1, <2>2 DEF Covered, Passage
  <2>3. p \in Nat /\ q \in Nat /\ p < q /\ q - p <= Overlap + 1
        /\ p \notin text.blank /\ q - 1 \notin text.blank
    BY <1>0 DEF Passage
  <2>4. CASE start <= p
    <3>1. from <= p
      <4>1. start .. from - 1 \subseteq text.blank
        BY <2>1 DEF IsPlace
      <4>2. p < from => p \in start .. from - 1
        BY <1>0, <2>1, <2>3, <2>4
      <4> QED
        BY <2>1, <2>3, <4>1, <4>2
    <3>2. q <= to
      <4>1. to .. e - 1 \subseteq text.blank
        BY <2>1 DEF IsPlace
      <4>2. ~(q <= to) => q - 1 \in to .. e - 1
        BY <2>1, <2>3
      <4> QED
        BY <2>3, <4>1, <4>2
    <3>3. /\ Chunk(start, e, from, to) \in pending'
          /\ Chunk(start, e, from, to).page = page'
          /\ Chunk(start, e, from, to).source_start = from
          /\ Chunk(start, e, from, to).source_end = to
      BY <2>1 DEF Chunk
    <3> QED
      BY <3>1, <3>2, <3>3 DEF Whole
  <2>5. CASE p < start
    <3>1. q <= Reach
      BY <1>0, <2>3, <2>5, <1>2 DEF Reach, CutWindow, InPage
    <3>2. PICK c \in pending : c.page = page /\ c.source_start <= p /\ q <= c.source_end
      BY <1>0, <3>1 DEF Covered, Whole
    <3> QED
      BY <2>1, <3>2 DEF Whole
  <2> QED
    BY <1>0, <2>3, <2>4, <2>5
<1>3. CASE Store
  BY <1>0, <1>3 DEF Store, Covered, Reach, Passage, Whole
<1>4. CASE UNCHANGED indexVars
  BY <1>0, <1>4 DEF indexVars, Covered, Reach, Passage, Whole
<1> QED
  BY <1>1, <1>2, <1>3, <1>4 DEF IndexNext

LEMMA StaysNumbered ==
  ASSUME IndexInv, [IndexNext]_indexVars
  PROVE  Numbered'
<1>0. /\ IndexTypeOK /\ Numbered /\ page \in Nat /\ ordinal \in Nat
      /\ \A c \in pending : c.page \in 1 .. page /\ c.ordinal \in Nat
  BY ChunkAssumption DEF IndexInv, IndexTypeOK
<1>1. CASE NextPage
  <2>1. page' = page + 1 /\ ordinal' = 0 /\ pending' = pending
    BY <1>1 DEF NextPage, FirstOrdinal
  <2>2. \A c \in pending : c.page # page'
    BY <1>0, <2>1
  <2> QED
    BY <1>0, <2>1, <2>2 DEF Numbered
<1>2. CASE CutWindow
  <2>1. PICK e, from, to :
           /\ pending' = pending \cup {Chunk(start, e, from, to)}
           /\ ordinal' = ordinal + 1
           /\ page' = page
    BY <1>0, <1>2, WindowIs
  <2> DEFINE new == Chunk(start, e, from, to)
  <2>2. new.page = page /\ new.ordinal = ordinal /\ new.identifier[2] = ordinal
    BY DEF Chunk
  <2> HIDE DEF new
  <2>3. \A c \in pending' : c.page = page' => c.ordinal < ordinal'
    BY <1>0, <2>1, <2>2 DEF Numbered, new
  <2>4. \A c \in pending' : c.identifier[2] = c.ordinal
    BY <1>0, <2>1, <2>2 DEF Numbered, new
  <2>5. \A c \in pending : c.page = new.page => c.ordinal # new.ordinal
    BY <1>0, <2>2 DEF Numbered
  <2>6. \A c, d \in pending' : c.page = d.page /\ c.ordinal = d.ordinal => c = d
    BY <1>0, <2>1, <2>5 DEF Numbered, new
  <2>7. \E d \in pending' : d.page = page /\ d.ordinal = 0
    <3>1. CASE ordinal = 0
      BY <2>1, <2>2, <3>1 DEF new
    <3>2. CASE ordinal > 0
      BY <1>0, <2>1, <3>2 DEF Numbered
    <3> QED
      BY <1>0, <3>1, <3>2
  <2>8. \A c \in pending' : \E d \in pending' : d.page = c.page /\ d.ordinal = 0
    BY <1>0, <2>1, <2>2, <2>7 DEF Numbered, new
  <2> QED
    BY <2>1, <2>3, <2>4, <2>6, <2>7, <2>8 DEF Numbered
<1>3. CASE Store
  BY <1>0, <1>3 DEF Store, Numbered
<1>4. CASE UNCHANGED indexVars
  BY <1>0, <1>4 DEF indexVars, Numbered
<1> QED
  BY <1>1, <1>2, <1>3, <1>4 DEF IndexNext

LEMMA IndexKeeps == IndexInv /\ [IndexNext]_indexVars => IndexInv'
<1> SUFFICES ASSUME IndexInv, [IndexNext]_indexVars PROVE IndexInv'
  OBVIOUS
<1>1. IndexTypeOK' /\ (page = 0 => text.length = 0)'
  BY IndexTypes DEF IndexInv
<1>2. Covered' /\ Numbered'
  BY StaysCovered, StaysNumbered
<1>3. Accepted'
  <2>1. CASE NextPage \/ CutWindow
    BY <2>1 DEF NextPage, CutWindow, Accepted
  <2>2. CASE Store
    BY <2>2 DEF Store, Accepted, Clash
  <2>3. CASE UNCHANGED indexVars
    BY <2>3 DEF indexVars, Accepted, Clash, IndexInv
  <2> QED
    BY <2>1, <2>2, <2>3 DEF IndexNext
<1> QED
  BY <1>1, <1>2, <1>3 DEF IndexInv

LEMMA IndexStarts == Indexing => IndexInv
<1> SUFFICES ASSUME Indexing PROVE IndexInv
  OBVIOUS
<1>1. text.length = 0 /\ text \in Text
  BY NoTextIsText DEF Indexing
<1>2. IndexTypeOK
  BY <1>1, ChunkAssumption DEF Indexing, IndexTypeOK
<1>3. Covered
  BY <1>1 DEF Indexing, Covered, Reach, Passage
<1>4. Numbered /\ Accepted
  BY DEF Indexing, Numbered, Accepted
<1> QED
  BY <1>1, <1>2, <1>3, <1>4 DEF IndexInv

-----------------------------------------------------------------------------
(* The theorems about PageIndexing *)

\* The variables of the indexing keep their types.
THEOREM IndexingTypes == IndexSpec => []IndexTypeOK
<1>1. IndexInv => IndexTypeOK
  BY DEF IndexInv
<1> QED
  BY IndexStarts, IndexKeeps, <1>1, PTL DEF IndexSpec

\* For any window, any overlap up to half of it and any text: a passage no
\* longer than the overlap and one is whole in some chunk of its page.
THEOREM NoPassageIsCut == IndexSpec => []PassagesWhole
<1>1. IndexInv => PassagesWhole
  <2> SUFFICES ASSUME IndexInv, ~InPage, NEW p \in 0 .. text.length, NEW q \in 0 .. text.length,
                      p < q, q - p <= Overlap + 1, p \notin text.blank, q - 1 \notin text.blank
               PROVE  Whole(p, q)
    BY DEF PassagesWhole, Whole
  <2>1. text.length \in Nat /\ start \in Nat /\ start <= text.length
    BY TextIs DEF IndexInv, IndexTypeOK
  <2>2. start = text.length /\ text.length > 0
    BY <2>1 DEF InPage
  <2>3. q <= Reach
    BY <2>1, <2>2 DEF Reach
  <2> QED
    BY <2>3 DEF IndexInv, Covered, Passage
<1> QED
  BY IndexStarts, IndexKeeps, <1>1, PTL DEF IndexSpec

\* For any document: its index is stored if one page at most has text, and
\* refused by the table if two have.
THEOREM SecondPageIsRefused == IndexSpec => []OnePageIndexes
<1>1. IndexInv => OnePageIndexes
  <2> SUFFICES ASSUME IndexInv PROVE OnePageIndexes
    OBVIOUS
  <2>1. Clash => \E c, d \in pending : c.page # d.page
    BY DEF Clash, IndexInv, Numbered
  <2>2. ASSUME NEW c \in pending, NEW d \in pending, c.page # d.page PROVE Clash
    <3>1. PICK x \in pending : x.page = c.page /\ x.ordinal = 0
      BY DEF IndexInv, Numbered
    <3>2. PICK y \in pending : y.page = d.page /\ y.ordinal = 0
      BY DEF IndexInv, Numbered
    <3> QED
      BY <2>2, <3>1, <3>2 DEF Clash
  <2> QED
    BY <2>1, <2>2 DEF IndexInv, Accepted, OnePageIndexes
<1> QED
  BY IndexStarts, IndexKeeps, <1>1, PTL DEF IndexSpec

-----------------------------------------------------------------------------
(* SearchRanking *)

\* What the loop keeps of a row.
Candidate == [id : Passages, mismatch : BOOLEAN, lexical : Levels, vector : Levels]

LEMMA Smaller ==
  ASSUME NEW S, IsFiniteSet(S), NEW T \in SUBSET S, NEW z \in S, z \notin T
  PROVE  IsFiniteSet(T) /\ Cardinality(T) \in Nat /\ Cardinality(S) \in Nat
         /\ Cardinality(T) < Cardinality(S)
<1>1. /\ IsFiniteSet(T) /\ Cardinality(T) <= Cardinality(S)
      /\ Cardinality(S) = Cardinality(T) => S = T
  BY FS_Subset
<1>2. Cardinality(T) \in Nat /\ Cardinality(S) \in Nat
  BY <1>1, FS_CardinalityType
<1> QED
  BY <1>1, <1>2

\* Candidates are finitely many, and told apart by their identifiers.
ScoredOnce ==
  /\ scored \subseteq Candidate
  /\ IsFiniteSet(scored)
  /\ \A x, y \in scored : x.id = y.id => x = y

LEMMA CandidateIs ==
  ASSUME ScoredOnce, NEW x \in scored
  PROVE  /\ x.id \in Int /\ x.lexical \in Int /\ x.vector \in Int /\ x.mismatch \in BOOLEAN
         /\ x.id \in Passages
<1>1. x \in Candidate
  BY DEF ScoredOnce
<1>2. x.id \in Passages /\ x.lexical \in Levels /\ x.vector \in Levels /\ x.mismatch \in BOOLEAN
  BY <1>1 DEF Candidate
<1>3. Passages \subseteq Int /\ Levels \subseteq Int
  BY RankingAssumption
<1> QED
  BY <1>2, <1>3

LexicallyAbove(x) ==
  {y \in scored : y.lexical > x.lexical \/ (y.lexical = x.lexical /\ y.id < x.id)}

VectorAbove(x) ==
  {y \in scored : y.vector > x.vector \/ (y.vector = x.vector /\ y.id < x.id)}

\* Ranks are of as many as there are candidates, and grow with the score.
LEMMA RanksAre ==
  ASSUME ScoredOnce, NEW x \in scored
  PROVE  /\ LexicalRank(x) \in 1 .. Cardinality(scored)
         /\ VectorRank(x) \in 1 .. Cardinality(scored)
<1>1. x.id \in Int /\ x.lexical \in Int /\ x.vector \in Int
  BY CandidateIs
<1>2. IsFiniteSet(scored)
  BY DEF ScoredOnce
<1>3. LexicallyAbove(x) \in SUBSET scored /\ x \notin LexicallyAbove(x)
  BY <1>1 DEF LexicallyAbove
<1>4. VectorAbove(x) \in SUBSET scored /\ x \notin VectorAbove(x)
  BY <1>1 DEF VectorAbove
<1>5. /\ Cardinality(LexicallyAbove(x)) \in Nat /\ Cardinality(scored) \in Nat
      /\ Cardinality(LexicallyAbove(x)) < Cardinality(scored)
  BY <1>2, <1>3, Smaller
<1>6. Cardinality(VectorAbove(x)) \in Nat /\ Cardinality(VectorAbove(x)) < Cardinality(scored)
  BY <1>2, <1>4, Smaller
<1>7. LexicalRank(x) = 1 + Cardinality(LexicallyAbove(x))
  BY DEF LexicalRank, LexicallyAbove
<1>8. VectorRank(x) = 1 + Cardinality(VectorAbove(x))
  BY DEF VectorRank, VectorAbove
<1> QED
  BY <1>5, <1>6, <1>7, <1>8

LEMMA RanksGrow ==
  ASSUME ScoredOnce, NEW x \in scored, NEW y \in scored
  PROVE  /\ y.lexical > x.lexical => LexicalRank(y) < LexicalRank(x)
         /\ y.vector > x.vector => VectorRank(y) < VectorRank(x)
<1>1. \A z \in scored : z.id \in Int /\ z.lexical \in Int /\ z.vector \in Int
  BY CandidateIs
<1>2. IsFiniteSet(LexicallyAbove(x)) /\ IsFiniteSet(VectorAbove(x))
  BY FS_Subset DEF ScoredOnce, LexicallyAbove, VectorAbove
<1>3. ASSUME y.lexical > x.lexical PROVE LexicalRank(y) < LexicalRank(x)
  <2>1. /\ LexicallyAbove(y) \in SUBSET LexicallyAbove(x)
        /\ y \in LexicallyAbove(x) /\ y \notin LexicallyAbove(y)
    BY <1>1, <1>3 DEF LexicallyAbove
  <2>2. /\ Cardinality(LexicallyAbove(y)) \in Nat /\ Cardinality(LexicallyAbove(x)) \in Nat
        /\ Cardinality(LexicallyAbove(y)) < Cardinality(LexicallyAbove(x))
    BY <1>2, <2>1, Smaller
  <2>3. /\ LexicalRank(x) = 1 + Cardinality(LexicallyAbove(x))
        /\ LexicalRank(y) = 1 + Cardinality(LexicallyAbove(y))
    BY DEF LexicalRank, LexicallyAbove
  <2> QED
    BY <2>2, <2>3
<1>4. ASSUME y.vector > x.vector PROVE VectorRank(y) < VectorRank(x)
  <2>1. /\ VectorAbove(y) \in SUBSET VectorAbove(x)
        /\ y \in VectorAbove(x) /\ y \notin VectorAbove(y)
    BY <1>1, <1>4 DEF VectorAbove
  <2>2. /\ Cardinality(VectorAbove(y)) \in Nat /\ Cardinality(VectorAbove(x)) \in Nat
        /\ Cardinality(VectorAbove(y)) < Cardinality(VectorAbove(x))
    BY <1>2, <2>1, Smaller
  <2>3. /\ VectorRank(x) = 1 + Cardinality(VectorAbove(x))
        /\ VectorRank(y) = 1 + Cardinality(VectorAbove(y))
    BY DEF VectorRank, VectorAbove
  <2> QED
    BY <2>2, <2>3
<1> QED
  BY <1>3, <1>4

-----------------------------------------------------------------------------
(* Arithmetic of the fused score *)

LEMMA TimesKeeps ==
  ASSUME NEW a \in Nat, NEW b \in Nat, NEW k \in Nat, a <= b
  PROVE  a * k <= b * k
OBVIOUS

LEMMA TimesGrows ==
  ASSUME NEW a \in Nat, NEW b \in Nat, NEW k \in Nat \ {0}, a < b
  PROVE  a * k < b * k
OBVIOUS

\* The order of fractions is transitive: a/p >= b/q and b/q >= c/r.
LEMMA FractionsOrdered ==
  ASSUME NEW a \in Nat, NEW b \in Nat, NEW c \in Nat,
         NEW p \in Nat \ {0}, NEW q \in Nat \ {0}, NEW r \in Nat \ {0},
         a * q >= b * p, b * r >= c * q
  PROVE  /\ a * r >= c * p
         /\ a * r = c * p => a * q = b * p /\ b * r = c * q
<1>1. /\ a * q \in Nat /\ b * p \in Nat /\ b * r \in Nat /\ c * q \in Nat
      /\ a * r \in Nat /\ c * p \in Nat
  OBVIOUS
<1>2. (b * p) * r <= (a * q) * r /\ (c * q) * p <= (b * r) * p
  BY <1>1, TimesKeeps
<1>3. (a * q) * r = (a * r) * q /\ (b * p) * r = (b * r) * p /\ (c * q) * p = (c * p) * q
  OBVIOUS
<1>4. (c * p) * q <= (a * r) * q
  BY <1>1, <1>2, <1>3
<1>5. a * r >= c * p
  BY <1>1, <1>4, TimesGrows
<1>6. ASSUME a * r = c * p PROVE a * q = b * p /\ b * r = c * q
  <2>1. (b * p) * r = (a * q) * r /\ (c * q) * p = (b * r) * p
    BY <1>1, <1>2, <1>3, <1>6
  <2>2. ~(b * p < a * q) /\ ~(c * q < b * r)
    BY <1>1, <2>1, TimesGrows
  <2> QED
    BY <1>1, <2>2
<1> QED
  BY <1>5, <1>6

\* Better ranks make a better sum of reciprocals: 1/a + 1/b > 1/c + 1/d.
LEMMA BetterRanks ==
  ASSUME NEW a \in Nat \ {0}, NEW b \in Nat \ {0}, NEW c \in Nat, NEW d \in Nat, a < c, b < d
  PROVE  (c + d) * (a * b) < (a + b) * (c * d)
<1>1. a * b \in Nat \ {0} /\ b * c \in Nat \ {0} /\ a * d \in Nat /\ c * d \in Nat
  OBVIOUS
<1>2. b * (a * c) < d * (a * c)
  BY TimesGrows
<1>3. a * (b * d) < c * (b * d)
  BY TimesGrows
<1> QED
  BY <1>2, <1>3

\* 0.65 outweighs every difference of ranks up to 33.
LEMMA PenaltyOutweighs ==
  ASSUME NEW a \in 61 .. 93, NEW b \in 61 .. 93, NEW c \in 61 .. 93, NEW d \in 61 .. 93
  PROVE  65 * (c + d) * (a * b) < 100 * (a + b) * (c * d)
<1> DEFINE m == a * b
           n == c * d
<1>1. 2 * m <= 93 * (a + b)
  <2>1. a * b <= 93 * b /\ b * a <= 93 * a
    BY TimesKeeps
  <2> QED
    BY <2>1
<1>2. 61 * (c + d) <= 2 * n
  <2>1. 61 * d <= c * d /\ 61 * c <= d * c
    BY TimesKeeps
  <2> QED
    BY <2>1
<1>3. m \in Nat \ {0} /\ n \in Nat \ {0} /\ m * n \in Nat \ {0}
  OBVIOUS
<1> HIDE DEF m, n
<1>4. (2 * m) * n <= (93 * (a + b)) * n
  BY <1>1, <1>3, TimesKeeps
<1>5. (61 * (c + d)) * m <= (2 * n) * m
  BY <1>2, <1>3, TimesKeeps
<1>6. PICK x \in Nat, y \in Nat, z \in Nat \ {0} :
        x = (c + d) * m /\ y = (a + b) * n /\ z = m * n
  BY <1>3
<1>7. (2 * m) * n = 2 * z /\ (93 * (a + b)) * n = 93 * y /\ (61 * (c + d)) * m = 61 * x
      /\ (2 * n) * m = 2 * z
  BY <1>3, <1>6
<1>8. 65 * x < 100 * y
  <2>1. 2 * z <= 93 * y /\ 61 * x <= 2 * z
    BY <1>4, <1>5, <1>7
  <2> QED
    BY <2>1
<1>9. 65 * (c + d) * m = 65 * x /\ 100 * (a + b) * n = 100 * y
  BY <1>3, <1>6
<1>10. 65 * (c + d) * m < 100 * (a + b) * n
  BY <1>8, <1>9
<1> QED
  BY <1>10 DEF m, n

\* Of one candidate more it may not: the bound of SmallClaim is exact.  Here
\* the one that applies is last in both rankings, the other first.
LEMMA PenaltyMayNotOutweigh == 65 * (61 + 61) * (94 * 94) > 100 * (94 + 94) * (61 * 61)
OBVIOUS

-----------------------------------------------------------------------------
(* The order of the fused list *)

LEMMA ValueIs ==
  ASSUME ScoredOnce, NEW x \in scored
  PROVE  Weight(x) * Sum(x) \in Nat /\ Product(x) \in Nat \ {0}
<1>1. Cardinality(scored) \in Nat
  BY FS_CardinalityType DEF ScoredOnce
<1>2. PICK l \in Nat, v \in Nat : l = LexicalRank(x) /\ v = VectorRank(x)
  BY <1>1, RanksAre
<1>3. Sum(x) \in Nat
  BY <1>2 DEF Sum
<1>4. (60 + l) * (60 + v) \in Nat \ {0}
  OBVIOUS
<1>5. Product(x) \in Nat \ {0}
  BY <1>2, <1>4 DEF Product
<1>6. Weight(x) \in Nat
  BY DEF Weight
<1> QED
  BY <1>3, <1>5, <1>6

LEMMA AheadOrders ==
  ASSUME ScoredOnce, NEW x \in scored, NEW y \in scored
  PROVE  /\ ~Ahead(x, x)
         /\ x # y => Ahead(x, y) \/ Ahead(y, x)
         /\ \A z \in scored : Ahead(x, y) /\ Ahead(y, z) => Ahead(x, z)
<1>1. PICK a \in Nat, p \in Nat \ {0} : a = Weight(x) * Sum(x) /\ p = Product(x)
  BY ValueIs
<1>2. PICK b \in Nat, q \in Nat \ {0} : b = Weight(y) * Sum(y) /\ q = Product(y)
  BY ValueIs
<1>3. a * p \in Nat /\ a * q \in Nat /\ b * p \in Nat
  OBVIOUS
<1>4. x.id \in Int /\ y.id \in Int /\ (x # y => x.id # y.id)
  BY CandidateIs DEF ScoredOnce
<1>5. Ahead(x, y) <=> a * q > b * p \/ (a * q = b * p /\ x.id < y.id)
  BY <1>1, <1>2 DEF Ahead
<1>6. Ahead(y, x) <=> b * p > a * q \/ (b * p = a * q /\ y.id < x.id)
  BY <1>1, <1>2 DEF Ahead
<1>7. Ahead(x, x) <=> a * p > a * p \/ (a * p = a * p /\ x.id < x.id)
  BY <1>1 DEF Ahead
<1>8. ASSUME NEW z \in scored, Ahead(x, y), Ahead(y, z) PROVE Ahead(x, z)
  <2>1. PICK c \in Nat, r \in Nat \ {0} : c = Weight(z) * Sum(z) /\ r = Product(z)
    BY ValueIs
  <2>2. b * r \in Nat /\ c * q \in Nat /\ a * r \in Nat /\ c * p \in Nat /\ z.id \in Int
    BY CandidateIs
  <2>3. Ahead(y, z) <=> b * r > c * q \/ (b * r = c * q /\ y.id < z.id)
    BY <1>2, <2>1 DEF Ahead
  <2>4. Ahead(x, z) <=> a * r > c * p \/ (a * r = c * p /\ x.id < z.id)
    BY <1>1, <2>1 DEF Ahead
  <2>5. a * q >= b * p /\ b * r >= c * q
    BY <1>3, <1>5, <1>8, <2>2, <2>3
  <2>6. /\ a * r >= c * p
        /\ a * r = c * p => a * q = b * p /\ b * r = c * q
    BY <2>5, FractionsOrdered
  <2>7. CASE a * r = c * p
    <3>1. x.id < y.id /\ y.id < z.id
      BY <1>3, <1>5, <1>8, <2>2, <2>3, <2>6, <2>7
    <3>2. x.id < z.id
      BY <1>4, <2>2, <3>1
    <3> QED
      BY <2>4, <2>7, <3>2
  <2>8. CASE a * r > c * p
    BY <2>4, <2>8
  <2> QED
    BY <2>2, <2>6, <2>7, <2>8
<1> QED
  BY <1>3, <1>4, <1>5, <1>6, <1>7, <1>8

\* Whoever is ahead has the smaller position; positions are from 1 to the
\* number of candidates.
LEMMA PositionsAre ==
  ASSUME ScoredOnce, NEW x \in scored
  PROVE  /\ Position(x) \in 1 .. Cardinality(scored)
         /\ \A y \in scored : Ahead(y, x) => Position(y) < Position(x)
<1> DEFINE Before(z) == {y \in scored : Ahead(y, z)}
<1>1. IsFiniteSet(scored)
  BY DEF ScoredOnce
<1>2. \A z \in scored : Position(z) = 1 + Cardinality(Before(z))
  BY DEF Position
<1>3. Before(x) \in SUBSET scored /\ x \notin Before(x)
  BY AheadOrders
<1>4. Cardinality(Before(x)) \in Nat /\ Cardinality(Before(x)) < Cardinality(scored)
      /\ Cardinality(scored) \in Nat /\ IsFiniteSet(Before(x))
  BY <1>1, <1>3, Smaller
<1>5. ASSUME NEW y \in scored, Ahead(y, x) PROVE Position(y) < Position(x)
  <2>1. y \in Before(x) /\ y \notin Before(y)
    BY <1>5, AheadOrders
  <2>2. Before(y) \in SUBSET Before(x)
    BY <1>5, AheadOrders
  <2>3. /\ Cardinality(Before(y)) \in Nat
        /\ Cardinality(Before(y)) < Cardinality(Before(x))
    <3> HIDE DEF Before
    <3> QED
      BY <1>4, <2>1, <2>2, Smaller
  <2> HIDE DEF Before
  <2> QED
    BY <1>2, <1>4, <2>3
<1> HIDE DEF Before
<1> QED
  BY <1>2, <1>4, <1>5

\* More in both ways, and no less applicable, is ahead.
LEMMA DominatorsAhead ==
  ASSUME ScoredOnce, NEW x \in scored, NEW y \in scored, Dominates(y, x)
  PROVE  Ahead(y, x)
<1>1. Cardinality(scored) \in Nat
  BY FS_CardinalityType DEF ScoredOnce
<1>2. PICK a \in Nat \ {0}, b \in Nat \ {0} : a = 60 + LexicalRank(y) /\ b = 60 + VectorRank(y)
  BY <1>1, RanksAre
<1>3. PICK c \in Nat, d \in Nat : c = 60 + LexicalRank(x) /\ d = 60 + VectorRank(x)
  BY <1>1, RanksAre
<1>4. LexicalRank(y) < LexicalRank(x) /\ VectorRank(y) < VectorRank(x)
  BY RanksGrow DEF Dominates
<1>5. a < c /\ b < d
  BY <1>1, <1>2, <1>3, <1>4, RanksAre
<1>6. (c + d) * (a * b) < (a + b) * (c * d)
  BY <1>5, BetterRanks
<1>7. Sum(y) = a + b /\ Product(y) = a * b /\ Sum(x) = c + d /\ Product(x) = c * d
  BY <1>1, <1>2, <1>3, RanksAre DEF Sum, Product
<1>8. PICK u \in {65, 100}, w \in {65, 100} : u = Weight(y) /\ w = Weight(x) /\ w <= u
  BY DEF Dominates, Weight
<1>9. PICK l \in Nat, r \in Nat : l = (a + b) * (c * d) /\ r = (c + d) * (a * b) /\ r < l
  <2>1. (a + b) * (c * d) \in Nat /\ (c + d) * (a * b) \in Nat
    OBVIOUS
  <2> QED
    BY <1>6, <2>1
<1>10. w * r < u * l
  BY <1>8, <1>9
<1>11. Weight(y) * Sum(y) * Product(x) = u * l /\ Weight(x) * Sum(x) * Product(y) = w * r
  BY <1>7, <1>8, <1>9
<1> QED
  BY <1>10, <1>11 DEF Ahead

\* Of few candidates, one that applies is ahead of one that does not.
LEMMA ApplicableAhead ==
  ASSUME ScoredOnce, NEW x \in scored, NEW y \in scored, x.mismatch, ~y.mismatch,
         Cardinality(scored) <= SmallClaim
  PROVE  Ahead(y, x)
<1>1. Cardinality(scored) \in Nat /\ Cardinality(scored) <= 33
  BY FS_CardinalityType DEF ScoredOnce, SmallClaim
<1>2. PICK a \in 61 .. 93, b \in 61 .. 93 : a = 60 + LexicalRank(y) /\ b = 60 + VectorRank(y)
  BY <1>1, RanksAre
<1>3. PICK c \in 61 .. 93, d \in 61 .. 93 : c = 60 + LexicalRank(x) /\ d = 60 + VectorRank(x)
  BY <1>1, RanksAre
<1>4. 65 * (c + d) * (a * b) < 100 * (a + b) * (c * d)
  BY PenaltyOutweighs
<1>5. Sum(y) = a + b /\ Product(y) = a * b /\ Sum(x) = c + d /\ Product(x) = c * d
  BY <1>1, <1>2, <1>3, RanksAre DEF Sum, Product
<1>6. Weight(y) = 100 /\ Weight(x) = 65
  BY DEF Weight
<1> QED
  BY <1>4, <1>5, <1>6 DEF Ahead

-----------------------------------------------------------------------------
(* What is returned *)

Fused ==
  {[passage |-> x, rank |-> Position(x)] : x \in {y \in scored : Position(y) <= MaxEvidence}}

LEMMA FusedByMerit ==
  ASSUME ScoredOnce, NEW e \in Fused, NEW y \in scored, Ahead(y, e.passage)
  PROVE  \E f \in Fused : f.passage = y /\ f.rank < e.rank
<1>1. PICK x \in scored : e = [passage |-> x, rank |-> Position(x)] /\ Position(x) <= MaxEvidence
  BY DEF Fused
<1>2. Position(y) < Position(x)
  BY <1>1, PositionsAre
<1>3. Position(y) <= MaxEvidence
  BY <1>1, <1>2, PositionsAre, RankingAssumption, FS_CardinalityType DEF ScoredOnce
<1>4. [passage |-> y, rank |-> Position(y)] \in Fused
  BY <1>3 DEF Fused
<1> QED
  BY <1>1, <1>2, <1>4

\* Positions number the candidates, so that no rank is left out or given twice.
LEMMA RanksAreGivenOnce ==
  ASSUME ScoredOnce
  PROVE  {e.rank : e \in Fused} = 1 .. Cardinality(Fused)
<1> DEFINE n == Cardinality(scored)
           m == IF n <= MaxEvidence THEN n ELSE MaxEvidence
           place == [x \in scored |-> Position(x)]
           rank == [e \in Fused |-> e.rank]
<1>1. n \in Nat /\ MaxEvidence \in Nat /\ m \in Nat /\ IsFiniteSet(scored)
  BY FS_CardinalityType, RankingAssumption DEF ScoredOnce
<1>2. place \in Injection(scored, 1 .. n)
  <2>1. place \in [scored -> 1 .. n]
    BY PositionsAre
  <2>2. ASSUME NEW x \in scored, NEW y \in scored, x # y PROVE place[x] # place[y]
    <3>1. Position(x) \in Int /\ Position(y) \in Int
      BY PositionsAre, <1>1
    <3>2. Position(x) < Position(y) \/ Position(y) < Position(x)
      BY <2>2, AheadOrders, PositionsAre
    <3> QED
      BY <3>1, <3>2
  <2> QED
    BY <2>1, <2>2 DEF Injection, IsInjective
<1>3. \A k \in 1 .. n : \E x \in scored : Position(x) = k
  <2>1. IsFiniteSet(1 .. n) /\ Cardinality(1 .. n) = n
    BY <1>1, FS_Interval
  <2>2. place \in Surjection(scored, 1 .. n)
    BY <1>2, <2>1, FS_Injection
  <2> QED
    BY <2>2 DEF Surjection
<1>4. {e.rank : e \in Fused} = 1 .. m
  <2>1. ASSUME NEW e \in Fused PROVE e.rank \in 1 .. m
    <3>1. PICK x \in scored : e = [passage |-> x, rank |-> Position(x)] /\ Position(x) <= MaxEvidence
      BY DEF Fused
    <3> QED
      BY <1>1, <3>1, PositionsAre
  <2>2. ASSUME NEW k \in 1 .. m PROVE \E e \in Fused : e.rank = k
    <3>1. PICK x \in scored : Position(x) = k
      BY <1>1, <1>3
    <3>2. [passage |-> x, rank |-> k] \in Fused
      BY <1>1, <3>1 DEF Fused
    <3> QED
      BY <3>2
  <2> QED
    BY <2>1, <2>2
<1>5. rank \in Bijection(Fused, 1 .. m)
  <2>1. rank \in [Fused -> 1 .. m]
    BY <1>4
  <2>2. \A k \in 1 .. m : \E e \in Fused : rank[e] = k
    BY <1>4
  <2>3. ASSUME NEW e \in Fused, NEW f \in Fused, rank[e] = rank[f] PROVE e = f
    <3>1. PICK x \in scored : e = [passage |-> x, rank |-> Position(x)]
      BY DEF Fused
    <3>2. PICK y \in scored : f = [passage |-> y, rank |-> Position(y)]
      BY DEF Fused
    <3>3. place[x] = place[y]
      BY <2>3, <3>1, <3>2
    <3>4. x = y
      BY <1>2, <3>3 DEF Injection, IsInjective
    <3> QED
      BY <3>1, <3>2, <3>4
  <2> QED
    BY <2>1, <2>2, <2>3 DEF Bijection, Injection, IsInjective, Surjection
<1>6. IsFiniteSet(1 .. m) /\ Cardinality(1 .. m) = m
  <2>1. \A k \in Nat : IsFiniteSet(1 .. k) /\ Cardinality(1 .. k) = k
    BY FS_Interval
  <2> QED
    BY <1>1, <2>1
<1>7. Cardinality(Fused) = m
  <2>1. rank \in Injection(Fused, 1 .. m) /\ rank \in Surjection(Fused, 1 .. m)
    BY <1>5 DEF Bijection
  <2>2. IsFiniteSet(Fused)
    BY <1>6, <2>1, FS_Injection
  <2>3. Cardinality(Fused) = Cardinality(1 .. m)
    BY <1>6, <2>1, FS_Injection
  <2> QED
    BY <1>6, <2>3
<1> QED
  BY <1>4, <1>7

-----------------------------------------------------------------------------
(* The search *)

SearchInv ==
  /\ ScoredOnce
  /\ unread \subseteq Passages
  /\ \A x \in scored : x.id \notin unread
  /\ evidence # {} => unread = {} /\ evidence = Fused

\* The order is of the candidates alone.
LEMMA SameFused ==
  ASSUME scored' = scored
  PROVE  Fused' = Fused
<1>1. \A x : LexicalRank(x)' = LexicalRank(x)
  BY DEF LexicalRank
<1>2. \A x : VectorRank(x)' = VectorRank(x)
  BY DEF VectorRank
<1>3. \A x : Sum(x)' = Sum(x) /\ Product(x)' = Product(x)
  BY <1>1, <1>2 DEF Sum, Product
<1>4. \A x, y : Ahead(x, y)' <=> Ahead(x, y)
  BY <1>3 DEF Ahead, Weight
<1>5. \A x : Position(x)' = Position(x)
  BY <1>4 DEF Position
<1> QED
  BY <1>5 DEF Fused

LEMMA SearchKeeps == SearchInv /\ [SearchNext]_searchVars => SearchInv'
<1> SUFFICES ASSUME SearchInv, [SearchNext]_searchVars PROVE SearchInv'
  OBVIOUS
<1>1. CASE Score
  <2>1. PICK r \in Rows :
          /\ r.id \in unread /\ unread' = unread \ {r.id}
          /\ scored' = IF IsCandidate(r) THEN scored \cup {Scored(r)} ELSE scored
    BY <1>1 DEF Score
  <2>2. evidence' = evidence /\ evidence = {}
    BY <1>1, <2>1 DEF Score, SearchInv
  <2>3. Scored(r) \in Candidate /\ Scored(r).id = r.id
    <3>1. r.id \in Passages /\ r.lexical \in Levels /\ r.vector \in Levels
      BY DEF Rows
    <3>2. PICK b \in BOOLEAN : b <=> r.edition = "other"
      OBVIOUS
    <3>3. Scored(r) = [id |-> r.id, mismatch |-> b, lexical |-> r.lexical, vector |-> r.vector]
      BY <3>2, Zenon DEF Scored
    <3> QED
      BY <3>1, <3>3 DEF Candidate
  <2>4. PICK q \in Candidate : q = Scored(r) /\ q.id = r.id
    BY <2>3
  <2>5. scored' \in {scored, scored \cup {q}}
    BY <2>1, <2>4
  <2>6. ScoredOnce'
    <3>1. IsFiniteSet(scored')
      BY <2>5, FS_AddElement DEF SearchInv, ScoredOnce
    <3>2. \A x \in scored : x.id # q.id
      BY <2>1, <2>4 DEF SearchInv
    <3> QED
      BY <2>4, <2>5, <3>1, <3>2 DEF SearchInv, ScoredOnce
  <2>7. \A x \in scored' : x.id \notin unread'
    BY <2>1, <2>4, <2>5 DEF SearchInv
  <2> QED
    BY <2>1, <2>2, <2>6, <2>7 DEF SearchInv
<1>2. CASE Fuse
  <2>1. /\ unread' = unread /\ unread = {} /\ scored' = scored /\ evidence' = Fused
    BY <1>2 DEF Fuse, Fused
  <2> QED
    BY <2>1, SameFused DEF SearchInv, ScoredOnce
<1>3. CASE UNCHANGED searchVars
  <2>1. unread' = unread /\ scored' = scored /\ evidence' = evidence
    BY <1>3 DEF searchVars
  <2> QED
    BY <2>1, SameFused DEF SearchInv, ScoredOnce
<1> QED
  BY <1>1, <1>2, <1>3 DEF SearchNext

\* Better in both ways is ahead, and applicable is ahead among few, for any
\* passages, scores and number of results; and the ranks are 1, 2, 3, ...
THEOREM EvidenceIsRankedByMerit == SearchSpec => []RankedByMerit
<1>1. SearchInit => SearchInv
  BY FS_EmptySet DEF SearchInit, SearchInv, ScoredOnce
<1>2. SearchInv => RankedByMerit
  <2> SUFFICES ASSUME SearchInv PROVE RankedByMerit
    OBVIOUS
  <2>1. CASE evidence = {}
    <3>1. {e.rank : e \in evidence} = {} /\ Cardinality(evidence) = 0
      BY <2>1, FS_EmptySet
    <3> QED
      BY <2>1, <3>1 DEF RankedByMerit
  <2>2. CASE evidence = Fused
    <3>1. ScoredOnce
      BY DEF SearchInv
    <3>2. ASSUME NEW e \in Fused, NEW y \in scored,
                 \/ Dominates(y, e.passage)
                 \/ /\ e.passage.mismatch /\ ~y.mismatch
                    /\ Cardinality(scored) <= SmallClaim
          PROVE  \E f \in Fused : f.passage = y /\ f.rank < e.rank
      <4>1. e.passage \in scored
        BY DEF Fused
      <4>2. Ahead(y, e.passage)
        BY <3>1, <3>2, <4>1, DominatorsAhead, ApplicableAhead
      <4> QED
        BY <3>1, <4>2, FusedByMerit
    <3>3. {e.rank : e \in evidence} = 1 .. Cardinality(evidence)
      BY <2>2, <3>1, RanksAreGivenOnce
    <3> QED
      BY <2>2, <3>2, <3>3 DEF RankedByMerit
  <2> QED
    BY <2>1, <2>2 DEF SearchInv
<1> QED
  BY <1>1, <1>2, SearchKeeps, PTL DEF SearchSpec

-----------------------------------------------------------------------------
(* Rows of a queue: S is the rows, at their dates *)

Dated(S, at) == IsFiniteSet(S) /\ \A u \in S : at[u] \in Nat

Untied(S, at) == \A t, u \in S : t # u => at[t] # at[u]

\* The place of a row in the queue.
Until(S, at, t) == {u \in S : at[u] <= at[t]}

Place(S, at, t) == Cardinality(Until(S, at, t))

\* The rows among the first n.
Reached(V, S, at, n) == {t \in V : Place(S, at, t) <= n}

\* The rows that are ahead of some row of W and not of W.
Jumped(S, W, at) == {u \in S \ W : \E w \in W : at[u] < at[w]}

LEMMA PlaceIs ==
  ASSUME NEW S, NEW at, Dated(S, at), NEW t \in S
  PROVE  /\ IsFiniteSet(Until(S, at, t)) /\ Place(S, at, t) \in Nat \ {0}
         /\ Place(S, at, t) <= Cardinality(S)
<1>1. Until(S, at, t) \in SUBSET S /\ t \in Until(S, at, t)
  BY DEF Until, Dated
<1>2. IsFiniteSet(S)
  BY DEF Dated
<1> HIDE DEF Until
<1>3. /\ IsFiniteSet(Until(S, at, t))
      /\ Cardinality(Until(S, at, t)) <= Cardinality(S)
      /\ Cardinality(Until(S, at, t)) \in Nat
  BY <1>1, <1>2, FS_Subset, FS_CardinalityType
<1>4. Cardinality(Until(S, at, t)) # 0
  BY <1>1, <1>3, FS_EmptySet
<1> QED
  BY <1>3, <1>4 DEF Place

\* A later row has a later place.
LEMMA PlacesOrdered ==
  ASSUME NEW S, NEW at, Dated(S, at), NEW t \in S, NEW u \in S, at[t] < at[u]
  PROVE  Place(S, at, t) < Place(S, at, u)
<1> DEFINE A == Until(S, at, t)
           B == Until(S, at, u)
<1>1. A \in SUBSET B /\ u \in B /\ u \notin A
  BY DEF Until, Dated
<1>2. IsFiniteSet(A) /\ IsFiniteSet(B) /\ Cardinality(A) \in Nat /\ Cardinality(B) \in Nat
  BY PlaceIs DEF Place
<1> HIDE DEF A, B
<1>3. Cardinality(A) <= Cardinality(B) /\ Cardinality(A) # Cardinality(B)
  BY <1>1, <1>2, FS_Subset
<1> QED
  BY <1>2, <1>3 DEF Place, A, B

LEMMA PlacesDiffer ==
  ASSUME NEW S, NEW at, Dated(S, at), Untied(S, at),
         NEW t \in S, NEW u \in S, Place(S, at, t) = Place(S, at, u)
  PROVE  t = u
<1>1. Place(S, at, t) \in Nat /\ Place(S, at, u) \in Nat /\ at[t] \in Nat /\ at[u] \in Nat
  BY PlaceIs DEF Dated
<1>2. ~(at[t] < at[u]) /\ ~(at[u] < at[t])
  BY <1>1, PlacesOrdered
<1> QED
  BY <1>1, <1>2 DEF Untied

\* Rows that come into the queue do not bring any row forward.
LEMMA PlaceGrows ==
  ASSUME NEW S, NEW at, NEW T, NEW dt, Dated(S, at), Dated(T, dt), S \subseteq T,
         \A u \in S : dt[u] = at[u], NEW t \in S
  PROVE  Place(S, at, t) <= Place(T, dt, t)
<1> DEFINE A == Until(S, at, t)
           B == Until(T, dt, t)
<1>1. A \in SUBSET B
  BY DEF Until
<1>2. IsFiniteSet(B)
  BY PlaceIs
<1> HIDE DEF A, B
<1>3. Cardinality(A) <= Cardinality(B)
  BY <1>1, <1>2, FS_Subset
<1> QED
  BY <1>3 DEF Place, A, B

\* A row that leaves brings any other forward by one place at most.
LEMMA PlaceShrinks ==
  ASSUME NEW S, NEW at, Dated(S, at), NEW x, NEW t \in S \ {x}
  PROVE  Place(S, at, t) <= Place(S \ {x}, at, t) + 1
<1> DEFINE A == Until(S, at, t)
           B == Until(S \ {x}, at, t)
<1>1. B = A \ {x}
  BY DEF Until
<1>2. IsFiniteSet(A) /\ Cardinality(A) \in Nat
  BY PlaceIs DEF Place
<1> HIDE DEF A, B
<1>3. Cardinality(B) = IF x \in A THEN Cardinality(A) - 1 ELSE Cardinality(A)
  BY <1>1, <1>2, FS_RemoveElement
<1>4. Cardinality(A) <= Cardinality(B) + 1
  BY <1>2, <1>3
<1> QED
  BY <1>4 DEF Place, A, B

LEMMA DatedSubset ==
  ASSUME NEW S, NEW at, Dated(S, at), NEW T \in SUBSET S
  PROVE  Dated(T, at) /\ Cardinality(T) \in Nat /\ Cardinality(T) <= Cardinality(S)
BY FS_Subset, FS_CardinalityType DEF Dated

\* So at most one more of the others is among the first n.
LEMMA OneComesForward ==
  ASSUME NEW S, NEW at, Dated(S, at), Untied(S, at), NEW x, NEW V \in SUBSET S, NEW n \in Nat
  PROVE  Cardinality(Reached(V \ {x}, S \ {x}, at, n)) <= Cardinality(Reached(V, S, at, n)) + 1
<1> DEFINE A == Reached(V, S, at, n)
           B == Reached(V \ {x}, S \ {x}, at, n)
<1>1. IsFiniteSet(A) /\ Cardinality(A) \in Nat
  <2>1. A \in SUBSET S
    BY DEF Reached
  <2> QED
    BY <2>1, DatedSubset DEF Dated
<1>2. Dated(S \ {x}, at)
  BY DatedSubset
<1>3. ASSUME NEW t \in B, t \notin A PROVE Place(S, at, t) = n + 1
  <2>1. t \in S \ {x} /\ t \in V /\ Place(S \ {x}, at, t) <= n
    BY DEF Reached
  <2>2. Place(S, at, t) \in Nat /\ Place(S \ {x}, at, t) \in Nat
    BY <1>2, <2>1, PlaceIs
  <2>3. ~(Place(S, at, t) <= n)
    BY <1>3, <2>1 DEF Reached
  <2>4. Place(S, at, t) <= Place(S \ {x}, at, t) + 1
    BY <2>1, PlaceShrinks
  <2> QED
    BY <2>1, <2>2, <2>3, <2>4
<1>4. \A t, u \in B \ A : t = u
  BY <1>3, PlacesDiffer DEF Reached
<1> HIDE DEF A, B
<1>5. PICK y : B \in SUBSET (A \cup {y})
  <2>1. CASE B \subseteq A
    BY <2>1
  <2>2. CASE ~(B \subseteq A)
    <3>1. PICK y \in B : y \notin A
      BY <2>2
    <3>2. \A u \in B : u \in A \/ u = y
      BY <1>4, <3>1
    <3> QED
      BY <3>2
  <2> QED
    BY <2>1, <2>2
<1>6. IsFiniteSet(A \cup {y}) /\ Cardinality(A \cup {y}) <= Cardinality(A) + 1
      /\ Cardinality(A \cup {y}) \in Nat
  BY <1>1, FS_AddElement
<1>7. Cardinality(B) <= Cardinality(A \cup {y}) /\ Cardinality(B) \in Nat
  BY <1>5, <1>6, FS_Subset, FS_CardinalityType
<1> QED
  BY <1>1, <1>6, <1>7 DEF A, B

\* Of the rows of W, no more stand beyond its size than rows have jumped.
LEMMA BeyondAreJumped ==
  ASSUME NEW S, NEW at, Dated(S, at), Untied(S, at), NEW W \in SUBSET S,
         NEW n \in Nat, Cardinality(W) <= n
  PROVE  Cardinality(W \ Reached(W, S, at, n)) <= Cardinality(Jumped(S, W, at))
<1> DEFINE K == W \ Reached(W, S, at, n)
           N == Jumped(S, W, at)
           w == Cardinality(W)
           j == Cardinality(N)
<1>1. IsFiniteSet(N) /\ j \in Nat /\ IsFiniteSet(W) /\ w \in Nat
  <2>1. N \in SUBSET S
    BY DEF Jumped
  <2> QED
    BY <2>1, DatedSubset DEF Dated
<1>2. ASSUME NEW t \in K PROVE Place(S, at, t) \in w + 1 .. w + j
  <2>1. t \in W /\ t \in S /\ Place(S, at, t) \in Nat /\ ~(Place(S, at, t) <= n)
    BY PlaceIs DEF Reached
  <2>2. Until(S, at, t) \in SUBSET (W \cup N)
    <3> SUFFICES ASSUME NEW u \in S, at[u] <= at[t], u \notin W PROVE u \in N
      BY DEF Until
    <3>1. at[u] # at[t] /\ at[u] \in Nat /\ at[t] \in Nat
      BY <2>1 DEF Untied, Dated
    <3> QED
      BY <2>1, <3>1 DEF Jumped
  <2> HIDE DEF N
  <2>3. IsFiniteSet(W \cup N) /\ Cardinality(W \cup N) = w + j - Cardinality(W \cap N)
        /\ Cardinality(W \cap N) \in Nat
    BY <1>1, FS_Union, FS_Intersection, FS_CardinalityType
  <2>4. Place(S, at, t) <= Cardinality(W \cup N)
    BY <2>2, <2>3, FS_Subset DEF Place
  <2> QED
    BY <1>1, <2>1, <2>3, <2>4
<1> DEFINE f == [t \in K |-> Place(S, at, t)]
<1>3. \A t, u \in K : Place(S, at, t) = Place(S, at, u) => t = u
  BY PlacesDiffer
<1> HIDE DEF K, w, j
<1>4. f \in Injection(K, w + 1 .. w + j)
  BY <1>2, <1>3 DEF Injection, IsInjective
<1>5. IsFiniteSet(w + 1 .. w + j) /\ Cardinality(w + 1 .. w + j) <= j
  <2>1. w \in Int /\ j \in Nat
    BY <1>1 DEF w, j
  <2> QED
    BY <2>1, FS_Interval
<1> HIDE DEF f
<1>6. IsFiniteSet(K) /\ Cardinality(K) <= Cardinality(w + 1 .. w + j)
  BY <1>4, <1>5, FS_Injection
<1>7. Cardinality(K) \in Nat /\ Cardinality(w + 1 .. w + j) \in Nat /\ j \in Nat
  BY <1>1, <1>5, <1>6, FS_CardinalityType DEF j
<1> QED
  BY <1>5, <1>6, <1>7 DEF K, j

\* In a list of S by date a row stands at its place.
LEMMA StandsAtPlace ==
  ASSUME NEW S, NEW at, Dated(S, at), Untied(S, at), NEW s \in Bijection(1 .. Cardinality(S), S),
         \A i, j \in 1 .. Cardinality(S) : i < j => at[s[i]] <= at[s[j]], NEW t \in S
  PROVE  \E k \in 1 .. Cardinality(S) : s[k] = t /\ k = Place(S, at, t)
<1> DEFINE n == Cardinality(S)
           A == Until(S, at, t)
<1>1. n \in Nat
  BY FS_CardinalityType DEF Dated
<1>2. /\ s \in [1 .. n -> S]
      /\ \A i, j \in 1 .. n : s[i] = s[j] => i = j
      /\ \A u \in S : \E i \in 1 .. n : s[i] = u
      /\ \A i, j \in 1 .. n : i < j => at[s[i]] <= at[s[j]]
  BY DEF Bijection, Injection, IsInjective, Surjection
<1> HIDE DEF n
<1>3. PICK k \in 1 .. n : s[k] = t
  BY <1>2
<1> DEFINE f == [i \in 1 .. k |-> s[i]]
<1>4. k \in Nat /\ 1 .. k \subseteq 1 .. n
  BY <1>1, <1>3
<1>5. ASSUME NEW i \in 1 .. k PROVE s[i] \in A
  <2>1. i \in 1 .. n /\ s[i] \in S /\ i \in Nat
    BY <1>2, <1>4
  <2>2. at[s[i]] <= at[t]
    <3>1. CASE i = k
      BY <1>3, <3>1 DEF Dated
    <3>2. CASE i < k
      BY <1>2, <1>3, <2>1, <3>2
    <3> QED
      BY <1>4, <2>1, <3>1, <3>2
  <2> QED
    BY <2>1, <2>2 DEF Until
<1>6. ASSUME NEW u \in A PROVE \E i \in 1 .. k : s[i] = u
  <2>1. u \in S /\ at[u] <= at[t]
    BY DEF Until
  <2>2. PICK i \in 1 .. n : s[i] = u
    BY <1>2, <2>1
  <2>3. ~(k < i)
    <3> SUFFICES ASSUME k < i PROVE FALSE
      OBVIOUS
    <3>1. at[t] <= at[u] /\ t # u
      BY <1>1, <1>2, <1>3, <2>2
    <3>2. at[t] \in Nat /\ at[u] \in Nat /\ at[t] # at[u]
      BY <2>1, <3>1 DEF Dated, Untied
    <3> QED
      BY <2>1, <3>1, <3>2
  <2> QED
    BY <1>1, <1>3, <2>2, <2>3
<1> HIDE DEF A
<1>7. f \in Bijection(1 .. k, A)
  <2>1. f \in [1 .. k -> A]
    BY <1>5
  <2>2. \A i, j \in 1 .. k : f[i] = f[j] => i = j
    BY <1>2, <1>4
  <2>3. \A u \in A : \E i \in 1 .. k : f[i] = u
    BY <1>6
  <2> QED
    BY <2>1, <2>2, <2>3 DEF Bijection, Injection, IsInjective, Surjection
<1>8. IsFiniteSet(1 .. k) /\ Cardinality(1 .. k) = k
  BY <1>3, <1>4, FS_Interval
<1>9. Cardinality(A) = k
  BY <1>7, <1>8, FS_Bijection DEF ExistsBijection
<1> QED
  BY <1>3, <1>9 DEF n, A, Place

-----------------------------------------------------------------------------
(* ClaimViews *)

Dates == [t \in Tasks |-> tasks[t].created_at]

\* Those the reader has paged past and not seen.
Overlooked == Reached(Missed, Open(desk.reader), Dates, desk.offset)

WaitingOpen == desk.waiting \subseteq Open(desk.reader)

\* The dashboard counted all that wait.
WaitingCounted == CanReview(desk.reader) => Cardinality(desk.waiting) <= desk.openReviews

\* Every row overlooked, and every row that jumped the queue, is a shift.
Accounted ==
  NoTies =>
    /\ Paging =>
         Cardinality(Overlooked) + Cardinality(Jumped(Open(desk.reader), desk.waiting, Dates))
           <= desk.moves
    /\ desk.phase = "read" /\ desk.claim = {} /\ CanReview(desk.reader) =>
         Cardinality(Missed) <= desk.moves

Visit ==
  /\ desk.phase = "workspace" => desk.claim # {}
  /\ desk.phase \in {"claims", "workspace", "queue"} =>
       /\ desk.claimTotal = Cardinality(ListForActor(desk.reader))
       /\ \A c \in desk.claim : GetForActor(c, desk.reader)
       /\ desk.openReviews > 0 => Authorized(desk.reader, "review_queue:read")

ViewInv == ViewTypeOK /\ WaitingOpen /\ WaitingCounted /\ Accounted /\ Visit

-----------------------------------------------------------------------------
(* What the queries return *)

LEMMA OpenIs ==
  ASSUME NEW a
  PROVE  IsFiniteSet(Open(a)) /\ Cardinality(Open(a)) \in Nat /\ Open(a) \subseteq Tasks
<1>1. IsFiniteSet(Tasks)
  BY FS_Interval, ViewAssumption DEF Tasks
<1>2. Open(a) \in SUBSET Tasks
  BY DEF Open
<1> QED
  BY <1>1, <1>2, FS_Subset, FS_CardinalityType

\* The dashboard counts the claims that are listed, by whichever query.
LEMMA CountIsOfList ==
  ASSUME NEW a \in Accounts
  PROVE  /\ CountForActor(a) = Cardinality(ListForActor(a))
         /\ CountForActor(a) \in Nat
<1>1. IsFiniteSet(ListForActor(a)) /\ Cardinality(ListForActor(a)) \in Nat
  <2>1. ListForActor(a) \in SUBSET Claims
    BY DEF ListForActor
  <2> QED
    BY <2>1, FS_Subset, FS_CardinalityType, ViewAssumption
<1>2. CASE IsAdmin(a)
  <2>1. ListForActor(a) = {c \in Claims : TenantOf[c] = TenantOf[a]}
    BY <1>2 DEF ListForActor
  <2> QED
    BY <1>1, <1>2, <2>1 DEF CountForActor
<1>3. CASE ~IsAdmin(a)
  <2> DEFINE rows == {row \in Assigned :
                        row[1] = a /\ row[2] \in {c \in Claims : TenantOf[c] = TenantOf[a]}}
             rowOf == [c \in ListForActor(a) |-> <<a, c>>]
  <2>1. ASSUME NEW c \in ListForActor(a) PROVE <<a, c>> \in rows
    BY <1>3 DEF ListForActor
  <2>2. ASSUME NEW row \in rows PROVE \E c \in ListForActor(a) : <<a, c>> = row
    <3>1. row \in Accounts \X Claims /\ row \in Assigned /\ row[1] = a
          /\ TenantOf[row[2]] = TenantOf[a]
      BY ViewAssumption
    <3>2. row = <<a, row[2]>> /\ row[2] \in Claims
      BY <3>1
    <3> QED
      BY <3>1, <3>2 DEF ListForActor
  <2>3. \A c, d \in ListForActor(a) : <<a, c>> = <<a, d>> => c = d
    OBVIOUS
  <2> HIDE DEF rows
  <2>4. rowOf \in [ListForActor(a) -> rows]
    BY <2>1
  <2>5. rowOf \in Bijection(ListForActor(a), rows)
    BY <2>2, <2>3, <2>4 DEF Bijection, Injection, IsInjective, Surjection
  <2>6. Cardinality(rows) = Cardinality(ListForActor(a))
    BY <1>1, <2>5, FS_Bijection DEF ExistsBijection
  <2> QED
    BY <1>1, <1>3, <2>6 DEF CountForActor, rows
<1> QED
  BY <1>2, <1>3

\* The listed claims open.
LEMMA ListedOpens ==
  ASSUME NEW a, NEW c \in ListForActor(a)
  PROVE  GetForActor(c, a)
BY DEF ListForActor, GetForActor

LEMMA ReviewersRead ==
  ASSUME NEW a \in Accounts, CanReview(a)
  PROVE  Authorized(a, "review_queue:read")
<1>1. \E r \in RolesOf[a] : r \in {"supervisor", "admin"}
  BY DEF CanReview
<1>2. \A r \in {"supervisor", "admin"} : "review_queue:read" \in Permissions[r]
  BY DEF Permissions, AllActions
<1> QED
  BY <1>1, <1>2 DEF Authorized

-----------------------------------------------------------------------------
(* The views *)

\* The account that reads.
LEMMA DeskIs ==
  ASSUME ViewTypeOK
  PROVE  /\ desk.reader \in Accounts /\ desk.offset \in Nat /\ desk.openReviews \in Nat
         /\ desk.claimTotal \in Nat /\ desk.seen \subseteq Tasks /\ desk.waiting \subseteq Tasks
         /\ desk.claim \subseteq Claims /\ desk.moves \in Nat
BY DEF ViewTypeOK, Desk

LEMMA ClosedIs ==
  ASSUME NEW a \in Accounts
  PROVE  /\ ClosedDesk(a) \in Desk
         /\ ClosedDesk(a).reader = a /\ ClosedDesk(a).phase = "closed"
         /\ ClosedDesk(a).openReviews = 0 /\ ClosedDesk(a).waiting = {}
BY DEF ClosedDesk, Desk

\* The queue is a set of dated rows.
LEMMA QueueIsDated ==
  ViewTypeOK =>
    /\ Dated(Open(desk.reader), Dates)
    /\ NoTies => Untied(Open(desk.reader), Dates)
    /\ \A t \in Tasks : Dates[t] = tasks[t].created_at
<1> SUFFICES ASSUME ViewTypeOK
             PROVE  /\ Dated(Open(desk.reader), Dates)
                    /\ NoTies => Untied(Open(desk.reader), Dates)
                    /\ \A t \in Tasks : Dates[t] = tasks[t].created_at
  OBVIOUS
<1>1. \A t \in Tasks : Dates[t] = tasks[t].created_at /\ Dates[t] \in Nat
  BY DEF Dates, ViewTypeOK, TaskRow
<1>2. ASSUME NoTies PROVE Untied(Open(desk.reader), Dates)
  <2> SUFFICES ASSUME NEW t \in Open(desk.reader), NEW u \in Open(desk.reader), t # u
               PROVE  Dates[t] # Dates[u]
    BY DEF Untied
  <2>1. /\ t \in Tasks /\ tasks[t].status # "none" /\ TaskTenant(t) = TenantOf[desk.reader]
        /\ u \in Tasks /\ tasks[u].status # "none" /\ TaskTenant(u) = TenantOf[desk.reader]
    BY DEF Open
  <2> QED
    BY <1>1, <1>2, <2>1 DEF NoTies
<1> QED
  BY <1>1, <1>2, OpenIs DEF Dated

\* What is counted is finite.
LEMMA CountsAre ==
  ViewTypeOK /\ WaitingOpen =>
    /\ IsFiniteSet(desk.waiting) /\ Cardinality(desk.waiting) \in Nat
    /\ Missed \in SUBSET Open(desk.reader) /\ Missed \in SUBSET desk.waiting
    /\ IsFiniteSet(Missed) /\ Cardinality(Missed) \in Nat
    /\ Overlooked \in SUBSET Missed
    /\ IsFiniteSet(Overlooked) /\ Cardinality(Overlooked) \in Nat
    /\ IsFiniteSet(Jumped(Open(desk.reader), desk.waiting, Dates))
    /\ Cardinality(Jumped(Open(desk.reader), desk.waiting, Dates)) \in Nat
<1> SUFFICES ASSUME ViewTypeOK, WaitingOpen
             PROVE  /\ desk.waiting \in SUBSET Open(desk.reader)
                    /\ Missed \in SUBSET Open(desk.reader) /\ Missed \in SUBSET desk.waiting
                    /\ Overlooked \in SUBSET Missed
                    /\ Jumped(Open(desk.reader), desk.waiting, Dates)
                         \in SUBSET Open(desk.reader)
  BY OpenIs, FS_Subset, FS_CardinalityType
<1>1. /\ Missed \in SUBSET desk.waiting /\ Overlooked \in SUBSET Missed
      /\ Jumped(Open(desk.reader), desk.waiting, Dates) \in SUBSET Open(desk.reader)
      /\ desk.waiting \in SUBSET Open(desk.reader)
  BY DEF Missed, Overlooked, Reached, Jumped, WaitingOpen
<1> QED
  BY <1>1

\* A desk at which nobody has looked yet.
LEMMA ClosedKeeps ==
  ASSUME ViewTypeOK, tasks' = tasks, NEW a \in Accounts, desk' = ClosedDesk(a)
  PROVE  ViewInv'
<1>1. /\ desk' \in Desk /\ desk'.phase = "closed" /\ desk'.openReviews = 0
      /\ desk'.waiting = {}
  BY ClosedIs
<1>2. Cardinality({}) = 0
  BY FS_EmptySet
<1>3. ViewTypeOK'
  BY <1>1 DEF ViewTypeOK
<1>4. WaitingOpen' /\ WaitingCounted' /\ Accounted' /\ Visit'
  BY <1>1, <1>2 DEF WaitingOpen, WaitingCounted, Accounted, Paging, Visit
<1> QED
  BY <1>3, <1>4 DEF ViewInv

\* The reader moves and keeps what it has seen of the queue; if it is through
\* with it, what it missed is accounted for.
LEMMA PhaseKeeps ==
  ASSUME ViewInv, tasks' = tasks, desk' \in Desk,
         desk'.reader = desk.reader, desk'.waiting = desk.waiting, desk'.moves = desk.moves,
         desk'.openReviews = desk.openReviews, desk'.offset = desk.offset,
         desk'.seen = desk.seen, desk'.claimTotal = desk.claimTotal, Visit',
         Paging' => Paging,
         desk'.phase = "read" /\ desk'.claim = {} /\ CanReview(desk.reader) /\ NoTies =>
           Cardinality(Missed) <= desk.moves
  PROVE  ViewInv'
<1>1. ViewTypeOK'
  BY DEF ViewInv, ViewTypeOK
<1>2. Open(desk.reader)' = Open(desk.reader) /\ Dates' = Dates /\ Missed' = Missed
  BY DEF Open, TaskTenant, Dates, Missed
<1>3. WaitingOpen' /\ WaitingCounted'
  BY <1>2 DEF ViewInv, WaitingOpen, WaitingCounted, CanReview
<1>4. Accounted'
  <2>1. NoTies' => NoTies
    BY DEF NoTies, TaskTenant
  <2>2. Overlooked' = Overlooked
    BY <1>2 DEF Overlooked, Reached
  <2>3. Jumped(Open(desk.reader), desk.waiting, Dates)'
          = Jumped(Open(desk.reader), desk.waiting, Dates)
    BY <1>2 DEF Jumped
  <2> QED
    BY <1>2, <2>1, <2>2, <2>3 DEF ViewInv, Accounted, CanReview
<1> QED
  BY <1>1, <1>3, <1>4 DEF ViewInv

\* A row that comes into the queue brings none forward, and is counted if it
\* goes ahead of one that waits.
LEMMA EnterQueueKeeps ==
  ASSUME ViewInv, NEW t \in Tasks, NEW row \in TaskRow, row.status = "open",
         tasks[t].status \in {"none", "closed"},
         tasks[t].status = "closed" =>
           row.claim = tasks[t].claim /\ row.created_at = tasks[t].created_at,
         EnterQueue(t, row)
  PROVE  ViewInv'
<1> DEFINE ahead == Paging /\ GoesAhead(row)
           more == IF ahead THEN desk.moves + 1 ELSE desk.moves
           S == Open(desk.reader)
           T == Open(desk.reader)'
<1>1. tasks \in [Tasks -> TaskRow] /\ desk \in Desk /\ desk.moves \in Nat
  BY DeskIs DEF ViewInv, ViewTypeOK
<1>2. /\ tasks' \in [Tasks -> TaskRow] /\ tasks'[t] = row
      /\ \A u \in Tasks : u # t => tasks'[u] = tasks[u]
  BY <1>1 DEF EnterQueue
<1>3. more \in Nat /\ desk' = [desk EXCEPT !.moves = more]
  <2>1. more \in Nat
    BY <1>1
  <2>2. desk' = [desk EXCEPT !.moves = more]
    BY Zenon DEF EnterQueue
  <2> QED
    BY <2>1, <2>2
<1>4. /\ desk' \in Desk /\ desk'.waiting = desk.waiting /\ desk'.moves = more
      /\ desk'.reader = desk.reader /\ desk'.phase = desk.phase /\ desk'.offset = desk.offset
      /\ desk'.claimTotal = desk.claimTotal /\ desk'.openReviews = desk.openReviews
      /\ desk'.seen = desk.seen /\ desk'.claim = desk.claim
  BY <1>1, <1>3 DEF Desk
<1>5. ViewTypeOK'
  BY <1>2, <1>4 DEF ViewTypeOK
<1>6. /\ t \notin S /\ S \subseteq T /\ T \subseteq S \cup {t}
      /\ t \in T => TenantOf[row.claim] = TenantOf[desk.reader]
  BY <1>2, <1>4 DEF Open, TaskTenant
<1>7. WaitingOpen' /\ t \notin desk.waiting /\ desk.waiting \subseteq Tasks
  BY <1>4, <1>6, DeskIs DEF ViewInv, WaitingOpen
<1>8. WaitingCounted' /\ Visit'
  BY <1>4 DEF ViewInv, WaitingCounted, Visit, CanReview
<1>9. Missed' = Missed
  BY <1>2, <1>4, <1>7 DEF Missed
<1>10. NoTies' => NoTies
  BY <1>2, <1>4 DEF NoTies, TaskTenant
<1>11. /\ Dates'[t] = row.created_at
       /\ \A u \in Tasks : u # t => Dates'[u] = Dates[u]
       /\ \A u \in Tasks : Dates[u] = tasks[u].created_at
  BY <1>2 DEF Dates
<1>12. Dated(S, Dates) /\ Dated(T, Dates')
  <2>1. Dated(Open(desk.reader), Dates)'
    BY <1>5, QueueIsDated, PTL
  <2> QED
    BY <2>1, QueueIsDated DEF ViewInv, Dated
<1>13. Cardinality(Overlooked') <= Cardinality(Overlooked)
  <2>1. \A u \in S : Dates'[u] = Dates[u]
    BY <1>6, <1>11, OpenIs
  <2>2. Overlooked' \in SUBSET Overlooked
    <3> SUFFICES ASSUME NEW u \in Missed, Place(T, Dates', u) <= desk.offset
                 PROVE  Place(S, Dates, u) <= desk.offset
      BY <1>4, <1>9 DEF Overlooked, Reached
    <3>1. u \in S /\ u \in T
      BY <1>6, CountsAre DEF ViewInv
    <3>2. Place(S, Dates, u) <= Place(T, Dates', u)
      BY <1>6, <1>12, <2>1, <3>1, PlaceGrows
    <3>3. Place(S, Dates, u) \in Nat /\ Place(T, Dates', u) \in Nat /\ desk.offset \in Nat
      BY <1>12, <3>1, PlaceIs, DeskIs DEF ViewInv
    <3> QED
      BY <3>2, <3>3
  <2> QED
    BY <2>2, CountsAre, FS_Subset DEF ViewInv
<1>14. Cardinality(Jumped(T, desk.waiting, Dates'))
         <= Cardinality(Jumped(S, desk.waiting, Dates)) + (IF GoesAhead(row) THEN 1 ELSE 0)
  <2> DEFINE N == Jumped(S, desk.waiting, Dates)
             L == Jumped(T, desk.waiting, Dates')
  <2>1. IsFiniteSet(N) /\ Cardinality(N) \in Nat
    BY CountsAre DEF ViewInv
  <2>2. ASSUME NEW u \in L, u # t PROVE u \in N
    BY <1>6, <1>7, <1>11, <2>2, OpenIs DEF Jumped
  <2>3. ASSUME t \in L PROVE GoesAhead(row)
    BY <1>6, <1>7, <1>11, <2>3 DEF Jumped, GoesAhead
  <2> HIDE DEF N, L
  <2>4. IsFiniteSet(N \cup {t}) /\ Cardinality(N \cup {t}) <= Cardinality(N) + 1
        /\ Cardinality(N \cup {t}) \in Nat
    <3>1. /\ IsFiniteSet(N \cup {t})
          /\ Cardinality(N \cup {t}) = IF t \in N THEN Cardinality(N) ELSE Cardinality(N) + 1
      BY <2>1, FS_AddElement
    <3> QED
      BY <2>1, <3>1
  <2>5. CASE GoesAhead(row)
    <3>1. L \in SUBSET (N \cup {t})
      BY <2>2
    <3>2. Cardinality(L) <= Cardinality(N \cup {t}) /\ Cardinality(L) \in Nat
      BY <2>4, <3>1, FS_Subset, FS_CardinalityType
    <3> QED
      BY <2>1, <2>4, <2>5, <3>2 DEF N, L
  <2>6. CASE ~GoesAhead(row)
    <3>1. L \in SUBSET N
      BY <2>2, <2>3, <2>6
    <3>2. Cardinality(L) <= Cardinality(N)
      BY <2>1, <3>1, FS_Subset
    <3> QED
      BY <2>1, <2>6, <3>2 DEF N, L
  <2> QED
    BY <2>5, <2>6
<1>15. Accounted'
  <2> SUFFICES ASSUME NoTies' PROVE
        /\ Paging => Cardinality(Overlooked') + Cardinality(Jumped(T, desk.waiting, Dates')) <= more
        /\ desk.phase = "read" /\ desk.claim = {} /\ CanReview(desk.reader) =>
             Cardinality(Missed) <= more
    BY <1>4, <1>9 DEF Accounted, Paging, CanReview
  <2>1. NoTies
    BY <1>10
  <2>2. desk.moves <= more /\ (Paging /\ GoesAhead(row) => more = desk.moves + 1)
    BY <1>1
  <2>3. /\ Cardinality(Overlooked) \in Nat /\ Cardinality(Missed) \in Nat
        /\ Cardinality(Jumped(S, desk.waiting, Dates)) \in Nat
    BY CountsAre DEF ViewInv
  <2>4. /\ Cardinality(Overlooked') \in Nat
        /\ Cardinality(Jumped(T, desk.waiting, Dates')) \in Nat
    <3>1. /\ (Cardinality(Overlooked) \in Nat)'
          /\ (Cardinality(Jumped(Open(desk.reader), desk.waiting, Dates)) \in Nat)'
      BY <1>5, <1>7, CountsAre, PTL
    <3> QED
      BY <1>4, <3>1
  <2>5. ASSUME Paging
        PROVE  Cardinality(Overlooked') + Cardinality(Jumped(T, desk.waiting, Dates')) <= more
    <3>1. Cardinality(Overlooked) + Cardinality(Jumped(S, desk.waiting, Dates)) <= desk.moves
      BY <2>1, <2>5 DEF ViewInv, Accounted
    <3> HIDE DEF more, S, T
    <3>2. CASE GoesAhead(row)
      BY <1>1, <1>3, <1>13, <1>14, <2>2, <2>3, <2>4, <2>5, <3>1, <3>2
    <3>3. CASE ~GoesAhead(row)
      BY <1>1, <1>3, <1>13, <1>14, <2>2, <2>3, <2>4, <2>5, <3>1, <3>3
    <3> QED
      BY <3>2, <3>3
  <2>6. ASSUME desk.phase = "read", desk.claim = {}, CanReview(desk.reader)
        PROVE  Cardinality(Missed) <= more
    <3>1. Cardinality(Missed) <= desk.moves
      BY <2>1, <2>6 DEF ViewInv, Accounted
    <3> QED
      BY <1>1, <1>3, <2>2, <2>3, <3>1
  <2> QED
    BY <2>5, <2>6
<1> QED
  BY <1>5, <1>7, <1>8, <1>15 DEF ViewInv

LEMMA OpenTaskKeeps ==
  ASSUME ViewInv, NEW t \in Tasks, NEW c \in Claims, NEW e \in BOOLEAN, OpenTask(t, c, e)
  PROVE  ViewInv'
<1>1. PICK row : /\ \E at \in 1 .. MaxTasks :
                      row = [status |-> "open", claim |-> c, created_at |-> at, evaluation |-> e]
                 /\ EnterQueue(t, row)
  BY DEF OpenTask
<1>2. row \in TaskRow /\ row.status = "open"
  BY <1>1 DEF TaskRow
<1>3. tasks[t].status = "none"
  BY DEF OpenTask
<1> QED
  BY <1>1, <1>2, <1>3, EnterQueueKeeps

LEMMA ReopenTaskKeeps ==
  ASSUME ViewInv, NEW t \in Tasks, ReopenTask(t)
  PROVE  ViewInv'
<1>1. tasks[t] \in TaskRow /\ tasks[t].status = "closed"
  BY DEF ReopenTask, ViewInv, ViewTypeOK
<1>2. PICK row : row = [tasks[t] EXCEPT !.status = "open"] /\ EnterQueue(t, row)
  BY DEF ReopenTask
<1>3. /\ row \in TaskRow /\ row.status = "open"
      /\ row.claim = tasks[t].claim /\ row.created_at = tasks[t].created_at
  BY <1>1, <1>2 DEF TaskRow
<1> QED
  BY <1>1, <1>2, <1>3, EnterQueueKeeps

\* A task that is finished brings at most one that waits out of reach.
LEMMA FinishTaskKeeps ==
  ASSUME ViewInv, NEW t \in Tasks, FinishTask(t)
  PROVE  ViewInv'
<1> DEFINE ours == TaskTenant(t) = TenantOf[desk.reader]
           more == IF Paging /\ ours THEN desk.moves + 1 ELSE desk.moves
           S == Open(desk.reader)
<1>1. /\ tasks[t].status = "open"
      /\ tasks' = [tasks EXCEPT ![t] = [tasks[t] EXCEPT !.status = "closed"]]
  BY DEF FinishTask
<1>2. tasks \in [Tasks -> TaskRow] /\ desk \in Desk /\ desk.moves \in Nat
  BY DeskIs DEF ViewInv, ViewTypeOK
<1>3. more \in Nat /\ desk' = [desk EXCEPT !.waiting = @ \ {t}, !.moves = more]
  <2>1. more \in Nat
    BY <1>2
  <2>2. desk' = [desk EXCEPT !.waiting = @ \ {t}, !.moves = more]
    BY Zenon DEF FinishTask
  <2> QED
    BY <2>1, <2>2
<1>4. /\ desk' \in Desk /\ desk'.waiting = desk.waiting \ {t} /\ desk'.moves = more
      /\ desk'.reader = desk.reader /\ desk'.phase = desk.phase /\ desk'.offset = desk.offset
      /\ desk'.claimTotal = desk.claimTotal /\ desk'.openReviews = desk.openReviews
      /\ desk'.seen = desk.seen /\ desk'.claim = desk.claim
  BY <1>2, <1>3 DEF Desk
<1>5. /\ tasks' \in [Tasks -> TaskRow]
      /\ tasks'[t].status = "closed" /\ tasks'[t].claim = tasks[t].claim
      /\ tasks'[t].created_at = tasks[t].created_at /\ tasks'[t].evaluation = tasks[t].evaluation
      /\ \A u \in Tasks : u # t => tasks'[u] = tasks[u]
  BY <1>1, <1>2 DEF TaskRow
<1>6. \A u \in Tasks :
        /\ tasks'[u].claim = tasks[u].claim /\ tasks'[u].created_at = tasks[u].created_at
        /\ tasks'[u].evaluation = tasks[u].evaluation
        /\ tasks'[u].status = "none" <=> tasks[u].status = "none"
  BY <1>1, <1>5
<1>7. ViewTypeOK'
  BY <1>4, <1>5 DEF ViewTypeOK
<1>8. Open(desk.reader)' = S \ {t}
  BY <1>4, <1>5, <1>6 DEF Open, TaskTenant
<1>9. WaitingOpen'
  BY <1>4, <1>8 DEF ViewInv, WaitingOpen
<1>10. WaitingCounted' /\ Visit'
  <2>1. IsFiniteSet(desk.waiting) /\ Cardinality(desk.waiting) \in Nat
    BY CountsAre DEF ViewInv
  <2>2. /\ Cardinality(desk.waiting \ {t}) <= Cardinality(desk.waiting)
        /\ Cardinality(desk.waiting \ {t}) \in Nat
    <3>1. /\ IsFiniteSet(desk.waiting \ {t})
          /\ desk.waiting \ {t} \in SUBSET desk.waiting
      BY <2>1, FS_RemoveElement
    <3> QED
      BY <2>1, <3>1, FS_Subset, FS_CardinalityType
  <2>3. desk.openReviews \in Nat
    BY DeskIs DEF ViewInv
  <2> QED
    BY <1>4, <2>1, <2>2, <2>3 DEF ViewInv, WaitingCounted, Visit, CanReview
<1>11. NoTies' => NoTies
  BY <1>4, <1>6 DEF NoTies, TaskTenant
<1>12. Dates' = Dates
  BY <1>6 DEF Dates
<1>13. Missed' = Missed \ {t}
  BY <1>4, <1>6, DeskIs DEF Missed, ViewInv
<1>14. /\ IsFiniteSet(Missed) /\ Cardinality(Missed) \in Nat
       /\ Cardinality(Missed \ {t}) \in Nat /\ Cardinality(Missed \ {t}) <= Cardinality(Missed)
  <2>1. IsFiniteSet(Missed) /\ Cardinality(Missed) \in Nat
    BY CountsAre DEF ViewInv
  <2>2. IsFiniteSet(Missed \ {t}) /\ Missed \ {t} \in SUBSET Missed
    BY <2>1, FS_RemoveElement
  <2> QED
    BY <2>1, <2>2, FS_Subset, FS_CardinalityType
<1>15. ASSUME ours, NoTies PROVE Cardinality(Overlooked') <= Cardinality(Overlooked) + 1
  <2>1. Overlooked' = Reached(Missed \ {t}, S \ {t}, Dates, desk.offset)
    BY <1>4, <1>8, <1>12, <1>13 DEF Overlooked, Reached
  <2>2. Dated(S, Dates) /\ Untied(S, Dates) /\ Missed \in SUBSET S /\ desk.offset \in Nat
    BY <1>15, QueueIsDated, CountsAre, DeskIs DEF ViewInv
  <2> QED
    BY <2>1, <2>2, OneComesForward DEF Overlooked
<1>16. ASSUME ~ours PROVE Overlooked' = Overlooked
  <2>1. t \notin S /\ t \notin Missed
    BY <1>16, CountsAre DEF Open, ViewInv
  <2>2. S \ {t} = S /\ Missed \ {t} = Missed
    BY <2>1
  <2> QED
    BY <1>4, <1>8, <1>12, <1>13, <2>2 DEF Overlooked, Reached
<1>17. Cardinality(Jumped(Open(desk.reader), desk.waiting, Dates)')
         <= Cardinality(Jumped(S, desk.waiting, Dates))
  <2>1. Jumped(Open(desk.reader), desk.waiting, Dates)' \in SUBSET Jumped(S, desk.waiting, Dates)
    BY <1>4, <1>8, <1>12 DEF Jumped
  <2> QED
    BY <2>1, CountsAre, FS_Subset DEF ViewInv
<1>18. Accounted'
  <2> DEFINE o == Cardinality(Overlooked)
             oo == Cardinality(Overlooked')
             j == Cardinality(Jumped(S, desk.waiting, Dates))
             jj == Cardinality(Jumped(Open(desk.reader), desk.waiting, Dates)')
  <2> SUFFICES ASSUME NoTies' PROVE
        /\ Paging => oo + jj <= more
        /\ desk.phase = "read" /\ desk.claim = {} /\ CanReview(desk.reader) =>
             Cardinality(Missed \ {t}) <= more
    BY <1>4, <1>13 DEF Accounted, Paging, CanReview
  <2>1. NoTies
    BY <1>11
  <2>2. o \in Nat /\ j \in Nat
    BY CountsAre DEF ViewInv
  <2>3. oo \in Nat /\ jj \in Nat
    <3>1. /\ (Cardinality(Overlooked) \in Nat)'
          /\ (Cardinality(Jumped(Open(desk.reader), desk.waiting, Dates)) \in Nat)'
      BY <1>7, <1>9, CountsAre, PTL
    <3> QED
      BY <3>1
  <2>4. desk.moves <= more /\ (Paging /\ ours => more = desk.moves + 1)
    BY <1>2
  <2>5. ASSUME Paging PROVE oo + jj <= more
    <3>1. o + j <= desk.moves
      BY <2>1, <2>5 DEF ViewInv, Accounted
    <3>2. oo <= o + (IF ours THEN 1 ELSE 0)
      BY <1>15, <1>16, <2>1, <2>2, <2>3
    <3>3. jj <= j
      BY <1>17
    <3> HIDE DEF o, oo, j, jj, more, ours
    <3>4. CASE ours
      BY <1>2, <1>3, <2>2, <2>3, <2>4, <2>5, <3>1, <3>2, <3>3, <3>4
    <3>5. CASE ~ours
      BY <1>2, <1>3, <2>2, <2>3, <2>4, <2>5, <3>1, <3>2, <3>3, <3>5
    <3> QED
      BY <3>4, <3>5
  <2>6. ASSUME desk.phase = "read", desk.claim = {}, CanReview(desk.reader)
        PROVE  Cardinality(Missed \ {t}) <= more
    <3>1. Cardinality(Missed) <= desk.moves
      BY <2>1, <2>6 DEF ViewInv, Accounted
    <3> QED
      BY <1>2, <1>3, <1>14, <2>4, <3>1
  <2> QED
    BY <2>5, <2>6
<1> QED
  BY <1>7, <1>9, <1>10, <1>18 DEF ViewInv

\* Only the phase changes: the reader goes on, or is refused.
LEMMA OnlyPhase ==
  ASSUME ViewInv, NEW p \in {"queue", "read", "refused"}, desk' = [desk EXCEPT !.phase = p],
         tasks' = tasks,
         p = "queue" => desk.phase = "claims",
         p = "read" /\ desk.claim = {} /\ CanReview(desk.reader) /\ NoTies =>
           Cardinality(Missed) <= desk.moves
  PROVE  ViewInv'
<1>1. /\ desk' \in Desk /\ desk'.phase = p /\ desk'.reader = desk.reader
      /\ desk'.waiting = desk.waiting /\ desk'.moves = desk.moves
      /\ desk'.openReviews = desk.openReviews /\ desk'.offset = desk.offset
      /\ desk'.seen = desk.seen /\ desk'.claimTotal = desk.claimTotal
      /\ desk'.claim = desk.claim
  BY DEF ViewInv, ViewTypeOK, Desk
<1>2. Visit' /\ (Paging' => Paging)
  BY <1>1 DEF ViewInv, Visit, Paging
<1> QED
  BY <1>1, <1>2, PhaseKeeps

LEMMA ReadDashboardKeeps ==
  ASSUME ViewInv, ReadDashboard
  PROVE  ViewInv'
<1>1. desk.phase = "closed" /\ tasks' = tasks
  BY DEF ReadDashboard
<1>2. PICK a \in Accounts : a = desk.reader
  BY DeskIs DEF ViewInv
<1>3. CASE Refuse
  BY <1>1, <1>3, OnlyPhase DEF Refuse
<1>4. CASE ~Refuse
  <2> DEFINE count == IF CanReview(a) THEN CountOpen(a) ELSE 0
  <2>1. desk' = [ClosedDesk(a) EXCEPT !.phase = "claims", !.claimTotal = CountForActor(a),
                                      !.openReviews = count, !.waiting = Open(a)]
    BY <1>2, <1>4 DEF ReadDashboard
  <2>2. count \in Nat /\ CountForActor(a) \in Nat /\ Open(a) \subseteq Tasks
    BY OpenIs, CountIsOfList DEF CountOpen
  <2>3. /\ count > 0 => CanReview(a)
        /\ CanReview(a) => count = Cardinality(Open(a))
    BY DEF CountOpen
  <2> HIDE DEF count
  <2>4. /\ desk' \in Desk /\ desk'.reader = a /\ desk'.phase = "claims"
        /\ desk'.claimTotal = CountForActor(a) /\ desk'.openReviews = count
        /\ desk'.offset = 0 /\ desk'.seen = {} /\ desk'.waiting = Open(a)
        /\ desk'.claim = {} /\ desk'.moves = 0
    BY <2>1, <2>2 DEF ClosedDesk, Desk
  <2>5. ViewTypeOK'
    BY <1>1, <2>4 DEF ViewInv, ViewTypeOK
  <2>6. Open(a)' = Open(a)
    BY <1>1 DEF Open, TaskTenant
  <2>7. WaitingOpen' /\ WaitingCounted'
    BY <2>2, <2>3, <2>4, <2>6 DEF WaitingOpen, WaitingCounted, CanReview
  <2>8. Overlooked' = {}
    <3>1. Dated(Open(a), Dates') /\ Missed' \subseteq Open(a)
      <4>1. Dated(Open(desk.reader), Dates)' /\ (Missed \in SUBSET Open(desk.reader))'
        BY <2>5, <2>7, QueueIsDated, CountsAre, PTL
      <4> QED
        BY <2>4, <2>6, <4>1
    <3>2. \A t \in Open(a) : Place(Open(a), Dates', t) \in Nat \ {0}
      BY <3>1, PlaceIs
    <3>3. Overlooked' = Reached(Missed', Open(a), Dates', 0)
      BY <2>4, <2>6 DEF Overlooked, Reached
    <3> QED
      BY <3>1, <3>2, <3>3 DEF Reached
  <2>9. Jumped(Open(desk.reader), desk.waiting, Dates)' = {}
    BY <2>4, <2>6 DEF Jumped
  <2>10. Accounted'
    BY <2>4, <2>8, <2>9, FS_EmptySet DEF Accounted
  <2>11. Visit'
    BY <2>3, <2>4, CountIsOfList, ReviewersRead DEF Visit
  <2> QED
    BY <2>5, <2>7, <2>10, <2>11 DEF ViewInv
<1> QED
  BY <1>3, <1>4

LEMMA ReadClaimsKeeps ==
  ASSUME ViewInv, ReadClaims
  PROVE  ViewInv'
<1>1. desk.phase = "claims" /\ tasks' = tasks
  BY DEF ReadClaims
<1>2. CASE Refuse
  BY <1>1, <1>2, OnlyPhase DEF Refuse
<1>3. CASE desk' = [desk EXCEPT !.phase = IF CanReview(desk.reader) THEN "queue" ELSE "read"]
  BY <1>1, <1>3, OnlyPhase
<1>4. CASE \E c \in ListForActor(desk.reader) :
             desk' = [desk EXCEPT !.phase = "workspace", !.claim = {c}]
  <2>1. PICK c \in ListForActor(desk.reader) :
              desk' = [desk EXCEPT !.phase = "workspace", !.claim = {c}]
    BY <1>4
  <2>2. c \in Claims /\ GetForActor(c, desk.reader)
    BY ListedOpens DEF ListForActor
  <2>3. /\ desk' \in Desk /\ desk'.phase = "workspace" /\ desk'.reader = desk.reader
        /\ desk'.waiting = desk.waiting /\ desk'.moves = desk.moves
        /\ desk'.openReviews = desk.openReviews /\ desk'.offset = desk.offset
        /\ desk'.seen = desk.seen /\ desk'.claimTotal = desk.claimTotal
        /\ desk'.claim = {c}
    BY <2>1, <2>2 DEF ViewInv, ViewTypeOK, Desk
  <2>4. Visit' /\ ~Paging'
    BY <1>1, <2>2, <2>3 DEF ViewInv, Visit, Paging
  <2> QED
    BY <1>1, <2>3, <2>4, PhaseKeeps
<1> QED
  BY <1>2, <1>3, <1>4 DEF ReadClaims

LEMMA ReadWorkspaceKeeps ==
  ASSUME ViewInv, ReadWorkspace
  PROVE  ViewInv'
<1>1. desk.phase = "workspace" /\ tasks' = tasks /\ desk.claim # {}
  BY DEF ReadWorkspace, ViewInv, Visit
<1>2. CASE Refuse
  BY <1>1, <1>2, OnlyPhase DEF Refuse
<1>3. CASE desk' = [desk EXCEPT !.phase = "read"]
  BY <1>1, <1>3, OnlyPhase
<1> QED
  BY <1>2, <1>3 DEF ReadWorkspace

\* At the end of the queue, what was missed was overlooked, or stands beyond
\* the number the dashboard counted because others jumped the queue.
LEMMA MissedAtTheEnd ==
  ASSUME ViewInv, desk.phase = "queue", desk.offset >= desk.openReviews, CanReview(desk.reader),
         NoTies
  PROVE  Cardinality(Missed) <= desk.moves
<1> DEFINE S == Open(desk.reader)
           N == Jumped(S, desk.waiting, Dates)
           K == desk.waiting \ Reached(desk.waiting, S, Dates, desk.offset)
<1>1. ViewTypeOK /\ WaitingOpen /\ desk.waiting \in SUBSET S
  BY DEF ViewInv, WaitingOpen
<1>2. /\ Cardinality(desk.waiting) \in Nat /\ IsFiniteSet(desk.waiting)
      /\ Missed \in SUBSET desk.waiting /\ Cardinality(Missed) \in Nat
      /\ IsFiniteSet(Overlooked) /\ Cardinality(Overlooked) \in Nat
      /\ IsFiniteSet(N) /\ Cardinality(N) \in Nat
      /\ desk.offset \in Nat /\ desk.openReviews \in Nat /\ desk.moves \in Nat
  BY <1>1, CountsAre, DeskIs
<1>3. Cardinality(desk.waiting) <= desk.offset
  BY <1>2 DEF ViewInv, WaitingCounted
<1>4. Dated(S, Dates) /\ Untied(S, Dates)
  BY <1>1, QueueIsDated
<1>5. Cardinality(K) <= Cardinality(N)
  BY <1>1, <1>2, <1>3, <1>4, BeyondAreJumped
<1>6. Missed \in SUBSET (Overlooked \cup K)
  BY <1>2 DEF Overlooked, Reached
<1>7. K \in SUBSET desk.waiting
  OBVIOUS
<1>8. Cardinality(Overlooked) + Cardinality(N) <= desk.moves
  BY DEF ViewInv, Accounted, Paging
<1> HIDE DEF K, N
<1>9. IsFiniteSet(K) /\ Cardinality(K) \in Nat
  BY <1>2, <1>7, FS_Subset, FS_CardinalityType
<1>10. /\ IsFiniteSet(Overlooked \cup K) /\ Cardinality(Overlooked \cup K) \in Nat
       /\ Cardinality(Overlooked \cup K) <= Cardinality(Overlooked) + Cardinality(K)
  <2>1. Cardinality(Overlooked \cap K) \in Nat
    BY <1>9, FS_Intersection, FS_CardinalityType
  <2>2. /\ IsFiniteSet(Overlooked \cup K)
        /\ Cardinality(Overlooked \cup K)
             = Cardinality(Overlooked) + Cardinality(K) - Cardinality(Overlooked \cap K)
    BY <1>2, <1>9, FS_Union
  <2> QED
    BY <1>2, <1>9, <2>1, <2>2, FS_CardinalityType
<1>11. Cardinality(Missed) <= Cardinality(Overlooked \cup K)
  BY <1>6, <1>10, FS_Subset
<1> QED
  BY <1>2, <1>5, <1>8, <1>9, <1>10, <1>11

\* One more page: the rows that stand on it are shown.
LEMMA ReadQueueKeeps ==
  ASSUME ViewInv, ReadQueue
  PROVE  ViewInv'
<1>1. desk.phase = "queue" /\ tasks' = tasks
  BY DEF ReadQueue
<1>2. CASE Refuse
  BY <1>1, <1>2, OnlyPhase DEF Refuse
<1>3. CASE desk.offset >= desk.openReviews /\ desk' = [desk EXCEPT !.phase = "read"]
  BY <1>1, <1>3, OnlyPhase, MissedAtTheEnd
<1>4. CASE \E s \in Listings(desk.reader) :
             desk' = [desk EXCEPT !.seen = @ \cup Shown(PageOf(s, desk.offset)),
                                  !.offset = @ + PageSize]
  <2>1. PICK s \in Listings(desk.reader) :
             desk' = [desk EXCEPT !.seen = @ \cup Shown(PageOf(s, desk.offset)),
                                  !.offset = @ + PageSize]
    BY <1>4
  <2> DEFINE S == Open(desk.reader)
             part == PageOf(s, desk.offset)
  <2>2. s \in Bijection(1 .. Cardinality(S), S) /\ DOMAIN s = 1 .. Cardinality(S)
    BY DEF Listings, Bijection, Injection
  <2>3. S \subseteq Tasks
    BY OpenIs
  <2>4. part \subseteq Tasks
    BY <2>2, <2>3 DEF PageOf, Bijection, Injection
  <2>5. desk.offset \in Nat /\ PageSize \in Nat \ {0} /\ desk.offset + PageSize \in Nat
    BY DeskIs, ViewAssumption DEF ViewInv
  <2>6. Shown(part) \subseteq Tasks
    BY <2>4 DEF Shown
  <2> HIDE DEF S, part
  <2>7. desk' = [desk EXCEPT !.seen = @ \cup Shown(part), !.offset = @ + PageSize]
    BY <2>1 DEF part
  <2>8. /\ desk' \in Desk /\ desk'.phase = "queue" /\ desk'.reader = desk.reader
        /\ desk'.waiting = desk.waiting /\ desk'.moves = desk.moves
        /\ desk'.openReviews = desk.openReviews /\ desk'.offset = desk.offset + PageSize
        /\ desk'.seen = desk.seen \cup Shown(part) /\ desk'.claimTotal = desk.claimTotal
        /\ desk'.claim = desk.claim
    BY <1>1, <2>5, <2>6, <2>7 DEF ViewInv, ViewTypeOK, Desk
  <2>9. ViewTypeOK'
    BY <1>1, <2>8 DEF ViewInv, ViewTypeOK
  <2>10. Open(desk.reader)' = S /\ Dates' = Dates
    BY <1>1, <2>8 DEF Open, TaskTenant, S, Dates
  <2>11. WaitingOpen' /\ WaitingCounted' /\ Visit'
    BY <1>1, <2>8, <2>10 DEF ViewInv, WaitingOpen, WaitingCounted, Visit, CanReview, S
  <2>12. ASSUME NoTies PROVE Overlooked' \in SUBSET Overlooked
    <3> SUFFICES ASSUME NEW t \in Overlooked' PROVE t \in Overlooked
      OBVIOUS
    <3>1. /\ t \in Missed /\ t \notin Shown(part)
          /\ Place(S, Dates, t) <= desk.offset + PageSize
      BY <1>1, <2>8, <2>10 DEF Overlooked, Reached, Missed
    <3>2. t \in S /\ ~tasks[t].evaluation
      BY <3>1, CountsAre DEF ViewInv, S, Missed
    <3>3. PICK k \in 1 .. Cardinality(S) : s[k] = t /\ k = Place(S, Dates, t)
      <4>1. Dated(S, Dates) /\ Untied(S, Dates)
        BY <2>12, QueueIsDated DEF ViewInv, S
      <4>2. \A i, j \in 1 .. Cardinality(S) : i < j => Dates[s[i]] <= Dates[s[j]]
        <5>1. \A i \in 1 .. Cardinality(S) : Dates[s[i]] = tasks[s[i]].created_at
          BY <2>2, <2>3, QueueIsDated DEF ViewInv, Bijection, Injection
        <5> QED
          BY <2>2, <5>1 DEF Listings
      <4> QED
        BY <2>2, <3>2, <4>1, <4>2, StandsAtPlace
    <3>4. CASE k <= desk.offset
      BY <3>1, <3>3, <3>4 DEF Overlooked, Reached, S
    <3>5. CASE ~(k <= desk.offset)
      <4>1. k \in Int /\ desk.offset < k /\ k <= desk.offset + PageSize
        BY <2>5, <3>1, <3>3, <3>5
      <4>2. t \in part
        BY <2>2, <3>3, <4>1 DEF PageOf, part
      <4> QED
        BY <3>1, <3>2, <4>2 DEF Shown
    <3> QED
      BY <3>4, <3>5
  <2>13. Accounted'
    <3> DEFINE n == Cardinality(Jumped(S, desk.waiting, Dates))
    <3>1. Jumped(Open(desk.reader), desk.waiting, Dates)' = Jumped(S, desk.waiting, Dates)
      BY <2>8, <2>10 DEF Jumped
    <3>2. NoTies' => NoTies
      BY <1>1, <2>8 DEF NoTies, TaskTenant
    <3>3. NoTies => Cardinality(Overlooked) + n <= desk.moves
      BY <1>1 DEF ViewInv, Accounted, Paging, S
    <3>4. /\ IsFiniteSet(Overlooked) /\ Cardinality(Overlooked) \in Nat
          /\ n \in Nat /\ desk.moves \in Nat
      BY CountsAre, DeskIs DEF ViewInv, S
    <3>5. NoTies =>
            Cardinality(Overlooked') <= Cardinality(Overlooked) /\ Cardinality(Overlooked') \in Nat
      BY <2>12, <3>4, FS_Subset, FS_CardinalityType
    <3> HIDE DEF n
    <3>6. NoTies => Cardinality(Overlooked') + n <= desk.moves
      BY <3>3, <3>4, <3>5
    <3> QED
      BY <2>8, <3>1, <3>2, <3>6 DEF Accounted, n
  <2> QED
    BY <2>9, <2>11, <2>13 DEF ViewInv
<1> QED
  BY <1>2, <1>3, <1>4 DEF ReadQueue

LEMMA ViewStep == ViewInv /\ [ViewNext]_viewVars => ViewInv'
<1> SUFFICES ASSUME ViewInv, [ViewNext]_viewVars PROVE ViewInv'
  OBVIOUS
<1>1. CASE Leave
  BY <1>1, ClosedKeeps DEF Leave, ViewInv
<1>2. CASE UNCHANGED viewVars
  <2>1. tasks' = tasks /\ desk' = desk
    BY <1>2 DEF viewVars
  <2> QED
    BY <2>1 DEF ViewInv, ViewTypeOK, WaitingOpen, WaitingCounted, Accounted, Paging, NoTies,
       Missed, Overlooked, Reached, Jumped, Place, Until, Dates, Visit, Open, TaskTenant
<1> QED
  BY <1>1, <1>2, OpenTaskKeeps, ReopenTaskKeeps, FinishTaskKeeps, ReadDashboardKeeps,
     ReadClaimsKeeps, ReadWorkspaceKeeps, ReadQueueKeeps
     DEF ViewNext

LEMMA ViewStarts == ViewInit => ViewInv
<1> SUFFICES ASSUME ViewInit PROVE ViewInv
  OBVIOUS
<1>1. PICK a \in Accounts : desk = ClosedDesk(a)
  BY DEF ViewInit
<1>2. PICK k \in Claims :
        tasks = [t \in Tasks |-> [status |-> "none", claim |-> k, created_at |-> 0,
                                  evaluation |-> FALSE]]
  <2>1. (CHOOSE c \in Claims : TRUE) \in Claims
    BY ViewAssumption
  <2> QED
    BY <2>1 DEF ViewInit
<1>3. ViewTypeOK
  BY <1>1, <1>2, ClosedIs DEF ViewTypeOK, TaskRow
<1>4. WaitingOpen /\ WaitingCounted /\ Accounted /\ Visit
  BY <1>1, ClosedIs, FS_EmptySet DEF WaitingOpen, WaitingCounted, Accounted, Paging, Visit
<1> QED
  BY <1>3, <1>4 DEF ViewInv

LEMMA ViewHolds == ViewSpec => []ViewInv
BY ViewStarts, ViewStep, PTL DEF ViewSpec

\* The desk and the tasks keep their types: what the dashboard counts is a
\* number, as no set it counts can be infinite.
THEOREM ViewTypes == ViewSpec => []ViewTypeOK
<1>1. ViewInv => ViewTypeOK
  BY DEF ViewInv
<1> QED
  BY <1>1, ViewHolds, PTL

\* For any accounts, roles, assignments, tasks, dates and page size: the
\* dashboard counts what is listed, what is listed opens, and a reader who
\* pages as far as it counted is shown every task that waited all the while,
\* but one for every shift of the queue under it.
THEOREM ViewsAreOfTheSameRows == ViewSpec => []ViewsAgree
<1>1. ViewInv => ViewsAgree
  BY DEF ViewsAgree, ViewInv, Visit, Accounted
<1> QED
  BY <1>1, ViewHolds, PTL
=============================================================================
