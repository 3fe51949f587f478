--------------------------- MODULE SearchRanking ---------------------------
(***************************************************************************)
(* SqlHybridVectorIndex.search of retrieval/search.py: the rows of a claim *)
(* come in any order, are filtered and scored one by one, ranked twice,    *)
(* and fused by reciprocal rank.                                           *)
(*                                                                         *)
(* A passage is a number, which stands for its chunk_identifier; scores    *)
(* are levels, and 0 is what does not make a candidate.  The fused score   *)
(* is a fraction, compared by cross-multiplication.                        *)
(***************************************************************************)
EXTENDS Integers, FiniteSets

CONSTANTS
  Passages,    \* chunks of ready indexes of the claim, by identifier
  Levels,      \* levels of the lexical and of the vector score
  MaxEvidence  \* how many the caller asked for

ASSUME RankingAssumption ==
  /\ Passages \subseteq Nat
  /\ IsFiniteSet(Passages)
  /\ Levels \subseteq Int
  /\ MaxEvidence \in Nat \ {0}

VARIABLES
  governing,   \* whether the question asks what governs the claim
  landscaping, \* whether it is about landscaping
  unread,      \* rows the loop has not come to
  scored,      \* candidates
  evidence     \* what is returned, once it is

searchVars == <<governing, landscaping, unread, scored, evidence>>

-----------------------------------------------------------------------------

\* A row: its document, the policy edition against that of the claim's
\* policy, whether it says it is no claim evidence, and its two scores.
Rows ==
  [id : Passages, policy_document : BOOLEAN, edition : {"none", "applicable", "other"},
   unrelated : BOOLEAN, lexical : Levels, vector : Levels]

\* The filters of the loop.
WrongPolicy(r) == r.policy_document /\ r.edition = "other"
WrongForQuestion(r) == governing /\ r.edition = "other"
OffTopic(r) == r.unrelated /\ ~landscaping
Matches(r) == r.lexical > 0 \/ r.vector > 0

IsCandidate(r) == ~WrongPolicy(r) /\ ~WrongForQuestion(r) /\ ~OffTopic(r) /\ Matches(r)

Scored(r) ==
  [id |-> r.id, mismatch |-> r.edition = "other", lexical |-> r.lexical, vector |-> r.vector]

\* The ranks, from 1: by score, then by identifier.
LexicalRank(x) ==
  1 + Cardinality({y \in scored : \/ y.lexical > x.lexical
                                  \/ y.lexical = x.lexical /\ y.id < x.id})

VectorRank(x) ==
  1 + Cardinality({y \in scored : \/ y.vector > x.vector
                                  \/ y.vector = x.vector /\ y.id < x.id})

\* Mutant of Weight: no penalty for another edition.
EqualWeight(x) == 100

\* 1 / (60 + lexical_rank) + 1 / (60 + vector_rank), times 0.65 when the
\* edition does not match, in hundredths of Sum / Product.
Weight(x) == IF x.mismatch THEN 65 ELSE 100

Sum(x) == 120 + LexicalRank(x) + VectorRank(x)
Product(x) == (60 + LexicalRank(x)) * (60 + VectorRank(x))

\* The order of the fused list.
Ahead(x, y) ==
  LET left == Weight(x) * Sum(x) * Product(y)
      right == Weight(y) * Sum(y) * Product(x)
  IN left > right \/ (left = right /\ x.id < y.id)

Position(x) == 1 + Cardinality({y \in scored : Ahead(y, x)})

SearchInit ==
  /\ governing \in BOOLEAN
  /\ landscaping \in BOOLEAN
  /\ unread \in SUBSET Passages
  /\ scored = {}
  /\ evidence = {}

\* The loop over the rows of the database, which come in no order.
Score ==
  /\ \E r \in Rows :
       /\ r.id \in unread
       /\ unread' = unread \ {r.id}
       /\ scored' = IF IsCandidate(r) THEN scored \cup {Scored(r)} ELSE scored
  /\ UNCHANGED <<governing, landscaping, evidence>>

\* The lists are sorted, fused and cut.
Fuse ==
  /\ unread = {}
  /\ evidence = {}
  /\ scored # {}
  /\ evidence' = {[passage |-> x, rank |-> Position(x)] : x \in {y \in scored : Position(y) <= MaxEvidence}}
  /\ UNCHANGED <<governing, landscaping, unread, scored>>

SearchNext == Score \/ Fuse

SearchSpec == SearchInit /\ [][SearchNext]_searchVars

-----------------------------------------------------------------------------
(* Properties *)

\* x says more than y in both ways and is not less applicable.
Dominates(x, y) ==
  /\ x.lexical > y.lexical
  /\ x.vector > y.vector
  /\ x.mismatch => y.mismatch

\* The most candidates for which 0.65 outweighs every difference of rank:
\* 2/(60 + n) > 0.65 * 2/61.
SmallClaim == 33

\* No passage is returned while one that says more is not, or is ranked
\* below it; and no passage of another edition is returned ahead of one that
\* applies, as long as the claim has few candidates.  Ranks, not scores, are
\* fused, and the penalty is a factor: neither order is stated in the code.
\* Every rank from 1 on is given once.
RankedByMerit ==
  /\ \A e \in evidence, y \in scored :
       LET x == e.passage
           ahead == \E f \in evidence : f.passage = y /\ f.rank < e.rank
       IN x # y =>
            /\ Dominates(y, x) => ahead
            /\ x.mismatch /\ ~y.mismatch /\ Cardinality(scored) <= SmallClaim => ahead
  /\ {e.rank : e \in evidence} = 1 .. Cardinality(evidence)
=============================================================================
