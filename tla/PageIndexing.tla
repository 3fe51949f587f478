---------------------------- MODULE PageIndexing ----------------------------
(***************************************************************************)
(* How one document becomes rows of retrieval_chunks: chunk_page of        *)
(* retrieval/chunking.py cuts each page into overlapping windows, and      *)
(* index_document of retrieval/indexing.py stores the chunks of all pages  *)
(* at once, under the unique constraints of the table.                     *)
(*                                                                         *)
(* A text is its length and its white space; which characters it has       *)
(* matters nowhere else, except that equal texts have equal checksums.     *)
(***************************************************************************)
EXTENDS Integers, FiniteSets

CONSTANTS
  MaxChars,     \* MAX_CHARS, 700
  Overlap,      \* OVERLAP_CHARS, 100
  MaxPages,     \* bound on the pages of the document
  MaxLength     \* bound on the length of a page

ASSUME ChunkAssumption ==
  /\ MaxChars \in Nat \ {0}
  /\ Overlap \in Nat
  /\ Overlap <= MaxChars \div 2
  /\ MaxPages \in Nat
  /\ MaxLength \in Nat

VARIABLES
  page,        \* the page in work, 0 before the first
  text,        \* its normalized text
  start,       \* where the next window starts, or the length after the last
  ordinal,     \* the ordinal of the next chunk
  pending,     \* the chunks so far, as they will be stored
  index        \* status of the document's index

indexVars == <<page, text, start, ordinal, pending, index>>

-----------------------------------------------------------------------------

\* A page after normalization: length characters from 0 on; blank are the
\* places of white space, gaps those of a space or a line end among them.
\* strip leaves none at either end.
Texts ==
  [length : 0 .. MaxLength, blank : SUBSET (1 .. MaxLength - 2),
   gaps : SUBSET (1 .. MaxLength - 2)]

Text ==
  {t \in Texts : t.gaps \subseteq t.blank /\ \A i \in t.blank : i < t.length - 1}

NoText == [length |-> 0, blank |-> {}, gaps |-> {}]

Lesser(a, b) == IF a <= b THEN a ELSE b
Greater(a, b) == IF a >= b THEN a ELSE b

\* The last space or line end of the window, beyond its middle.
Boundaries(s, e) ==
  {i \in text.gaps : s + MaxChars \div 2 < i /\ i <= e}

IsEnd(e) ==
  LET proposed == Lesser(start + MaxChars, text.length)
      cut == Boundaries(start, proposed)
  IN IF proposed < text.length /\ cut # {}
     THEN e \in cut /\ \A i \in cut : i <= e
     ELSE e = proposed

\* Mutant of NextStart: windows that do not overlap.
NoOverlap(e) == e

\* Where the next window starts.
NextStart(e) == Greater(e - Overlap, start + 1)

\* The place [from, to) of the window [s, e) without the white space at its
\* ends; a window of white space only leaves the empty place at its end.
IsPlace(s, e, from, to) ==
  /\ s <= from /\ from <= e
  /\ s .. from - 1 \subseteq text.blank
  /\ from # e => from \notin text.blank
  /\ from <= to /\ to <= e
  /\ from = e => to = e
  /\ to .. e - 1 \subseteq text.blank
  /\ from # e => to - 1 \notin text.blank

\* The chunk of a window.  Its identifier is a digest of the document, the
\* checksum of the page, the ordinal, the place and the text in it.
Chunk(s, e, from, to) ==
  [page |-> page, ordinal |-> ordinal, source_start |-> from, source_end |-> to,
   identifier |-> <<text, ordinal, from, to>>]

\* uq_retrieval_index_ordinal and uq_retrieval_chunk_identifier.
Clash ==
  \E c, d \in pending :
    c # d /\ (c.ordinal = d.ordinal \/ c.identifier = d.identifier)

Indexing ==
  /\ page = 0
  /\ text = NoText
  /\ start = 0
  /\ ordinal = 0
  /\ pending = {}
  /\ index = "indexing"

InPage == start < text.length

\* Mutant of FirstOrdinal: the ordinals go on from page to page.
NextOrdinal == ordinal

\* The ordinals start again with every page: they count within chunk_page.
FirstOrdinal == 0

\* chunk_page is called for the next page; a page of white space has no chunk.
NextPage ==
  /\ index = "indexing"
  /\ ~InPage
  /\ page < MaxPages
  /\ text' \in Text
  /\ page' = page + 1
  /\ start' = 0
  /\ ordinal' = FirstOrdinal
  /\ UNCHANGED <<pending, index>>

\* One turn of its loop.
CutWindow ==
  /\ index = "indexing"
  /\ InPage
  /\ \E e \in start + 1 .. text.length, from, to \in start .. text.length :
       /\ IsEnd(e)
       /\ IsPlace(start, e, from, to)
       /\ pending' = pending \cup {Chunk(start, e, from, to)}
       /\ start' = IF e >= text.length THEN text.length ELSE NextStart(e)
  /\ ordinal' = ordinal + 1
  /\ UNCHANGED <<page, text, index>>

\* The flush of all rows, which the constraints accept or refuse as a whole.
Store ==
  /\ index = "indexing"
  /\ ~InPage
  /\ page > 0
  /\ index' = IF Clash THEN "refused" ELSE "ready"
  /\ UNCHANGED <<page, text, start, ordinal, pending>>

IndexNext == NextPage \/ CutWindow \/ Store

IndexSpec == Indexing /\ [][IndexNext]_indexVars

-----------------------------------------------------------------------------
(* Properties *)

IndexTypeOK ==
  /\ page \in 0 .. MaxPages
  /\ text \in Text
  /\ start \in 0 .. text.length
  /\ ordinal \in Nat
  /\ \A c \in pending :
       /\ c.page \in 1 .. page
       /\ c.ordinal \in Nat
       /\ c.source_start \in 0 .. MaxLength
       /\ c.source_end \in c.source_start .. MaxLength
  /\ index \in {"indexing", "ready", "refused"}

\* A passage no longer than the overlap and one is whole in some chunk once
\* its page is cut, wherever the windows end: on a gap, at the limit in the
\* middle of a word, or at the end.  The white space that strip takes from a
\* chunk is not part of a passage.
PassagesWhole ==
  ~InPage =>
    \A p, q \in 0 .. text.length :
      p < q /\ q - p <= Overlap + 1 /\ p \notin text.blank /\ q - 1 \notin text.blank =>
        \E c \in pending : c.page = page /\ c.source_start <= p /\ q <= c.source_end

\* An index is stored exactly when at most one page has text: the ordinals
\* start again on every page, and the table wants them unique in the index.
\* The chunks of one page never clash.
OnePageIndexes ==
  /\ index = "ready" => \A c, d \in pending : c.page = d.page
  /\ index = "refused" => \E c, d \in pending : c.page # d.page
=============================================================================
