------------------------ MODULE MCDocumentIngestion ------------------------
(* Instances of DocumentIngestion for TLC: the values of its constants. *)
EXTENDS DocumentIngestion

CONSTANTS s1, s2, d1, d2, d3, v1, v2

TwoSessions == {s1, s2}
OneDoc == {d1}
ThreeDocs == {d1, d2, d3}
TwoValues == {v1, v2}
\* The second document contradicts the others.
SecondDiffers == [d \in Docs |-> IF d = d2 THEN v2 ELSE v1]

OneSeeded == {d1}
NoneSeeded == {}
=============================================================================
