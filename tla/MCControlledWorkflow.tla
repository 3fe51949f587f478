------------------------ MODULE MCControlledWorkflow ------------------------
(* Instances of ControlledWorkflow for TLC: the values of its constants. *)
EXTENDS ControlledWorkflow, TLC

CONSTANTS k1, k2, k3, s1, s2, d1, d2

OneSession == {s1}
TwoSessions == {s1, s2}
TwoKeys == {k1, k2}
ThreeKeys == {k1, k2, k3}
NoDocs == {}
OneDoc == {d1}
TwoDocs == {d1, d2}

Clean == {"answerable"}
CleanOrConflict == {"answerable", "conflicting_evidence"}

\* One terminal and one returning action.
TwoActions == {"acknowledge", "request_more_information"}

NoOtherTask == {FALSE}
MaybeOtherTask == BOOLEAN

SymmetrySessions == Permutations(Sessions) \cup Permutations(Keys)
=============================================================================
