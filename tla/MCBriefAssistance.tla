------------------------- MODULE MCBriefAssistance -------------------------
(* Instances of BriefAssistance for TLC: the values of its constants. *)
EXTENDS BriefAssistance

CONSTANTS s1, s2, k1, d1, d2

TwoSessions == {s1, s2}
OneKey == {k1}
TwoDocs == {d1, d2}
OneWrong == {d2}

Answer(cites, prohibited) == [cites |-> cites, prohibited |-> prohibited, review |-> FALSE]

\* One that may pass, one for each reason to be rejected, and one with a prohibited
\* phrase in a text that nobody looks through.
TypicalAnswers ==
  {Answer({d1}, {}), Answer({d1, d2}, {}), Answer({"invented"}, {}),
   Answer({d1}, {"limitations"}), Answer({d1}, {"conflicts"})}
=============================================================================
