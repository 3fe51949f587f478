------------------------------ MODULE MCSignIn ------------------------------
(* An instance of SignIn for TLC: the values of its constants. *)
EXTENDS SignIn, TLC

CONSTANTS u1, u2, t1, t2, l1, c1, c2

TwoUsers == {u1, u2}
TwoTokens == {t1, t2}
OneLogin == {l1}
TwoCalls == {c1, c2}

Symmetry ==
  Permutations(Users) \cup Permutations(Tokens) \cup Permutations(Calls)
=============================================================================
