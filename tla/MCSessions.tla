---------------------------- MODULE MCSessions ----------------------------
(***************************************************************************)
(* Instances of Sessions for TLC.                                          *)
(***************************************************************************)
EXTENDS Sessions, TLC

CONSTANTS w1, w2, p1, p2

MCPasswords == {p1, p2}
TwoWorkers == {w1, w2}
EveryCall == AllCalls
Symmetry == Permutations(TwoWorkers) \union Permutations(MCPasswords)
===========================================================================
