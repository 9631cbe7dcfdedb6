---------------------------- MODULE MCRegistration ----------------------------
(***************************************************************************)
(* Instances of Registration for TLC.                                      *)
(***************************************************************************)
EXTENDS Registration, TLC

CONSTANTS w1, w2

TwoWorkers == {w1, w2}
EveryCall == AllCalls
Symmetry == Permutations(TwoWorkers)
===============================================================================
