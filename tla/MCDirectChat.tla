---------------------------- MODULE MCDirectChat ----------------------------
(***************************************************************************)
(* Instances of DirectChat for TLC.                                        *)
(***************************************************************************)
EXTENDS DirectChat, TLC

CONSTANTS w1, w2

TwoAccounts == {"a", "b"}
TwoWorkers == {w1, w2}
EveryCall == AllCalls
Symmetry == Permutations(TwoWorkers)
=============================================================================
