------------------------- MODULE MCGroupMembership -------------------------
(***************************************************************************)
(* Instances of GroupMembership for TLC: three accounts, and two handlers  *)
(* in flight.                                                              *)
(***************************************************************************)
EXTENDS GroupMembership, TLC

CONSTANTS a1, a2, a3, w1, w2

MCAccounts == {a1, a2, a3}
TwoWorkers == {w1, w2}

EveryCall == AllCalls

Symmetry == Permutations(MCAccounts) \union Permutations(TwoWorkers)
=============================================================================
