--------------------------- MODULE MCFriendship ---------------------------
(***************************************************************************)
(* Instances of Friendship for TLC: two accounts and two handlers in       *)
(* flight, and three row ids, which leave a free one for every insert.  An *)
(* instance lets the clients invoke only the operations its question is    *)
(* about.                                                                  *)
(***************************************************************************)
EXTENDS Friendship, TLC

CONSTANTS w1, w2, i1, i2, i3

MCAccounts == {1, 2}
MCIds == {i1, i2, i3}
TwoWorkers == {w1, w2}

RowCalls == AllCalls \ {"getFriends"}
CacheCalls == {"sendRequest", "respondToRequest", "removeFriend", "blockUser", "getFriends"}

Symmetry == Permutations(MCIds) \union Permutations(TwoWorkers)
=============================================================================
