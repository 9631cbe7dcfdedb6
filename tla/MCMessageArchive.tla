------------------------- MODULE MCMessageArchive -------------------------
(***************************************************************************)
(* Instances of MessageArchive for TLC.                                    *)
(***************************************************************************)
EXTENDS MessageArchive, TLC

CONSTANTS w1, w2, a1, a2

OneWorker == {w1}
TwoWorkers == {w1, w2}
OneArchiver == {a1}
TwoArchivers == {a1, a2}
Symmetry == Permutations(TwoWorkers) \union Permutations(TwoArchivers)

PageCalls == {"create", "unsend", "page", "search"}
ReplyCalls == {"create", "unsend", "page", "search"}
UpdateCalls == {"create", "edit", "deleteForMe", "pin", "unpin", "react"}
CreateCalls == {"create"}
=============================================================================
