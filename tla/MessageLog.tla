----------------------------- MODULE MessageLog -----------------------------
(***************************************************************************)
(* What MessagesService promises of a conversation, whatever the archiver  *)
(* does: one log of messages, each numbered when it is created, to which   *)
(* messages are added at the end and never removed, and in which a message *)
(* that has been unsent stays unsent.                                      *)
(***************************************************************************)
EXTENDS Naturals

CONSTANT MaxMessages  \* bound: messages ever created

VARIABLE log  \* message id -> "sent" or "unsent"

Init == log = [i \in {} |-> "sent"]

Append ==
    \E n \in 1 .. MaxMessages :
        /\ DOMAIN log = 1 .. (n - 1)
        /\ log' = [i \in 1 .. n |-> IF i = n THEN "sent" ELSE log[i]]

Unsend ==
    \E i \in DOMAIN log : log' = [log EXCEPT ![i] = "unsent"]

Next == Append \/ Unsend

Spec == Init /\ [][Next]_log
=============================================================================
