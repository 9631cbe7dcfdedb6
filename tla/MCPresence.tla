----------------------------- MODULE MCPresence -----------------------------
(***************************************************************************)
(* Instances of Presence for TLC.                                          *)
(***************************************************************************)
EXTENDS Presence

CONSTANTS s1, s2, d1

TwoSockets == {s1, s2}
OneDevice == {d1}
=============================================================================
