----------------------------- MODULE MCLiveTail -----------------------------
(* Two streams of one session. *)
EXTENDS LiveTail
CONSTANTS c1, s1, s2
=============================================================================
