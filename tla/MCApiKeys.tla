------------------------------ MODULE MCApiKeys ------------------------------
(* Two secrets, so that an id can be handed out again, and two requests. *)
EXTENDS ApiKeys
CONSTANTS s1, s2, r1, r2, a1
=============================================================================
