--------------------------- MODULE MCLogPipeline ---------------------------
(* A small instance of LogPipeline for TLC. *)
EXTENDS LogPipeline, TLC
CONSTANTS p1, p2, p3, w1, w2

\* The three payloads exceed the budget of 4 bytes together, two of them never
\* do, and p3 is a payload of blank lines.
MCSize == p1 :> 2 @@ p2 :> 1 @@ p3 :> 2
MCLineCount == p1 :> 2 @@ p2 :> 2 @@ p3 :> 0
=============================================================================
