-------------------------- MODULE MetricsContract --------------------------
(***************************************************************************)
(* What the metrics pipeline promises its producers: the batches it accepts*)
(* form one log, in the order they were accepted and each in one piece;    *)
(* metrics.db holds a growing prefix of it, and at most once, when a final *)
(* flush fails, the rest of the log is abandoned.  MetricsPipeline         *)
(* implements this module.                                                 *)
(***************************************************************************)
EXTENDS Integers, Sequences

CONSTANTS Batches, RowCount

VARIABLES
    log,        \* rows of the accepted batches, in order of acceptance
    stored,     \* rows of metrics.db in insertion order
    abandoned   \* the rest of the log was given up

vars == <<log, stored, abandoned>>

\* The rows of batch b, in the order its producer wrote them.
RowsOf(b) == [i \in 1..RowCount[b] |-> <<b, i>>]

Init == log = <<>> /\ stored = <<>> /\ abandoned = FALSE

Accept(b) ==
    /\ ~abandoned
    /\ \A i \in DOMAIN log : log[i][1] # b
    /\ log' = log \o RowsOf(b)
    /\ UNCHANGED <<stored, abandoned>>

Store(n) ==
    /\ ~abandoned
    /\ Len(stored) < n
    /\ stored' = SubSeq(log, 1, n)
    /\ UNCHANGED <<log, abandoned>>

Abandon ==
    /\ ~abandoned
    /\ Len(stored) < Len(log)
    /\ abandoned' = TRUE
    /\ UNCHANGED <<log, stored>>

Next ==
    \/ \E b \in Batches : Accept(b)
    \/ \E n \in 1..Len(log) : Store(n)
    \/ Abandon

Spec == Init /\ [][Next]_vars
=============================================================================
