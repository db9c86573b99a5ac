--------------------------- MODULE IngestContract ---------------------------
(***************************************************************************)
(* What log ingestion promises its clients, without channels, goroutines   *)
(* or batches: an accepted payload's lines enter one stream, each once and *)
(* in their order, and logs.db holds a growing prefix of that stream.  The *)
(* only way out is to abandon, once and for all, the part of the stream    *)
(* that is not stored: the drain of a shutdown whose last flush fails.     *)
(* LogPipeline implements this module.                                     *)
(***************************************************************************)
EXTENDS Integers, Sequences

CONSTANTS Payloads, LineCount

VARIABLES
    accepted,   \* payloads answered with 204
    stream,     \* rows in the order the parsers produced them
    stored,     \* rows of logs.db in insertion order
    abandoned   \* the rest of the stream was given up

vars == <<accepted, stream, stored, abandoned>>

InStream(r) == \E i \in 1..Len(stream) : stream[i] = r

Init ==
    /\ accepted = {}
    /\ stream = <<>>
    /\ stored = <<>>
    /\ abandoned = FALSE

Accept(p) ==
    /\ p \notin accepted
    /\ ~abandoned
    /\ accepted' = accepted \cup {p}
    /\ UNCHANGED <<stream, stored, abandoned>>

\* The next line of an accepted payload joins the stream.
Emit(p, k) ==
    /\ p \in accepted
    /\ ~abandoned
    /\ ~InStream(<<p, k>>)
    /\ \A m \in 1..(k - 1) : InStream(<<p, m>>)
    /\ stream' = Append(stream, <<p, k>>)
    /\ UNCHANGED <<accepted, stored, abandoned>>

\* A batch of the stream becomes durable.
Store(n) ==
    /\ ~abandoned
    /\ Len(stored) < n
    /\ stored' = SubSeq(stream, 1, n)
    /\ UNCHANGED <<accepted, stream, abandoned>>

Abandon ==
    /\ ~abandoned
    /\ Len(stored) < Len(stream)
    /\ abandoned' = TRUE
    /\ UNCHANGED <<accepted, stream, stored>>

Next ==
    \/ \E p \in Payloads : Accept(p) \/ \E k \in 1..LineCount[p] : Emit(p, k)
    \/ \E n \in 1..Len(stream) : Store(n)
    \/ Abandon

Spec == Init /\ [][Next]_vars
=============================================================================
