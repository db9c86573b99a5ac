-------------------------- MODULE MetricsPipeline --------------------------
(***************************************************************************)
(* metrics/pipeline.go: producers (OTLP handlers and the scraper) push     *)
(* whole batches onto batchCh with TryPush; one writer goroutine moves     *)
(* them into a buffer and inserts the buffer in chunks of batchSize rows,  *)
(* keeping what a failed insert left.  Producers of the same pipeline as   *)
(* the log pipeline's handlers, but a batch enters and is stored in one    *)
(* order only, for there is one writer and no parser.  Where the code uses *)
(* a name of the log pipeline again, the name here says Metrics or m, so   *)
(* that PipelineProofs can extend both modules.                            *)
(***************************************************************************)
EXTENDS Integers, SequencesExt

CONSTANTS
    Batches,         \* row batches: one per OTLP request or scrape
    RowCount,        \* RowCount[b]: len(rows); may be 0
    BatchChanSize,   \* capacity of batchCh, in batches
    InsertSize,      \* rows per INSERT
    MaxBufferedRows  \* row budget of TryPush

ASSUME RowCountAssumption == RowCount \in [Batches -> Nat]
ASSUME MetricsBoundsAssumption ==
    /\ BatchChanSize \in Nat \ {0}
    /\ InsertSize \in Nat \ {0}
    /\ MaxBufferedRows \in Nat

VARIABLES
    push,         \* push[b]: where the producer of batch b is in TryPush
    bufferedRows, \* atomic counter: rows admitted to batchCh, not yet consumed
    batchCh,      \* accepted batches the writer has not received
    mWriter,      \* where the writer is in its loop; "full", "tick" and "drain"
                  \* are the three places tryFlush runs
    mBuf,         \* rows the writer holds
    mDb,          \* rows of metrics.db in insertion order
    mDropped,     \* rows given up at shutdown
    mShut         \* where Shutdown is

metricsVars == <<push, bufferedRows, batchCh, mWriter, mBuf, mDb, mDropped, mShut>>

MetricRows == Batches \X (Nat \ {0})
RowsOf(b) == [i \in 1..RowCount[b] |-> <<b, i>>]

mClosed       == mShut \notin {"up", "locking"}
batchChClosed == mShut \in {"writer", "down"}
Pushers       == {b \in Batches : push[b] \in {"checked", "reserved", "undo"}}

MetricsInit ==
    /\ push = [b \in Batches |-> "idle"]
    /\ bufferedRows = 0
    /\ batchCh = <<>>
    /\ mWriter = "loop"
    /\ mBuf = <<>>
    /\ mDb = <<>>
    /\ mDropped = <<>>
    /\ mShut = "up"

-----------------------------------------------------------------------------
(* TryPush *)

\* An empty batch is accepted before the lock is taken.
TryPushEmpty(b) ==
    /\ push[b] = "idle"
    /\ RowCount[b] = 0
    /\ push' = [push EXCEPT ![b] = "accepted"]
    /\ UNCHANGED <<bufferedRows, batchCh, mWriter, mBuf, mDb, mDropped, mShut>>

\* RLock (which waits while Shutdown is in Lock) and the closed check.
TryPushEnter(b) ==
    /\ push[b] = "idle"
    /\ RowCount[b] > 0
    /\ mShut # "locking"
    /\ push' = [push EXCEPT ![b] = IF mClosed THEN "refused" ELSE "checked"]
    /\ UNCHANGED <<bufferedRows, batchCh, mWriter, mBuf, mDb, mDropped, mShut>>

TryPushReserve(b) ==
    /\ push[b] = "checked"
    /\ bufferedRows' = bufferedRows + RowCount[b]
    /\ push' = [push EXCEPT ![b] = IF bufferedRows' > MaxBufferedRows
                                   THEN "undo" ELSE "reserved"]
    /\ UNCHANGED <<batchCh, mWriter, mBuf, mDb, mDropped, mShut>>

TryPushSend(b) ==
    /\ push[b] = "reserved"
    /\ \/ /\ Len(batchCh) < BatchChanSize
          /\ batchCh' = Append(batchCh, b)
          /\ push' = [push EXCEPT ![b] = "accepted"]
       \/ /\ Len(batchCh) >= BatchChanSize
          /\ push' = [push EXCEPT ![b] = "undo"]
          /\ UNCHANGED batchCh
    /\ UNCHANGED <<bufferedRows, mWriter, mBuf, mDb, mDropped, mShut>>

\* Variation of TryPushUndo: both failure branches give the rows back.
TryPushUndoTwice(b) ==
    /\ push[b] = "undo"
    /\ bufferedRows' = bufferedRows - 2 * RowCount[b]
    /\ push' = [push EXCEPT ![b] = "refused"]
    /\ UNCHANGED <<batchCh, mWriter, mBuf, mDb, mDropped, mShut>>

TryPushUndo(b) ==
    /\ push[b] = "undo"
    /\ bufferedRows' = bufferedRows - RowCount[b]
    /\ push' = [push EXCEPT ![b] = "refused"]
    /\ UNCHANGED <<batchCh, mWriter, mBuf, mDb, mDropped, mShut>>

\* The exporter retries a 429; a scrape that was refused is not sent again,
\* which is the case that this action is never taken.
ProducerRetry(b) ==
    /\ push[b] = "refused"
    /\ push' = [push EXCEPT ![b] = "idle"]
    /\ UNCHANGED <<bufferedRows, batchCh, mWriter, mBuf, mDb, mDropped, mShut>>

-----------------------------------------------------------------------------
(* writer *)

ReceiveBatch ==
    /\ mWriter = "loop"
    /\ Len(mBuf) < InsertSize
    /\ batchCh # <<>>
    /\ bufferedRows' = bufferedRows - RowCount[Head(batchCh)]
    /\ mBuf' = mBuf \o RowsOf(Head(batchCh))
    /\ batchCh' = Tail(batchCh)
    /\ UNCHANGED <<push, mWriter, mDb, mDropped, mShut>>

\* The three callers of tryFlush.
BeginFlush ==
    /\ mWriter = "loop"
    /\ \/ Len(mBuf) >= InsertSize /\ mWriter' = "full"
       \/ Len(mBuf) < InsertSize /\ mWriter' = "tick"
       \/ /\ Len(mBuf) < InsertSize /\ batchCh = <<>> /\ batchChClosed
          /\ mWriter' = "drain"
    /\ UNCHANGED <<push, bufferedRows, batchCh, mBuf, mDb, mDropped, mShut>>

\* Variation of FlushChunk: inserts a chunk and deletes the whole buffer.
FlushChunkDeletesAll ==
    LET n == IF Len(mBuf) < InsertSize THEN Len(mBuf) ELSE InsertSize
    IN  /\ mWriter \in {"full", "tick", "drain"}
        /\ mBuf # <<>>
        /\ mDb' = mDb \o SubSeq(mBuf, 1, n)
        /\ mBuf' = <<>>
        /\ UNCHANGED <<push, bufferedRows, batchCh, mWriter, mDropped, mShut>>

\* One turn of tryFlush's loop that succeeds: the first chunk is inserted.
FlushChunk ==
    LET n == IF Len(mBuf) < InsertSize THEN Len(mBuf) ELSE InsertSize
    IN  /\ mWriter \in {"full", "tick", "drain"}
        /\ mBuf # <<>>
        /\ mDb' = mDb \o SubSeq(mBuf, 1, n)
        /\ mBuf' = SubSeq(mBuf, n + 1, Len(mBuf))
        /\ UNCHANGED <<push, bufferedRows, batchCh, mWriter, mDropped, mShut>>

\* Variation of FlushReturn: rows of a failed insert are forgotten.
FlushReturnForgets ==
    /\ mWriter \in {"full", "tick", "drain"}
    /\ mWriter' = IF mWriter = "drain" THEN "exited" ELSE "loop"
    /\ mBuf' = <<>>
    /\ UNCHANGED <<push, bufferedRows, batchCh, mDb, mDropped, mShut>>

\* tryFlush returns, because the buffer is empty or an insert failed (any
\* insert may): a drain gives the rest up, a still full buffer backs off.
FlushReturn ==
    /\ mWriter \in {"full", "tick", "drain"}
    /\ mWriter' = CASE mWriter = "drain" -> "exited"
                   [] mWriter # "drain" /\ Len(mBuf) >= InsertSize -> "backoff"
                   [] OTHER -> "loop"
    /\ mDropped' = IF mWriter = "drain" THEN mBuf ELSE mDropped
    /\ mBuf' = IF mWriter = "drain" THEN <<>> ELSE mBuf
    /\ UNCHANGED <<push, bufferedRows, batchCh, mDb, mShut>>

WakeUp ==
    /\ mWriter = "backoff"
    /\ mWriter' = "loop"
    /\ UNCHANGED <<push, bufferedRows, batchCh, mBuf, mDb, mDropped, mShut>>

-----------------------------------------------------------------------------
(* Shutdown *)

MetricsShutdownBegin ==
    /\ mShut = "up"
    /\ mShut' = "locking"
    /\ UNCHANGED <<push, bufferedRows, batchCh, mWriter, mBuf, mDb, mDropped>>

MetricsShutdownLock ==
    /\ mShut = "locking"
    /\ Pushers = {}
    /\ mShut' = "closed"
    /\ UNCHANGED <<push, bufferedRows, batchCh, mWriter, mBuf, mDb, mDropped>>

MetricsShutdownCloseBatchCh ==
    /\ mShut = "closed"
    /\ mShut' = "writer"
    /\ UNCHANGED <<push, bufferedRows, batchCh, mWriter, mBuf, mDb, mDropped>>

MetricsShutdownDone ==
    /\ mShut = "writer"
    /\ mWriter = "exited"
    /\ mShut' = "down"
    /\ UNCHANGED <<push, bufferedRows, batchCh, mWriter, mBuf, mDb, mDropped>>

-----------------------------------------------------------------------------
TryPush(b) ==
    \/ TryPushEmpty(b) \/ TryPushEnter(b) \/ TryPushReserve(b)
    \/ TryPushSend(b) \/ TryPushUndo(b)

writerLoop ==
    ReceiveBatch \/ BeginFlush \/ FlushChunk \/ FlushReturn \/ WakeUp

MetricsShutdown ==
    MetricsShutdownLock \/ MetricsShutdownCloseBatchCh \/ MetricsShutdownDone

MetricsStopped == mShut = "down" /\ UNCHANGED metricsVars

MetricsNext ==
    \/ \E b \in Batches : TryPush(b) \/ ProducerRetry(b)
    \/ writerLoop
    \/ MetricsShutdownBegin
    \/ MetricsShutdown
    \/ MetricsStopped

MetricsSpec == MetricsInit /\ [][MetricsNext]_metricsVars

(***************************************************************************)
(* Producers, the writer and Shutdown keep running; the ticker is one of   *)
(* several ready cases of a select, so it and the receive are each taken   *)
(* again and again (SF); an insert that is retried for ever succeeds some  *)
(* time (SF).                                                              *)
(***************************************************************************)
MetricsFairness ==
    /\ \A b \in Batches : WF_metricsVars(TryPush(b))
    /\ WF_metricsVars(writerLoop)
    /\ SF_metricsVars(ReceiveBatch)
    /\ SF_metricsVars(mWriter \in {"full", "tick"} /\ FlushChunk)
    /\ SF_metricsVars(mWriter = "loop" /\ BeginFlush /\ mWriter' = "drain")
    /\ WF_metricsVars(MetricsShutdown)

MetricsFairSpec == MetricsSpec /\ MetricsFairness

-----------------------------------------------------------------------------
(* Properties *)

\* Every variable has a value of its type.
MetricsTypeOK ==
    /\ push \in [Batches -> {"idle", "checked", "reserved", "undo",
                             "accepted", "refused"}]
    /\ bufferedRows \in Int
    /\ batchCh \in Seq(Batches)
    /\ mWriter \in {"loop", "full", "tick", "drain", "backoff", "exited"}
    /\ mBuf \in Seq(MetricRows)
    /\ mDb \in Seq(MetricRows)
    /\ mDropped \in Seq(MetricRows)
    /\ mShut \in {"up", "locking", "closed", "writer", "down"}

\* No producer is about to send on the channel Shutdown has closed.
NoPushOnClosedChannel == batchChClosed => Pushers = {}

SumRows(S) == MapThenSumSet(LAMBDA b : RowCount[b], S)

Queued == {batchCh[i] : i \in DOMAIN batchCh}

\* bufferedRows is the rows of exactly the batches that are reserved, queued or
\* being rolled back: TryPush and the writer neither leak nor return rows twice.
RowsBalance ==
    bufferedRows = SumRows(Queued \cup {b \in Batches : push[b] \in {"reserved", "undo"}})

\* The memory bound of the two budgets together: the rows admitted to the queue
\* stay within maxBufferedRows and the writer's buffer within one batch beyond
\* batchSize, even while the database fails.
RowsBounded ==
    /\ SumRows(Queued \cup {b \in Batches : push[b] = "reserved"}) <= MaxBufferedRows
    /\ \A b \in Batches :
          (\A c \in Batches : RowCount[c] <= RowCount[b])
              => Len(mBuf) < InsertSize + RowCount[b]

\* Both halves of TryPush's row accounting: the counter is exact, and what it
\* admits is bounded.
RowBudget == RowsBalance /\ RowsBounded

\* The pipeline implements MetricsContract.
BatchContract == INSTANCE MetricsContract WITH
    log       <- mDb \o mDropped \o mBuf
                     \o FlattenSeq([i \in DOMAIN batchCh |-> RowsOf(batchCh[i])]),
    stored    <- mDb,
    abandoned <- mDropped # <<>>

\* Refinement: batches are stored whole and in the order they were accepted,
\* also when an insert fails between two chunks of one batch.
ImplementsMetricsContract == BatchContract!Spec

\* When Shutdown has returned, nothing is left between the producers and the
\* database, and the row budget is free again.
BatchesDrainedWhenDown ==
    mShut = "down" => batchCh = <<>> /\ mBuf = <<>> /\ bufferedRows = 0

\* The pipeline is consistent: no send on a closed channel, a row counter that is
\* exact and bounded on every path of TryPush, and nothing left behind by Shutdown.
MetricsInv == MetricsTypeOK /\ NoPushOnClosedChannel /\ RowBudget /\ BatchesDrainedWhenDown

\* An accepted batch is eventually stored or reported dropped, row by row.
AcceptedBatchIsStored ==
    \A b \in Batches :
        push[b] = "accepted" ~> {b} \X (1..RowCount[b]) \subseteq Range(mDb \o mDropped)
=============================================================================
