----------------------------- MODULE LogPipeline -----------------------------
(***************************************************************************)
(* The log ingestion path of ingestion/pipeline.go:                        *)
(*                                                                         *)
(*   HTTP handlers -> ingestChan -> parser workers -> parsedChan -> fan-out *)
(*     -> (broadcaster, batchInputChan) -> batch writer -> logs.db         *)
(*                                                                         *)
(* Every goroutine is a process whose steps are its accesses to shared     *)
(* state: the closeMu lock, the bufferedBytes counter, the three channels  *)
(* and the database.  A payload is a model value with a size in bytes and  *)
(* the number of lines parsePayload makes of it; a row is one such line.   *)
(***************************************************************************)
EXTENDS Integers, Sequences, FiniteSetsExt

CONSTANTS
    Payloads,          \* the POST /api/v1/logs bodies clients send
    Workers,           \* the parser goroutines (runtime.NumCPU() of them)
    Size,              \* Size[p]: len(payload)
    LineCount,         \* LineCount[p]: number of logs parsePayload returns
    IngestChanSize,    \* capacity of ingestChan
    ParsedChanSize,    \* capacity of parsedChan
    BatchInputChanSize,\* capacity of batchInputChan
    BatchSize,         \* rows that trigger a flush
    MaxBufferedBytes,  \* byte budget of TryIngest
    NoJob              \* a parser worker without a payload

ASSUME SizeAssumption == Size \in [Payloads -> Nat \ {0}]
ASSUME LineCountAssumption == LineCount \in [Payloads -> Nat]
ASSUME WorkersAssumption == Workers # {}
ASSUME NoJobAssumption == NoJob \notin Payloads
ASSUME BoundsAssumption ==
    /\ IngestChanSize \in Nat \ {0}
    /\ ParsedChanSize \in Nat \ {0}
    /\ BatchInputChanSize \in Nat \ {0}
    /\ BatchSize \in Nat \ {0}
    /\ MaxBufferedBytes \in Nat

VARIABLES
    req,           \* req[p]: where the handler of payload p is in TryIngest
    bufferedBytes, \* atomic counter: bytes admitted but not yet parsed
    ingestChan,    \* payloads waiting for a parser
    parser,        \* parser[w]: where worker w is in its loop
    job,           \* job[w]: the payload worker w is sending the lines of
    line,          \* line[w]: the next line of job[w] to send
    parsedChan,    \* rows waiting for the fan-out
    fan,           \* where the fan-out is in its loop
    hand,          \* the row the fan-out holds, a sequence of length <= 1
    batchInputChan,\* rows waiting for the batch writer
    writer,        \* where the batch writer is in its loop
    buf,           \* the batch writer's buffer
    armed,         \* TRUE iff the batch timer is running
    db,            \* rows of logs.db in insertion order
    dropped,       \* rows drain gave up at shutdown
    shut           \* where Shutdown is

handlerVars == <<req, bufferedBytes>>
parserVars  == <<parser, job, line>>
fanVars     == <<fan, hand>>
writerVars  == <<writer, buf, armed, db, dropped>>
vars == <<req, bufferedBytes, ingestChan, parser, job, line, parsedChan, fan,
          hand, batchInputChan, writer, buf, armed, db, dropped, shut>>

\* A row: the payload it comes from and its position among that payload's lines.
Rows == Payloads \X (Nat \ {0})

\* Handlers inside TryIngest's RLock ... RUnlock.
Readers == {p \in Payloads : req[p] \in {"checked", "reserved", "undo"}}

\* Progress of Shutdown: the flag and the three close calls, in program order.
closed         == shut \notin {"up", "locking"}
ingestClosed   == shut \in {"parsers", "fanout", "writer", "down"}
parsedClosed   == shut \in {"fanout", "writer", "down"}
batchClosed    == shut \in {"writer", "down"}
parsersExited  == \A w \in Workers : parser[w] = "exited"

Init ==
    /\ req = [p \in Payloads |-> "idle"]
    /\ bufferedBytes = 0
    /\ ingestChan = <<>>
    /\ parser = [w \in Workers |-> "receive"]
    /\ job = [w \in Workers |-> NoJob]
    /\ line = [w \in Workers |-> 1]
    /\ parsedChan = <<>>
    /\ fan = "receive"
    /\ hand = <<>>
    /\ batchInputChan = <<>>
    /\ writer = "loop"
    /\ buf = <<>>
    /\ armed = FALSE
    /\ db = <<>>
    /\ dropped = <<>>
    /\ shut = "up"

-----------------------------------------------------------------------------
(* TryIngest, called by the ingestLogs handler.                            *)

\* RLock and the closed check.  A sync.RWMutex lets no new reader in while a
\* writer waits, so RLock blocks while Shutdown is in Lock.
TryIngestEnter(p) ==
    /\ req[p] = "idle"
    /\ shut # "locking"
    /\ req' = [req EXCEPT ![p] = IF closed THEN "refused" ELSE "checked"]
    /\ UNCHANGED <<bufferedBytes, ingestChan, parserVars, parsedChan, fanVars,
                   batchInputChan, writerVars, shut>>

\* Variation of TryIngestReserve: compares the counter before adding to it.
TryIngestCheckThenAdd(p) ==
    /\ req[p] = "checked"
    /\ bufferedBytes' = bufferedBytes + Size[p]
    /\ req' = [req EXCEPT ![p] = IF bufferedBytes > MaxBufferedBytes
                                 THEN "undo" ELSE "reserved"]
    /\ UNCHANGED <<ingestChan, parserVars, parsedChan, fanVars,
                   batchInputChan, writerVars, shut>>

\* bufferedBytes.Add(n) and the comparison of its result with the budget.
TryIngestReserve(p) ==
    /\ req[p] = "checked"
    /\ bufferedBytes' = bufferedBytes + Size[p]
    /\ req' = [req EXCEPT ![p] = IF bufferedBytes' > MaxBufferedBytes
                                 THEN "undo" ELSE "reserved"]
    /\ UNCHANGED <<ingestChan, parserVars, parsedChan, fanVars,
                   batchInputChan, writerVars, shut>>

\* The non-blocking send; its default branch leaves the reservation to undo.
TryIngestSend(p) ==
    /\ req[p] = "reserved"
    /\ \/ /\ Len(ingestChan) < IngestChanSize
          /\ ingestChan' = Append(ingestChan, p)
          /\ req' = [req EXCEPT ![p] = "accepted"]
       \/ /\ Len(ingestChan) >= IngestChanSize
          /\ req' = [req EXCEPT ![p] = "undo"]
          /\ UNCHANGED ingestChan
    /\ UNCHANGED <<bufferedBytes, parserVars, parsedChan, fanVars,
                   batchInputChan, writerVars, shut>>

\* bufferedBytes.Add(-n) of both failure branches, then return false: 429.
TryIngestUndo(p) ==
    /\ req[p] = "undo"
    /\ bufferedBytes' = bufferedBytes - Size[p]
    /\ req' = [req EXCEPT ![p] = "refused"]
    /\ UNCHANGED <<ingestChan, parserVars, parsedChan, fanVars,
                   batchInputChan, writerVars, shut>>

\* The client (FluentBit) sends a refused payload again.
ClientRetry(p) ==
    /\ req[p] = "refused"
    /\ req' = [req EXCEPT ![p] = "idle"]
    /\ UNCHANGED <<bufferedBytes, ingestChan, parserVars, parsedChan, fanVars,
                   batchInputChan, writerVars, shut>>

-----------------------------------------------------------------------------
(* parserWorker *)

ParserReceive(w) ==
    /\ parser[w] = "receive"
    /\ ingestChan # <<>>
    /\ job' = [job EXCEPT ![w] = Head(ingestChan)]
    /\ line' = [line EXCEPT ![w] = 1]
    /\ parser' = [parser EXCEPT ![w] = "send"]
    /\ ingestChan' = Tail(ingestChan)
    /\ UNCHANGED <<handlerVars, parsedChan, fanVars, batchInputChan,
                   writerVars, shut>>

\* The blocking send of one parsed line.
ParserSend(w) ==
    /\ parser[w] = "send"
    /\ line[w] <= LineCount[job[w]]
    /\ Len(parsedChan) < ParsedChanSize
    /\ parsedChan' = Append(parsedChan, <<job[w], line[w]>>)
    /\ line' = [line EXCEPT ![w] = @ + 1]
    /\ UNCHANGED <<handlerVars, ingestChan, parser, job, fanVars,
                   batchInputChan, writerVars, shut>>

\* All lines sent: give the payload's bytes back to the budget.
ParserRelease(w) ==
    /\ parser[w] = "send"
    /\ line[w] > LineCount[job[w]]
    /\ bufferedBytes' = bufferedBytes - Size[job[w]]
    /\ parser' = [parser EXCEPT ![w] = "receive"]
    /\ job' = [job EXCEPT ![w] = NoJob]
    /\ line' = [line EXCEPT ![w] = 1]
    /\ UNCHANGED <<req, ingestChan, parsedChan, fanVars, batchInputChan,
                   writerVars, shut>>

\* Variation of ParserExit: leaves while payloads are still queued.
ParserExitEarly(w) ==
    /\ parser[w] = "receive"
    /\ ingestClosed
    /\ parser' = [parser EXCEPT ![w] = "exited"]
    /\ UNCHANGED <<handlerVars, ingestChan, job, line, parsedChan, fanVars,
                   batchInputChan, writerVars, shut>>

\* range over a closed, empty channel ends: parserWG.Done().
ParserExit(w) ==
    /\ parser[w] = "receive"
    /\ ingestChan = <<>>
    /\ ingestClosed
    /\ parser' = [parser EXCEPT ![w] = "exited"]
    /\ UNCHANGED <<handlerVars, ingestChan, job, line, parsedChan, fanVars,
                   batchInputChan, writerVars, shut>>

-----------------------------------------------------------------------------
(* fanout *)

FanoutReceive ==
    /\ fan = "receive"
    /\ parsedChan # <<>>
    /\ hand' = <<Head(parsedChan)>>
    /\ parsedChan' = Tail(parsedChan)
    /\ fan' = "broadcast"
    /\ UNCHANGED <<handlerVars, ingestChan, parserVars, batchInputChan,
                   writerVars, shut>>

\* broadcaster.broadcast(l): never blocks (module LiveTail models its inside).
FanoutBroadcast ==
    /\ fan = "broadcast"
    /\ fan' = "forward"
    /\ UNCHANGED <<handlerVars, ingestChan, parserVars, parsedChan, hand,
                   batchInputChan, writerVars, shut>>

\* The blocking send to the batch writer.
FanoutForward ==
    /\ fan = "forward"
    /\ Len(batchInputChan) < BatchInputChanSize
    /\ batchInputChan' = Append(batchInputChan, Head(hand))
    /\ hand' = <<>>
    /\ fan' = "receive"
    /\ UNCHANGED <<handlerVars, ingestChan, parserVars, parsedChan, writerVars,
                   shut>>

FanoutExit ==
    /\ fan = "receive"
    /\ parsedChan = <<>>
    /\ parsedClosed
    /\ fan' = "exited"
    /\ UNCHANGED <<handlerVars, ingestChan, parserVars, parsedChan, hand,
                   batchInputChan, writerVars, shut>>

-----------------------------------------------------------------------------
(* batchWriter.  ok is the outcome of the INSERT: one implicit transaction,*)
(* so either every row of buf is stored or none is, and buf is kept.       *)

\* Variation of tryFlush: a stored batch stays in the buffer.
tryFlushKeepsBuffer(ok) ==
    /\ db' = IF ok THEN db \o buf ELSE db
    /\ buf' = buf

\* Variation of tryFlush: a batch that could not be stored is forgotten.
tryFlushForgets(ok) ==
    /\ db' = IF ok THEN db \o buf ELSE db
    /\ buf' = <<>>

tryFlush(ok) ==
    /\ db' = IF ok THEN db \o buf ELSE db
    /\ buf' = IF ok THEN <<>> ELSE buf

\* A full buffer: flush, and on failure sleep without receiving.
WriterFull(ok) ==
    /\ writer = "loop"
    /\ Len(buf) >= BatchSize
    /\ tryFlush(ok)
    /\ writer' = IF ok THEN "loop" ELSE "backoff"
    /\ UNCHANGED <<handlerVars, ingestChan, parserVars, parsedChan, fanVars,
                   batchInputChan, armed, dropped, shut>>

WriterWake ==
    /\ writer = "backoff"
    /\ writer' = "loop"
    /\ UNCHANGED <<handlerVars, ingestChan, parserVars, parsedChan, fanVars,
                   batchInputChan, buf, armed, db, dropped, shut>>

\* Variation of WriterReceive: the first row does not start the timer.
WriterReceiveUnarmed ==
    /\ writer = "loop"
    /\ Len(buf) < BatchSize
    /\ batchInputChan # <<>>
    /\ buf' = Append(buf, Head(batchInputChan))
    /\ batchInputChan' = Tail(batchInputChan)
    /\ UNCHANGED <<handlerVars, ingestChan, parserVars, parsedChan, fanVars,
                   writer, armed, db, dropped, shut>>

\* Either receive of the loop: the first row of a batch starts the timer.
WriterReceive ==
    /\ writer = "loop"
    /\ Len(buf) < BatchSize
    /\ batchInputChan # <<>>
    /\ buf' = Append(buf, Head(batchInputChan))
    /\ batchInputChan' = Tail(batchInputChan)
    /\ armed' = TRUE
    /\ UNCHANGED <<handlerVars, ingestChan, parserVars, parsedChan, fanVars,
                   writer, db, dropped, shut>>

\* The timer fires: flush; rows left over (or not) decide if it runs again.
WriterTimer(ok) ==
    /\ writer = "loop"
    /\ Len(buf) < BatchSize
    /\ armed
    /\ tryFlush(ok)
    /\ armed' = (buf' # <<>>)
    /\ UNCHANGED <<handlerVars, ingestChan, parserVars, parsedChan, fanVars,
                   batchInputChan, writer, dropped, shut>>

\* Variation of WriterDrain: keeps trying instead of giving the rows up.
WriterDrainRetries(ok) ==
    /\ writer = "loop"
    /\ Len(buf) < BatchSize
    /\ batchInputChan = <<>>
    /\ batchClosed
    /\ tryFlush(ok)
    /\ writer' = IF ok THEN "exited" ELSE "backoff"
    /\ UNCHANGED <<handlerVars, ingestChan, parserVars, parsedChan, fanVars,
                   batchInputChan, armed, dropped, shut>>

\* drain: one last flush, after which the remaining rows are given up.
WriterDrain(ok) ==
    /\ writer = "loop"
    /\ Len(buf) < BatchSize
    /\ batchInputChan = <<>>
    /\ batchClosed
    /\ db' = IF ok THEN db \o buf ELSE db
    /\ dropped' = IF ok THEN <<>> ELSE buf
    /\ buf' = <<>>
    /\ writer' = "exited"
    /\ UNCHANGED <<handlerVars, ingestChan, parserVars, parsedChan, fanVars,
                   batchInputChan, armed, shut>>

-----------------------------------------------------------------------------
(* Shutdown *)

ShutdownBegin ==
    /\ shut = "up"
    /\ shut' = "locking"
    /\ UNCHANGED <<handlerVars, ingestChan, parserVars, parsedChan, fanVars,
                   batchInputChan, writerVars>>

\* Variation of ShutdownLock: sets the flag without waiting for the readers.
ShutdownFlagOnly ==
    /\ shut = "locking"
    /\ shut' = "closed"
    /\ UNCHANGED <<handlerVars, ingestChan, parserVars, parsedChan, fanVars,
                   batchInputChan, writerVars>>

\* Lock waits for the readers; closed = true; Unlock.
ShutdownLock ==
    /\ shut = "locking"
    /\ Readers = {}
    /\ shut' = "closed"
    /\ UNCHANGED <<handlerVars, ingestChan, parserVars, parsedChan, fanVars,
                   batchInputChan, writerVars>>

ShutdownCloseIngest ==
    /\ shut = "closed"
    /\ shut' = "parsers"
    /\ UNCHANGED <<handlerVars, ingestChan, parserVars, parsedChan, fanVars,
                   batchInputChan, writerVars>>

\* parserWG.Wait(); close(parsedChan)
ShutdownCloseParsed ==
    /\ shut = "parsers"
    /\ parsersExited
    /\ shut' = "fanout"
    /\ UNCHANGED <<handlerVars, ingestChan, parserVars, parsedChan, fanVars,
                   batchInputChan, writerVars>>

\* fanoutWG.Wait(); close(batchInputChan)
ShutdownCloseBatch ==
    /\ shut = "fanout"
    /\ fan = "exited"
    /\ shut' = "writer"
    /\ UNCHANGED <<handlerVars, ingestChan, parserVars, parsedChan, fanVars,
                   batchInputChan, writerVars>>

\* Variation of ShutdownDone: returns without waiting for the writer.
ShutdownDoneEarly ==
    /\ shut = "writer"
    /\ shut' = "down"
    /\ UNCHANGED <<handlerVars, ingestChan, parserVars, parsedChan, fanVars,
                   batchInputChan, writerVars>>

\* writerWG.Wait()
ShutdownDone ==
    /\ shut = "writer"
    /\ writer = "exited"
    /\ shut' = "down"
    /\ UNCHANGED <<handlerVars, ingestChan, parserVars, parsedChan, fanVars,
                   batchInputChan, writerVars>>

-----------------------------------------------------------------------------
Handler(p) ==
    \/ TryIngestEnter(p) \/ TryIngestReserve(p)
    \/ TryIngestSend(p)  \/ TryIngestUndo(p)

parserWorker(w) ==
    ParserReceive(w) \/ ParserSend(w) \/ ParserRelease(w) \/ ParserExit(w)

fanout == FanoutReceive \/ FanoutBroadcast \/ FanoutForward \/ FanoutExit

batchWriter ==
    \/ \E ok \in BOOLEAN : WriterFull(ok) \/ WriterTimer(ok) \/ WriterDrain(ok)
    \/ WriterWake
    \/ WriterReceive

Shutdown ==
    \/ ShutdownLock \/ ShutdownCloseIngest \/ ShutdownCloseParsed
    \/ ShutdownCloseBatch \/ ShutdownDone

\* The pipeline has stopped for good: the process goes on to exit.
Stopped == shut = "down" /\ UNCHANGED vars

Next ==
    \/ \E p \in Payloads : Handler(p) \/ ClientRetry(p)
    \/ \E w \in Workers : parserWorker(w)
    \/ fanout
    \/ batchWriter
    \/ ShutdownBegin
    \/ Shutdown
    \/ Stopped

Spec == Init /\ [][Next]_vars

(***************************************************************************)
(* Every goroutine of the pipeline is scheduled again and again (WF).  The *)
(* database does not fail for ever: a flush that is retried without end    *)
(* succeeds some time (SF).  Clients need not retry, nobody need shut down.*)
(***************************************************************************)
Fairness ==
    /\ \A p \in Payloads : WF_vars(Handler(p))
    /\ \A w \in Workers : WF_vars(parserWorker(w))
    /\ WF_vars(fanout)
    /\ WF_vars(batchWriter)
    /\ SF_vars(WriterFull(TRUE))
    /\ SF_vars(WriterTimer(TRUE))
    /\ WF_vars(Shutdown)

FairSpec == Spec /\ Fairness

-----------------------------------------------------------------------------
(* Properties *)

\* Every variable holds a value of its type, and the writer's buffer never
\* exceeds one batch (batchWriter stops receiving at batchSize).
TypeOK ==
    /\ req \in [Payloads -> {"idle", "checked", "reserved", "undo",
                             "accepted", "refused"}]
    /\ bufferedBytes \in Int
    /\ ingestChan \in Seq(Payloads)
    /\ parser \in [Workers -> {"receive", "send", "exited"}]
    /\ job \in [Workers -> Payloads \cup {NoJob}]
    /\ line \in [Workers -> Nat \ {0}]
    /\ parsedChan \in Seq(Rows)
    /\ fan \in {"receive", "broadcast", "forward", "exited"}
    /\ hand \in Seq(Rows)
    /\ batchInputChan \in Seq(Rows)
    /\ writer \in {"loop", "backoff", "exited"}
    /\ buf \in Seq(Rows) /\ Len(buf) <= BatchSize
    /\ armed \in BOOLEAN
    /\ db \in Seq(Rows)
    /\ dropped \in Seq(Rows)
    /\ shut \in {"up", "locking", "closed", "parsers", "fanout", "writer", "down"}

\* A parser holds a payload exactly while it sends its lines, and the fan-out a
\* row exactly between its receive and its send.
HandsMatchSteps ==
    /\ \A w \in Workers : parser[w] = "send" <=> job[w] # NoJob
    /\ fan \in {"broadcast", "forward"} => Len(hand) = 1
    /\ fan \in {"receive", "exited"} => hand = <<>>

\* No goroutine is about to send on a channel Shutdown has closed (Go panics
\* there): a handler past its closed check, a parser or the fan-out still
\* running would be.
NoSendOnClosedChannel ==
    /\ ingestClosed => Readers = {}
    /\ parsedClosed => parsersExited
    /\ batchClosed  => fan = "exited"

\* A stage that has exited will never be given work again: what it reads from
\* is closed and empty, and rows are dropped only by the exited writer.
ExitedMeansDrained ==
    /\ closed => Readers = {}
    /\ \A w \in Workers : parser[w] = "exited" => ingestClosed /\ ingestChan = <<>>
    /\ fan = "exited" => parsersExited /\ parsedClosed /\ parsedChan = <<>>
    /\ writer = "exited" =>
          /\ batchClosed /\ fan = "exited"
          /\ batchInputChan = <<>> /\ buf = <<>>
    /\ dropped # <<>> => writer = "exited"
    /\ shut = "down" => writer = "exited"

Elements(s) == {s[i] : i \in DOMAIN s}

SumSize(S) == MapThenSumSet(LAMBDA p : Size[p], S)

\* Payloads whose bytes TryIngest admitted and no parser has released yet.
Admitted ==
    {p \in Payloads : req[p] = "reserved"} \cup Elements(ingestChan)
        \cup {job[w] : w \in {v \in Workers : job[v] # NoJob}}

\* bufferedBytes is exactly the bytes of the payloads that hold a reservation:
\* no failure path of TryIngest and no parser leaks or returns bytes twice.
BytesBalance ==
    bufferedBytes =
        SumSize(Admitted \cup {p \in Payloads : req[p] = "undo"})

\* The 256 MiB budget bounds what is really buffered, although handlers add to
\* the counter before they compare it and take their excess back later.
AdmittedWithinBudget == SumSize(Admitted) <= MaxBufferedBytes

\* Both halves of TryIngest's byte accounting: the counter is exact, and what it
\* admits stays within the budget.
ByteBudget == BytesBalance /\ AdmittedWithinBudget

\* Everything the parsers have sent, oldest first: what is stored, what was
\* dropped, and what is on its way through the writer and the fan-out.
Stream == db \o dropped \o buf \o batchInputChan \o hand \o parsedChan

\* The lines of one payload travel the pipeline in their order in the payload
\* and none is duplicated, whatever the parsers and failed flushes interleave.
LinesInOrder ==
    \A i, j \in DOMAIN Stream :
        i < j /\ Stream[i][1] = Stream[j][1] => Stream[i][2] < Stream[j][2]

\* A payload is held by one place of the queue or by one parser, never by two,
\* and only after its handler answered that it was accepted.
OneHolder ==
    /\ \A i, j \in DOMAIN ingestChan : ingestChan[i] = ingestChan[j] => i = j
    /\ \A i \in DOMAIN ingestChan :
          /\ req[ingestChan[i]] = "accepted"
          /\ \A w \in Workers : job[w] # ingestChan[i]
    /\ \A w \in Workers : job[w] # NoJob => req[job[w]] = "accepted"
    /\ \A v, w \in Workers : job[v] = job[w] /\ job[v] # NoJob => v = w

\* The stream runs exactly up to the line each parser is at: nothing of a queued
\* payload, the lines before line[w] of a parser's payload and none after.
StreamFollowsParsers ==
    /\ \A i \in DOMAIN Stream :
          /\ req[Stream[i][1]] = "accepted"
          /\ \A j \in DOMAIN ingestChan : ingestChan[j] # Stream[i][1]
          /\ \A w \in Workers : job[w] = Stream[i][1] => Stream[i][2] < line[w]
    /\ \A w \in Workers : job[w] # NoJob =>
          \A m \in 1..(line[w] - 1) : \E i \in DOMAIN Stream : Stream[i] = <<job[w], m>>

\* The inductive invariant: types, who holds what, which stages may have exited,
\* how far the stream has come, and that each payload's lines travel in order.
PipelineInv ==
    /\ TypeOK
    /\ HandsMatchSteps
    /\ ExitedMeansDrained
    /\ OneHolder
    /\ StreamFollowsParsers
    /\ LinesInOrder

\* No row of an accepted payload disappears on the way: line k is stored (or
\* dropped) only after lines 1..k-1, and a payload no queue or parser holds any
\* more has all its lines in the stream.
NoLineLost ==
    \A p \in Payloads :
        LET sent == {k \in 1..LineCount[p] : <<p, k>> \in Elements(Stream)}
        IN  /\ \A k \in sent : \A m \in 1..k : m \in sent
            /\ req[p] = "accepted" /\ p \notin Admitted
                   => sent = 1..LineCount[p]

\* Once Shutdown has returned nothing is left inside the pipeline: every row of
\* every accepted payload is in logs.db or was reported as dropped.
DrainedWhenDown ==
    shut = "down" =>
        /\ Admitted = {}
        /\ Stream = db \o dropped

\* The pipeline implements IngestContract: each step of a goroutine either
\* leaves the contract's state alone or is one of its steps.
Contract == INSTANCE IngestContract WITH
    accepted  <- {p \in Payloads : req[p] = "accepted"},
    stream    <- Stream,
    stored    <- db,
    abandoned <- dropped # <<>>

\* Refinement: accepted lines are stored once, in order, as a growing prefix of
\* the stream, and only the drain of a shutdown gives rows up.
ImplementsContract == Contract!Spec

\* An accepted payload (204) is eventually stored completely, or its missing
\* rows were reported dropped by a shutdown.
AcceptedIsStored ==
    \A p \in Payloads :
        req[p] = "accepted"
            ~> {p} \X (1..LineCount[p]) \subseteq Elements(db \o dropped)

\* Shutdown terminates once called: no stage waits for another in a circle.
ShutdownCompletes == shut = "locking" ~> shut = "down"
=============================================================================
