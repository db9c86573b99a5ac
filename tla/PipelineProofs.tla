------------------------- MODULE PipelineProofs -------------------------
(***************************************************************************)
(* Theorems about the two ingestion pipelines, LogPipeline and             *)
(* MetricsPipeline, proved for all values of their constants.  The lemmas  *)
(* on sums and balanced counters serve both.                               *)
(***************************************************************************)
EXTENDS LogPipeline, MetricsPipeline, SequenceTheorems, FiniteSetTheorems,
        WellFoundedInduction, NaturalsInduction, TLAPS

-----------------------------------------------------------------------------
(* Sequences *)

\* Appending an element of S keeps a sequence a sequence over S.
LEMMA AppendType == ASSUME NEW S, NEW s \in Seq(S), NEW e \in S
                    PROVE  Append(s, e) \in Seq(S)
OBVIOUS

\* The head and the tail of a non-empty sequence over S have their types.
LEMMA HeadTailType == ASSUME NEW S, NEW s \in Seq(S), s # <<>>
                      PROVE  Head(s) \in S /\ Tail(s) \in Seq(S)
OBVIOUS

\* A sequence of length zero is the empty sequence.
LEMMA LenZero == ASSUME NEW S, NEW s \in Seq(S), Len(s) = 0
                 PROVE  s = <<>>
BY EmptySeq, SeqEqual

\* Moving the head of b to the end of a does not change a \o b.
LEMMA MoveHead == ASSUME NEW S, NEW a \in Seq(S), NEW b \in Seq(S), b # <<>>
                  PROVE  Append(a, Head(b)) \o Tail(b) = a \o b
<1>1. Head(b) \in S /\ Tail(b) \in Seq(S) /\ Append(a, Head(b)) \in Seq(S)
  BY HeadTailType, AppendType
<1>2. Len(Append(a, Head(b)) \o Tail(b)) = Len(a \o b)
  BY <1>1
<1>3. ASSUME NEW i \in 1..Len(a \o b)
      PROVE (Append(a, Head(b)) \o Tail(b))[i] = (a \o b)[i]
  BY <1>1
<1> QED BY <1>1, <1>2, <1>3, SeqEqual

\* A non-empty sequence is its head followed by its tail.
LEMMA HeadTail == ASSUME NEW S, NEW b \in Seq(S), b # <<>>
                  PROVE  <<Head(b)>> \o Tail(b) = b
<1>1. Head(b) \in S /\ Tail(b) \in Seq(S) /\ <<Head(b)>> \in Seq(S)
  BY HeadTailType
<1>2. Len(<<Head(b)>> \o Tail(b)) = Len(b)
  BY <1>1
<1>3. ASSUME NEW i \in 1..Len(b)
      PROVE (<<Head(b)>> \o Tail(b))[i] = b[i]
  BY <1>1
<1> QED BY <1>1, <1>2, <1>3, SeqEqual

\* Appending to the right part of a concatenation appends to the whole.
LEMMA AppendConcat ==
    ASSUME NEW S, NEW a \in Seq(S), NEW b \in Seq(S), NEW e \in S
    PROVE  a \o Append(b, e) = Append(a \o b, e)
<1>1. Append(b,e) \in Seq(S) /\ a \o b \in Seq(S) /\ Append(a \o b, e) \in Seq(S)
  BY  AppendType
<1>2. Len(a \o Append(b, e)) = Len(Append(a \o b, e))
  BY <1>1
<1>3. ASSUME NEW i \in 1..Len(a \o Append(b, e))
      PROVE (a \o Append(b, e))[i] = (Append(a \o b, e))[i]
  BY <1>1
<1> QED BY <1>1, <1>2, <1>3, SeqEqual

\* Concatenation of rows is associative.
LEMMA ConcatAssoc ==
    \A a, b, c \in Seq(Rows) : (a \o b) \o c = a \o (b \o c)
BY ConcatAssociative

\* Three ways rows move between two neighbours of a concatenation: from the
\* second to the end of the first, ...
LEMMA MoveMiddle ==
    \A x, a, b \in Seq(Rows) :
        b # <<>> => (x \o Append(a, Head(b))) \o Tail(b) = (x \o a) \o b
<1> TAKE x, a, b \in Seq(Rows)
<1> HAVE b # <<>>
<1>1. Append(a, Head(b)) \in Seq(Rows) /\ Tail(b) \in Seq(Rows)
  BY HeadTailType, AppendType
<1>2. (x \o Append(a, Head(b))) \o Tail(b) = x \o (Append(a, Head(b)) \o Tail(b))
  BY <1>1, ConcatAssoc, Zenon
<1>3. (x \o a) \o b = x \o (a \o b)
  BY ConcatAssoc, Zenon
<1> QED BY <1>2, <1>3, MoveHead

\* ... from a second of length one, ...
LEMMA MoveOnly ==
    \A x, a, b \in Seq(Rows) :
        Len(b) = 1 => (x \o Append(a, Head(b))) \o <<>> = (x \o a) \o b
<1> TAKE x, a, b \in Seq(Rows)
<1> HAVE Len(b) = 1
<1>1. b # <<>> /\ Len(Tail(b)) = 0 /\ Tail(b) \in Seq(Rows)
  OBVIOUS
<1>2. Tail(b) = <<>>
  BY <1>1, LenZero
<1>3. (x \o Append(a, Head(b))) \o Tail(b) = (x \o a) \o b
  BY <1>1, MoveMiddle, Zenon
<1> QED BY <1>2, <1>3, Zenon

\* ... and into an empty first.
LEMMA MoveIntoEmpty ==
    \A x, b \in Seq(Rows) :
        b # <<>> => (x \o <<Head(b)>>) \o Tail(b) = (x \o <<>>) \o b
<1> TAKE x, b \in Seq(Rows)
<1> HAVE b # <<>>
<1>1. <<Head(b)>> \in Seq(Rows) /\ Tail(b) \in Seq(Rows)
  BY HeadTailType
<1>2. (x \o <<Head(b)>>) \o Tail(b) = x \o (<<Head(b)>> \o Tail(b))
  BY <1>1, ConcatAssoc, Zenon
<1>3. x \o <<>> = x
  BY ConcatEmptySeq
<1>4. <<Head(b)>> \o Tail(b) = b
  BY HeadTail
<1> QED BY <1>2, <1>3, <1>4, Zenon

\* AppendConcat for sequences of rows, in the form Zenon can instantiate.
LEMMA AppendLast ==
    \A a, b \in Seq(Rows), e \in Rows : a \o Append(b, e) = Append(a \o b, e)
BY AppendConcat

-----------------------------------------------------------------------------
(* Type correctness.  TypeOK is not inductive alone: that a parser about to *)
(* send holds a payload, and the fan-out a row, is HandsMatchSteps.         *)

\* TryIngest and the client's retry preserve the types.
LEMMA HandlerTypes ==
    ASSUME NEW p \in Payloads, TypeOK, HandsMatchSteps,
           Handler(p) \/ ClientRetry(p)
    PROVE  TypeOK' /\ HandsMatchSteps'
<1> USE DEF handlerVars, parserVars, fanVars, writerVars
<1>1. CASE TryIngestEnter(p)
  BY <1>1 DEF TypeOK, HandsMatchSteps, TryIngestEnter
<1>2. CASE TryIngestReserve(p)
  BY <1>2, SizeAssumption DEF TypeOK, HandsMatchSteps, TryIngestReserve
<1>3. CASE TryIngestSend(p)
  <2>1. ingestChan \in Seq(Payloads)
    BY DEF TypeOK
  <2>2. ingestChan' \in Seq(Payloads)
    BY <1>3, <2>1 DEF TryIngestSend
  <2>3. req' \in [Payloads -> {"idle", "checked", "reserved", "undo",
                               "accepted", "refused"}]
    BY <1>3 DEF TypeOK, TryIngestSend
  <2> QED BY <1>3, <2>2, <2>3 DEF TypeOK, HandsMatchSteps, TryIngestSend
<1>4. CASE TryIngestUndo(p)
  BY <1>4, SizeAssumption DEF TypeOK, HandsMatchSteps, TryIngestUndo
<1>5. CASE ClientRetry(p)
  BY <1>5 DEF TypeOK, HandsMatchSteps, ClientRetry
<1> QED BY <1>1, <1>2, <1>3, <1>4, <1>5 DEF Handler

\* The steps of a parser worker preserve the types.
LEMMA ParserTypes ==
    ASSUME NEW w \in Workers, TypeOK, HandsMatchSteps, parserWorker(w)
    PROVE  TypeOK' /\ HandsMatchSteps'
<1> USE DEF handlerVars, parserVars, fanVars, writerVars
<1>1. CASE ParserReceive(w)
  <2>1. Head(ingestChan) \in Payloads /\ ingestChan' \in Seq(Payloads)
    BY <1>1, HeadTailType DEF TypeOK, ParserReceive
  <2> QED BY <1>1, <2>1, NoJobAssumption
          DEF TypeOK, HandsMatchSteps, ParserReceive
<1>2. CASE ParserSend(w)
  <2>1. job[w] \in Payloads /\ line[w] \in Nat \ {0}
    BY <1>2 DEF TypeOK, HandsMatchSteps, ParserSend
  <2>2. <<job[w], line[w]>> \in Rows
    BY <2>1 DEF Rows
  <2>3. parsedChan' \in Seq(Rows)
    BY <1>2, <2>2, AppendType DEF TypeOK, ParserSend
  <2>4. line' \in [Workers -> Nat \ {0}]
    BY <1>2, <2>1 DEF TypeOK, ParserSend
  <2> QED BY <1>2, <2>3, <2>4 DEF TypeOK, HandsMatchSteps, ParserSend
<1>3. CASE ParserRelease(w)
  <2>1. bufferedBytes' \in Int
    BY <1>3, SizeAssumption DEF TypeOK, HandsMatchSteps, ParserRelease
  <2> QED BY <1>3, <2>1 DEF TypeOK, HandsMatchSteps, ParserRelease
<1>4. CASE ParserExit(w)
  BY <1>4 DEF TypeOK, HandsMatchSteps, ParserExit
<1> QED BY <1>1, <1>2, <1>3, <1>4 DEF parserWorker

\* The steps of the fan-out preserve the types.
LEMMA FanoutTypes ==
    ASSUME TypeOK, HandsMatchSteps, fanout
    PROVE  TypeOK' /\ HandsMatchSteps'
<1> USE DEF handlerVars, parserVars, fanVars, writerVars
<1>1. CASE FanoutReceive
  <2>1. Head(parsedChan) \in Rows /\ parsedChan' \in Seq(Rows)
    BY <1>1, HeadTailType DEF TypeOK, FanoutReceive
  <2>2. hand' \in Seq(Rows) /\ Len(hand') = 1
    BY <1>1, <2>1 DEF FanoutReceive
  <2> QED BY <1>1, <2>1, <2>2 DEF TypeOK, HandsMatchSteps, FanoutReceive
<1>2. CASE FanoutBroadcast
  BY <1>2 DEF TypeOK, HandsMatchSteps, FanoutBroadcast
<1>3. CASE FanoutForward
  <2>0. hand \in Seq(Rows) /\ Len(hand) = 1
    BY <1>3 DEF TypeOK, HandsMatchSteps, FanoutForward
  <2>1. Head(hand) \in Rows
    BY <2>0, HeadTailType
  <2>2. batchInputChan' \in Seq(Rows)
    BY <1>3, <2>1, AppendType DEF TypeOK, FanoutForward
  <2>3. hand' \in Seq(Rows)
    BY <1>3 DEF FanoutForward
  <2> QED BY <1>3, <2>2, <2>3 DEF TypeOK, HandsMatchSteps, FanoutForward
<1>4. CASE FanoutExit
  BY <1>4 DEF TypeOK, HandsMatchSteps, FanoutExit
<1> QED BY <1>1, <1>2, <1>3, <1>4 DEF fanout

\* The steps of the batch writer preserve the types.
LEMMA WriterTypes ==
    ASSUME TypeOK, HandsMatchSteps, batchWriter
    PROVE  TypeOK' /\ HandsMatchSteps'
<1> USE BoundsAssumption DEF handlerVars, parserVars, fanVars, writerVars
<1>1. ASSUME NEW ok \in BOOLEAN, tryFlush(ok)
      PROVE  db' \in Seq(Rows) /\ buf' \in Seq(Rows) /\ Len(buf') <= BatchSize
  BY <1>1 DEF TypeOK, tryFlush
<1>2. ASSUME NEW ok \in BOOLEAN, WriterFull(ok)
      PROVE  TypeOK' /\ HandsMatchSteps'
  BY <1>1, <1>2 DEF TypeOK, HandsMatchSteps, WriterFull
<1>3. ASSUME NEW ok \in BOOLEAN, WriterTimer(ok)
      PROVE  TypeOK' /\ HandsMatchSteps'
  <2>1. armed' \in BOOLEAN
    BY <1>3 DEF WriterTimer
  <2> QED BY <1>1, <1>3, <2>1 DEF TypeOK, HandsMatchSteps, WriterTimer
<1>4. ASSUME NEW ok \in BOOLEAN, WriterDrain(ok)
      PROVE  TypeOK' /\ HandsMatchSteps'
  <2>1. /\ db' \in Seq(Rows) /\ dropped' \in Seq(Rows)
        /\ buf' \in Seq(Rows) /\ Len(buf') <= BatchSize
    BY <1>4 DEF TypeOK, WriterDrain
  <2> QED BY <1>4, <2>1 DEF TypeOK, HandsMatchSteps, WriterDrain
<1>5. CASE WriterWake
  BY <1>5 DEF TypeOK, HandsMatchSteps, WriterWake
<1>6. CASE WriterReceive
  <2>1. Head(batchInputChan) \in Rows /\ batchInputChan' \in Seq(Rows)
    BY <1>6, HeadTailType DEF TypeOK, WriterReceive
  <2>2. buf' \in Seq(Rows) /\ Len(buf') <= BatchSize
    BY <1>6, <2>1 DEF TypeOK, WriterReceive
  <2>3. armed' \in BOOLEAN
    BY <1>6 DEF WriterReceive
  <2> QED BY <1>6, <2>1, <2>2, <2>3 DEF TypeOK, HandsMatchSteps, WriterReceive
<1> QED BY <1>2, <1>3, <1>4, <1>5, <1>6 DEF batchWriter

\* The steps of Shutdown preserve the types.
LEMMA ShutdownTypes ==
    ASSUME TypeOK, HandsMatchSteps, ShutdownBegin \/ Shutdown
    PROVE  TypeOK' /\ HandsMatchSteps'
BY DEF TypeOK, HandsMatchSteps, ShutdownBegin, Shutdown, ShutdownLock,
       ShutdownCloseIngest, ShutdownCloseParsed, ShutdownCloseBatch,
       ShutdownDone, handlerVars, parserVars, fanVars, writerVars

\* The state NewPipeline builds is well typed.
LEMMA InitTypes == Init => TypeOK /\ HandsMatchSteps
<1> SUFFICES ASSUME Init PROVE TypeOK /\ HandsMatchSteps
  OBVIOUS
<1>1. buf \in Seq(Rows) /\ Len(buf) <= BatchSize
  BY BoundsAssumption DEF Init
<1>2. armed \in BOOLEAN
  BY DEF Init
<1>3. job \in [Workers -> Payloads \cup {NoJob}] /\ line \in [Workers -> Nat \ {0}]
  BY DEF Init
<1>4. HandsMatchSteps
  BY DEF Init, HandsMatchSteps
<1> QED BY <1>1, <1>2, <1>3, <1>4 DEF Init, TypeOK

\* Every step of every goroutine keeps every variable within its type and the
\* batch writer's buffer within one batch; a sender always holds what it sends.
THEOREM TypeCorrect == Spec => [](TypeOK /\ HandsMatchSteps)
<1>1. TypeOK /\ HandsMatchSteps /\ [Next]_vars => TypeOK' /\ HandsMatchSteps'
  <2>1. UNCHANGED vars /\ TypeOK /\ HandsMatchSteps => TypeOK' /\ HandsMatchSteps'
    BY DEF vars, TypeOK, HandsMatchSteps
  <2> QED BY <2>1, HandlerTypes, ParserTypes, FanoutTypes, WriterTypes,
             ShutdownTypes DEF Next, Stopped
<1> QED BY <1>1, InitTypes, PTL DEF Spec

-----------------------------------------------------------------------------
(* Close discipline *)

\* Every step keeps exited stages drained and closed channels without senders.
LEMMA ExitedStep ==
    TypeOK /\ HandsMatchSteps /\ ExitedMeansDrained /\ NoSendOnClosedChannel /\ [Next]_vars
        => ExitedMeansDrained' /\ NoSendOnClosedChannel'
<1> SUFFICES ASSUME TypeOK, HandsMatchSteps, ExitedMeansDrained,
                    NoSendOnClosedChannel, [Next]_vars
             PROVE  ExitedMeansDrained' /\ NoSendOnClosedChannel'
  OBVIOUS
<1> USE DEF ExitedMeansDrained, NoSendOnClosedChannel, Readers, closed,
            ingestClosed, parsedClosed, batchClosed, parsersExited,
            handlerVars, parserVars, fanVars, writerVars
<1>1. ASSUME NEW p \in Payloads, Handler(p) \/ ClientRetry(p)
      PROVE  ExitedMeansDrained' /\ NoSendOnClosedChannel'
  BY <1>1 DEF Handler, TryIngestEnter, TryIngestReserve, TryIngestSend,
              TryIngestUndo, ClientRetry, TypeOK
<1>2. ASSUME NEW w \in Workers, parserWorker(w)
      PROVE  ExitedMeansDrained' /\ NoSendOnClosedChannel'
  BY <1>2 DEF parserWorker, ParserReceive, ParserSend, ParserRelease, ParserExit, TypeOK
<1>3. CASE fanout
  BY <1>3 DEF fanout, FanoutReceive, FanoutBroadcast, FanoutForward, FanoutExit
<1>4. CASE batchWriter
  BY <1>4 DEF batchWriter, WriterFull, WriterTimer, WriterDrain, WriterWake,
              WriterReceive, tryFlush
<1>5. CASE ShutdownBegin \/ Shutdown
  BY <1>5 DEF Shutdown, ShutdownBegin, ShutdownLock, ShutdownCloseIngest,
              ShutdownCloseParsed, ShutdownCloseBatch, ShutdownDone
<1>6. CASE UNCHANGED vars
  BY <1>6 DEF vars
<1> QED BY <1>1, <1>2, <1>3, <1>4, <1>5, <1>6 DEF Next, Stopped

\* No stage has exited when the pipeline starts.
LEMMA ExitedInit == Init => ExitedMeansDrained /\ NoSendOnClosedChannel
BY DEF Init, ExitedMeansDrained, NoSendOnClosedChannel, Readers, closed,
       ingestClosed, parsedClosed, batchClosed, parsersExited

\* Shutdown never closes a channel some goroutine may still send on, whatever
\* handlers, parsers and the fan-out are doing when it is called.
THEOREM CloseDiscipline == Spec => []NoSendOnClosedChannel
<1> QED BY ExitedInit, ExitedStep, TypeCorrect, PTL DEF Spec

\* When Shutdown returns the pipeline is empty: no payload is reserved, queued
\* or being parsed, and every row sent is stored or was reported dropped.
THEOREM ShutdownDrains == Spec => []DrainedWhenDown
<1>1. TypeOK /\ HandsMatchSteps /\ ExitedMeansDrained /\ NoSendOnClosedChannel
          => DrainedWhenDown
  <2> SUFFICES ASSUME TypeOK, HandsMatchSteps, ExitedMeansDrained,
                      NoSendOnClosedChannel, shut = "down"
               PROVE  Admitted = {} /\ Stream = db \o dropped
    BY DEF DrainedWhenDown
  <2>1. /\ writer = "exited" /\ fan = "exited" /\ parsersExited
        /\ batchInputChan = <<>> /\ buf = <<>> /\ parsedChan = <<>>
    BY DEF ExitedMeansDrained
  <2>2. hand = <<>> /\ ingestChan = <<>> /\ Readers = {}
    BY <2>1, WorkersAssumption
       DEF HandsMatchSteps, ExitedMeansDrained, parsersExited, closed
  <2>3. \A w \in Workers : job[w] = NoJob
    BY <2>1 DEF HandsMatchSteps, parsersExited
  <2>4. Admitted = {}
    <3>1. {p \in Payloads : req[p] = "reserved"} = {}
      BY <2>2 DEF Readers
    <3>2. Elements(ingestChan) = {}
      BY <2>2 DEF Elements
    <3> QED BY <2>3, <3>1, <3>2 DEF Admitted
  <2>5. Stream = db \o dropped
    <3>1. db \o dropped \in Seq(Rows)
      BY DEF TypeOK
    <3> QED BY <2>1, <2>2, <3>1, ConcatEmptySeq DEF Stream
  <2> QED BY <2>4, <2>5
<1> QED BY <1>1, ExitedInit, ExitedStep, TypeCorrect, PTL DEF Spec

-----------------------------------------------------------------------------
(* The stream: only a parser's send adds a row to it; every other step moves *)
(* rows between two neighbouring stages and leaves it as it is.              *)

\* The stream is a sequence of rows.
LEMMA StreamType == TypeOK => Stream \in Seq(Rows)
<1> SUFFICES ASSUME TypeOK PROVE Stream \in Seq(Rows)
  OBVIOUS
<1>1. /\ db \in Seq(Rows) /\ dropped \in Seq(Rows) /\ buf \in Seq(Rows)
      /\ batchInputChan \in Seq(Rows) /\ hand \in Seq(Rows)
      /\ parsedChan \in Seq(Rows)
  BY DEF TypeOK
<1> QED BY <1>1 DEF Stream

\* A flush moves the buffer behind the stored rows.
LEMMA FlushKeepsStream ==
    ASSUME NEW S, NEW d \in Seq(S), NEW b \in Seq(S)
    PROVE  /\ ((d \o b) \o <<>>) \o <<>> = (d \o <<>>) \o b
           /\ (d \o b) \o <<>> = (d \o <<>>) \o b
<1>1. d \o b \in Seq(S)
  OBVIOUS
<1>2. (d \o b) \o <<>> = d \o b
  BY <1>1, ConcatEmptySeq
<1>3. d \o <<>> = d
  BY ConcatEmptySeq
<1> QED BY <1>2, <1>3

\* The fan-out moves rows along the stream without changing it.
LEMMA FanoutKeepsStream ==
    ASSUME TypeOK, HandsMatchSteps, fanout
    PROVE  Stream' = Stream
<1>0. /\ batchInputChan \in Seq(Rows) /\ hand \in Seq(Rows)
      /\ parsedChan \in Seq(Rows) /\ db \o dropped \o buf \in Seq(Rows)
      /\ db \o dropped \o buf \o batchInputChan \in Seq(Rows)
  BY DEF TypeOK
<1>1. CASE FanoutReceive
  <2>1. hand = <<>> /\ parsedChan # <<>>
    BY <1>1 DEF HandsMatchSteps, FanoutReceive
  <2>2. /\ hand' = <<Head(parsedChan)>> /\ parsedChan' = Tail(parsedChan)
        /\ UNCHANGED <<db, dropped, buf, batchInputChan>>
    BY <1>1 DEF FanoutReceive, writerVars
  <2> QED BY <1>0, <2>1, <2>2, MoveIntoEmpty, Zenon DEF Stream
<1>2. CASE FanoutForward
  <2>1. Len(hand) = 1
    BY <1>2 DEF HandsMatchSteps, FanoutForward
  <2>2. /\ hand' = <<>> /\ batchInputChan' = Append(batchInputChan, Head(hand))
        /\ UNCHANGED <<db, dropped, buf, parsedChan>>
    BY <1>2 DEF FanoutForward, writerVars
  <2> QED BY <1>0, <2>1, <2>2, MoveOnly, Zenon DEF Stream
<1>3. CASE FanoutBroadcast \/ FanoutExit
  BY <1>3 DEF FanoutBroadcast, FanoutExit, Stream, writerVars
<1> QED BY <1>1, <1>2, <1>3 DEF fanout

\* The batch writer, failed flushes and the drain included, leaves the stream alone.
LEMMA WriterKeepsStream ==
    ASSUME TypeOK, ExitedMeansDrained, batchWriter
    PROVE  Stream' = Stream
<1>0. /\ db \in Seq(Rows) /\ dropped \in Seq(Rows) /\ buf \in Seq(Rows)
      /\ batchInputChan \in Seq(Rows) /\ db \o dropped \in Seq(Rows)
  BY DEF TypeOK
<1>1. UNCHANGED <<hand, parsedChan>>
  BY DEF batchWriter, WriterFull, WriterTimer, WriterDrain, WriterWake,
         WriterReceive, fanVars
<1>2. CASE WriterReceive
  <2>1. /\ batchInputChan # <<>> /\ batchInputChan' = Tail(batchInputChan)
        /\ buf' = Append(buf, Head(batchInputChan))
        /\ UNCHANGED <<db, dropped>>
    BY <1>2 DEF WriterReceive
  <2> QED BY <1>0, <1>1, <2>1, MoveMiddle, Zenon DEF Stream
<1>3. ASSUME writer = "loop", UNCHANGED batchInputChan,
             NEW ok \in BOOLEAN,
             \/ tryFlush(ok) /\ UNCHANGED dropped
             \/ WriterDrain(ok)
      PROVE  Stream' = Stream
  <2>1. dropped = <<>>
    BY <1>3 DEF ExitedMeansDrained
  <2>2. db' \o dropped' \o buf' = db \o dropped \o buf
    BY <1>0, <1>3, <2>1, FlushKeepsStream DEF tryFlush, WriterDrain
  <2> QED BY <1>1, <1>3, <2>2 DEF Stream
<1>4. CASE WriterWake
  BY <1>1, <1>4 DEF WriterWake, Stream
<1>5. ASSUME NEW ok \in BOOLEAN, WriterFull(ok) \/ WriterTimer(ok) \/ WriterDrain(ok)
      PROVE  Stream' = Stream
  BY <1>3, <1>5 DEF WriterFull, WriterTimer, WriterDrain
<1> QED BY <1>2, <1>4, <1>5 DEF batchWriter

\* A parser's send appends exactly its current line to the stream.
LEMMA ParserSendAppends ==
    ASSUME TypeOK, HandsMatchSteps, NEW w \in Workers, ParserSend(w)
    PROVE  /\ <<job[w], line[w]>> \in Rows
           /\ Stream' = Append(Stream, <<job[w], line[w]>>)
<1>1. job[w] \in Payloads /\ line[w] \in Nat \ {0}
  BY DEF TypeOK, HandsMatchSteps, ParserSend
<1>2. <<job[w], line[w]>> \in Rows
  BY <1>1 DEF Rows
<1> DEFINE x == db \o dropped \o buf \o batchInputChan \o hand
<1>3. x \in Seq(Rows) /\ parsedChan \in Seq(Rows)
  BY DEF TypeOK
<1>4. x' = x /\ parsedChan' = Append(parsedChan, <<job[w], line[w]>>)
  BY DEF ParserSend, fanVars, writerVars
<1>5. x \o parsedChan' = Append(x \o parsedChan, <<job[w], line[w]>>)
  BY <1>2, <1>3, <1>4, AppendLast, Zenon
<1>6. Stream' = x \o parsedChan'
  BY <1>4 DEF Stream
<1> QED BY <1>2, <1>5, <1>6 DEF Stream

\* Handlers, parsers between sends, and Shutdown touch no part of the stream.
LEMMA OthersKeepStream ==
    ASSUME \/ \E p \in Payloads : Handler(p) \/ ClientRetry(p)
           \/ \E w \in Workers : ParserReceive(w) \/ ParserRelease(w) \/ ParserExit(w)
           \/ ShutdownBegin \/ Shutdown
           \/ UNCHANGED vars
    PROVE  Stream' = Stream
<1>1. UNCHANGED <<db, dropped, buf, batchInputChan, hand, parsedChan>>
  BY DEF Handler, TryIngestEnter, TryIngestReserve, TryIngestSend,
         TryIngestUndo, ClientRetry, ParserReceive, ParserRelease, ParserExit,
         Shutdown, ShutdownBegin, ShutdownLock, ShutdownCloseIngest,
         ShutdownCloseParsed, ShutdownCloseBatch, ShutdownDone, vars,
         fanVars, writerVars
<1> QED BY <1>1 DEF Stream

-----------------------------------------------------------------------------
(* Order and uniqueness of rows.  LinesInOrder is preserved by a parser's    *)
(* send because the stream ends, for the payload it holds, just before the   *)
(* line it sends (StreamFollowsParsers), and no other parser or queue place  *)
(* holds the same payload (OneHolder).                                       *)

FlowInv == OneHolder /\ StreamFollowsParsers /\ LinesInOrder

\* The handlers and the client's retry preserve FlowInv.
LEMMA FlowHandler ==
    ASSUME TypeOK, FlowInv, NEW p \in Payloads, Handler(p) \/ ClientRetry(p)
    PROVE  FlowInv'
<1>1. Stream' = Stream
  BY OthersKeepStream
<1>2. UNCHANGED <<parser, job, line>>
  BY DEF Handler, TryIngestEnter, TryIngestReserve, TryIngestSend,
         TryIngestUndo, ClientRetry, parserVars
<1>3. req[p] # "accepted" /\ \A q \in Payloads \ {p} : req'[q] = req[q]
  BY DEF Handler, TryIngestEnter, TryIngestReserve, TryIngestSend,
         TryIngestUndo, ClientRetry, TypeOK
<1>4. /\ Stream \in Seq(Rows) /\ ingestChan \in Seq(Payloads)
      /\ job \in [Workers -> Payloads \cup {NoJob}]
  BY StreamType DEF TypeOK
<1>5. \A i \in DOMAIN Stream : Stream[i][1] \in Payloads
  BY <1>4 DEF Rows
<1>6. LinesInOrder'
  BY <1>1 DEF FlowInv, LinesInOrder
<1>7. CASE TryIngestSend(p) /\ ingestChan' # ingestChan
  <2>1. ingestChan' = Append(ingestChan, p) /\ req'[p] = "accepted"
    BY <1>7 DEF TryIngestSend, TypeOK
  <2>2. /\ \A i \in DOMAIN ingestChan : ingestChan[i] # p
        /\ \A w \in Workers : job[w] # p
        /\ \A i \in DOMAIN Stream : Stream[i][1] # p
    BY <1>3, NoJobAssumption DEF FlowInv, OneHolder, StreamFollowsParsers
  <2>3. OneHolder'
    BY <1>2, <1>3, <1>4, <2>1, <2>2 DEF FlowInv, OneHolder
  <2>4. StreamFollowsParsers'
    BY <1>1, <1>2, <1>3, <1>4, <1>5, <2>1, <2>2 DEF FlowInv, StreamFollowsParsers
  <2> QED BY <1>6, <2>3, <2>4 DEF FlowInv
<1>8. CASE UNCHANGED ingestChan
  <2>1. OneHolder'
    BY <1>2, <1>3, <1>4, <1>8 DEF FlowInv, OneHolder
  <2>2. StreamFollowsParsers'
    BY <1>1, <1>2, <1>3, <1>5, <1>8 DEF FlowInv, StreamFollowsParsers
  <2> QED BY <1>6, <2>1, <2>2 DEF FlowInv
<1> QED BY <1>7, <1>8 DEF Handler, TryIngestEnter, TryIngestReserve,
           TryIngestSend, TryIngestUndo, ClientRetry

\* A parser taking a payload from the queue preserves FlowInv.
LEMMA FlowReceive ==
    ASSUME TypeOK, FlowInv, NEW w \in Workers, ParserReceive(w)
    PROVE  FlowInv'
<1>1. Stream' = Stream
  BY OthersKeepStream
<1>2. /\ Stream \in Seq(Rows) /\ ingestChan \in Seq(Payloads)
      /\ ingestChan # <<>> /\ ingestChan' = Tail(ingestChan)
      /\ job \in [Workers -> Payloads \cup {NoJob}]
      /\ line \in [Workers -> Nat \ {0}]
      /\ job' = [job EXCEPT ![w] = Head(ingestChan)]
      /\ line' = [line EXCEPT ![w] = 1]
      /\ UNCHANGED req
  BY StreamType DEF TypeOK, ParserReceive, handlerVars
<1>3. /\ ingestChan[1] = Head(ingestChan) /\ 1 \in DOMAIN ingestChan
      /\ DOMAIN Tail(ingestChan) = 1..(Len(ingestChan) - 1)
      /\ \A i \in DOMAIN Tail(ingestChan) :
             /\ i + 1 \in DOMAIN ingestChan
             /\ Tail(ingestChan)[i] = ingestChan[i + 1]
  BY <1>2
<1>4. OneHolder'
  BY <1>2, <1>3 DEF FlowInv, OneHolder
<1>5. StreamFollowsParsers'
  <2>1. ASSUME NEW i \in DOMAIN Stream'
        PROVE  /\ req'[Stream'[i][1]] = "accepted"
               /\ \A j \in DOMAIN ingestChan' : ingestChan'[j] # Stream'[i][1]
    BY <1>1, <1>2, <1>3 DEF FlowInv, StreamFollowsParsers
  <2>2. ASSUME NEW i \in DOMAIN Stream', NEW v \in Workers, job'[v] = Stream'[i][1]
        PROVE  Stream'[i][2] < line'[v]
    <3>1. v # w
      BY <1>1, <1>2, <1>3, <2>2 DEF FlowInv, StreamFollowsParsers
    <3> QED BY <1>1, <1>2, <2>2, <3>1 DEF FlowInv, StreamFollowsParsers
  <2>3. ASSUME NEW v \in Workers, job'[v] # NoJob, NEW m \in 1..(line'[v] - 1)
        PROVE  \E i \in DOMAIN Stream' : Stream'[i] = <<job'[v], m>>
    <3>1. v # w
      BY <1>2, <2>3
    <3> QED BY <1>1, <1>2, <2>3, <3>1 DEF FlowInv, StreamFollowsParsers
  <2> QED BY <2>1, <2>2, <2>3 DEF StreamFollowsParsers
<1>6. LinesInOrder'
  BY <1>1 DEF FlowInv, LinesInOrder
<1> QED BY <1>4, <1>5, <1>6 DEF FlowInv

\* A parser sending one line preserves FlowInv.
LEMMA FlowSend ==
    ASSUME TypeOK, HandsMatchSteps, FlowInv, NEW w \in Workers, ParserSend(w)
    PROVE  FlowInv'
<1> DEFINE r == <<job[w], line[w]>>
<1>1. r \in Rows /\ Stream' = Append(Stream, r)
  BY ParserSendAppends
<1>2. /\ Stream \in Seq(Rows) /\ ingestChan \in Seq(Payloads)
      /\ job \in [Workers -> Payloads \cup {NoJob}]
      /\ line \in [Workers -> Nat \ {0}]
      /\ line' = [line EXCEPT ![w] = @ + 1]
      /\ UNCHANGED <<req, ingestChan, job>>
      /\ job[w] # NoJob
  BY StreamType DEF TypeOK, HandsMatchSteps, ParserSend, handlerVars
<1>3. /\ DOMAIN Stream = 1..Len(Stream) /\ DOMAIN Stream' = 1..(Len(Stream) + 1)
      /\ \A i \in 1..Len(Stream) : Stream'[i] = Stream[i]
      /\ Stream'[Len(Stream) + 1] = r
      /\ Len(Stream) \in Nat
  BY <1>1, <1>2
<1>4. r[1] = job[w] /\ r[2] = line[w] /\ line[w] \in Nat
  BY <1>2
<1>5. OneHolder'
  BY <1>2 DEF FlowInv, OneHolder
<1>6. \A i \in DOMAIN Stream : Stream[i][1] \in Payloads /\ Stream[i][2] \in Nat
  BY <1>2 DEF Rows
<1>7. StreamFollowsParsers'
  <2>1. ASSUME NEW i \in DOMAIN Stream'
        PROVE  /\ req'[Stream'[i][1]] = "accepted"
               /\ \A j \in DOMAIN ingestChan' : ingestChan'[j] # Stream'[i][1]
               /\ \A v \in Workers : job'[v] = Stream'[i][1] => Stream'[i][2] < line'[v]
    <3>1. CASE i = Len(Stream) + 1
      BY <1>2, <1>3, <1>4, <3>1 DEF FlowInv, OneHolder
    <3>2. CASE i \in 1..Len(Stream)
      BY <1>2, <1>3, <1>6, <3>2 DEF FlowInv, StreamFollowsParsers
    <3> QED BY <1>3, <2>1, <3>1, <3>2
  <2>2. ASSUME NEW v \in Workers, job'[v] # NoJob, NEW m \in 1..(line'[v] - 1)
        PROVE  \E i \in DOMAIN Stream' : Stream'[i] = <<job'[v], m>>
    <3>1. CASE v = w /\ m = line[w]
      <4>1. Len(Stream) + 1 \in DOMAIN Stream'
        BY <1>3
      <4>2. Stream'[Len(Stream) + 1] = <<job'[v], m>>
        BY <1>2, <1>3, <3>1, Zenon
      <4> QED BY <4>1, <4>2, Zenon
    <3>2. CASE ~(v = w /\ m = line[w])
      <4>1. m \in 1..(line[v] - 1) /\ job[v] # NoJob
        BY <1>2, <2>2, <3>2
      <4>2. PICK i \in DOMAIN Stream : Stream[i] = <<job[v], m>>
        BY <4>1 DEF FlowInv, StreamFollowsParsers
      <4>3. i \in DOMAIN Stream'
        BY <1>3, <4>2
      <4>4. Stream'[i] = <<job'[v], m>>
        BY <1>2, <1>3, <4>2, Zenon
      <4> QED BY <4>3, <4>4, Zenon
    <3> QED BY <3>1, <3>2
  <2> QED BY <2>1, <2>2 DEF StreamFollowsParsers
<1>8. LinesInOrder'
  <2> SUFFICES ASSUME NEW i \in DOMAIN Stream', NEW j \in DOMAIN Stream',
                      i < j, Stream'[i][1] = Stream'[j][1]
               PROVE  Stream'[i][2] < Stream'[j][2]
    BY DEF LinesInOrder
  <2>1. CASE j = Len(Stream) + 1
    BY <1>3, <1>4, <2>1 DEF FlowInv, StreamFollowsParsers
  <2>2. CASE j \in 1..Len(Stream)
    BY <1>3, <2>2 DEF FlowInv, LinesInOrder
  <2> QED BY <1>3, <2>1, <2>2
<1> QED BY <1>5, <1>7, <1>8 DEF FlowInv

\* A parser done with its payload preserves FlowInv.
LEMMA FlowRelease ==
    ASSUME TypeOK, FlowInv, NEW w \in Workers, ParserRelease(w) \/ ParserExit(w)
    PROVE  FlowInv'
<1>1. Stream' = Stream
  BY OthersKeepStream
<1>2. /\ UNCHANGED <<req, ingestChan>>
      /\ job \in [Workers -> Payloads \cup {NoJob}]
      /\ Stream \in Seq(Rows) /\ ingestChan \in Seq(Payloads)
      /\ \A v \in Workers : \/ job'[v] = NoJob
                            \/ job'[v] = job[v] /\ line'[v] = line[v]
  BY StreamType DEF TypeOK, ParserRelease, ParserExit, handlerVars
<1>3. /\ \A i \in DOMAIN Stream : Stream[i][1] \in Payloads
      /\ \A i \in DOMAIN ingestChan : ingestChan[i] \in Payloads
  BY <1>2 DEF Rows
<1>4. OneHolder'
  BY <1>2, <1>3, NoJobAssumption DEF FlowInv, OneHolder
<1>5. StreamFollowsParsers'
  BY <1>1, <1>2, <1>3, NoJobAssumption DEF FlowInv, StreamFollowsParsers
<1>6. LinesInOrder'
  BY <1>1 DEF FlowInv, LinesInOrder
<1> QED BY <1>4, <1>5, <1>6 DEF FlowInv

\* Every step of the pipeline preserves FlowInv.
LEMMA FlowStep ==
    TypeOK /\ HandsMatchSteps /\ ExitedMeansDrained /\ FlowInv /\ [Next]_vars
        => FlowInv'
<1> SUFFICES ASSUME TypeOK, HandsMatchSteps, ExitedMeansDrained, FlowInv, [Next]_vars
             PROVE  FlowInv'
  OBVIOUS
<1>1. ASSUME Stream' = Stream, UNCHANGED <<req, ingestChan, parser, job, line>>
      PROVE  FlowInv'
  BY <1>1 DEF FlowInv, OneHolder, StreamFollowsParsers, LinesInOrder
<1>2. CASE fanout
  BY <1>1, <1>2, FanoutKeepsStream DEF fanout, FanoutReceive, FanoutBroadcast,
     FanoutForward, FanoutExit, handlerVars, parserVars
<1>3. CASE batchWriter
  BY <1>1, <1>3, WriterKeepsStream DEF batchWriter, WriterFull, WriterTimer,
     WriterDrain, WriterWake, WriterReceive, handlerVars, parserVars
<1>4. CASE ShutdownBegin \/ Shutdown
  BY <1>1, <1>4, OthersKeepStream DEF Shutdown, ShutdownBegin, ShutdownLock,
     ShutdownCloseIngest, ShutdownCloseParsed, ShutdownCloseBatch,
     ShutdownDone, handlerVars, parserVars
<1>5. CASE UNCHANGED vars
  BY <1>1, <1>5, OthersKeepStream DEF vars
<1> QED BY <1>2, <1>3, <1>4, <1>5, FlowHandler, FlowReceive, FlowSend,
           FlowRelease DEF Next, parserWorker, Stopped

\* Nothing is queued, held or sent when the pipeline starts.
LEMMA FlowInit == Init => FlowInv
<1> SUFFICES ASSUME Init PROVE FlowInv
  OBVIOUS
<1>1. Stream = <<>>
  BY DEF Init, Stream
<1>2. OneHolder
  BY DEF Init, OneHolder
<1>3. StreamFollowsParsers /\ LinesInOrder
  BY <1>1 DEF Init, StreamFollowsParsers, LinesInOrder
<1> QED BY <1>2, <1>3 DEF FlowInv

\* However parsers interleave and flushes fail, the lines of a payload reach the
\* database in their order and at most once; every payload has one holder.
THEOREM OrderPreserved == Spec => [](OneHolder /\ StreamFollowsParsers /\ LinesInOrder)
<1> QED BY ExitedInit, FlowInit, TypeCorrect, ExitedStep, FlowStep, PTL DEF Spec, FlowInv

\* The inductive invariant of the pipeline holds in every reachable state: the
\* goroutines, channels and buffers stay consistent for any number of payloads,
\* parsers and rows, any channel capacities and any pattern of failed flushes.
THEOREM PipelineInvariant == Spec => []PipelineInv
<1> QED BY ExitedInit, FlowInit, TypeCorrect, ExitedStep, FlowStep, PTL
        DEF Spec, FlowInv, PipelineInv

-----------------------------------------------------------------------------
(* SumSize, the bytes of a finite set of payloads: its fold is defined by    *)
(* recursion over the subsets, and each fact below by looking at the least   *)
(* size of a set that would break it.                                        *)

\* A nonempty set of naturals has a least element.
LEMMA SmallestSize ==
    ASSUME NEW T, T \subseteq Nat, T # {}
    PROVE  \E n \in T : \A m \in T : n <= m
<1> DEFINE R == OpToRel(<, Nat)
<1>1. \E n \in T : \A m \in T : ~ (<<m, n>> \in R)
  <2>1. IsWellFoundedOn(R, Nat)
    BY NatLessThanWellFounded
  <2> HIDE DEF R
  <2> QED BY <2>1, WFMin
<1>2. \A n, m \in Nat : n < m => <<n, m>> \in R
  BY DEF OpToRel
<1>3. \E Q : /\ \E n \in T : \A m \in T : ~ (<<m, n>> \in Q)
             /\ \A n, m \in Nat : n < m => <<n, m>> \in Q
  BY <1>1, <1>2, Zenon
<1>4. PICK n \in T : \A m \in T : ~ (m < n)
  BY <1>3
<1> QED BY <1>4

\* The sum of f over a finite set, as SumSize and SumRows form it.
total(f, S) == MapThenSumSet(LAMBDA p : f[p], S)

\* The element the fold takes first, and one step of the fold g at the set s.
pick(s) == CHOOSE p \in s : TRUE
foldStep(f, g, s) == IF s = {} THEN 0 ELSE f[pick(s)] + g[s \ {pick(s)}]

\* g holds the partial sums of the fold over S.
IsSumTable(f, g, S) == \A s \in SUBSET S : g[s] = foldStep(f, g, s)

\* The element is one of the set's, and has a number.
LEMMA PickIn ==
    ASSUME NEW P, NEW f \in [P -> Nat], NEW s, s \subseteq P, s # {}
    PROVE  pick(s) \in s /\ f[pick(s)] \in Nat
BY DEF pick

\* Taking an element out of a finite set makes it smaller by one.
LEMMA OneLess ==
    ASSUME NEW s, IsFiniteSet(s), NEW p \in s
    PROVE  /\ IsFiniteSet(s \ {p}) /\ Cardinality(s) \in Nat \ {0}
           /\ Cardinality(s \ {p}) = Cardinality(s) - 1
<1>1. Cardinality(s) \in Nat /\ Cardinality(s) # 0
  BY FS_CardinalityType, FS_EmptySet
<1> QED BY <1>1, FS_RemoveElement

\* The fold over a finite set has a table of partial sums.
LEMMA SumTableExists ==
    ASSUME NEW P, NEW f \in [P -> Nat], NEW S, S \subseteq P, IsFiniteSet(S)
    PROVE  \E g \in [SUBSET S -> Nat] : IsSumTable(f, g, S)
<1> DEFINE B(n) == {s \in SUBSET S : Cardinality(s) <= n}
           Good(n) == \E g \in [B(n) -> Nat] : \A s \in B(n) : g[s] = foldStep(f, g, s)
           T == {n \in Nat : ~ Good(n)}
<1>1. \A s \in SUBSET S : IsFiniteSet(s) /\ Cardinality(s) \in Nat
  BY FS_Subset, FS_CardinalityType
<1>2. T = {}
  <2>1. SUFFICES ASSUME T # {} PROVE FALSE
    OBVIOUS
  <2>2. PICK m \in T : \A n \in T : m <= n
    <3>1. T \subseteq Nat
      OBVIOUS
    <3> HIDE DEF T
    <3> QED BY <2>1, <3>1, SmallestSize
  <2>3. m \in Nat /\ ~ Good(m)
    OBVIOUS
  <2>4. CASE m = 0
    <3> DEFINE g == [s \in B(0) |-> 0]
    <3>1. \A s \in B(0) : s = {}
      BY <1>1, FS_EmptySet
    <3>2. g \in [B(0) -> Nat] /\ \A s \in B(0) : g[s] = foldStep(f, g, s)
      BY <3>1 DEF foldStep
    <3>3. Good(0)
      BY <3>2
    <3> HIDE DEF Good
    <3> QED BY <2>3, <2>4, <3>3
  <2>5. CASE m # 0
    <3>1. m - 1 \in Nat /\ Good(m - 1)
      <4>1. m - 1 \in Nat /\ m - 1 \notin T
        <5> HIDE DEF T, Good
        <5> QED BY <2>2, <2>3, <2>5
      <4> HIDE DEF Good
      <4> QED BY <4>1
    <3>2. PICK g \in [B(m - 1) -> Nat] : \A s \in B(m - 1) : g[s] = foldStep(f, g, s)
      BY <3>1
    <3> DEFINE h == [s \in B(m) |-> foldStep(f, g, s)]
    <3>3. ASSUME NEW s \in B(m), s # {}
          PROVE  s \ {pick(s)} \in B(m - 1) /\ s \ {pick(s)} \in B(m) /\ f[pick(s)] \in Nat
      <4>1. s \in SUBSET S /\ IsFiniteSet(s) /\ pick(s) \in s /\ f[pick(s)] \in Nat
        BY <1>1, <3>3, PickIn
      <4>2. s \ {pick(s)} \in SUBSET S /\ Cardinality(s \ {pick(s)}) = Cardinality(s) - 1
            /\ Cardinality(s) \in Nat
        BY <4>1, OneLess
      <4> QED BY <2>3, <4>1, <4>2
    <3>4. \A s \in B(m) : foldStep(f, g, s) \in Nat
      BY <3>2, <3>3 DEF foldStep
    <3>5. h \in [B(m) -> Nat]
      <4> HIDE DEF B
      <4> QED BY <3>4
    <3>6. ASSUME NEW s \in B(m) PROVE h[s] = foldStep(f, h, s)
      <4>1. CASE s = {}
        <5> HIDE DEF B
        <5> QED BY <4>1 DEF foldStep
      <4>2. CASE s # {}
        <5>1. s \ {pick(s)} \in B(m - 1) /\ s \ {pick(s)} \in B(m)
          BY <3>3, <4>2
        <5> HIDE DEF B
        <5>2. h[s \ {pick(s)}] = g[s \ {pick(s)}]
          BY <3>2, <5>1
        <5> QED BY <4>2, <5>2 DEF foldStep
      <4> QED BY <4>1, <4>2
    <3>7. Good(m)
      <4> HIDE DEF h
      <4> QED BY <3>5, <3>6
    <3> HIDE DEF Good
    <3> QED BY <2>3, <3>7
  <2> QED BY <2>4, <2>5
<1>3. Cardinality(S) \in Nat /\ B(Cardinality(S)) = SUBSET S
  BY FS_Subset, FS_CardinalityType
<1>4. Good(Cardinality(S))
  <2> HIDE DEF Good
  <2> QED BY <1>2, <1>3
<1> QED BY <1>3, <1>4 DEF IsSumTable

\* total reads the last entry of such a table.
LEMMA SumTable ==
    ASSUME NEW P, NEW f \in [P -> Nat], NEW S, S \subseteq P, IsFiniteSet(S)
    PROVE  \E g : IsSumTable(f, g, S) /\ total(f, S) = g[S]
<1> DEFINE IsTable(g) == g = [s \in SUBSET S |-> foldStep(f, g, s)]
<1>1. total(f, S) = (CHOOSE g : IsTable(g))[S]
  BY DEF total, MapThenSumSet, MapThenFoldSet, foldStep, pick
<1>2. \E g : IsTable(g)
  <2>1. PICK g \in [SUBSET S -> Nat] : IsSumTable(f, g, S)
    BY SumTableExists
  <2>2. g = [s \in SUBSET S |-> g[s]]
    OBVIOUS
  <2>3. IsTable(g)
    BY <2>1, <2>2 DEF IsSumTable
  <2> HIDE DEF IsTable
  <2> QED BY <2>3
<1>3. IsTable(CHOOSE g : IsTable(g))
  BY <1>2
<1>4. PICK g : IsTable(g) /\ total(f, S) = g[S]
  BY <1>1, <1>3
<1> QED BY <1>4 DEF IsSumTable

\* Two tables agree where both have an entry, and their entries are numbers.
LEMMA TablesAgree ==
    ASSUME NEW P, NEW f \in [P -> Nat], NEW S, NEW U, NEW g, NEW h, U \subseteq S,
           S \subseteq P, IsFiniteSet(S),
           IsSumTable(f, g, S), IsSumTable(f, h, U)
    PROVE  \A s \in SUBSET U : g[s] \in Nat /\ g[s] = h[s]
<1> DEFINE Good(s) == g[s] \in Nat /\ g[s] = h[s]
           T == {n \in Nat : \E s \in SUBSET U : Cardinality(s) = n /\ ~ Good(s)}
<1>1. \A s \in SUBSET U : IsFiniteSet(s) /\ Cardinality(s) \in Nat
  BY FS_Subset, FS_CardinalityType
<1>2. T = {}
  <2>1. SUFFICES ASSUME T # {} PROVE FALSE
    OBVIOUS
  <2>2. PICK m \in T : \A n \in T : m <= n
    <3>1. T \subseteq Nat
      OBVIOUS
    <3> HIDE DEF T
    <3> QED BY <2>1, <3>1, SmallestSize
  <2>3. PICK s \in SUBSET U : Cardinality(s) = m /\ ~ Good(s)
    OBVIOUS
  <2>4. s # {}
    <3>1. g[{}] = 0 /\ h[{}] = 0
      BY DEF foldStep, IsSumTable
    <3>2. Good({})
      BY <3>1
    <3> HIDE DEF Good
    <3> QED BY <2>3, <3>2
  <2> DEFINE t == s \ {pick(s)}
  <2>5. /\ f[pick(s)] \in Nat /\ t \in SUBSET U /\ Cardinality(t) = m - 1 /\ m \in Nat \ {0}
    BY <1>1, <2>3, <2>4, PickIn, OneLess
  <2>6. Good(t)
    <3>1. m - 1 \in Nat /\ m - 1 \notin T
      <4> HIDE DEF T
      <4> QED BY <2>2, <2>5
    <3> HIDE DEF Good, t
    <3> QED BY <2>5, <3>1
  <2>7. g[s] = f[pick(s)] + g[t] /\ h[s] = f[pick(s)] + h[t]
    BY <2>3, <2>4 DEF foldStep, IsSumTable
  <2> HIDE DEF t
  <2> QED BY <2>3, <2>5, <2>6, <2>7
<1>3. \A s \in SUBSET U : Good(s)
  <2> HIDE DEF Good
  <2> QED BY <1>1, <1>2
<1> QED BY <1>3

\* The sum of the empty set is 0; another is the number of the first element
\* and the sum of the rest.
LEMMA SumStep ==
    ASSUME NEW P, NEW f \in [P -> Nat], NEW S, S \subseteq P, IsFiniteSet(S)
    PROVE  /\ total(f, S) \in Nat
           /\ S = {} => total(f, S) = 0
           /\ S # {} => total(f, S) = f[pick(S)] + total(f, S \ {pick(S)})
<1>1. PICK g : IsSumTable(f, g, S) /\ total(f, S) = g[S]
  BY SumTable
<1>2. g[S] \in Nat
  <2>1. \A s \in SUBSET S : g[s] \in Nat /\ g[s] = g[s]
    BY <1>1, TablesAgree
  <2> QED BY <2>1
<1>3. CASE S = {}
  BY <1>1, <1>2, <1>3 DEF foldStep, IsSumTable
<1>4. CASE S # {}
  <2> DEFINE U == S \ {pick(S)}
  <2>1. U \subseteq S /\ U \subseteq P /\ IsFiniteSet(U)
    BY FS_RemoveElement
  <2>2. PICK h : IsSumTable(f, h, U) /\ total(f, U) = h[U]
    <3> HIDE DEF U
    <3> QED BY <2>1, SumTable
  <2>3. g[U] = h[U]
    <3> HIDE DEF U
    <3>1. \A s \in SUBSET U : g[s] \in Nat /\ g[s] = h[s]
      BY <1>1, <2>1, <2>2, TablesAgree
    <3> QED BY <3>1
  <2>4. g[S] = f[pick(S)] + g[U]
    BY <1>1, <1>4 DEF foldStep, IsSumTable
  <2> HIDE DEF U
  <2>5. total(f, S) = f[pick(S)] + total(f, U)
    BY <1>1, <2>2, <2>3, <2>4
  <2> QED BY <1>1, <1>2, <1>4, <2>5 DEF U
<1> QED BY <1>3, <1>4

\* The order in which the fold takes the elements does not matter.
LEMMA SumWithout ==
    ASSUME NEW P, NEW f \in [P -> Nat], NEW S, S \subseteq P, IsFiniteSet(S), NEW p \in S
    PROVE  total(f, S) = f[p] + total(f, S \ {p})
<1> DEFINE Q(s, q) == total(f, s) = f[q] + total(f, s \ {q})
           T == {n \in Nat : \E s \in SUBSET S : \E q \in s : Cardinality(s) = n /\ ~ Q(s, q)}
<1>1. \A s \in SUBSET S : s \subseteq P /\ IsFiniteSet(s) /\ Cardinality(s) \in Nat
  BY FS_Subset, FS_CardinalityType
<1>2. T = {}
  <2>1. SUFFICES ASSUME T # {} PROVE FALSE
    OBVIOUS
  <2>2. PICK m \in T : \A n \in T : m <= n
    <3>1. T \subseteq Nat
      OBVIOUS
    <3> HIDE DEF T
    <3> QED BY <2>1, <3>1, SmallestSize
  <2>3. PICK s \in SUBSET S : \E q \in s : Cardinality(s) = m /\ ~ Q(s, q)
    OBVIOUS
  <2>4. PICK q \in s : Cardinality(s) = m /\ ~ Q(s, q)
    BY <2>3
  <2> DEFINE c == pick(s)
  <2>5. c \in s /\ f[c] \in Nat /\ f[q] \in Nat
    BY <1>1, <2>4, PickIn
  <2>6. total(f, s) = f[c] + total(f, s \ {c})
    BY <1>1, <2>4, SumStep
  <2> HIDE DEF c
  <2>7. c # q
    BY <2>4, <2>6
  <2>8. ASSUME NEW x \in s, NEW y \in s, x # y
        PROVE  total(f, s \ {x}) = f[y] + total(f, (s \ {x}) \ {y})
    <3>1. s \ {x} \in SUBSET S /\ Cardinality(s \ {x}) = m - 1 /\ m \in Nat \ {0} /\ y \in s \ {x}
      BY <1>1, <2>4, <2>8, OneLess
    <3>2. m - 1 \in Nat /\ m - 1 \notin T
      <4> HIDE DEF T
      <4> QED BY <2>2, <3>1
    <3>3. Q(s \ {x}, y)
      <4> HIDE DEF Q
      <4> QED BY <3>1, <3>2
    <3> QED BY <3>3
  <2>9. total(f, s \ {c}) = f[q] + total(f, (s \ {c}) \ {q})
    BY <2>4, <2>5, <2>7, <2>8
  <2>10. total(f, s \ {q}) = f[c] + total(f, (s \ {q}) \ {c})
    BY <2>4, <2>5, <2>7, <2>8
  <2>11. (s \ {c}) \ {q} = (s \ {q}) \ {c}
    OBVIOUS
  <2>12. total(f, (s \ {q}) \ {c}) \in Nat
    <3>1. (s \ {q}) \ {c} \in SUBSET S
      OBVIOUS
    <3> QED BY <1>1, <3>1, SumStep
  <2> QED BY <2>4, <2>5, <2>6, <2>9, <2>10, <2>11, <2>12
<1>3. Q(S, p)
  <2>1. S \in SUBSET S /\ Cardinality(S) \in Nat
    BY <1>1
  <2> HIDE DEF Q
  <2> QED BY <1>2, <2>1
<1> QED BY <1>3

\* One element more.
LEMMA SumWith ==
    ASSUME NEW P, NEW f \in [P -> Nat], NEW S, S \subseteq P, IsFiniteSet(S), NEW p \in P, p \notin S
    PROVE  total(f, S \cup {p}) = f[p] + total(f, S)
<1>1. S \cup {p} \subseteq P /\ IsFiniteSet(S \cup {p}) /\ (S \cup {p}) \ {p} = S
  BY FS_AddElement
<1>2. total(f, S \cup {p}) = f[p] + total(f, (S \cup {p}) \ {p})
  BY <1>1, SumWithout
<1> QED BY <1>1, <1>2

\* A part of a set adds up to no more than the whole.
LEMMA SumMonotone ==
    ASSUME NEW P, NEW f \in [P -> Nat], NEW S, S \subseteq P, IsFiniteSet(S), NEW U, U \subseteq S
    PROVE  total(f, U) <= total(f, S)
<1> DEFINE T == {n \in Nat : \E s \in SUBSET S : /\ U \subseteq s /\ Cardinality(s) = n
                                                 /\ ~ (total(f, U) <= total(f, s))}
<1>1. \A s \in SUBSET S : /\ s \subseteq P /\ IsFiniteSet(s) /\ Cardinality(s) \in Nat
                          /\ total(f, s) \in Nat
  <2>1. \A s \in SUBSET S : s \subseteq P /\ IsFiniteSet(s) /\ Cardinality(s) \in Nat
    BY FS_Subset, FS_CardinalityType
  <2> QED BY <2>1, SumStep
<1>2. T = {}
  <2>1. SUFFICES ASSUME T # {} PROVE FALSE
    OBVIOUS
  <2>2. PICK m \in T : \A n \in T : m <= n
    <3>1. T \subseteq Nat
      OBVIOUS
    <3> HIDE DEF T
    <3> QED BY <2>1, <3>1, SmallestSize
  <2>3. PICK s \in SUBSET S : U \subseteq s /\ Cardinality(s) = m /\ ~ (total(f, U) <= total(f, s))
    OBVIOUS
  <2>4. total(f, U) \in Nat /\ total(f, s) \in Nat
    BY <1>1
  <2>5. U # s
    BY <2>3, <2>4
  <2>6. PICK q \in s : q \notin U
    BY <2>3, <2>5
  <2>7. /\ s \ {q} \in SUBSET S /\ U \subseteq s \ {q} /\ m \in Nat \ {0}
        /\ Cardinality(s \ {q}) = m - 1
    BY <1>1, <2>3, <2>6, OneLess
  <2>8. total(f, U) <= total(f, s \ {q})
    <3>1. m - 1 \in Nat /\ m - 1 \notin T
      <4> HIDE DEF T
      <4> QED BY <2>2, <2>7
    <3> QED BY <2>7, <3>1
  <2>9. total(f, s) = f[q] + total(f, s \ {q}) /\ f[q] \in Nat /\ total(f, s \ {q}) \in Nat
    BY <1>1, <2>6, <2>7, SumWithout
  <2> QED BY <2>3, <2>4, <2>8, <2>9
<1>3. Cardinality(S) \in Nat /\ Cardinality(S) \notin T
  BY <1>1, <1>2
<1> QED BY <1>3


\* A counter c that has been added to for the elements of H, of which those of A
\* were admitted within the limit m.
Balanced(P, f, m, c, H, A) ==
    /\ A \subseteq H /\ H \subseteq P /\ IsFiniteSet(H)
    /\ c = total(f, H) /\ total(f, A) <= m

\* What the sums of a balanced counter are.
LEMMA BalanceFacts ==
    ASSUME NEW P, NEW f \in [P -> Nat], NEW m \in Nat, NEW c, NEW H, NEW A,
           Balanced(P, f, m, c, H, A), NEW B, B \subseteq A
    PROVE  /\ c \in Nat /\ c = total(f, H)
           /\ total(f, A) \in Nat /\ total(f, A) <= c
           /\ total(f, B) \in Nat /\ total(f, B) <= m
<1>1. /\ A \subseteq P /\ B \subseteq P /\ IsFiniteSet(A) /\ IsFiniteSet(B)
      /\ A \subseteq H /\ H \subseteq P /\ IsFiniteSet(H)
      /\ c = total(f, H) /\ total(f, A) <= m
  BY FS_Subset DEF Balanced
<1>2. total(f, H) \in Nat /\ total(f, A) \in Nat /\ total(f, B) \in Nat
  BY <1>1, SumStep
<1>3. total(f, A) <= total(f, H) /\ total(f, B) <= total(f, A)
  BY <1>1, SumMonotone
<1> QED BY <1>1, <1>2, <1>3

\* At first nothing is held.
LEMMA NothingHeld ==
    ASSUME NEW P, NEW f \in [P -> Nat], NEW m \in Nat
    PROVE  Balanced(P, f, m, 0, {}, {})
<1>1. total(f, {}) = 0 /\ IsFiniteSet({})
  BY FS_EmptySet, SumStep
<1> QED BY <1>1 DEF Balanced

\* Nothing enters and nothing leaves.
LEMMA SameHolders ==
    ASSUME NEW P, NEW f \in [P -> Nat], NEW m \in Nat, NEW c, NEW H, NEW A, NEW B,
           Balanced(P, f, m, c, H, A), B \subseteq A
    PROVE  Balanced(P, f, m, c, H, B)
<1>1. total(f, B) <= m
  BY BalanceFacts
<1> QED BY <1>1 DEF Balanced

\* One element leaves, and what was added for it is taken back.
LEMMA OneHolderLess ==
    ASSUME NEW P, NEW f \in [P -> Nat], NEW m \in Nat, NEW c, NEW H, NEW A, NEW B,
           Balanced(P, f, m, c, H, A), NEW p \in H, B \subseteq A, p \notin B
    PROVE  Balanced(P, f, m, c - f[p], H \ {p}, B)
<1>1. total(f, B) <= m /\ c = total(f, H)
  BY BalanceFacts
<1>2. H \subseteq P /\ IsFiniteSet(H) /\ p \in P /\ A \subseteq H
  BY DEF Balanced
<1>3. IsFiniteSet(H \ {p}) /\ H \ {p} \subseteq P /\ B \subseteq H \ {p}
  BY <1>2, FS_RemoveElement
<1>4. total(f, H) = f[p] + total(f, H \ {p})
  BY <1>2, SumWithout
<1>5. f[p] \in Nat /\ total(f, H \ {p}) \in Nat
  BY <1>2, <1>3, SumStep
<1>6. c - f[p] = total(f, H \ {p})
  BY <1>1, <1>4, <1>5
<1> QED BY <1>1, <1>3, <1>6 DEF Balanced

\* An element enters, and is admitted only within the limit.
LEMMA OneHolderMore ==
    ASSUME NEW P, NEW f \in [P -> Nat], NEW m \in Nat, NEW c, NEW H, NEW A, NEW B,
           Balanced(P, f, m, c, H, A), NEW p \in P, p \notin H,
           \/ B = A
           \/ B = A \cup {p} /\ ~ (c + f[p] > m)
    PROVE  Balanced(P, f, m, c + f[p], H \cup {p}, B)
<1>1. c \in Nat /\ c = total(f, H) /\ total(f, A) \in Nat /\ total(f, A) <= c
      /\ total(f, A) <= m
  BY BalanceFacts
<1>2. A \subseteq H /\ H \subseteq P /\ IsFiniteSet(H) /\ A \subseteq P /\ IsFiniteSet(A)
  BY FS_Subset DEF Balanced
<1>3. IsFiniteSet(H \cup {p}) /\ H \cup {p} \subseteq P /\ B \subseteq H \cup {p}
  BY <1>2, FS_AddElement
<1>4. total(f, H \cup {p}) = f[p] + total(f, H) /\ f[p] \in Nat
  BY <1>2, SumWith
<1>5. c + f[p] = total(f, H \cup {p})
  BY <1>1, <1>4
<1>6. total(f, B) <= m
  <2>1. CASE B = A
    BY <1>1, <2>1
  <2>2. CASE B = A \cup {p} /\ ~ (c + f[p] > m)
    <3>1. total(f, B) = f[p] + total(f, A)
      BY <1>2, <2>2, SumWith
    <3> QED BY <1>1, <1>4, <2>2, <3>1
  <2> QED BY <2>1, <2>2
<1> QED BY <1>3, <1>5, <1>6 DEF Balanced

-----------------------------------------------------------------------------
(* The byte budget.  A payload counts once, wherever it is: OneHolder keeps   *)
(* the reservations, the queue and the parsers apart, so each step adds or    *)
(* removes at most one payload of Holders, and its bytes with it.             *)

undoing == {p \in Payloads : req[p] = "undo"}
Holders == Admitted \cup undoing

\* The byte counter is balanced, and only finitely many payloads are inside,
\* whatever number clients may send.
BytesInv == Balanced(Payloads, Size, MaxBufferedBytes, bufferedBytes, Holders, Admitted)

\* The sizes and the budget are what the lemmas on balanced counters ask for.
LEMMA SizesCount == Size \in [Payloads -> Nat] /\ MaxBufferedBytes \in Nat
BY SizeAssumption, BoundsAssumption

\* Nothing enters and nothing leaves.
LEMMA BytesKept ==
    ASSUME BytesInv, Admitted' \subseteq Admitted, Holders' = Holders,
           bufferedBytes' = bufferedBytes
    PROVE  BytesInv'
BY SizesCount, SameHolders DEF BytesInv

\* One payload leaves, with its bytes.
LEMMA BytesReturned ==
    ASSUME BytesInv, NEW p \in Holders, Admitted' \subseteq Admitted, p \notin Admitted',
           Holders' = Holders \ {p}, bufferedBytes' = bufferedBytes - Size[p]
    PROVE  BytesInv'
BY SizesCount, OneHolderLess DEF BytesInv

\* A payload enters; its handler goes on only within the budget.
LEMMA BytesAdded ==
    ASSUME BytesInv, NEW p \in Payloads, p \notin Holders,
           Holders' = Holders \cup {p}, bufferedBytes' = bufferedBytes + Size[p],
           \/ Admitted' = Admitted
           \/ Admitted' = Admitted \cup {p} /\ ~ (bufferedBytes' > MaxBufferedBytes)
    PROVE  BytesInv'
BY SizesCount, OneHolderMore DEF BytesInv

\* A payload that was just checked, or asks again, holds nothing.
LEMMA NewcomerHoldsNothing ==
    ASSUME TypeOK, OneHolder, NEW p \in Payloads, req[p] \in {"idle", "checked", "refused", "undo"}
    PROVE  p \notin Admitted
<1>1. p \notin Elements(ingestChan)
  BY DEF OneHolder, Elements
<1>2. p \notin {job[w] : w \in {v \in Workers : job[v] # NoJob}}
  BY DEF OneHolder
<1> QED BY <1>1, <1>2 DEF Admitted

\* The handlers.
LEMMA BytesHandler ==
    ASSUME TypeOK, OneHolder, BytesInv, NEW p \in Payloads, Handler(p) \/ ClientRetry(p)
    PROVE  BytesInv'
<1> DEFINE reserving == {q \in Payloads : req[q] = "reserved"}
           jobs == {job[w] : w \in {v \in Workers : job[v] # NoJob}}
<1>1. Admitted = reserving \cup Elements(ingestChan) \cup jobs
  BY DEF Admitted
<1>2. Admitted' = reserving' \cup Elements(ingestChan') \cup jobs
  <2>1. job' = job
    BY DEF Handler, TryIngestEnter, TryIngestReserve, TryIngestSend, TryIngestUndo,
           ClientRetry, parserVars
  <2> QED BY <2>1 DEF Admitted, Elements
<1> HIDE DEF jobs
<1>3. req \in [Payloads -> {"idle", "checked", "reserved", "undo", "accepted", "refused"}]
  BY DEF TypeOK
<1>4. CASE TryIngestEnter(p) \/ ClientRetry(p)
  <2>1. reserving' = reserving /\ undoing' = undoing
    BY <1>3, <1>4 DEF TryIngestEnter, ClientRetry, undoing
  <2>2. ingestChan' = ingestChan /\ bufferedBytes' = bufferedBytes
    BY <1>4 DEF TryIngestEnter, ClientRetry
  <2>3. Admitted' = Admitted
    BY <1>1, <1>2, <2>1, <2>2
  <2>4. Holders' = Holders
    BY <2>1, <2>3 DEF Holders
  <2> QED BY <2>2, <2>3, <2>4, BytesKept
<1>5. CASE TryIngestReserve(p)
  <2>1. req[p] = "checked" /\ ingestChan' = ingestChan /\ bufferedBytes' = bufferedBytes + Size[p]
    BY <1>5 DEF TryIngestReserve
  <2>2. p \notin Admitted /\ p \notin Holders
    BY <2>1, NewcomerHoldsNothing DEF Holders, undoing
  <2>3. CASE bufferedBytes' > MaxBufferedBytes
    <3>1. req' = [req EXCEPT ![p] = "undo"]
      BY <1>5, <2>3 DEF TryIngestReserve
    <3>2. reserving' = reserving /\ undoing' = undoing \cup {p}
      BY <1>3, <2>1, <3>1 DEF undoing
    <3>3. Admitted' = Admitted
      BY <1>1, <1>2, <2>1, <3>2
    <3>4. Holders' = Holders \cup {p}
      BY <3>2, <3>3 DEF Holders
    <3> QED BY <2>1, <2>2, <3>3, <3>4, BytesAdded
  <2>4. CASE ~ (bufferedBytes' > MaxBufferedBytes)
    <3>1. req' = [req EXCEPT ![p] = "reserved"]
      BY <1>5, <2>4 DEF TryIngestReserve
    <3>2. reserving' = reserving \cup {p} /\ undoing' = undoing
      BY <1>3, <2>1, <3>1 DEF undoing
    <3>3. Admitted' = Admitted \cup {p}
      BY <1>1, <1>2, <2>1, <3>2
    <3>4. Holders' = Holders \cup {p}
      BY <3>2, <3>3 DEF Holders
    <3> QED BY <2>1, <2>2, <2>4, <3>3, <3>4, BytesAdded
  <2> QED BY <2>3, <2>4
<1>6. CASE TryIngestSend(p)
  <2>1. req[p] = "reserved" /\ bufferedBytes' = bufferedBytes
    BY <1>6 DEF TryIngestSend
  <2>2. CASE ingestChan' = Append(ingestChan, p) /\ req' = [req EXCEPT ![p] = "accepted"]
    <3>1. reserving' = reserving \ {p} /\ undoing' = undoing /\ p \in reserving
      BY <1>3, <2>1, <2>2 DEF undoing
    <3>2. Elements(ingestChan') = Elements(ingestChan) \cup {p}
      <4>1. ingestChan \in Seq(Payloads)
        BY DEF TypeOK
      <4> QED BY <2>2, <4>1, AppendProperties DEF Elements
    <3>3. Admitted' = Admitted
      BY <1>1, <1>2, <3>1, <3>2
    <3>4. Holders' = Holders
      BY <3>1, <3>3 DEF Holders
    <3> QED BY <2>1, <3>3, <3>4, BytesKept
  <2>3. CASE ingestChan' = ingestChan /\ req' = [req EXCEPT ![p] = "undo"]
    <3>1. reserving' = reserving \ {p} /\ undoing' = undoing \cup {p} /\ p \in reserving
      BY <1>3, <2>1, <2>3 DEF undoing
    <3>2. Admitted' \subseteq Admitted /\ Admitted \subseteq Admitted' \cup {p} /\ p \in Admitted
      BY <1>1, <1>2, <2>3, <3>1
    <3>3. Holders' = Holders
      BY <3>1, <3>2 DEF Holders
    <3> QED BY <2>1, <3>2, <3>3, BytesKept
  <2> QED BY <1>6, <2>2, <2>3 DEF TryIngestSend
<1>7. CASE TryIngestUndo(p)
  <2>1. /\ req[p] = "undo" /\ req' = [req EXCEPT ![p] = "refused"]
        /\ ingestChan' = ingestChan /\ bufferedBytes' = bufferedBytes - Size[p]
    BY <1>7 DEF TryIngestUndo
  <2>2. reserving' = reserving /\ undoing' = undoing \ {p} /\ p \in undoing
    BY <1>3, <2>1 DEF undoing
  <2>3. Admitted' = Admitted /\ p \notin Admitted
    BY <1>1, <1>2, <2>1, <2>2, NewcomerHoldsNothing
  <2>4. Holders' = Holders \ {p} /\ p \in Holders
    BY <2>2, <2>3 DEF Holders
  <2> QED BY <2>1, <2>3, <2>4, BytesReturned
<1> QED BY <1>4, <1>5, <1>6, <1>7 DEF Handler

\* The payloads the parsers hold.
jobs == {job[w] : w \in {v \in Workers : job[v] # NoJob}}

\* A parser takes a payload over from the queue.
LEMMA ReceiveKeepsAdmitted ==
    ASSUME TypeOK, HandsMatchSteps, NEW w \in Workers, ParserReceive(w)
    PROVE  Admitted' = Admitted
<1> DEFINE p == Head(ingestChan)
           c == ingestChan
           n == Len(c)
<1>1. /\ c # <<>> /\ ingestChan' = Tail(c) /\ job' = [job EXCEPT ![w] = p]
      /\ job[w] = NoJob /\ req' = req
      /\ job \in [Workers -> Payloads \cup {NoJob}] /\ c \in Seq(Payloads)
  BY DEF ParserReceive, HandsMatchSteps, handlerVars, TypeOK
<1>2. p \in Payloads /\ p # NoJob
  BY <1>1, HeadTailProperties, NoJobAssumption
<1>3. Elements(c) = Elements(Tail(c)) \cup {p}
  <2>1. n \in Nat \ {0} /\ DOMAIN c = 1..n /\ DOMAIN Tail(c) = 1..(n - 1) /\ p = c[1]
        /\ \A i \in 1..(n - 1) : Tail(c)[i] = c[i + 1]
    BY <1>1
  <2> HIDE DEF c, n, p
  <2>2. ASSUME NEW i \in 1..n, i # 1
        PROVE  \E j \in 1..(n - 1) : Tail(c)[j] = c[i]
    <3>1. i - 1 \in 1..(n - 1) /\ (i - 1) + 1 = i
      BY <2>1, <2>2
    <3>2. Tail(c)[i - 1] = c[(i - 1) + 1]
      BY <2>1, <3>1
    <3> QED BY <3>1, <3>2
  <2>3. \A i \in 1..(n - 1) : i + 1 \in 1..n
    BY <2>1
  <2>4. Elements(c) \subseteq Elements(Tail(c)) \cup {p}
    <3> SUFFICES ASSUME NEW i \in 1..n, i # 1 PROVE c[i] \in Elements(Tail(c))
      BY <2>1 DEF Elements
    <3> QED BY <2>1, <2>2 DEF Elements
  <2>5. Elements(Tail(c)) \cup {p} \subseteq Elements(c)
    BY <2>1, <2>3 DEF Elements
  <2> QED BY <2>4, <2>5 DEF c
<1> HIDE DEF p, c
<1>4. jobs' = jobs \cup {p}
  <2>1. jobs' \subseteq jobs \cup {p}
    BY <1>1 DEF jobs
  <2>2. jobs \subseteq jobs'
    BY <1>1 DEF jobs
  <2>3. p \in jobs'
    BY <1>1, <1>2 DEF jobs
  <2> QED BY <2>1, <2>2, <2>3
<1> QED BY <1>1, <1>3, <1>4 DEF Admitted, jobs, Elements, c

\* A parser that is done lets its payload go, and only that one.
LEMMA ReleaseFreesOne ==
    ASSUME TypeOK, HandsMatchSteps, OneHolder, NEW w \in Workers, ParserRelease(w)
    PROVE  /\ Admitted' = Admitted \ {job[w]} /\ job[w] \in Admitted /\ job[w] \in Payloads
           /\ job[w] # NoJob /\ req[job[w]] = "accepted"
<1> DEFINE p == job[w]
<1>1. /\ ingestChan' = ingestChan /\ job' = [job EXCEPT ![w] = NoJob] /\ req' = req
      /\ job \in [Workers -> Payloads \cup {NoJob}] /\ p # NoJob /\ p \in Payloads
  BY DEF ParserRelease, HandsMatchSteps, TypeOK
<1>2. req[p] = "accepted" /\ p \notin Elements(ingestChan) /\ \A v \in Workers : job[v] = p => v = w
  BY <1>1 DEF OneHolder, Elements
<1>3. jobs' = jobs \ {p} /\ p \in jobs
  <2>1. jobs' \subseteq jobs \ {p}
    BY <1>1, <1>2 DEF jobs
  <2>2. jobs \ {p} \subseteq jobs'
    BY <1>1 DEF jobs
  <2>3. p \in jobs
    BY <1>1 DEF jobs
  <2> QED BY <2>1, <2>2, <2>3
<1> QED BY <1>1, <1>2, <1>3 DEF Admitted, jobs, Elements

\* The parsers.
LEMMA BytesParser ==
    ASSUME TypeOK, HandsMatchSteps, OneHolder, BytesInv, NEW w \in Workers,
           ParserReceive(w) \/ ParserRelease(w)
    PROVE  BytesInv'
<1>1. undoing' = undoing
  BY DEF ParserReceive, ParserRelease, handlerVars, undoing
<1>2. CASE ParserReceive(w)
  <2>1. Admitted' = Admitted /\ bufferedBytes' = bufferedBytes
    BY <1>2, ReceiveKeepsAdmitted DEF ParserReceive, handlerVars
  <2>2. Holders' = Holders
    BY <1>1, <2>1 DEF Holders
  <2> QED BY <2>1, <2>2, BytesKept
<1>3. CASE ParserRelease(w)
  <2> DEFINE p == job[w]
  <2>1. /\ Admitted' = Admitted \ {p} /\ p \in Admitted /\ req[p] = "accepted"
        /\ bufferedBytes' = bufferedBytes - Size[p]
    BY <1>3, ReleaseFreesOne DEF ParserRelease
  <2>2. Holders' = Holders \ {p} /\ p \in Holders
    BY <1>1, <2>1 DEF Holders, undoing
  <2> QED BY <2>1, <2>2, BytesReturned
<1> QED BY <1>2, <1>3

\* Every step of the specification.
LEMMA BytesStep ==
    ASSUME TypeOK, HandsMatchSteps, OneHolder, BytesInv, [Next]_vars
    PROVE  BytesInv'
<1>1. CASE UNCHANGED <<req, bufferedBytes, ingestChan, job>>
  <2>1. Admitted' = Admitted /\ Holders' = Holders
    BY <1>1 DEF Admitted, Holders, undoing, Elements
  <2> QED BY <1>1, <2>1, BytesKept
<1>2. ASSUME NEW w \in Workers, ParserSend(w) \/ ParserExit(w)
      PROVE  UNCHANGED <<req, bufferedBytes, ingestChan, job>>
  BY <1>2 DEF ParserSend, ParserExit, handlerVars
<1>3. CASE fanout \/ batchWriter \/ ShutdownBegin \/ Shutdown \/ UNCHANGED vars
  <2>1. UNCHANGED <<req, bufferedBytes, ingestChan, job>>
    BY <1>3 DEF fanout, FanoutReceive, FanoutBroadcast, FanoutForward, FanoutExit,
       batchWriter, WriterFull, WriterTimer, WriterDrain, WriterWake, WriterReceive,
       ShutdownBegin, Shutdown, ShutdownLock, ShutdownCloseIngest, ShutdownCloseParsed,
       ShutdownCloseBatch, ShutdownDone, vars, handlerVars, parserVars
  <2> QED BY <1>1, <2>1
<1> QED BY <1>1, <1>2, <1>3, BytesHandler, BytesParser DEF Next, parserWorker, Stopped

\* At the start nothing is buffered.
LEMMA BytesStart == Init => BytesInv
<1> SUFFICES ASSUME Init PROVE BytesInv
  OBVIOUS
<1>1. Admitted = {} /\ Holders = {}
  BY DEF Init, Admitted, Holders, undoing, Elements
<1>2. Balanced(Payloads, Size, MaxBufferedBytes, 0, {}, {})
  BY SizesCount, NothingHeld
<1> QED BY <1>1, <1>2 DEF Init, BytesInv

\* TryIngest's counter is exact in every reachable state, and what it admits
\* stays within the budget although it adds before it compares.
THEOREM BytesBalanced == Spec => []ByteBudget
<1>1. BytesInv => ByteBudget
  <2>1. \A S : SumSize(S) = total(Size, S)
    BY DEF SumSize, total
  <2> QED BY <2>1 DEF BytesInv, Balanced, ByteBudget, BytesBalance, AdmittedWithinBudget,
                      Holders, undoing
<1>2. TypeOK /\ HandsMatchSteps /\ OneHolder /\ BytesInv /\ [Next]_vars => BytesInv'
  BY BytesStep
<1> QED BY <1>1, <1>2, BytesStart, TypeCorrect, OrderPreserved, PTL DEF Spec

-----------------------------------------------------------------------------
(* No line is lost.  A parser lets a payload go only when the stream has all  *)
(* of its lines, which StreamFollowsParsers knows of the parser.              *)

\* NoLineLost, row by row.
RowsComplete ==
    \A p \in Payloads :
       /\ \A k \in 1..LineCount[p] : <<p, k>> \in Elements(Stream) =>
             \A m \in 1..k : <<p, m>> \in Elements(Stream)
       /\ req[p] = "accepted" /\ p \notin Admitted =>
             \A k \in 1..LineCount[p] : <<p, k>> \in Elements(Stream)

\* The two say the same.
LEMMA RowByRow == RowsComplete => NoLineLost
<1> SUFFICES ASSUME RowsComplete, NEW p \in Payloads
             PROVE  LET sent == {k \in 1..LineCount[p] : <<p, k>> \in Elements(Stream)}
                    IN  /\ \A k \in sent : \A m \in 1..k : m \in sent
                        /\ req[p] = "accepted" /\ p \notin Admitted => sent = 1..LineCount[p]
  BY DEF NoLineLost
<1>1. \A k \in 1..LineCount[p] : \A m \in 1..k : m \in 1..LineCount[p]
  BY LineCountAssumption
<1> QED BY <1>1 DEF RowsComplete

\* A send adds the line that comes next.
LEMMA RowsSend ==
    ASSUME TypeOK, HandsMatchSteps, FlowInv, RowsComplete, NEW w \in Workers, ParserSend(w)
    PROVE  RowsComplete'
<1> DEFINE x == <<job[w], line[w]>>
<1>1. /\ job[w] # NoJob /\ line[w] \in Nat \ {0}
      /\ UNCHANGED <<req, ingestChan, job>>
  BY DEF ParserSend, HandsMatchSteps, TypeOK, handlerVars
<1>2. Admitted' = Admitted
  BY <1>1 DEF Admitted, Elements
<1>3. Elements(Stream)' = Elements(Stream) \cup {x}
  <2>1. Stream \in Seq(Rows) /\ x \in Rows /\ Stream' = Append(Stream, x)
    BY StreamType, ParserSendAppends
  <2> HIDE DEF x
  <2> QED BY <2>1, AppendProperties DEF Elements
<1>4. \A m \in 1..(line[w] - 1) : <<job[w], m>> \in Elements(Stream)
  BY <1>1 DEF FlowInv, StreamFollowsParsers, Elements
<1>5. ASSUME NEW p \in Payloads, NEW k \in 1..LineCount[p], <<p, k>> \in Elements(Stream)',
             NEW m \in 1..k
      PROVE  <<p, m>> \in Elements(Stream)'
  <2>1. CASE <<p, k>> \in Elements(Stream)
    BY <1>3, <2>1 DEF RowsComplete
  <2>2. CASE p = job[w] /\ k = line[w]
    <3>1. m = line[w] \/ m \in 1..(line[w] - 1)
      BY <1>1, <2>2
    <3> QED BY <1>3, <1>4, <2>2, <3>1
  <2> QED BY <1>3, <1>5, <2>1, <2>2
<1>6. ASSUME NEW p \in Payloads, req'[p] = "accepted", p \notin Admitted', NEW k \in 1..LineCount[p]
      PROVE  <<p, k>> \in Elements(Stream)'
  BY <1>1, <1>2, <1>3, <1>6 DEF RowsComplete
<1> QED BY <1>5, <1>6 DEF RowsComplete

\* A step that adds no row lets no payload go that is not complete.
LEMMA RowsKept ==
    ASSUME RowsComplete, Stream' = Stream,
           \A p \in Payloads :
              req'[p] = "accepted" /\ p \notin Admitted' =>
                 \/ req[p] = "accepted" /\ p \notin Admitted
                 \/ \A k \in 1..LineCount[p] : <<p, k>> \in Elements(Stream)
    PROVE  RowsComplete'
<1>1. Elements(Stream)' = Elements(Stream)
  BY DEF Elements
<1> QED BY <1>1 DEF RowsComplete

\* A handler accepts a payload by queueing it.
LEMMA RowsHandler ==
    ASSUME TypeOK, RowsComplete, NEW p \in Payloads, Handler(p) \/ ClientRetry(p)
    PROVE  RowsComplete'
<1>1. Stream' = Stream
  BY OthersKeepStream
<1>2. job' = job
  BY DEF Handler, TryIngestEnter, TryIngestReserve, TryIngestSend, TryIngestUndo,
         ClientRetry, parserVars
<1>3. Elements(ingestChan) \subseteq Elements(ingestChan')
  <2>1. CASE ingestChan' = ingestChan
    BY <2>1
  <2>2. CASE ingestChan' = Append(ingestChan, p)
    <3>1. ingestChan \in Seq(Payloads)
      BY DEF TypeOK
    <3> QED BY <2>2, <3>1, AppendProperties DEF Elements
  <2> QED BY <2>1, <2>2 DEF Handler, TryIngestEnter, TryIngestReserve, TryIngestSend,
             TryIngestUndo, ClientRetry
<1>4. ASSUME req'[p] = "accepted", req[p] # "accepted" PROVE p \in Elements(ingestChan')
  <2>1. ingestChan' = Append(ingestChan, p) /\ ingestChan \in Seq(Payloads)
    BY <1>4 DEF Handler, TryIngestEnter, TryIngestReserve, TryIngestSend, TryIngestUndo,
       ClientRetry, TypeOK
  <2>2. ingestChan'[Len(ingestChan) + 1] = p /\ Len(ingestChan) + 1 \in DOMAIN ingestChan'
    BY <2>1, AppendProperties
  <2> QED BY <2>2 DEF Elements
<1>5. \A q \in Payloads : q # p => req'[q] = req[q]
  BY DEF Handler, TryIngestEnter, TryIngestReserve, TryIngestSend, TryIngestUndo,
         ClientRetry, TypeOK
<1>6. \A q \in Payloads : req'[q] = "accepted" /\ q \notin Admitted' =>
                             req[q] = "accepted" /\ q \notin Admitted
  BY <1>2, <1>3, <1>4, <1>5 DEF Admitted, Elements
<1> QED BY <1>1, <1>6, RowsKept

\* Every step of the specification.
LEMMA RowsStep ==
    ASSUME TypeOK, HandsMatchSteps, ExitedMeansDrained, FlowInv, RowsComplete, [Next]_vars
    PROVE  RowsComplete'
<1>1. ASSUME NEW w \in Workers, ParserReceive(w) PROVE RowsComplete'
  <2>1. Stream' = Stream /\ req' = req /\ Admitted' = Admitted
    BY <1>1, OthersKeepStream, ReceiveKeepsAdmitted DEF ParserReceive, handlerVars
  <2> QED BY <2>1, RowsKept
<1>2. ASSUME NEW w \in Workers, ParserRelease(w) PROVE RowsComplete'
  <2>1. /\ Stream' = Stream /\ req' = req /\ Admitted' = Admitted \ {job[w]}
        /\ job[w] # NoJob /\ job[w] \in Payloads
    BY <1>2, OthersKeepStream, ReleaseFreesOne DEF ParserRelease, FlowInv
  <2>2. \A m \in 1..(line[w] - 1) : <<job[w], m>> \in Elements(Stream)
    BY <2>1 DEF FlowInv, StreamFollowsParsers, Elements
  <2>3. \A k \in 1..LineCount[job[w]] : k \in 1..(line[w] - 1)
    BY <1>2, <2>1, LineCountAssumption DEF ParserRelease, TypeOK
  <2>4. \A k \in 1..LineCount[job[w]] : <<job[w], k>> \in Elements(Stream)
    BY <2>2, <2>3
  <2> QED BY <2>1, <2>4, RowsKept
<1>3. ASSUME NEW w \in Workers, ParserExit(w) PROVE RowsComplete'
  <2>1. Stream' = Stream /\ UNCHANGED <<req, ingestChan, job>>
    BY <1>3, OthersKeepStream DEF ParserExit, handlerVars
  <2>2. Admitted' = Admitted
    BY <2>1 DEF Admitted, Elements
  <2> QED BY <2>1, <2>2, RowsKept
<1>4. CASE fanout \/ batchWriter \/ ShutdownBegin \/ Shutdown \/ UNCHANGED vars
  <2>1. Stream' = Stream
    BY <1>4, FanoutKeepsStream, WriterKeepsStream, OthersKeepStream
  <2>2. UNCHANGED <<req, ingestChan, job>>
    BY <1>4 DEF fanout, FanoutReceive, FanoutBroadcast, FanoutForward, FanoutExit,
       batchWriter, WriterFull, WriterTimer, WriterDrain, WriterWake, WriterReceive,
       ShutdownBegin, Shutdown, ShutdownLock, ShutdownCloseIngest, ShutdownCloseParsed,
       ShutdownCloseBatch, ShutdownDone, vars, handlerVars, parserVars
  <2>3. Admitted' = Admitted
    BY <2>2 DEF Admitted, Elements
  <2> QED BY <2>1, <2>2, <2>3, RowsKept
<1> QED BY <1>1, <1>2, <1>3, <1>4, RowsHandler, RowsSend DEF Next, parserWorker, Stopped

\* At the start nothing has been accepted.
LEMMA RowsStart == Init => RowsComplete
<1> SUFFICES ASSUME Init PROVE RowsComplete
  OBVIOUS
<1>1. Stream = <<>> /\ Elements(Stream) = {}
  BY DEF Init, Stream, Elements
<1>2. \A p \in Payloads : req[p] # "accepted"
  BY DEF Init
<1> QED BY <1>1, <1>2 DEF RowsComplete

\* The lines of a payload enter the stream one after another from the first, and
\* when no queue and no parser holds it any more they are all there.
THEOREM NothingLost == Spec => []NoLineLost
<1>1. TypeOK /\ HandsMatchSteps /\ ExitedMeansDrained /\ FlowInv /\ RowsComplete /\ [Next]_vars
         => RowsComplete'
  BY RowsStep
<1>2. Spec => []ExitedMeansDrained
  <2> QED BY ExitedInit, ExitedStep, TypeCorrect, PTL DEF Spec
<1>3. Spec => []FlowInv
  BY OrderPreserved, PTL DEF FlowInv
<1> QED BY <1>1, <1>2, <1>3, RowsStart, RowByRow, TypeCorrect, PTL DEF Spec

-----------------------------------------------------------------------------
(* LogPipeline implements IngestContract, for all values of the constants. *)

\* The invariants the simulation rests on.
SimInv ==
    /\ TypeOK /\ HandsMatchSteps
    /\ ExitedMeansDrained /\ NoSendOnClosedChannel
    /\ FlowInv

\* What the simulation needs to know of a reachable state.
LEMMA SimInvariant == Spec => []SimInv
<1> QED BY ExitedInit, TypeCorrect, ExitedStep, OrderPreserved, PTL DEF Spec, SimInv, FlowInv

acceptedSet == {p \in Payloads : req[p] = "accepted"}

\* The contract's state does not change while its four parts do not.
LEMMA ContractStutter ==
    ASSUME acceptedSet' = acceptedSet, Stream' = Stream, UNCHANGED <<db, dropped>>
    PROVE  UNCHANGED Contract!vars
BY DEF acceptedSet, Contract!vars

\* A handler's step accepts its payload or changes nothing of the contract.
LEMMA HandlerSimulates ==
    ASSUME SimInv, NEW p \in Payloads, Handler(p) \/ ClientRetry(p)
    PROVE  Contract!Next \/ UNCHANGED Contract!vars
<1>1. Stream' = Stream
  BY OthersKeepStream
<1>2. UNCHANGED <<db, dropped>>
  BY DEF Handler, TryIngestEnter, TryIngestReserve, TryIngestSend,
         TryIngestUndo, ClientRetry, writerVars
<1>3. req \in [Payloads -> {"idle", "checked", "reserved", "undo",
                            "accepted", "refused"}]
  BY DEF SimInv, TypeOK
<1>4. CASE TryIngestSend(p) /\ req'[p] = "accepted"
  <2>1. p \notin acceptedSet /\ acceptedSet' = acceptedSet \cup {p}
    BY <1>3, <1>4 DEF acceptedSet, TryIngestSend
  <2>2. dropped = <<>>
    BY <1>4 DEF SimInv, ExitedMeansDrained, Readers, closed, batchClosed, TryIngestSend
  <2>3. Contract!Accept(p)
    BY <1>1, <1>2, <2>1, <2>2 DEF Contract!Accept, acceptedSet
  <2> QED BY <2>3 DEF Contract!Next
<1>5. CASE ~(TryIngestSend(p) /\ req'[p] = "accepted")
  <2>1. acceptedSet' = acceptedSet
    BY <1>3, <1>5 DEF acceptedSet, Handler, TryIngestEnter, TryIngestReserve,
       TryIngestSend, TryIngestUndo, ClientRetry
  <2> QED BY <1>1, <1>2, <2>1, ContractStutter
<1> QED BY <1>4, <1>5

\* A parser's send emits the next line of the payload it holds.
LEMMA SendSimulates ==
    ASSUME SimInv, NEW w \in Workers, ParserSend(w)
    PROVE  Contract!Next
<1> DEFINE p == job[w]
           k == line[w]
<1>1. /\ p \in Payloads /\ k \in Nat \ {0} /\ k <= LineCount[p]
      /\ parser[w] = "send"
  BY DEF SimInv, TypeOK, HandsMatchSteps, ParserSend
<1>2. p \in acceptedSet
  BY <1>1, NoJobAssumption DEF SimInv, FlowInv, OneHolder, acceptedSet
<1>3. dropped = <<>>
  BY <1>1 DEF SimInv, ExitedMeansDrained, parsersExited
<1>4. Stream' = Append(Stream, <<p, k>>)
  BY ParserSendAppends DEF SimInv
<1>5. Stream \in Seq(Rows) /\ DOMAIN Stream = 1..Len(Stream)
  BY StreamType DEF SimInv
<1>6. ~Contract!InStream(<<p, k>>)
  <2> SUFFICES ASSUME NEW i \in DOMAIN Stream, Stream[i] = <<p, k>>
               PROVE  FALSE
    BY <1>5 DEF Contract!InStream
  <2>1. Stream[i][2] < line[w]
    BY DEF SimInv, FlowInv, StreamFollowsParsers
  <2> QED BY <1>1, <2>1
<1>7. \A m \in 1..(k - 1) : Contract!InStream(<<p, m>>)
  BY <1>1, <1>5, NoJobAssumption
     DEF SimInv, FlowInv, StreamFollowsParsers, Contract!InStream
<1>8. UNCHANGED <<req, db, dropped>>
  BY DEF ParserSend, handlerVars, writerVars
<1>9. Contract!Emit(p, k)
  BY <1>2, <1>3, <1>4, <1>6, <1>7, <1>8 DEF Contract!Emit, acceptedSet
<1>10. k \in 1..LineCount[p]
  BY <1>1, LineCountAssumption
<1> QED BY <1>1, <1>9, <1>10 DEF Contract!Next

\* What is stored after a flush is the stream up to and including the buffer.
LEMMA PrefixOfConcat ==
    ASSUME NEW S, NEW a \in Seq(S), NEW b \in Seq(S)
    PROVE  SubSeq(a \o b, 1, Len(a)) = a
<1>1. SubSeq(a \o b, 1, Len(a)) \in Seq(S)
  BY SubSeqProperties
<1>2. Len(SubSeq(a \o b, 1, Len(a))) = Len(a)
  BY SubSeqProperties
<1>3. \A i \in 1..Len(a) : SubSeq(a \o b, 1, Len(a))[i] = a[i]
  BY SubSeqProperties
<1> QED BY <1>1, <1>2, <1>3, SeqEqual

\* The stream as what the writer has taken and what it has not.
LEMMA StreamSplit ==
    ASSUME TypeOK
    PROVE  Stream = ((db \o dropped) \o buf) \o ((batchInputChan \o hand) \o parsedChan)
<1> DEFINE pre == (db \o dropped) \o buf
<1>1. pre \in Seq(Rows)
  BY DEF TypeOK
<1> HIDE DEF pre
<1>2. batchInputChan \in Seq(Rows) /\ hand \in Seq(Rows) /\ parsedChan \in Seq(Rows)
  BY DEF TypeOK
<1>3. batchInputChan \o hand \in Seq(Rows)
  BY <1>2
<1>4. (pre \o batchInputChan) \o hand = pre \o (batchInputChan \o hand)
  BY <1>1, <1>2, ConcatAssoc, Zenon
<1>5. (pre \o (batchInputChan \o hand)) \o parsedChan
          = pre \o ((batchInputChan \o hand) \o parsedChan)
  BY <1>1, <1>2, <1>3, ConcatAssoc, Zenon
<1> QED BY <1>4, <1>5, Zenon DEF Stream, pre

\* A flush extends the stored rows along the stream.
LEMMA FlushStoresPrefix ==
    ASSUME SimInv, dropped = <<>>
    PROVE  /\ SubSeq(Stream, 1, Len(db) + Len(buf)) = db \o buf
           /\ Len(db) + Len(buf) <= Len(Stream)
           /\ Len(db) \in Nat /\ Len(buf) \in Nat /\ Len(Stream) \in Nat
<1>1. /\ db \in Seq(Rows) /\ buf \in Seq(Rows) /\ batchInputChan \in Seq(Rows)
      /\ hand \in Seq(Rows) /\ parsedChan \in Seq(Rows)
  BY DEF SimInv, TypeOK
<1> DEFINE pre == db \o buf
           rest == (batchInputChan \o hand) \o parsedChan
<1>2. pre \in Seq(Rows) /\ rest \in Seq(Rows) /\ Len(pre) = Len(db) + Len(buf)
  BY <1>1
<1>3. Stream = pre \o rest
  <2>1. db \o dropped = db
    BY <1>1, ConcatEmptySeq
  <2> QED BY <2>1, StreamSplit DEF SimInv
<1> HIDE DEF pre, rest
<1>4. SubSeq(pre \o rest, 1, Len(pre)) = pre /\ Len(pre) <= Len(pre \o rest)
  BY <1>2, PrefixOfConcat
<1>5. Len(db) \in Nat /\ Len(buf) \in Nat /\ Len(Stream) \in Nat
  BY <1>1, <1>2, <1>3
<1> QED BY <1>2, <1>3, <1>4, <1>5 DEF pre

\* The writer's steps store a longer prefix, abandon the rest, or change
\* nothing of the contract.
LEMMA WriterSimulates ==
    ASSUME SimInv, batchWriter
    PROVE  Contract!Next \/ UNCHANGED Contract!vars
<1>1. Stream' = Stream
  BY WriterKeepsStream DEF SimInv
<1>2. UNCHANGED req
  BY DEF batchWriter, WriterFull, WriterTimer, WriterDrain, WriterWake,
         WriterReceive, handlerVars
<1>3. CASE UNCHANGED <<db, dropped>>
  BY <1>1, <1>2, <1>3, ContractStutter DEF acceptedSet
<1>4. CASE ~UNCHANGED <<db, dropped>>
  <2>1. writer = "loop"
    BY <1>4 DEF batchWriter, WriterFull, WriterTimer, WriterDrain, WriterWake,
       WriterReceive
  <2>2. dropped = <<>>
    BY <2>1 DEF SimInv, ExitedMeansDrained
  <2>3. buf \in Seq(Rows) /\ db \in Seq(Rows)
    BY DEF SimInv, TypeOK
  <2>4. \/ db' = db \o buf /\ dropped' = <<>>
        \/ db' = db /\ dropped' = buf
    BY <1>4, <2>2 DEF batchWriter, WriterFull, WriterTimer, WriterDrain,
       WriterWake, WriterReceive, tryFlush
  <2>5. buf # <<>>
    BY <1>4, <2>2, <2>3, <2>4, ConcatEmptySeq
  <2>6. Len(buf) > 0
    BY <2>3, <2>5
  <2> DEFINE n == Len(db) + Len(buf)
  <2>7. /\ SubSeq(Stream, 1, n) = db \o buf /\ n <= Len(Stream)
        /\ Len(db) \in Nat /\ Len(buf) \in Nat /\ Len(Stream) \in Nat
    BY <2>2, FlushStoresPrefix
  <2>8. CASE db' = db \o buf /\ dropped' = <<>>
    <3>1. n \in 1..Len(Stream) /\ Len(db) < n
      BY <2>6, <2>7
    <3>2. Contract!Store(n)
      BY <1>1, <1>2, <2>2, <2>7, <2>8, <3>1 DEF Contract!Store
    <3> QED BY <3>1, <3>2 DEF Contract!Next
  <2>9. CASE db' = db /\ dropped' = buf
    <3>1. Len(db) < Len(Stream)
      BY <2>6, <2>7
    <3>2. Contract!Abandon
      BY <1>1, <1>2, <2>2, <2>5, <2>9, <3>1 DEF Contract!Abandon
    <3> QED BY <3>2 DEF Contract!Next
  <2> QED BY <2>4, <2>8, <2>9
<1> QED BY <1>3, <1>4

\* Steps that touch neither answers nor rows are stutters of the contract.
LEMMA OthersSimulate ==
    ASSUME SimInv,
           \/ fanout
           \/ \E w \in Workers : ParserReceive(w) \/ ParserRelease(w) \/ ParserExit(w)
           \/ ShutdownBegin \/ Shutdown
           \/ UNCHANGED vars
    PROVE  UNCHANGED Contract!vars
<1>1. Stream' = Stream
  BY OthersKeepStream, FanoutKeepsStream DEF SimInv
<1>2. UNCHANGED <<req, db, dropped>>
  BY DEF fanout, FanoutReceive, FanoutBroadcast, FanoutForward, FanoutExit,
         ParserReceive, ParserRelease, ParserExit, Shutdown, ShutdownBegin,
         ShutdownLock, ShutdownCloseIngest, ShutdownCloseParsed,
         ShutdownCloseBatch, ShutdownDone, vars, handlerVars, writerVars
<1> QED BY <1>1, <1>2, ContractStutter DEF acceptedSet

\* The ingestion pipeline keeps the promise of IngestContract: accepted lines
\* are stored once and in order as a growing prefix of one stream, and rows are
\* given up only by the last flush of a shutdown.
THEOREM Refinement == Spec => ImplementsContract
<1>1. Init => Contract!Init
  <2> SUFFICES ASSUME Init PROVE Contract!Init
    OBVIOUS
  <2>1. Stream = <<>>
    BY DEF Init, Stream
  <2> QED BY <2>1 DEF Init, Contract!Init
<1>2. SimInv /\ [Next]_vars => [Contract!Next]_(Contract!vars)
  <2> SUFFICES ASSUME SimInv, [Next]_vars
               PROVE  Contract!Next \/ UNCHANGED Contract!vars
    OBVIOUS
  <2> QED BY HandlerSimulates, SendSimulates, WriterSimulates, OthersSimulate
          DEF Next, parserWorker, Stopped
<1> QED BY <1>1, <1>2, SimInvariant, PTL DEF Spec, ImplementsContract, Contract!Spec

-----------------------------------------------------------------------------
(* The metrics pipeline.  A second ingestion pipeline with one writer and no  *)
(* parser; its counter is balanced by the same lemmas.                        *)

-----------------------------------------------------------------------------
(* Flattening a sequence of sequences, which FlattenSeq does through a table *)
(* of the flattened prefixes.                                                *)

\* Concatenation is associative, in the form Zenon can instantiate.
LEMMA Associative ==
    ASSUME NEW S
    PROVE  \A a, b, c \in Seq(S) : (a \o b) \o c = a \o (b \o c)
BY ConcatAssociative

\* g holds the flattened prefixes of q.
IsFlat(g, q) == \A i \in 1..Len(q) : g[i] = IF i = 1 THEN q[i] ELSE g[i - 1] \o q[i]

\* Every sequence has such a table.
LEMMA FlatTableExists ==
    ASSUME NEW S, NEW q \in Seq(Seq(S))
    PROVE  \E g \in [1..Len(q) -> Seq(S)] : IsFlat(g, q)
<1> DEFINE Flat(g, n) == \A i \in 1..n : g[i] = IF i = 1 THEN q[i] ELSE g[i - 1] \o q[i]
           Good(n) == \E g \in [1..n -> Seq(S)] : Flat(g, n)
           T == {n \in 0..Len(q) : ~ Good(n)}
<1>1. T = {}
  <2>1. SUFFICES ASSUME T # {} PROVE FALSE
    OBVIOUS
  <2>2. PICK m \in T : \A n \in T : m <= n
    <3>1. T \subseteq Nat
      OBVIOUS
    <3> HIDE DEF T
    <3> QED BY <2>1, <3>1, SmallestSize
  <2>3. m \in 0..Len(q) /\ ~ Good(m)
    OBVIOUS
  <2>4. m # 0
    <3> DEFINE g == [i \in 1..0 |-> <<>>]
    <3>1. g \in [1..0 -> Seq(S)] /\ Flat(g, 0)
      OBVIOUS
    <3>2. Good(0)
      BY <3>1
    <3> HIDE DEF Good
    <3> QED BY <2>3, <3>2
  <2>5. m \in 1..Len(q) /\ m - 1 \in 0..Len(q) /\ m - 1 \notin T
    <3> HIDE DEF T, Good
    <3> QED BY <2>2, <2>3, <2>4
  <2>6. PICK g \in [1..(m - 1) -> Seq(S)] : Flat(g, m - 1)
    BY <2>5
  <2> DEFINE e == IF m = 1 THEN q[m] ELSE g[m - 1] \o q[m]
             h == [i \in 1..m |-> IF i = m THEN e ELSE g[i]]
  <2>7. q[m] \in Seq(S) /\ (m # 1 => g[m - 1] \in Seq(S))
    BY <2>5, <2>6
  <2>8. e \in Seq(S)
    BY <2>7
  <2>9. h \in [1..m -> Seq(S)]
    <3> HIDE DEF e
    <3> QED BY <2>5, <2>6, <2>8
  <2>10. Flat(h, m)
    <3> SUFFICES ASSUME NEW i \in 1..m
                 PROVE  h[i] = IF i = 1 THEN q[i] ELSE h[i - 1] \o q[i]
      OBVIOUS
    <3>1. i # 1 => i - 1 \in 1..(m - 1) /\ i - 1 \in 1..m /\ h[i - 1] = g[i - 1]
      BY <2>5
    <3>2. CASE i = m
      BY <2>5, <3>1, <3>2
    <3>3. CASE i # m
      <4>1. i \in 1..(m - 1) /\ h[i] = g[i]
        BY <2>5, <3>3
      <4> QED BY <2>6, <3>1, <4>1
    <3> QED BY <3>2, <3>3
  <2> HIDE DEF h, Flat
  <2> QED BY <2>3, <2>9, <2>10
<1>2. Good(Len(q))
  <2>1. Len(q) \in 0..Len(q)
    OBVIOUS
  <2> HIDE DEF Good
  <2> QED BY <1>1, <2>1
<1> QED BY <1>2 DEF IsFlat

\* FlattenSeq reads the last entry of such a table.
LEMMA FlatTable ==
    ASSUME NEW S, NEW q \in Seq(Seq(S)), q # <<>>
    PROVE  \E g : IsFlat(g, q) /\ FlattenSeq(q) = g[Len(q)]
<1> DEFINE IsTable(g) == g = [i \in 1..Len(q) |-> IF i = 1 THEN q[i] ELSE g[i - 1] \o q[i]]
<1>1. FlattenSeq(q) = (CHOOSE g : IsTable(g))[Len(q)]
  <2>1. Len(q) # 0
    BY LenZero
  <2> QED BY <2>1 DEF FlattenSeq
<1>2. \E g : IsTable(g)
  <2>1. PICK g \in [1..Len(q) -> Seq(S)] : IsFlat(g, q)
    BY FlatTableExists
  <2>2. g = [i \in 1..Len(q) |-> g[i]]
    OBVIOUS
  <2>3. IsTable(g)
    BY <2>1, <2>2 DEF IsFlat
  <2> HIDE DEF IsTable
  <2> QED BY <2>3
<1>3. IsTable(CHOOSE g : IsTable(g))
  BY <1>2
<1>4. PICK g : IsTable(g) /\ FlattenSeq(q) = g[Len(q)]
  BY <1>1, <1>3
<1> QED BY <1>4 DEF IsFlat

\* The first k entries of q and r are the same.
SameUpTo(q, r, k) == k <= Len(q) /\ k <= Len(r) /\ \A i \in 1..k : q[i] = r[i]

\* Tables of two sequences agree as far as the sequences do.
LEMMA FlatTablesAgree ==
    ASSUME NEW S, NEW q \in Seq(Seq(S)), NEW r \in Seq(Seq(S)), NEW g, NEW h,
           IsFlat(g, q), IsFlat(h, r),
           NEW k \in Nat, SameUpTo(q, r, k)
    PROVE  \A i \in 1..k : g[i] \in Seq(S) /\ g[i] = h[i]
<1> DEFINE Good(n) == g[n] \in Seq(S) /\ g[n] = h[n]
           T == {n \in 1..k : ~ Good(n)}
<1>1. T = {}
  <2>1. SUFFICES ASSUME T # {} PROVE FALSE
    OBVIOUS
  <2>2. PICK m \in T : \A n \in T : m <= n
    <3>1. T \subseteq Nat
      OBVIOUS
    <3> HIDE DEF T
    <3> QED BY <2>1, <3>1, SmallestSize
  <2>3. m \in 1..k /\ ~ Good(m)
    OBVIOUS
  <2>4. q[m] \in Seq(S) /\ r[m] = q[m] /\ m \in 1..Len(q) /\ m \in 1..Len(r)
    BY <2>3 DEF SameUpTo
  <2>5. m # 1
    <3>1. m = 1 => g[m] = q[m] /\ h[m] = r[m]
      BY <2>4 DEF IsFlat
    <3> QED BY <2>3, <2>4, <3>1
  <2>6. Good(m - 1)
    <3> HIDE DEF Good
    <3>1. m - 1 \in 1..k /\ m - 1 \notin T
      <4> HIDE DEF T
      <4> QED BY <2>2, <2>3, <2>5
    <3> QED BY <3>1
  <2>7. g[m] = g[m - 1] \o q[m] /\ h[m] = h[m - 1] \o r[m]
    BY <2>4, <2>5 DEF IsFlat
  <2> QED BY <2>3, <2>4, <2>6, <2>7
<1> QED BY <1>1

\* The entries of a table are sequences.
LEMMA FlatEntries ==
    ASSUME NEW S, NEW q \in Seq(Seq(S)), NEW g, IsFlat(g, q)
    PROVE  \A i \in 1..Len(q) : g[i] \in Seq(S)
<1>1. SameUpTo(q, q, Len(q)) /\ Len(q) \in Nat
  BY DEF SameUpTo
<1>2. \A i \in 1..Len(q) : g[i] \in Seq(S) /\ g[i] = g[i]
  BY <1>1, FlatTablesAgree
<1> QED BY <1>2

\* A flattened sequence of sequences over S is one over S.
LEMMA FlatType ==
    ASSUME NEW S, NEW q \in Seq(Seq(S))
    PROVE  FlattenSeq(q) \in Seq(S)
<1>1. CASE q = <<>>
  BY <1>1 DEF FlattenSeq
<1>2. CASE q # <<>>
  <2>1. PICK g : IsFlat(g, q) /\ FlattenSeq(q) = g[Len(q)]
    BY <1>2, FlatTable
  <2>2. \A i \in 1..Len(q) : g[i] \in Seq(S)
    BY <2>1, FlatEntries
  <2>3. Len(q) \in 1..Len(q)
    BY <1>2
  <2> QED BY <2>1, <2>2, <2>3
<1> QED BY <1>1, <1>2

\* A sequence appended adds its elements at the end.
LEMMA FlatAppend ==
    ASSUME NEW S, NEW q \in Seq(Seq(S)), NEW e \in Seq(S)
    PROVE  FlattenSeq(Append(q, e)) = FlattenSeq(q) \o e
<1> DEFINE r == Append(q, e)
           n == Len(q) + 1
<1>1. /\ r \in Seq(Seq(S)) /\ r # <<>> /\ Len(r) = n /\ n \in Nat \ {0} /\ r[n] = e
      /\ \A i \in 1..Len(q) : q[i] = r[i]
  BY AppendProperties
<1> HIDE DEF r
<1>2. PICK h : IsFlat(h, r) /\ FlattenSeq(r) = h[n]
  BY <1>1, FlatTable
<1>3. h[n] = IF n = 1 THEN e ELSE h[n - 1] \o e
  BY <1>1, <1>2 DEF IsFlat
<1>4. CASE q = <<>>
  <2>1. FlattenSeq(q) = <<>> /\ n = 1
    BY <1>4 DEF FlattenSeq
  <2>2. <<>> \o e = e
    BY ConcatEmptySeq
  <2> QED BY <1>2, <1>3, <2>1, <2>2 DEF r
<1>5. CASE q # <<>>
  <2>1. PICK g : IsFlat(g, q) /\ FlattenSeq(q) = g[Len(q)]
    BY <1>5, FlatTable
  <2>2. Len(q) \in Nat /\ SameUpTo(q, r, Len(q)) /\ Len(q) \in 1..Len(q) /\ n # 1 /\ n - 1 = Len(q)
    BY <1>1, <1>5 DEF SameUpTo
  <2>3. \A i \in 1..Len(q) : g[i] \in Seq(S) /\ g[i] = h[i]
    BY <1>1, <1>2, <2>1, <2>2, FlatTablesAgree
  <2> QED BY <1>2, <1>3, <2>1, <2>2, <2>3 DEF r
<1> QED BY <1>4, <1>5

\* The first sequence's elements come first.
LEMMA FlatTail ==
    ASSUME NEW S, NEW q \in Seq(Seq(S)), q # <<>>
    PROVE  FlattenSeq(q) = Head(q) \o FlattenSeq(Tail(q))
<1>0. \A x, y, z \in Seq(S) : (x \o y) \o z = x \o (y \o z)
  BY Associative
<1> DEFINE r == Tail(q)
           a == Head(q)
<1>1. /\ r \in Seq(Seq(S)) /\ a \in Seq(S) /\ Len(r) = Len(q) - 1 /\ Len(q) \in Nat \ {0}
      /\ q[1] = a /\ \A i \in 1..Len(r) : r[i] = q[i + 1]
  BY HeadTailProperties
<1>2. PICK g : IsFlat(g, q) /\ FlattenSeq(q) = g[Len(q)]
  BY FlatTable
<1> HIDE DEF r, a
<1>3. g[1] = a
  BY <1>1, <1>2 DEF IsFlat
<1>4. CASE r = <<>>
  <2>1. FlattenSeq(r) = <<>> /\ Len(q) = 1
    BY <1>1, <1>4 DEF FlattenSeq
  <2>2. a \o <<>> = a
    BY <1>1, ConcatEmptySeq
  <2> QED BY <1>2, <1>3, <2>1, <2>2 DEF r, a
<1>5. CASE r # <<>>
  <2>1. PICK h : IsFlat(h, r) /\ FlattenSeq(r) = h[Len(r)]
    BY <1>1, <1>5, FlatTable
  <2>2. Len(r) \in Nat \ {0}
    BY <1>1, <1>5, EmptySeq
  <2>3. \A i \in 1..Len(r) : h[i] \in Seq(S)
    BY <1>1, <2>1, FlatEntries
  <2> DEFINE Good(n) == g[n + 1] = a \o h[n]
             T == {n \in 1..Len(r) : ~ Good(n)}
  <2>4. T = {}
    <3>1. SUFFICES ASSUME T # {} PROVE FALSE
      OBVIOUS
    <3>2. PICK m \in T : \A n \in T : m <= n
      <4>1. T \subseteq Nat
        OBVIOUS
      <4> HIDE DEF T
      <4> QED BY <3>1, <4>1, SmallestSize
    <3>3. m \in 1..Len(r) /\ ~ Good(m)
      OBVIOUS
    <3>4. /\ m + 1 \in 1..Len(q) /\ m + 1 # 1 /\ (m + 1) - 1 = m
          /\ r[m] = q[m + 1] /\ r[m] \in Seq(S)
      <4>1. m \in 1..Len(r)
        BY <3>3
      <4>2. m + 1 \in 1..Len(q) /\ m + 1 # 1 /\ (m + 1) - 1 = m
        BY <1>1, <2>2, <4>1
      <4>3. r[m] = q[m + 1] /\ r[m] \in Seq(S)
        BY <1>1, <4>1
      <4> QED BY <4>2, <4>3
    <3>5. g[m + 1] = g[m] \o r[m]
      BY <1>2, <3>4 DEF IsFlat
    <3>6. m # 1
      <4>1. m = 1 => h[m] = r[m] /\ g[m] = a
        BY <1>3, <2>1, <3>3 DEF IsFlat
      <4> QED BY <3>3, <3>5, <4>1
    <3>7. m - 1 \in 1..Len(r) /\ (m - 1) + 1 = m /\ Good(m - 1)
      <4> HIDE DEF Good
      <4>1. m - 1 \in 1..Len(r) /\ (m - 1) + 1 = m /\ m - 1 \notin T
        <5> HIDE DEF T
        <5> QED BY <2>2, <3>2, <3>3, <3>6
      <4> QED BY <4>1
    <3>8. g[m] = a \o h[m - 1]
      BY <3>7
    <3>9. h[m] = h[m - 1] \o r[m] /\ h[m - 1] \in Seq(S)
      BY <2>1, <2>3, <3>3, <3>6, <3>7 DEF IsFlat
    <3>10. (a \o h[m - 1]) \o r[m] = a \o (h[m - 1] \o r[m])
      BY <1>0, <1>1, <3>4, <3>9, Zenon
    <3> QED BY <3>3, <3>5, <3>8, <3>9, <3>10
  <2>5. Good(Len(r))
    <3>1. Len(r) \in 1..Len(r)
      BY <2>2
    <3> HIDE DEF Good
    <3> QED BY <2>4, <3>1
  <2>6. Len(r) + 1 = Len(q)
    BY <1>1
  <2> QED BY <1>2, <2>1, <2>5, <2>6 DEF r, a
<1> QED BY <1>4, <1>5

-----------------------------------------------------------------------------
(* The invariants of the metrics pipeline. *)

\* A queued batch was accepted, and is in the queue once.
BatchesApart ==
    /\ \A i \in DOMAIN batchCh : push[batchCh[i]] = "accepted"
    /\ \A i, j \in DOMAIN batchCh : batchCh[i] = batchCh[j] => i = j

\* Shutdown's order: after the lock no producer is inside TryPush, the writer
\* leaves its loop only when the channel is closed and empty, and gives rows up
\* only on its way out.
WriterAtEnd ==
    /\ mClosed => Pushers = {}
    /\ mWriter \in {"drain", "exited"} => batchChClosed /\ batchCh = <<>>
    /\ mWriter = "exited" => mBuf = <<>>
    /\ mDropped # <<>> => mWriter = "exited"
    /\ mShut = "down" => mWriter = "exited"

\* The writer receives only below one INSERT, so it holds at most the largest
\* batch more.
BufferBound ==
    \A b \in Batches :
        (\A c \in Batches : RowCount[c] <= RowCount[b]) => Len(mBuf) < InsertSize + RowCount[b]

\* The batches admitted to the queue, and all that bufferedRows counts.
rowsAdmitted == Queued \cup {b \in Batches : push[b] = "reserved"}
rowsHeld     == Queued \cup {b \in Batches : push[b] \in {"reserved", "undo"}}

\* The row counter is balanced.
RowsInv == Balanced(Batches, RowCount, MaxBufferedRows, bufferedRows, rowsHeld, rowsAdmitted)

\* The rows of the batches of a queue, in order, and the log of the contract.
queueRows(q) == FlattenSeq([i \in DOMAIN q |-> RowsOf(q[i])])
metricsLog   == ((mDb \o mDropped) \o mBuf) \o queueRows(batchCh)

\* Only accepted batches have rows in the log.
LogAccepted == \A i \in DOMAIN metricsLog : push[metricsLog[i][1]] = "accepted"

MetricsIInv ==
    MetricsTypeOK /\ BatchesApart /\ WriterAtEnd /\ BufferBound /\ RowsInv /\ LogAccepted

\* The constants have their types.
LEMMA MTypes ==
    /\ RowCount \in [Batches -> Nat] /\ MaxBufferedRows \in Nat
    /\ InsertSize \in Nat \ {0} /\ BatchChanSize \in Nat \ {0}
BY RowCountAssumption, MetricsBoundsAssumption

\* tryFlush returns to the loop, to the back-off or, in the drain, to the exit.
LEMMA WriterReturns ==
    ASSUME FlushReturn
    PROVE  /\ mWriter = "drain" => mWriter' = "exited"
           /\ mWriter # "drain" => mWriter' \in {"backoff", "loop"}
BY DEF FlushReturn

\* TryPush and the retry preserve the types.
LEMMA PushTypes ==
    ASSUME MetricsTypeOK, NEW b \in Batches, TryPush(b) \/ ProducerRetry(b)
    PROVE  MetricsTypeOK'
<1> USE MTypes
<1>1. CASE TryPushEmpty(b) \/ TryPushEnter(b) \/ ProducerRetry(b)
  BY <1>1 DEF MetricsTypeOK, TryPushEmpty, TryPushEnter, ProducerRetry
<1>2. CASE TryPushReserve(b)
  BY <1>2 DEF MetricsTypeOK, TryPushReserve
<1>3. CASE TryPushSend(b)
  <2>0. batchCh \in Seq(Batches)
    BY DEF MetricsTypeOK
  <2>1. batchCh' \in Seq(Batches)
    BY <1>3, <2>0, AppendType DEF TryPushSend
  <2> QED BY <1>3, <2>1 DEF MetricsTypeOK, TryPushSend
<1>4. CASE TryPushUndo(b)
  BY <1>4 DEF MetricsTypeOK, TryPushUndo
<1> QED BY <1>1, <1>2, <1>3, <1>4 DEF TryPush

\* The rows of a batch.
LEMMA RowsOfType ==
    ASSUME NEW b \in Batches
    PROVE  /\ RowsOf(b) \in Seq(MetricRows) /\ Len(RowsOf(b)) = RowCount[b]
           /\ \A i \in 1..RowCount[b] : RowsOf(b)[i] = <<b, i>>
<1>1. RowCount[b] \in Nat
  BY MTypes
<1>2. \A i \in 1..RowCount[b] : <<b, i>> \in MetricRows
  BY <1>1 DEF MetricRows
<1> HIDE DEF MetricRows
<1> QED BY <1>1, <1>2 DEF RowsOf

\* The writer's steps and Shutdown's preserve the types.
LEMMA WriterLoopTypes ==
    ASSUME MetricsTypeOK, writerLoop \/ MetricsShutdownBegin \/ MetricsShutdown
    PROVE  MetricsTypeOK'
<1> USE MTypes
<1>1. CASE ReceiveBatch
  <2>1. Head(batchCh) \in Batches /\ batchCh' \in Seq(Batches)
    BY <1>1, HeadTailType DEF MetricsTypeOK, ReceiveBatch
  <2>2. RowsOf(Head(batchCh)) \in Seq(MetricRows)
    BY <2>1, RowsOfType
  <2>3. mBuf' \in Seq(MetricRows)
    BY <1>1, <2>2 DEF MetricsTypeOK, ReceiveBatch
  <2>4. bufferedRows' \in Int
    BY <1>1, <2>1 DEF MetricsTypeOK, ReceiveBatch
  <2> QED BY <1>1, <2>1, <2>3, <2>4 DEF MetricsTypeOK, ReceiveBatch
<1>2. CASE BeginFlush \/ WakeUp
  BY <1>2 DEF MetricsTypeOK, BeginFlush, WakeUp
<1>3. CASE FlushChunk
  <2>1. mDb' \in Seq(MetricRows) /\ mBuf' \in Seq(MetricRows)
    BY <1>3 DEF MetricsTypeOK, FlushChunk
  <2> QED BY <1>3, <2>1 DEF MetricsTypeOK, FlushChunk
<1>4. CASE FlushReturn
  <2>1. mDropped' \in Seq(MetricRows) /\ mBuf' \in Seq(MetricRows)
    BY <1>4 DEF MetricsTypeOK, FlushReturn
  <2>2. mWriter' \in {"exited", "backoff", "loop"}
    BY <1>4, WriterReturns
  <2> QED BY <1>4, <2>1, <2>2 DEF MetricsTypeOK, FlushReturn
<1>5. CASE MetricsShutdownBegin \/ MetricsShutdown
  BY <1>5 DEF MetricsTypeOK, MetricsShutdownBegin, MetricsShutdown, MetricsShutdownLock,
              MetricsShutdownCloseBatchCh,
              MetricsShutdownDone
<1> QED BY <1>1, <1>2, <1>3, <1>4, <1>5 DEF writerLoop

\* Every step keeps the writer's buffer below one INSERT and the largest batch.
LEMMA BufferStep ==
    ASSUME MetricsTypeOK, BufferBound, [MetricsNext]_metricsVars
    PROVE  BufferBound'
<1> SUFFICES ASSUME NEW b \in Batches, \A c \in Batches : RowCount[c] <= RowCount[b]
             PROVE  Len(mBuf') < InsertSize + RowCount[b]
  BY DEF BufferBound
<1>1. Len(mBuf) < InsertSize + RowCount[b] /\ RowCount[b] \in Nat /\ InsertSize \in Nat \ {0}
  BY MTypes DEF BufferBound
<1>2. mBuf \in Seq(MetricRows)
  BY DEF MetricsTypeOK
<1>3. CASE ReceiveBatch
  <2>1. Head(batchCh) \in Batches
    BY <1>3, HeadTailType DEF MetricsTypeOK, ReceiveBatch
  <2>2. /\ RowsOf(Head(batchCh)) \in Seq(MetricRows)
        /\ Len(RowsOf(Head(batchCh))) = RowCount[Head(batchCh)]
        /\ RowCount[Head(batchCh)] \in Nat
    BY <2>1, RowsOfType, MTypes
  <2>3. Len(mBuf') = Len(mBuf) + RowCount[Head(batchCh)] /\ Len(mBuf) < InsertSize
    BY <1>2, <1>3, <2>2 DEF ReceiveBatch
  <2> QED BY <1>1, <1>2, <2>1, <2>2, <2>3
<1>4. CASE FlushChunk
  <2>1. Len(mBuf') <= Len(mBuf) /\ Len(mBuf') \in Nat /\ Len(mBuf) \in Nat
    BY <1>1, <1>2, <1>4 DEF FlushChunk
  <2> QED BY <1>1, <2>1
<1>5. CASE FlushReturn
  <2>1. mBuf' = mBuf \/ mBuf' = <<>>
    BY <1>5 DEF FlushReturn
  <2>2. Len(<<>>) = 0
    OBVIOUS
  <2> QED BY <1>1, <2>1, <2>2
<1>6. CASE mBuf' = mBuf
  BY <1>1, <1>6
<1> QED
  BY <1>3, <1>4, <1>5, <1>6 DEF MetricsNext, TryPush, TryPushEmpty, TryPushEnter,
     TryPushReserve, TryPushSend, TryPushUndo, ProducerRetry, writerLoop,
     BeginFlush, WakeUp, MetricsShutdownBegin, MetricsShutdown, MetricsShutdownLock,
     MetricsShutdownCloseBatchCh, MetricsShutdownDone, MetricsStopped, metricsVars

\* Every step keeps the queue free of repetitions: a batch is sent once, by the
\* producer that holds its reservation.
LEMMA ApartStep ==
    ASSUME MetricsTypeOK, BatchesApart, [MetricsNext]_metricsVars
    PROVE  BatchesApart'
<1>0. batchCh \in Seq(Batches)
  BY DEF MetricsTypeOK
<1>1. ASSUME NEW b \in Batches, TryPush(b) \/ ProducerRetry(b), batchCh' = batchCh
      PROVE  BatchesApart'
  <2>1. \A c \in Batches : push[c] = "accepted" => push'[c] = "accepted"
    BY <1>1 DEF TryPush, TryPushEmpty, TryPushEnter, TryPushReserve, TryPushSend,
       TryPushUndo, ProducerRetry, MetricsTypeOK
  <2> QED BY <1>0, <1>1, <2>1 DEF BatchesApart
<1>2. ASSUME NEW b \in Batches, TryPushSend(b), batchCh' # batchCh
      PROVE  BatchesApart'
  <2>1. batchCh' = Append(batchCh, b) /\ push[b] = "reserved"
        /\ push' = [push EXCEPT ![b] = "accepted"]
    BY <1>2 DEF TryPushSend
  <2>2. /\ DOMAIN batchCh' = 1..(Len(batchCh) + 1) /\ DOMAIN batchCh = 1..Len(batchCh)
        /\ Len(batchCh) \in Nat
        /\ batchCh'[Len(batchCh) + 1] = b /\ \A i \in 1..Len(batchCh) : batchCh'[i] = batchCh[i]
    BY <1>0, <2>1, AppendProperties
  <2>3. \A i \in 1..Len(batchCh) : batchCh[i] # b
    BY <2>1, <2>2 DEF BatchesApart
  <2>4. push'[b] = "accepted" /\ \A c \in Batches : push[c] = "accepted" => push'[c] = "accepted"
    BY <2>1 DEF MetricsTypeOK
  <2>5. \A i \in 1..(Len(batchCh) + 1) : i = Len(batchCh) + 1 \/ i \in 1..Len(batchCh)
    BY <2>2
  <2>6. \A i \in DOMAIN batchCh' : push'[batchCh'[i]] = "accepted"
    BY <1>0, <2>2, <2>4, <2>5 DEF BatchesApart
  <2>7. \A i, j \in DOMAIN batchCh' : batchCh'[i] = batchCh'[j] => i = j
    BY <2>2, <2>3, <2>5 DEF BatchesApart
  <2> QED BY <2>6, <2>7 DEF BatchesApart
<1>3. CASE ReceiveBatch
  <2>1. batchCh' = Tail(batchCh) /\ batchCh # <<>> /\ push' = push
    BY <1>3 DEF ReceiveBatch
  <2>2. /\ DOMAIN batchCh' = 1..(Len(batchCh) - 1) /\ DOMAIN batchCh = 1..Len(batchCh)
        /\ Len(batchCh) \in Nat \ {0}
        /\ \A i \in DOMAIN batchCh' : batchCh'[i] = batchCh[i + 1] /\ i + 1 \in DOMAIN batchCh
    BY <1>0, <2>1
  <2> QED BY <2>1, <2>2 DEF BatchesApart
<1>4. CASE UNCHANGED <<push, batchCh>>
  BY <1>4 DEF BatchesApart
<1> QED
  BY <1>1, <1>2, <1>3, <1>4 DEF MetricsNext, TryPush, TryPushEmpty, TryPushEnter,
     TryPushReserve, TryPushSend, TryPushUndo, ProducerRetry, writerLoop,
     BeginFlush, FlushChunk, FlushReturn, WakeUp, MetricsShutdownBegin,
     MetricsShutdown, MetricsShutdownLock,
     MetricsShutdownCloseBatchCh, MetricsShutdownDone, MetricsStopped, metricsVars

\* Every step keeps Shutdown's order.
LEMMA AtEndStep ==
    ASSUME MetricsTypeOK, WriterAtEnd, [MetricsNext]_metricsVars
    PROVE  WriterAtEnd'
<1> USE DEF WriterAtEnd, mClosed, batchChClosed, Pushers
<1>1. ASSUME NEW b \in Batches, TryPush(b) \/ ProducerRetry(b)
      PROVE  WriterAtEnd'
  BY <1>1 DEF TryPush, TryPushEmpty, TryPushEnter, TryPushReserve, TryPushSend,
     TryPushUndo, ProducerRetry, MetricsTypeOK
<1>2. CASE ReceiveBatch \/ BeginFlush \/ WakeUp
  BY <1>2 DEF ReceiveBatch, BeginFlush, WakeUp
<1>3. CASE FlushChunk
  BY <1>3 DEF FlushChunk
<1>4. CASE FlushReturn
  BY <1>4, WriterReturns DEF FlushReturn
<1>5. CASE MetricsShutdownBegin \/ MetricsShutdown
  BY <1>5 DEF MetricsShutdownBegin, MetricsShutdown, MetricsShutdownLock,
              MetricsShutdownCloseBatchCh,
     MetricsShutdownDone
<1>6. CASE UNCHANGED metricsVars
  BY <1>6 DEF metricsVars
<1> QED BY <1>1, <1>2, <1>3, <1>4, <1>5, <1>6 DEF MetricsNext, writerLoop, MetricsStopped

\* Every step keeps the row counter balanced: TryPush adds a batch's rows before
\* it knows whether it may, takes them back when it may not, and the writer takes
\* back those of the batch it receives.
LEMMA MetricsRowsStep ==
    ASSUME MetricsTypeOK, BatchesApart, RowsInv, [MetricsNext]_metricsVars
    PROVE  RowsInv'
<1>0. /\ RowCount \in [Batches -> Nat] /\ MaxBufferedRows \in Nat
      /\ batchCh \in Seq(Batches) /\ push \in [Batches -> {"idle", "checked", "reserved",
                                               "undo", "accepted", "refused"}]
  BY MTypes DEF MetricsTypeOK
<1>1. ASSUME rowsHeld' = rowsHeld, rowsAdmitted' \subseteq rowsAdmitted,
             bufferedRows' = bufferedRows
      PROVE  RowsInv'
  <2>1. Balanced(Batches, RowCount, MaxBufferedRows, bufferedRows, rowsHeld, rowsAdmitted')
    BY <1>0, <1>1, SameHolders DEF RowsInv
  <2> QED BY <1>1, <2>1 DEF RowsInv
<1>2. ASSUME UNCHANGED <<push, batchCh, bufferedRows>> PROVE RowsInv'
  <2>1. rowsHeld' = rowsHeld /\ rowsAdmitted' = rowsAdmitted
    BY <1>2 DEF rowsHeld, rowsAdmitted, Queued
  <2> QED BY <1>1, <1>2, <2>1
<1>3. ASSUME NEW b \in Batches, TryPushEmpty(b) \/ TryPushEnter(b) \/ ProducerRetry(b)
      PROVE  RowsInv'
  <2>1. UNCHANGED <<batchCh, bufferedRows>>
    BY <1>3 DEF TryPushEmpty, TryPushEnter, ProducerRetry
  <2>2. \A c \in Batches : /\ push'[c] = "reserved" <=> push[c] = "reserved"
                           /\ push'[c] = "undo" <=> push[c] = "undo"
    BY <1>0, <1>3 DEF TryPushEmpty, TryPushEnter, ProducerRetry
  <2>3. rowsHeld' = rowsHeld /\ rowsAdmitted' = rowsAdmitted
    BY <2>1, <2>2 DEF rowsHeld, rowsAdmitted, Queued
  <2> QED BY <1>1, <2>1, <2>3
<1>4. ASSUME NEW b \in Batches, TryPushReserve(b) PROVE RowsInv'
  <2>1. b \notin rowsHeld
    BY <1>4 DEF rowsHeld, Queued, BatchesApart, TryPushReserve
  <2>2. /\ batchCh' = batchCh /\ bufferedRows' = bufferedRows + RowCount[b]
        /\ push' = [push EXCEPT ![b] = IF bufferedRows' > MaxBufferedRows
                                       THEN "undo" ELSE "reserved"]
    BY <1>4 DEF TryPushReserve
  <2>3. rowsHeld' = rowsHeld \cup {b}
    BY <1>0, <2>2 DEF rowsHeld, Queued
  <2>4. CASE bufferedRows' > MaxBufferedRows
    <3>1. rowsAdmitted' = rowsAdmitted
      BY <1>0, <1>4, <2>2, <2>4 DEF rowsAdmitted, Queued, TryPushReserve
    <3>2. Balanced(Batches, RowCount, MaxBufferedRows, bufferedRows + RowCount[b],
                   rowsHeld \cup {b}, rowsAdmitted')
      BY <1>0, <2>1, <3>1, OneHolderMore DEF RowsInv
    <3> QED BY <2>2, <2>3, <3>2 DEF RowsInv
  <2>5. CASE ~(bufferedRows' > MaxBufferedRows)
    <3>1. rowsAdmitted' = rowsAdmitted \cup {b}
      BY <1>0, <2>2, <2>5 DEF rowsAdmitted, Queued
    <3>2. ~(bufferedRows + RowCount[b] > MaxBufferedRows)
      BY <2>2, <2>5
    <3>3. Balanced(Batches, RowCount, MaxBufferedRows, bufferedRows + RowCount[b],
                   rowsHeld \cup {b}, rowsAdmitted')
      BY <1>0, <2>1, <3>1, <3>2, OneHolderMore DEF RowsInv
    <3> QED BY <2>2, <2>3, <3>3 DEF RowsInv
  <2> QED BY <2>4, <2>5
<1>5. ASSUME NEW b \in Batches, TryPushSend(b) PROVE RowsInv'
  <2>1. push[b] = "reserved" /\ bufferedRows' = bufferedRows
    BY <1>5 DEF TryPushSend
  <2>2. CASE batchCh' = Append(batchCh, b) /\ push' = [push EXCEPT ![b] = "accepted"]
    <3>1. Queued' = Queued \cup {b}
      <4>1. /\ DOMAIN batchCh' = 1..(Len(batchCh) + 1) /\ DOMAIN batchCh = 1..Len(batchCh)
            /\ Len(batchCh) \in Nat
            /\ batchCh'[Len(batchCh) + 1] = b
            /\ \A i \in 1..Len(batchCh) : batchCh'[i] = batchCh[i]
        BY <1>0, <2>2, AppendProperties
      <4>2. \A i \in 1..(Len(batchCh) + 1) : i = Len(batchCh) + 1 \/ i \in 1..Len(batchCh)
        BY <4>1
      <4>3. Len(batchCh) + 1 \in DOMAIN batchCh' /\ DOMAIN batchCh \subseteq DOMAIN batchCh'
        BY <4>1
      <4> QED BY <4>1, <4>2, <4>3 DEF Queued
    <3>2. rowsHeld' = rowsHeld /\ rowsAdmitted' = rowsAdmitted
      BY <1>0, <2>1, <2>2, <3>1 DEF rowsHeld, rowsAdmitted
    <3> QED BY <1>1, <2>1, <3>2
  <2>3. CASE batchCh' = batchCh /\ push' = [push EXCEPT ![b] = "undo"]
    <3>1. rowsHeld' = rowsHeld /\ rowsAdmitted' \subseteq rowsAdmitted
      BY <1>0, <2>1, <2>3 DEF rowsHeld, rowsAdmitted, Queued
    <3> QED BY <1>1, <2>1, <3>1
  <2> QED BY <1>5, <2>2, <2>3 DEF TryPushSend
<1>6. ASSUME NEW b \in Batches, TryPushUndo(b) PROVE RowsInv'
  <2>1. /\ push[b] = "undo" /\ batchCh' = batchCh /\ bufferedRows' = bufferedRows - RowCount[b]
        /\ push' = [push EXCEPT ![b] = "refused"]
    BY <1>6 DEF TryPushUndo
  <2>2. b \in rowsHeld /\ b \notin Queued /\ b \notin rowsAdmitted
    BY <2>1 DEF rowsHeld, rowsAdmitted, Queued, BatchesApart
  <2>3. rowsHeld' = rowsHeld \ {b} /\ rowsAdmitted' = rowsAdmitted
    BY <1>0, <2>1, <2>2 DEF rowsHeld, rowsAdmitted, Queued
  <2>4. Balanced(Batches, RowCount, MaxBufferedRows, bufferedRows - RowCount[b],
                 rowsHeld \ {b}, rowsAdmitted)
    BY <1>0, <2>2, OneHolderLess DEF RowsInv
  <2> QED BY <2>1, <2>3, <2>4 DEF RowsInv
<1>7. CASE ReceiveBatch
  <2> DEFINE b == Head(batchCh)
  <2>1. /\ batchCh # <<>> /\ batchCh' = Tail(batchCh) /\ push' = push
        /\ bufferedRows' = bufferedRows - RowCount[b]
    BY <1>7 DEF ReceiveBatch
  <2>2. /\ DOMAIN batchCh' = 1..(Len(batchCh) - 1) /\ DOMAIN batchCh = 1..Len(batchCh)
        /\ Len(batchCh) \in Nat \ {0} /\ b = batchCh[1] /\ 1 \in DOMAIN batchCh
        /\ \A i \in DOMAIN batchCh' : batchCh'[i] = batchCh[i + 1] /\ i + 1 \in DOMAIN batchCh
    BY <1>0, <2>1
  <2>3. b \in Queued /\ push[b] = "accepted"
    BY <2>2 DEF Queued, BatchesApart
  <2>4. \A i \in DOMAIN batchCh : i = 1 \/ (i - 1 \in DOMAIN batchCh' /\ batchCh'[i - 1] = batchCh[i])
    BY <2>2
  <2>5. Queued' = Queued \ {b}
    BY <2>2, <2>4 DEF Queued, BatchesApart
  <2> HIDE DEF b
  <2>6. /\ rowsHeld' = rowsHeld \ {b} /\ rowsAdmitted' \subseteq rowsAdmitted
        /\ b \notin rowsAdmitted' /\ b \in rowsHeld
    BY <2>1, <2>3, <2>5 DEF rowsHeld, rowsAdmitted
  <2>7. Balanced(Batches, RowCount, MaxBufferedRows, bufferedRows - RowCount[b],
                 rowsHeld \ {b}, rowsAdmitted')
    BY <1>0, <2>6, OneHolderLess DEF RowsInv
  <2> QED BY <2>1, <2>6, <2>7 DEF RowsInv
<1> QED
  BY <1>2, <1>3, <1>4, <1>5, <1>6, <1>7 DEF MetricsNext, TryPush, writerLoop,
     BeginFlush, FlushChunk, FlushReturn, WakeUp, MetricsShutdownBegin,
     MetricsShutdown, MetricsShutdownLock,
     MetricsShutdownCloseBatchCh, MetricsShutdownDone, MetricsStopped, metricsVars

-----------------------------------------------------------------------------
(* The log of the contract.  Only the step that queues a batch adds to it, and *)
(* it adds the whole batch; the writer moves rows along it.                    *)

\* The sequences queueRows flattens.
LEMMA QueueParts ==
    ASSUME NEW q \in Seq(Batches)
    PROVE  /\ [i \in DOMAIN q |-> RowsOf(q[i])] \in Seq(Seq(MetricRows))
           /\ queueRows(q) \in Seq(MetricRows)
<1>1. \A i \in DOMAIN q : RowsOf(q[i]) \in Seq(MetricRows)
  BY RowsOfType
<1>2. DOMAIN q = 1..Len(q) /\ Len(q) \in Nat
  OBVIOUS
<1>3. [i \in DOMAIN q |-> RowsOf(q[i])] \in Seq(Seq(MetricRows))
  BY <1>1, <1>2
<1> QED BY <1>3, FlatType DEF queueRows

\* A batch queued adds its rows at the end.
LEMMA QueueAppend ==
    ASSUME NEW q \in Seq(Batches), NEW b \in Batches
    PROVE  queueRows(Append(q, b)) = queueRows(q) \o RowsOf(b)
<1> DEFINE r == Append(q, b)
           s == [i \in DOMAIN q |-> RowsOf(q[i])]
           t == [i \in DOMAIN r |-> RowsOf(r[i])]
<1>1. s \in Seq(Seq(MetricRows)) /\ RowsOf(b) \in Seq(MetricRows)
  BY QueueParts, RowsOfType
<1>2. /\ r \in Seq(Batches) /\ DOMAIN r = 1..(Len(q) + 1) /\ DOMAIN q = 1..Len(q)
      /\ Len(q) \in Nat /\ r[Len(q) + 1] = b /\ \A i \in 1..Len(q) : r[i] = q[i]
  BY AppendProperties
<1> HIDE DEF r
<1>3. t \in Seq(Seq(MetricRows))
  BY <1>2, QueueParts
<1>4. Len(s) = Len(q) /\ Len(t) = Len(q) + 1
  BY <1>2
<1>5. t[Len(q) + 1] = RowsOf(b) /\ \A i \in 1..Len(q) : t[i] = s[i]
  BY <1>2
<1> DEFINE u == Append(s, RowsOf(b))
<1> HIDE DEF s, t
<1>6. /\ u \in Seq(Seq(MetricRows)) /\ Len(u) = Len(q) + 1 /\ u[Len(q) + 1] = RowsOf(b)
      /\ \A i \in 1..Len(q) : u[i] = s[i]
  BY <1>1, <1>4, AppendProperties
<1> HIDE DEF u
<1>7. \A i \in 1..(Len(q) + 1) : t[i] = u[i]
  <2>1. \A i \in 1..(Len(q) + 1) : i = Len(q) + 1 \/ i \in 1..Len(q)
    BY <1>2
  <2> QED BY <1>5, <1>6, <2>1
<1>8. t = u
  BY <1>3, <1>4, <1>6, <1>7, SeqEqual
<1>9. FlattenSeq(u) = FlattenSeq(s) \o RowsOf(b)
  BY <1>1, FlatAppend DEF u
<1> QED BY <1>8, <1>9 DEF queueRows, r, s, t

\* The rows of the first batch come first.
LEMMA QueueTail ==
    ASSUME NEW q \in Seq(Batches), q # <<>>
    PROVE  queueRows(q) = RowsOf(Head(q)) \o queueRows(Tail(q))
<1> DEFINE r == Tail(q)
           s == [i \in DOMAIN q |-> RowsOf(q[i])]
           t == [i \in DOMAIN r |-> RowsOf(r[i])]
<1>1. s \in Seq(Seq(MetricRows))
  BY QueueParts
<1>2. /\ r \in Seq(Batches) /\ DOMAIN r = 1..(Len(q) - 1) /\ DOMAIN q = 1..Len(q)
      /\ Len(q) \in Nat \ {0} /\ Head(q) = q[1]
      /\ \A i \in 1..(Len(q) - 1) : r[i] = q[i + 1]
  OBVIOUS
<1> HIDE DEF r
<1>3. t \in Seq(Seq(MetricRows))
  BY <1>2, QueueParts
<1>4. Len(s) = Len(q) /\ Len(t) = Len(q) - 1
  BY <1>2
<1>5. s[1] = RowsOf(Head(q)) /\ \A i \in 1..(Len(q) - 1) : t[i] = s[i + 1]
  BY <1>2
<1> HIDE DEF s, t
<1>6. /\ s # <<>> /\ Head(s) = s[1] /\ Tail(s) \in Seq(Seq(MetricRows))
      /\ Len(Tail(s)) = Len(q) - 1 /\ \A i \in 1..(Len(q) - 1) : Tail(s)[i] = s[i + 1]
  BY <1>1, <1>2, <1>4
<1>7. t = Tail(s)
  BY <1>3, <1>4, <1>5, <1>6, SeqEqual
<1>8. FlattenSeq(s) = Head(s) \o FlattenSeq(Tail(s))
  BY <1>1, <1>6, FlatTail
<1> QED BY <1>5, <1>6, <1>7, <1>8 DEF queueRows, r, s, t

\* The parts of the log are sequences of rows.
LEMMA LogTypes ==
    ASSUME MetricsTypeOK
    PROVE  /\ mDb \in Seq(MetricRows) /\ mDropped \in Seq(MetricRows) /\ mBuf \in Seq(MetricRows)
           /\ queueRows(batchCh) \in Seq(MetricRows) /\ batchCh \in Seq(Batches)
           /\ metricsLog \in Seq(MetricRows)
<1>1. /\ mDb \in Seq(MetricRows) /\ mDropped \in Seq(MetricRows) /\ mBuf \in Seq(MetricRows)
      /\ batchCh \in Seq(Batches)
  BY DEF MetricsTypeOK
<1>2. queueRows(batchCh) \in Seq(MetricRows)
  BY <1>1, QueueParts
<1> QED BY <1>1, <1>2 DEF metricsLog

\* Concatenation of metric rows is associative.
LEMMA RowsAssociative == \A a, b, c \in Seq(MetricRows) : (a \o b) \o c = a \o (b \o c)
BY Associative

\* Accepting a batch adds its rows to the log.
LEMMA SendAppendsBatch ==
    ASSUME MetricsTypeOK, NEW b \in Batches, batchCh' = Append(batchCh, b),
           UNCHANGED <<mDb, mDropped, mBuf>>
    PROVE  metricsLog' = metricsLog \o RowsOf(b)
<1> DEFINE pre == (mDb \o mDropped) \o mBuf
<1>1. pre \in Seq(MetricRows) /\ queueRows(batchCh) \in Seq(MetricRows) /\ RowsOf(b) \in Seq(MetricRows)
  BY LogTypes, RowsOfType
<1>2. queueRows(batchCh') = queueRows(batchCh) \o RowsOf(b)
  BY LogTypes, QueueAppend
<1>3. metricsLog' = pre \o (queueRows(batchCh) \o RowsOf(b))
  BY <1>2 DEF metricsLog, queueRows, RowsOf
<1>4. metricsLog = pre \o queueRows(batchCh)
  BY DEF metricsLog
<1> HIDE DEF pre
<1> QED BY <1>1, <1>3, <1>4, RowsAssociative, Zenon

\* The writer takes the rows of the batch it receives into its buffer.
LEMMA ReceiveKeepsLog ==
    ASSUME MetricsTypeOK, ReceiveBatch
    PROVE  metricsLog' = metricsLog
<1> DEFINE pre == mDb \o mDropped
           a   == RowsOf(Head(batchCh))
           c   == queueRows(Tail(batchCh))
<1>1. batchCh \in Seq(Batches) /\ batchCh # <<>>
  BY LogTypes DEF ReceiveBatch
<1>2. Head(batchCh) \in Batches /\ Tail(batchCh) \in Seq(Batches)
  BY <1>1, HeadTailType
<1>3. pre \in Seq(MetricRows) /\ mBuf \in Seq(MetricRows) /\ a \in Seq(MetricRows) /\ c \in Seq(MetricRows)
  <2>1. pre \in Seq(MetricRows) /\ mBuf \in Seq(MetricRows)
    BY LogTypes
  <2>2. a \in Seq(MetricRows)
    BY <1>2, RowsOfType
  <2>3. c \in Seq(MetricRows)
    BY <1>2, QueueParts
  <2> QED BY <2>1, <2>2, <2>3
<1>4. queueRows(batchCh) = a \o c
  BY <1>1, QueueTail
<1>5. metricsLog' = (pre \o (mBuf \o a)) \o c
  BY DEF metricsLog, ReceiveBatch, queueRows, RowsOf
<1>6. metricsLog = (pre \o mBuf) \o (a \o c)
  BY <1>4 DEF metricsLog
<1> HIDE DEF pre, a, c
<1>7. pre \o (mBuf \o a) = (pre \o mBuf) \o a
  BY <1>3, RowsAssociative, Zenon
<1>8. pre \o mBuf \in Seq(MetricRows)
  BY <1>3
<1>9. ((pre \o mBuf) \o a) \o c = (pre \o mBuf) \o (a \o c)
  BY <1>3, <1>8, RowsAssociative, Zenon
<1> QED BY <1>5, <1>6, <1>7, <1>9, Zenon

\* A sequence is a first part of it and the rest.
LEMMA SplitAt ==
    ASSUME NEW S, NEW s \in Seq(S), NEW n \in 0..Len(s)
    PROVE  /\ SubSeq(s, 1, n) \in Seq(S) /\ SubSeq(s, n + 1, Len(s)) \in Seq(S)
           /\ Len(SubSeq(s, 1, n)) = n
           /\ SubSeq(s, 1, n) \o SubSeq(s, n + 1, Len(s)) = s
<1> DEFINE a == SubSeq(s, 1, n)
           b == SubSeq(s, n + 1, Len(s))
<1>1. Len(s) \in Nat /\ n \in Nat /\ n <= Len(s)
  OBVIOUS
<1>2. a \in Seq(S) /\ Len(a) = n /\ \A i \in 1..n : a[i] = s[i]
  BY <1>1, SubSeqProperties
<1>3. b \in Seq(S) /\ Len(b) = Len(s) - n /\ \A i \in 1..(Len(s) - n) : b[i] = s[n + i]
  BY <1>1, SubSeqProperties
<1> HIDE DEF a, b
<1>4. a \o b \in Seq(S) /\ Len(a \o b) = Len(s)
  BY <1>1, <1>2, <1>3
<1>5. ASSUME NEW i \in 1..Len(s) PROVE (a \o b)[i] = s[i]
  <2>1. (a \o b)[i] = IF i <= n THEN a[i] ELSE b[i - n]
    BY <1>1, <1>2, <1>3, <1>4, ConcatProperties
  <2>2. ~(i <= n) => i - n \in 1..(Len(s) - n) /\ n + (i - n) = i
    BY <1>1
  <2> QED BY <1>1, <1>2, <1>3, <2>1, <2>2
<1>6. a \o b = s
  BY <1>4, <1>5, SeqEqual
<1> QED BY <1>2, <1>3, <1>6 DEF a, b

\* An INSERT moves the front of the buffer to the database.
LEMMA ChunkKeepsLog ==
    ASSUME MetricsTypeOK, WriterAtEnd, FlushChunk
    PROVE  /\ metricsLog' = metricsLog
           /\ \E n \in 1..Len(metricsLog) : Len(mDb) < n /\ mDb' = SubSeq(metricsLog, 1, n)
<1> DEFINE n == IF Len(mBuf) < InsertSize THEN Len(mBuf) ELSE InsertSize
           a == SubSeq(mBuf, 1, n)
           b == SubSeq(mBuf, n + 1, Len(mBuf))
           rest == queueRows(batchCh)
<1>1. /\ mDb \in Seq(MetricRows) /\ mBuf \in Seq(MetricRows) /\ rest \in Seq(MetricRows) /\ mBuf # <<>>
      /\ mDropped = <<>>
  BY LogTypes DEF WriterAtEnd, FlushChunk
<1>2. n \in 1..Len(mBuf) /\ n \in 0..Len(mBuf)
  <2>1. Len(mBuf) \in Nat \ {0}
    BY <1>1
  <2> QED BY <2>1, MTypes
<1>3. mDb' = mDb \o a /\ mBuf' = b /\ UNCHANGED <<mDropped, batchCh>>
  BY DEF FlushChunk
<1> HIDE DEF n
<1>4. a \in Seq(MetricRows) /\ b \in Seq(MetricRows) /\ Len(a) = n /\ a \o b = mBuf
  BY <1>1, <1>2, SplitAt
<1>5. mDb \o mDropped = mDb /\ (mDb \o a) \o mDropped = mDb \o a
  <2>1. mDb \o a \in Seq(MetricRows)
    BY <1>1, <1>4
  <2> QED BY <1>1, <2>1, ConcatEmptySeq
<1>6. metricsLog = (mDb \o (a \o b)) \o rest
  BY <1>4, <1>5, Zenon DEF metricsLog
<1>7. metricsLog' = ((mDb \o a) \o b) \o rest
  <2>1. metricsLog' = ((mDb' \o mDropped') \o mBuf') \o queueRows(batchCh')
    BY DEF metricsLog, queueRows, RowsOf
  <2> QED BY <1>3, <1>5, <2>1, Zenon
<1> HIDE DEF a, b, rest
<1>8. (mDb \o a) \o b = mDb \o (a \o b)
  BY <1>1, <1>4, RowsAssociative, Zenon
<1>9. metricsLog' = metricsLog
  BY <1>6, <1>7, <1>8, Zenon
<1> DEFINE pre == mDb \o a
           suf == b \o rest
<1>10. pre \in Seq(MetricRows) /\ suf \in Seq(MetricRows) /\ Len(pre) = Len(mDb) + n
  <2>1. \A x, y \in Seq(MetricRows) : x \o y \in Seq(MetricRows) /\ Len(x \o y) = Len(x) + Len(y)
    OBVIOUS
  <2> QED BY <1>1, <1>4, <2>1
<1>11. metricsLog = pre \o suf
  <2>1. pre \in Seq(MetricRows)
    BY <1>10
  <2> HIDE DEF pre
  <2>2. (pre \o b) \o rest = pre \o (b \o rest)
    BY <1>1, <1>4, <2>1, RowsAssociative, Zenon
  <2> QED BY <1>6, <1>8, <2>2, Zenon DEF pre
<1> HIDE DEF pre, suf
<1>12. SubSeq(pre \o suf, 1, Len(pre)) = pre /\ Len(pre) <= Len(pre \o suf)
       /\ Len(pre \o suf) \in Nat
  BY <1>10, PrefixOfConcat
<1>13. Len(mDb) \in Nat /\ n \in Nat \ {0}
  BY <1>1, <1>2
<1>14. Len(pre) \in 1..Len(metricsLog) /\ Len(mDb) < Len(pre)
  BY <1>10, <1>11, <1>12, <1>13
<1>15. mDb' = SubSeq(metricsLog, 1, Len(pre))
  BY <1>3, <1>11, <1>12, Zenon DEF pre
<1> QED BY <1>9, <1>14, <1>15

\* The return of a flush keeps the log; in the drain it gives the buffer up.
LEMMA ReturnKeepsLog ==
    ASSUME MetricsTypeOK, WriterAtEnd, FlushReturn
    PROVE  /\ metricsLog' = metricsLog /\ mDropped = <<>>
           /\ \/ mDropped' = <<>>
              \/ mDropped' # <<>> /\ Len(mDb) < Len(metricsLog)
<1>1. /\ mDb \in Seq(MetricRows) /\ mBuf \in Seq(MetricRows) /\ queueRows(batchCh) \in Seq(MetricRows)
      /\ mDropped = <<>> /\ batchCh' = batchCh /\ mDb' = mDb
  BY LogTypes DEF WriterAtEnd, FlushReturn
<1>2. mDb \o <<>> = mDb /\ \A s \in Seq(MetricRows) : s \o <<>> = s
  BY <1>1, ConcatEmptySeq
<1>3. metricsLog' = ((mDb' \o mDropped') \o mBuf') \o queueRows(batchCh')
  BY DEF metricsLog, queueRows, RowsOf
<1>4. metricsLog = (mDb \o mBuf) \o queueRows(batchCh)
  BY <1>1, <1>2, Zenon DEF metricsLog
<1>5. CASE mWriter = "drain"
  <2>1. mDropped' = mBuf /\ mBuf' = <<>>
    BY <1>5 DEF FlushReturn
  <2>2. mDb \o mBuf \in Seq(MetricRows)
    BY <1>1
  <2>3. (mDb \o mBuf) \o <<>> = mDb \o mBuf
    BY <1>2, <2>2
  <2>4. metricsLog' = metricsLog
    BY <1>1, <1>3, <1>4, <2>1, <2>3, Zenon
  <2>5. mBuf # <<>> => Len(mDb) < Len(metricsLog)
    BY <1>1, <1>4, <2>2
  <2> QED BY <1>1, <2>1, <2>4, <2>5
<1>6. CASE mWriter # "drain"
  <2>1. mDropped' = mDropped /\ mBuf' = mBuf
    BY <1>6 DEF FlushReturn
  <2>2. metricsLog' = metricsLog
    BY <1>1, <1>3, <2>1 DEF metricsLog
  <2> QED BY <1>1, <2>1, <2>2
<1> QED BY <1>5, <1>6

\* Whatever leaves the four parts alone keeps the log.
LEMMA OthersKeepLog ==
    ASSUME UNCHANGED <<mDb, mDropped, mBuf, batchCh>>
    PROVE  metricsLog' = metricsLog
BY DEF metricsLog, queueRows, RowsOf

\* What a step does to the log: a send adds a batch nobody has seen in it, every
\* other step keeps it.
LEMMA LogStep ==
    ASSUME MetricsTypeOK, WriterAtEnd, [MetricsNext]_metricsVars
    PROVE  \/ metricsLog' = metricsLog
           \/ \E b \in Batches :
                 /\ push[b] = "reserved" /\ push'[b] = "accepted"
                 /\ metricsLog' = metricsLog \o RowsOf(b)
                 /\ UNCHANGED <<mDb, mDropped>>
<1>1. ASSUME NEW b \in Batches, TryPushSend(b), batchCh' # batchCh
      PROVE  /\ push[b] = "reserved" /\ push'[b] = "accepted"
             /\ metricsLog' = metricsLog \o RowsOf(b)
             /\ UNCHANGED <<mDb, mDropped>>
  BY <1>1, SendAppendsBatch DEF TryPushSend, MetricsTypeOK
<1>2. CASE ReceiveBatch \/ FlushChunk \/ FlushReturn
  BY <1>2, ReceiveKeepsLog, ChunkKeepsLog, ReturnKeepsLog
<1>3. CASE UNCHANGED <<mDb, mDropped, mBuf, batchCh>>
  BY <1>3, OthersKeepLog
<1> QED
  BY <1>1, <1>2, <1>3 DEF MetricsNext, TryPush, TryPushEmpty, TryPushEnter,
     TryPushReserve, TryPushSend, TryPushUndo, ProducerRetry, writerLoop,
     BeginFlush, WakeUp, MetricsShutdownBegin, MetricsShutdown, MetricsShutdownLock,
     MetricsShutdownCloseBatchCh, MetricsShutdownDone, MetricsStopped, metricsVars

\* An accepted batch stays accepted.
LEMMA AcceptedStays ==
    ASSUME MetricsTypeOK, [MetricsNext]_metricsVars, NEW c \in Batches, push[c] = "accepted"
    PROVE  push'[c] = "accepted"
BY DEF MetricsTypeOK, MetricsNext, TryPush, TryPushEmpty, TryPushEnter, TryPushReserve,
       TryPushSend, TryPushUndo, ProducerRetry, writerLoop, ReceiveBatch,
       BeginFlush, FlushChunk, FlushReturn, WakeUp, MetricsShutdownBegin,
       MetricsShutdown, MetricsShutdownLock,
       MetricsShutdownCloseBatchCh, MetricsShutdownDone, MetricsStopped, metricsVars

\* Every step keeps the log one of accepted batches.
LEMMA AcceptedStep ==
    ASSUME MetricsTypeOK, WriterAtEnd, LogAccepted, [MetricsNext]_metricsVars
    PROVE  LogAccepted'
<1>0. metricsLog \in Seq(MetricRows) /\ DOMAIN metricsLog = 1..Len(metricsLog)
  BY LogTypes
<1>1. \A i \in DOMAIN metricsLog : metricsLog[i][1] \in Batches
  BY <1>0 DEF MetricRows
<1>2. \A i \in DOMAIN metricsLog : push'[metricsLog[i][1]] = "accepted"
  BY <1>1, AcceptedStays DEF LogAccepted
<1>3. CASE metricsLog' = metricsLog
  BY <1>2, <1>3 DEF LogAccepted
<1>4. ASSUME NEW b \in Batches, push'[b] = "accepted",
             metricsLog' = metricsLog \o RowsOf(b)
      PROVE  LogAccepted'
  <2>1. /\ RowsOf(b) \in Seq(MetricRows) /\ Len(RowsOf(b)) = RowCount[b]
        /\ \A i \in 1..RowCount[b] : RowsOf(b)[i] = <<b, i>>
    BY RowsOfType
  <2>2. \A i \in 1..Len(RowsOf(b)) : RowsOf(b)[i][1] = b
    BY <2>1
  <2> DEFINE r == RowsOf(b)
  <2> HIDE DEF r
  <2>3. ASSUME NEW i \in DOMAIN (metricsLog \o r)
        PROVE  \/ i \in DOMAIN metricsLog /\ (metricsLog \o r)[i] = metricsLog[i]
               \/ \E j \in 1..Len(r) : (metricsLog \o r)[i] = r[j]
    <3>1. r \in Seq(MetricRows)
      BY <2>1 DEF r
    <3>2. /\ i \in 1..(Len(metricsLog) + Len(r)) /\ Len(metricsLog) \in Nat /\ Len(r) \in Nat
          /\ (metricsLog \o r)[i] = IF i <= Len(metricsLog) THEN metricsLog[i]
                                    ELSE r[i - Len(metricsLog)]
      BY <1>0, <3>1, <2>3, ConcatProperties
    <3>3. ~(i <= Len(metricsLog)) => i - Len(metricsLog) \in 1..Len(r)
      BY <3>2
    <3> QED BY <1>0, <3>2, <3>3
  <2> QED BY <1>2, <1>4, <2>2, <2>3 DEF LogAccepted, r
<1> QED BY <1>3, <1>4, LogStep

\* At the start the log is empty.
LEMMA EmptyLog == ASSUME MetricsInit PROVE metricsLog = <<>>
<1>1. batchCh = <<>> /\ mDb = <<>> /\ mDropped = <<>> /\ mBuf = <<>>
  BY DEF MetricsInit
<1>2. [i \in DOMAIN batchCh |-> RowsOf(batchCh[i])] = <<>>
  BY <1>1
<1>3. queueRows(batchCh) = <<>>
  BY <1>2 DEF queueRows, FlattenSeq
<1> QED BY <1>1, <1>3 DEF metricsLog

\* The state NewPipeline builds satisfies the inductive invariant.
LEMMA MetricsStart == ASSUME MetricsInit PROVE MetricsIInv
<1>1. MetricsTypeOK
  BY DEF MetricsInit, MetricsTypeOK
<1>2. BatchesApart /\ WriterAtEnd
  BY DEF MetricsInit, BatchesApart, WriterAtEnd, mClosed, Pushers
<1>3. BufferBound
  <2>1. Len(mBuf) = 0
    BY DEF MetricsInit
  <2> QED BY <2>1, MTypes DEF BufferBound
<1>4. RowsInv
  <2>1. rowsHeld = {} /\ rowsAdmitted = {} /\ bufferedRows = 0
    BY DEF MetricsInit, rowsHeld, rowsAdmitted, Queued
  <2>2. Balanced(Batches, RowCount, MaxBufferedRows, 0, {}, {})
    BY MTypes, NothingHeld
  <2> QED BY <2>1, <2>2 DEF RowsInv
<1>5. metricsLog = <<>>
  BY EmptyLog
<1>6. LogAccepted
  BY <1>5 DEF LogAccepted
<1> QED BY <1>1, <1>2, <1>3, <1>4, <1>6 DEF MetricsIInv

\* Every step preserves it.
LEMMA MetricsStep == ASSUME MetricsIInv, [MetricsNext]_metricsVars PROVE MetricsIInv'
<1> USE DEF MetricsIInv
<1>1. MetricsTypeOK'
  <2>1. UNCHANGED metricsVars => MetricsTypeOK'
    BY DEF metricsVars, MetricsTypeOK
  <2> QED BY <2>1, PushTypes, WriterLoopTypes DEF MetricsNext, MetricsStopped
<1>2. BatchesApart' /\ WriterAtEnd' /\ BufferBound'
  BY ApartStep, AtEndStep, BufferStep
<1>3. RowsInv' /\ LogAccepted'
  BY MetricsRowsStep, AcceptedStep
<1> QED BY <1>1, <1>2, <1>3

\* The inductive invariant gives everything MetricsInv says.
LEMMA MetricsImplied == ASSUME MetricsIInv PROVE MetricsInv
<1> USE DEF MetricsIInv
<1>1. NoPushOnClosedChannel
  BY DEF WriterAtEnd, NoPushOnClosedChannel, batchChClosed, mClosed
<1>2. \A S : SumRows(S) = total(RowCount, S)
  BY DEF SumRows, total, MapThenSumSet, MapThenFoldSet, MapThenSumSet, MapThenFoldSet
<1>3. rowsAdmitted \subseteq rowsAdmitted /\ RowCount \in [Batches -> Nat] /\ MaxBufferedRows \in Nat
  BY MTypes
<1>4. bufferedRows = total(RowCount, rowsHeld) /\ total(RowCount, rowsAdmitted) <= MaxBufferedRows
  BY DEF RowsInv, Balanced
<1>5. RowBudget
  <2>1. RowsBalance
    BY <1>2, <1>4 DEF RowsBalance, rowsHeld
  <2>2. RowsBounded
    BY <1>2, <1>4 DEF RowsBounded, rowsAdmitted, BufferBound
  <2> QED BY <2>1, <2>2 DEF RowBudget
<1>6. BatchesDrainedWhenDown
  <2> SUFFICES ASSUME mShut = "down" PROVE batchCh = <<>> /\ mBuf = <<>> /\ bufferedRows = 0
    BY DEF BatchesDrainedWhenDown
  <2>1. batchCh = <<>> /\ mBuf = <<>> /\ Pushers = {}
    BY DEF WriterAtEnd, mClosed
  <2>2. rowsHeld = {}
    BY <2>1 DEF rowsHeld, Queued, Pushers
  <2>3. total(RowCount, {}) = 0
    BY <1>3, FS_EmptySet, SumStep
  <2> QED BY <1>4, <2>1, <2>2, <2>3
<1> QED BY <1>1, <1>5, <1>6 DEF MetricsInv

\* The metrics pipeline is consistent in every reachable state: no send on a closed
\* channel, a row counter that is exact and bounded on every path of TryPush, a
\* buffer of at most one INSERT and one batch, and nothing left behind by Shutdown.
THEOREM MetricsConsistent == MetricsSpec => []MetricsInv
<1>1. MetricsInit => MetricsIInv
  BY MetricsStart
<1>2. MetricsIInv /\ [MetricsNext]_metricsVars => MetricsIInv'
  BY MetricsStep
<1>3. MetricsIInv => MetricsInv
  BY MetricsImplied
<1> QED BY <1>1, <1>2, <1>3, PTL DEF MetricsSpec

-----------------------------------------------------------------------------
(* MetricsPipeline implements MetricsContract. *)

\* The contract's state is the log, the database and whether rows were given up.
LEMMA MetricsStutter ==
    ASSUME metricsLog' = metricsLog, mDb' = mDb, mDropped' # <<>> <=> mDropped # <<>>
    PROVE  UNCHANGED BatchContract!vars
<1>1. UNCHANGED metricsLog
  OBVIOUS
<1> QED BY <1>1, Zenon DEF metricsLog, queueRows, BatchContract!vars

\* A batch enters the log at once, whole, and only the first time it is accepted.
LEMMA AcceptSimulates ==
    ASSUME MetricsIInv, NEW b \in Batches, push[b] = "reserved",
           metricsLog' = metricsLog \o RowsOf(b), UNCHANGED <<mDb, mDropped>>
    PROVE  BatchContract!Next
<1>1. \A i \in DOMAIN metricsLog : metricsLog[i][1] # b
  BY DEF MetricsIInv, LogAccepted
<1>2. mDropped = <<>>
  BY DEF MetricsIInv, WriterAtEnd, mClosed, batchChClosed, Pushers
<1>3. BatchContract!RowsOf(b) = RowsOf(b)
  BY DEF BatchContract!RowsOf, RowsOf
<1>4. BatchContract!Accept(b)
  BY <1>1, <1>2, <1>3 DEF BatchContract!Accept, metricsLog, queueRows
<1> QED BY <1>4 DEF BatchContract!Next

\* An INSERT stores a longer prefix of the log.
LEMMA ChunkSimulates ==
    ASSUME MetricsIInv, FlushChunk
    PROVE  BatchContract!Next
<1>1. metricsLog' = metricsLog /\ mDropped = <<>> /\ mDropped' = <<>>
  BY ChunkKeepsLog DEF MetricsIInv, WriterAtEnd, FlushChunk
<1>2. PICK n \in 1..Len(metricsLog) : Len(mDb) < n /\ mDb' = SubSeq(metricsLog, 1, n)
  BY ChunkKeepsLog DEF MetricsIInv
<1>3. BatchContract!Store(n)
  BY <1>1, <1>2 DEF BatchContract!Store, metricsLog, queueRows
<1> QED BY <1>2, <1>3 DEF BatchContract!Next, metricsLog, queueRows

\* The return of a flush abandons the rest of the log, or is a stutter.
LEMMA ReturnSimulates ==
    ASSUME MetricsIInv, FlushReturn
    PROVE  BatchContract!Next \/ UNCHANGED BatchContract!vars
<1>1. /\ metricsLog' = metricsLog /\ mDropped = <<>> /\ mDb' = mDb
      /\ mDropped' = <<>> \/ (mDropped' # <<>> /\ Len(mDb) < Len(metricsLog))
  BY ReturnKeepsLog DEF MetricsIInv, FlushReturn
<1>2. CASE mDropped' = <<>>
  BY <1>1, <1>2, MetricsStutter
<1>3. CASE mDropped' # <<>> /\ Len(mDb) < Len(metricsLog)
  <2>1. BatchContract!Abandon
    BY <1>1, <1>3 DEF BatchContract!Abandon, metricsLog, queueRows
  <2> QED BY <2>1 DEF BatchContract!Next
<1> QED BY <1>1, <1>2, <1>3

\* Every step of the pipeline is one of the contract or changes nothing of it.
LEMMA MetricsSimulates ==
    ASSUME MetricsIInv, [MetricsNext]_metricsVars
    PROVE  BatchContract!Next \/ UNCHANGED BatchContract!vars
<1>1. CASE FlushChunk \/ FlushReturn
  BY <1>1, ChunkSimulates, ReturnSimulates
<1>2. CASE ~(FlushChunk \/ FlushReturn)
  <2>1. UNCHANGED <<mDb, mDropped>>
    BY <1>2 DEF MetricsNext, TryPush, TryPushEmpty, TryPushEnter, TryPushReserve,
       TryPushSend, TryPushUndo, ProducerRetry, writerLoop, ReceiveBatch,
       BeginFlush, WakeUp, MetricsShutdownBegin, MetricsShutdown, MetricsShutdownLock,
       MetricsShutdownCloseBatchCh, MetricsShutdownDone, MetricsStopped, metricsVars
  <2>2. CASE metricsLog' = metricsLog
    BY <2>1, <2>2, MetricsStutter
  <2>3. ASSUME NEW b \in Batches, push[b] = "reserved",
               metricsLog' = metricsLog \o RowsOf(b)
        PROVE  BatchContract!Next
    BY <2>1, <2>3, AcceptSimulates
  <2> QED BY <2>2, <2>3, LogStep DEF MetricsIInv
<1> QED BY <1>1, <1>2

\* The metrics pipeline keeps the promise of MetricsContract: batches are stored
\* whole and in the order they were accepted, as a growing prefix of one log, also
\* when an INSERT fails between two chunks of one batch.
THEOREM MetricsRefinement == MetricsSpec => ImplementsMetricsContract
<1>1. MetricsInit => MetricsIInv
  BY MetricsStart
<1>2. MetricsIInv /\ [MetricsNext]_metricsVars => MetricsIInv'
  BY MetricsStep
<1>3. MetricsInit => BatchContract!Init
  <2> SUFFICES ASSUME MetricsInit PROVE BatchContract!Init
    OBVIOUS
  <2>1. batchCh = <<>> /\ mDb = <<>> /\ mDropped = <<>> /\ mBuf = <<>>
    BY DEF MetricsInit
  <2>2. metricsLog = <<>>
    BY EmptyLog
  <2> QED BY <2>1, <2>2 DEF BatchContract!Init, metricsLog, queueRows
<1>4. MetricsIInv /\ [MetricsNext]_metricsVars => [BatchContract!Next]_(BatchContract!vars)
  BY MetricsSimulates
<1> QED BY <1>1, <1>2, <1>3, <1>4, PTL DEF MetricsSpec, ImplementsMetricsContract, BatchContract!Spec
============================================================================
