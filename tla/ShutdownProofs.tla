--------------------------- MODULE ShutdownProofs ---------------------------
(***************************************************************************)
(* Proofs about the staged shutdown of main, for any number of requests,   *)
(* jobs and rows.  StagesInv is the inductive invariant: what main         *)
(* has begun and waited for at each stage, of which StageOrder and         *)
(* CleanShutdownAccountsForAll are consequences.                           *)
(***************************************************************************)
EXTENDS Shutdown, TLAPS

\* The stages from each of these on.
FromClosed == {"closed", "exited"}
FromClose == {"close"} \cup FromClosed
FromJobs == {"jobs"} \cup FromClose
FromScraper == {"scraper", "metrics"} \cup FromJobs
FromLogs == {"logs"} \cup FromScraper

\* What is buffered or dropped was accepted; rows are dropped when a pipeline is
\* drained, less than a batch of them, and a drained one holds nothing.
BuffersCounted ==
    \A k \in Kinds : /\ buffered[k] + dropped[k] <= accepted[k]
                     /\ pipe[k] # "drained" => dropped[k] = 0
                     /\ pipe[k] = "drained" => buffered[k] = 0 /\ dropped[k] < BatchSize

\* What main has begun, deadline or not.
Begun ==
    /\ pipe["logs"] # "open" => stage \in FromLogs
    /\ stage \in FromLogs => pipe["logs"] # "open"
    /\ pipe["metrics"] # "open" =>
          RunOver /\ stage \in {"metrics"} \cup FromJobs
    /\ stage = "metrics" => pipe["metrics"] # "open"
    /\ \A j \in Jobs : job[j] = "cancelled" => stage \in FromJobs
    /\ pools = "closed" => stage \in FromClosed

\* What main has waited for, unless the deadline cut it short.
Waited ==
    ~deadline =>
       /\ stage \in FromLogs => \A h \in Handlers : handler[h] # "running"
       /\ stage \in FromScraper => pipe["logs"] = "drained"
       /\ stage \in FromJobs => pipe["metrics"] = "drained"
       /\ stage \in FromClose => \A j \in Jobs : job[j] = "stopped"

StagesInv == TypeOK /\ BuffersCounted /\ Begun /\ Waited

-----------------------------------------------------------------------------
\* At the start nothing is buffered and main serves.
LEMMA StagesInit == Init => StagesInv
  <1> SUFFICES ASSUME Init PROVE StagesInv
    OBVIOUS
  <1> USE DEF Init, Kinds
  <1>1. TypeOK
    <2>1. deadline \in BOOLEAN
      BY Zenon
    <2>2. /\ buffered \in [Kinds -> 0..MaxRows] /\ accepted \in [Kinds -> 0..MaxRows]
          /\ dropped \in [Kinds -> 0..MaxRows]
      BY ShutdownAssumption
    <2> QED
      BY <2>1, <2>2 DEF TypeOK, Stages
  <1>2. BuffersCounted
    BY DEF BuffersCounted
  <1>3. Begun
    BY DEF Begun, FromLogs, FromScraper, FromJobs, FromClose, FromClosed
  <1>4. Waited
    BY DEF Waited, FromLogs, FromScraper, FromJobs, FromClose, FromClosed
  <1> QED
    BY <1>1, <1>2, <1>3, <1>4 DEF StagesInv

\* A row is accepted only by a pipeline that is open.
LEMMA PushStep ==
    ASSUME NEW k \in Kinds, StagesInv, Push(k),
           UNCHANGED <<stage, deadline, handler, pipe, scraper, job, pools>>
    PROVE  StagesInv'
  BY ShutdownAssumption
  DEF Push, StagesInv, TypeOK, BuffersCounted, Begun, Waited, Kinds, RunOver

\* Requests, scrapes, jobs and the pipelines' writers.
LEMMA AliveStep == StagesInv /\ Alive => StagesInv'
  <1> SUFFICES ASSUME StagesInv, Alive PROVE StagesInv'
    OBVIOUS
  <1> USE ShutdownAssumption
          DEF StagesInv, TypeOK, BuffersCounted, Begun, RunOver, Waited, FromLogs, FromScraper,
              FromJobs, FromClose, FromClosed, rowVars
  <1>1. ASSUME NEW h \in Handlers, HandlerStart(h) PROVE StagesInv'
    BY <1>1 DEF HandlerStart
  <1>2. ASSUME NEW h \in Handlers, HandlerEnd(h) PROVE StagesInv'
    BY <1>2 DEF HandlerEnd
  <1>3. ASSUME NEW h \in LogPosts \cup OtlpPosts, HandlerPush(h) PROVE StagesInv'
    BY <1>3, PushStep DEF HandlerPush, Kinds
  <1>4. ASSUME NEW h \in Tails, TailCancelled(h) PROVE StagesInv'
    BY <1>2, <1>4 DEF TailCancelled, Handlers
  <1>5. ASSUME NEW k \in Kinds, Store(k) PROVE StagesInv'
    <2>1. PICK n \in 1..BatchSize : n <= buffered[k] /\ buffered' = [buffered EXCEPT ![k] = @ - n]
      BY <1>5 DEF Store
    <2>2. n \in Nat /\ n <= buffered[k] /\ buffered[k] \in 0..MaxRows
      BY <2>1
    <2>3. buffered[k] - n \in 0..MaxRows /\ buffered[k] - n <= buffered[k]
      BY <2>2
    <2>4. UNCHANGED <<stage, deadline, handler, pipe, dropped, accepted, scraper, job, pools>>
      BY <1>5 DEF Store
    <2>5. TypeOK'
      BY <2>1, <2>3, <2>4
    <2>6. BuffersCounted'
      BY <2>1, <2>2, <2>3, <2>4 DEF Kinds
    <2> QED
      BY <2>4, <2>5, <2>6
  <1>6. ASSUME NEW k \in Kinds, Drain(k) PROVE StagesInv'
    BY <1>6 DEF Drain, Kinds
  <1>7. ASSUME ScraperPush PROVE StagesInv'
    BY <1>7, PushStep DEF ScraperPush, Kinds
  <1>8. ASSUME ScraperStop \/ ScraperPanic \/ LastScrapeEnds PROVE StagesInv'
    BY <1>8 DEF ScraperStop, ScraperPanic, LastScrapeEnds
  <1>9. ASSUME NEW j \in Jobs, JobStop(j) PROVE StagesInv'
    BY <1>9 DEF JobStop
  <1> QED
    BY <1>1, <1>2, <1>3, <1>4, <1>5, <1>6, <1>7, <1>8, <1>9 DEF Alive

\* The stages of main.
LEMMA MainStep == StagesInv /\ (ShutdownBegin \/ main) => StagesInv'
  <1> SUFFICES ASSUME StagesInv, ShutdownBegin \/ main PROVE StagesInv'
    OBVIOUS
  <1> USE DEF StagesInv, TypeOK, BuffersCounted, Begun, RunOver, Waited, FromLogs, FromScraper,
              FromJobs, FromClose, FromClosed, goto, Stages, Kinds, rowVars
  <1>1. CASE ShutdownBegin
    BY <1>1 DEF ShutdownBegin
  <1>2. CASE HttpDown
    BY <1>2 DEF HttpDown
  <1>3. CASE LogsDrained
    BY <1>3 DEF LogsDrained
  <1>4. CASE ScraperDown
    BY <1>4 DEF ScraperDown
  <1>5. CASE SkipMetricsDrain
    BY <1>5 DEF SkipMetricsDrain, cancelJobs
  <1>6. CASE MetricsDrained
    BY <1>6 DEF MetricsDrained, cancelJobs
  <1>7. CASE JobsDown
    BY <1>7 DEF JobsDown
  <1>8. CASE ClosePools
    BY <1>8 DEF ClosePools
  <1>9. CASE Return
    BY <1>9 DEF Return
  <1> QED
    BY <1>1, <1>2, <1>3, <1>4, <1>5, <1>6, <1>7, <1>8, <1>9 DEF main

\* Every step keeps the invariant; the deadline only weakens what was waited for.
LEMMA StagesStep == StagesInv /\ [Next]_vars => StagesInv'
  <1> SUFFICES ASSUME StagesInv, [Next]_vars PROVE StagesInv'
    OBVIOUS
  <1>1. CASE Deadline
    BY <1>1 DEF Deadline, rowVars, StagesInv, TypeOK, BuffersCounted, Begun, RunOver, Waited
  <1>2. CASE UNCHANGED vars
    BY <1>2 DEF vars, rowVars, StagesInv, TypeOK, BuffersCounted, Begun, RunOver, Waited
  <1> QED
    BY <1>1, <1>2, AliveStep, MainStep DEF Next, Exited

\* Main is always where its stage says, having begun and waited for what it
\* should (main.go, the staged shutdown).
THEOREM StagesInvariant == Spec => []StagesInv
  BY StagesInit, StagesStep, PTL DEF Spec

\* The order of the stages: the scraper has stopped before the metrics pipeline
\* closes, and the pipelines drain before jobs are cancelled and pools closed.
THEOREM StagesInOrder == Spec => []StageOrder
  <1>1. StagesInv => StageOrder
    BY DEF StagesInv, TypeOK, Begun, RunOver, Waited, FromLogs, FromScraper, FromJobs,
           FromClose, FromClosed, StageOrder,
           ScraperStopsBeforeMetricsDrain, DrainsBeforeClose, Kinds, Stages
  <1> QED
    BY <1>1, StagesInvariant, PTL

\* A shutdown that beats its deadline has stored every accepted row before it
\* closes the pools, or reported it dropped by the failed last flush, less than
\* a batch per pipeline; and leaves nobody behind who would use the pools.
THEOREM CleanShutdown == Spec => []CleanShutdownAccountsForAll
  <1>1. StagesInv => CleanShutdownAccountsForAll
    BY DEF StagesInv, TypeOK, BuffersCounted, Begun, RunOver, Waited, FromLogs, FromScraper,
           FromJobs, FromClose, FromClosed,
           CleanShutdownAccountsForAll, Accounted, Quiet, Kinds
  <1> QED
    BY <1>1, StagesInvariant, PTL
=============================================================================
