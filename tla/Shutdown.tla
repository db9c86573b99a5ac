------------------------------ MODULE Shutdown ------------------------------
(***************************************************************************)
(* The life of the process (main.go): the two HTTP servers, the log and    *)
(* the metrics pipeline, the scraper, the background jobs and the database *)
(* pools, and the staged shutdown that stops them in turn under a deadline. *)
(*                                                                         *)
(* Request handlers, scrapes and jobs may hang; http.Server.Shutdown stops *)
(* waiting for handlers at the deadline but does not end them.  Each       *)
(* pipeline is reduced to the rows it buffers and the rows its last flush  *)
(* drops (modules LogPipeline and MetricsPipeline model the inside).       *)
(***************************************************************************)
EXTENDS Integers, FiniteSets

CONSTANTS
    LogPosts,  \* API requests that push logs
    OtlpPosts, \* API requests that push metrics
    Tails,     \* SSE requests of the UI
    Jobs,      \* background jobs on appCtx
    BatchSize, \* batchSize: rows of one flush
    MaxRows    \* bound on the rows each pipeline is given

ASSUME ShutdownAssumption ==
    /\ MaxRows \in Nat
    /\ BatchSize \in Nat \ {0}
    /\ LogPosts \cap OtlpPosts = {}
    /\ (LogPosts \cup OtlpPosts) \cap Tails = {}

Handlers == LogPosts \cup OtlpPosts \cup Tails

VARIABLES
    stage,     \* where main is
    deadline,  \* shutdownCtx is done
    handler,   \* handler[h]: "idle", "running" or "done"
    pipe,      \* pipe[k]: "open", "closed" (draining) or "drained"
    buffered,  \* buffered[k]: rows accepted and neither stored nor dropped
    dropped,   \* dropped[k]: rows reported "dropping unflushed rows at shutdown"
    accepted,  \* accepted[k]: rows ever accepted
    scraper,   \* "running", "cancelled", "stopped" or, after a panic of Run, "dead"
    job,       \* job[j]: "running", "cancelled" or "stopped"
    pools      \* "open" or "closed"

rowVars == <<buffered, dropped, accepted>>
vars == <<stage, deadline, handler, pipe, rowVars, scraper, job, pools>>

Kinds == {"logs", "metrics"}
Stages == {"serving", "http", "logs", "scraper", "metrics", "jobs", "close",
           "closed", "exited"}

Init ==
    /\ stage = "serving"
    /\ deadline = FALSE
    /\ handler = [h \in Handlers |-> "idle"]
    /\ pipe = [k \in Kinds |-> "open"]
    /\ buffered = [k \in Kinds |-> 0]
    /\ dropped = [k \in Kinds |-> 0]
    /\ accepted = [k \in Kinds |-> 0]
    /\ scraper = "running"
    /\ job = [j \in Jobs |-> "running"]
    /\ pools = "open"

goto(s) == stage' = s

-----------------------------------------------------------------------------
(* The rest of the process *)

\* Requests are accepted until Shutdown closes the listeners.
HandlerStart(h) ==
    /\ handler[h] = "idle"
    /\ stage = "serving"
    /\ handler' = [handler EXCEPT ![h] = "running"]
    /\ UNCHANGED <<stage, deadline, pipe, rowVars, scraper, job, pools>>

\* TryIngest or TryPush; a pipeline that has been shut down refuses.
Push(k) ==
    /\ accepted[k] < MaxRows
    /\ pipe[k] = "open"
    /\ accepted' = [accepted EXCEPT ![k] = @ + 1]
    /\ buffered' = [buffered EXCEPT ![k] = @ + 1]
    /\ UNCHANGED dropped

HandlerPush(h) ==
    /\ handler[h] = "running"
    /\ Push(IF h \in LogPosts THEN "logs" ELSE "metrics")
    /\ UNCHANGED <<stage, deadline, handler, pipe, scraper, job, pools>>

HandlerEnd(h) ==
    /\ handler[h] = "running"
    /\ handler' = [handler EXCEPT ![h] = "done"]
    /\ UNCHANGED <<stage, deadline, pipe, rowVars, scraper, job, pools>>

\* Variation of TailCancelled: live tails are on appCtx, cancelled at stage 4.
TailCancelledWithJobs(h) ==
    stage \in {"jobs", "close", "closed"} /\ HandlerEnd(h)

\* RegisterOnShutdown(sseCancel): a live tail ends once Shutdown was called.
TailCancelled(h) == stage # "serving" /\ HandlerEnd(h)

\* A pipeline's writer flushes a batch, which takes open pools.  A flush that
\* fails keeps its rows, to be retried.
Store(k) ==
    /\ pools = "open"
    /\ \E n \in 1..BatchSize :
          /\ n <= buffered[k]
          /\ buffered' = [buffered EXCEPT ![k] = @ - n]
    /\ UNCHANGED <<stage, deadline, handler, pipe, dropped, accepted, scraper, job, pools>>

\* pipeline.Shutdown returns: everything that was buffered has been written, or
\* the flush of what was left, less than a batch, has failed and is not retried.
Drain(k) ==
    /\ pipe[k] = "closed"
    /\ buffered[k] < BatchSize
    /\ dropped' = [dropped EXCEPT ![k] = buffered[k]]
    /\ buffered' = [buffered EXCEPT ![k] = 0]
    /\ pipe' = [pipe EXCEPT ![k] = "drained"]
    /\ UNCHANGED <<stage, deadline, handler, accepted, scraper, job, pools>>

\* A scrape in flight pushes, whether or not the scraper has been cancelled.
ScraperPush ==
    /\ scraper # "stopped"
    /\ Push("metrics")
    /\ UNCHANGED <<stage, deadline, handler, pipe, scraper, job, pools>>

\* Run returns: cancelled, with its scrapes waited for.
ScraperStop ==
    /\ scraper = "cancelled"
    /\ scraper' = "stopped"
    /\ UNCHANGED <<stage, deadline, handler, pipe, rowVars, job, pools>>

\* A tick panics and Run is over; the scrapes in flight run on.
ScraperPanic ==
    /\ scraper \in {"running", "cancelled"}
    /\ scraper' = "dead"
    /\ UNCHANGED <<stage, deadline, handler, pipe, rowVars, job, pools>>

\* The last scrape of a dead scraper ends.
LastScrapeEnds ==
    /\ scraper = "dead"
    /\ scraper' = "stopped"
    /\ UNCHANGED <<stage, deadline, handler, pipe, rowVars, job, pools>>

\* What scraperWG waits for.
RunOver == scraper \in {"dead", "stopped"}

\* A job returns once it is cancelled, or is dead after a panic.
JobStop(j) ==
    /\ job[j] # "stopped"
    /\ job' = [job EXCEPT ![j] = "stopped"]
    /\ UNCHANGED <<stage, deadline, handler, pipe, rowVars, scraper, pools>>

\* The shutdown timeout passes.
Deadline ==
    /\ stage \notin {"serving", "exited"}
    /\ ~deadline
    /\ deadline' = TRUE
    /\ UNCHANGED <<stage, handler, pipe, rowVars, scraper, job, pools>>

-----------------------------------------------------------------------------
(* main *)

\* A signal, or a listener that failed: Shutdown of both servers begins.
ShutdownBegin ==
    /\ stage = "serving"
    /\ goto("http")
    /\ UNCHANGED <<deadline, handler, pipe, rowVars, scraper, job, pools>>

\* Variation of HttpDown: Shutdown is called with a context without a deadline.
HttpDownWaits ==
    /\ stage = "http"
    /\ \A h \in Handlers : handler[h] # "running"
    /\ goto("logs")
    /\ pipe' = [pipe EXCEPT !["logs"] = "closed"]
    /\ UNCHANGED <<deadline, handler, rowVars, scraper, job, pools>>

\* Stage 1 ends when no request is in flight or at the deadline; stage 2 begins
\* and closes the log pipeline.
HttpDown ==
    /\ stage = "http"
    /\ deadline \/ \A h \in Handlers : handler[h] # "running"
    /\ goto("logs")
    /\ pipe' = [pipe EXCEPT !["logs"] = "closed"]
    /\ UNCHANGED <<deadline, handler, rowVars, scraper, job, pools>>

\* Variation of LogsDrained: the drain is started and not waited for.
LogsDrainedUnwaited ==
    /\ stage = "logs"
    /\ goto("scraper")
    /\ scraper' = IF scraper = "running" THEN "cancelled" ELSE scraper
    /\ UNCHANGED <<deadline, handler, pipe, rowVars, job, pools>>

\* Stage 2 ends when the log pipeline is drained or at the deadline; stage 3
\* begins and cancels the scraper.
LogsDrained ==
    /\ stage = "logs"
    /\ deadline \/ pipe["logs"] = "drained"
    /\ goto("scraper")
    /\ scraper' = IF scraper = "running" THEN "cancelled" ELSE scraper
    /\ UNCHANGED <<deadline, handler, pipe, rowVars, job, pools>>

\* Variation of ScraperDown: the metrics pipeline is closed at the deadline too.
ScraperDownOrDeadline ==
    /\ stage = "scraper"
    /\ deadline \/ RunOver
    /\ goto("metrics")
    /\ pipe' = [pipe EXCEPT !["metrics"] = "closed"]
    /\ UNCHANGED <<deadline, handler, rowVars, scraper, job, pools>>

\* The scraper's Run is over: close the metrics pipeline.  The select of
\* waitWithContext may take either case when both are ready.
ScraperDown ==
    /\ stage = "scraper"
    /\ RunOver
    /\ goto("metrics")
    /\ pipe' = [pipe EXCEPT !["metrics"] = "closed"]
    /\ UNCHANGED <<deadline, handler, rowVars, scraper, job, pools>>

\* Stage 4 begins: cancel the jobs.
cancelJobs ==
    /\ goto("jobs")
    /\ job' = [j \in Jobs |-> IF job[j] = "running" THEN "cancelled" ELSE job[j]]

\* The deadline found the scraper still running: the metrics drain is skipped.
SkipMetricsDrain ==
    /\ stage = "scraper"
    /\ deadline
    /\ cancelJobs
    /\ UNCHANGED <<deadline, handler, pipe, rowVars, scraper, pools>>

MetricsDrained ==
    /\ stage = "metrics"
    /\ deadline \/ pipe["metrics"] = "drained"
    /\ cancelJobs
    /\ UNCHANGED <<deadline, handler, pipe, rowVars, scraper, pools>>

\* Stage 4 ends, stage 5: close the pools.
JobsDown ==
    /\ stage = "jobs"
    /\ deadline \/ \A j \in Jobs : job[j] = "stopped"
    /\ goto("close")
    /\ UNCHANGED <<deadline, handler, pipe, rowVars, scraper, job, pools>>

ClosePools ==
    /\ stage = "close"
    /\ pools' = "closed"
    /\ goto("closed")
    /\ UNCHANGED <<deadline, handler, pipe, rowVars, scraper, job>>

\* main returns, and with it everything that is still running ends.
Return ==
    /\ stage = "closed"
    /\ goto("exited")
    /\ UNCHANGED <<deadline, handler, pipe, rowVars, scraper, job, pools>>

main ==
    \/ HttpDown \/ LogsDrained \/ ScraperDown \/ SkipMetricsDrain
    \/ MetricsDrained \/ JobsDown \/ ClosePools \/ Return

\* The process but for main.
Alive ==
    /\ stage # "exited"
    /\ \/ \E h \in Handlers : HandlerStart(h) \/ HandlerEnd(h)
       \/ \E h \in LogPosts \cup OtlpPosts : HandlerPush(h)
       \/ \E h \in Tails : TailCancelled(h)
       \/ \E k \in Kinds : Store(k) \/ Drain(k)
       \/ ScraperPush \/ ScraperStop \/ ScraperPanic \/ LastScrapeEnds
       \/ \E j \in Jobs : JobStop(j)

\* main has returned and the process is gone.
Exited == stage = "exited" /\ UNCHANGED vars

Next ==
    \/ Alive
    \/ Deadline
    \/ ShutdownBegin
    \/ main
    \/ Exited

Spec == Init /\ [][Next]_vars

(***************************************************************************)
(* Of the process only main is known to run on.  Handlers, scrapes, jobs   *)
(* and flushes may hang, unless a property says otherwise.                 *)
(***************************************************************************)
FairSpec == Spec /\ WF_vars(main)

\* Nothing hangs: requests, scrapes and flushes end, and live tails and jobs end
\* once they are cancelled.
Prompt ==
    /\ \A h \in LogPosts \cup OtlpPosts : WF_vars(HandlerEnd(h))
    /\ \A h \in Tails : WF_vars(TailCancelled(h))
    /\ \A k \in Kinds : WF_vars(Store(k)) /\ WF_vars(Drain(k))
    /\ WF_vars(ScraperStop)
    /\ \A j \in Jobs : WF_vars(job[j] = "cancelled" /\ JobStop(j))
-----------------------------------------------------------------------------
(* Properties *)

\* Types of the parts of the process.
TypeOK ==
    /\ stage \in Stages
    /\ deadline \in BOOLEAN
    /\ handler \in [Handlers -> {"idle", "running", "done"}]
    /\ pipe \in [Kinds -> {"open", "closed", "drained"}]
    /\ buffered \in [Kinds -> 0..MaxRows]
    /\ dropped \in [Kinds -> 0..MaxRows]
    /\ accepted \in [Kinds -> 0..MaxRows]
    /\ scraper \in {"running", "cancelled", "dead", "stopped"}
    /\ job \in [Jobs -> {"running", "cancelled", "stopped"}]
    /\ pools \in {"open", "closed"}

Quiet == /\ \A h \in Handlers : handler[h] # "running"
         /\ RunOver
         /\ \A j \in Jobs : job[j] = "stopped"

\* Of the rows accepted none is under way any more: each was stored, but for
\* less than a batch per pipeline, reported dropped when the last flush failed.
Accounted ==
    \A k \in Kinds : pipe[k] = "drained" /\ buffered[k] = 0 /\ dropped[k] < BatchSize

\* A shutdown that beats its deadline accounts for every accepted row before it
\* closes the pools, and nobody is left who would use them but the scrapes of a
\* scraper that died of a panic.
CleanShutdownAccountsForAll == pools = "closed" /\ ~deadline => Accounted /\ Quiet

\* The scraper's Run, which starts the scrapes that push into the metrics
\* pipeline, is over before that pipeline is closed, deadline or not.
ScraperStopsBeforeMetricsDrain == pipe["metrics"] # "open" => RunOver

\* The pipelines drain while the jobs are not yet told to stop and the pools
\* are open, so a drain never meets a closed database before the deadline.
DrainsBeforeClose ==
    \A k \in Kinds : pipe[k] = "closed" /\ ~deadline =>
        /\ pools = "open"
        /\ \A j \in Jobs : job[j] # "cancelled"

\* The order of the stages is kept, by main and by what main waits for.
StageOrder == TypeOK /\ ScraperStopsBeforeMetricsDrain /\ DrainsBeforeClose

\* However many requests, scrapes, jobs or flushes hang, a shutdown ends, given
\* that the timer of the deadline fires.
ShutdownTerminates == WF_vars(Deadline) => (stage = "http" ~> stage = "exited")

\* Without hanging parts no deadline is needed: the stages wait for each other
\* in no circle, live tails included, which end only because they are cancelled,
\* and the shutdown ends by itself with every row accounted for.
PromptShutdownIsClean ==
    Prompt /\ []~deadline => (stage = "http" ~> (stage = "exited" /\ Accounted))
=============================================================================
