------------------------------ MODULE LiveTail ------------------------------
(***************************************************************************)
(* Live tail over the broadcaster: Broadcaster (ingestion/broadcaster.go), *)
(* the SSE handler streamBroadcast (ui/stream.go), the sessions it depends *)
(* on (services/sessions.go, sessionAuth, login and logout) and the        *)
(* cancellation of all streams at shutdown (sseCancel in main.go).         *)
(*                                                                         *)
(* Logs are numbered in the order the fan-out broadcasts them.  A stream   *)
(* authenticates once, when it connects, subscribes, and from then on      *)
(* looks at its session only when its heartbeat ticks.  The UI server sets *)
(* no write deadline, so a write to a client that has stopped reading      *)
(* returns when the client reads on or its connection breaks, or never.    *)
(***************************************************************************)
EXTENDS Integers, SequencesExt

CONSTANTS
    Streams,    \* SSE connections
    Sessions,   \* session cookies
    BufSize,    \* subscriberBufSize
    MaxLogs,    \* bound on the logs broadcast
    NoSession

ASSUME LiveTailAssumption ==
    /\ BufSize \in Nat \ {0}
    /\ MaxLogs \in Nat
    /\ NoSession \notin Sessions

VARIABLES
    state,     \* state[c]: a session is "none", "active", "expired" or "gone"
    stream,    \* stream[c]: where handler c is
    cookie,    \* cookie[s]: the session of stream s
    subs,      \* streams in the broadcaster's map
    closedCh,  \* streams whose channel has been closed
    queue,     \* queue[s]: the channel of subscriber s
    aired,     \* number of logs broadcast so far
    joined,    \* joined[s]: history, aired when s subscribed
    written,   \* written[s]: logs written to the client of s
    overflow,  \* overflow[s]: history, a log was dropped for s
    cancelled  \* StreamCtx is done

sessionVars == <<state>>
streamVars == <<stream, cookie, written>>
subVars == <<subs, closedCh, queue, joined, overflow>>
vars == <<state, stream, cookie, subs, closedCh, queue, aired, joined, written,
          overflow, cancelled>>

Init ==
    /\ state = [c \in Sessions |-> "none"]
    /\ stream = [s \in Streams |-> "new"]
    /\ cookie = [s \in Streams |-> NoSession]
    /\ subs = {}
    /\ closedCh = {}
    /\ queue = [s \in Streams |-> <<>>]
    /\ aired = 0
    /\ joined = [s \in Streams |-> 0]
    /\ written = [s \in Streams |-> <<>>]
    /\ overflow = [s \in Streams |-> FALSE]
    /\ cancelled = FALSE

-----------------------------------------------------------------------------
(* SessionsService.  Time is abstracted to the moment a session expires; the *)
(* sweep, the only other thing that looks at it, drops expired ones.         *)

IsSessionValid(c) == c \in Sessions /\ state[c] = "active"

\* processLogin with the right secret; a uuid is never issued twice.
CreateSession(c) ==
    /\ state[c] = "none"
    /\ state' = [state EXCEPT ![c] = "active"]
    /\ UNCHANGED <<streamVars, subVars, aired, cancelled>>

\* processLogout
InvalidateSession(c) ==
    /\ state[c] \in {"active", "expired"}
    /\ state' = [state EXCEPT ![c] = "gone"]
    /\ UNCHANGED <<streamVars, subVars, aired, cancelled>>

Expire(c) ==
    /\ state[c] = "active"
    /\ state' = [state EXCEPT ![c] = "expired"]
    /\ UNCHANGED <<streamVars, subVars, aired, cancelled>>

sweep ==
    /\ \E c \in Sessions : state[c] = "expired"
    /\ state' = [c \in Sessions |-> IF state[c] = "expired" THEN "gone" ELSE state[c]]
    /\ UNCHANGED <<streamVars, subVars, aired, cancelled>>

-----------------------------------------------------------------------------
(* streamBroadcast *)

\* Without a valid session the request is redirected to the login page.
sessionAuth(s, c) ==
    /\ stream[s] = "new"
    /\ cookie' = [cookie EXCEPT ![s] = c]
    /\ stream' = [stream EXCEPT ![s] = IF IsSessionValid(c) THEN "authed" ELSE "done"]
    /\ UNCHANGED <<state, written, subVars, aired, cancelled>>

\* streamLogs answers with an error: the query is invalid or compound.
streamRefused(s) ==
    /\ stream[s] = "authed"
    /\ stream' = [stream EXCEPT ![s] = "done"]
    /\ UNCHANGED <<state, cookie, written, subVars, aired, cancelled>>

\* streamLogs chose the broadcaster: a fresh channel under a fresh id.
Subscribe(s) ==
    /\ stream[s] = "authed"
    /\ subs' = subs \cup {s}
    /\ joined' = [joined EXCEPT ![s] = aired]
    /\ stream' = [stream EXCEPT ![s] = "streaming"]
    /\ UNCHANGED <<state, cookie, written, closedCh, queue, overflow, aired, cancelled>>

\* The handler is in its loop: at the select, or in a write.
Connected == {"streaming", "writing", "blocked"}

\* The select takes a log and the handler writes it.
Receive(s) ==
    /\ stream[s] = "streaming"
    /\ queue[s] # <<>>
    /\ stream' = [stream EXCEPT ![s] = "writing"]
    /\ written' = [written EXCEPT ![s] = Append(@, Head(queue[s]))]
    /\ queue' = [queue EXCEPT ![s] = Tail(@)]
    /\ UNCHANGED <<state, cookie, subs, closedCh, joined, overflow, aired, cancelled>>

\* The flush ticker.
Flush(s) ==
    /\ stream[s] = "streaming"
    /\ stream' = [stream EXCEPT ![s] = "writing"]
    /\ UNCHANGED <<state, cookie, written, subVars, aired, cancelled>>

\* The write is done, or has failed because the connection is broken: back to
\* the select.
WriteReturns(s) ==
    /\ stream[s] = "writing"
    /\ stream' = [stream EXCEPT ![s] = "streaming"]
    /\ UNCHANGED <<state, cookie, written, subVars, aired, cancelled>>

\* The client has stopped reading and the buffers on the way are full; later it
\* may read on.
WriteBlocks(s) ==
    /\ stream[s] = "writing"
    /\ stream' = [stream EXCEPT ![s] = "blocked"]
    /\ UNCHANGED <<state, cookie, written, subVars, aired, cancelled>>

ClientReads(s) ==
    /\ stream[s] = "blocked"
    /\ stream' = [stream EXCEPT ![s] = "writing"]
    /\ UNCHANGED <<state, cookie, written, subVars, aired, cancelled>>

\* Variation of Heartbeat: only a comment line is written.
HeartbeatUnchecked(s) == Flush(s)

\* The session of the connected request, looked at again.
sessionActive(s) == IsSessionValid(cookie[s])

\* The heartbeat: a stream whose session is no longer valid returns, another
\* one writes a comment.
Heartbeat(s) ==
    /\ stream[s] = "streaming"
    /\ stream' = [stream EXCEPT ![s] = IF sessionActive(s) THEN "writing" ELSE "leaving"]
    /\ UNCHANGED <<state, cookie, written, subVars, aired, cancelled>>

\* The client disconnects, or StreamCtx is cancelled.
Hangup(s) ==
    /\ stream[s] = "streaming"
    /\ stream' = [stream EXCEPT ![s] = "leaving"]
    /\ UNCHANGED <<state, cookie, written, subVars, aired, cancelled>>

StreamCtxDone(s) == cancelled /\ Hangup(s)

\* Variation of Unsubscribe: the channel is closed and stays in the map.
UnsubscribeStaysInMap(s) ==
    /\ stream[s] = "leaving"
    /\ closedCh' = closedCh \cup (subs \cap {s})
    /\ stream' = [stream EXCEPT ![s] = "done"]
    /\ UNCHANGED <<state, cookie, written, subs, queue, joined, overflow, aired, cancelled>>

\* The deferred unsubscribe: out of the map and closed, under the mutex.
Unsubscribe(s) ==
    /\ stream[s] = "leaving"
    /\ subs' = subs \ {s}
    /\ closedCh' = closedCh \cup (subs \cap {s})
    /\ stream' = [stream EXCEPT ![s] = "done"]
    /\ UNCHANGED <<state, cookie, written, queue, joined, overflow, aired, cancelled>>

-----------------------------------------------------------------------------
\* Variation of broadcast: one full channel makes it return.
broadcastStopsAtFull ==
    /\ aired < MaxLogs
    /\ aired' = aired + 1
    /\ LET full == {s \in subs : Len(queue[s]) >= BufSize}
       IN  /\ queue' = [s \in Streams |-> IF full = {} /\ s \in subs
                                          THEN Append(queue[s], aired + 1) ELSE queue[s]]
           /\ overflow' = [s \in Streams |-> overflow[s] \/ (full # {} /\ s \in subs)]
    /\ UNCHANGED <<state, streamVars, subs, closedCh, joined, cancelled>>

\* broadcast, called by the pipeline's fan-out: a send per subscriber that never
\* blocks; a full channel loses the log.
broadcast ==
    /\ aired < MaxLogs
    /\ aired' = aired + 1
    /\ LET full == {s \in subs : Len(queue[s]) >= BufSize}
       IN  /\ queue' = [s \in Streams |-> IF s \in subs \ full
                                          THEN Append(queue[s], aired + 1) ELSE queue[s]]
           /\ overflow' = [s \in Streams |-> overflow[s] \/ s \in full]
    /\ UNCHANGED <<state, streamVars, subs, closedCh, joined, cancelled>>

\* sseCancel, when the HTTP server begins to shut down.
sseCancel ==
    /\ ~cancelled
    /\ cancelled' = TRUE
    /\ UNCHANGED <<state, streamVars, subVars, aired>>

\* Every stream has ended.
Finished ==
    /\ \A s \in Streams : stream[s] = "done"
    /\ UNCHANGED vars

Next ==
    \/ \E c \in Sessions : CreateSession(c) \/ InvalidateSession(c) \/ Expire(c)
    \/ sweep
    \/ \E s \in Streams :
          \/ \E c \in Sessions \cup {NoSession} : sessionAuth(s, c)
          \/ streamRefused(s) \/ Subscribe(s) \/ Receive(s) \/ Flush(s) \/ Heartbeat(s)
          \/ WriteReturns(s) \/ WriteBlocks(s) \/ ClientReads(s)
          \/ Hangup(s) \/ StreamCtxDone(s) \/ Unsubscribe(s)
    \/ broadcast
    \/ sseCancel
    \/ Finished

Spec == Init /\ [][Next]_vars

(***************************************************************************)
(* A handler that is not writing keeps running, and a write returns if the *)
(* client reads again and again.  Go's select picks among the ready cases  *)
(* at random, so a case that is ready again and again is picked (SF).      *)
(* Clients need neither disconnect nor read.                               *)
(***************************************************************************)
Fairness ==
    \A s \in Streams :
        /\ WF_vars(Subscribe(s) \/ streamRefused(s)) /\ WF_vars(Unsubscribe(s))
        /\ SF_vars(WriteReturns(s))
        /\ SF_vars(Receive(s)) /\ SF_vars(Heartbeat(s)) /\ SF_vars(StreamCtxDone(s))

FairSpec == Spec /\ Fairness

-----------------------------------------------------------------------------
(* Properties *)

\* Types; a subscriber channel never holds more than its capacity.
TypeOK ==
    /\ state \in [Sessions -> {"none", "active", "expired", "gone"}]
    /\ stream \in [Streams -> {"new", "authed", "streaming", "writing", "blocked", "leaving", "done"}]
    /\ cookie \in [Streams -> Sessions \cup {NoSession}]
    /\ subs \subseteq Streams
    /\ closedCh \subseteq Streams
    /\ queue \in [Streams -> Seq(1..MaxLogs)]
    /\ \A s \in Streams : Len(queue[s]) <= BufSize
    /\ aired \in 0..MaxLogs
    /\ joined \in [Streams -> 0..MaxLogs]
    /\ written \in [Streams -> Seq(1..MaxLogs)]
    /\ overflow \in [Streams -> BOOLEAN]
    /\ cancelled \in BOOLEAN

\* A closed channel is out of the map, so broadcast never sends on it (a panic),
\* and a handler that has ended has given its subscription back.
NoSendAfterClose ==
    /\ subs \cap closedCh = {}
    /\ \A s \in Streams : stream[s] = "done" => s \notin subs

\* What a subscriber was sent or still has queued.
feed(s) == written[s] \o queue[s]

\* A subscriber sees the logs broadcast since it joined in their order, none
\* twice, and all of them unless its channel was full once.
FeedFollowsBroadcast ==
    \A s \in Streams :
        /\ \A i, j \in DOMAIN feed(s) : i < j => feed(s)[i] < feed(s)[j]
        /\ \A i \in DOMAIN feed(s) : feed(s)[i] > joined[s]
        /\ s \in subs /\ ~overflow[s] =>
              feed(s) = [i \in 1..(aired - joined[s]) |-> joined[s] + i]

\* The subscriptions are consistent: no send on a closed channel, none left in
\* the map, and an ordered feed without gaps.
SubscriberInv == TypeOK /\ NoSendAfterClose /\ FeedFollowsBroadcast

\* One slow subscriber costs the others nothing: a log is dropped for a stream
\* only while a whole buffer of logs is waiting for that stream.
DropsOnlyForFullBuffers ==
    [][\A s \in subs :
          Len(feed(s)') = Len(feed(s)) /\ aired' # aired => Len(queue[s]) = BufSize]_vars

\* The client of s stops reading and never reads again.
abandoned(s) == <>[](stream[s] = "blocked")

\* A stream does not outlive its session for ever: after a logout or the expiry
\* a heartbeat ends it, however busy the stream is and whatever the clients of
\* other streams do.
LogoutEndsStream ==
    \A s \in Streams :
        \/ abandoned(s)
        \/ (stream[s] \in Connected /\ ~sessionActive(s)) ~> stream[s] = "done"

\* sseCancel ends every stream, also one that subscribes after it; without that
\* the HTTP server's Shutdown would wait for them until its deadline.
CancelEndsStreams ==
    \A s \in Streams :
        \/ abandoned(s)
        \/ (cancelled /\ stream[s] # "new") ~> stream[s] = "done"

\* Streams end: with their session, and at the latest with the server.  The
\* exception is a client that stops reading for good without disconnecting: its
\* handler stays in a write, which no deadline ends, and keeps its subscription.
StreamsEnd == LogoutEndsStream /\ CancelEndsStreams
=============================================================================
