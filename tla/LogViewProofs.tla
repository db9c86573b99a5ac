---------------------------- MODULE LogViewProofs ----------------------------
(***************************************************************************)
(* Proofs about the two live tails and the log viewer.                     *)
(*                                                                         *)
(* The live tail over the broadcaster (module LiveTail), for any number of *)
(* streams, sessions and logs and any channel capacity.  TailInv is the    *)
(* inductive invariant: it says when a stream is in the broadcaster's map, *)
(* and that no subscriber was sent more than what has been broadcast.      *)
(*                                                                         *)
(* The log store (module LogStore), for any numbers of rows, event times   *)
(* and sweeps and any limits.  StoreInv is the inductive invariant: it     *)
(* orders the rows of the table by arrival and places them with respect to *)
(* the cursors of the polling live tail and of the viewer.                 *)
(***************************************************************************)
EXTENDS LiveTail, LogStore, SequenceTheorems, NaturalsInduction, WellFoundedInduction, TLAPS

\* A stream is in the map between Subscribe and Unsubscribe; its channel is
\* closed after that, and nothing was sent to it before.
SubscribedWhileStreaming ==
    \A s \in Streams :
       /\ s \in subs <=> stream[s] \in Connected \cup {"leaving"}
       /\ s \in subs => s \notin closedCh
       /\ stream[s] \in {"new", "authed"} =>
             s \notin closedCh /\ queue[s] = <<>> /\ written[s] = <<>> /\ ~overflow[s]

\* A subscriber joined, and was sent logs, no later than now.
FeedIsAired ==
    \A s \in Streams : /\ joined[s] <= aired
                       /\ \A i \in DOMAIN feed(s) : feed(s)[i] <= aired

TailInv == TypeOK /\ SubscribedWhileStreaming /\ FeedFollowsBroadcast /\ FeedIsAired

-----------------------------------------------------------------------------
(* Sequences *)

\* Moving the head of the channel to the client leaves the feed as it is.
LEMMA FeedReceive ==
    ASSUME NEW S, NEW w \in Seq(S), NEW q \in Seq(S), q # <<>>
    PROVE  Append(w, Head(q)) \o Tail(q) = w \o q
  <1> DEFINE a == Append(w, Head(q)) \o Tail(q)
             b == w \o q
  <1>1. a \in Seq(S) /\ b \in Seq(S)
    OBVIOUS
  <1>2. Len(a) = Len(b)
    OBVIOUS
  <1>3. \A i \in 1..Len(a) : a[i] = b[i]
    OBVIOUS
  <1> HIDE DEF a, b
  <1>4. a = b
    BY <1>1, <1>2, <1>3, SeqEqual
  <1> QED
    BY <1>4 DEF a, b

\* A send to the channel appends to the feed.
LEMMA FeedSend ==
    ASSUME NEW S, NEW w \in Seq(S), NEW q \in Seq(S), NEW x \in S
    PROVE  w \o Append(q, x) = Append(w \o q, x)
  <1> DEFINE a == w \o Append(q, x)
             b == Append(w \o q, x)
  <1>1. a \in Seq(S) /\ b \in Seq(S)
    OBVIOUS
  <1>2. Len(a) = Len(b)
    OBVIOUS
  <1>3. \A i \in 1..Len(a) : a[i] = b[i]
    OBVIOUS
  <1> HIDE DEF a, b
  <1>4. a = b
    BY <1>1, <1>2, <1>3, SeqEqual
  <1> QED
    BY <1>4 DEF a, b

\* The logs after j in a row: the next one prolongs the row.
LEMMA RowOfLogs ==
    ASSUME NEW j \in Nat, NEW a \in Nat, j <= a
    PROVE  Append([i \in 1..(a - j) |-> j + i], a + 1) = [i \in 1..(a + 1 - j) |-> j + i]
  <1> DEFINE f == [i \in 1..(a - j) |-> j + i]
             g == Append(f, a + 1)
             h == [i \in 1..(a + 1 - j) |-> j + i]
  <1>1. a - j \in Nat /\ a + 1 - j \in Nat
    OBVIOUS
  <1>2. f \in Seq(Nat) /\ Len(f) = a - j
    BY <1>1
  <1>3. h \in Seq(Nat) /\ Len(h) = a + 1 - j
    BY <1>1
  <1>4. g \in Seq(Nat) /\ Len(g) = a + 1 - j
    BY <1>2
  <1>5. \A i \in 1..Len(g) : g[i] = h[i]
    BY <1>1, <1>2, <1>4
  <1> HIDE DEF g, h
  <1>6. g = h
    BY <1>3, <1>4, <1>5, SeqEqual
  <1> QED
    BY <1>6 DEF g, h

\* The row is empty when nothing came after j.
LEMMA EmptyRow ==
    ASSUME NEW j \in Nat
    PROVE  <<>> = [i \in 1..(j - j) |-> j + i]
  <1> DEFINE h == [i \in 1..(j - j) |-> j + i]
  <1>1. j - j = 0
    OBVIOUS
  <1>2. h \in Seq(Nat) /\ Len(h) = 0
    BY <1>1
  <1> HIDE DEF h
  <1>3. h = <<>>
    BY <1>2, EmptySeq
  <1> QED
    BY <1>3 DEF h

-----------------------------------------------------------------------------
(* Each action preserves the invariant *)

\* At the start nobody has subscribed.
LEMMA TailInit == Init => TailInv
  <1> SUFFICES ASSUME Init PROVE TailInv
    OBVIOUS
  <1>1. TypeOK
    <2>1. cancelled \in BOOLEAN /\ overflow \in [Streams -> BOOLEAN]
      BY Zenon DEF Init
    <2> QED
      BY <2>1, LiveTailAssumption DEF Init, TypeOK
  <1>2. SubscribedWhileStreaming
    BY DEF Init, SubscribedWhileStreaming, Connected
  <1>3. \A s \in Streams : feed(s) = <<>> /\ s \notin subs /\ joined[s] <= aired
    BY DEF Init, feed
  <1>4. FeedFollowsBroadcast /\ FeedIsAired
    BY <1>3 DEF FeedFollowsBroadcast, FeedIsAired
  <1> QED
    BY <1>1, <1>2, <1>4 DEF TailInv

\* What nobody has sent or received keeps the feeds.
LEMMA FeedsKept ==
    ASSUME TailInv, \A s \in Streams : feed(s)' = feed(s), subs' \subseteq subs,
           UNCHANGED <<aired, joined, overflow>>
    PROVE  FeedFollowsBroadcast' /\ FeedIsAired'
  <1>1. FeedFollowsBroadcast'
    BY DEF TailInv, FeedFollowsBroadcast
  <1>2. FeedIsAired'
    BY DEF TailInv, FeedIsAired
  <1> QED
    BY <1>1, <1>2

\* Logins, logouts and expiries.
LEMMA SessionStep ==
    ASSUME TailInv,
           sweep \/ \E c \in Sessions : CreateSession(c) \/ InvalidateSession(c) \/ Expire(c)
    PROVE  TailInv'
  <1>1. UNCHANGED <<stream, cookie, written, subs, closedCh, queue, joined, overflow, aired, cancelled>>
    BY DEF sweep, CreateSession, InvalidateSession, Expire, streamVars, subVars
  <1>2. state' \in [Sessions -> {"none", "active", "expired", "gone"}]
    BY DEF sweep, CreateSession, InvalidateSession, Expire, TailInv, TypeOK
  <1>3. TypeOK' /\ SubscribedWhileStreaming'
    BY <1>1, <1>2 DEF TailInv, TypeOK, SubscribedWhileStreaming
  <1>4. FeedFollowsBroadcast' /\ FeedIsAired'
    BY <1>1, FeedsKept DEF feed
  <1> QED
    BY <1>3, <1>4 DEF TailInv

\* A handler that goes on without touching its subscription.
LEMMA HandlerStep ==
    ASSUME TailInv, NEW s \in Streams,
           \/ \E c \in Sessions \cup {NoSession} : sessionAuth(s, c)
           \/ streamRefused(s) \/ Heartbeat(s) \/ Flush(s) \/ Hangup(s) \/ StreamCtxDone(s)
           \/ WriteReturns(s) \/ WriteBlocks(s) \/ ClientReads(s)
    PROVE  TailInv'
  <1>1. UNCHANGED <<state, written, subs, closedCh, queue, joined, overflow, aired, cancelled>>
    BY DEF sessionAuth, streamRefused, Heartbeat, Flush, WriteReturns, WriteBlocks, ClientReads, Hangup,
           StreamCtxDone, subVars
  <1>2. cookie' \in [Streams -> Sessions \cup {NoSession}]
    BY DEF sessionAuth, streamRefused, Heartbeat, Flush, WriteReturns, WriteBlocks, ClientReads, Hangup,
           StreamCtxDone, TailInv, TypeOK
  <1>3. PICK p \in Connected \cup {"authed", "leaving", "done"} :
           /\ stream' = [stream EXCEPT ![s] = p]
           /\ p \in {"authed", "done"} => stream[s] \in {"new", "authed"}
           /\ p = "authed" => stream[s] = "new"
           /\ p \in Connected \cup {"leaving"} => stream[s] \in Connected
    BY DEF Connected, sessionAuth, streamRefused, Heartbeat, Flush, WriteReturns, WriteBlocks, ClientReads, Hangup,
           StreamCtxDone
  <1>4. /\ stream' \in [Streams -> {"new", "authed", "streaming", "writing", "blocked", "leaving", "done"}]
        /\ stream'[s] = p /\ \A t \in Streams : t # s => stream'[t] = stream[t]
    BY <1>3 DEF TailInv, TypeOK, Connected
  <1>5. TypeOK'
    BY <1>1, <1>2, <1>4 DEF TailInv, TypeOK
  <1>6. SubscribedWhileStreaming'
    BY <1>1, <1>3, <1>4 DEF TailInv, SubscribedWhileStreaming, Connected
  <1>7. FeedFollowsBroadcast' /\ FeedIsAired'
    BY <1>1, FeedsKept DEF feed
  <1> QED
    BY <1>5, <1>6, <1>7 DEF TailInv

\* A fresh channel: its feed starts with the next log.
LEMMA SubscribeStep ==
    ASSUME TailInv, NEW s \in Streams, Subscribe(s)
    PROVE  TailInv'
  <1>1. /\ stream[s] = "authed" /\ subs' = subs \cup {s}
        /\ UNCHANGED <<state, cookie, written, closedCh, queue, overflow, aired, cancelled>>
    BY DEF Subscribe
  <1>2. /\ stream' \in [Streams -> {"new", "authed", "streaming", "writing", "blocked", "leaving", "done"}]
        /\ stream'[s] = "streaming" /\ \A t \in Streams : t # s => stream'[t] = stream[t]
    BY DEF Subscribe, TailInv, TypeOK
  <1>3. /\ joined' \in [Streams -> 0..MaxLogs] /\ aired \in 0..MaxLogs
        /\ joined'[s] = aired /\ \A t \in Streams : t # s => joined'[t] = joined[t]
    BY DEF Subscribe, TailInv, TypeOK
  <1>4. TypeOK'
    BY <1>1, <1>2, <1>3 DEF TailInv, TypeOK
  <1>5. SubscribedWhileStreaming'
    BY <1>1, <1>2 DEF TailInv, SubscribedWhileStreaming, Connected
  <1>6. \A t \in Streams : feed(t)' = feed(t)
    BY <1>1 DEF feed
  <1>7. feed(s) = <<>>
    BY <1>1 DEF TailInv, SubscribedWhileStreaming, feed
  <1>8. DOMAIN feed(s) = {}
    BY <1>7
  <1>9. feed(s) = [n \in 1..(aired - aired) |-> aired + n]
    BY <1>3, <1>7, EmptyRow, LiveTailAssumption
  <1>10. FeedFollowsBroadcast'
    <2> SUFFICES ASSUME NEW t \in Streams
                 PROVE  /\ \A n, m \in DOMAIN feed(t) : n < m => feed(t)[n] < feed(t)[m]
                        /\ \A n \in DOMAIN feed(t) : feed(t)[n] > joined'[t]
                        /\ t \in subs' /\ ~overflow[t] =>
                              feed(t) = [n \in 1..(aired - joined'[t]) |-> joined'[t] + n]
      BY <1>1, <1>6 DEF FeedFollowsBroadcast
    <2>1. CASE t = s
      BY <1>3, <1>8, <1>9, <2>1
    <2>2. CASE t # s
      BY <1>1, <1>3, <2>2 DEF TailInv, FeedFollowsBroadcast
    <2> QED
      BY <2>1, <2>2
  <1>11. FeedIsAired'
    BY <1>1, <1>3, <1>6, <1>8 DEF TailInv, FeedIsAired
  <1> QED
    BY <1>4, <1>5, <1>10, <1>11 DEF TailInv

\* A log goes from the channel to the client.
LEMMA ReceiveStep ==
    ASSUME TailInv, NEW s \in Streams, Receive(s)
    PROVE  TailInv'
  <1> DEFINE L == 1..MaxLogs
             w == written[s]
             q == queue[s]
  <1>1. /\ stream[s] = "streaming" /\ q # <<>>
        /\ UNCHANGED <<state, cookie, subs, closedCh, joined, overflow, aired, cancelled>>
    BY DEF Receive
  <1>2. w \in Seq(L) /\ q \in Seq(L) /\ Len(q) <= BufSize
    BY DEF TailInv, TypeOK
  <1>3. Head(q) \in L /\ Tail(q) \in Seq(L) /\ Len(Tail(q)) = Len(q) - 1 /\ Len(q) \in Nat
    <2> HIDE DEF L, w, q
    <2> QED
      BY <1>1, <1>2, HeadTailProperties
  <1>4. Append(w, Head(q)) \in Seq(L)
    BY <1>2, <1>3
  <1>5. Append(w, Head(q)) \o Tail(q) = w \o q
    <2> HIDE DEF L, w, q
    <2> QED
      BY <1>1, <1>2, FeedReceive
  <1>6. /\ written' \in [Streams -> Seq(L)] /\ written'[s] = Append(w, Head(q))
        /\ \A t \in Streams : t # s => written'[t] = written[t]
    BY <1>4 DEF Receive, TailInv, TypeOK
  <1>7. /\ queue' \in [Streams -> Seq(L)] /\ queue'[s] = Tail(q)
        /\ \A t \in Streams : t # s => queue'[t] = queue[t]
    BY <1>3 DEF Receive, TailInv, TypeOK
  <1>8. Len(Tail(q)) <= BufSize
    BY <1>2, <1>3, LiveTailAssumption
  <1>0. /\ stream' \in [Streams -> {"new", "authed", "streaming", "writing", "blocked", "leaving", "done"}]
        /\ stream'[s] = "writing" /\ \A t \in Streams : t # s => stream'[t] = stream[t]
    BY DEF Receive, TailInv, TypeOK
  <1> HIDE DEF w, q
  <1>9. TypeOK'
    BY <1>1, <1>6, <1>7, <1>8, <1>0 DEF TailInv, TypeOK
  <1>10. SubscribedWhileStreaming'
    BY <1>1, <1>6, <1>7, <1>0 DEF TailInv, SubscribedWhileStreaming, Connected
  <1>11. \A t \in Streams : feed(t)' = feed(t)
    BY <1>5, <1>6, <1>7 DEF feed, w, q
  <1>12. FeedFollowsBroadcast' /\ FeedIsAired'
    BY <1>1, <1>11, FeedsKept
  <1> QED
    BY <1>9, <1>10, <1>12 DEF TailInv

\* The subscription is given back.
LEMMA UnsubscribeStep ==
    ASSUME TailInv, NEW s \in Streams, Unsubscribe(s)
    PROVE  TailInv'
  <1>1. /\ stream[s] = "leaving" /\ subs' = subs \ {s} /\ closedCh' = closedCh \cup (subs \cap {s})
        /\ UNCHANGED <<state, cookie, written, queue, joined, overflow, aired, cancelled>>
    BY DEF Unsubscribe
  <1>2. /\ stream' \in [Streams -> {"new", "authed", "streaming", "writing", "blocked", "leaving", "done"}]
        /\ stream'[s] = "done" /\ \A t \in Streams : t # s => stream'[t] = stream[t]
    BY DEF Unsubscribe, TailInv, TypeOK
  <1>3. TypeOK'
    BY <1>1, <1>2 DEF TailInv, TypeOK
  <1>4. SubscribedWhileStreaming'
    BY <1>1, <1>2 DEF TailInv, SubscribedWhileStreaming, Connected
  <1>5. FeedFollowsBroadcast' /\ FeedIsAired'
    BY <1>1, FeedsKept DEF feed
  <1> QED
    BY <1>3, <1>4, <1>5 DEF TailInv

\* The shutdown begins.
LEMMA CancelStep == TailInv /\ sseCancel => TailInv'
  <1> SUFFICES ASSUME TailInv, sseCancel PROVE TailInv'
    OBVIOUS
  <1>1. UNCHANGED <<state, stream, cookie, written, subs, closedCh, queue, joined, overflow, aired>>
    BY DEF sseCancel, streamVars, subVars
  <1>2. cancelled' \in BOOLEAN
    BY Zenon DEF sseCancel
  <1>3. TypeOK' /\ SubscribedWhileStreaming'
    BY <1>1, <1>2 DEF TailInv, TypeOK, SubscribedWhileStreaming
  <1>4. FeedFollowsBroadcast' /\ FeedIsAired'
    BY <1>1, FeedsKept DEF feed
  <1> QED
    BY <1>3, <1>4 DEF TailInv

\* A log is broadcast: it reaches every subscriber that has room for it.
LEMMA BroadcastStep == TailInv /\ broadcast => TailInv'
  <1> SUFFICES ASSUME TailInv, broadcast PROVE TailInv'
    OBVIOUS
  <1> DEFINE L == 1..MaxLogs
             x == aired + 1
             sent(s) == s \in subs /\ Len(queue[s]) < BufSize
  <1>1. /\ aired \in Nat /\ aired < MaxLogs /\ aired' = x /\ MaxLogs \in Nat
        /\ UNCHANGED <<state, stream, cookie, written, subs, closedCh, joined, cancelled>>
    BY LiveTailAssumption DEF broadcast, streamVars, TailInv, TypeOK
  <1>2. x \in L /\ x \in 0..MaxLogs
    BY <1>1
  <1>3. \A s \in Streams : /\ written[s] \in Seq(L) /\ queue[s] \in Seq(L)
                            /\ Len(queue[s]) \in Nat /\ Len(queue[s]) <= BufSize
    BY DEF TailInv, TypeOK
  <1>4. queue' = [s \in Streams |-> IF sent(s) THEN Append(queue[s], x) ELSE queue[s]]
    <2>1. queue' = [s \in Streams |-> IF s \in subs \ {t \in subs : Len(queue[t]) >= BufSize}
                                      THEN Append(queue[s], x) ELSE queue[s]]
      BY DEF broadcast
    <2>2. \A s \in Streams : s \in subs \ {t \in subs : Len(queue[t]) >= BufSize} <=> sent(s)
      BY <1>3, LiveTailAssumption
    <2> QED
      BY <2>1, <2>2
  <1>5. overflow' = [s \in Streams |-> overflow[s] \/ s \in {t \in subs : Len(queue[t]) >= BufSize}]
    BY DEF broadcast
  <1>6. overflow' \in [Streams -> BOOLEAN]
    BY <1>5, Zenon
  <1>7. \A s \in Streams : s \in subs /\ ~overflow'[s] => ~overflow[s] /\ sent(s)
    <2>1. \A s \in Streams : overflow'[s] <=> overflow[s] \/ s \in {t \in subs : Len(queue[t]) >= BufSize}
      BY <1>5, Zenon
    <2>2. \A s \in Streams : s \in subs /\ s \notin {t \in subs : Len(queue[t]) >= BufSize} => sent(s)
      BY <1>3, LiveTailAssumption
    <2> QED
      BY <2>1, <2>2, Zenon
  <1>8. \A s \in Streams : overflow'[s] /\ s \notin subs => overflow[s]
    <2>1. \A s \in Streams : s \notin subs => s \notin {t \in subs : Len(queue[t]) >= BufSize}
      OBVIOUS
    <2> QED
      BY <1>5, <2>1, Zenon
  <1>9. queue' \in [Streams -> Seq(L)]
    <2> HIDE DEF L, x, sent
    <2>1. \A s \in Streams : Append(queue[s], x) \in Seq(L)
      BY <1>2, <1>3
    <2> QED
      BY <1>3, <1>4, <2>1
  <1>10. \A s \in Streams : Len(queue'[s]) <= BufSize
    BY <1>2, <1>3, <1>4, LiveTailAssumption
  <1>11. TypeOK'
    BY <1>1, <1>2, <1>6, <1>9, <1>10 DEF TailInv, TypeOK
  <1>12. SubscribedWhileStreaming'
    <2>1. \A s \in Streams : stream[s] \in {"new", "authed"} => s \notin subs
      BY DEF TailInv, SubscribedWhileStreaming, Connected
    <2> QED
      BY <1>1, <1>4, <1>8, <2>1 DEF TailInv, SubscribedWhileStreaming
  <1>13. ASSUME NEW s \in Streams
         PROVE  /\ sent(s) => feed(s)' = Append(feed(s), x)
                /\ ~sent(s) => feed(s)' = feed(s)
    <2> DEFINE w == written[s]
               q == queue[s]
    <2>1. w \in Seq(L) /\ q \in Seq(L) /\ w' = w
      BY <1>1, <1>3
    <2>2. w \o Append(q, x) = Append(w \o q, x)
      <3> HIDE DEF w, q, L, x
      <3> QED
        BY <1>2, <2>1, FeedSend
    <2> QED
      BY <1>4, <2>1, <2>2 DEF feed
  <1>14. ASSUME NEW s \in Streams
         PROVE  /\ \A i, j \in DOMAIN feed(s)' : i < j => feed(s)'[i] < feed(s)'[j]
                /\ \A i \in DOMAIN feed(s)' : feed(s)'[i] > joined[s] /\ feed(s)'[i] <= x
                /\ s \in subs /\ ~overflow'[s] =>
                      feed(s)' = [i \in 1..(x - joined[s]) |-> joined[s] + i]
    <2> DEFINE f == feed(s)
               j0 == joined[s]
    <2>1. f \in Seq(L)
      BY <1>3 DEF feed
    <2>2. /\ \A i, j \in DOMAIN f : i < j => f[i] < f[j]
          /\ \A i \in DOMAIN f : f[i] > j0 /\ f[i] <= aired
          /\ s \in subs /\ ~overflow[s] => f = [i \in 1..(aired - j0) |-> j0 + i]
          /\ j0 \in Nat /\ j0 <= aired
      BY <1>1 DEF TailInv, TypeOK, FeedFollowsBroadcast, FeedIsAired
    <2>3. CASE sent(s)
      <3>1. feed(s)' = Append(f, x)
        BY <1>13, <2>3
      <3>2. s \in subs /\ ~overflow'[s] => Append(f, x) = [i \in 1..(x - j0) |-> j0 + i]
        BY <1>1, <1>7, <2>2, RowOfLogs
      <3>3. /\ \A i, j \in DOMAIN Append(f, x) : i < j => Append(f, x)[i] < Append(f, x)[j]
            /\ \A i \in DOMAIN Append(f, x) : Append(f, x)[i] > j0 /\ Append(f, x)[i] <= x
        <4> HIDE DEF f, j0
        <4>1. /\ DOMAIN f = 1..Len(f) /\ Len(f) \in Nat
              /\ DOMAIN Append(f, x) = 1..(Len(f) + 1)
              /\ \A i \in 1..Len(f) : Append(f, x)[i] = f[i] /\ f[i] \in Nat
              /\ Append(f, x)[Len(f) + 1] = x
          BY <1>1, <2>1
        <4> QED
          BY <1>1, <2>2, <4>1
      <3> QED
        BY <3>1, <3>2, <3>3
    <2>4. CASE ~sent(s)
      <3>1. feed(s)' = f
        BY <1>13, <2>4
      <3>2. ~(s \in subs /\ ~overflow'[s])
        BY <1>7, <2>4
      <3>3. \A i \in DOMAIN f : f[i] \in Nat
        <4> HIDE DEF f
        <4>1. \A i \in DOMAIN f : f[i] \in L
          <5> HIDE DEF L
          <5> QED
            BY <2>1
        <4> QED
          BY <4>1, <1>1
      <3> QED
        BY <1>1, <2>2, <3>1, <3>2, <3>3
    <2> QED
      BY <2>3, <2>4
  <1>15. FeedFollowsBroadcast'
    BY <1>1, <1>14 DEF FeedFollowsBroadcast
  <1>16. FeedIsAired'
    <2>1. \A s \in Streams : joined[s] <= aired /\ joined[s] \in Nat
      BY <1>1 DEF TailInv, TypeOK, FeedIsAired
    <2> QED
      BY <1>1, <1>14, <2>1 DEF FeedIsAired
  <1> QED
    BY <1>11, <1>12, <1>15, <1>16 DEF TailInv

\* Every step of the specification.
LEMMA TailStep == TailInv /\ [Next]_vars => TailInv'
  <1> SUFFICES ASSUME TailInv, [Next]_vars PROVE TailInv'
    OBVIOUS
  <1>1. CASE UNCHANGED vars
    <2>1. TypeOK' /\ SubscribedWhileStreaming'
      BY <1>1 DEF vars, TailInv, TypeOK, SubscribedWhileStreaming
    <2>2. FeedFollowsBroadcast' /\ FeedIsAired'
      BY <1>1, FeedsKept DEF vars, feed
    <2> QED
      BY <2>1, <2>2 DEF TailInv
  <1> QED
    BY <1>1, SessionStep, HandlerStep, SubscribeStep, ReceiveStep, UnsubscribeStep,
       BroadcastStep, CancelStep DEF Next, Finished

-----------------------------------------------------------------------------
(* The theorems *)

\* The inductive invariant of the live tail.
THEOREM TailInvariant == Spec => []TailInv
  BY TailInit, TailStep, PTL DEF Spec

\* broadcast never sends on a channel that unsubscribe closed, no ended handler
\* stays in the map, and every subscriber reads the logs since it joined in
\* their order, without a gap unless its channel was full.
THEOREM FeedsInOrder == Spec => []SubscriberInv
  <1>1. TailInv => NoSendAfterClose
    BY DEF TailInv, TypeOK, SubscribedWhileStreaming, NoSendAfterClose, Connected
  <1>2. TailInv => SubscriberInv
    BY <1>1 DEF TailInv, SubscriberInv
  <1> QED
    BY <1>2, TailInvariant, PTL

\* A step that broadcasts a log leaves out only the subscribers that have a
\* whole buffer waiting.
LEMMA OnlyFullBuffersDrop ==
    ASSUME TailInv, [Next]_vars, NEW s \in subs,
           Len(feed(s)') = Len(feed(s)), aired' # aired
    PROVE  Len(queue[s]) = BufSize
  <1>1. broadcast
    BY DEF Next, vars, Finished, sweep, CreateSession, InvalidateSession, Expire, sessionAuth,
           streamRefused, Subscribe, Receive, Flush, WriteReturns, WriteBlocks, ClientReads, Heartbeat,
           Hangup, StreamCtxDone, Unsubscribe, sseCancel
  <1> DEFINE L == 1..MaxLogs
             x == aired + 1
             w == written[s]
             q == queue[s]
  <1>2. /\ s \in Streams /\ w \in Seq(L) /\ q \in Seq(L) /\ Len(q) <= BufSize
        /\ aired \in Nat /\ aired < MaxLogs /\ x \in L
    BY <1>1, LiveTailAssumption DEF TailInv, TypeOK, broadcast
  <1>3. SUFFICES ASSUME Len(q) # BufSize PROVE FALSE
    OBVIOUS
  <1>4. queue'[s] = Append(q, x) /\ written'[s] = w
    BY <1>1, <1>2, <1>3, LiveTailAssumption DEF broadcast, streamVars
  <1>5. Len(w \o Append(q, x)) = Len(w \o q) + 1 /\ Len(w \o q) \in Nat
    <2> HIDE DEF w, q, x, L
    <2> QED
      BY <1>2
  <1>6. feed(s)' = w \o Append(q, x) /\ feed(s) = w \o q
    BY <1>4 DEF feed
  <1> HIDE DEF w, q, x
  <1> QED
    BY <1>5, <1>6

\* One slow subscriber costs the others nothing.
THEOREM SlowOnesOnlyLose == Spec => DropsOnlyForFullBuffers
  <1>1. TailInv /\ [Next]_vars =>
           [\A s \in subs :
               Len(feed(s)') = Len(feed(s)) /\ aired' # aired => Len(queue[s]) = BufSize]_vars
    BY OnlyFullBuffersDrop
  <1> QED
    BY <1>1, TailInvariant, PTL DEF Spec, DropsOnlyForFullBuffers

-----------------------------------------------------------------------------
(* The log store *)

\* Rows are numbered as they arrive, and among the rows of the table the ids
\* follow that order.  Every id up to one that was used was used.
RowsAsInserted ==
    /\ \A r \in table : r.id <= r.seq /\ r.seq <= inserted /\ r.id \in usedIds
    /\ \A r, s \in table : (r.id < s.id <=> r.seq < s.seq) /\ (r.seq = s.seq => r = s)
    /\ \A n \in usedIds : \A k \in 1..n : k \in usedIds

\* The live tail's cursor: the rows behind it arrived before those ahead of it.
CursorInv ==
    /\ lastID = 0 \/ lastID \in usedIds
    /\ tail = "off" => got = <<>>
    /\ \A i \in DOMAIN got : got[i] <= inserted
    /\ \A r \in table : r.id > lastID => \A i \in DOMAIN got : got[i] < r.seq

\* The viewer's cursor: what was shown is not ahead of it, and of the rows there
\* were at the start only those at the edge are neither shown nor ahead of it.
ScrollInv ==
    /\ \A r \in start : r.seq <= inserted
    /\ \A i \in DOMAIN shown : shown[i] <= inserted
    /\ view = "off" => shown = <<>>
    /\ \A r \in table : r.seq \in Range(shown) => ~ beforeCursor(r)
    /\ view = "scrolling" =>
          \A r \in start \cap table :
             r.seq \in Range(shown) \/ beforeCursor(r) \/ r.ts = edge
    /\ view = "end" =>
          \A r \in start \cap table : r.seq \in Range(shown) \/ r.ts = edge

\* What concerns the live tail, and what concerns the viewer.
TailPart == CursorInv /\ TailInArrivalOrder /\ TailSkipsOnlyReusedIds
ViewPart == ScrollInv /\ PagesShowOnce

\* The inductive invariant of the store.
StoreInv == StoreTypeOK /\ RowsAsInserted /\ TailPart /\ ViewPart

\* A set of numbers that is not empty has a smallest one.
LEMMA SmallestOf ==
    ASSUME NEW T, T \subseteq Nat, T # {}
    PROVE  \E n \in T : \A m \in T : n <= m
<1> DEFINE R == OpToRel(<, Nat)
<1>1. \E n \in T : \A m \in T : ~ (<<m, n>> \in R)
  <2>1. IsWellFoundedOn(R, Nat)
    BY NatLessThanWellFounded
  <2> HIDE DEF R
  <2> QED BY <2>1, WFMin
<1>2. \A n, m \in Nat : n < m => <<n, m>> \in R
  BY DEF OpToRel
<1>3. \E Q : /\ \E n \in T : \A m \in T : ~ (<<m, n>> \in Q)
             /\ \A n, m \in Nat : n < m => <<n, m>> \in Q
  BY <1>1, <1>2, Zenon
<1>4. PICK n \in T : \A m \in T : ~ (m < n)
  BY <1>3
<1> QED BY <1>4


\* A set of numbers below a bound has a largest one, so MAX(id) is one of the
\* ids of the table, or 0 when there is none.
LEMMA LargestBelow ==
    ASSUME NEW T, NEW b \in Nat, T \subseteq 0..b, T # {}
    PROVE  Max(T) \in T /\ \A m \in T : Max(T) >= m
<1> DEFINE D == {b - m : m \in T}
<1>1. D \subseteq Nat /\ D # {}
  <2>1. \A m \in T : b - m \in Nat
    OBVIOUS
  <2> QED BY <2>1
<1>2. PICK d \in D : \A m \in D : d <= m
  <2> HIDE DEF D
  <2> QED BY <1>1, SmallestOf
<1>3. PICK x \in T : \A m \in T : x >= m
  <2>1. PICK x \in T : d = b - x
    OBVIOUS
  <2>2. \A m \in T : b - m \in D
    OBVIOUS
  <2>3. \A m \in T : d <= b - m
    <3> HIDE DEF D
    <3> QED BY <1>2, <2>2
  <2> QED BY <2>1, <2>3
<1> HIDE DEF D
<1> QED BY <1>3 DEF Max

\* What the next id is computed from.
LEMMA MaxIdIs ==
    ASSUME StoreTypeOK, RowsAsInserted
    PROVE  /\ maxId \in 0..inserted
           /\ \A r \in table : r.id <= maxId
           /\ maxId = 0 \/ maxId \in usedIds
           /\ \A r \in table : r.id \in 1..MaxRows /\ r.seq \in 1..MaxRows /\ r.ts \in 0..MaxTs
           /\ inserted \in Nat /\ MaxRows \in Nat
<1> DEFINE T == {0} \cup {r.id : r \in table}
<1>1. /\ \A r \in table : r.id \in 1..MaxRows /\ r.seq \in 1..MaxRows /\ r.ts \in 0..MaxTs
      /\ inserted \in Nat /\ MaxRows \in Nat
  <2>1. MaxRows \in Nat /\ MaxTs \in Nat
    BY LogStoreAssumption
  <2>2. inserted \in 0..MaxRows /\ table \subseteq Row
    BY DEF StoreTypeOK
  <2> QED BY <2>1, <2>2 DEF Row
<1>2. \A r \in table : r.id <= inserted /\ r.id \in usedIds
  BY <1>1 DEF RowsAsInserted
<1>3. T \subseteq 0..inserted /\ T # {}
  BY <1>1, <1>2
<1>4. \A r \in table : r.id \in T
  OBVIOUS
<1>5. \A n \in T : n = 0 \/ n \in usedIds
  BY <1>2
<1>6. maxId = Max(T)
  BY DEF maxId
<1>7. Max(T) \in T /\ \A m \in T : Max(T) >= m
  <2> HIDE DEF T
  <2> QED BY <1>1, <1>3, LargestBelow
<1> HIDE DEF T
<1>8. maxId \in 0..inserted
  BY <1>3, <1>6, <1>7
<1>9. \A r \in table : r.id <= maxId
  BY <1>1, <1>4, <1>6, <1>7, <1>8
<1> QED BY <1>1, <1>5, <1>6, <1>7, <1>8, <1>9

\* The rows of a SELECT with a LIMIT form a sequence no longer than the limit.
LEMMA SelectedRows ==
    ASSUME NEW T, NEW n \in Nat, NEW rows \in SeqOf(T, n)
    PROVE  /\ rows \in Seq(T) /\ Len(rows) \in 0..n /\ DOMAIN rows = 1..Len(rows)
           /\ \A i \in 1..Len(rows) : rows[i] \in T
           /\ Range(rows) \subseteq T
           /\ \A i \in 1..Len(rows) : rows[i] \in Range(rows)
           /\ \A r \in Range(rows) : \E i \in 1..Len(rows) : r = rows[i]
           /\ rows = <<>> <=> Len(rows) = 0
           /\ rows # <<>> => Last(rows) = rows[Len(rows)] /\ Len(rows) \in 1..Len(rows)
<1>1. PICK m \in 0..n : rows \in [1..m -> T]
  BY DEF SeqOf
<1>2. rows \in Seq(T) /\ Len(rows) = m
  BY <1>1
<1> QED BY <1>1, <1>2 DEF Range, Last

\* The numbers of the rows of a page.
LEMMA SeqsOf ==
    ASSUME NEW rows, NEW T, rows \in Seq(T), NEW N \in Nat, \A r \in T : r.seq \in 1..N
    PROVE  /\ Seqs(rows) \in Seq(1..N) /\ Len(Seqs(rows)) = Len(rows)
           /\ \A i \in 1..Len(rows) : Seqs(rows)[i] = rows[i].seq
<1>1. Len(rows) \in Nat /\ DOMAIN rows = 1..Len(rows) /\ \A i \in 1..Len(rows) : rows[i] \in T
  OBVIOUS
<1>2. Seqs(rows) \in [1..Len(rows) -> 1..N]
  BY <1>1 DEF Seqs
<1> QED BY <1>1, <1>2 DEF Seqs

\* The elements of a sequence made of two.
LEMMA Joined ==
    ASSUME NEW T, NEW a \in Seq(T), NEW b \in Seq(T)
    PROVE  /\ a \o b \in Seq(T) /\ Len(a \o b) = Len(a) + Len(b)
           /\ DOMAIN (a \o b) = 1..(Len(a) + Len(b))
           /\ DOMAIN a = 1..Len(a) /\ DOMAIN b = 1..Len(b)
           /\ \A i \in 1..(Len(a) + Len(b)) :
                 \/ i \in 1..Len(a) /\ (a \o b)[i] = a[i]
                 \/ i - Len(a) \in 1..Len(b) /\ (a \o b)[i] = b[i - Len(a)]
           /\ \A i \in 1..Len(a) : (a \o b)[i] = a[i] /\ i \in 1..(Len(a) + Len(b))
           /\ \A i \in 1..Len(b) : (a \o b)[i + Len(a)] = b[i] /\ i + Len(a) \in 1..(Len(a) + Len(b))
<1>1. a \o b \in Seq(T) /\ Len(a \o b) = Len(a) + Len(b)
  OBVIOUS
<1>2. \A i \in 1..(Len(a) + Len(b)) :
         (a \o b)[i] = IF i <= Len(a) THEN a[i] ELSE b[i - Len(a)]
  BY ConcatProperties
<1>3. Len(a) \in Nat /\ Len(b) \in Nat
  OBVIOUS
<1> QED BY <1>1, <1>2, <1>3

-----------------------------------------------------------------------------
(* Steps that leave a part of the store alone, or only delete rows *)

\* Deleting rows keeps the order of the others.
LEMMA RowsStay ==
    ASSUME RowsAsInserted, table' \subseteq table, UNCHANGED <<inserted, usedIds>>
    PROVE  RowsAsInserted'
BY DEF RowsAsInserted

\* Deleting rows cannot put the live tail out of order or make it skip one.
LEMMA TailKept ==
    ASSUME TailPart, table' \subseteq table, UNCHANGED <<inserted, usedIds>>,
           UNCHANGED tailVars
    PROVE  TailPart'
<1> USE DEF tailVars
<1>1. CursorInv'
  BY DEF TailPart, CursorInv
<1>2. TailInArrivalOrder'
  BY DEF TailPart, TailInArrivalOrder
<1>3. Passed' \subseteq Passed
  BY DEF Passed, Range
<1>4. TailSkipsOnlyReusedIds'
  BY <1>3 DEF TailPart, TailSkipsOnlyReusedIds
<1> QED BY <1>1, <1>2, <1>4 DEF TailPart

\* Nor can it make the viewer show one twice or miss another.
LEMMA ViewKept ==
    ASSUME ViewPart, table' \subseteq table, UNCHANGED inserted, UNCHANGED viewVars
    PROVE  ViewPart'
<1> USE DEF viewVars
<1>1. Range(shown)' = Range(shown) /\ \A r : beforeCursor(r)' <=> beforeCursor(r)
  BY DEF Range, beforeCursor
<1>2. ScrollInv'
  BY <1>1 DEF ViewPart, ScrollInv
<1>3. PagesShowOnce'
  BY DEF ViewPart, PagesShowOnce, IsInjective
<1> QED BY <1>2, <1>3 DEF ViewPart

-----------------------------------------------------------------------------
(* Insert *)

\* The row that Insert adds.
newRow(ts, match) ==
    [id |-> maxId + 1, seq |-> inserted + 1, ts |-> ts,
     match |-> match, reused |-> maxId + 1 \in usedIds]

\* The id and the number of an inserted row are those of no row of the table.
LEMMA InsertIs ==
    ASSUME StoreTypeOK, RowsAsInserted,
           NEW ts \in 0..MaxTs, NEW match \in BOOLEAN, Insert(ts, match)
    PROVE  \E n : /\ table' = table \cup {n} /\ n \in Row
                  /\ n.id = maxId + 1 /\ n.seq = inserted + 1
                  /\ maxId + 1 \in usedIds => n.reused
                  /\ inserted' = inserted + 1 /\ usedIds' = usedIds \cup {n.id}
                  /\ UNCHANGED sweepVars /\ UNCHANGED tailVars /\ UNCHANGED viewVars
<1> DEFINE n == newRow(ts, match)
<1>1. maxId + 1 \in 1..MaxRows /\ inserted + 1 \in 1..MaxRows
  BY MaxIdIs DEF Insert
<1>2. (maxId + 1 \in usedIds) \in BOOLEAN
  OBVIOUS
<1>3. n \in Row
  BY <1>1, <1>2 DEF newRow, Row
<1>4. n.id = maxId + 1 /\ n.seq = inserted + 1 /\ (n.reused <=> maxId + 1 \in usedIds)
  BY DEF newRow
<1>5. table' = table \cup {n} /\ inserted' = inserted + 1 /\ usedIds' = usedIds \cup {maxId + 1}
      /\ UNCHANGED sweepVars /\ UNCHANGED tailVars /\ UNCHANGED viewVars
  BY Zenon DEF Insert, newRow
<1> HIDE DEF n
<1> QED BY <1>3, <1>4, <1>5, Zenon

\* A new row comes after every row sent or shown, and its id is behind the live
\* tail's cursor only if it was used before.
LEMMA InsertStep ==
    ASSUME StoreInv,
           NEW ts \in 0..MaxTs, NEW match \in BOOLEAN, Insert(ts, match)
    PROVE  RowsAsInserted' /\ TailPart' /\ ViewPart'
<1> USE DEF StoreInv
<1>1. PICK n : /\ table' = table \cup {n} /\ n \in Row
               /\ n.id = maxId + 1 /\ n.seq = inserted + 1
               /\ maxId + 1 \in usedIds => n.reused
               /\ inserted' = inserted + 1 /\ usedIds' = usedIds \cup {n.id}
               /\ UNCHANGED sweepVars /\ UNCHANGED tailVars /\ UNCHANGED viewVars
  BY InsertIs
<1> DEFINE m == maxId
<1>2. /\ m \in 0..inserted /\ \A r \in table : r.id <= m
      /\ m = 0 \/ m \in usedIds
      /\ \A r \in table : r.id \in 1..MaxRows /\ r.seq \in 1..MaxRows /\ r.ts \in 0..MaxTs
      /\ inserted \in Nat /\ MaxRows \in Nat
  BY MaxIdIs
<1>3. n.id = m + 1
  BY <1>1
<1> HIDE DEF m
<1>4. \A r \in table : r.seq <= inserted
  BY DEF RowsAsInserted
<1>5. \A r \in table : r.id < n.id /\ r.seq < n.seq
  BY <1>1, <1>2, <1>3, <1>4
<1>6. RowsAsInserted'
  <2>1. \A r \in table' : r.id <= r.seq /\ r.seq <= inserted' /\ r.id \in usedIds'
    BY <1>1, <1>2, <1>3 DEF RowsAsInserted
  <2>2. \A r, s \in table' : (r.id < s.id <=> r.seq < s.seq) /\ (r.seq = s.seq => r = s)
    <3>1. n.id \in Int /\ n.seq \in Int
      BY <1>1, <1>2, <1>3
    <3>2. \A r, s \in table : (r.id < s.id <=> r.seq < s.seq) /\ (r.seq = s.seq => r = s)
      BY DEF RowsAsInserted
    <3>3. \A r \in table : r.id \in Int /\ r.seq \in Int
      BY <1>2
    <3> QED BY <1>1, <1>5, <3>1, <3>2, <3>3
  <2>3. \A k \in usedIds' : \A j \in 1..k : j \in usedIds'
    <3>1. usedIds \subseteq Int
      BY LogStoreAssumption DEF StoreTypeOK
    <3>2. \A k \in usedIds : \A j \in 1..k : j \in usedIds
      BY DEF RowsAsInserted
    <3>3. \A j \in 1..(m + 1) : j = m + 1 \/ j \in usedIds
      BY <1>2, <3>2
    <3> QED BY <1>1, <1>3, <3>2, <3>3
  <2> QED BY <2>1, <2>2, <2>3 DEF RowsAsInserted
<1>7. TailPart'
  <2> USE DEF tailVars
  <2>1. CursorInv'
    <3>1. lastID' = 0 \/ lastID' \in usedIds'
      BY <1>1 DEF TailPart, CursorInv
    <3>2. tail' = "off" => got' = <<>>
      BY <1>1 DEF TailPart, CursorInv
    <3>3. \A i \in DOMAIN got : got[i] \in Int /\ got[i] <= inserted
      <4>1. got \in Seq(1..MaxRows)
        BY DEF StoreTypeOK
      <4>2. \A i \in DOMAIN got : got[i] \in Int
        BY <1>2, <4>1
      <4> QED BY <4>2 DEF TailPart, CursorInv
    <3>4. \A r \in table' : r.id > lastID' => \A i \in DOMAIN got' : got'[i] < r.seq
      BY <1>1, <1>2, <3>3 DEF TailPart, CursorInv
    <3> QED BY <1>1, <1>2, <3>1, <3>2, <3>3, <3>4 DEF CursorInv
  <2>2. TailInArrivalOrder'
    BY <1>1 DEF TailPart, TailInArrivalOrder
  <2>3. n.id <= lastID => n.reused
    <3>1. lastID \in Nat /\ m + 1 \in Nat
      BY <1>2, LogStoreAssumption DEF StoreTypeOK
    <3>2. n.id <= lastID => n.id \in usedIds
      BY <1>2, <1>3, <3>1 DEF TailPart, CursorInv, RowsAsInserted
    <3> QED BY <1>1, <3>2, Zenon
  <2>4. Passed' \subseteq Passed \cup {r \in {n} : r.id <= lastID}
    BY <1>1 DEF Passed, Range
  <2>5. TailSkipsOnlyReusedIds'
    BY <2>3, <2>4, Zenon DEF TailPart, TailSkipsOnlyReusedIds
  <2> QED BY <2>1, <2>2, <2>5 DEF TailPart
<1>8. ViewPart'
  <2> USE DEF viewVars
  <2>1. Range(shown)' = Range(shown) /\ \A r : beforeCursor(r)' <=> beforeCursor(r)
    BY <1>1 DEF Range, beforeCursor
  <2>2. \A i \in DOMAIN shown : shown[i] \in Int /\ shown[i] <= inserted
    <3>1. shown \in Seq(1..MaxRows)
      BY DEF StoreTypeOK
    <3>2. \A i \in DOMAIN shown : shown[i] \in Int
      BY <1>2, <3>1
    <3> QED BY <3>2 DEF ViewPart, ScrollInv
  <2>3. n.seq \notin Range(shown)
    BY <1>1, <1>2, <2>2 DEF Range
  <2>4. \A r \in start : r.seq \in Int /\ r.seq <= inserted
    BY DEF ViewPart, ScrollInv, StoreTypeOK, Row
  <2>5. n \notin start
    BY <1>1, <1>2, <2>4
  <2>6. start' \cap table' = start \cap table
    BY <1>1, <2>5
  <2>7. ScrollInv'
    <3>1. \A r \in start' : r.seq <= inserted'
      BY <1>1, <1>2, <2>4
    <3>2. \A i \in DOMAIN shown' : shown'[i] <= inserted'
      BY <1>1, <1>2, <2>2
    <3>3. \A r \in table' : r.seq \in Range(shown)' => ~ beforeCursor(r)'
      BY <1>1, <2>1, <2>3 DEF ViewPart, ScrollInv
    <3>4. /\ view' = "off" => shown' = <<>>
          /\ view' = "scrolling" =>
                \A r \in start' \cap table' :
                   r.seq \in Range(shown)' \/ beforeCursor(r)' \/ r.ts = edge'
          /\ view' = "end" =>
                \A r \in start' \cap table' : r.seq \in Range(shown)' \/ r.ts = edge'
      BY <1>1, <2>1, <2>6 DEF ViewPart, ScrollInv
    <3> QED BY <3>1, <3>2, <3>3, <3>4 DEF ScrollInv
  <2>8. PagesShowOnce'
    BY <1>1 DEF ViewPart, PagesShowOnce, IsInjective
  <2> QED BY <2>7, <2>8 DEF ViewPart
<1> QED BY <1>6, <1>7, <1>8

-----------------------------------------------------------------------------
(* The polling live tail *)

\* Every row there is when the live tail connects is older than its anchor.
LEMMA ConnectStep ==
    ASSUME StoreInv, TailConnect
    PROVE  TailPart'
<1> USE DEF StoreInv
<1>1. got = <<>> /\ got' = got /\ tail' = "on" /\ lastID' = maxId /\ anchor' = inserted
      /\ UNCHANGED <<table, inserted, usedIds>>
  BY DEF TailConnect, TailPart, CursorInv
<1>2. maxId = 0 \/ maxId \in usedIds
  BY MaxIdIs
<1>3. \A r \in table : r.seq \in Int /\ r.seq <= inserted /\ inserted \in Int
  BY MaxIdIs DEF RowsAsInserted
<1>4. CursorInv'
  BY <1>1, <1>2 DEF CursorInv
<1>5. TailInArrivalOrder'
  BY <1>1 DEF TailInArrivalOrder
<1>6. Passed' = {}
  BY <1>1, <1>3 DEF Passed
<1>7. TailSkipsOnlyReusedIds'
  BY <1>6 DEF TailSkipsOnlyReusedIds
<1> QED BY <1>4, <1>5, <1>7 DEF TailPart

\* What a poll sends: matching rows ahead of the cursor, by id, and none is
\* left between the cursor and the last row sent.
LEMMA PollIs ==
    ASSUME TailPoll
    PROVE  \E rows \in Seq({r \in table : r.match /\ r.id > lastID}) :
              /\ got' = got \o Seqs(rows)
              /\ rows = <<>> => lastID' = lastID
              /\ rows # <<>> => lastID' = rows[Len(rows)].id
              /\ \A i, j \in 1..Len(rows) : i < j => rows[i].id < rows[j].id
              /\ \A r \in table : r.match /\ r.id > lastID =>
                    \/ \E i \in 1..Len(rows) : r = rows[i]
                    \/ \A i \in 1..Len(rows) : rows[i].id < r.id
              /\ tail = "on" /\ UNCHANGED <<table, inserted, usedIds, tail, anchor>>
<1> DEFINE T == {r \in table : r.match /\ r.id > lastID}
<1>1. PollLimit \in Nat
  BY LogStoreAssumption
<1>2. PICK rows \in SeqOf(T, PollLimit) :
         /\ \A i, j \in DOMAIN rows : i < j => rows[i].id < rows[j].id
         /\ \A i \in DOMAIN rows, r \in T \ Range(rows) : rows[i].id < r.id
         /\ got' = got \o Seqs(rows)
         /\ lastID' = IF rows = <<>> THEN lastID ELSE Last(rows).id
  BY DEF TailPoll, select, byId
<1>3. tail = "on" /\ UNCHANGED <<table, inserted, usedIds, tail, anchor>>
  BY DEF TailPoll
<1>4. \A r \in table : r.match /\ r.id > lastID => r \in T
  OBVIOUS
<1> HIDE DEF T
<1>5. /\ rows \in Seq(T) /\ DOMAIN rows = 1..Len(rows)
      /\ \A r \in Range(rows) : \E i \in 1..Len(rows) : r = rows[i]
      /\ rows # <<>> => Last(rows) = rows[Len(rows)]
  BY <1>1, SelectedRows
<1>6. /\ rows = <<>> => lastID' = lastID
      /\ rows # <<>> => lastID' = rows[Len(rows)].id
  BY <1>2, <1>5
<1>7. \A r \in table : r.match /\ r.id > lastID =>
         \/ \E i \in 1..Len(rows) : r = rows[i]
         \/ \A i \in 1..Len(rows) : rows[i].id < r.id
  BY <1>2, <1>4, <1>5
<1>8. \E q \in Seq(T) :
              /\ got' = got \o Seqs(q)
              /\ q = <<>> => lastID' = lastID
              /\ q # <<>> => lastID' = q[Len(q)].id
              /\ \A i, j \in 1..Len(q) : i < j => q[i].id < q[j].id
              /\ \A r \in table : r.match /\ r.id > lastID =>
                    \/ \E i \in 1..Len(q) : r = q[i]
                    \/ \A i \in 1..Len(q) : q[i].id < r.id
              /\ tail = "on" /\ UNCHANGED <<table, inserted, usedIds, tail, anchor>>
  BY <1>2, <1>3, <1>5, <1>6, <1>7
<1> QED BY <1>8 DEF T

\* A poll continues what was sent in the order of arrival and skips nothing.
LEMMA PollStep ==
    ASSUME StoreInv, TailPoll
    PROVE  TailPart' /\ got' \in Seq(1..MaxRows) /\ lastID' \in 0..MaxRows
<1> USE DEF StoreInv
<1> DEFINE T == {r \in table : r.match /\ r.id > lastID}
<1>1. PICK rows \in Seq(T) :
         /\ got' = got \o Seqs(rows)
         /\ rows = <<>> => lastID' = lastID
         /\ rows # <<>> => lastID' = rows[Len(rows)].id
         /\ \A i, j \in 1..Len(rows) : i < j => rows[i].id < rows[j].id
         /\ \A r \in table : r.match /\ r.id > lastID =>
               \/ \E i \in 1..Len(rows) : r = rows[i]
               \/ \A i \in 1..Len(rows) : rows[i].id < r.id
         /\ tail = "on" /\ UNCHANGED <<table, inserted, usedIds, tail, anchor>>
  BY PollIs
<1>2. \A r \in T : r \in table /\ r.id > lastID
  OBVIOUS
<1>3. /\ \A r \in table : r.id \in 1..MaxRows /\ r.seq \in 1..MaxRows
      /\ inserted \in Nat /\ MaxRows \in Nat /\ lastID \in 0..MaxRows
  BY MaxIdIs DEF StoreTypeOK
<1>4. got \in Seq(1..MaxRows)
  BY DEF StoreTypeOK
<1> HIDE DEF T
<1> DEFINE q == Seqs(rows)
<1> DEFINE n == Len(rows)
<1>5. n \in Nat /\ \A i \in 1..n : rows[i] \in T /\ rows[i] \in table /\ rows[i].id > lastID
                                   /\ rows[i].id \in Int /\ rows[i].seq \in Int
  <2>1. Len(rows) \in Nat /\ \A i \in 1..Len(rows) : rows[i] \in T
    OBVIOUS
  <2> QED BY <1>2, <1>3, <2>1
<1>6. q \in Seq(1..MaxRows) /\ Len(q) = n /\ \A i \in 1..n : q[i] = rows[i].seq
  BY <1>2, <1>3, SeqsOf
<1>7. \A r, s \in table : (r.id < s.id <=> r.seq < s.seq) /\ r.id \in usedIds /\ r.seq <= inserted
  BY DEF RowsAsInserted
<1>8. \A i, j \in 1..n : i < j => q[i] < q[j]
  BY <1>1, <1>5, <1>6, <1>7
<1>9. \A i \in 1..Len(got), j \in 1..n : got[i] < q[j]
  <2>1. \A r \in table : r.id > lastID => \A i \in DOMAIN got : got[i] < r.seq
    BY DEF TailPart, CursorInv
  <2>2. DOMAIN got = 1..Len(got)
    BY <1>4
  <2> QED BY <1>5, <1>6, <2>1, <2>2
<1>10. lastID' \in Int /\ lastID <= lastID' /\ \A i \in 1..n : rows[i].id <= lastID'
  <2>1. CASE rows = <<>>
    BY <1>1, <1>3, <2>1
  <2>2. CASE rows # <<>>
    <3>1. n \in 1..n
      BY <2>2
    <3>2. \A i \in 1..n : i < n \/ i = n
      BY <1>5
    <3> HIDE DEF n
    <3>3. lastID' = rows[n].id
      BY <1>1, <2>2 DEF n
    <3>4. \A i \in 1..n : i < n => rows[i].id < rows[n].id
      BY <1>1, <3>1 DEF n
    <3> QED BY <1>3, <1>5, <3>1, <3>2, <3>3, <3>4
  <2> QED BY <2>1, <2>2
<1>11. (lastID' = lastID) \/ \E i \in 1..n : lastID' = rows[i].id
  <2>1. rows # <<>> => n \in 1..n
    OBVIOUS
  <2> QED BY <1>1, <2>1
<1>12. lastID' \in 0..MaxRows /\ (lastID' = 0 \/ lastID' \in usedIds')
  BY <1>1, <1>3, <1>5, <1>7, <1>11 DEF TailPart, CursorInv
<1> HIDE DEF q, n
<1>13. got' = got \o q
  BY <1>1 DEF q
<1>14. /\ got' \in Seq(1..MaxRows) /\ DOMAIN got' = 1..(Len(got) + n)
       /\ DOMAIN got = 1..Len(got) /\ Len(got) \in Nat
       /\ \A i \in 1..(Len(got) + n) :
             \/ i \in 1..Len(got) /\ got'[i] = got[i]
             \/ i - Len(got) \in 1..n /\ got'[i] = q[i - Len(got)]
       /\ \A i \in 1..Len(got) : got'[i] = got[i] /\ i \in 1..(Len(got) + n)
       /\ \A i \in 1..n : got'[i + Len(got)] = q[i] /\ i + Len(got) \in 1..(Len(got) + n)
  BY <1>4, <1>6, <1>13, Joined
<1>15. \A i \in 1..Len(got) : got[i] \in Int /\ got[i] <= inserted
  <2>1. \A i \in 1..Len(got) : got[i] \in Int
    BY <1>3, <1>4
  <2> QED BY <1>14, <2>1 DEF TailPart, CursorInv
<1>16. TailInArrivalOrder'
  <2>1. \A i, j \in 1..Len(got) : i < j => got[i] < got[j]
    BY <1>14 DEF TailPart, TailInArrivalOrder
  <2>2. ASSUME NEW i \in DOMAIN got', NEW j \in DOMAIN got', i < j PROVE got'[i] < got'[j]
    <3>1. i \in Int /\ j \in Int
      BY <1>5, <1>14
    <3>2. CASE j \in 1..Len(got)
      <4>1. i \in 1..Len(got)
        BY <1>14, <2>2, <3>1, <3>2
      <4> QED BY <1>14, <2>1, <2>2, <3>2, <4>1
    <3>3. CASE i \in 1..Len(got) /\ j - Len(got) \in 1..n
      BY <1>9, <1>14, <3>1, <3>3
    <3>4. CASE i - Len(got) \in 1..n /\ j - Len(got) \in 1..n
      <4>1. got'[i] = q[i - Len(got)] /\ got'[j] = q[j - Len(got)]
        BY <1>14, <3>1, <3>4
      <4>2. i - Len(got) < j - Len(got)
        BY <1>14, <2>2, <3>1
      <4> QED BY <1>8, <3>4, <4>1, <4>2
    <3> QED BY <1>14, <3>1, <3>2, <3>3, <3>4
  <2> QED BY <2>2 DEF TailInArrivalOrder
<1>17. CursorInv'
  <2>1. \A i \in DOMAIN got' : got'[i] <= inserted'
    <3>1. \A i \in 1..n : q[i] <= inserted
      BY <1>5, <1>6, <1>7
    <3>2. \A i \in 1..(Len(got) + n) : got'[i] <= inserted
      BY <1>14, <1>15, <3>1
    <3> QED BY <1>1, <1>14, <3>2
  <2>2. \A r \in table : r.id > lastID' => \A i \in 1..n : rows[i].seq < r.seq
    <3>1. \A r \in table : r.id > lastID' => \A i \in 1..n : rows[i].id < r.id
      BY <1>3, <1>5, <1>10
    <3> QED BY <1>5, <1>7, <3>1
  <2>3. \A r \in table : r.id > lastID' => \A i \in 1..Len(got) : got[i] < r.seq
    BY <1>3, <1>10, <1>14 DEF TailPart, CursorInv
  <2>4. \A r \in table' : r.id > lastID' => \A i \in DOMAIN got' : got'[i] < r.seq
    <3>1. ASSUME NEW r \in table, r.id > lastID' PROVE \A i \in DOMAIN got' : got'[i] < r.seq
      <4>1. \A i \in 1..n : q[i] < r.seq
        BY <1>6, <2>2, <3>1
      <4>2. \A i \in 1..Len(got) : got[i] < r.seq
        BY <2>3, <3>1
      <4> QED BY <1>14, <4>1, <4>2
    <3> QED BY <1>1, <3>1
  <2> QED BY <1>1, <1>12, <2>1, <2>4 DEF CursorInv
<1>18. Passed' \subseteq Passed
  <2>1. Range(got) \subseteq Range(got') /\ \A i \in 1..n : rows[i].seq \in Range(got')
    <3>1. \A i \in 1..Len(got) : got[i] \in Range(got')
      BY <1>14 DEF Range
    <3>2. \A i \in 1..n : q[i] \in Range(got')
      BY <1>14 DEF Range
    <3>3. Range(got) \subseteq Range(got')
      BY <1>14, <3>1 DEF Range
    <3> QED BY <1>6, <3>2, <3>3
  <2>2. ASSUME NEW r \in Passed' PROVE r \in Passed
    <3>1. r \in table /\ r.match /\ r.seq > anchor /\ r.id <= lastID' /\ r.seq \notin Range(got')
      BY <1>1 DEF Passed
    <3>2. r.seq \notin Range(got)
      BY <2>1, <3>1
    <3>3. ~ \E i \in 1..n : r = rows[i]
      BY <2>1, <3>1
    <3>4. ~ (r.id > lastID)
      <4>1. SUFFICES ASSUME r.id > lastID PROVE FALSE
        OBVIOUS
      <4>2. \A i \in 1..n : rows[i].id < r.id
        BY <1>1, <3>1, <3>3, <4>1 DEF n
      <4> QED BY <1>3, <1>5, <1>11, <3>1, <4>1, <4>2
    <3>5. r.id <= lastID
      BY <1>3, <3>1, <3>4
    <3> QED BY <1>1, <3>1, <3>2, <3>5 DEF Passed
  <2> QED BY <2>2
<1>19. TailSkipsOnlyReusedIds'
  BY <1>18 DEF TailPart, TailSkipsOnlyReusedIds
<1> QED BY <1>12, <1>14, <1>16, <1>17, <1>19 DEF TailPart

-----------------------------------------------------------------------------
(* Scrolling *)

\* A page, sorted by time and id, holds no row twice and none that its last row
\* would be the cursor before.
LEMMA PageSorted ==
    ASSUME NEW rows \in Seq(table), rows # <<>>, RowsAsInserted,
           \A r \in table : r.id \in Int /\ r.ts \in Int /\ r.seq \in Int,
           \A i, j \in 1..Len(rows) : i < j => newestFirst(rows[i], rows[j]),
           before' = <<rows[Len(rows)].ts, rows[Len(rows)].id>>
    PROVE  /\ \A i, j \in 1..Len(rows) : rows[i].seq = rows[j].seq => i = j
           /\ \A i \in 1..Len(rows) : ~ beforeCursor(rows[i])'
<1> DEFINE n == Len(rows)
<1>1. n \in Nat /\ n \in 1..n /\ \A i \in 1..n : rows[i] \in table
  OBVIOUS
<1> HIDE DEF n
<1>2. \A i, j \in 1..n : i < j => newestFirst(rows[i], rows[j])
  BY DEF n
<1>3. \A i, j \in 1..n : i < j => rows[i] # rows[j]
  BY <1>1, <1>2 DEF newestFirst
<1>4. \A i, j \in 1..n : rows[i].seq = rows[j].seq => rows[i] = rows[j]
  BY <1>1 DEF RowsAsInserted
<1>5. \A i, j \in 1..n : rows[i] = rows[j] => i = j
  <2>1. \A i, j \in 1..n : i < j \/ j < i \/ i = j
    BY <1>1
  <2> QED BY <1>3, <2>1
<1>6. ASSUME NEW i \in 1..n PROVE ~ beforeCursor(rows[i])'
  <2>1. rows[i] = rows[n] \/ newestFirst(rows[i], rows[n])
    <3>1. i = n \/ i < n
      BY <1>1
    <3>2. CASE i = n
      BY <3>2
    <3>3. CASE i < n
      <4>1. n \in 1..n
        BY <1>1
      <4> QED BY <1>2, <3>3, <4>1, Zenon
    <3> QED BY <3>1, <3>2, <3>3
  <2>2. before' = <<rows[n].ts, rows[n].id>>
    BY DEF n
  <2> QED BY <1>1, <2>1, <2>2 DEF beforeCursor, newestFirst
<1> QED BY <1>4, <1>5, <1>6 DEF n

\* The first page: the newest rows of the table, up to the limit.
LEMMA FirstPageStep ==
    ASSUME StoreInv, ViewFirstPage
    PROVE  ViewPart' /\ shown' \in Seq(1..MaxRows) /\ before' \in Nat \X Nat /\ edge' \in 0..MaxTs
<1> USE DEF StoreInv
<1>1. PICK rows \in SeqOf(table, FirstLimit) :
         /\ \A i, j \in DOMAIN rows : i < j => newestFirst(rows[i], rows[j])
         /\ \A i \in DOMAIN rows, r \in table \ Range(rows) : rows[i].ts >= r.ts
         /\ Len(rows) < FirstLimit => table \subseteq Range(rows)
         /\ shown' = Seqs(rows)
         /\ before' = <<Last(rows).ts, Last(rows).id>>
         /\ edge' = Last(rows).ts
  BY DEF ViewFirstPage, select, notOlder
<1>2. table # {} /\ view' = "scrolling" /\ start' = table /\ UNCHANGED <<table, inserted>>
  BY DEF ViewFirstPage
<1>3. FirstLimit \in Nat \ {0}
  BY LogStoreAssumption
<1> DEFINE n == Len(rows)
<1>4. /\ rows \in Seq(table) /\ n \in Nat /\ DOMAIN rows = 1..n
      /\ \A i \in 1..n : rows[i] \in table
      /\ \A r \in Range(rows) : \E i \in 1..n : r = rows[i]
      /\ rows = <<>> <=> n = 0
      /\ rows # <<>> => Last(rows) = rows[n] /\ n \in 1..n
  BY <1>3, SelectedRows
<1> HIDE DEF n
<1>5. rows # <<>>
  <2>1. SUFFICES ASSUME n = 0 PROVE FALSE
    BY <1>4
  <2>2. table \subseteq Range(rows)
    BY <1>1, <1>3, <2>1 DEF n
  <2> QED BY <1>2, <1>4, <2>1, <2>2
<1>6. /\ \A r \in table : r.id \in 1..MaxRows /\ r.seq \in 1..MaxRows /\ r.ts \in 0..MaxTs
      /\ inserted \in Nat /\ MaxRows \in Nat /\ MaxTs \in Nat
  BY MaxIdIs, LogStoreAssumption
<1>7. before' = <<rows[n].ts, rows[n].id>> /\ edge' = rows[n].ts
  BY <1>1, <1>4, <1>5
<1>8. /\ \A i, j \in 1..n : rows[i].seq = rows[j].seq => i = j
      /\ \A i \in 1..n : ~ beforeCursor(rows[i])'
  <2>1. \A r \in table : r.id \in Int /\ r.ts \in Int /\ r.seq \in Int
    BY <1>6
  <2>2. \A i, j \in 1..Len(rows) : i < j => newestFirst(rows[i], rows[j])
    BY <1>1, <1>4 DEF n
  <2>3. before' = <<rows[Len(rows)].ts, rows[Len(rows)].id>>
    BY <1>7 DEF n
  <2> QED BY <1>4, <1>5, <2>1, <2>2, <2>3, PageSorted DEF n
<1>9. /\ shown' \in Seq(1..MaxRows) /\ DOMAIN shown' = 1..n
      /\ \A i \in 1..n : shown'[i] = rows[i].seq
  BY <1>1, <1>4, <1>6, SeqsOf DEF n
<1>10. Range(shown)' = {rows[i].seq : i \in 1..n}
  BY <1>9 DEF Range
<1>11. \A r, s \in table : r.seq <= inserted /\ (r.seq = s.seq => r = s)
  BY DEF RowsAsInserted
<1>12. \A r \in table' : r.seq \in Range(shown)' => ~ beforeCursor(r)'
  <2>1. ASSUME NEW r \in table, r.seq \in Range(shown)' PROVE ~ beforeCursor(r)'
    <3>1. PICK i \in 1..n : r.seq = rows[i].seq
      BY <1>10, <2>1
    <3>2. r = rows[i]
      BY <1>4, <1>11, <3>1
    <3> QED BY <1>8, <3>2
  <2> QED BY <1>2, <2>1
<1>13. \A r \in start' \cap table' :
          r.seq \in Range(shown)' \/ beforeCursor(r)' \/ r.ts = edge'
  <2>1. ASSUME NEW r \in table, r.seq \notin Range(shown)'
        PROVE  beforeCursor(r)' \/ r.ts = edge'
    <3>1. r \notin Range(rows)
      BY <1>4, <1>10, <2>1
    <3>2. rows[n].ts >= r.ts
      BY <1>1, <1>4, <1>5, <3>1
    <3> QED BY <1>4, <1>5, <1>6, <1>7, <3>2 DEF beforeCursor
  <2> QED BY <1>2, <2>1
<1>14. ScrollInv'
  <2>1. \A r \in start' : r.seq <= inserted'
    BY <1>2, <1>11
  <2>2. \A i \in DOMAIN shown' : shown'[i] <= inserted'
    BY <1>2, <1>4, <1>9, <1>11
  <2> QED BY <1>2, <1>12, <1>13, <2>1, <2>2 DEF ScrollInv
<1>15. PagesShowOnce'
  BY <1>8, <1>9 DEF PagesShowOnce, IsInjective
<1>16. before' \in Nat \X Nat /\ edge' \in 0..MaxTs
  BY <1>4, <1>5, <1>6, <1>7
<1> QED BY <1>9, <1>14, <1>15, <1>16 DEF ViewPart

\* A page that holds no row: nothing is left before the cursor.
LEMMA LastPageStep ==
    ASSUME StoreInv, UNCHANGED <<table, inserted, start, edge, shown, before>>,
           view' = "end", view = "scrolling", \A r \in table : ~ beforeCursor(r)
    PROVE  ViewPart'
<1> USE DEF StoreInv
<1>1. Range(shown)' = Range(shown) /\ \A r : beforeCursor(r)' <=> beforeCursor(r)
  BY DEF Range, beforeCursor
<1>2. ScrollInv'
  BY <1>1 DEF ViewPart, ScrollInv
<1>3. PagesShowOnce'
  BY DEF ViewPart, PagesShowOnce, IsInjective
<1> QED BY <1>2, <1>3 DEF ViewPart

\* The rows of a later page are before the cursor, and what they leave out is
\* before the last of them.
LEMMA NextPageStep ==
    ASSUME StoreInv, ViewNextPage
    PROVE  ViewPart' /\ shown' \in Seq(1..MaxRows) /\ before' \in Nat \X Nat
<1> USE DEF StoreInv
<1> DEFINE T == {r \in table : beforeCursor(r)}
<1>1. PICK rows \in SeqOf(T, PageSize) :
         /\ \A i, j \in DOMAIN rows : i < j => newestFirst(rows[i], rows[j])
         /\ \A i \in DOMAIN rows, r \in T \ Range(rows) : newestFirst(rows[i], r)
         /\ Len(rows) < PageSize => T \subseteq Range(rows)
         /\ IF rows = <<>>
            THEN view' = "end" /\ UNCHANGED <<shown, before>>
            ELSE /\ shown' = shown \o Seqs(rows)
                 /\ before' = <<Last(rows).ts, Last(rows).id>>
                 /\ UNCHANGED view
  BY DEF ViewNextPage, select
<1>2. view = "scrolling" /\ UNCHANGED <<table, inserted, start, edge>>
  BY DEF ViewNextPage
<1>3. PageSize \in Nat \ {0}
  BY LogStoreAssumption
<1>4. \A r \in table : r \in T <=> beforeCursor(r)
  OBVIOUS
<1>5. T \subseteq table
  OBVIOUS
<1> HIDE DEF T
<1> DEFINE n == Len(rows)
<1>6. /\ rows \in Seq(T) /\ n \in Nat /\ DOMAIN rows = 1..n
      /\ \A i \in 1..n : rows[i] \in T
      /\ \A r \in Range(rows) : \E i \in 1..n : r = rows[i]
      /\ rows = <<>> <=> n = 0
      /\ rows # <<>> => Last(rows) = rows[n] /\ n \in 1..n
  BY <1>3, SelectedRows
<1> HIDE DEF n
<1>7. /\ \A r \in table : r.id \in 1..MaxRows /\ r.seq \in 1..MaxRows /\ r.ts \in 0..MaxTs
      /\ inserted \in Nat /\ MaxRows \in Nat /\ MaxTs \in Nat
  BY MaxIdIs, LogStoreAssumption
<1>8. shown \in Seq(1..MaxRows) /\ before \in Nat \X Nat
  BY DEF StoreTypeOK
<1>9. CASE rows = <<>>
  <2>1. T = {}
    <3>1. n = 0 /\ T \subseteq Range(rows)
      BY <1>1, <1>3, <1>6, <1>9 DEF n
    <3> QED BY <1>6, <3>1
  <2>2. \A r \in table : ~ beforeCursor(r)
    BY <1>4, <2>1
  <2>3. view' = "end" /\ UNCHANGED <<shown, before>>
    BY <1>1, <1>9
  <2>4. ViewPart'
    BY <1>2, <2>2, <2>3, LastPageStep
  <2> QED BY <1>8, <2>3, <2>4
<1>10. CASE rows # <<>>
  <2> DEFINE q == Seqs(rows)
  <2>1. /\ before' = <<rows[n].ts, rows[n].id>> /\ view' = "scrolling" /\ n \in 1..n
        /\ rows[n] \in T /\ rows[n] \in table
    BY <1>1, <1>2, <1>5, <1>6, <1>10
  <2>2. /\ \A i, j \in 1..n : rows[i].seq = rows[j].seq => i = j
        /\ \A i \in 1..n : ~ beforeCursor(rows[i])'
    <3>1. \A r \in table : r.id \in Int /\ r.ts \in Int /\ r.seq \in Int
      BY <1>7
    <3>2. \A i, j \in 1..Len(rows) : i < j => newestFirst(rows[i], rows[j])
      BY <1>1, <1>6 DEF n
    <3>3. before' = <<rows[Len(rows)].ts, rows[Len(rows)].id>>
      BY <2>1 DEF n
    <3>4. rows \in Seq(table)
      BY <1>5, <1>6
    <3> QED BY <1>10, <3>1, <3>2, <3>3, <3>4, PageSorted DEF n
  <2>3. q \in Seq(1..MaxRows) /\ Len(q) = n /\ \A i \in 1..n : q[i] = rows[i].seq
    <3>1. \A r \in T : r.seq \in 1..MaxRows
      BY <1>5, <1>7
    <3> QED BY <1>6, <1>7, <3>1, SeqsOf DEF n
  <2>4. shown' = shown \o q
    BY <1>1, <1>10
  <2> HIDE DEF q
  <2> DEFINE k == Len(shown)
  <2>5. /\ shown' \in Seq(1..MaxRows) /\ DOMAIN shown' = 1..(k + n)
        /\ DOMAIN shown = 1..k /\ k \in Nat
        /\ \A i \in 1..(k + n) :
              \/ i \in 1..k /\ shown'[i] = shown[i]
              \/ i - k \in 1..n /\ shown'[i] = q[i - k]
        /\ \A i \in 1..k : shown'[i] = shown[i] /\ i \in 1..(k + n)
        /\ \A i \in 1..n : shown'[i + k] = q[i] /\ i + k \in 1..(k + n)
    BY <1>8, <2>3, <2>4, Joined
  <2> HIDE DEF k
  <2>6. \A x : x \in Range(shown)' <=> x \in Range(shown) \/ \E i \in 1..n : x = rows[i].seq
    <3>1. \A i \in 1..k : shown[i] \in Range(shown)'
      BY <2>5 DEF Range
    <3>2. \A i \in 1..n : q[i] \in Range(shown)'
      BY <2>5 DEF Range
    <3>3. \A x \in Range(shown) : x \in Range(shown)'
      BY <2>5, <3>1 DEF Range
    <3>4. \A i \in 1..(k + n) : shown'[i] \in Range(shown) \/ \E j \in 1..n : shown'[i] = q[j]
      BY <2>5 DEF Range
    <3>5. \A x \in Range(shown)' : x \in Range(shown) \/ \E j \in 1..n : x = q[j]
      BY <2>5, <3>4 DEF Range
    <3> QED BY <2>3, <3>2, <3>3, <3>5
  <2>7. \A r, s \in table : r.seq <= inserted /\ (r.seq = s.seq => r = s)
    BY DEF RowsAsInserted
  <2>8. before \in Nat \X Nat /\ beforeCursor(rows[n])
    BY <1>4, <1>8, <2>1
  <2>9. \A r \in table : beforeCursor(r)' => beforeCursor(r)
    <3>1. before[1] \in Int /\ before[2] \in Int
      BY <1>8
    <3> QED BY <1>7, <2>1, <2>8, <3>1 DEF beforeCursor
  <2>10. \A r \in table : r.seq \in Range(shown) => ~ beforeCursor(r)
    BY DEF ViewPart, ScrollInv
  <2>11. \A r \in table' : r.seq \in Range(shown)' => ~ beforeCursor(r)'
    <3>1. ASSUME NEW r \in table, r.seq \in Range(shown)' PROVE ~ beforeCursor(r)'
      <4>1. CASE r.seq \in Range(shown)
        BY <2>9, <2>10, <4>1
      <4>2. CASE \E i \in 1..n : r.seq = rows[i].seq
        <5>1. PICK i \in 1..n : r.seq = rows[i].seq
          BY <4>2
        <5>2. r = rows[i]
          BY <1>5, <1>6, <2>7, <5>1
        <5> QED BY <2>2, <5>2
      <4> QED BY <2>6, <3>1, <4>1, <4>2
    <3> QED BY <1>2, <3>1
  <2>12. \A r \in start' \cap table' :
            r.seq \in Range(shown)' \/ beforeCursor(r)' \/ r.ts = edge'
    <3>1. ASSUME NEW r \in start, r \in table, r.seq \notin Range(shown)', r.ts # edge
          PROVE  beforeCursor(r)'
      <4>1. beforeCursor(r)
        BY <1>2, <2>6, <3>1 DEF ViewPart, ScrollInv
      <4>2. r \notin Range(rows)
        BY <1>6, <2>6, <3>1
      <4>3. newestFirst(rows[n], r)
        BY <1>1, <1>4, <1>6, <2>1, <3>1, <4>1, <4>2
      <4> QED BY <1>7, <2>1, <3>1, <4>3 DEF beforeCursor, newestFirst
    <3> QED BY <1>2, <3>1
  <2>13. ScrollInv'
    <3>1. \A r \in start' : r.seq <= inserted'
      BY <1>2 DEF ViewPart, ScrollInv
    <3>2. \A i \in 1..n : q[i] <= inserted
      BY <1>5, <1>6, <2>3, <2>7
    <3>3. \A i \in 1..k : shown[i] <= inserted
      BY <2>5 DEF ViewPart, ScrollInv
    <3>4. \A i \in 1..(k + n) : shown'[i] <= inserted
      BY <2>5, <3>2, <3>3
    <3>5. \A i \in DOMAIN shown' : shown'[i] <= inserted'
      BY <1>2, <2>5, <3>4
    <3> QED BY <1>2, <2>1, <2>11, <2>12, <3>1, <3>5 DEF ScrollInv
  <2>14. PagesShowOnce'
    <3>1. \A i, j \in 1..k : shown[i] = shown[j] => i = j
      BY <2>5 DEF ViewPart, PagesShowOnce, IsInjective
    <3>2. \A i \in 1..k, j \in 1..n : shown[i] # q[j]
      <4>1. \A i \in 1..k : shown[i] \in Range(shown)
        BY <2>5 DEF Range
      <4>2. \A j \in 1..n : rows[j] \in table /\ beforeCursor(rows[j])
        BY <1>4, <1>5, <1>6
      <4> QED BY <2>3, <2>10, <4>1, <4>2
    <3>3. \A i, j \in 1..n : q[i] = q[j] => i = j
      BY <2>2, <2>3
    <3>4. ASSUME NEW i \in 1..(k + n), NEW j \in 1..(k + n), shown'[i] = shown'[j] PROVE i = j
      <4>1. i \in Int /\ j \in Int
        BY <1>6, <2>5
      <4>2. CASE i \in 1..k /\ j \in 1..k
        BY <2>5, <3>1, <3>4, <4>2
      <4>3. CASE i \in 1..k /\ j - k \in 1..n
        BY <2>5, <3>2, <3>4, <4>1, <4>3
      <4>4. CASE i - k \in 1..n /\ j \in 1..k
        BY <2>5, <3>2, <3>4, <4>1, <4>4
      <4>5. CASE i - k \in 1..n /\ j - k \in 1..n
        <5>1. shown'[i] = q[i - k] /\ shown'[j] = q[j - k]
          BY <2>5, <4>1, <4>5
        <5>2. i - k = j - k
          BY <3>3, <3>4, <4>5, <5>1
        <5> QED BY <2>5, <4>1, <5>2
      <4> QED BY <2>5, <4>2, <4>3, <4>4, <4>5
    <3> QED BY <2>5, <3>4 DEF PagesShowOnce, IsInjective
  <2>15. before' \in Nat \X Nat
    BY <1>7, <2>1
  <2> QED BY <2>5, <2>13, <2>14, <2>15 DEF ViewPart
<1> QED BY <1>9, <1>10

-----------------------------------------------------------------------------
(* The retention sweep *)

\* A chunk takes expired rows only, and all of them when it is not full.
LEMMA ChunkIs ==
    ASSUME StoreTypeOK, SweepChunk
    PROVE  /\ table' \subseteq table /\ sweeping = "deleting" /\ sweeping' \in {"idle", "deleting"}
           /\ \A r \in table \ table' : r.ts < threshold
           /\ sweeping' = "idle" => \A r \in table' : r.ts >= threshold
           /\ UNCHANGED <<inserted, usedIds, threshold, sweeps>>
           /\ UNCHANGED tailVars /\ UNCHANGED viewVars
<1> DEFINE T == {r \in table : r.ts < threshold}
<1>1. PICK doomed \in SeqOf(T, Chunk) :
         /\ Len(doomed) < Chunk => T \subseteq Range(doomed)
         /\ table' = table \ Range(doomed)
         /\ sweeping' = IF Len(doomed) < Chunk THEN "idle" ELSE "deleting"
  BY DEF SweepChunk, select
<1>2. /\ sweeping = "deleting" /\ UNCHANGED <<inserted, usedIds, threshold, sweeps>>
      /\ UNCHANGED tailVars /\ UNCHANGED viewVars
  BY DEF SweepChunk
<1>3. \A r \in table : r \in T <=> r.ts < threshold
  OBVIOUS
<1> HIDE DEF T
<1>4. Range(doomed) \subseteq T
  <2>1. Chunk \in Nat
    BY LogStoreAssumption
  <2> QED BY <2>1, SelectedRows
<1>5. \A r \in table \ table' : r.ts < threshold
  BY <1>1, <1>3, <1>4
<1>6. ASSUME sweeping' = "idle" PROVE \A r \in table' : r.ts >= threshold
  <2>1. Len(doomed) < Chunk
    BY <1>1, <1>6
  <2>2. \A r \in table' : r \in table /\ ~ (r.ts < threshold)
    BY <1>1, <1>3, <2>1
  <2>3. threshold \in Int /\ \A r \in table : r.ts \in Int
    BY LogStoreAssumption DEF StoreTypeOK, Row
  <2> QED BY <2>2, <2>3
<1> QED BY <1>1, <1>2, <1>5, <1>6

-----------------------------------------------------------------------------
(* The theorems about the store *)

\* The empty table.
LEMMA StoreStart ==
    ASSUME StoreInit
    PROVE  StoreInv
<1>1. StoreTypeOK
  <2>1. /\ table = {} /\ inserted = 0 /\ usedIds = {}
        /\ sweeping = "idle" /\ threshold = 0 /\ sweeps = 0
        /\ tail = "off" /\ lastID = 0 /\ anchor = 0 /\ got = <<>>
        /\ view = "off" /\ before = <<0, 0>> /\ shown = <<>>
        /\ start = {} /\ edge = 0
    BY DEF StoreInit
  <2>2. <<>> \in Seq(1..MaxRows) /\ <<0, 0>> \in Nat \X Nat
    OBVIOUS
  <2>3. MaxRows \in Nat /\ MaxTs \in Nat /\ Sweeps \in Nat
    BY LogStoreAssumption
  <2> QED BY <2>1, <2>2, <2>3 DEF StoreTypeOK
<1>2. RowsAsInserted
  BY DEF StoreInit, RowsAsInserted
<1>3. TailPart
  BY DEF StoreInit, TailPart, CursorInv, TailInArrivalOrder, TailSkipsOnlyReusedIds, Passed
<1>4. ViewPart
  BY DEF StoreInit, ViewPart, ScrollInv, PagesShowOnce, IsInjective
<1> QED BY <1>1, <1>2, <1>3, <1>4 DEF StoreInv

\* Every step preserves the invariant.
LEMMA StoreStep ==
    ASSUME StoreInv, [StoreNext]_storeVars
    PROVE  StoreInv'
<1> USE DEF StoreInv
<1>0. MaxRows \in Nat /\ MaxTs \in Nat /\ Sweeps \in Nat
  BY LogStoreAssumption
<1>1. ASSUME NEW ts \in 0..MaxTs, NEW match \in BOOLEAN, Insert(ts, match)
      PROVE  StoreInv'
  <2>1. PICK n : /\ table' = table \cup {n} /\ n \in Row /\ n.id = maxId + 1
                 /\ inserted' = inserted + 1 /\ usedIds' = usedIds \cup {n.id}
                 /\ UNCHANGED sweepVars /\ UNCHANGED tailVars /\ UNCHANGED viewVars
    BY <1>1, InsertIs
  <2>2. table' \subseteq Row /\ usedIds' \subseteq 1..MaxRows
    BY <2>1 DEF StoreTypeOK, Row
  <2>3. inserted' \in 0..MaxRows
    BY <1>0, <1>1 DEF StoreTypeOK, Insert
  <2>4. StoreTypeOK'
    BY <2>1, <2>2, <2>3 DEF StoreTypeOK, sweepVars, tailVars, viewVars, Row
  <2> QED BY <1>1, <2>4, InsertStep
<1>2. ASSUME table' \subseteq table, UNCHANGED <<inserted, usedIds>>,
             sweeping' \in {"idle", "deleting", "failed"}, threshold' \in 0..(MaxTs + 1),
             sweeps' \in 0..Sweeps, UNCHANGED tailVars, UNCHANGED viewVars
      PROVE  StoreInv'
  <2>1. StoreTypeOK'
    BY <1>2 DEF StoreTypeOK, tailVars, viewVars, Row
  <2> QED BY <1>2, <2>1, RowsStay, TailKept, ViewKept
<1>3. ASSUME NEW t \in 0..(MaxTs + 1), SweepBegin(t) PROVE StoreInv'
  <2>1. sweeps' \in 0..Sweeps
    BY <1>0, <1>3 DEF SweepBegin, StoreTypeOK
  <2>2. table' \subseteq table /\ UNCHANGED <<inserted, usedIds>> /\ sweeping' = "deleting"
        /\ threshold' = t /\ UNCHANGED tailVars /\ UNCHANGED viewVars
    BY <1>3 DEF SweepBegin
  <2> QED BY <1>2, <2>1, <2>2
<1>4. CASE SweepChunk
  <2>1. threshold \in 0..(MaxTs + 1) /\ sweeps \in 0..Sweeps
    BY DEF StoreTypeOK
  <2>2. /\ table' \subseteq table /\ sweeping' \in {"idle", "deleting"}
        /\ UNCHANGED <<inserted, usedIds, threshold, sweeps>>
        /\ UNCHANGED tailVars /\ UNCHANGED viewVars
    BY <1>4, ChunkIs
  <2> QED BY <1>2, <2>1, <2>2
<1>5. CASE SweepAbort
  <2>1. threshold \in 0..(MaxTs + 1) /\ sweeps \in 0..Sweeps
    BY DEF StoreTypeOK
  <2>2. /\ table' \subseteq table /\ sweeping' = "failed"
        /\ UNCHANGED <<inserted, usedIds, threshold, sweeps>>
        /\ UNCHANGED tailVars /\ UNCHANGED viewVars
    BY <1>5 DEF SweepAbort
  <2> QED BY <1>2, <2>1, <2>2
<1>6. CASE TailConnect
  <2>1. TailPart'
    BY <1>6, ConnectStep
  <2>2. lastID' \in 0..MaxRows /\ anchor' \in 0..MaxRows
    <3>1. maxId \in 0..inserted /\ inserted \in 0..MaxRows
      BY MaxIdIs DEF StoreTypeOK
    <3>2. lastID' = maxId /\ anchor' = inserted
      BY <1>6 DEF TailConnect
    <3> QED BY <1>0, <3>1, <3>2
  <2>3. /\ UNCHANGED <<table, inserted, usedIds, got>> /\ tail' = "on"
        /\ UNCHANGED sweepVars /\ UNCHANGED viewVars
    BY <1>6 DEF TailConnect
  <2>4. StoreTypeOK'
    BY <2>2, <2>3 DEF StoreTypeOK, sweepVars, viewVars, Row
  <2> QED BY <2>1, <2>3, <2>4, RowsStay, ViewKept
<1>7. CASE TailPoll
  <2>1. TailPart' /\ got' \in Seq(1..MaxRows) /\ lastID' \in 0..MaxRows
    BY <1>7, PollStep
  <2>2. /\ UNCHANGED <<table, inserted, usedIds, tail, anchor>>
        /\ UNCHANGED sweepVars /\ UNCHANGED viewVars
    BY <1>7 DEF TailPoll
  <2>3. StoreTypeOK'
    BY <2>1, <2>2 DEF StoreTypeOK, sweepVars, viewVars, Row
  <2> QED BY <2>1, <2>2, <2>3, RowsStay, ViewKept
<1>8. CASE ViewFirstPage
  <2>1. ViewPart' /\ shown' \in Seq(1..MaxRows) /\ before' \in Nat \X Nat /\ edge' \in 0..MaxTs
    BY <1>8, FirstPageStep
  <2>2. /\ UNCHANGED <<table, inserted, usedIds>> /\ view' = "scrolling" /\ start' = table
        /\ UNCHANGED sweepVars /\ UNCHANGED tailVars
    BY <1>8 DEF ViewFirstPage
  <2>3. StoreTypeOK'
    BY <2>1, <2>2 DEF StoreTypeOK, sweepVars, tailVars, Row
  <2> QED BY <2>1, <2>2, <2>3, RowsStay, TailKept
<1>9. CASE ViewNextPage
  <2>1. ViewPart' /\ shown' \in Seq(1..MaxRows) /\ before' \in Nat \X Nat
    BY <1>9, NextPageStep
  <2>2. /\ UNCHANGED <<table, inserted, usedIds, start, edge>>
        /\ UNCHANGED sweepVars /\ UNCHANGED tailVars
    BY <1>9 DEF ViewNextPage
  <2>3. view' \in {"scrolling", "end"}
    BY <1>9 DEF ViewNextPage
  <2>4. StoreTypeOK'
    BY <2>1, <2>2, <2>3 DEF StoreTypeOK, sweepVars, tailVars, Row
  <2> QED BY <2>1, <2>2, <2>4, RowsStay, TailKept
<1>10. CASE UNCHANGED storeVars
  <2>1. /\ table' \subseteq table /\ UNCHANGED <<inserted, usedIds, sweeping, threshold, sweeps>>
        /\ UNCHANGED tailVars /\ UNCHANGED viewVars
    BY <1>10 DEF storeVars, sweepVars
  <2>2. /\ sweeping \in {"idle", "deleting", "failed"} /\ threshold \in 0..(MaxTs + 1)
        /\ sweeps \in 0..Sweeps
    BY DEF StoreTypeOK
  <2> QED BY <1>2, <2>1, <2>2
<1> QED BY <1>1, <1>3, <1>4, <1>5, <1>6, <1>7, <1>8, <1>9, <1>10 DEF StoreNext

\* The invariant holds throughout.
LEMMA StoreInvariant == StoreSpec => []StoreInv
<1>1. StoreInit => StoreInv
  BY StoreStart
<1>2. StoreInv /\ [StoreNext]_storeVars => StoreInv'
  BY StoreStep
<1> QED BY <1>1, <1>2, PTL DEF StoreSpec

\* The polling live tail sends rows in the order in which the batch writer
\* inserted them, none twice, and passes over none but those given an id that a
\* sweep had freed, for any limits (streamPolling with ApplyStreamCursor).
THEOREM TailInOrder == StoreSpec => []TailFollowsArrival
<1>1. StoreInv => TailFollowsArrival
  BY DEF StoreInv, TailPart, TailFollowsArrival
<1> QED BY <1>1, StoreInvariant, PTL

\* Scrolling through the history loads no row twice, and at its end only rows
\* with the event time of the first page's oldest row were missed, whatever was
\* inserted or deleted meanwhile (logsPage with ApplyPagination).
THEOREM HistoryCovered == StoreSpec => []PagesCoverHistory
<1>1. StoreInv => PagesCoverHistory
  <2> SUFFICES ASSUME StoreInv PROVE PagesCoverHistory
    OBVIOUS
  <2>1. PagesMissOnlyTies
    BY DEF StoreInv, ViewPart, ScrollInv, PagesMissOnlyTies, Missed
  <2> QED BY <2>1 DEF StoreInv, ViewPart, PagesCoverHistory
<1> QED BY <1>1, StoreInvariant, PTL

\* Only a sweep deletes rows, only expired ones, and one that ends without an
\* error leaves none (Sweep and deleteExpired).
THEOREM SweepIsExact == StoreSpec => SweepDeletesExactlyExpired
<1> DEFINE A == /\ \A r \in table \ table' : sweeping = "deleting" /\ r.ts < threshold
                /\ sweeping = "deleting" /\ sweeping' = "idle" =>
                      \A r \in table' : r.ts >= threshold
<1>1. StoreInv /\ [StoreNext]_storeVars => [A]_storeVars
  <2> SUFFICES ASSUME StoreInv, StoreNext PROVE A
    OBVIOUS
  <2>1. CASE SweepChunk
    <3>1. StoreTypeOK
      BY DEF StoreInv
    <3> QED BY <2>1, <3>1, ChunkIs
  <2>2. CASE \E ts \in 0..MaxTs, match \in BOOLEAN : Insert(ts, match)
    <3>1. table \subseteq table' /\ sweeping' = sweeping
      BY <2>2 DEF Insert, sweepVars
    <3> QED BY <3>1
  <2>3. CASE ~ SweepChunk /\ ~ \E ts \in 0..MaxTs, match \in BOOLEAN : Insert(ts, match)
    <3>1. table' = table /\ (sweeping' = sweeping \/ sweeping' # "idle")
      BY <2>3 DEF StoreNext, SweepBegin, SweepAbort, TailConnect, TailPoll,
            ViewFirstPage, ViewNextPage, sweepVars
    <3> QED BY <3>1
  <2> QED BY <2>1, <2>2, <2>3
<1>2. SweepDeletesExactlyExpired <=> [][A]_storeVars
  BY DEF SweepDeletesExactlyExpired
<1> HIDE DEF A
<1> QED BY <1>1, <1>2, StoreInvariant, PTL DEF StoreSpec

=============================================================================
