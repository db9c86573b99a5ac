------------------------------ MODULE LogStore ------------------------------
(***************************************************************************)
(* The logs table and the three that use it while the batch writer         *)
(* inserts: the retention sweep (services/retention.go), the polling live  *)
(* tail (streamPolling in ui/stream.go with ApplyStreamCursor) and the     *)
(* infinite scroll of the log viewer (logsPage and fillResults in          *)
(* ui/logs.go with ApplyPagination).                                       *)
(*                                                                         *)
(* A row is its id, its event time and whether the live tail's filter      *)
(* matches it; seq, the order of insertion, identifies it for ever, while  *)
(* SQLite's id (one more than the largest in the table) may be reused.     *)
(* Each SQL statement is atomic and sees one state of the table (WAL).     *)
(***************************************************************************)
EXTENDS Integers, SequencesExt

CONSTANTS
    MaxRows,    \* bound on the rows ever inserted
    MaxTs,      \* bound on event times
    Chunk,      \* retentionChunk
    PollLimit,  \* streamPollLimit
    FirstLimit, \* LIMIT of defaultLogsQuery
    PageSize,   \* logsPageSize
    Sweeps      \* bound on the number of sweeps

ASSUME LogStoreAssumption ==
    /\ {Chunk, PollLimit, FirstLimit, PageSize} \subseteq Nat \ {0}
    /\ {MaxRows, MaxTs, Sweeps} \subseteq Nat

VARIABLES
    table,     \* the rows of logs
    inserted,  \* number of rows ever inserted
    usedIds,   \* history: ids ever handed out
    sweeping,  \* "idle", "deleting" or, after an error, "failed"
    threshold, \* the time below which it deletes
    sweeps,    \* sweeps started
    tail,      \* "off" or "on"
    lastID,    \* the live tail's cursor
    anchor,    \* history: inserted when the live tail connected
    got,       \* seqs of the rows the live tail has sent
    view,      \* "off", "scrolling" or "end"
    before,    \* the viewer's cursor <<ts, id>>
    shown,     \* seqs of the rows the viewer has loaded, page by page
    start,     \* history: the table when the viewer loaded its first page
    edge       \* history: event time of the oldest row of that page

sweepVars == <<sweeping, threshold, sweeps>>
tailVars  == <<tail, lastID, anchor, got>>
viewVars  == <<view, before, shown, start, edge>>
storeVars == <<table, inserted, usedIds, sweepVars, tailVars, viewVars>>

Row == [id : 1..MaxRows, seq : 1..MaxRows, ts : 0..MaxTs, match : BOOLEAN,
        reused : BOOLEAN]

StoreInit ==
    /\ table = {} /\ inserted = 0 /\ usedIds = {}
    /\ sweeping = "idle" /\ threshold = 0 /\ sweeps = 0
    /\ tail = "off" /\ lastID = 0 /\ anchor = 0 /\ got = <<>>
    /\ view = "off" /\ before = <<0, 0>> /\ shown = <<>>
    /\ start = {} /\ edge = 0

maxId == Max({0} \cup {r.id : r \in table})
Seqs(rows) == [i \in DOMAIN rows |-> rows[i].seq]

byId(a, b) == a.id < b.id

\* ORDER BY timestamp DESC, id DESC
newestFirst(a, b) == a.ts > b.ts \/ (a.ts = b.ts /\ a.id > b.id)

\* ORDER BY timestamp DESC, which leaves rows of one timestamp in any order
notOlder(a, b) == a.ts >= b.ts

\* What a SELECT from S with LIMIT n may return, in the given order: n rows or, if
\* there are fewer, all of them, and none of the others sorts before one of them.
select(S, n, order(_, _), cut(_, _)) ==
    {rows \in SeqOf(S, n) :
        /\ \A i, j \in DOMAIN rows : i < j => order(rows[i], rows[j])
        /\ \A i \in DOMAIN rows, r \in S \ Range(rows) : cut(rows[i], r)
        /\ Len(rows) < n => S \subseteq Range(rows)}

-----------------------------------------------------------------------------
\* flushBatch: one row of a batch; event times are the client's.
Insert(ts, match) ==
    /\ inserted < MaxRows
    /\ table' = table \cup {[id |-> maxId + 1, seq |-> inserted + 1, ts |-> ts,
                             match |-> match, reused |-> maxId + 1 \in usedIds]}
    /\ inserted' = inserted + 1
    /\ usedIds' = usedIds \cup {maxId + 1}
    /\ UNCHANGED <<sweepVars, tailVars, viewVars>>

-----------------------------------------------------------------------------
(* Sweep and deleteExpired *)

\* The threshold is fixed when the sweep starts; it moves with the clock and,
\* in either direction, with the retention setting.
SweepBegin(t) ==
    /\ sweeping # "deleting"
    /\ sweeps < Sweeps
    /\ sweeping' = "deleting"
    /\ threshold' = t
    /\ sweeps' = sweeps + 1
    /\ UNCHANGED <<table, inserted, usedIds, tailVars, viewVars>>

\* Variation of SweepChunk: one chunk is taken for the whole sweep.
SweepChunkOnce ==
    /\ sweeping = "deleting"
    /\ \E doomed \in select({r \in table : r.ts < threshold}, Chunk, byId, byId) :
          table' = table \ Range(doomed)
    /\ sweeping' = "idle"
    /\ UNCHANGED <<inserted, usedIds, threshold, sweeps, tailVars, viewVars>>

\* One transaction: the first Chunk expired rows by id.  Fewer than Chunk
\* deleted rows end the loop.
SweepChunk ==
    /\ sweeping = "deleting"
    /\ \E doomed \in select({r \in table : r.ts < threshold}, Chunk, byId, byId) :
          /\ table' = table \ Range(doomed)
          /\ sweeping' = IF Len(doomed) < Chunk THEN "idle" ELSE "deleting"
    /\ UNCHANGED <<inserted, usedIds, threshold, sweeps, tailVars, viewVars>>

\* A failing DELETE, or the cancelled context of a shutdown, ends the sweep
\* early; what it has deleted stays deleted.
SweepAbort ==
    /\ sweeping = "deleting"
    /\ sweeping' = "failed"
    /\ UNCHANGED <<table, inserted, usedIds, threshold, sweeps, tailVars, viewVars>>

-----------------------------------------------------------------------------
(* streamPolling *)

\* The anchor: MAX(id) when the stream connects.
TailConnect ==
    /\ tail = "off"
    /\ tail' = "on"
    /\ lastID' = maxId
    /\ anchor' = inserted
    /\ UNCHANGED <<table, inserted, usedIds, sweepVars, got, viewVars>>

\* Variation of TailPoll: the cursor jumps to the newest row, sent or not.
TailPollJumps ==
    /\ tail = "on"
    /\ \E rows \in select({r \in table : r.match /\ r.id > lastID}, PollLimit, byId, byId) :
          got' = got \o Seqs(rows)
    /\ lastID' = maxId
    /\ UNCHANGED <<table, inserted, usedIds, sweepVars, tail, anchor, viewVars>>

\* ... AND id > lastID ORDER BY id LIMIT PollLimit, and the cursor moved on.
TailPoll ==
    /\ tail = "on"
    /\ \E rows \in select({r \in table : r.match /\ r.id > lastID}, PollLimit, byId, byId) :
          /\ got' = got \o Seqs(rows)
          /\ lastID' = IF rows = <<>> THEN lastID ELSE Last(rows).id
    /\ UNCHANGED <<table, inserted, usedIds, sweepVars, tail, anchor, viewVars>>

-----------------------------------------------------------------------------
(* logsPage *)

\* defaultLogsQuery orders by timestamp alone, so its LIMIT may cut anywhere
\* among rows of one timestamp; fillResults sorts by (timestamp, id) and offers
\* the oldest row as the cursor of the next page.
ViewFirstPage ==
    /\ view = "off"
    /\ table # {}
    /\ \E rows \in select(table, FirstLimit, newestFirst, notOlder) :
          /\ shown' = Seqs(rows)
          /\ before' = <<Last(rows).ts, Last(rows).id>>
          /\ edge' = Last(rows).ts
    /\ view' = "scrolling"
    /\ start' = table
    /\ UNCHANGED <<table, inserted, usedIds, sweepVars, tailVars>>

\* Variation of beforeCursor: the timestamp alone is the cursor.
beforeCursorTimeOnly(r) == r.ts < before[1]

\* The condition ApplyPagination adds.
beforeCursor(r) == r.ts < before[1] \/ (r.ts = before[1] /\ r.id < before[2])

\* The next page; an empty one renders the beginning-of-history marker.
ViewNextPage ==
    /\ view = "scrolling"
    /\ \E rows \in select({r \in table : beforeCursor(r)}, PageSize, newestFirst, newestFirst) :
          IF rows = <<>>
          THEN view' = "end" /\ UNCHANGED <<shown, before>>
          ELSE /\ shown' = shown \o Seqs(rows)
               /\ before' = <<Last(rows).ts, Last(rows).id>>
               /\ UNCHANGED view
    /\ UNCHANGED <<table, inserted, usedIds, sweepVars, tailVars, start, edge>>

-----------------------------------------------------------------------------
StoreNext ==
    \/ \E ts \in 0..MaxTs, match \in BOOLEAN : Insert(ts, match)
    \/ \E t \in 0..(MaxTs + 1) : SweepBegin(t)
    \/ SweepChunk \/ SweepAbort
    \/ TailConnect \/ TailPoll
    \/ ViewFirstPage \/ ViewNextPage

StoreSpec == StoreInit /\ [][StoreNext]_storeVars

-----------------------------------------------------------------------------
(* Properties *)

\* Types of the table and of the cursors.
StoreTypeOK ==
    /\ table \subseteq Row
    /\ inserted \in 0..MaxRows /\ usedIds \subseteq 1..MaxRows
    /\ sweeping \in {"idle", "deleting", "failed"} /\ threshold \in 0..(MaxTs + 1) /\ sweeps \in 0..Sweeps
    /\ tail \in {"off", "on"} /\ lastID \in 0..MaxRows /\ anchor \in 0..MaxRows
    /\ got \in Seq(1..MaxRows)
    /\ view \in {"off", "scrolling", "end"} /\ before \in Nat \X Nat
    /\ shown \in Seq(1..MaxRows) /\ start \subseteq Row /\ edge \in 0..MaxTs

\* A sweep deletes expired rows only, and when its loop ends without an error none
\* is left, rows inserted between its chunks included.
SweepDeletesExactlyExpired ==
    [][/\ \A r \in table \ table' : sweeping = "deleting" /\ r.ts < threshold
       /\ sweeping = "deleting" /\ sweeping' = "idle" => \A r \in table' : r.ts >= threshold]_storeVars

\* "live tail follows arrival order": the live tail sends rows in the order
\* they were inserted, and none twice, although sweeps free ids meanwhile.
TailInArrivalOrder == \A i, j \in DOMAIN got : i < j => got[i] < got[j]

\* Rows the cursor has passed without sending them.
Passed == {r \in table : /\ tail = "on" /\ r.match
                         /\ r.seq > anchor /\ r.id <= lastID
                         /\ r.seq \notin Range(got)}

\* The cursor passes a row over only if its id had been used before.
TailSkipsOnlyReusedIds == \A r \in Passed : r.reused

\* The table and its cursors have their types, and the live tail follows the
\* arrival of the rows: in order, and with no gap but a reused id.
TailFollowsArrival == StoreTypeOK /\ TailInArrivalOrder /\ TailSkipsOnlyReusedIds

\* No row is loaded twice by scrolling, whatever is inserted or deleted between
\* two pages.
PagesShowOnce == IsInjective(shown)

\* At the end of the scroll, the rows of the start that are still there and were
\* never shown.
Missed == {r \in start \cap table : view = "end" /\ r.seq \notin Range(shown)}

\* Scrolling misses only rows that share their event time with the oldest row
\* of the first page.
PagesMissOnlyTies == \A r \in Missed : r.ts = edge

\* What scrolling promises with both halves together: no row twice, and none
\* missed but at the edge of the first page.
PagesCoverHistory == PagesShowOnce /\ PagesMissOnlyTies

=============================================================================
