--------------------------- MODULE AlertEvaluator ---------------------------
(***************************************************************************)
(* Alerting: the alerts table (services/alerts.go), the evaluator's master *)
(* loop and the goroutine it starts per due alert                          *)
(* (services/alerts_evaluator.go).                                         *)
(*                                                                         *)
(* A tick lists the enabled alerts and then visits each: the due check and *)
(* the whole evaluation work on that snapshot of the row, while goroutines *)
(* of earlier ticks, users and restarts change the row itself.  What the   *)
(* query returns, whether the notification is delivered and whether meta.db *)
(* accepts a write are choices of the environment.                         *)
(***************************************************************************)
EXTENDS Integers, Sequences, FiniteSetsExt

CONSTANTS
    MaxId,     \* bound on alert ids
    Gor,       \* identities of evaluation goroutines
    Interval,  \* check_interval_ms
    Cooldown,  \* cooldown_ms
    MaxTime,   \* bound on the clock
    MaxBorn,   \* bound on the number of alerts created
    MaxFaults, \* bound on panics, failed writes and restarts
    None       \* no row, no goroutine

Ids == 1..MaxId
Never == -1                       \* a NULL timestamp
Times == Never..MaxTime

VARIABLES
    now,      \* the clock
    row,      \* row[i]: the alert of that id, or None
    snap,     \* the rows of the current tick still to visit
    tickTime, \* the clock read after the listing
    inflight, \* ids of running evaluations
    gor,      \* gor[g]: a running evaluation, or None
    born,     \* number of alerts created so far
    sent,     \* history: delivered notifications, oldest first
    faults    \* panics, failed writes and restarts so far

vars == <<now, row, snap, tickTime, inflight, gor, born, sent, faults>>

\* A row; born tells apart the alerts that have had the same id.
Alert == [id : Ids, born : 1..MaxBorn, enabled : BOOLEAN,
          lastChecked : Times, lastFired : Times, firing : BOOLEAN]

\* One evaluation: its copy of the row, the clock it read, and what it will save.
Evaluation == [a : Alert, pc : {"start", "query", "notify", "save", "exit"},
               at : Times, firing : BOOLEAN, firedAt : Times]

ASSUME EvaluatorAssumption ==
    /\ {MaxId, Interval, Cooldown, MaxTime, MaxBorn, MaxFaults} \subseteq Nat
    /\ None \notin Alert \cup Evaluation

Init ==
    /\ now = 0
    /\ row = [i \in Ids |-> None]
    /\ snap = {}
    /\ tickTime = 0
    /\ inflight = {}
    /\ gor = [g \in Gor |-> None]
    /\ born = 0
    /\ sent = <<>>
    /\ faults = 0

live == {i \in Ids : row[i] # None}
running == {g \in Gor : gor[g] # None}

-----------------------------------------------------------------------------
(* AlertsService, called by the alert pages *)

\* INSERT: SQLite takes the id after the largest one in the table.
Create(enabled) ==
    LET id == 1 + Max({0} \cup live)
    IN  /\ id \in Ids
        /\ born < MaxBorn
        /\ born' = born + 1
        /\ row' = [row EXCEPT ![id] =
              [id |-> id, born |-> born + 1, enabled |-> enabled,
               lastChecked |-> Never, lastFired |-> Never, firing |-> FALSE]]
        /\ UNCHANGED <<now, snap, tickTime, inflight, gor, sent, faults>>

\* An edit leaves the runtime columns alone; enabled is the one told apart here.
Update(i, enabled) ==
    /\ row[i] # None
    /\ row' = [row EXCEPT ![i].enabled = enabled]
    /\ UNCHANGED <<now, snap, tickTime, inflight, gor, born, sent, faults>>

Delete(i) ==
    /\ row' = [row EXCEPT ![i] = None]
    /\ UNCHANGED <<now, snap, tickTime, inflight, gor, born, sent, faults>>

-----------------------------------------------------------------------------
(* tick *)

\* ListEnabled, then the clock.
TickList ==
    /\ snap = {}
    /\ snap' = {row[i] : i \in {j \in live : row[j].enabled}}
    /\ tickTime' = now
    /\ UNCHANGED <<now, row, inflight, gor, born, sent, faults>>

due(a) == a.lastChecked = Never \/ tickTime - a.lastChecked >= Interval

\* Variation of TickVisit: LoadOrStore is not looked at.
TickVisitIgnoresInflight(a) ==
    /\ a \in snap
    /\ snap' = snap \ {a}
    /\ \/ ~due(a) /\ UNCHANGED <<inflight, gor>>
       \/ /\ due(a)
          /\ inflight' = inflight \cup {a.id}
          /\ \E g \in Gor \ running :
                gor' = [gor EXCEPT ![g] =
                    [a |-> a, pc |-> "start", at |-> Never,
                     firing |-> a.firing, firedAt |-> Never]]
    /\ UNCHANGED <<now, row, tickTime, born, sent, faults>>

\* One iteration of the loop: not due, busy, or a new evaluation.
TickVisit(a) ==
    /\ a \in snap
    /\ snap' = snap \ {a}
    /\ \/ /\ ~due(a) \/ a.id \in inflight
          /\ UNCHANGED <<inflight, gor>>
       \/ /\ due(a)
          /\ a.id \notin inflight
          /\ inflight' = inflight \cup {a.id}
          /\ \E g \in Gor \ running :
                gor' = [gor EXCEPT ![g] =
                    [a |-> a, pc |-> "start", at |-> Never,
                     firing |-> a.firing, firedAt |-> Never]]
    /\ UNCHANGED <<now, row, tickTime, born, sent, faults>>

-----------------------------------------------------------------------------
(* evaluate, in goroutine g *)

at(g, pc) == gor[g] # None /\ gor[g].pc = pc

EvalStart(g) ==
    /\ at(g, "start")
    /\ gor' = [gor EXCEPT ![g].at = now, ![g].pc = "query"]
    /\ UNCHANGED <<now, row, snap, tickTime, inflight, born, sent, faults>>

\* Validate and Execute.  An invalid or failing query saves the error with the
\* firing flag of the snapshot; no rows save "not firing"; rows save "firing",
\* after a notification when the snapshot's cooldown has passed.
EvalQuery(g, result) ==
    /\ at(g, "query")
    /\ LET e == gor[g]
           cooldownPassed == \/ e.a.lastFired = Never
                             \/ e.at - e.a.lastFired >= Cooldown
       IN  \/ result = "error" /\ gor' = [gor EXCEPT ![g].pc = "save"]
           \/ result = "quiet" /\ gor' = [gor EXCEPT ![g].pc = "save", ![g].firing = FALSE]
           \/ /\ result = "match"
              /\ gor' = [gor EXCEPT ![g].firing = TRUE,
                                    ![g].pc = IF cooldownPassed THEN "notify" ELSE "save"]
    /\ UNCHANGED <<now, row, snap, tickTime, inflight, born, sent, faults>>

\* Variation of EvalNotify: the cooldown starts although nothing was delivered.
EvalNotifyAlwaysFired(g, delivered) ==
    /\ at(g, "notify")
    /\ LET e == gor[g]
       IN  /\ gor' = [gor EXCEPT ![g].pc = "save", ![g].firedAt = e.at]
           /\ sent' = IF delivered
                      THEN Append(sent, [id |-> e.a.id, born |-> e.a.born, at |-> e.at])
                      ELSE sent
    /\ UNCHANGED <<now, row, snap, tickTime, inflight, born, faults>>

\* SendAlert and the audit row; only a delivered one advances last_fired_at.
EvalNotify(g, delivered) ==
    /\ at(g, "notify")
    /\ LET e == gor[g]
       IN  /\ gor' = [gor EXCEPT ![g].pc = "save",
                                 ![g].firedAt = IF delivered THEN e.at ELSE Never]
           /\ sent' = IF delivered
                      THEN Append(sent, [id |-> e.a.id, born |-> e.a.born, at |-> e.at])
                      ELSE sent
    /\ UNCHANGED <<now, row, snap, tickTime, inflight, born, faults>>

\* Variation of UpdateEval: last_fired_at is not among the columns.
UpdateEvalWithoutFired(e) ==
    [row EXCEPT ![e.a.id].firing = e.firing, ![e.a.id].lastChecked = e.at]

\* The columns UpdateEval writes; a missing firedAt keeps last_fired_at.
UpdateEval(e) ==
    [row EXCEPT ![e.a.id].firing = e.firing,
                ![e.a.id].lastChecked = e.at,
                ![e.a.id].lastFired = IF e.firedAt = Never THEN @ ELSE e.firedAt]

\* UpdateEval; its error is only logged, and without a row it changes nothing.
EvalSave(g) ==
    /\ at(g, "save")
    /\ \/ /\ row' = IF gor[g].a.id \in live THEN UpdateEval(gor[g]) ELSE row
          /\ UNCHANGED faults
       \/ /\ faults < MaxFaults
          /\ faults' = faults + 1
          /\ UNCHANGED row
    /\ gor' = [gor EXCEPT ![g].pc = "exit"]
    /\ UNCHANGED <<now, snap, tickTime, inflight, born, sent>>

\* The deferred recover: a panic anywhere skips the rest of evaluate.
EvalPanic(g) ==
    /\ \E pc \in {"query", "notify", "save"} : at(g, pc)
    /\ faults < MaxFaults
    /\ faults' = faults + 1
    /\ gor' = [gor EXCEPT ![g].pc = "exit"]
    /\ UNCHANGED <<now, row, snap, tickTime, inflight, born, sent>>

\* The deferred inflight.Delete.
EvalExit(g) ==
    /\ at(g, "exit")
    /\ inflight' = inflight \ {gor[g].a.id}
    /\ gor' = [gor EXCEPT ![g] = None]
    /\ UNCHANGED <<now, row, snap, tickTime, born, sent, faults>>

\* The process ends and starts again; only meta.db survives.
Restart ==
    /\ faults < MaxFaults
    /\ faults' = faults + 1
    /\ snap' = {}
    /\ inflight' = {}
    /\ gor' = [g \in Gor |-> None]
    /\ UNCHANGED <<now, row, tickTime, born, sent>>

Clock ==
    /\ now < MaxTime
    /\ now' = now + 1
    /\ UNCHANGED <<row, snap, tickTime, inflight, gor, born, sent, faults>>

-----------------------------------------------------------------------------
evaluate(g) ==
    \/ EvalStart(g)
    \/ \E result \in {"error", "quiet", "match"} : EvalQuery(g, result)
    \/ \E delivered \in BOOLEAN : EvalNotify(g, delivered)
    \/ EvalSave(g) \/ EvalPanic(g) \/ EvalExit(g)

tick == TickList \/ \E a \in snap : TickVisit(a)

Users ==
    \/ \E enabled \in BOOLEAN : Create(enabled)
    \/ \E i \in live : Delete(i) \/ \E enabled \in BOOLEAN : Update(i, enabled)

Next ==
    \/ Users
    \/ tick
    \/ \E g \in Gor : evaluate(g)
    \/ Restart
    \/ Clock

Spec == Init /\ [][Next]_vars

-----------------------------------------------------------------------------
(* Properties *)

\* Types of the rows, of the running evaluations and of the notifications sent.
TypeOK ==
    /\ now \in 0..MaxTime
    /\ row \in [Ids -> Alert \cup {None}]
    /\ snap \subseteq Alert
    /\ tickTime \in 0..MaxTime
    /\ inflight \subseteq Ids
    /\ gor \in [Gor -> Evaluation \cup {None}]
    /\ born \in 0..MaxBorn
    /\ sent \in Seq([id : Ids, born : 1..MaxBorn, at : 0..MaxTime])
    /\ faults \in 0..MaxFaults

\* An id is marked in flight exactly while one goroutine evaluates it: two ticks
\* never evaluate one alert twice at once, and a panic does not block it.
OneEvaluationPerAlert ==
    /\ inflight = {gor[g].a.id : g \in running}
    /\ \A g, h \in running : gor[g].a.id = gor[h].a.id => g = h

\* last_fired_at and last_checked_at of an alert never go back, so a cooldown
\* that has begun is not cut short by an evaluation that saves late.
EvalTimesMonotone ==
    [][\A i \in live :
          row'[i] # None /\ row'[i].born = row[i].born =>
              /\ row'[i].lastFired >= row[i].lastFired
              /\ row'[i].lastChecked >= row[i].lastChecked]_vars

\* last_fired_at is the time of a notification that was delivered under that
\* id: a failed delivery does not start the cooldown, so it is retried.
FiredMeansDelivered ==
    \A i \in live : row[i].lastFired # Never =>
        \E n \in DOMAIN sent : sent[n].id = i /\ sent[n].at = row[i].lastFired

\* The state of the evaluator is consistent: one evaluation per alert, and a
\* cooldown that starts with a delivery and only then.
EvaluatorInv == TypeOK /\ OneEvaluationPerAlert /\ FiredMeansDelivered

\* The n-th notification and the later ones of its alert inside its cooldown.
within(n) ==
    {m \in DOMAIN sent : /\ n <= m
                         /\ sent[m].born = sent[n].born
                         /\ sent[m].at < sent[n].at + Cooldown}

\* As long as no write, panic or restart gets in the way, an alert notifies at
\* most twice within a cooldown, whatever the ticks and edits interleave.
AtMostOneDuplicate ==
    faults = 0 => \A n \in DOMAIN sent : Cardinality(within(n)) <= 2

=============================================================================
