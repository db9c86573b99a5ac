----------------------- MODULE AlertEvaluatorProofs -----------------------
(***************************************************************************)
(* Proofs about the alert evaluator, for any number of alerts, goroutines, *)
(* faults and any interval and cooldown.  AlertingInv is the inductive     *)
(* invariant.  Its heart is StaleByOne: a copy of a row that can still     *)
(* lead to a notification misses at most the last one that was sent, since *)
(* a list names an alert once and an alert has one evaluation at a time.   *)
(***************************************************************************)
EXTENDS AlertEvaluator, FiniteSetTheorems, TLAPS

\* Whether the list, an evaluation or the table has alert b under id i.
Known(i, b) ==
    \/ \E a \in snap : a.id = i /\ a.born = b
    \/ \E g \in running : gor[g].a.id = i /\ gor[g].a.born = b
    \/ i \in live /\ row[i].born = b

\* An alert has one id for ever, and a list names it once.
OneIdPerAlert ==
    /\ \A i, j \in Ids, b \in 1..MaxBorn : Known(i, b) /\ Known(j, b) => i = j
    /\ \A i \in Ids, b \in 1..MaxBorn : Known(i, b) => b <= born
    /\ \A n \in DOMAIN sent : sent[n].born <= born
    /\ \A i \in live : row[i].id = i
    /\ \A a, b \in snap : a.id = b.id => a = b

working(g) == gor[g].pc \in {"query", "notify", "save"}

\* Nothing is dated later than now, and nothing of an alert that is being
\* evaluated later than that evaluation.
TimesInOrder ==
    /\ \A i \in live : row[i].lastChecked <= now /\ row[i].lastFired <= now
    /\ \A n \in DOMAIN sent : sent[n].at <= now
    /\ \A g \in running : working(g) =>
          /\ gor[g].at \in 0..now
          /\ gor[g].a.id \in live =>
                /\ row[gor[g].a.id].lastChecked <= gor[g].at
                /\ row[gor[g].a.id].lastFired <= gor[g].at
          /\ \A n \in DOMAIN sent : sent[n].born = gor[g].a.born => sent[n].at <= gor[g].at

\* An evaluation is about to save the time of a notification just when it
\* has sent one, which it does when the cooldown it knows of has passed.
SavesWhatItSent ==
    \A g \in running :
       /\ gor[g].pc \in {"start", "query", "notify"} => gor[g].firedAt = Never
       /\ gor[g].pc = "save" /\ gor[g].firedAt # Never =>
             /\ gor[g].firedAt = gor[g].at
             /\ \E n \in DOMAIN sent : sent[n].id = gor[g].a.id /\ sent[n].at = gor[g].firedAt
       /\ gor[g].pc = "notify" => \/ gor[g].a.lastFired = Never
                                  \/ gor[g].at - gor[g].a.lastFired >= Cooldown

\* What a copy of a row knows of the notifications sent.
KnowsAll(a) == \A n \in DOMAIN sent : sent[n].born = a.born => sent[n].at <= a.lastFired
KnowsButLast(a) ==
    \A n, m \in DOMAIN sent :
       n < m /\ sent[n].born = a.born /\ sent[m].born = a.born => sent[n].at <= a.lastFired

mayNotify(g) == gor[g].pc \in {"start", "query", "notify"}
unsaved(g) == gor[g].pc = "save" /\ gor[g].firedAt # Never

\* Without faults, every copy that may lead to a notification misses the last
\* one at most; the table misses only the one that is about to be saved.
StaleByOne ==
    /\ \A a \in snap : KnowsButLast(a)
    /\ \A a \in snap, g \in running : mayNotify(g) /\ gor[g].a.born = a.born => KnowsAll(a)
    /\ \A g \in running : mayNotify(g) => KnowsButLast(gor[g].a)
    /\ \A i \in live : KnowsButLast(row[i])
    /\ \A i \in live : \/ KnowsAll(row[i])
                       \/ \E g \in running : unsaved(g) /\ gor[g].a.born = row[i].born

\* Of three notifications of an alert the last is a cooldown after the first.
ThirdIsLater ==
    \A p, q, r \in DOMAIN sent :
       p < q /\ q < r /\ sent[p].born = sent[r].born /\ sent[q].born = sent[r].born =>
          sent[r].at >= sent[p].at + Cooldown

AlertingInv ==
    /\ TypeOK
    /\ OneEvaluationPerAlert
    /\ OneIdPerAlert
    /\ TimesInOrder
    /\ SavesWhatItSent
    /\ FiredMeansDelivered
    /\ faults = 0 => StaleByOne /\ ThirdIsLater
-----------------------------------------------------------------------------
(* Types *)

\* What is not None is a row, or an evaluation of a copy of one.
LEMMA Typed ==
    ASSUME TypeOK
    PROVE  /\ \A i \in live : i \in Ids /\ row[i] \in Alert /\ row[i] # None
           /\ \A g \in running : /\ g \in Gor /\ gor[g] \in Evaluation /\ gor[g] # None
                                 /\ gor[g].a \in Alert /\ gor[g].a.id \in Ids
                                 /\ gor[g].a.born \in 1..MaxBorn
           /\ \A g \in Gor : g \notin running => gor[g] = None
  BY EvaluatorAssumption DEF TypeOK, live, running, Alert, Evaluation

\* The fields of a row.
LEMMA AlertFields ==
    ASSUME NEW a \in Alert
    PROVE  /\ a.id \in Ids /\ a.born \in 1..MaxBorn /\ a.lastChecked \in Times /\ a.lastFired \in Times
           /\ a.enabled \in BOOLEAN /\ a.firing \in BOOLEAN
  <1>1. a.enabled \in BOOLEAN /\ a.firing \in BOOLEAN
    BY Zenon DEF Alert
  <1> QED
    BY <1>1 DEF Alert

\* The fields of an evaluation.
LEMMA EvaluationFields ==
    ASSUME NEW e \in Evaluation
    PROVE  /\ e.a \in Alert /\ e.pc \in {"start", "query", "notify", "save", "exit"}
           /\ e.at \in Times /\ e.firedAt \in Times /\ e.firing \in BOOLEAN
  <1>1. e.firing \in BOOLEAN
    BY Zenon DEF Evaluation
  <1> QED
    BY <1>1 DEF Evaluation

\* The history of notifications.
LEMMA SentTyped ==
    ASSUME TypeOK
    PROVE  /\ DOMAIN sent = 1..Len(sent) /\ Len(sent) \in Nat
           /\ \A n \in DOMAIN sent :
                 sent[n].id \in Ids /\ sent[n].born \in 1..MaxBorn /\ sent[n].at \in 0..MaxTime
  <1> DEFINE S == [id : Ids, born : 1..MaxBorn, at : 0..MaxTime]
  <1>1. \A x \in S : x.id \in Ids /\ x.born \in 1..MaxBorn /\ x.at \in 0..MaxTime
    OBVIOUS
  <1>2. sent \in Seq(S)
    BY DEF TypeOK
  <1> HIDE DEF S
  <1>3. DOMAIN sent = 1..Len(sent) /\ Len(sent) \in Nat /\ \A n \in DOMAIN sent : sent[n] \in S
    BY <1>2
  <1> QED
    BY <1>1, <1>3

\* Times are numbers, and Never is before all others.
LEMMA TimesAreNumbers ==
    /\ \A t \in Times : t \in Int /\ t >= Never /\ t <= MaxTime /\ (t # Never => t \in 0..MaxTime)
    /\ \A t \in 0..MaxTime : t \in Times /\ t # Never
    /\ Never \in Times
  BY EvaluatorAssumption DEF Times, Never

\* An evaluation that goes on works on the same copy of the row.
LEMMA Advance ==
    ASSUME AlertingInv, NEW g \in running, NEW e \in Evaluation, e.a = gor[g].a,
           gor' = [gor EXCEPT ![g] = e], UNCHANGED inflight
    PROVE  /\ gor' \in [Gor -> Evaluation \cup {None}]
           /\ running' = running /\ g \in running'
           /\ gor'[g] = e /\ \A h \in running : h # g => gor'[h] = gor[h]
           /\ \A h \in running : gor'[h].a = gor[h].a
           /\ OneEvaluationPerAlert'
  <1>1. e # None
    BY EvaluatorAssumption
  <1>2. gor \in [Gor -> Evaluation \cup {None}] /\ g \in Gor
    BY DEF AlertingInv, TypeOK, running
  <1>3. /\ gor' \in [Gor -> Evaluation \cup {None}]
        /\ gor'[g] = e /\ \A h \in Gor : h # g => gor'[h] = gor[h]
    BY <1>2
  <1>4. running' = running
    BY <1>1, <1>2, <1>3 DEF running
  <1>5. \A h \in running : gor'[h].a = gor[h].a
    BY <1>3 DEF running
  <1>6. OneEvaluationPerAlert'
    BY <1>4, <1>5 DEF AlertingInv, OneEvaluationPerAlert
  <1> QED
    BY <1>3, <1>4, <1>5, <1>6 DEF running

\* The initial state: nothing is known, sent or running.
LEMMA AlertingInit == Init => AlertingInv
  <1> SUFFICES ASSUME Init PROVE AlertingInv
    OBVIOUS
  <1>1. live = {} /\ running = {} /\ snap = {} /\ DOMAIN sent = {} /\ inflight = {}
    BY DEF Init, live, running
  <1>2. TypeOK
    BY EvaluatorAssumption DEF Init, TypeOK
  <1>3. OneEvaluationPerAlert /\ OneIdPerAlert /\ TimesInOrder /\ SavesWhatItSent /\ FiredMeansDelivered
    BY <1>1 DEF OneEvaluationPerAlert, OneIdPerAlert, Known, TimesInOrder, SavesWhatItSent, FiredMeansDelivered
  <1>4. StaleByOne /\ ThirdIsLater
    BY <1>1 DEF StaleByOne, ThirdIsLater
  <1> QED
    BY <1>2, <1>3, <1>4 DEF AlertingInv

-----------------------------------------------------------------------------
(* The alert pages *)

\* A new alert has a number of its own: no copy and no notification has it.
LEMMA CreateStep ==
    ASSUME AlertingInv, NEW enabled \in BOOLEAN, Create(enabled)
    PROVE  AlertingInv'
  <1>1. /\ born < MaxBorn /\ born' = born + 1
        /\ UNCHANGED <<now, snap, tickTime, inflight, gor, sent, faults>>
    BY DEF Create
  <1>2. born \in 0..MaxBorn
    BY DEF AlertingInv, TypeOK
  <1>3. born + 1 \in 1..MaxBorn /\ Never \in Times
    BY <1>1, <1>2, EvaluatorAssumption, TimesAreNumbers
  <1>4. \E id \in Ids : row' = [row EXCEPT ![id] =
                                  [id |-> id, born |-> born + 1, enabled |-> enabled,
                                   lastChecked |-> Never, lastFired |-> Never, firing |-> FALSE]]
    BY DEF Create
  <1>5. PICK id \in Ids, a \in Alert :
           /\ a.id = id /\ a.born = born + 1 /\ a.lastChecked = Never /\ a.lastFired = Never
           /\ row' = [row EXCEPT ![id] = a]
    <2>1. PICK id \in Ids : row' = [row EXCEPT ![id] =
                                  [id |-> id, born |-> born + 1, enabled |-> enabled,
                                   lastChecked |-> Never, lastFired |-> Never, firing |-> FALSE]]
      BY <1>4
    <2> DEFINE a == [id |-> id, born |-> born + 1, enabled |-> enabled,
                     lastChecked |-> Never, lastFired |-> Never, firing |-> FALSE]
    <2>2. a \in Alert
      BY <1>3 DEF Alert
    <2> QED
      BY <2>1, <2>2
  <1>6. a # None
    BY EvaluatorAssumption
  <1>7. row \in [Ids -> Alert \cup {None}]
    BY DEF AlertingInv, TypeOK
  <1>8. /\ row' \in [Ids -> Alert \cup {None}]
        /\ row'[id] = a /\ \A i \in Ids : i # id => row'[i] = row[i]
    BY <1>5, <1>7
  <1>9. live' = live \cup {id} /\ running' = running
    BY <1>1, <1>6, <1>8 DEF live, running
  <1>10. TypeOK'
    BY <1>1, <1>3, <1>8, EvaluatorAssumption DEF AlertingInv, TypeOK
  <1>11. OneEvaluationPerAlert'
    BY <1>1, <1>9 DEF AlertingInv, OneEvaluationPerAlert
  <1>12. \A i \in Ids, b \in 1..MaxBorn : Known(i, b)' => Known(i, b) \/ (i = id /\ b = born + 1)
    BY <1>1, <1>5, <1>8, <1>9 DEF Known, live
  <1>13. OneIdPerAlert'
    <2>1. \A i, j \in Ids, b \in 1..MaxBorn : Known(i, b)' /\ Known(j, b)' => i = j
      BY <1>2, <1>12 DEF AlertingInv, OneIdPerAlert
    <2>2. \A i \in Ids, b \in 1..MaxBorn : Known(i, b)' => b <= born'
      BY <1>1, <1>2, <1>12 DEF AlertingInv, OneIdPerAlert
    <2>3. \A n \in DOMAIN sent : sent[n].born \in 1..MaxBorn
      BY SentTyped DEF AlertingInv
    <2> QED
      BY <1>1, <1>2, <1>5, <1>8, <1>9, <2>1, <2>2, <2>3 DEF AlertingInv, OneIdPerAlert, live
  <1>14. TimesInOrder'
    <2>1. now \in Nat /\ \A g \in running : working(g) => gor[g].at \in Nat
      BY DEF AlertingInv, TypeOK, TimesInOrder
    <2> QED
      BY <1>1, <1>5, <1>8, <1>9, <2>1 DEF AlertingInv, TimesInOrder, working, live, Never
  <1>15. SavesWhatItSent'
    BY <1>1, <1>9 DEF AlertingInv, SavesWhatItSent
  <1>16. FiredMeansDelivered'
    BY <1>1, <1>5, <1>8, <1>9 DEF AlertingInv, FiredMeansDelivered, live
  <1>17. ASSUME faults' = 0 PROVE StaleByOne' /\ ThirdIsLater'
    <2>1. StaleByOne /\ ThirdIsLater /\ faults = 0
      BY <1>1, <1>17 DEF AlertingInv
    <2>2. \A n \in DOMAIN sent : sent[n].born <= born /\ sent[n].born \in 1..MaxBorn
      BY SentTyped DEF AlertingInv, OneIdPerAlert
    <2>3. KnowsAll(a)' /\ KnowsButLast(a)'
      BY <1>1, <1>2, <1>5, <2>2 DEF KnowsAll, KnowsButLast
    <2>4. StaleByOne'
      BY <1>1, <1>8, <1>9, <2>1, <2>3 DEF StaleByOne, KnowsAll, KnowsButLast, mayNotify, unsaved, live
    <2>5. ThirdIsLater'
      BY <1>1, <2>1 DEF ThirdIsLater
    <2> QED
      BY <2>4, <2>5
  <1> QED
    BY <1>10, <1>11, <1>13, <1>14, <1>15, <1>16, <1>17 DEF AlertingInv

\* An edit keeps all that an evaluation has saved in a row.
LEMMA UpdateStep ==
    ASSUME AlertingInv, NEW i \in live, NEW enabled \in BOOLEAN, Update(i, enabled)
    PROVE  AlertingInv'
  <1>1. UNCHANGED <<now, snap, tickTime, inflight, gor, born, sent, faults>>
    BY DEF Update
  <1>2. i \in Ids /\ row[i] \in Alert /\ row \in [Ids -> Alert \cup {None}]
    BY Typed DEF AlertingInv, TypeOK
  <1>3. PICK a \in Alert :
           /\ a.id = row[i].id /\ a.born = row[i].born
           /\ a.lastChecked = row[i].lastChecked /\ a.lastFired = row[i].lastFired
           /\ row' = [row EXCEPT ![i] = a]
    <2> DEFINE a == [row[i] EXCEPT !.enabled = enabled]
    <2>1. a \in Alert
      BY <1>2, Zenon DEF Alert
    <2>2. row' = [row EXCEPT ![i] = a]
      BY DEF Update
    <2>3. a.id = row[i].id /\ a.born = row[i].born /\ a.lastChecked = row[i].lastChecked
          /\ a.lastFired = row[i].lastFired
      BY <1>2 DEF Alert
    <2> HIDE DEF a
    <2> QED
      BY <2>1, <2>2, <2>3
  <1>4. a # None
    BY EvaluatorAssumption
  <1>5. /\ row' \in [Ids -> Alert \cup {None}]
        /\ row'[i] = a /\ \A j \in Ids : j # i => row'[j] = row[j]
    BY <1>2, <1>3
  <1>6. live' = live /\ running' = running
    BY <1>1, <1>4, <1>5 DEF live, running
  <1>7. \A j \in live : /\ j \in Ids /\ row'[j].id = row[j].id /\ row'[j].born = row[j].born
                        /\ row'[j].lastChecked = row[j].lastChecked
                        /\ row'[j].lastFired = row[j].lastFired
    BY <1>3, <1>5 DEF live
  <1>8. TypeOK' /\ OneEvaluationPerAlert'
    BY <1>1, <1>5, <1>6 DEF AlertingInv, TypeOK, OneEvaluationPerAlert
  <1>9. \A j \in Ids, b \in 1..MaxBorn : Known(j, b)' => Known(j, b)
    BY <1>1, <1>6, <1>7 DEF Known
  <1>10. OneIdPerAlert'
    BY <1>1, <1>6, <1>7, <1>9 DEF AlertingInv, OneIdPerAlert
  <1>11. TimesInOrder' /\ SavesWhatItSent' /\ FiredMeansDelivered'
    BY <1>1, <1>6, <1>7 DEF AlertingInv, TimesInOrder, working, SavesWhatItSent, FiredMeansDelivered
  <1>12. faults' = 0 => StaleByOne' /\ ThirdIsLater'
    BY <1>1, <1>6, <1>7 DEF AlertingInv, StaleByOne, KnowsAll, KnowsButLast, mayNotify, unsaved, ThirdIsLater
  <1> QED
    BY <1>8, <1>10, <1>11, <1>12 DEF AlertingInv

\* A row goes; the copies of it stay.
LEMMA DeleteStep ==
    ASSUME AlertingInv, NEW i \in live, Delete(i)
    PROVE  AlertingInv'
  <1>1. UNCHANGED <<now, snap, tickTime, inflight, gor, born, sent, faults>>
    BY DEF Delete
  <1>2. row \in [Ids -> Alert \cup {None}] /\ i \in Ids
    BY Typed DEF AlertingInv, TypeOK
  <1>3. /\ row' \in [Ids -> Alert \cup {None}]
        /\ row'[i] = None /\ \A j \in Ids : j # i => row'[j] = row[j]
    BY <1>2 DEF Delete
  <1>4. live' = live \ {i} /\ running' = running
    BY <1>1, <1>3 DEF live, running
  <1>5. \A j \in live' : j \in live /\ j \in Ids /\ row'[j] = row[j]
    BY <1>3, <1>4 DEF live
  <1>6. TypeOK' /\ OneEvaluationPerAlert'
    BY <1>1, <1>3, <1>4 DEF AlertingInv, TypeOK, OneEvaluationPerAlert
  <1>7. \A j \in Ids, b \in 1..MaxBorn : Known(j, b)' => Known(j, b)
    BY <1>1, <1>4, <1>5 DEF Known
  <1>8. OneIdPerAlert'
    BY <1>1, <1>5, <1>7 DEF AlertingInv, OneIdPerAlert
  <1>9. TimesInOrder' /\ SavesWhatItSent' /\ FiredMeansDelivered'
    BY <1>1, <1>4, <1>5 DEF AlertingInv, TimesInOrder, working, SavesWhatItSent, FiredMeansDelivered
  <1>10. faults' = 0 => StaleByOne' /\ ThirdIsLater'
    BY <1>1, <1>4, <1>5 DEF AlertingInv, StaleByOne, KnowsAll, KnowsButLast, mayNotify, unsaved, ThirdIsLater
  <1> QED
    BY <1>6, <1>8, <1>9, <1>10 DEF AlertingInv

-----------------------------------------------------------------------------
(* tick, the clock and restarts *)

\* A list copies the table, which misses no notification but one about to be
\* saved.
LEMMA TickListStep == AlertingInv /\ TickList => AlertingInv'
  <1> SUFFICES ASSUME AlertingInv, TickList PROVE AlertingInv'
    OBVIOUS
  <1>1. tickTime' = now /\ UNCHANGED <<now, row, inflight, gor, born, sent, faults>>
    BY DEF TickList
  <1>2. live' = live /\ running' = running
    BY <1>1 DEF live, running
  <1>3. \A a \in snap' : \E i \in live : a = row[i]
    BY DEF TickList
  <1>4. \A i \in live : i \in Ids /\ row[i] \in Alert /\ row[i].id = i
    BY Typed DEF AlertingInv, OneIdPerAlert
  <1>5. TypeOK'
    BY <1>1, <1>3, <1>4 DEF AlertingInv, TypeOK
  <1>6. OneEvaluationPerAlert'
    BY <1>1, <1>2 DEF AlertingInv, OneEvaluationPerAlert
  <1>7. \A j \in Ids, b \in 1..MaxBorn : Known(j, b)' => Known(j, b)
    BY <1>1, <1>2, <1>3, <1>4 DEF Known
  <1>8. OneIdPerAlert'
    BY <1>1, <1>2, <1>3, <1>4, <1>7 DEF AlertingInv, OneIdPerAlert
  <1>9. TimesInOrder' /\ SavesWhatItSent' /\ FiredMeansDelivered'
    BY <1>1, <1>2 DEF AlertingInv, TimesInOrder, working, SavesWhatItSent, FiredMeansDelivered
  <1>10. ASSUME faults' = 0 PROVE StaleByOne' /\ ThirdIsLater'
    <2>1. StaleByOne /\ ThirdIsLater
      BY <1>1, <1>10 DEF AlertingInv
    <2>2. \A a \in snap' : KnowsButLast(a)'
      BY <1>1, <1>3, <2>1 DEF StaleByOne, KnowsButLast
    <2>3. ASSUME NEW i \in live, NEW g \in running, mayNotify(g), gor[g].a.born = row[i].born
          PROVE  KnowsAll(row[i])
      <3>1. SUFFICES ASSUME NEW h \in running, unsaved(h), gor[h].a.born = row[i].born PROVE FALSE
        BY <2>1 DEF StaleByOne
      <3>2. /\ gor[g].a.id \in Ids /\ gor[h].a.id \in Ids /\ gor[g].a.born \in 1..MaxBorn
            /\ Known(gor[g].a.id, gor[g].a.born) /\ Known(gor[h].a.id, gor[g].a.born)
        BY <2>3, <3>1, Typed DEF AlertingInv, Known
      <3>3. gor[g].a.id = gor[h].a.id
        BY <3>2 DEF AlertingInv, OneIdPerAlert
      <3>4. g = h
        BY <3>3 DEF AlertingInv, OneEvaluationPerAlert
      <3> QED
        BY <2>3, <3>1, <3>4 DEF mayNotify, unsaved
    <2>4. \A a \in snap', g \in running : mayNotify(g) /\ gor[g].a.born = a.born => KnowsAll(a)
      BY <1>3, <2>3
    <2>5. StaleByOne'
      BY <1>1, <1>2, <2>1, <2>2, <2>4 DEF StaleByOne, KnowsAll, KnowsButLast, mayNotify, unsaved
    <2>6. ThirdIsLater'
      BY <1>1, <2>1 DEF ThirdIsLater
    <2> QED
      BY <2>5, <2>6
  <1> QED
    BY <1>5, <1>6, <1>8, <1>9, <1>10 DEF AlertingInv

\* A visit hands the copy of the list to a goroutine, and leaves no other one
\* of that alert in the list.
LEMMA TickVisitStep ==
    ASSUME AlertingInv, NEW a \in snap, TickVisit(a)
    PROVE  AlertingInv'
  <1>1. snap' = snap \ {a} /\ UNCHANGED <<now, row, tickTime, born, sent, faults>>
    BY DEF TickVisit
  <1>2. live' = live
    BY <1>1 DEF live
  <1>3. a \in Alert
    BY DEF AlertingInv, TypeOK
  <1>4. CASE UNCHANGED <<inflight, gor>>
    <2>1. running' = running
      BY <1>4 DEF running
    <2>2. TypeOK' /\ OneEvaluationPerAlert'
      BY <1>1, <1>4, <2>1 DEF AlertingInv, TypeOK, OneEvaluationPerAlert
    <2>3. \A j \in Ids, b \in 1..MaxBorn : Known(j, b)' => Known(j, b)
      BY <1>1, <1>2, <1>4, <2>1 DEF Known
    <2>4. OneIdPerAlert'
      BY <1>1, <1>2, <2>3 DEF AlertingInv, OneIdPerAlert
    <2>5. TimesInOrder' /\ SavesWhatItSent' /\ FiredMeansDelivered'
      BY <1>1, <1>2, <1>4, <2>1 DEF AlertingInv, TimesInOrder, working, SavesWhatItSent, FiredMeansDelivered
    <2>6. faults' = 0 => StaleByOne' /\ ThirdIsLater'
      BY <1>1, <1>2, <1>4, <2>1 DEF AlertingInv, StaleByOne, KnowsAll, KnowsButLast, mayNotify, unsaved, ThirdIsLater
    <2> QED
      BY <2>2, <2>4, <2>5, <2>6 DEF AlertingInv
  <1>5. CASE /\ a.id \notin inflight /\ inflight' = inflight \cup {a.id}
             /\ \E g \in Gor \ running :
                   gor' = [gor EXCEPT ![g] =
                       [a |-> a, pc |-> "start", at |-> Never, firing |-> a.firing, firedAt |-> Never]]
    <2>1. PICK g \in Gor \ running, e \in Evaluation :
             e.a = a /\ e.pc = "start" /\ e.firedAt = Never /\ gor' = [gor EXCEPT ![g] = e]
      <3>1. PICK g \in Gor \ running :
               gor' = [gor EXCEPT ![g] =
                   [a |-> a, pc |-> "start", at |-> Never, firing |-> a.firing, firedAt |-> Never]]
        BY <1>5
      <3> DEFINE e == [a |-> a, pc |-> "start", at |-> Never, firing |-> a.firing, firedAt |-> Never]
      <3>2. a.firing \in BOOLEAN /\ Never \in Times
        BY <1>3, AlertFields, TimesAreNumbers
      <3>3. e \in Evaluation
        BY <1>3, <3>2 DEF Evaluation
      <3> QED
        BY <3>1, <3>3
    <2>2. e # None
      BY EvaluatorAssumption
    <2>3. gor \in [Gor -> Evaluation \cup {None}]
      BY DEF AlertingInv, TypeOK
    <2>4. /\ gor' \in [Gor -> Evaluation \cup {None}]
          /\ gor'[g] = e /\ \A h \in Gor : h # g => gor'[h] = gor[h]
      BY <2>1, <2>3
    <2>5. running' = running \cup {g}
      BY <2>2, <2>4 DEF running
    <2>6. \A h \in running : h # g /\ h \in Gor /\ gor'[h] = gor[h]
      BY <2>1, <2>4 DEF running
    <2>7. a.id \in Ids /\ a.born \in 1..MaxBorn
      BY <1>3, AlertFields
    <2>8. TypeOK'
      BY <1>1, <1>5, <2>4, <2>7 DEF AlertingInv, TypeOK
    <2>9. OneEvaluationPerAlert'
      BY <1>5, <2>1, <2>4, <2>5, <2>6 DEF AlertingInv, OneEvaluationPerAlert
    <2>10. \A j \in Ids, b \in 1..MaxBorn : Known(j, b)' => Known(j, b)
      BY <1>1, <1>2, <2>1, <2>4, <2>5, <2>6 DEF Known
    <2>11. OneIdPerAlert'
      BY <1>1, <1>2, <2>10 DEF AlertingInv, OneIdPerAlert
    <2>12. TimesInOrder' /\ SavesWhatItSent' /\ FiredMeansDelivered'
      BY <1>1, <1>2, <2>1, <2>4, <2>5, <2>6
      DEF AlertingInv, TimesInOrder, working, SavesWhatItSent, FiredMeansDelivered
    <2>13. ASSUME faults' = 0 PROVE StaleByOne' /\ ThirdIsLater'
      <3>1. StaleByOne /\ ThirdIsLater
        BY <1>1, <2>13 DEF AlertingInv
      <3>2. \A b \in snap' : b.born # a.born
        <4> SUFFICES ASSUME NEW b \in snap, b.born = a.born PROVE b = a
          BY <1>1
        <4>1. b.id \in Ids /\ Known(a.id, a.born) /\ Known(b.id, a.born)
          BY AlertFields DEF Known, AlertingInv, TypeOK
        <4>2. b.id = a.id
          BY <2>7, <4>1 DEF AlertingInv, OneIdPerAlert
        <4> QED
          BY <4>2 DEF AlertingInv, OneIdPerAlert
      <3>3. KnowsButLast(a)
        BY <3>1 DEF StaleByOne
      <3>4. \A b \in snap', h \in running' : mayNotify(h)' /\ gor'[h].a.born = b.born => KnowsAll(b)
        BY <1>1, <2>1, <2>4, <2>5, <2>6, <3>1, <3>2 DEF StaleByOne, mayNotify
      <3>5. \A h \in running' : mayNotify(h)' => KnowsButLast(gor'[h].a)
        BY <2>1, <2>4, <2>5, <2>6, <3>1, <3>3 DEF StaleByOne, mayNotify
      <3>6. \A i \in live : \/ KnowsAll(row[i])
                            \/ \E h \in running' : unsaved(h)' /\ gor'[h].a.born = row[i].born
        BY <2>5, <2>6, <3>1 DEF StaleByOne, unsaved
      <3>7. StaleByOne'
        BY <1>1, <1>2, <3>1, <3>4, <3>5, <3>6 DEF StaleByOne, KnowsAll, KnowsButLast
      <3>8. ThirdIsLater'
        BY <1>1, <3>1 DEF ThirdIsLater
      <3> QED
        BY <3>7, <3>8
    <2> QED
      BY <2>8, <2>9, <2>11, <2>12, <2>13 DEF AlertingInv
  <1> QED
    BY <1>4, <1>5 DEF TickVisit

\* A restart is a fault, and keeps the table only.
LEMMA RestartStep == AlertingInv /\ Restart => AlertingInv'
  <1> SUFFICES ASSUME AlertingInv, Restart PROVE AlertingInv'
    OBVIOUS
  <1>1. /\ faults' = faults + 1 /\ faults < MaxFaults /\ snap' = {} /\ inflight' = {}
        /\ gor' = [g \in Gor |-> None] /\ UNCHANGED <<now, row, tickTime, born, sent>>
    BY DEF Restart
  <1>2. live' = live /\ running' = {}
    BY <1>1 DEF live, running
  <1>3. faults \in Nat
    BY DEF AlertingInv, TypeOK
  <1>4. TypeOK'
    BY <1>1, EvaluatorAssumption DEF AlertingInv, TypeOK
  <1>5. OneEvaluationPerAlert'
    BY <1>1, <1>2 DEF OneEvaluationPerAlert
  <1>6. \A j \in Ids, b \in 1..MaxBorn : Known(j, b)' => Known(j, b)
    BY <1>1, <1>2 DEF Known
  <1>7. OneIdPerAlert'
    BY <1>1, <1>2, <1>6 DEF AlertingInv, OneIdPerAlert
  <1>8. TimesInOrder' /\ SavesWhatItSent' /\ FiredMeansDelivered'
    BY <1>1, <1>2 DEF AlertingInv, TimesInOrder, SavesWhatItSent, FiredMeansDelivered
  <1> QED
    BY <1>1, <1>3, <1>4, <1>5, <1>7, <1>8 DEF AlertingInv

\* Time passes.
LEMMA ClockStep == AlertingInv /\ Clock => AlertingInv'
  <1> SUFFICES ASSUME AlertingInv, Clock PROVE AlertingInv'
    OBVIOUS
  <1>1. /\ now' = now + 1 /\ now < MaxTime /\ now \in 0..MaxTime
        /\ UNCHANGED <<row, snap, tickTime, inflight, gor, born, sent, faults>>
    BY DEF Clock, AlertingInv, TypeOK
  <1>2. live' = live /\ running' = running
    BY <1>1 DEF live, running
  <1>3. TypeOK' /\ OneEvaluationPerAlert'
    BY <1>1, <1>2, EvaluatorAssumption DEF AlertingInv, TypeOK, OneEvaluationPerAlert
  <1>4. OneIdPerAlert' /\ SavesWhatItSent' /\ FiredMeansDelivered'
    BY <1>1, <1>2 DEF AlertingInv, OneIdPerAlert, Known, SavesWhatItSent, FiredMeansDelivered
  <1>5. TimesInOrder'
    <2>1. \A i \in live : row[i].lastChecked \in Int /\ row[i].lastFired \in Int
      BY Typed, AlertFields, TimesAreNumbers DEF AlertingInv
    <2>2. \A n \in DOMAIN sent : sent[n].at \in Int
      BY SentTyped DEF AlertingInv
    <2> QED
      BY <1>1, <1>2, <2>1, <2>2 DEF AlertingInv, TimesInOrder, working
  <1>6. faults' = 0 => StaleByOne' /\ ThirdIsLater'
    BY <1>1, <1>2 DEF AlertingInv, StaleByOne, KnowsAll, KnowsButLast, mayNotify, unsaved, ThirdIsLater
  <1> QED
    BY <1>3, <1>4, <1>5, <1>6 DEF AlertingInv

-----------------------------------------------------------------------------
(* evaluate *)

\* A step of an evaluation that neither notifies nor saves, given what e, the
\* evaluation after the step, must satisfy.
LEMMA QuietAdvance ==
    ASSUME AlertingInv, NEW g \in running, NEW e \in Evaluation, e.a = gor[g].a,
           gor' = [gor EXCEPT ![g] = e],
           UNCHANGED <<now, row, snap, tickTime, inflight, born, sent>>,
           faults' \in 0..MaxFaults,
           e.pc \in {"query", "notify", "save"} =>
              /\ e.at \in 0..now
              /\ e.a.id \in live => row[e.a.id].lastChecked <= e.at /\ row[e.a.id].lastFired <= e.at
              /\ \A n \in DOMAIN sent : sent[n].born = e.a.born => sent[n].at <= e.at,
           e.pc # "exit" => e.firedAt = Never,
           e.pc = "notify" => e.a.lastFired = Never \/ e.at - e.a.lastFired >= Cooldown,
           faults' = 0 => /\ faults = 0 /\ mayNotify(g) /\ e.pc # "exit"
    PROVE  AlertingInv'
  <1>1. /\ gor' \in [Gor -> Evaluation \cup {None}]
        /\ running' = running /\ g \in running'
        /\ gor'[g] = e /\ \A h \in running : h # g => gor'[h] = gor[h]
        /\ \A h \in running : gor'[h].a = gor[h].a
        /\ OneEvaluationPerAlert'
    BY Advance
  <1>2. live' = live
    BY DEF live
  <1>3. TypeOK'
    BY <1>1 DEF AlertingInv, TypeOK
  <1>4. \A j \in Ids, b \in 1..MaxBorn : Known(j, b)' => Known(j, b)
    BY <1>1, <1>2 DEF Known
  <1>5. OneIdPerAlert'
    BY <1>2, <1>4 DEF AlertingInv, OneIdPerAlert
  <1>6. TimesInOrder'
    BY <1>1, <1>2 DEF AlertingInv, TimesInOrder, working
  <1>7. SavesWhatItSent'
    BY <1>1 DEF AlertingInv, SavesWhatItSent
  <1>8. FiredMeansDelivered'
    BY <1>2 DEF AlertingInv, FiredMeansDelivered
  <1>9. ASSUME faults' = 0 PROVE StaleByOne' /\ ThirdIsLater'
    <2>1. StaleByOne /\ ThirdIsLater
      BY <1>9 DEF AlertingInv
    <2>2. \A h \in running : mayNotify(h)' => mayNotify(h)
      BY <1>1, <1>9 DEF mayNotify
    <2>3. \A h \in running : unsaved(h) => unsaved(h)'
      BY <1>1, <1>9 DEF mayNotify, unsaved
    <2>4. StaleByOne'
      BY <1>1, <1>2, <2>1, <2>2, <2>3 DEF StaleByOne, KnowsAll, KnowsButLast
    <2>5. ThirdIsLater'
      BY <2>1 DEF ThirdIsLater
    <2> QED
      BY <2>4, <2>5
  <1> QED
    BY <1>1, <1>3, <1>5, <1>6, <1>7, <1>8, <1>9 DEF AlertingInv

\* evaluate reads the clock: all that is known of the alert is not later.
LEMMA EvalStartStep ==
    ASSUME AlertingInv, NEW g \in Gor, EvalStart(g)
    PROVE  AlertingInv'
  <1>1. g \in running /\ gor[g] \in Evaluation /\ gor[g].pc = "start" /\ gor[g] # None
    BY Typed DEF EvalStart, at, running, AlertingInv
  <1> DEFINE e == [gor[g] EXCEPT !.at = now, !.pc = "query"]
  <1>2. now \in 0..MaxTime /\ now \in Times /\ faults \in 0..MaxFaults
    BY TimesAreNumbers DEF AlertingInv, TypeOK
  <1>3. /\ e \in Evaluation /\ e.a = gor[g].a /\ e.at = now /\ e.pc = "query"
        /\ e.firedAt = gor[g].firedAt
    BY <1>1, <1>2 DEF Evaluation
  <1>4. gor' = [gor EXCEPT ![g] = e]
    BY DEF EvalStart
  <1>5. e.firedAt = Never
    BY <1>1, <1>3 DEF AlertingInv, SavesWhatItSent
  <1> HIDE DEF e
  <1>6. /\ e.at \in 0..now
        /\ e.a.id \in live => row[e.a.id].lastChecked <= e.at /\ row[e.a.id].lastFired <= e.at
        /\ \A n \in DOMAIN sent : sent[n].born = e.a.born => sent[n].at <= e.at
    BY <1>2, <1>3 DEF AlertingInv, TimesInOrder
  <1>7. UNCHANGED <<now, row, snap, tickTime, inflight, born, sent, faults>>
    BY DEF EvalStart
  <1>8. mayNotify(g)
    BY <1>1 DEF mayNotify
  <1> QED
    BY <1>1, <1>2, <1>3, <1>4, <1>5, <1>6, <1>7, <1>8, QuietAdvance

\* The query returns: the evaluation notifies when the cooldown of its copy
\* has passed.
LEMMA EvalQueryStep ==
    ASSUME AlertingInv, NEW g \in Gor, NEW result \in {"error", "quiet", "match"}, EvalQuery(g, result)
    PROVE  AlertingInv'
  <1>1. g \in running /\ gor[g] \in Evaluation /\ gor[g].pc = "query" /\ gor[g] # None
    BY Typed DEF EvalQuery, at, running, AlertingInv
  <1> DEFINE passed == gor[g].a.lastFired = Never \/ gor[g].at - gor[g].a.lastFired >= Cooldown
  <1>2. PICK e \in Evaluation :
           /\ e.a = gor[g].a /\ e.at = gor[g].at /\ e.firedAt = gor[g].firedAt
           /\ e.pc \in {"notify", "save"} /\ (e.pc = "notify" => passed)
           /\ gor' = [gor EXCEPT ![g] = e]
    <2>1. CASE result = "error"
      <3> DEFINE e == [gor[g] EXCEPT !.pc = "save"]
      <3>1. e \in Evaluation /\ e.a = gor[g].a /\ e.at = gor[g].at /\ e.firedAt = gor[g].firedAt /\ e.pc = "save"
        BY <1>1 DEF Evaluation
      <3>2. gor' = [gor EXCEPT ![g] = e]
        BY <2>1 DEF EvalQuery
      <3> HIDE DEF e
      <3> QED
        BY <3>1, <3>2
    <2>2. CASE result = "quiet"
      <3> DEFINE e == [gor[g] EXCEPT !.pc = "save", !.firing = FALSE]
      <3>1. e \in Evaluation
        BY <1>1, Zenon DEF Evaluation
      <3>2. e.a = gor[g].a /\ e.at = gor[g].at /\ e.firedAt = gor[g].firedAt /\ e.pc = "save"
        BY <1>1 DEF Evaluation
      <3>3. gor' = [gor EXCEPT ![g] = e]
        BY <2>2 DEF EvalQuery
      <3> HIDE DEF e
      <3> QED
        BY <3>1, <3>2, <3>3
    <2>3. CASE result = "match"
      <3> DEFINE pc == IF passed THEN "notify" ELSE "save"
                 e == [gor[g] EXCEPT !.firing = TRUE, !.pc = pc]
      <3>1. pc \in {"start", "query", "notify", "save", "exit"} /\ pc \in {"notify", "save"} /\ (pc = "notify" => passed)
        OBVIOUS
      <3>2. gor' = [gor EXCEPT ![g] = e]
        BY <2>3 DEF EvalQuery
      <3> HIDE DEF pc, passed
      <3>3. e \in Evaluation
        BY <1>1, <3>1, Zenon DEF Evaluation
      <3>4. e.a = gor[g].a /\ e.at = gor[g].at /\ e.firedAt = gor[g].firedAt /\ e.pc = pc
        BY <1>1 DEF Evaluation
      <3> HIDE DEF e
      <3> QED
        BY <3>1, <3>2, <3>3, <3>4
    <2> QED
      BY <2>1, <2>2, <2>3
  <1>3. e.firedAt = Never
    BY <1>1, <1>2 DEF AlertingInv, SavesWhatItSent
  <1>4. /\ e.at \in 0..now
        /\ e.a.id \in live => row[e.a.id].lastChecked <= e.at /\ row[e.a.id].lastFired <= e.at
        /\ \A n \in DOMAIN sent : sent[n].born = e.a.born => sent[n].at <= e.at
    BY <1>1, <1>2 DEF AlertingInv, TimesInOrder, working
  <1>5. UNCHANGED <<now, row, snap, tickTime, inflight, born, sent, faults>>
    BY DEF EvalQuery
  <1>6. mayNotify(g) /\ faults \in 0..MaxFaults
    BY <1>1 DEF mayNotify, AlertingInv, TypeOK
  <1>7. e.pc = "notify" => e.a.lastFired = Never \/ e.at - e.a.lastFired >= Cooldown
    BY <1>2
  <1>8. e.pc # "exit"
    BY <1>2
  <1> HIDE DEF passed
  <1> QED
    BY <1>1, <1>2, <1>3, <1>4, <1>5, <1>6, <1>7, <1>8, QuietAdvance

\* A panic is a fault that ends the evaluation.
LEMMA EvalPanicStep ==
    ASSUME AlertingInv, NEW g \in Gor, EvalPanic(g)
    PROVE  AlertingInv'
  <1>1. g \in running /\ gor[g] \in Evaluation /\ gor[g] # None
    BY Typed DEF EvalPanic, at, running, AlertingInv
  <1> DEFINE e == [gor[g] EXCEPT !.pc = "exit"]
  <1>2. e \in Evaluation /\ e.a = gor[g].a /\ e.pc = "exit"
    BY <1>1 DEF Evaluation
  <1>3. gor' = [gor EXCEPT ![g] = e]
    BY DEF EvalPanic
  <1>4. UNCHANGED <<now, row, snap, tickTime, inflight, born, sent>>
    BY DEF EvalPanic
  <1>5. faults' \in 0..MaxFaults /\ faults' # 0
    BY EvaluatorAssumption DEF EvalPanic, AlertingInv, TypeOK
  <1> HIDE DEF e
  <1> QED
    BY <1>1, <1>2, <1>3, <1>4, <1>5, QuietAdvance

\* Two goroutines never evaluate the same alert.
LEMMA SameAlertSameGoroutine ==
    ASSUME AlertingInv, NEW g \in running, NEW h \in running, gor[g].a.born = gor[h].a.born
    PROVE  g = h
  <1>1. /\ gor[g].a.id \in Ids /\ gor[h].a.id \in Ids /\ gor[g].a.born \in 1..MaxBorn
        /\ Known(gor[g].a.id, gor[g].a.born) /\ Known(gor[h].a.id, gor[g].a.born)
    BY Typed DEF AlertingInv, Known
  <1>2. gor[g].a.id = gor[h].a.id
    BY <1>1 DEF AlertingInv, OneIdPerAlert
  <1> QED
    BY <1>2 DEF AlertingInv, OneEvaluationPerAlert

\* The notification is delivered: the list and the table knew all before it,
\* and the copy that led to it all but the last one.
LEMMA DeliveredStep ==
    ASSUME AlertingInv, NEW g \in running, gor[g].pc = "notify",
           NEW e \in Evaluation, e.a = gor[g].a, e.at = gor[g].at, e.pc = "save", e.firedAt = gor[g].at,
           gor' = [gor EXCEPT ![g] = e],
           sent' = Append(sent, [id |-> gor[g].a.id, born |-> gor[g].a.born, at |-> gor[g].at]),
           UNCHANGED <<now, row, snap, tickTime, inflight, born, faults>>
    PROVE  AlertingInv'
  <1> DEFINE N == Len(sent)
             b == gor[g].a.born
             t == gor[g].at
  <1>1. /\ gor' \in [Gor -> Evaluation \cup {None}]
        /\ running' = running /\ g \in running'
        /\ gor'[g] = e /\ \A h \in running : h # g => gor'[h] = gor[h]
        /\ \A h \in running : gor'[h].a = gor[h].a
        /\ OneEvaluationPerAlert'
    BY Advance
  <1>2. live' = live
    BY DEF live
  <1>3. gor[g].a \in Alert /\ gor[g].a.id \in Ids /\ b \in 1..MaxBorn
    BY Typed DEF AlertingInv
  <1>4. /\ t \in 0..now /\ now \in 0..MaxTime /\ t \in 0..MaxTime /\ t # Never
        /\ gor[g].a.id \in live => row[gor[g].a.id].lastChecked <= t /\ row[gor[g].a.id].lastFired <= t
        /\ \A n \in DOMAIN sent : sent[n].born = b => sent[n].at <= t
    <2>1. working(g)
      BY DEF working
    <2>2. now \in 0..MaxTime
      BY DEF AlertingInv, TypeOK
    <2>3. /\ t \in 0..now
          /\ gor[g].a.id \in live => row[gor[g].a.id].lastChecked <= t /\ row[gor[g].a.id].lastFired <= t
          /\ \A n \in DOMAIN sent : sent[n].born = b => sent[n].at <= t
      BY <2>1 DEF AlertingInv, TimesInOrder
    <2> HIDE DEF t
    <2> QED
      BY <2>2, <2>3, EvaluatorAssumption DEF Never
  <1>5. /\ N \in Nat /\ DOMAIN sent = 1..N
        /\ \A n \in DOMAIN sent : sent[n].id \in Ids /\ sent[n].born \in 1..MaxBorn /\ sent[n].at \in 0..MaxTime
    BY SentTyped DEF AlertingInv
  <1>6. sent \in Seq([id : Ids, born : 1..MaxBorn, at : 0..MaxTime])
    BY DEF AlertingInv, TypeOK
  <1>7. sent' \in Seq([id : Ids, born : 1..MaxBorn, at : 0..MaxTime])
    BY <1>3, <1>4, <1>6
  <1>8. /\ DOMAIN sent' = 1..N + 1
        /\ \A n \in DOMAIN sent : sent'[n] = sent[n]
        /\ sent'[N + 1].id = gor[g].a.id /\ sent'[N + 1].born = b /\ sent'[N + 1].at = t
    BY <1>5, <1>6
  <1>9. TypeOK'
    BY <1>1, <1>7 DEF AlertingInv, TypeOK
  <1>10. \A j \in Ids, c \in 1..MaxBorn : Known(j, c)' => Known(j, c)
    BY <1>1, <1>2 DEF Known
  <1>11. b <= born
    BY <1>3 DEF AlertingInv, OneIdPerAlert, Known
  <1> HIDE DEF N, b, t
  <1>12. OneIdPerAlert'
    BY <1>2, <1>5, <1>8, <1>10, <1>11 DEF AlertingInv, OneIdPerAlert
  <1>13. \A h \in running : h # g => gor[h].a.born # b
    BY SameAlertSameGoroutine DEF b
  <1>14. TimesInOrder'
    <2>1. \A h \in running : gor'[h].a.born = b => h = g
      BY <1>1, <1>13
    <2>2. \A n \in DOMAIN sent' : sent'[n].at <= now
      BY <1>4, <1>5, <1>8 DEF AlertingInv, TimesInOrder
    <2>3. ASSUME NEW h \in running, working(h)'
          PROVE  /\ gor'[h].at \in 0..now
                 /\ gor'[h].a.id \in live =>
                       /\ row[gor'[h].a.id].lastChecked <= gor'[h].at
                       /\ row[gor'[h].a.id].lastFired <= gor'[h].at
                 /\ \A n \in DOMAIN sent' : sent'[n].born = gor'[h].a.born => sent'[n].at <= gor'[h].at
      <3>1. CASE h = g
        BY <1>1, <1>4, <1>5, <1>8, <3>1 DEF t, b
      <3>2. CASE h # g
        <4>1. gor'[h] = gor[h] /\ working(h)
          BY <1>1, <2>3, <3>2 DEF working
        <4> QED
          BY <1>5, <1>8, <1>13, <3>2, <4>1 DEF AlertingInv, TimesInOrder
      <3> QED
        BY <3>1, <3>2
    <2> QED
      BY <1>1, <1>2, <2>2, <2>3 DEF AlertingInv, TimesInOrder
  <1>15. SavesWhatItSent'
    <2>1. DOMAIN sent \subseteq DOMAIN sent' /\ N + 1 \in DOMAIN sent'
      BY <1>5, <1>8
    <2>2. \A h \in running : h # g =>
             /\ gor'[h].pc \in {"start", "query", "notify"} => gor'[h].firedAt = Never
             /\ gor'[h].pc = "save" /\ gor'[h].firedAt # Never =>
                   /\ gor'[h].firedAt = gor'[h].at
                   /\ \E n \in DOMAIN sent' : sent'[n].id = gor'[h].a.id /\ sent'[n].at = gor'[h].firedAt
             /\ gor'[h].pc = "notify" => \/ gor'[h].a.lastFired = Never
                                         \/ gor'[h].at - gor'[h].a.lastFired >= Cooldown
      BY <1>1, <1>8, <2>1 DEF AlertingInv, SavesWhatItSent
    <2>3. /\ e.firedAt = e.at
          /\ \E n \in DOMAIN sent' : sent'[n].id = e.a.id /\ sent'[n].at = e.firedAt
      BY <1>8, <2>1 DEF t
    <2> QED
      BY <1>1, <2>2, <2>3 DEF SavesWhatItSent
  <1>16. FiredMeansDelivered'
    BY <1>2, <1>5, <1>8 DEF AlertingInv, FiredMeansDelivered
  <1>17. ASSUME faults' = 0 PROVE StaleByOne' /\ ThirdIsLater'
    <2>1. StaleByOne /\ ThirdIsLater /\ mayNotify(g)
      BY <1>17 DEF AlertingInv, mayNotify
    <2>2. \A a \in Alert : KnowsAll(a) => KnowsButLast(a)'
      BY <1>5, <1>8 DEF KnowsAll, KnowsButLast
    <2>3. \A a \in Alert : a.born # b /\ KnowsAll(a) => KnowsAll(a)'
      BY <1>5, <1>8 DEF KnowsAll
    <2>4. \A a \in Alert : a.born # b /\ KnowsButLast(a) => KnowsButLast(a)'
      BY <1>5, <1>8 DEF KnowsButLast
    <2>5. \A a \in snap : a \in Alert
      BY DEF AlertingInv, TypeOK
    <2>6. \A a \in snap : KnowsButLast(a)'
      BY <2>1, <2>2, <2>4, <2>5 DEF StaleByOne, b
    <2>7. \A h \in running : mayNotify(h)' => h # g /\ mayNotify(h) /\ gor'[h].a.born # b
      BY <1>1, <1>13 DEF mayNotify
    <2>8. \A a \in snap, h \in running : mayNotify(h)' /\ gor'[h].a.born = a.born => KnowsAll(a)'
      BY <1>1, <2>1, <2>3, <2>5, <2>7 DEF StaleByOne
    <2>9. \A h \in running : mayNotify(h)' => KnowsButLast(gor[h].a)'
      <3> SUFFICES ASSUME NEW h \in running, mayNotify(h)' PROVE KnowsButLast(gor[h].a)'
        OBVIOUS
      <3>1. KnowsButLast(gor[h].a) /\ gor[h].a.born # b /\ gor'[h] = gor[h]
        BY <1>1, <1>13, <2>1, <2>7 DEF StaleByOne
      <3> QED
        BY <1>5, <1>8, <3>1 DEF KnowsButLast
    <2>10. \A i \in live : row[i] \in Alert
      BY Typed DEF AlertingInv
    <2>11. \A h \in running : unsaved(h) => h # g /\ unsaved(h)' /\ gor[h].a.born # b /\ gor'[h] = gor[h]
      BY <1>1, <1>13 DEF unsaved
    <2>12. unsaved(g)' /\ gor'[g].a.born = b
      BY <1>1, <1>4 DEF unsaved, t, b
    <2>13. \A i \in live : row[i].born = b => KnowsAll(row[i])
      BY <2>1, <2>11 DEF StaleByOne
    <2>14. \A i \in live : KnowsButLast(row[i])'
      <3> SUFFICES ASSUME NEW i \in live PROVE KnowsButLast(row[i])'
        OBVIOUS
      <3>1. KnowsButLast(row[i]) /\ (row[i].born = b => KnowsAll(row[i])) /\ row'[i] = row[i]
        BY <2>1, <2>13 DEF StaleByOne
      <3> QED
        BY <1>5, <1>8, <3>1 DEF KnowsAll, KnowsButLast
    <2>15. ASSUME NEW i \in live
           PROVE  \/ KnowsAll(row[i])'
                  \/ \E h \in running' : unsaved(h)' /\ gor'[h].a.born = row[i].born
      <3>1. CASE row[i].born = b
        BY <1>1, <2>12, <3>1
      <3>2. CASE row[i].born # b /\ KnowsAll(row[i])
        BY <1>5, <1>8, <3>2 DEF KnowsAll
      <3>3. CASE \E h \in running : unsaved(h) /\ gor[h].a.born = row[i].born
        BY <1>1, <2>11, <3>3
      <3> QED
        BY <2>1, <3>1, <3>2, <3>3 DEF StaleByOne
    <2>16. StaleByOne'
      <3>1. \A h \in running' : mayNotify(h)' => KnowsButLast(gor[h].a)'
        BY <1>1, <2>9
      <3>2. \A i \in live' : \/ KnowsAll(row[i])'
                             \/ \E h \in running' : unsaved(h)' /\ gor'[h].a.born = row'[i].born
        BY <1>2, <2>15
      <3> QED
        BY <1>1, <1>2, <2>6, <2>8, <2>14, <3>1, <3>2 DEF StaleByOne
    <2>17. ThirdIsLater'
      <3>1. \A p, q \in DOMAIN sent :
               p < q /\ sent[p].born = b /\ sent[q].born = b => t >= sent[p].at + Cooldown
        <4> SUFFICES ASSUME NEW p \in DOMAIN sent, NEW q \in DOMAIN sent,
                            p < q, sent[p].born = b, sent[q].born = b
                     PROVE  t >= sent[p].at + Cooldown
          OBVIOUS
        <4>1. sent[p].at <= gor[g].a.lastFired
          BY <2>1 DEF StaleByOne, KnowsButLast, b
        <4>2. gor[g].a.lastFired \in Int /\ sent[p].at \in 0..MaxTime
          BY <1>3, <1>5, AlertFields, TimesAreNumbers
        <4>3. gor[g].a.lastFired # Never
          BY <4>1, <4>2, EvaluatorAssumption DEF Never
        <4>4. t - gor[g].a.lastFired >= Cooldown
          BY <4>3 DEF AlertingInv, SavesWhatItSent, t
        <4> QED
          BY <1>4, <4>1, <4>2, <4>4, EvaluatorAssumption
      <3> SUFFICES ASSUME NEW p \in DOMAIN sent', NEW q \in DOMAIN sent', NEW r \in DOMAIN sent', p < q, q < r,
                          sent'[p].born = sent'[r].born, sent'[q].born = sent'[r].born
                   PROVE  sent'[r].at >= sent'[p].at + Cooldown
        BY DEF ThirdIsLater
      <3>2. p \in DOMAIN sent /\ q \in DOMAIN sent /\ (r \in DOMAIN sent \/ r = N + 1)
        BY <1>5, <1>8
      <3>3. CASE r \in DOMAIN sent
        BY <1>8, <2>1, <3>2, <3>3 DEF ThirdIsLater
      <3>4. CASE r = N + 1
        BY <1>8, <3>1, <3>2, <3>4
      <3> QED
        BY <3>2, <3>3, <3>4
    <2> QED
      BY <2>16, <2>17
  <1> QED
    BY <1>1, <1>9, <1>12, <1>14, <1>15, <1>16, <1>17 DEF AlertingInv

\* SendAlert fails, which is as if the evaluation had not tried, or delivers.
LEMMA EvalNotifyStep ==
    ASSUME AlertingInv, NEW g \in Gor, NEW delivered \in BOOLEAN, EvalNotify(g, delivered)
    PROVE  AlertingInv'
  <1>1. g \in running /\ gor[g] \in Evaluation /\ gor[g].pc = "notify" /\ gor[g] # None
    BY Typed DEF EvalNotify, at, running, AlertingInv
  <1>2. UNCHANGED <<now, row, snap, tickTime, inflight, born, faults>>
    BY DEF EvalNotify
  <1>3. /\ gor[g].at \in 0..now
        /\ gor[g].a.id \in live => row[gor[g].a.id].lastChecked <= gor[g].at /\ row[gor[g].a.id].lastFired <= gor[g].at
        /\ \A n \in DOMAIN sent : sent[n].born = gor[g].a.born => sent[n].at <= gor[g].at
    BY <1>1 DEF AlertingInv, TimesInOrder, working
  <1>4. Never \in Times /\ gor[g].at \in Times
    BY <1>1, TimesAreNumbers, EvaluationFields
  <1>5. CASE delivered
    <2> DEFINE e == [gor[g] EXCEPT !.pc = "save", !.firedAt = gor[g].at]
    <2>1. /\ e \in Evaluation /\ e.a = gor[g].a /\ e.at = gor[g].at /\ e.pc = "save"
          /\ e.firedAt = gor[g].at
      BY <1>1, <1>4 DEF Evaluation
    <2>2. gor' = [gor EXCEPT ![g] = e]
      BY <1>5 DEF EvalNotify
    <2>3. sent' = Append(sent, [id |-> gor[g].a.id, born |-> gor[g].a.born, at |-> gor[g].at])
      BY <1>5 DEF EvalNotify
    <2> HIDE DEF e
    <2> QED
      BY <1>1, <1>2, <2>1, <2>2, <2>3, DeliveredStep
  <1>6. CASE ~delivered
    <2> DEFINE e == [gor[g] EXCEPT !.pc = "save", !.firedAt = Never]
    <2>1. /\ e \in Evaluation /\ e.a = gor[g].a /\ e.at = gor[g].at /\ e.pc = "save"
          /\ e.firedAt = Never
      BY <1>1, <1>4 DEF Evaluation
    <2>2. gor' = [gor EXCEPT ![g] = e] /\ UNCHANGED sent
      BY <1>6 DEF EvalNotify
    <2>3. mayNotify(g) /\ faults \in 0..MaxFaults
      BY <1>1 DEF mayNotify, AlertingInv, TypeOK
    <2> HIDE DEF e
    <2> QED
      BY <1>1, <1>2, <1>3, <2>1, <2>2, <2>3, QuietAdvance
  <1> QED
    BY <1>5, <1>6

\* The row after UpdateEval: its times do not go back, and it knows what the
\* evaluation has sent.
LEMMA Updated ==
    ASSUME AlertingInv, NEW g \in running, gor[g].pc = "save", gor[g].a.id \in live
    PROVE  LET i == gor[g].a.id
               u == UpdateEval(gor[g])[i]
           IN /\ UpdateEval(gor[g]) \in [Ids -> Alert \cup {None}]
              /\ \A j \in Ids : j # i => UpdateEval(gor[g])[j] = row[j]
              /\ u \in Alert /\ u.id = row[i].id /\ u.born = row[i].born
              /\ u.lastChecked = gor[g].at /\ u.lastChecked >= row[i].lastChecked
              /\ u.lastFired >= row[i].lastFired
              /\ gor[g].firedAt = Never => u.lastFired = row[i].lastFired
              /\ gor[g].firedAt # Never => u.lastFired = gor[g].firedAt
  <1> DEFINE e == gor[g]
             i == e.a.id
             u == [row[i] EXCEPT !.firing = e.firing, !.lastChecked = e.at,
                                 !.lastFired = IF e.firedAt = Never THEN @ ELSE e.firedAt]
  <1>1. i \in Ids /\ row[i] \in Alert /\ e \in Evaluation /\ row \in [Ids -> Alert \cup {None}]
    BY Typed DEF AlertingInv, TypeOK
  <1>2. e.firing \in BOOLEAN /\ e.at \in Times /\ e.firedAt \in Times /\ row[i].lastFired \in Times
    BY <1>1, EvaluationFields, AlertFields
  <1>3. UpdateEval(e) = [row EXCEPT ![i] = u]
    BY DEF UpdateEval
  <1>4. u \in Alert
    <2> DEFINE f == IF e.firedAt = Never THEN row[i].lastFired ELSE e.firedAt
    <2>1. f \in Times
      BY <1>2
    <2>2. u = [row[i] EXCEPT !.firing = e.firing, !.lastChecked = e.at, !.lastFired = f]
      BY <1>1 DEF Alert
    <2> HIDE DEF f
    <2>3. [row[i] EXCEPT !.firing = e.firing, !.lastChecked = e.at, !.lastFired = f] \in Alert
      BY <1>1, <1>2, <2>1, Zenon DEF Alert
    <2> QED
      BY <2>2, <2>3
  <1>5. /\ u.id = row[i].id /\ u.born = row[i].born /\ u.lastChecked = e.at
        /\ e.firedAt = Never => u.lastFired = row[i].lastFired
        /\ e.firedAt # Never => u.lastFired = e.firedAt
    BY <1>1 DEF Alert
  <1>6. row[i].lastChecked <= e.at /\ row[i].lastFired <= e.at /\ (e.firedAt # Never => e.firedAt = e.at)
    BY DEF AlertingInv, TimesInOrder, working, SavesWhatItSent
  <1>7. row[i].lastChecked \in Int /\ row[i].lastFired \in Int /\ e.at \in Int
    BY <1>1, <1>2, AlertFields, TimesAreNumbers
  <1> HIDE DEF u, e, i
  <1>8. u.lastChecked >= row[i].lastChecked /\ u.lastFired >= row[i].lastFired
    BY <1>5, <1>6, <1>7
  <1>9. /\ UpdateEval(e) \in [Ids -> Alert \cup {None}] /\ UpdateEval(e)[i] = u
        /\ \A j \in Ids : j # i => UpdateEval(e)[j] = row[j]
    BY <1>1, <1>3, <1>4
  <1> QED
    BY <1>4, <1>5, <1>8, <1>9 DEF e, i

\* The evaluation saves: the table then knows of every notification again.
LEMMA EvalSaveStep ==
    ASSUME AlertingInv, NEW g \in Gor, EvalSave(g)
    PROVE  AlertingInv'
  <1> DEFINE e == [gor[g] EXCEPT !.pc = "exit"]
             i == gor[g].a.id
  <1>1. g \in running /\ gor[g] \in Evaluation /\ gor[g].pc = "save" /\ gor[g] # None
    BY Typed DEF EvalSave, at, running, AlertingInv
  <1>2. e \in Evaluation /\ e.a = gor[g].a /\ e.pc = "exit"
    BY <1>1 DEF Evaluation
  <1>3. gor' = [gor EXCEPT ![g] = e] /\ UNCHANGED <<now, snap, tickTime, inflight, born, sent>>
    BY DEF EvalSave
  <1> HIDE DEF e
  <1>4. CASE faults' = faults + 1 /\ faults < MaxFaults /\ UNCHANGED row
    <2>1. faults' \in 0..MaxFaults /\ faults' # 0
      BY <1>4, EvaluatorAssumption DEF AlertingInv, TypeOK
    <2> QED
      BY <1>1, <1>2, <1>3, <1>4, <2>1, QuietAdvance
  <1>5. CASE row' = (IF i \in live THEN UpdateEval(gor[g]) ELSE row) /\ UNCHANGED faults
    <2>1. /\ gor' \in [Gor -> Evaluation \cup {None}]
          /\ running' = running /\ g \in running'
          /\ gor'[g] = e /\ \A h \in running : h # g => gor'[h] = gor[h]
          /\ \A h \in running : gor'[h].a = gor[h].a
          /\ OneEvaluationPerAlert'
      BY <1>1, <1>2, <1>3, Advance
    <2>2. i \in Ids /\ gor[g].a.born \in 1..MaxBorn
      BY <1>1, Typed DEF AlertingInv
    <2>3. \A j \in live : row[j] \in Alert /\ row[j] # None /\ j \in Ids
      BY Typed DEF AlertingInv
    <2>4. \A h \in running : h # g => gor[h].a.id # i
      BY <1>1 DEF AlertingInv, OneEvaluationPerAlert
    <2>5. row \in [Ids -> Alert \cup {None}]
      BY DEF AlertingInv, TypeOK
    <2> HIDE DEF i
    <2>6. /\ row' \in [Ids -> Alert \cup {None}]
          /\ \A j \in Ids : j # i => row'[j] = row[j]
          /\ i \notin live => row' = row
          /\ i \in live => /\ row'[i] \in Alert /\ row'[i].id = row[i].id /\ row'[i].born = row[i].born
                           /\ row'[i].lastChecked = gor[g].at
                           /\ row'[i].lastFired >= row[i].lastFired
                           /\ gor[g].firedAt = Never => row'[i].lastFired = row[i].lastFired
                           /\ gor[g].firedAt # Never => row'[i].lastFired = gor[g].firedAt
      <3>1. CASE i \notin live
        BY <1>5, <2>5, <3>1
      <3>2. CASE i \in live
        <4>1. row' = UpdateEval(gor[g])
          BY <1>5, <3>2
        <4> QED
          BY <1>1, <3>2, <4>1, Updated DEF i
      <3> QED
        BY <3>1, <3>2
    <2>7. live' = live
      <3>1. i \in live => row'[i] # None
        BY <2>6, EvaluatorAssumption
      <3> QED
        BY <2>6, <3>1 DEF live
    <2>8. \A j \in live : /\ j \in Ids /\ row'[j].id = row[j].id /\ row'[j].born = row[j].born
                          /\ j # i => row'[j] = row[j]
      BY <2>3, <2>6
    <2>9. TypeOK'
      BY <1>3, <1>5, <2>1, <2>6 DEF AlertingInv, TypeOK
    <2>10. \A j \in Ids, b \in 1..MaxBorn : Known(j, b)' => Known(j, b)
      BY <1>3, <2>1, <2>7, <2>8 DEF Known
    <2>11. OneIdPerAlert'
      BY <1>3, <2>7, <2>8, <2>10 DEF AlertingInv, OneIdPerAlert
    <2>12. /\ gor[g].at \in 0..now
           /\ gor[g].firedAt # Never =>
                 /\ gor[g].firedAt = gor[g].at
                 /\ \E n \in DOMAIN sent : sent[n].id = i /\ sent[n].at = gor[g].firedAt
           /\ \A n \in DOMAIN sent : sent[n].born = gor[g].a.born => sent[n].at <= gor[g].at
      BY <1>1 DEF AlertingInv, TimesInOrder, SavesWhatItSent, working, i
    <2>13. TimesInOrder'
      <3>1. i \in live => row'[i].lastChecked <= now /\ row'[i].lastFired <= now
        BY <2>6, <2>12 DEF AlertingInv, TimesInOrder
      <3>2. \A j \in live' : row'[j].lastChecked <= now /\ row'[j].lastFired <= now
        BY <2>7, <2>8, <3>1 DEF AlertingInv, TimesInOrder
      <3>3. \A h \in running' : working(h)' => h # g /\ h \in running /\ gor'[h] = gor[h] /\ working(h)
        BY <1>2, <2>1 DEF working
      <3>4. \A h \in running' : working(h)' /\ gor'[h].a.id \in live' => row'[gor'[h].a.id] = row[gor[h].a.id]
        BY <2>4, <2>7, <2>8, <3>3
      <3>5. ASSUME NEW h \in running', working(h)'
            PROVE  /\ gor'[h].at \in 0..now
                   /\ gor'[h].a.id \in live' =>
                         /\ row'[gor'[h].a.id].lastChecked <= gor'[h].at
                         /\ row'[gor'[h].a.id].lastFired <= gor'[h].at
                   /\ \A n \in DOMAIN sent : sent[n].born = gor'[h].a.born => sent[n].at <= gor'[h].at
        BY <2>7, <3>3, <3>4, <3>5 DEF AlertingInv, TimesInOrder
      <3> QED
        BY <1>3, <3>2, <3>5 DEF AlertingInv, TimesInOrder
    <2>14. SavesWhatItSent'
      BY <1>2, <1>3, <2>1 DEF AlertingInv, SavesWhatItSent
    <2>15. FiredMeansDelivered'
      <3>1. i \in live /\ row'[i].lastFired # Never =>
               \E n \in DOMAIN sent : sent[n].id = i /\ sent[n].at = row'[i].lastFired
        BY <2>6, <2>12 DEF AlertingInv, FiredMeansDelivered
      <3> QED
        BY <1>3, <2>7, <2>8, <3>1 DEF AlertingInv, FiredMeansDelivered
    <2>16. ASSUME faults' = 0 PROVE StaleByOne' /\ ThirdIsLater'
      <3>1. StaleByOne /\ ThirdIsLater
        BY <1>5, <2>16 DEF AlertingInv
      <3>2. \A h \in running' : mayNotify(h)' => h # g /\ h \in running /\ gor'[h] = gor[h] /\ mayNotify(h)
        BY <1>2, <2>1 DEF mayNotify
      <3>3. \A h \in running : h # g /\ unsaved(h) => h \in running' /\ unsaved(h)' /\ gor'[h] = gor[h]
        BY <2>1 DEF unsaved
      <3>4. \A n \in DOMAIN sent : sent[n].at \in Int
        BY SentTyped DEF AlertingInv
      <3>5. \A j \in live : row[j].lastFired \in Int /\ row'[j].lastFired \in Int /\ row'[j].lastFired >= row[j].lastFired
        BY <2>3, <2>6, <2>8, AlertFields, TimesAreNumbers
      <3>6. \A j \in live : KnowsButLast(row[j])'
        <4> SUFFICES ASSUME NEW j \in live PROVE KnowsButLast(row[j])'
          OBVIOUS
        <4>1. KnowsButLast(row[j])
          BY <3>1 DEF StaleByOne
        <4> QED
          BY <1>3, <2>8, <3>4, <3>5, <4>1 DEF KnowsButLast
      <3>7. ASSUME NEW j \in live, KnowsAll(row[j]) PROVE KnowsAll(row[j])'
        BY <1>3, <2>8, <3>4, <3>5, <3>7 DEF KnowsAll
      <3>8. ASSUME NEW j \in live, NEW h \in running, unsaved(h), gor[h].a.born = row[j].born
            PROVE  \/ KnowsAll(row[j])'
                   \/ \E k \in running' : unsaved(k)' /\ gor'[k].a.born = row'[j].born
        <4>1. CASE h # g
          BY <2>8, <3>3, <3>8, <4>1
        <4>2. CASE h = g
          <5>1. Known(i, gor[g].a.born) /\ Known(j, gor[g].a.born)
            BY <1>1, <3>8, <4>2 DEF Known, i
          <5>2. j = i
            BY <2>2, <2>3, <5>1 DEF AlertingInv, OneIdPerAlert
          <5>3. row'[j].lastFired = gor[g].at /\ row'[j].born = gor[g].a.born
            BY <2>6, <2>12, <3>8, <4>2, <5>2 DEF unsaved
          <5> QED
            BY <1>3, <2>12, <5>3 DEF KnowsAll
        <4> QED
          BY <4>1, <4>2
      <3>9. \A j \in live : \/ KnowsAll(row[j])'
                            \/ \E k \in running' : unsaved(k)' /\ gor'[k].a.born = row'[j].born
        BY <3>1, <3>7, <3>8 DEF StaleByOne
      <3>10. \A a \in snap : KnowsButLast(a)'
        BY <1>3, <3>1 DEF StaleByOne, KnowsButLast
      <3>11. \A a \in snap, h \in running' : mayNotify(h)' /\ gor'[h].a.born = a.born => KnowsAll(a)'
        BY <1>3, <3>1, <3>2 DEF StaleByOne, KnowsAll
      <3>12. \A h \in running' : mayNotify(h)' => KnowsButLast(gor[h].a)'
        BY <1>3, <3>1, <3>2 DEF StaleByOne, KnowsButLast
      <3>13. StaleByOne'
        BY <1>3, <2>7, <3>6, <3>9, <3>10, <3>11, <3>12 DEF StaleByOne
      <3>14. ThirdIsLater'
        BY <1>3, <3>1 DEF ThirdIsLater
      <3> QED
        BY <3>13, <3>14
    <2> QED
      BY <2>1, <2>9, <2>11, <2>13, <2>14, <2>15, <2>16 DEF AlertingInv
  <1> QED
    BY <1>4, <1>5 DEF EvalSave

\* The goroutine ends, and its alert may be evaluated again.
LEMMA EvalExitStep ==
    ASSUME AlertingInv, NEW g \in Gor, EvalExit(g)
    PROVE  AlertingInv'
  <1>1. g \in running /\ gor[g].pc = "exit"
    BY DEF EvalExit, at, running
  <1>2. /\ inflight' = inflight \ {gor[g].a.id} /\ gor' = [gor EXCEPT ![g] = None]
        /\ UNCHANGED <<now, row, snap, tickTime, born, sent, faults>>
    BY DEF EvalExit
  <1>3. gor \in [Gor -> Evaluation \cup {None}]
    BY DEF AlertingInv, TypeOK
  <1>4. /\ gor' \in [Gor -> Evaluation \cup {None}]
        /\ running' = running \ {g} /\ \A h \in running' : gor'[h] = gor[h]
    BY <1>2, <1>3 DEF running
  <1>5. live' = live
    BY <1>2 DEF live
  <1>6. TypeOK' /\ OneEvaluationPerAlert'
    BY <1>1, <1>2, <1>4 DEF AlertingInv, TypeOK, OneEvaluationPerAlert
  <1>7. \A j \in Ids, b \in 1..MaxBorn : Known(j, b)' => Known(j, b)
    BY <1>2, <1>4, <1>5 DEF Known
  <1>8. OneIdPerAlert'
    BY <1>2, <1>5, <1>7 DEF AlertingInv, OneIdPerAlert
  <1>9. TimesInOrder' /\ SavesWhatItSent' /\ FiredMeansDelivered'
    BY <1>2, <1>4, <1>5 DEF AlertingInv, TimesInOrder, working, SavesWhatItSent, FiredMeansDelivered
  <1>10. ~unsaved(g)
    BY <1>1 DEF unsaved
  <1>11. faults' = 0 => StaleByOne' /\ ThirdIsLater'
    BY <1>2, <1>4, <1>5, <1>10
    DEF AlertingInv, StaleByOne, KnowsAll, KnowsButLast, mayNotify, unsaved, ThirdIsLater
  <1> QED
    BY <1>6, <1>8, <1>9, <1>11 DEF AlertingInv

\* A step leaves the invariant as it is.
LEMMA AlertingStep == AlertingInv /\ [Next]_vars => AlertingInv'
  <1> SUFFICES ASSUME AlertingInv, [Next]_vars PROVE AlertingInv'
    OBVIOUS
  <1>1. CASE UNCHANGED vars
    <2>1. live' = live /\ running' = running
      BY <1>1 DEF vars, live, running
    <2>2. TypeOK' /\ OneEvaluationPerAlert' /\ OneIdPerAlert'
      BY <1>1, <2>1 DEF vars, AlertingInv, TypeOK, OneEvaluationPerAlert, OneIdPerAlert, Known
    <2>3. TimesInOrder' /\ SavesWhatItSent' /\ FiredMeansDelivered'
      BY <1>1, <2>1 DEF vars, AlertingInv, TimesInOrder, working, SavesWhatItSent, FiredMeansDelivered
    <2>4. faults' = 0 => StaleByOne' /\ ThirdIsLater'
      BY <1>1, <2>1 DEF vars, AlertingInv, StaleByOne, KnowsAll, KnowsButLast, mayNotify, unsaved, ThirdIsLater
    <2> QED
      BY <2>2, <2>3, <2>4 DEF AlertingInv
  <1>2. CASE Users
    BY <1>2, CreateStep, UpdateStep, DeleteStep DEF Users
  <1>3. CASE tick
    BY <1>3, TickListStep, TickVisitStep DEF tick
  <1>4. ASSUME NEW g \in Gor, evaluate(g) PROVE AlertingInv'
    BY <1>4, EvalStartStep, EvalQueryStep, EvalNotifyStep, EvalSaveStep, EvalPanicStep, EvalExitStep
    DEF evaluate
  <1> QED
    BY <1>1, <1>2, <1>3, <1>4, RestartStep, ClockStep DEF Next

-----------------------------------------------------------------------------
(* The properties, for every value of the constants *)

\* The inductive invariant holds in every state of the evaluator.
THEOREM AlertingInvariant == Spec => []AlertingInv
  BY AlertingInit, AlertingStep, PTL DEF Spec

\* One evaluation per alert, marked in flight while it runs and only then; a
\* cooldown starts with a delivered notification and only then.
THEOREM EvaluatorConsistent == Spec => []EvaluatorInv
  <1>1. AlertingInv => EvaluatorInv
    BY DEF AlertingInv, EvaluatorInv
  <1> QED
    BY <1>1, AlertingInvariant, PTL

\* No save, however late, moves the times of a row back.
LEMMA TimesStep ==
    ASSUME AlertingInv, Next, NEW i \in live, row'[i] # None, row'[i].born = row[i].born
    PROVE  row'[i].lastFired >= row[i].lastFired /\ row'[i].lastChecked >= row[i].lastChecked
  <1>1. i \in Ids /\ row[i] \in Alert /\ row \in [Ids -> Alert \cup {None}]
    BY Typed DEF AlertingInv, TypeOK
  <1>2. row[i].lastFired \in Int /\ row[i].lastChecked \in Int /\ row[i].born \in 1..MaxBorn
    BY <1>1, AlertFields, TimesAreNumbers
  <1>3. CASE UNCHANGED row
    BY <1>2, <1>3
  <1>4. ASSUME NEW enabled \in BOOLEAN, Create(enabled) PROVE row'[i] = row[i]
    <2>1. PICK id \in Ids :
             row' = [row EXCEPT ![id] = [id |-> id, born |-> born + 1, enabled |-> enabled,
                                         lastChecked |-> Never, lastFired |-> Never, firing |-> FALSE]]
      BY <1>4 DEF Create
    <2>2. row[i].born <= born /\ born \in Nat
      BY <1>1, <1>2 DEF AlertingInv, TypeOK, OneIdPerAlert, Known
    <2> QED
      BY <1>1, <1>2, <2>1, <2>2
  <1>5. ASSUME NEW j \in live, NEW enabled \in BOOLEAN, Update(j, enabled)
        PROVE  row'[i].lastFired = row[i].lastFired /\ row'[i].lastChecked = row[i].lastChecked
    BY <1>1, <1>5 DEF Update, Alert
  <1>6. ASSUME NEW j \in live, Delete(j) PROVE row'[i] = row[i]
    BY <1>1, <1>6 DEF Delete
  <1>7. ASSUME NEW g \in Gor, EvalSave(g)
        PROVE  row'[i].lastFired >= row[i].lastFired /\ row'[i].lastChecked >= row[i].lastChecked
    <2>1. g \in running /\ gor[g].pc = "save"
      BY <1>7 DEF EvalSave, at, running
    <2>2. CASE gor[g].a.id \in live /\ row' = UpdateEval(gor[g])
      <3>1. gor[g].a.id \in Ids
        BY <2>1, Typed DEF AlertingInv
      <3>2. CASE i = gor[g].a.id
        BY <2>1, <2>2, <3>2, Updated
      <3>3. CASE i # gor[g].a.id
        <4>1. row'[i] = row[i]
          BY <1>1, <2>1, <2>2, <3>3, Updated
        <4> QED
          BY <1>2, <4>1
      <3> QED
        BY <3>2, <3>3
    <2> QED
      BY <1>3, <1>7, <2>2 DEF EvalSave
  <1>8. CASE Users
    BY <1>2, <1>4, <1>5, <1>6, <1>8 DEF Users
  <1>9. CASE tick
    BY <1>3, <1>9 DEF tick, TickList, TickVisit
  <1>10. ASSUME NEW g \in Gor, evaluate(g)
         PROVE  row'[i].lastFired >= row[i].lastFired /\ row'[i].lastChecked >= row[i].lastChecked
    BY <1>3, <1>7, <1>10 DEF evaluate, EvalStart, EvalQuery, EvalNotify, EvalPanic, EvalExit
  <1> QED
    BY <1>3, <1>8, <1>9, <1>10 DEF Next, Restart, Clock

\* last_fired_at and last_checked_at of an alert never go back.
THEOREM TimesNeverGoBack == Spec => EvalTimesMonotone
  <1>1. AlertingInv /\ [Next]_vars =>
           [\A i \in live :
               row'[i] # None /\ row'[i].born = row[i].born =>
                  /\ row'[i].lastFired >= row[i].lastFired
                  /\ row'[i].lastChecked >= row[i].lastChecked]_vars
    BY TimesStep
  <1> QED
    BY <1>1, AlertingInvariant, PTL DEF Spec, EvalTimesMonotone

\* Without faults the third notification of an alert comes a cooldown after
\* the first at the earliest: a stale list costs one duplicate, never two.
THEOREM DuplicatesAtMostOnce == Spec => []AtMostOneDuplicate
  <1>1. AlertingInv => AtMostOneDuplicate
    <2> SUFFICES ASSUME AlertingInv, faults = 0, NEW n \in DOMAIN sent
                 PROVE  Cardinality(within(n)) <= 2
      BY DEF AtMostOneDuplicate
    <2>1. DOMAIN sent \subseteq Nat /\ \A m \in DOMAIN sent : sent[m].at \in Int
      BY SentTyped DEF AlertingInv
    <2>2. ThirdIsLater
      BY DEF AlertingInv
    <2>3. \A q, r \in within(n) : q # n /\ r # n => q = r
      <3> SUFFICES ASSUME NEW q \in within(n), NEW r \in within(n), q # n, r # n, q < r PROVE FALSE
        BY <2>1 DEF within
      <3>1. n < q /\ sent[r].at >= sent[n].at + Cooldown
        BY <2>1, <2>2 DEF within, ThirdIsLater
      <3> QED
        BY <2>1, <3>1, EvaluatorAssumption DEF within
    <2>4. PICK q : within(n) \subseteq {n, q}
      BY <2>3
    <2>5. IsFiniteSet({n, q}) /\ Cardinality({n, q}) <= 2
      <3>1. IsFiniteSet({n}) /\ Cardinality({n}) = 1
        BY FS_Singleton
      <3>2. IsFiniteSet({n} \cup {q}) /\ Cardinality({n} \cup {q}) <= 2
        BY <3>1, FS_AddElement
      <3>3. {n} \cup {q} = {n, q}
        OBVIOUS
      <3> QED
        BY <3>2, <3>3
    <2>6. Cardinality(within(n)) <= Cardinality({n, q})
      BY <2>4, <2>5, FS_Subset
    <2>7. IsFiniteSet(within(n)) /\ Cardinality(within(n)) \in Nat /\ Cardinality({n, q}) \in Nat
      BY <2>4, <2>5, FS_Subset, FS_CardinalityType
    <2> QED
      BY <2>5, <2>6, <2>7
  <1> QED
    BY <1>1, AlertingInvariant, PTL

=============================================================================
