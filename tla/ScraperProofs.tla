--------------------------- MODULE ScraperProofs ---------------------------
(***************************************************************************)
(* Proofs about the scraper, for any number of requests, targets, failing  *)
(* statements, panics and restarts.  ScrapingInv is the inductive          *)
(* invariant: what ScraperInv says of the goroutines, how the list of a    *)
(* tick relates to the rows it was read from, and what EnsureSelfScrape    *)
(* left behind.                                                            *)
(***************************************************************************)
EXTENDS Scraper, WellFoundedInduction, TLAPS

\* The counters are within their bounds: a boot creates at most one target.
Counted ==
    /\ booting \in BOOLEAN /\ ensured \in BOOLEAN
    /\ mishaps \in 0 .. MaxMishaps
    /\ key \in 1 .. mishaps + 1 /\ secret \in 1 .. mishaps + 1
    /\ born \in Nat
    /\ booting => born <= MaxAdded + mishaps
    /\ born <= MaxAdded + mishaps + 1

\* Every row has its type, and no id is beyond the number of rows ever made.
RowsTyped ==
    /\ DOMAIN rows \subseteq 1 .. born
    /\ \A i \in DOMAIN rows : rows[i] \in Target /\ rows[i].id = i

\* A request that has read the list holds the value to be stored.
TogglesTyped ==
    /\ DOMAIN toggle = Requests
    /\ \A r \in Requests : toggle[r] # Idle => toggle[r].enabled \in BOOLEAN

OneGoroutineEach ==
    /\ inflight = {g.id : g \in gor}
    /\ \A g, h \in gor : g.id = h.id => g = h

\* A tick's list names a row once, and names none that was already scraped
\* since it was disabled.
ListNamesOnce ==
    /\ \A l, m \in listed : l.id = m.id => l = m
    /\ \A i \in DOMAIN rows :
          /\ rows[i].after <= 1
          /\ rows[i].after = 1 =>
                /\ ~rows[i].enabled
                /\ \A l \in listed : ~(l.id = i /\ l.born = rows[i].born)

\* Once a boot has refreshed the self targets, each has the current secret.
SelfRefreshed ==
    /\ ensured => ~booting
    /\ ensured => \A i \in DOMAIN rows :
                     rows[i].self /\ ~rows[i].mine => rows[i].token = secret
    /\ \A l \in listed : ~l.refused
    /\ \A g \in gor : ~g.refused

ScrapingInv ==
    Counted /\ RowsTyped /\ TogglesTyped /\ OneGoroutineEach /\ ListNamesOnce /\ SelfRefreshed

-----------------------------------------------------------------------------
(* The next row id *)

\* A nonempty set of natural numbers has a least element.
LEMMA LeastNat ==
    ASSUME NEW T, T \subseteq Nat, T # {}
    PROVE  \E x \in T : \A y \in T : x <= y
  <1> DEFINE R == OpToRel(<, Nat)
  <1>1. IsWellFoundedOn(R, Nat)
    BY NatLessThanWellFounded
  <1>2. \E x \in T : \A y \in T : ~ (<<y, x>> \in R)
    <2> HIDE DEF R
    <2> QED
      BY <1>1, WFMin
  <1>3. \A x, y \in Nat : x < y => <<x, y>> \in R
    BY DEF OpToRel
  <1>4. \E Q : /\ \E x \in T : \A y \in T : ~ (<<y, x>> \in Q)
               /\ \A x, y \in Nat : x < y => <<x, y>> \in Q
    BY <1>2, <1>3, Zenon
  <1>5. PICK x \in T : \A y \in T : ~ (y < x)
    BY <1>4
  <1> QED
    BY <1>5

\* Max of a nonempty set of numbers up to b is one of them.
LEMMA MaxInSet ==
    ASSUME NEW b \in Nat, NEW S, S \subseteq 1 .. b, S # {}
    PROVE  Max(S) \in S /\ \A y \in S : y <= Max(S)
  <1> DEFINE D == {b - x : x \in S}
  <1>1. D \subseteq Nat /\ D # {}
    <2>1. PICK z : z \in S
      OBVIOUS
    <2>2. b - z \in D
      BY <2>1
    <2> QED
      BY <2>2
  <1>2. PICK d \in D : \A e \in D : d <= e
    BY <1>1, LeastNat
  <1>3. PICK x \in S : d = b - x
    OBVIOUS
  <1>4. \A y \in S : b - x <= b - y
    BY <1>2, <1>3
  <1>5. \A y \in S : x >= y
    BY <1>4
  <1> QED
    BY <1>5 DEF Max

\* The id of a new row is free, and at most the number of rows then made.
LEMMA NextRowIdIsFree ==
    ASSUME ScrapingInv
    PROVE  nextRowId \in 1 .. born + 1 /\ nextRowId \notin DOMAIN rows
  <1>1. CASE DOMAIN rows = {}
    BY <1>1 DEF nextRowId, ScrapingInv, Counted
  <1>2. CASE DOMAIN rows # {}
    <2> DEFINE S == DOMAIN rows
               m == Max(S)
    <2>1. S \subseteq 1 .. born /\ born \in Nat /\ S # {}
      BY <1>2 DEF ScrapingInv, Counted, RowsTyped
    <2>2. m \in S /\ \A y \in S : y <= m
      <3> HIDE DEF S
      <3> QED
        BY <2>1, MaxInSet
    <2>3. nextRowId = m + 1
      BY <1>2 DEF nextRowId
    <2> HIDE DEF m
    <2> QED
      BY <2>1, <2>2, <2>3
  <1> QED
    BY <1>1, <1>2

-----------------------------------------------------------------------------
(* Each action preserves the invariant *)

\* The first boot.
LEMMA ScrapingInit == Init => ScrapingInv
  <1> SUFFICES ASSUME Init PROVE ScrapingInv
    OBVIOUS
  <1>0. DOMAIN rows = {}
    BY DEF Init
  <1>1. Counted
    <2>1. booting \in BOOLEAN /\ ensured \in BOOLEAN
      BY Zenon DEF Init
    <2> QED
      BY <2>1, ScraperAssumption DEF Init, Counted
  <1>2. RowsTyped
    BY <1>0 DEF RowsTyped
  <1>3. TogglesTyped
    BY DEF Init, TogglesTyped, Idle
  <1>4. OneGoroutineEach
    BY DEF Init, OneGoroutineEach
  <1>5. ListNamesOnce
    BY <1>0 DEF Init, ListNamesOnce
  <1>6. SelfRefreshed
    BY <1>0 DEF Init, SelfRefreshed
  <1> QED
    BY <1>1, <1>2, <1>3, <1>4, <1>5, <1>6 DEF ScrapingInv

\* A new row is due, enabled and in no list yet.
LEMMA InsertStep ==
    ASSUME ScrapingInv,
           NEW self \in BOOLEAN, NEW mine \in BOOLEAN, NEW auth \in {0, key}, NEW token \in {0, secret},
           born <= MaxAdded + mishaps, Insert(self, mine, auth, token),
           self /\ ~mine => token = secret,
           UNCHANGED <<secret, listed>>
    PROVE  /\ RowsTyped' /\ ListNamesOnce'
           /\ (\A i \in DOMAIN rows : rows[i].self /\ ~rows[i].mine => rows[i].token = secret) =>
              (\A i \in DOMAIN rows : rows[i].self /\ ~rows[i].mine => rows[i].token = secret)'
  <1> DEFINE n == nextRowId
             new == [id |-> n, born |-> born + 1, self |-> self, mine |-> mine, auth |-> auth,
                     token |-> token, enabled |-> TRUE, scraped |-> "due", after |-> 0]
  <1>1. n \in 1 .. born + 1 /\ n \notin DOMAIN rows
    BY NextRowIdIsFree
  <1>2. born + 1 \in 1 .. MaxBorn /\ n \in Ids
    BY <1>1, ScraperAssumption DEF ScrapingInv, Counted, MaxBorn, Ids
  <1>3. auth \in {0} \cup Generations /\ token \in {0} \cup Generations
    BY ScraperAssumption DEF ScrapingInv, Counted, Generations
  <1>4. new \in Target
    <2> HIDE DEF n
    <2> QED
      BY <1>2, <1>3 DEF Target
  <1>5. /\ DOMAIN rows' = DOMAIN rows \cup {n}
        /\ rows'[n] = new
        /\ \A i \in DOMAIN rows : rows'[i] = rows[i]
    <2> HIDE DEF n
    <2>1. rows' = [i \in DOMAIN rows \cup {n} |->
                     IF i # n THEN rows[i]
                     ELSE [id |-> i, born |-> born + 1, self |-> self, mine |-> mine, auth |-> auth,
                           token |-> token, enabled |-> TRUE, scraped |-> "due", after |-> 0]]
      BY DEF Insert, n
    <2> QED
      BY <1>1, <2>1
  <1>6. new.id = n /\ new.after = 0 /\ new.self = self /\ new.mine = mine /\ new.token = token
    OBVIOUS
  <1>7. born' = born + 1 /\ born \in Nat
    BY DEF Insert, ScrapingInv, Counted
  <1> HIDE DEF n, new
  <1>8. RowsTyped'
    BY <1>1, <1>4, <1>5, <1>6, <1>7 DEF ScrapingInv, RowsTyped
  <1>9. ListNamesOnce'
    BY <1>5, <1>6 DEF ScrapingInv, ListNamesOnce
  <1> QED
    BY <1>5, <1>6, <1>8, <1>9
\* A user adds a target.
LEMMA CreateStep == ScrapingInv /\ Create => ScrapingInv'
  <1> SUFFICES ASSUME ScrapingInv, Create PROVE ScrapingInv'
    OBVIOUS
  <1>1. PICK self \in BOOLEAN, auth \in {0, key} : Insert(self, TRUE, auth, 0)
    BY DEF Create
  <1>2. born <= MaxAdded + mishaps
    BY ScraperAssumption DEF Create, ScrapingInv, Counted
  <1>3. UNCHANGED <<key, secret, ensured, booting, listed, inflight, gor, toggle, mishaps>>
    BY DEF Create
  <1>4. /\ RowsTyped' /\ ListNamesOnce'
        /\ (\A i \in DOMAIN rows : rows[i].self /\ ~rows[i].mine => rows[i].token = secret) =>
           (\A i \in DOMAIN rows : rows[i].self /\ ~rows[i].mine => rows[i].token = secret)'
    BY <1>1, <1>2, <1>3, InsertStep
  <1>5. Counted'
    BY <1>1, <1>2, <1>3, ScraperAssumption DEF Create, Insert, ScrapingInv, Counted
  <1>6. TogglesTyped' /\ OneGoroutineEach'
    BY <1>3 DEF ScrapingInv, TogglesTyped, OneGoroutineEach
  <1>7. SelfRefreshed'
    BY <1>3, <1>4 DEF ScrapingInv, SelfRefreshed
  <1> QED
    BY <1>4, <1>5, <1>6, <1>7 DEF ScrapingInv

\* A boot leaves every self target with the current secret, or fails.
LEMMA EnsureStep == ScrapingInv /\ EnsureSelfScrape => ScrapingInv'
  <1> SUFFICES ASSUME ScrapingInv, EnsureSelfScrape PROVE ScrapingInv'
    OBVIOUS
  <1>1. booting /\ ~booting' /\ booting' \in BOOLEAN
    BY Zenon DEF EnsureSelfScrape
  <1>2. UNCHANGED <<key, secret, listed, inflight, gor, toggle>>
    BY DEF EnsureSelfScrape
  <1>3. TogglesTyped' /\ OneGoroutineEach'
    BY <1>2 DEF ScrapingInv, TogglesTyped, OneGoroutineEach
  <1>4. born <= MaxAdded + mishaps /\ born \in Nat /\ key \in Nat /\ secret \in Nat /\ ~ensured
    BY <1>1 DEF ScrapingInv, Counted, SelfRefreshed
  <1>5. key \in Generations /\ secret \in Generations
    BY ScraperAssumption DEF ScrapingInv, Counted, Generations
  <1>6. CASE Mishap /\ UNCHANGED <<ensured, rows, born>>
    <2>1. Counted'
      BY <1>1, <1>2, <1>6, ScraperAssumption DEF Mishap, ScrapingInv, Counted
    <2>2. RowsTyped' /\ ListNamesOnce' /\ SelfRefreshed'
      BY <1>1, <1>2, <1>6, <1>4 DEF ScrapingInv, RowsTyped, ListNamesOnce, SelfRefreshed
    <2> QED
      BY <1>3, <2>1, <2>2 DEF ScrapingInv
  <1>7. CASE ensured' = TRUE /\ UNCHANGED <<mishaps, born>>
             /\ rows' = [i \in DOMAIN rows |->
                           IF rows[i].self THEN [rows[i] EXCEPT !.auth = key, !.token = secret,
                                                                !.mine = FALSE]
                           ELSE rows[i]]
    <2>1. Counted'
      <3>1. ensured' \in BOOLEAN
        BY <1>7, Zenon
      <3> QED
        BY <1>1, <1>2, <1>7, <3>1, ScraperAssumption DEF ScrapingInv, Counted
    <2> DEFINE refreshed(t) == [t EXCEPT !.auth = key, !.token = secret, !.mine = FALSE]
    <2>2. ASSUME NEW t \in Target
          PROVE  LET u == refreshed(t)
                 IN /\ u \in Target /\ u.id = t.id /\ u.born = t.born /\ u.after = t.after
                    /\ (u.enabled <=> t.enabled) /\ u.token = secret
      BY <1>5 DEF Target
    <2>3. /\ DOMAIN rows' = DOMAIN rows
          /\ \A i \in DOMAIN rows : rows'[i] = IF rows[i].self THEN refreshed(rows[i]) ELSE rows[i]
      BY <1>7
    <2> HIDE DEF refreshed
    <2>4. /\ DOMAIN rows' = DOMAIN rows
          /\ \A i \in DOMAIN rows :
                /\ rows'[i] \in Target /\ rows'[i].id = i /\ rows'[i].born = rows[i].born
                /\ rows'[i].after = rows[i].after /\ (rows'[i].enabled <=> rows[i].enabled)
                /\ rows'[i].self => rows'[i].token = secret
      BY <2>2, <2>3 DEF ScrapingInv, RowsTyped
    <2>5. RowsTyped'
      BY <1>7, <2>4 DEF ScrapingInv, RowsTyped
    <2>6. ListNamesOnce'
      BY <1>2, <2>4 DEF ScrapingInv, ListNamesOnce
    <2>7. SelfRefreshed'
      BY <1>1, <1>2, <2>4 DEF ScrapingInv, SelfRefreshed
    <2> QED
      BY <1>3, <2>1, <2>5, <2>6, <2>7 DEF ScrapingInv
  <1>8. CASE /\ ensured' = TRUE /\ UNCHANGED mishaps
             /\ ~ \E i \in DOMAIN rows : rows[i].self
             /\ Insert(TRUE, FALSE, key, secret)
    <2>1. Counted'
      <3>1. ensured' \in BOOLEAN
        BY <1>8, Zenon
      <3> QED
        BY <1>1, <1>2, <1>4, <1>8, <3>1, ScraperAssumption DEF Insert, ScrapingInv, Counted
    <2>2. /\ RowsTyped' /\ ListNamesOnce'
          /\ (\A i \in DOMAIN rows : rows[i].self /\ ~rows[i].mine => rows[i].token = secret) =>
             (\A i \in DOMAIN rows : rows[i].self /\ ~rows[i].mine => rows[i].token = secret)'
      BY <1>2, <1>4, <1>8, InsertStep
    <2>3. SelfRefreshed'
      BY <1>1, <1>2, <1>8, <2>2 DEF ScrapingInv, SelfRefreshed
    <2> QED
      BY <1>3, <2>1, <2>2, <2>3 DEF ScrapingInv
  <1> QED
    BY <1>6, <1>7, <1>8 DEF EnsureSelfScrape

\* The edits of the table that keep what a row is.
LEMMA EditStep ==
    ASSUME ScrapingInv,
           UNCHANGED <<key, secret, ensured, booting, listed, born>>,
           DOMAIN rows' \subseteq DOMAIN rows,
           \A i \in DOMAIN rows' :
              /\ rows'[i] \in Target /\ rows'[i].id = i
              /\ rows'[i].born = rows[i].born /\ (rows'[i].self <=> rows[i].self)
              /\ (rows'[i].mine <=> rows[i].mine) /\ rows'[i].token = rows[i].token
              /\ \/ rows'[i].after = 0
                 \/ rows'[i].after = rows[i].after /\ (rows'[i].enabled <=> rows[i].enabled),
           Counted', TogglesTyped', OneGoroutineEach', \A g \in gor' : ~g.refused
    PROVE  ScrapingInv'
  <1>1. RowsTyped'
    BY DEF ScrapingInv, RowsTyped
  <1>2. ListNamesOnce'
    BY DEF ScrapingInv, ListNamesOnce
  <1>3. SelfRefreshed'
    BY DEF ScrapingInv, SelfRefreshed
  <1> QED
    BY <1>1, <1>2, <1>3 DEF ScrapingInv

\* A target is deleted.
LEMMA DeleteStep ==
    ASSUME ScrapingInv, NEW i \in DOMAIN rows, Delete(i)
    PROVE  ScrapingInv'
  <1>1. DOMAIN rows' \subseteq DOMAIN rows /\ \A j \in DOMAIN rows' : rows'[j] = rows[j]
    BY DEF Delete, Restrict
  <1>2. Counted' /\ TogglesTyped' /\ OneGoroutineEach' /\ \A g \in gor' : ~g.refused
    BY DEF Delete, bounds, ScrapingInv, Counted, TogglesTyped, OneGoroutineEach, SelfRefreshed
  <1>3. \A j \in DOMAIN rows' : rows'[j] \in Target /\ rows'[j].id = j
    BY <1>1 DEF ScrapingInv, RowsTyped
  <1>4. UNCHANGED <<key, secret, ensured, booting, listed, born>>
    BY DEF Delete, bounds
  <1> QED
    BY <1>1, <1>2, <1>3, <1>4, EditStep

\* The interval of a target passes.
LEMMA IntervalStep ==
    ASSUME ScrapingInv, NEW i \in DOMAIN rows, IntervalPasses(i)
    PROVE  ScrapingInv'
  <1> DEFINE u == [rows[i] EXCEPT !.scraped = "due"]
  <1>1. \A j \in DOMAIN rows : rows[j] \in Target /\ rows[j].id = j
    BY DEF ScrapingInv, RowsTyped
  <1>2. /\ u \in Target /\ u.id = rows[i].id /\ u.born = rows[i].born /\ u.after = rows[i].after
        /\ (u.enabled <=> rows[i].enabled) /\ (u.self <=> rows[i].self) /\ (u.mine <=> rows[i].mine)
        /\ u.token = rows[i].token
    BY <1>1 DEF Target
  <1>3. /\ DOMAIN rows' = DOMAIN rows
        /\ \A j \in DOMAIN rows : rows'[j] = IF j = i THEN u ELSE rows[j]
    BY DEF IntervalPasses
  <1> HIDE DEF u
  <1>4. UNCHANGED <<key, secret, ensured, booting, listed, born>>
    BY DEF IntervalPasses, bounds
  <1>5. Counted' /\ TogglesTyped' /\ OneGoroutineEach' /\ \A g \in gor' : ~g.refused
    BY DEF IntervalPasses, bounds, ScrapingInv, Counted, TogglesTyped, OneGoroutineEach, SelfRefreshed
  <1>6. \A j \in DOMAIN rows' :
           /\ rows'[j] \in Target /\ rows'[j].id = j
           /\ rows'[j].born = rows[j].born /\ (rows'[j].self <=> rows[j].self)
           /\ (rows'[j].mine <=> rows[j].mine) /\ rows'[j].token = rows[j].token
           /\ rows'[j].after = rows[j].after /\ (rows'[j].enabled <=> rows[j].enabled)
    BY <1>1, <1>2, <1>3
  <1> QED
    BY <1>3, <1>4, <1>5, <1>6, EditStep

\* A request reads the list, and holds the opposite of what it read.
LEMMA ToggleReadStep ==
    ASSUME ScrapingInv, NEW r \in Requests, NEW i \in DOMAIN rows, toggleRead(r, i)
    PROVE  ScrapingInv'
  <1> DEFINE t == [step |-> "read", id |-> i, enabled |-> ~rows[i].enabled]
  <1>1. t.enabled \in BOOLEAN
    BY Zenon
  <1>2. toggle' = [toggle EXCEPT ![r] = t]
    BY DEF toggleRead
  <1> HIDE DEF t
  <1>3. TogglesTyped'
    BY <1>1, <1>2 DEF ScrapingInv, TogglesTyped
  <1>4. Counted' /\ RowsTyped' /\ OneGoroutineEach' /\ ListNamesOnce' /\ SelfRefreshed'
    BY DEF toggleRead, bounds, ScrapingInv, Counted, RowsTyped, OneGoroutineEach, ListNamesOnce, SelfRefreshed
  <1> QED
    BY <1>3, <1>4 DEF ScrapingInv

\* It stores what it holds: the history of the row starts anew.
LEMMA SetEnabledStep ==
    ASSUME ScrapingInv, NEW r \in Requests, SetEnabled(r)
    PROVE  ScrapingInv'
  <1> DEFINE i == toggle[r].id
             u == [rows[i] EXCEPT !.enabled = toggle[r].enabled, !.after = 0]
  <1>1. \A j \in DOMAIN rows : rows[j] \in Target /\ rows[j].id = j
    BY DEF ScrapingInv, RowsTyped
  <1>2. toggle[r].enabled \in BOOLEAN
    BY DEF SetEnabled, ScrapingInv, TogglesTyped
  <1>3. ASSUME i \in DOMAIN rows
        PROVE  /\ u \in Target /\ u.id = rows[i].id /\ u.born = rows[i].born /\ u.after = 0
               /\ (u.self <=> rows[i].self) /\ (u.mine <=> rows[i].mine) /\ u.token = rows[i].token
    <2>1. rows[i] \in Target /\ 0 \in 0 .. 2
      BY <1>1, <1>3
    <2>2. u \in Target
      BY <1>2, <2>1, Zenon DEF Target
    <2> QED
      BY <2>1, <2>2 DEF Target
  <1>4. /\ DOMAIN rows' = DOMAIN rows
        /\ \A j \in DOMAIN rows : rows'[j] = IF j = i THEN u ELSE rows[j]
    BY DEF SetEnabled
  <1>5. Counted' /\ TogglesTyped' /\ OneGoroutineEach' /\ \A g \in gor' : ~g.refused
    BY DEF SetEnabled, bounds, ScrapingInv, Counted, TogglesTyped, OneGoroutineEach, SelfRefreshed
  <1>6. UNCHANGED <<key, secret, ensured, booting, listed, born>>
    BY DEF SetEnabled, bounds
  <1> HIDE DEF i, u
  <1>7. \A j \in DOMAIN rows' :
           /\ rows'[j] \in Target /\ rows'[j].id = j
           /\ rows'[j].born = rows[j].born /\ (rows'[j].self <=> rows[j].self)
           /\ (rows'[j].mine <=> rows[j].mine) /\ rows'[j].token = rows[j].token
           /\ \/ rows'[j].after = 0
              \/ rows'[j].after = rows[j].after /\ (rows'[j].enabled <=> rows[j].enabled)
    BY <1>1, <1>3, <1>4
  <1> QED
    BY <1>4, <1>5, <1>6, <1>7, EditStep

\* A tick lists enabled rows only, one entry each.
LEMMA TickListStep == ScrapingInv /\ TickList => ScrapingInv'
  <1> SUFFICES ASSUME ScrapingInv, TickList PROVE ScrapingInv'
    OBVIOUS
  <1>1. UNCHANGED <<rows, key, secret, ensured, booting, inflight, gor, toggle, born, mishaps>>
    BY DEF TickList, bounds
  <1>2. \A i \in DOMAIN rows : /\ Listed(rows[i]).id = i
                               /\ ~Listed(rows[i]).refused
    <2> TAKE i \in DOMAIN rows
    <2>1. rows[i].id = i
      BY DEF ScrapingInv, RowsTyped
    <2>2. Listed(rows[i]).id = i
      BY <2>1 DEF Listed
    <2>3. Listed(rows[i]).refused =
             (ensured /\ rows[i].self /\ ~rows[i].mine /\ rows[i].token # secret)
      BY DEF Listed
    <2>4. ~(ensured /\ rows[i].self /\ ~rows[i].mine /\ rows[i].token # secret)
      BY DEF ScrapingInv, SelfRefreshed
    <2> QED
      BY <2>2, <2>3, <2>4
  <1>3. \A l \in listed' : \E i \in DOMAIN rows : rows[i].enabled /\ l = Listed(rows[i])
    BY DEF TickList, enabledIds
  <1>4. Counted' /\ RowsTyped' /\ TogglesTyped' /\ OneGoroutineEach'
    BY <1>1 DEF ScrapingInv, Counted, RowsTyped, TogglesTyped, OneGoroutineEach
  <1>5. \A l, m \in listed' : l.id = m.id => l = m
    BY <1>2, <1>3
  <1>6. ListNamesOnce'
    BY <1>1, <1>2, <1>3, <1>5 DEF ScrapingInv, ListNamesOnce
  <1>7. SelfRefreshed'
    BY <1>1, <1>2, <1>3 DEF ScrapingInv, SelfRefreshed
  <1> QED
    BY <1>4, <1>6, <1>7 DEF ScrapingInv

\* The loop comes to an entry: a scrape it begins is the only one of its
\* target, and the last one of a target that was disabled meanwhile.
LEMMA TickVisitStep ==
    ASSUME ScrapingInv, NEW l \in listed, TickVisit(l)
    PROVE  ScrapingInv'
  <1>1. listed' = listed \ {l} /\ UNCHANGED <<key, secret, ensured, booting, toggle, born, mishaps>>
    BY DEF TickVisit, bounds
  <1>2. Counted' /\ TogglesTyped'
    BY <1>1 DEF ScrapingInv, Counted, TogglesTyped
  <1>3. CASE UNCHANGED <<rows, inflight, gor>>
    <2>1. RowsTyped' /\ OneGoroutineEach' /\ ListNamesOnce' /\ SelfRefreshed'
      BY <1>1, <1>3 DEF ScrapingInv, RowsTyped, OneGoroutineEach, ListNamesOnce, SelfRefreshed
    <2> QED
      BY <1>2, <2>1 DEF ScrapingInv
  <1>4. CASE /\ l.id \notin inflight /\ gor' = gor \cup {At("scrape", l)}
             /\ inflight' = inflight \cup {l.id} /\ rows' = begun(l)
    <2>1. At("scrape", l).id = l.id /\ At("scrape", l).refused = l.refused
      BY DEF At
    <2>2. OneGoroutineEach'
      BY <1>4, <2>1 DEF ScrapingInv, OneGoroutineEach
    <2> DEFINE counted(t) == [t EXCEPT !.after = IF @ < 2 THEN @ + 1 ELSE @]
               hit(i) == i = l.id /\ rows[i].born = l.born /\ ~rows[i].enabled
    <2>3. \A i \in DOMAIN rows : rows[i] \in Target /\ rows[i].id = i
      BY DEF ScrapingInv, RowsTyped
    <2>4. \A i \in DOMAIN rows : hit(i) => rows[i].after = 0
      BY DEF ScrapingInv, ListNamesOnce, RowsTyped, Target
    <2>5. ASSUME NEW i \in DOMAIN rows, rows[i].after = 0
          PROVE  LET u == counted(rows[i])
                 IN /\ u \in Target /\ u.id = i /\ u.born = rows[i].born /\ u.after = 1
                    /\ (u.enabled <=> rows[i].enabled) /\ (u.self <=> rows[i].self)
                    /\ (u.mine <=> rows[i].mine) /\ u.token = rows[i].token
      BY <2>3, <2>5 DEF Target
    <2>6. /\ DOMAIN rows' = DOMAIN rows
          /\ \A i \in DOMAIN rows : rows'[i] = IF hit(i) THEN counted(rows[i]) ELSE rows[i]
      BY <1>4 DEF begun
    <2> HIDE DEF counted
    <2>7. \A i \in DOMAIN rows :
             /\ rows'[i] \in Target /\ rows'[i].id = i /\ rows'[i].born = rows[i].born
             /\ (rows'[i].enabled <=> rows[i].enabled) /\ (rows'[i].self <=> rows[i].self)
             /\ (rows'[i].mine <=> rows[i].mine) /\ rows'[i].token = rows[i].token
             /\ hit(i) => rows'[i].after = 1
             /\ ~hit(i) => rows'[i].after = rows[i].after
      BY <2>3, <2>4, <2>5, <2>6
    <2>8. DOMAIN rows' = DOMAIN rows
      BY <2>6
    <2>9. RowsTyped'
      BY <1>1, <2>7, <2>8 DEF ScrapingInv, RowsTyped
    <2>10. ListNamesOnce'
      BY <1>1, <2>7, <2>8 DEF ScrapingInv, ListNamesOnce
    <2>11. SelfRefreshed'
      BY <1>1, <1>4, <2>1, <2>7, <2>8 DEF ScrapingInv, SelfRefreshed
    <2> QED
      BY <1>2, <2>2, <2>9, <2>10, <2>11 DEF ScrapingInv
  <1> QED
    BY <1>3, <1>4 DEF TickVisit

\* A goroutine goes on to its exit, and scrapes the same target.
LEMMA GoesToExit ==
    ASSUME ScrapingInv, NEW g \in gor, gor' = (gor \ {g}) \cup {At("exit", g)}, UNCHANGED inflight
    PROVE  OneGoroutineEach' /\ \A h \in gor' : ~h.refused
  <1>1. At("exit", g).id = g.id /\ At("exit", g).refused = g.refused
    BY DEF At
  <1> QED
    BY <1>1 DEF ScrapingInv, OneGoroutineEach, SelfRefreshed

\* The result of a scrape is recorded with the row of its id.
LEMMA RecordStep ==
    ASSUME ScrapingInv, NEW g \in gor, RecordScrape(g)
    PROVE  ScrapingInv'
  <1>1. /\ gor' = (gor \ {g}) \cup {At("exit", g)}
        /\ UNCHANGED <<key, secret, ensured, booting, listed, inflight, toggle, born>>
    BY DEF RecordScrape
  <1>2. OneGoroutineEach' /\ \A h \in gor' : ~h.refused
    BY <1>1, GoesToExit
  <1>3. TogglesTyped'
    BY <1>1 DEF ScrapingInv, TogglesTyped
  <1>4. Counted'
    BY <1>1, ScraperAssumption DEF RecordScrape, Mishap, ScrapingInv, Counted
  <1>5. \A j \in DOMAIN rows : rows[j] \in Target /\ rows[j].id = j
    BY DEF ScrapingInv, RowsTyped
  <1> DEFINE stamped(t) == [t EXCEPT !.scraped = "recent"]
  <1>6. ASSUME NEW t \in Target
        PROVE  LET u == stamped(t)
               IN /\ u \in Target /\ u.id = t.id /\ u.born = t.born /\ u.after = t.after
                  /\ (u.enabled <=> t.enabled) /\ (u.self <=> t.self) /\ (u.mine <=> t.mine)
                  /\ u.token = t.token
    BY DEF Target
  <1>7. /\ DOMAIN rows' = DOMAIN rows
        /\ \A j \in DOMAIN rows : rows'[j] = stamped(rows[j]) \/ rows'[j] = rows[j]
    BY DEF RecordScrape
  <1> HIDE DEF stamped
  <1>8. \A j \in DOMAIN rows' :
           /\ rows'[j] \in Target /\ rows'[j].id = j
           /\ rows'[j].born = rows[j].born /\ (rows'[j].self <=> rows[j].self)
           /\ (rows'[j].mine <=> rows[j].mine) /\ rows'[j].token = rows[j].token
           /\ rows'[j].after = rows[j].after /\ (rows'[j].enabled <=> rows[j].enabled)
    BY <1>5, <1>6, <1>7
  <1> QED
    BY <1>1, <1>2, <1>3, <1>4, <1>7, <1>8, EditStep

\* A scrape panics, and a goroutine ends: the table is left alone.
LEMMA PanicOrExitStep ==
    ASSUME ScrapingInv, NEW g \in gor, ScrapePanics(g) \/ ScrapeExit(g)
    PROVE  ScrapingInv'
  <1>1. UNCHANGED <<rows, key, secret, ensured, booting, listed, toggle, born>>
    BY DEF ScrapePanics, ScrapeExit, bounds
  <1>2. Counted' /\ RowsTyped' /\ TogglesTyped' /\ ListNamesOnce'
    BY <1>1, ScraperAssumption
    DEF ScrapePanics, ScrapeExit, Mishap, bounds, ScrapingInv, Counted, RowsTyped, TogglesTyped, ListNamesOnce
  <1>3. OneGoroutineEach' /\ \A h \in gor' : ~h.refused
    <2>1. CASE ScrapePanics(g)
      BY <2>1, GoesToExit DEF ScrapePanics
    <2>2. CASE ScrapeExit(g)
      BY <2>2 DEF ScrapeExit, ScrapingInv, OneGoroutineEach, SelfRefreshed
    <2> QED
      BY <2>1, <2>2
  <1>4. SelfRefreshed'
    BY <1>1, <1>3 DEF ScrapingInv, SelfRefreshed
  <1> QED
    BY <1>2, <1>3, <1>4 DEF ScrapingInv

\* A restart forgets all but the table.
LEMMA RestartStep == ScrapingInv /\ Restart => ScrapingInv'
  <1> SUFFICES ASSUME ScrapingInv, Restart PROVE ScrapingInv'
    OBVIOUS
  <1>1. booting' \in BOOLEAN /\ ensured' \in BOOLEAN /\ ~ensured'
    BY Zenon DEF Restart
  <1>2. Counted'
    BY <1>1, ScraperAssumption DEF Restart, Mishap, ScrapingInv, Counted
  <1>3. RowsTyped' /\ TogglesTyped' /\ OneGoroutineEach' /\ ListNamesOnce' /\ SelfRefreshed'
    BY <1>1 DEF Restart, ScrapingInv, RowsTyped, TogglesTyped, OneGoroutineEach, ListNamesOnce, SelfRefreshed, Idle
  <1> QED
    BY <1>2, <1>3 DEF ScrapingInv

\* A step leaves the invariant as it is.
LEMMA ScrapingStep == ScrapingInv /\ [Next]_vars => ScrapingInv'
  <1> SUFFICES ASSUME ScrapingInv, [Next]_vars PROVE ScrapingInv'
    OBVIOUS
  <1>1. CASE UNCHANGED vars
    BY <1>1
    DEF vars, ScrapingInv, Counted, RowsTyped, TogglesTyped, OneGoroutineEach, ListNamesOnce, SelfRefreshed
  <1>2. CASE Next
    BY <1>2, CreateStep, EnsureStep, TickListStep, RestartStep, DeleteStep, IntervalStep, ToggleReadStep,
       SetEnabledStep, TickVisitStep, RecordStep, PanicOrExitStep
    DEF Next, scrape
  <1> QED
    BY <1>1, <1>2

-----------------------------------------------------------------------------
(* The properties, for every value of the constants *)

\* The inductive invariant holds in every state of the scraper.
THEOREM ScrapingInvariant == FairSpec => []ScrapingInv
  BY ScrapingInit, ScrapingStep, PTL DEF FairSpec

\* inflight names exactly what the goroutines scrape, one goroutine per
\* target, through panics, deletions and restarts.
THEOREM OneScrapePerTarget == FairSpec => []ScraperInv
  <1>1. ScrapingInv => ScraperInv
    BY DEF ScrapingInv, RowsTyped, OneGoroutineEach, ScraperInv
  <1> QED
    BY <1>1, ScrapingInvariant, PTL

\* Once a target is disabled, at most one more scrape of it begins, however
\* old the list is that the tick works on.
THEOREM DisablingStops == FairSpec => []DisabledScrapedAtMostOnce
  <1>1. ScrapingInv => DisabledScrapedAtMostOnce
    BY DEF ScrapingInv, ListNamesOnce, DisabledScrapedAtMostOnce
  <1> QED
    BY <1>1, ScrapingInvariant, PTL

\* After a boot has refreshed the self target no scrape of it is refused.
THEOREM SelfScrapeAccepted == FairSpec => []SelfScrapeAuthorized
  <1>1. ScrapingInv => SelfScrapeAuthorized
    BY DEF ScrapingInv, SelfRefreshed, SelfScrapeAuthorized
  <1> QED
    BY <1>1, ScrapingInvariant, PTL

=============================================================================
