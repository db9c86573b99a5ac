------------------------------ MODULE Scraper ------------------------------
(***************************************************************************)
(* The Prometheus scraper (services/scraper.go) and the table of its       *)
(* targets (services/scrapetargets.go), which the settings page edits      *)
(* (ui/settings.go) and every boot repairs (EnsureSelfScrape, main.go).    *)
(*                                                                         *)
(* A tick lists the enabled targets and then visits them one by one; each  *)
(* one that is due gets a goroutine working on the row as it was listed.   *)
(* Ids are reused by SQLite, so a target is also known by when it was      *)
(* born.  Auth headers are encrypted with the key of the environment:      *)
(* after a boot with another key, a list that meets such a row fails.      *)
(* There is no clock: a scraped target becomes due by an action of its own.*)
(***************************************************************************)
EXTENDS Integers, FiniteSets, FiniteSetsExt, Functions, TLC

CONSTANTS
    Requests,     \* requests of the settings page that toggle a target
    MaxAdded,     \* bound on the targets users add
    MaxMishaps    \* bound on failing statements, panics and restarts

ASSUME ScraperAssumption ==
    {MaxAdded, MaxMishaps} \subseteq Nat

VARIABLES
    rows,      \* scrape_targets: id -> target
    key,       \* generation of the encryption key
    secret,    \* generation of the metrics secret
    ensured,   \* whether EnsureSelfScrape has succeeded since the boot
    booting,   \* whether it is still to be called
    listed,    \* the targets the tick has still to visit
    inflight,  \* Scraper.inflight
    gor,       \* the goroutines: what each one scrapes, and where it is (a set)
    toggle,    \* the requests that have read the list
    born,      \* number of targets ever created
    mishaps    \* number of failing statements, panics and restarts

vars == <<rows, key, secret, ensured, booting, listed, inflight, gor, toggle, born, mishaps>>
bounds == <<born, mishaps>>

Generations == 1 .. MaxMishaps + 1
MaxBorn == MaxAdded + MaxMishaps + 1
Ids == 1 .. MaxBorn

\* self: the URL is pooml's own /metrics; mine: added by a user.  auth is the
\* generation of the key its header is encrypted with, token that of the secret
\* in it, 0 if there is none.  scraped: whether its interval has passed.  after
\* is a history: scrapes begun since it was disabled.
Target ==
    [id : Ids, born : 1 .. MaxBorn, self : BOOLEAN, mine : BOOLEAN, auth : {0} \cup Generations,
     token : {0} \cup Generations, enabled : BOOLEAN, scraped : {"recent", "due"},
     after : 0 .. 2]

due(t) == t.scraped = "due"

\* What the scraper uses of a listed target.  refused is a history: it is the
\* self target, listed after EnsureSelfScrape, with a token that gets a 401.
Listed(t) ==
    [id |-> t.id, born |-> t.born, due |-> due(t),
     refused |-> ensured /\ t.self /\ ~t.mine /\ t.token # secret]
Idle == [step |-> "idle"]
At(step, l) == [step |-> step, id |-> l.id, born |-> l.born, refused |-> l.refused]

nextRowId == IF DOMAIN rows = {} THEN 1 ELSE Max(DOMAIN rows) + 1

\* Inserts a target, which is due at once.
Insert(self, mine, auth, token) ==
    /\ born' = born + 1
    /\ rows' = [i \in DOMAIN rows \cup {nextRowId} |->
                  IF i # nextRowId THEN rows[i]
                  ELSE [id |-> i, born |-> born + 1, self |-> self, mine |-> mine, auth |-> auth,
                        token |-> token, enabled |-> TRUE, scraped |-> "due",
                        after |-> 0]]

\* The first boot.
Init ==
    /\ rows = <<>>
    /\ key = 1 /\ secret = 1
    /\ ensured = FALSE /\ booting = TRUE
    /\ listed = {} /\ inflight = {}
    /\ gor = {}
    /\ toggle = [r \in Requests |-> Idle]
    /\ born = 0 /\ mishaps = 0

\* A statement or a goroutine fails, or the process ends.
Mishap == mishaps < MaxMishaps /\ mishaps' = mishaps + 1

-----------------------------------------------------------------------------
(* services/scrapetargets.go, ui/settings.go *)

\* scanTarget decrypts the header.
scanTarget(t) == t.auth \in {0, key}

\* A list fails as a whole when one of its rows does.
listOk(ids) == \A i \in ids : scanTarget(rows[i])
enabledIds == {i \in DOMAIN rows : rows[i].enabled}

\* A user adds a target, maybe pooml's own endpoint, with a header or without.
Create ==
    /\ ~booting /\ born <= MaxAdded
    /\ \E self \in BOOLEAN, auth \in {0, key} : Insert(self, TRUE, auth, 0)
    /\ UNCHANGED <<key, secret, ensured, booting, listed, inflight, gor, toggle, mishaps>>

Delete(i) ==
    /\ ~booting
    /\ rows' = Restrict(rows, DOMAIN rows \ {i})
    /\ UNCHANGED <<key, secret, ensured, booting, listed, inflight, gor, toggle, bounds>>

\* toggleScrapeTarget reads all targets to find the one to change...
toggleRead(r, i) ==
    /\ ~booting /\ toggle[r] = Idle
    /\ listOk(DOMAIN rows)
    /\ toggle' = [toggle EXCEPT ![r] = [step |-> "read", id |-> i, enabled |-> ~rows[i].enabled]]
    /\ UNCHANGED <<rows, key, secret, ensured, booting, listed, inflight, gor, bounds>>

\* ...and then sets the opposite of what it read, if the row is still there.
SetEnabled(r) ==
    /\ toggle[r] # Idle
    /\ toggle' = [toggle EXCEPT ![r] = Idle]
    /\ LET i == toggle[r].id
       IN rows' = IF i \in DOMAIN rows
                  THEN [rows EXCEPT ![i].enabled = toggle[r].enabled, ![i].after = 0] ELSE rows
    /\ UNCHANGED <<key, secret, ensured, booting, listed, inflight, gor, bounds>>

\* Variation of EnsureSelfScrape: a target that is there is left alone.
EnsureOnlyCreates ==
    /\ booting /\ booting' = FALSE
    /\ ensured' = TRUE
    /\ IF \E i \in DOMAIN rows : rows[i].self THEN UNCHANGED <<rows, born>>
       ELSE Insert(TRUE, FALSE, key, secret)
    /\ UNCHANGED <<key, secret, listed, inflight, gor, toggle, mishaps>>

\* Every boot stores the header of the self target anew, matched by URL, or
\* creates the target.
EnsureSelfScrape ==
    /\ booting /\ booting' = FALSE
    /\ \/ /\ ensured' = TRUE
          /\ IF \E i \in DOMAIN rows : rows[i].self
             THEN /\ rows' = [i \in DOMAIN rows |->
                                IF rows[i].self THEN [rows[i] EXCEPT !.auth = key, !.token = secret,
                                                                     !.mine = FALSE]
                                ELSE rows[i]]
                  /\ UNCHANGED born
             ELSE Insert(TRUE, FALSE, key, secret)
          /\ UNCHANGED mishaps
       \/ Mishap /\ UNCHANGED <<ensured, rows, born>>
    /\ UNCHANGED <<key, secret, listed, inflight, gor, toggle>>

-----------------------------------------------------------------------------
(* services/scraper.go *)

\* Variation of TickList: lists all targets.
TickListAll ==
    /\ listed = {}
    /\ listed' = IF listOk(DOMAIN rows) THEN {Listed(rows[i]) : i \in DOMAIN rows} ELSE {}
    /\ UNCHANGED <<rows, key, secret, ensured, booting, inflight, gor, toggle, bounds>>

\* A tick lists the targets; when that fails, or none is there, it is over.
TickList ==
    /\ listed = {}
    /\ listed' = IF listOk(enabledIds) THEN {Listed(rows[i]) : i \in enabledIds} ELSE {}
    /\ UNCHANGED <<rows, key, secret, ensured, booting, inflight, gor, toggle, bounds>>

\* The history of scrapes begun on a disabled target.
begun(t) ==
    [i \in DOMAIN rows |->
       IF i = t.id /\ rows[i].born = t.born /\ ~rows[i].enabled
       THEN [rows[i] EXCEPT !.after = IF @ < 2 THEN @ + 1 ELSE @] ELSE rows[i]]

\* Variation of TickVisit: does not ask whether the target is being scraped.
TickVisitIgnoresInflight(l) ==
    /\ listed' = listed \ {l}
    /\ \/ ~l.due /\ UNCHANGED <<rows, inflight, gor>>
       \/ /\ l.due
          /\ gor' = gor \cup {At("scrape", l)}
          /\ inflight' = inflight \cup {l.id}
          /\ rows' = begun(l)
    /\ UNCHANGED <<key, secret, ensured, booting, toggle, bounds>>

\* The loop of tick comes to a target (the order in which it does is not
\* modelled): one that is due and not being scraped gets a goroutine.
TickVisit(l) ==
    /\ listed' = listed \ {l}
    /\ \/ ~l.due /\ UNCHANGED <<rows, inflight, gor>>
       \/ l.id \in inflight /\ UNCHANGED <<rows, inflight, gor>>
       \/ /\ l.due /\ l.id \notin inflight
          /\ gor' = gor \cup {At("scrape", l)}
          /\ inflight' = inflight \cup {l.id}
          /\ rows' = begun(l)
    /\ UNCHANGED <<key, secret, ensured, booting, toggle, bounds>>

\* scrape: the answer comes within scrapeTimeout or is an error, and its rows
\* go to the pipeline, which may refuse them.  In any case the row with the
\* target's id, if there is one, is scraped now (the message that is kept with
\* it is for the page).
RecordScrape(g) ==
    /\ g.step = "scrape"
    /\ gor' = (gor \ {g}) \cup {At("exit", g)}
    /\ \/ /\ rows' = IF g.id \in DOMAIN rows THEN [rows EXCEPT ![g.id].scraped = "recent"] ELSE rows
          /\ UNCHANGED mishaps
       \/ Mishap /\ UNCHANGED rows
    /\ UNCHANGED <<key, secret, ensured, booting, listed, inflight, toggle, born>>

\* recover() keeps the process up.
ScrapePanics(g) ==
    /\ g.step = "scrape"
    /\ Mishap
    /\ gor' = (gor \ {g}) \cup {At("exit", g)}
    /\ UNCHANGED <<rows, key, secret, ensured, booting, listed, inflight, toggle, born>>

\* Variation of ScrapeExit: the id stays in inflight.
ScrapeExitKeepsId(g) ==
    /\ g.step = "exit"
    /\ gor' = gor \ {g}
    /\ UNCHANGED <<rows, key, secret, ensured, booting, listed, inflight, toggle, bounds>>

ScrapeExit(g) ==
    /\ g.step = "exit"
    /\ gor' = gor \ {g}
    /\ inflight' = inflight \ {g.id}
    /\ UNCHANGED <<rows, key, secret, ensured, booting, listed, toggle, bounds>>

\* The scrape interval of a target passes.
IntervalPasses(i) ==
    /\ rows[i].scraped = "recent"
    /\ rows' = [rows EXCEPT ![i].scraped = "due"]
    /\ UNCHANGED <<key, secret, ensured, booting, listed, inflight, gor, toggle, bounds>>

\* The process ends and is started again, maybe with another key or secret.
Restart ==
    /\ Mishap
    /\ key' \in {key, key + 1} /\ secret' \in {secret, secret + 1}
    /\ ensured' = FALSE /\ booting' = TRUE
    /\ listed' = {} /\ inflight' = {}
    /\ gor' = {}
    /\ toggle' = [r \in Requests |-> Idle]
    /\ UNCHANGED <<rows, born>>

scrape(g) == RecordScrape(g) \/ ScrapeExit(g)

Next ==
    \/ Create \/ EnsureSelfScrape \/ TickList \/ Restart
    \/ \E i \in DOMAIN rows : Delete(i) \/ IntervalPasses(i)
    \/ \E r \in Requests : SetEnabled(r) \/ \E i \in DOMAIN rows : toggleRead(r, i)
    \/ \E l \in listed : TickVisit(l)
    \/ \E g \in gor : scrape(g) \/ ScrapePanics(g)

\* The ticker fires for ever, the loop and the goroutines run on, a fetch ends
\* by its timeout, and time passes.  Nothing forces users, restarts or faults.
FairSpec ==
    /\ Init /\ [][Next]_vars
    /\ WF_vars(TickList)
    /\ WF_vars(\E l \in listed : TickVisit(l))
    /\ \A i \in Ids : WF_vars(\E g \in gor : g.id = i /\ scrape(g))
    /\ \A i \in Ids : WF_vars(i \in DOMAIN rows /\ IntervalPasses(i))

-----------------------------------------------------------------------------
(* Properties *)

\* inflight names exactly what the goroutines scrape, one goroutine per
\* target, through panics and deletions; and the rows have their type.
ScraperInv ==
    /\ \A i \in DOMAIN rows : rows[i] \in Target /\ rows[i].id = i
    /\ inflight = {g.id : g \in gor}
    /\ \A g, h \in gor : g.id = h.id => g = h

\* Disabling a target stops it: although the loop works on an old list, at
\* most one more scrape of it begins.
DisabledScrapedAtMostOnce == \A i \in DOMAIN rows : rows[i].after <= 1

\* Once a boot has refreshed the self target, the scrapes that are listed from
\* then on carry the current secret and never get a 401, whatever key and
\* secret earlier boots had.
SelfScrapeAuthorized == \A g \in gor : ~g.refused

scrapedNow(b) == \E g \in gor : g.born = b
enabledNow(b) == \E i \in enabledIds : rows[i].born = b

\* An enabled target is scraped, and after that again and again, until it is
\* disabled or deleted: whatever happens to the others, and although a goroutine
\* of a deleted target may hold its id and mark its row as just scraped.  The
\* exception is a table that keeps an enabled target whose header can no longer
\* be decrypted, which stops all scraping.
EnabledIsScraped ==
    \/ \A b \in 1 .. MaxBorn :
          (enabledNow(b) /\ ~scrapedNow(b)) ~> (scrapedNow(b) \/ ~enabledNow(b))
    \/ <>[]~listOk(enabledIds)
=============================================================================
