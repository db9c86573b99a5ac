------------------------------- MODULE WebUI -------------------------------
(***************************************************************************)
(* The web UI: one browser tab showing the pages of WebTemplates, the      *)
(* router with its middleware and handlers (ui/), and the tables the       *)
(* handlers write (services/), which other people write too.               *)
(*                                                                         *)
(* A control sends a request; the server answers it in one step of the     *)
(* handler the router picks; the answer is swapped into the page when it   *)
(* arrives, in any order.  A redirect sends the browser to ask again,      *)
(* which it does for an htmx request too, without the page noticing.       *)
(*                                                                         *)
(* htmx is external: an element sends no second request while its first    *)
(* is under way, the body of an answer is swapped whatever its status, and *)
(* an answer for an element that has left the page changes nothing.        *)
(***************************************************************************)
EXTENDS WebTemplates, Backup, FiniteSets, Functions, TLC

CONSTANTS
    Ids,          \* row ids of every table the UI edits
    Logs,         \* logs a page can show
    MaxFlight,    \* bound on the requests under way
    MaxWrites,    \* bound on the writes to the tables
    MaxSwaps,     \* bound on the fragments swapped into a document
    MaxLogins     \* bound on the logins

ASSUME WebUIAssumption ==
    /\ MaxFlight \in Nat \ {0}
    /\ {MaxWrites, MaxSwaps, MaxLogins} \subseteq Nat

\* The names a script or an hx-target finds an element by.
ElementIds ==
    Segments \cup {"panel-body", "results", "dry-run", "pushover-test-result",
                   "campfire-test-result", "dashboard", "detail", "gone"}

\* The ids of rows and logs are numbers, and no element is called by a number.
ASSUME IdsAssumption == (Ids \cup Logs) \cap ElementIds = {}

VARIABLES
    area,     \* the part of the UI this behaviour is about
    ingested, \* whether there are logs and metrics to show
    db,       \* the tables: alerts, keys, targets, dashboards, panels, channel
    session,  \* whether the browser's session cookie is valid
    csrf,     \* the browser's CSRF cookie: how often it was replaced
    dom,      \* the elements in the tab
    flight,   \* requests and answers under way
    clean,    \* history: no write has overtaken what the tab shows, and no element of
              \* it was given an answer to something it did not ask for
    writes,   \* number of writes to the tables
    swaps,    \* number of fragments swapped into the document
    logins    \* number of logins

vars == <<area, ingested, backup, db, session, csrf, dom, flight, clean, writes, swaps, logins>>
serverVars == <<db, session, csrf>>
bounds == <<area, ingested, backup, writes, swaps, logins>>

DB == [alerts : SUBSET Ids, keys : SUBSET Ids,
       targets : UNION {[S -> {"on", "off"}] : S \in SUBSET Ids},
       dashboards : UNION {[S -> {"logs", "metrics"}] : S \in SUBSET Ids},
       panels : SUBSET (Ids \X Ids), channel : BOOLEAN]

Document == <<>>
Gone == <<"gone">>

\* The routes, by the blocks of the router (the settings by their sections).
\* A behaviour stays within one block, its area: it sends requests of that
\* block and of Account only, and only the tables the area edits are used.
Public == {<<"GET", "/login">>, <<"POST", "/login">>}

Account == {<<"GET", "/">>, <<"POST", "/logout">>}

Group ==
    [home |-> {<<"GET", "/home/volume">>, <<"GET", "/home/errors">>, <<"GET", "/home/services">>,
               <<"GET", "/home/metrics">>, <<"GET", "/home/metrics-services">>},
     logs |-> {<<"GET", "/logs">>, <<"GET", "/logs/export">>, <<"GET", "/logs/{id}">>},
     alerts |-> {<<"GET", "/alerts">>, <<"POST", "/alerts">>, <<"GET", "/alerts/open">>,
                 <<"GET", "/alerts/{id}/edit">>, <<"PUT", "/alerts/{id}">>,
                 <<"DELETE", "/alerts/{id}">>, <<"POST", "/alerts/{id}/test">>},
     keys |-> {<<"GET", "/settings">>, <<"POST", "/settings/api-keys">>,
               <<"DELETE", "/settings/api-keys/{id}">>},
     channels |-> {<<"GET", "/settings">>, <<"POST", "/settings/pushover">>,
                   <<"POST", "/settings/pushover/test">>, <<"POST", "/settings/campfire">>,
                   <<"POST", "/settings/campfire/test">>},
     targets |-> {<<"GET", "/settings">>, <<"POST", "/settings/scrape-targets">>,
                  <<"POST", "/settings/scrape-targets/{id}/toggle">>,
                  <<"DELETE", "/settings/scrape-targets/{id}">>},
     retention |-> {<<"GET", "/settings">>, <<"PUT", "/settings/retention">>},
     backups |-> {<<"GET", "/settings">>, <<"PUT", "/settings/backup">>,
                  <<"POST", "/settings/backup/run">>},
     metrics |-> {<<"GET", "/metrics-explorer">>, <<"GET", "/metrics-explorer/export">>,
                  <<"GET", "/metrics-explorer/compile">>,
                  <<"GET", "/metrics-explorer/filter-options">>,
                  <<"POST", "/metrics-explorer/save-panel">>},
     warroom |-> {<<"GET", "/war-room">>, <<"GET", "/logs/{id}">>},
     dashboards |-> {<<"GET", "/dashboards">>, <<"POST", "/dashboards">>,
                     <<"GET", "/dashboards/{id}">>, <<"DELETE", "/dashboards/{id}">>,
                     <<"POST", "/dashboards/{id}/panels">>, <<"GET", panelPath>>,
                     <<"PUT", panelPath>>, <<"DELETE", panelPath>>, <<"GET", "/logs/{id}">>}]

Protected == Account \cup UNION {Group[g] : g \in DOMAIN Group}

inArea(req) == <<req.verb, req.path>> \in Public \cup Account \cup Group[area]

Init ==
    /\ area \in DOMAIN Group
    /\ ingested \in IF area \in {"home", "logs", "metrics"} THEN BOOLEAN ELSE {TRUE}
    /\ db \in {t \in DB : /\ area # "alerts" => t.alerts = {}
                          /\ area # "keys" => t.keys = {}
                          /\ area # "targets" => t.targets = <<>>
                          /\ area \notin {"metrics", "dashboards"} => t.dashboards = <<>>
                          /\ area # "dashboards" => t.panels = {}
                          /\ area # "alerts" => ~t.channel
                          /\ \A p \in t.panels : p[1] \in DOMAIN t.dashboards
                          /\ \A p, q \in t.panels : p[2] = q[2] => p = q}
    /\ backup = NewBackupService
    /\ session = TRUE
    /\ csrf = 0
    /\ dom = {}
    /\ flight = {}
    /\ clean = TRUE
    /\ writes = 0
    /\ swaps = 0
    /\ logins = 0

-----------------------------------------------------------------------------
(* The tables.  Each operation gives the set of tables it may leave; a row   *)
(* takes any id that is free.                                                *)

CreateAlert == {[db EXCEPT !.alerts = @ \cup {i}] : i \in Ids \ db.alerts}
DeleteAlert(i) == {[db EXCEPT !.alerts = @ \ {i}]}
CreateKey == {[db EXCEPT !.keys = @ \cup {i}] : i \in Ids \ db.keys}
RevokeKey(i) == {[db EXCEPT !.keys = @ \ {i}]}
CreateTarget ==
    {[db EXCEPT !.targets = [t \in DOMAIN @ \cup {i} |-> IF t = i THEN "on" ELSE @[t]]] :
        i \in Ids \ DOMAIN db.targets}
SetEnabled(i) ==
    IF i \in DOMAIN db.targets
    THEN {[db EXCEPT !.targets[i] = IF @ = "on" THEN "off" ELSE "on"]} ELSE {db}
DeleteTarget(i) == {[db EXCEPT !.targets = Restrict(@, DOMAIN @ \ {i})]}
CreateDashboard ==
    {[db EXCEPT !.dashboards = [d \in DOMAIN @ \cup {i} |-> IF d = i THEN type ELSE @[d]]] :
        i \in Ids \ DOMAIN db.dashboards, type \in {"logs", "metrics"}}
\* The panels go with their dashboard (ON DELETE CASCADE).
DeleteDashboard(i) ==
    {[db EXCEPT !.dashboards = Restrict(@, DOMAIN @ \ {i}),
                !.panels = {p \in @ : p[1] # i}]}
panelsOf(d) == {p[2] : p \in {q \in db.panels : q[1] = d}}
CreatePanel(d) ==
    {[db EXCEPT !.panels = @ \cup {<<d, i>>}] : i \in Ids \ {p[2] : p \in db.panels}}
DeletePanel(d, p) == {[db EXCEPT !.panels = @ \ {<<d, p>>}]}
SetChannel == {[db EXCEPT !.channel = TRUE]}

\* Answers rendered before a write no longer show the tables.
overtaken(ms) == {IF m.step = "answered" THEN [m EXCEPT !.fresh = FALSE] ELSE m : m \in ms}

\* Another person, in a browser of their own, edits the same tables.
OtherWrites ==
    /\ writes < MaxWrites
    /\ \/ area = "alerts" /\ db' \in CreateAlert \cup SetChannel
       \/ area = "alerts" /\ \E i \in Ids : db' \in DeleteAlert(i)
       \/ area = "keys" /\ db' \in CreateKey
       \/ area = "keys" /\ \E i \in Ids : db' \in RevokeKey(i)
       \/ area = "targets" /\ db' \in CreateTarget
       \/ area = "targets" /\ \E i \in Ids : db' \in SetEnabled(i) \cup DeleteTarget(i)
       \/ area \in {"metrics", "dashboards"} /\ db' \in CreateDashboard
       \/ area \in {"metrics", "dashboards"} /\ \E i \in Ids : db' \in DeleteDashboard(i)
       \/ area = "dashboards" /\ \E d \in DOMAIN db.dashboards : db' \in CreatePanel(d)
       \/ area = "dashboards" /\ \E p \in db.panels : db' \in DeletePanel(p[1], p[2])
    /\ db' # db
    /\ writes' = writes + 1
    /\ clean' = FALSE
    /\ flight' = overtaken(flight)
    /\ UNCHANGED <<area, ingested, backup, session, csrf, dom, swaps, logins>>

-----------------------------------------------------------------------------
(* The browser *)

IsPrefixPath(p, q) == Len(p) <= Len(q) /\ SubSeq(q, 1, Len(p)) = p
parent(p) == SubSeq(p, 1, Len(p) - 1)
last(p) == p[Len(p)]

\* What hx-target names: the element itself (or its closest row or card), or
\* the element with that id.
targets(e, c) ==
    IF c.into = "document" THEN {Document}
    ELSE IF c.into = "this" THEN {e.at}
    ELSE {f.at : f \in {g \in dom : last(g.at) = c.into}}

\* The token a control sends: its form's, its own header's, or the header
\* inherited from the main of the Shell around it.
tokens(e, c) ==
    IF c.token \in {"field", "header"} THEN {e.tok}
    ELSE {f.tok : f \in {g \in dom : /\ g.is = "Shell"
                                     /\ IsPrefixPath(g.at \o <<"main">>, e.at)}}

Asked(req, to, swap, tok) ==
    [step |-> "asked", req |-> req, to |-> to, swap |-> swap, tok |-> tok, els |-> {},
     fresh |-> TRUE]

isNavigation(m) == m.to = Document

\* The messages ms after the elements lost(m) have left the page: nobody waits
\* for the answer any more, but the server may still have a write to do.
without(ms, lost) ==
    {IF m \in lost THEN [m EXCEPT !.to = Gone] ELSE m :
        m \in {n \in ms : n \in lost => n.step = "asked" /\ n.req.verb # "GET"}}

\* A new navigation ends the one under way.
leaving(ms) == without(ms, {m \in ms : isNavigation(m)})

\* A person types a URL, where there is no menu to click on.
Visit(path) ==
    /\ ~\E e \in dom : e.is = "Shell" /\ Len(e.at) = 1
    /\ inArea(Req("GET", path, <<>>, ""))
    /\ Cardinality(flight) < MaxFlight
    /\ flight' = leaving(flight) \cup
                 {Asked(Req("GET", path, <<>>, ""), Document, "page", csrf)}
    /\ UNCHANGED <<serverVars, dom, clean, bounds>>

\* A click, a submit or a timer.
Trigger(e, c) ==
    /\ inArea(c.req)
    /\ \E to \in targets(e, c), tok \in IF c.token = "none" THEN {csrf} ELSE tokens(e, c) :
         /\ ~\E m \in flight : m.to = to /\ m.req = c.req
         /\ to # Document =>
               swaps + Cardinality({m \in flight : ~isNavigation(m)}) < MaxSwaps
         /\ flight' = (IF to = Document THEN leaving(flight) ELSE flight)
                      \cup {Asked(c.req, to, c.swap, tok)}
    /\ UNCHANGED <<serverVars, dom, clean, bounds>>

Click ==
    /\ Cardinality(flight) < MaxFlight
    /\ \E e \in dom : \E c \in Controls(e) \ Polls(e) : Trigger(e, c)

Poll ==
    /\ Cardinality(flight) < MaxFlight
    /\ \E e \in dom : \E c \in Polls(e) : Trigger(e, c)

\* The answer's elements that replace the ones with their ids; the rest of an
\* answer to an out-of-band request is not used.
outOfBand(m) == {e \in m.els : e.at[1] # "page"}

\* What the swap of an answer removes.
removed(m) ==
    CASE m.swap = "page" -> dom
      [] m.swap = "innerHTML" -> {e \in dom : IsPrefixPath(m.to, e.at) /\ e.at # m.to}
      [] m.swap = "outerHTML" -> {e \in dom : IsPrefixPath(m.to, e.at)}
      [] m.swap = "oob" -> {e \in dom : \E f \in outOfBand(m), n \in DOMAIN e.at : e.at[n] = f.at[1]}
      [] m.swap \in {"afterend", "none"} -> {}

added(m) ==
    CASE m.swap = "page" -> m.els
      [] m.swap = "innerHTML" -> Under(m.to, m.els)
      [] m.swap \in {"outerHTML", "afterend"} -> Under(parent(m.to), m.els)
      [] m.swap = "oob" -> Under(parent(m.to), outOfBand(m))
      [] m.swap = "none" -> {}

\* An answer arrives.  Requests whose element leaves the page lose it, and an
\* answer on its way to such an element is dropped.
Receive(m) ==
    /\ m.step = "answered"
    /\ dom' = (dom \ removed(m)) \cup added(m)
    /\ swaps' = IF m.swap = "page" THEN 0 ELSE swaps + 1
    /\ flight' = LET rest == flight \ {m}
                 IN without(rest, {n \in rest : /\ ~isNavigation(n)
                                               /\ \/ m.swap = "page"
                                                  \/ \E e \in removed(m) : e.at = n.to})
    /\ clean' = (m.fresh /\ (clean \/ m.swap = "page"))
    /\ UNCHANGED <<serverVars, area, ingested, backup, writes, logins>>

\* A click on an expanded log row, or on its close button.
Collapse ==
    /\ \E e \in dom : /\ Len(e.at) > 1 /\ last(parent(e.at)) = "detail"
                      /\ dom' = dom \ {e}
    /\ UNCHANGED <<serverVars, flight, clean, bounds>>

\* The live tail of the logs page appends a row while its table is there.
StreamEvent ==
    /\ session
    /\ \E p \in {e.at : e \in {f \in dom : last(f.at) = "log-rows"}}, l \in Logs :
         dom' = dom \cup {[at |-> p \o <<"log", l>>, is |-> "logRow", of |-> <<l>>, tok |-> csrf]}
    /\ UNCHANGED <<serverVars, flight, clean, bounds>>

\* The session ends: logout in another tab, expiry, a restart of the server.
SessionEnds ==
    /\ session /\ logins < MaxLogins
    /\ session' = FALSE
    /\ UNCHANGED <<db, csrf, dom, flight, clean, bounds>>

\* A login in another tab of the browser.  (A bound: in the areas that poll, or
\* list rows and nothing else.)
OtherTabLogin ==
    /\ ~session /\ logins < MaxLogins
    /\ area \in {"home", "dashboards", "keys", "targets"}
    /\ session' = TRUE
    /\ logins' = logins + 1
    /\ UNCHANGED <<db, csrf, dom, flight, clean, area, ingested, backup, writes, swaps>>

\* The browser drops its cookies; the next answer sets a new CSRF cookie.  (A
\* bound: once, and at the login form in one area only.)
ClearCookies ==
    /\ csrf = 0 /\ logins < MaxLogins /\ (session \/ area = "home")
    /\ csrf' = 1
    /\ session' = FALSE
    /\ UNCHANGED <<db, dom, flight, clean, bounds>>

-----------------------------------------------------------------------------
(* The router and its middleware *)

route(m) == <<m.req.verb, m.req.path>>
isHtmx(m) == ~isNavigation(m)
csrfFails(m) == m.req.verb # "GET" /\ m.tok # csrf
authed(m) == route(m) \notin Protected \/ session

\* The request m reaches its handler.
Serve(m, verb, path) ==
    /\ m.step = "asked" /\ route(m) = <<verb, path>>
    /\ ~csrfFails(m) /\ authed(m)

\* The other messages, after the tables became what the handler made of them.
others(m) == IF db' = db THEN flight \ {m} ELSE overtaken(flight \ {m})

\* The answer els, rendered with the CSRF token of the request.
Answer(m, els, fresh) ==
    LET stamped == {[at |-> e.at, is |-> e.is, of |-> e.of, tok |-> csrf] : e \in els}
        answer == [m EXCEPT !.step = "answered", !.els = stamped,
                            !.fresh = fresh /\ m.fresh, !.req = Req("", "", <<>>, "")]
    IN flight' = others(m) \cup (IF m.to = Gone THEN {} ELSE {answer})

Reply(m, els) == Answer(m, els, TRUE)

\* A 3xx: the browser, or fetch on behalf of htmx, asks again by itself.
AskAgain(m, req, tok, fresh) ==
    flight' = others(m) \cup
              (IF m.to = Gone THEN {}
               ELSE {[Asked(req, m.to, m.swap, tok) EXCEPT !.fresh = fresh]})

\* 303: always with GET.
Redirect(m, path, args) == AskAgain(m, Req("GET", path, args, ""), csrf, m.fresh)

\* 302: a POST becomes a GET, a PUT or DELETE keeps its method and its headers.
\* What an element gets then is not an answer to what it asked.
Found(m, path) ==
    AskAgain(m, Req(IF m.req.verb = "POST" THEN "GET" ELSE m.req.verb, path, <<>>, ""), m.tok,
             isNavigation(m))

\* HX-Redirect: htmx navigates.
HxRedirect(m, path) ==
    flight' = IF m.to = Gone THEN others(m)
              ELSE leaving(others(m)) \cup
                   {Asked(Req("GET", path, <<>>, ""), Document, "page", csrf)}

Reads == UNCHANGED <<serverVars, dom, clean, bounds>>

\* A handler leaves the tables as one of the set; when the element that asked
\* is gone, the tab will not show it.
Writes(m, dbs) ==
    /\ db' \in dbs
    /\ writes' = IF db' = db THEN writes ELSE writes + 1
    /\ writes' <= MaxWrites
    /\ clean' = (clean /\ (db' = db \/ m.to # Gone))
    /\ UNCHANGED <<area, ingested, backup, session, csrf, dom, swaps, logins>>

\* http.Error: the message takes the place of what the tab showed.
Fails(m) == Reads /\ Answer(m, Text, FALSE)

csrfErrorHandler(m) ==
    /\ m.step = "asked" /\ csrfFails(m)
    /\ Reads
    /\ IF isHtmx(m) THEN HxRedirect(m, "/login") ELSE Redirect(m, "/login", <<>>)

sessionAuth(m) ==
    /\ m.step = "asked" /\ ~csrfFails(m) /\ ~authed(m)
    /\ Reads
    /\ Found(m, "/login")

\* The mux answers a method that a path has no handler for by an empty 405.
methodNotAllowed(m) ==
    /\ m.step = "asked" /\ ~csrfFails(m) /\ route(m) \notin Public \cup Protected
    /\ Reads
    /\ Reply(m, {})

-----------------------------------------------------------------------------
(* ui/router.go, ui/home.go *)

loginPage(m) ==
    /\ Serve(m, "GET", "/login")
    /\ Reads
    /\ IF session THEN Redirect(m, "/", <<>>) ELSE Reply(m, LoginPage)

\* A wrong secret, or an address that is locked out, gets the page again.
processLogin(m) ==
    /\ Serve(m, "POST", "/login")
    /\ \/ Reads /\ Reply(m, LoginPage)
       \/ /\ logins < MaxLogins
          /\ session' = TRUE
          /\ logins' = logins + 1
          /\ UNCHANGED <<db, csrf, dom, clean, area, ingested, backup, writes, swaps>>
          /\ Redirect(m, "/", <<>>)

processLogout(m) ==
    /\ Serve(m, "POST", "/logout")
    /\ session' = FALSE
    /\ UNCHANGED <<db, csrf, dom, clean, bounds>>
    /\ Redirect(m, "/login", <<>>)

homePage(m) == Serve(m, "GET", "/") /\ Reads /\ Reply(m, HomePage)

\* A query that fails is answered by a message, with status 200.
homeFragmentError(m) == Reply(m, Text)

homePageVolumeSegment(m) ==
    /\ Serve(m, "GET", "/home/volume")
    /\ Reads
    /\ Reply(m, HomeVolume(ingested)) \/ homeFragmentError(m)

homePageErrorsSegment(m) ==
    /\ Serve(m, "GET", "/home/errors")
    /\ Reads
    /\ Reply(m, HomeErrors(ingested)) \/ homeFragmentError(m)

homePageServicesSegment(m) ==
    /\ Serve(m, "GET", "/home/services")
    /\ Reads
    /\ Reply(m, HomeServices(ingested)) \/ homeFragmentError(m)

homePageMetricsServicesSegment(m) ==
    /\ Serve(m, "GET", "/home/metrics-services")
    /\ Reads
    /\ Reply(m, HomeMetricsServices(ingested)) \/ homeFragmentError(m)

homePageMetricsSegment(m) ==
    /\ Serve(m, "GET", "/home/metrics")
    /\ Reads
    /\ \/ \E failing \in BOOLEAN : Reply(m, HomeMetrics(ingested, failing))
       \/ homeFragmentError(m)

-----------------------------------------------------------------------------
(* ui/alerts.go *)

\* Listing the alerts may fail.
renderAlerts(m, alerts) ==
    \/ Reply(m, IF isHtmx(m) THEN AlertsRegion(alerts) ELSE AlertsPage(alerts, db.channel))
    \/ Reply(m, Text)

alertsPage(m) == Serve(m, "GET", "/alerts") /\ Reads /\ renderAlerts(m, db.alerts)

\* Without a channel, or with a form that is refused, the page with a message.
createAlert(m) ==
    /\ Serve(m, "POST", "/alerts")
    /\ \/ Reads /\ renderAlerts(m, db.alerts)
       \/ db.channel /\ Writes(m, CreateAlert) /\ Redirect(m, "/alerts", <<>>)

editAlertPage(m) ==
    /\ Serve(m, "GET", "/alerts/{id}/edit")
    /\ Reads
    /\ Reply(m, IF m.req.args[1] \in db.alerts THEN AlertEditRow(m.req.args[1], db.channel) ELSE {})

updateAlert(m) == Serve(m, "PUT", "/alerts/{id}") /\ Reads /\ renderAlerts(m, db.alerts)

deleteAlert(m) ==
    /\ Serve(m, "DELETE", "/alerts/{id}")
    /\ \/ Writes(m, DeleteAlert(m.req.args[1])) /\ renderAlerts(m, db'.alerts)
       \/ Fails(m)

openAlertQuery(m) ==
    /\ Serve(m, "GET", "/alerts/open")
    /\ Reads
    /\ \E page \in {"/logs", "/metrics-explorer"} : Redirect(m, page, <<>>)

dryRunAlert(m) ==
    /\ Serve(m, "POST", "/alerts/{id}/test")
    /\ Reads
    /\ Reply(m, IF m.req.args[1] \in db.alerts THEN DryRunResult ELSE {})

-----------------------------------------------------------------------------
(* ui/settings.go, and the API keys in ui/router.go *)

\* Listing the keys or the targets may fail (a header that does not decrypt).
settingsView(m, keys, tgts) == Reply(m, SettingsPage(keys, tgts)) \/ Reply(m, Text)

settingsPage(m) == Serve(m, "GET", "/settings") /\ Reads /\ settingsView(m, db.keys, db.targets)

createApiKey(m) ==
    /\ Serve(m, "POST", "/settings/api-keys")
    /\ Writes(m, CreateKey \cup {db})
    /\ settingsView(m, db'.keys, db'.targets)

deleteApiKey(m) ==
    /\ Serve(m, "DELETE", "/settings/api-keys/{id}")
    /\ \/ Writes(m, RevokeKey(m.req.args[1]))
          /\ (Reply(m, ApiKeysSection(db'.keys)) \/ Reply(m, Text))
       \/ Fails(m)

\* Blank fields keep what is stored.
savePushover(m) ==
    /\ Serve(m, "POST", "/settings/pushover")
    /\ Writes(m, SetChannel \cup {db}) /\ Redirect(m, "/settings", <<>>)

saveCampfire(m) ==
    /\ Serve(m, "POST", "/settings/campfire")
    /\ Writes(m, SetChannel \cup {db}) /\ Redirect(m, "/settings", <<>>)

testPushover(m) ==
    Serve(m, "POST", "/settings/pushover/test") /\ Reads /\ Reply(m, ChannelTestResult)

testCampfire(m) ==
    Serve(m, "POST", "/settings/campfire/test") /\ Reads /\ Reply(m, ChannelTestResult)

createScrapeTarget(m) ==
    /\ Serve(m, "POST", "/settings/scrape-targets")
    /\ \/ Writes(m, CreateTarget) /\ Redirect(m, "/settings", <<>>)
       \/ Reads /\ settingsView(m, db.keys, db.targets)

renderScrapeTargetsSection(m, tgts) == Reply(m, ScrapeTargetsSection(tgts)) \/ Reply(m, Text)


toggleScrapeTarget(m) ==
    /\ Serve(m, "POST", "/settings/scrape-targets/{id}/toggle")
    /\ Writes(m, SetEnabled(m.req.args[1]) \cup {db})
    /\ renderScrapeTargetsSection(m, db'.targets)

deleteScrapeTarget(m) ==
    /\ Serve(m, "DELETE", "/settings/scrape-targets/{id}")
    /\ \/ Writes(m, DeleteTarget(m.req.args[1])) /\ renderScrapeTargetsSection(m, db'.targets)
       \/ Fails(m)

updateRetentionSettings(m) ==
    Serve(m, "PUT", "/settings/retention") /\ Reads /\ Reply(m, RetentionSection)

updateBackupSettings(m) ==
    Serve(m, "PUT", "/settings/backup") /\ Reads /\ Reply(m, BackupSection)

\* The request waits for the backup, or is told that one is running.
runBackupNow(m) ==
    /\ Serve(m, "POST", "/settings/backup/run")
    /\ \/ running /\ Reads /\ Reply(m, BackupSection)
       \/ /\ RunNow("button")
          /\ flight' = (flight \ {m}) \cup {[m EXCEPT !.step = "waiting"]}
          /\ UNCHANGED <<serverVars, dom, clean, area, ingested, writes, swaps, logins>>

runBackupNowReturns(m) ==
    /\ m.step = "waiting" /\ backup.run.by # "button"
    /\ Reads /\ Reply(m, BackupSection)

\* The backup job, and the steps of a run.
BackupJob ==
    /\ area = "backups"
    /\ Run \/ runBackup
    /\ UNCHANGED <<serverVars, dom, flight, clean, area, ingested, writes, swaps, logins>>

\* The server ends and is started again: sessions and requests are lost.
ServerRestarts ==
    /\ area = "backups" /\ logins < MaxLogins /\ session
    /\ session' = FALSE
    /\ BackupLost
    /\ flight' = {m \in flight : m.step = "answered"}
    /\ UNCHANGED <<db, csrf, dom, clean, area, ingested, writes, swaps, logins>>

-----------------------------------------------------------------------------
(* ui/logs.go, ui/warroom.go *)

\* The logs that match.
stored == IF ingested THEN Logs ELSE {}

\* Rows of a page of results (none for the page before the first log).
renderLogs(m, kind, rows, more) ==
    Reply(m, IF m.req.q = "page" /\ kind = "viewer" THEN LogRowsPage(rows, more)
             ELSE IF isHtmx(m) THEN LogsResults(kind, rows, more)
             ELSE LogsPage(kind, rows, more))

logsPage(m) ==
    /\ Serve(m, "GET", "/logs")
    /\ Reads
    /\ \/ \E more \in BOOLEAN : renderLogs(m, "viewer", stored, more)
       \/ \E kind \in {"table", "error"} : renderLogs(m, kind, {}, FALSE)

\* A log that retention has deleted is answered by an empty 404.
logDetailsPage(m) ==
    /\ Serve(m, "GET", "/logs/{id}")
    /\ Reads
    /\ LET l == m.req.args[1]
       IN \/ Reply(m, IF ~isHtmx(m) THEN LogDetailPage(l)
                      ELSE IF m.req.q = "block" THEN LogDetailBlock(l) ELSE LogDetailRow(l))
          \/ Reply(m, {})

\* A download leaves the page in place; a query that is refused does not.
Download(m) == flight' = flight \ {m} /\ UNCHANGED <<serverVars, dom, clean, bounds>>

exportLogs(m) ==
    Serve(m, "GET", "/logs/export") /\ (Download(m) \/ (Reads /\ Reply(m, Text)))

warRoomPage(m) ==
    /\ Serve(m, "GET", "/war-room")
    /\ Reads
    /\ Reply(m, IF m.req.q = "panes" THEN WarRoomPanes(stored) ELSE WarRoomPage(stored))

-----------------------------------------------------------------------------
(* ui/dashboards.go *)

\* Listing the dashboards, or the panels of one, may fail.
renderDashboardsList(m) == Reply(m, DashboardsListPage(db.dashboards)) \/ Reply(m, Text)

dashboardsPage(m) == Serve(m, "GET", "/dashboards") /\ Reads /\ renderDashboardsList(m)

createDashboard(m) ==
    /\ Serve(m, "POST", "/dashboards")
    /\ \/ /\ Writes(m, CreateDashboard)
          /\ \E d \in DOMAIN db'.dashboards \ DOMAIN db.dashboards :
                Redirect(m, "/dashboards/{id}", <<d>>)
       \/ Reads /\ renderDashboardsList(m)

renderDashboard(m, d) ==
    \/ /\ d \in DOMAIN db.dashboards
       /\ Reply(m, DashboardPage(d, db.dashboards[d], panelsOf(d)))
    \/ Reply(m, Text)

dashboardPage(m) ==
    Serve(m, "GET", "/dashboards/{id}") /\ Reads /\ renderDashboard(m, m.req.args[1])

deleteDashboard(m) ==
    /\ Serve(m, "DELETE", "/dashboards/{id}")
    /\ \/ Writes(m, DeleteDashboard(m.req.args[1])) /\ HxRedirect(m, "/dashboards")
       \/ Fails(m)

createPanel(m) ==
    /\ Serve(m, "POST", "/dashboards/{id}/panels")
    /\ LET d == m.req.args[1]
       IN \/ /\ d \in DOMAIN db.dashboards
             /\ Writes(m, CreatePanel(d)) /\ Redirect(m, "/dashboards/{id}", <<d>>)
          \/ Reads /\ renderDashboard(m, d)

\* The body of a panel, or with ?edit=1 its form, with ?card=1 the card.
panelFragment(m) ==
    /\ Serve(m, "GET", panelPath)
    /\ Reads
    /\ LET d == m.req.args[1]
           p == m.req.args[2]
       IN IF <<d, p>> \notin db.panels THEN Reply(m, Text)
          ELSE CASE m.req.q = "edit" -> Reply(m, PanelEditCard(d, p, db.dashboards[d]))
                 [] m.req.q = "card" -> Reply(m, PanelCard(d, p))
                 [] OTHER -> \/ Reply(m, Shaped)
                             \/ Reply(m, PanelFragment(db.dashboards[d], stored))

\* A panel that is gone, or a query that is refused, gets the form again.
updatePanel(m) ==
    /\ Serve(m, "PUT", panelPath)
    /\ Reads
    /\ LET d == m.req.args[1]
           p == m.req.args[2]
       IN \/ <<d, p>> \in db.panels /\ Reply(m, PanelCard(d, p))
          \/ Reply(m, PanelEditCard(d, p, IF d \in DOMAIN db.dashboards THEN db.dashboards[d]
                                          ELSE "metrics"))

deletePanel(m) ==
    /\ Serve(m, "DELETE", panelPath)
    /\ \/ Writes(m, DeletePanel(m.req.args[1], m.req.args[2])) /\ Reply(m, {})
       \/ Fails(m)

-----------------------------------------------------------------------------
(* ui/metrics.go *)

metricsDashboards == {d \in DOMAIN db.dashboards : db.dashboards[d] = "metrics"}

renderExplorer(m) ==
    \E kind \in {"error", "empty", "data"} \cup (IF ingested THEN {"catalog"} ELSE {}) :
       Reply(m, MetricsExplorerPage(kind, ingested, metricsDashboards))

metricsExplorerPage(m) == Serve(m, "GET", "/metrics-explorer") /\ Reads /\ renderExplorer(m)

saveExplorerPanel(m) ==
    /\ Serve(m, "POST", "/metrics-explorer/save-panel")
    /\ \/ \E d \in metricsDashboards :
             Writes(m, CreatePanel(d)) /\ Redirect(m, "/dashboards/{id}", <<d>>)
       \/ Reads /\ renderExplorer(m)

exportMetrics(m) ==
    Serve(m, "GET", "/metrics-explorer/export") /\ (Download(m) \/ (Reads /\ Reply(m, Text)))

compileDSL(m) == Serve(m, "GET", "/metrics-explorer/compile") /\ Reads /\ Reply(m, {})

filterOptions(m) == Serve(m, "GET", "/metrics-explorer/filter-options") /\ Reads /\ Reply(m, {})

-----------------------------------------------------------------------------
Handle(m) ==
    \/ csrfErrorHandler(m) \/ sessionAuth(m) \/ methodNotAllowed(m)
    \/ loginPage(m) \/ processLogin(m) \/ processLogout(m)
    \/ homePage(m) \/ homePageVolumeSegment(m) \/ homePageErrorsSegment(m)
    \/ homePageServicesSegment(m) \/ homePageMetricsServicesSegment(m) \/ homePageMetricsSegment(m)
    \/ alertsPage(m) \/ createAlert(m) \/ editAlertPage(m) \/ updateAlert(m) \/ deleteAlert(m)
    \/ openAlertQuery(m) \/ dryRunAlert(m)
    \/ settingsPage(m) \/ createApiKey(m) \/ deleteApiKey(m) \/ savePushover(m) \/ saveCampfire(m)
    \/ testPushover(m) \/ testCampfire(m) \/ createScrapeTarget(m) \/ toggleScrapeTarget(m)
    \/ deleteScrapeTarget(m) \/ updateRetentionSettings(m) \/ updateBackupSettings(m)
    \/ runBackupNow(m) \/ runBackupNowReturns(m) \/ logsPage(m) \/ logDetailsPage(m) \/ exportLogs(m) \/ warRoomPage(m)
    \/ dashboardsPage(m) \/ createDashboard(m) \/ dashboardPage(m) \/ deleteDashboard(m)
    \/ createPanel(m) \/ panelFragment(m) \/ updatePanel(m) \/ deletePanel(m)
    \/ metricsExplorerPage(m) \/ saveExplorerPanel(m) \/ exportMetrics(m) \/ compileDSL(m)
    \/ filterOptions(m)

Next ==
    \/ \E path \in {"/", "/login", "/logs", "/metrics-explorer", "/dashboards", "/alerts",
                   "/settings", "/war-room"} : Visit(path)
    \/ Click
    \/ Poll
    \/ \E m \in flight : Handle(m) \/ Receive(m)
    \/ Collapse \/ StreamEvent \/ BackupJob \/ ServerRestarts
    \/ OtherWrites \/ SessionEnds \/ OtherTabLogin \/ ClearCookies

Spec == Init /\ [][Next]_vars

-----------------------------------------------------------------------------
(* Properties *)

\* Whatever was swapped into the page, every control in it works: the router
\* has a handler for its request, the element it targets is in the page, once,
\* and a request that writes carries a CSRF token.
ControlsWork ==
    \A e \in dom : \A c \in Controls(e) :
       /\ <<c.req.verb, c.req.path>> \in Public \cup Protected
       /\ c.into # "document" => Cardinality(targets(e, c)) = 1
       /\ c.req.verb # "GET" => tokens(e, c) # {}

\* What refreshes itself keeps doing so: no answer, not even a login page,
\* takes away the element that polls, so a page left open recovers.
PollersStay ==
    \A e \in dom :
       /\ e.is = "HomePage" =>
             \A s \in Segments : \E f \in dom : f.is = "segment" /\ f.at = parent(e.at) \o <<s>>
       /\ e.is = "PanelCard" =>
             \E f \in dom : f.is = "panelBody" /\ f.at = e.at \o <<"panel-body">>

shown(kind) == {e.of : e \in {f \in dom : f.is \in kind}}

=============================================================================
