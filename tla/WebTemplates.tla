---------------------------- MODULE WebTemplates ----------------------------
(***************************************************************************)
(* The pages and fragments of the web UI (ui/templates), one definition    *)
(* per templ component.  Of its HTML a component keeps what the browser    *)
(* acts on: the elements htmx can swap, and the controls they carry        *)
(* (links, forms, hx-* attributes, scripts that send requests).            *)
(*                                                                         *)
(* An element is named by its path in the document, so that a swap can     *)
(* remove what is below its target.  A path segment is the element's id or *)
(* the class the code finds it by; "page" is a whole document, "main" the  *)
(* <main> of Shell.                                                        *)
(***************************************************************************)
EXTENDS Sequences

El(at, is, of) == [at |-> at, is |-> is, of |-> of]

\* The elements els, rendered inside the element at path p.
Under(p, els) == {[e EXCEPT !.at = p \o @] : e \in els}

\* Something with neither controls nor swappable parts, or an error message.
Text == {El(<<"text">>, "text", <<>>)}

\* A request, as the router sees it: q tells apart the query strings on which
\* a handler branches.
Req(verb, path, args, q) == [verb |-> verb, path |-> path, args |-> args, q |-> q]

\* A control: the request it sends, the element whose content the response
\* replaces, and where it takes the CSRF token from.
Control(req, into, swap, token) ==
    [req |-> req, into |-> into, swap |-> swap, token |-> token]
Link(path, args) ==
    Control(Req("GET", path, args, ""), "document", "page", "none")
Form(path, args) ==
    Control(Req("POST", path, args, ""), "document", "page", "field")
Hx(verb, path, args, q, into, swap) ==
    Control(Req(verb, path, args, q), into, swap,
            IF verb = "GET" THEN "none" ELSE "inherited")
\* A script's fetch, whose answer is not swapped.
Fetch(path) == Control(Req("GET", path, <<>>, ""), "this", "none", "none")

-----------------------------------------------------------------------------
(* layout.templ, login.templ *)

menuLink(path) == Link(path, <<>>)

navLink(path) == Link(path, <<>>)

ShellControls ==
    LET paths == {"/", "/logs", "/metrics-explorer", "/dashboards", "/alerts", "/settings"}
    IN {menuLink(p) : p \in paths} \cup {navLink(p) : p \in paths} \cup {Form("/logout", <<>>)}

\* hx-headers:inherited on main gives the token to every htmx request below it.
Shell(children) == {El(<<"page">>, "Shell", <<>>)} \cup Under(<<"page", "main">>, children)

LoginPage == {El(<<"page">>, "LoginPage", <<>>)}

LoginControls == {Form("/login", <<>>)}

-----------------------------------------------------------------------------
(* home.templ: segments that load themselves and poll every 30 s. *)

Segments == {"volume", "errors", "services", "metrics", "metrics-services"}

HomePage ==
    Shell({El(<<"home">>, "HomePage", <<>>)}
          \cup {El(<<s>>, "segment", <<s>>) : s \in Segments})

HomeControls == {Link("/logs", <<>>), Link("/war-room", <<>>)}

segmentPath(s) ==
    CASE s = "volume" -> "/home/volume"
      [] s = "errors" -> "/home/errors"
      [] s = "services" -> "/home/services"
      [] s = "metrics" -> "/home/metrics"
      [] s = "metrics-services" -> "/home/metrics-services"

segmentControls(s) == {Hx("GET", segmentPath(s), <<>>, "", "this", "innerHTML")}

\* The fragments: some is whether there is anything to show, failing whether
\* a scrape target failed.
HomeVolume(some) == Text

HomeErrors(some) == IF some THEN {El(<<"rows">>, "logLinks", <<>>)} ELSE Text

HomeServices(some) == IF some THEN {El(<<"rows">>, "logLinks", <<>>)} ELSE Text

HomeMetricsServices(some) ==
    {El(<<"rows">>, IF some THEN "metricLinks" ELSE "settingsLink", <<>>)}

HomeMetrics(some, failing) ==
    IF some \/ failing
    THEN {El(<<"rows">>, "metricLinks", <<>>)}
         \cup (IF failing THEN {El(<<"failing">>, "settingsLink", <<>>)} ELSE {})
    ELSE {El(<<"rows">>, "settingsLink", <<>>)}

-----------------------------------------------------------------------------
(* alerts.templ *)

alertRow(a) == El(<<"alert", a>>, "alertRow", <<a>>)

alertRowControls(a) ==
    {Hx("POST", "/alerts/{id}/test", <<a>>, "", "dry-run", "innerHTML"),
     Hx("GET", "/alerts/{id}/edit", <<a>>, "", "this", "outerHTML"),
     Hx("DELETE", "/alerts/{id}", <<a>>, "", "alerts-region", "outerHTML")}

\* Variation of AlertsRegion: the place for dry-run results is outside the region.
AlertsRegionWithoutDryRun(alerts) ==
    {El(<<"alerts-region">>, "text", <<>>)}
    \cup Under(<<"alerts-region">>, {alertRow(a) : a \in alerts})

AlertsRegion(alerts) ==
    {El(<<"alerts-region">>, "text", <<>>), El(<<"alerts-region", "dry-run">>, "text", <<>>)}
    \cup Under(<<"alerts-region">>, {alertRow(a) : a \in alerts})

\* Without a configured channel the form links to the settings; its script
\* opens the query in the page that can run it.
alertFormFields(channel) ==
    {Link("/alerts/open", <<>>)} \cup (IF channel THEN {} ELSE {Link("/settings", <<>>)})

alertForm(method, a, channel) ==
    alertFormFields(channel) \cup
    IF method = "POST" THEN {Form("/alerts", <<>>)}
    ELSE {Hx("PUT", "/alerts/{id}", <<a>>, "", "alerts-region", "outerHTML"),
          Hx("GET", "/alerts", <<>>, "", "alerts-region", "outerHTML")}

channelOf(channel) == IF channel THEN "channel" ELSE "none"

alertCreateCard(channel) == {El(<<"create">>, "alertCreateCard", <<channelOf(channel)>>)}

AlertsPage(alerts, channel) == Shell(alertCreateCard(channel) \cup AlertsRegion(alerts))

AlertEditRow(a, channel) == {El(<<"alert", a>>, "AlertEditRow", <<a, channelOf(channel)>>)}

DryRunResult == {El(<<"dry-run-result">>, "text", <<>>)}

-----------------------------------------------------------------------------
(* settings.templ *)

apiKeyControls(k) == {Hx("DELETE", "/settings/api-keys/{id}", <<k>>, "", "api-keys", "outerHTML")}

ApiKeysSection(keys) ==
    {El(<<"api-keys">>, "ApiKeysSection", <<>>)}
    \cup {El(<<"api-keys", "key", k>>, "apiKey", <<k>>) : k \in keys}

ApiKeysControls == {Form("/settings/api-keys", <<>>)}

PushoverSection ==
    {El(<<"pushover">>, "PushoverSection", <<>>), El(<<"pushover-test-result">>, "text", <<>>)}

PushoverControls ==
    {Form("/settings/pushover", <<>>),
     Hx("POST", "/settings/pushover/test", <<>>, "", "pushover-test-result", "innerHTML")}

CampfireSection ==
    {El(<<"campfire">>, "CampfireSection", <<>>), El(<<"campfire-test-result">>, "text", <<>>)}

CampfireControls ==
    {Form("/settings/campfire", <<>>),
     Hx("POST", "/settings/campfire/test", <<>>, "", "campfire-test-result", "innerHTML")}

ChannelTestResult == {El(<<"test-result">>, "text", <<>>)}

\* targets maps an id to "on" or "off".
ScrapeTargetsSection(targets) ==
    {El(<<"scrape-targets">>, "ScrapeTargetsSection", <<>>)}
    \cup {El(<<"scrape-targets", "target", t>>, "scrapeTarget", <<t, targets[t]>>) :
             t \in DOMAIN targets}

ScrapeTargetsControls == {Form("/settings/scrape-targets", <<>>)}

scrapeTargetControls(t) ==
    {Hx("POST", "/settings/scrape-targets/{id}/toggle", <<t>>, "", "scrape-targets", "outerHTML"),
     Hx("DELETE", "/settings/scrape-targets/{id}", <<t>>, "", "scrape-targets", "outerHTML")}

RetentionSection == {El(<<"retention-section">>, "RetentionSection", <<>>)}

RetentionControls ==
    {Hx("PUT", "/settings/retention", <<>>, "", "retention-section", "outerHTML")}

BackupSection == {El(<<"backup-section">>, "BackupSection", <<>>)}

\* The run button carries a token of its own.
BackupControls ==
    {Hx("PUT", "/settings/backup", <<>>, "", "backup-section", "outerHTML"),
     Control(Req("POST", "/settings/backup/run", <<>>, ""), "backup-section", "outerHTML", "header")}

SettingsPage(keys, targets) ==
    Shell(ApiKeysSection(keys) \cup PushoverSection \cup CampfireSection
          \cup ScrapeTargetsSection(targets) \cup RetentionSection \cup BackupSection)

-----------------------------------------------------------------------------
(* quickquery.templ, editor.templ *)

QuickQueryBlock == {Fetch("/metrics-explorer/compile"), Fetch("/metrics-explorer/filter-options")}

-----------------------------------------------------------------------------
(* logs.templ *)

logRowTr(l) == El(<<"log", l>>, "logRow", <<l>>)

\* The level and service cells filter; a click on the row expands it.
logRowControls(l) ==
    {Hx("GET", "/logs", <<>>, "", "results", "innerHTML"),
     Hx("GET", "/logs/{id}", <<l>>, "", "this", "afterend")}

pageSentinel(more) == IF more THEN {El(<<"sentinel">>, "pageSentinel", <<>>)} ELSE {}

sentinelControls == {Hx("GET", "/logs", <<>>, "page", "this", "outerHTML")}

LogRowsPage(rows, more) == pageSentinel(more) \cup {logRowTr(l) : l \in rows}

exportFooter == El(<<"export">>, "exportFooter", <<>>)

exportControls == {Link("/logs/export", <<>>)}

logViewer(rows, more) ==
    {exportFooter, El(<<"log-scroll">>, "text", <<>>), El(<<"log-scroll", "log-rows">>, "text", <<>>)}
    \cup Under(<<"log-scroll", "log-rows">>, LogRowsPage(rows, more))

genericTable == {exportFooter, El(<<"log-scroll">>, "text", <<>>)}

\* kind is "viewer", "table" or "error".
LogsResults(kind, rows, more) ==
    CASE kind = "viewer" -> logViewer(rows, more)
      [] kind = "table" -> genericTable
      [] kind = "error" -> Text

LogsPage(kind, rows, more) ==
    Shell({El(<<"query-form">>, "LogsPage", <<>>), El(<<"results">>, "text", <<>>)}
          \cup Under(<<"results">>, LogsResults(kind, rows, more)))

\* The query form; resetting the query and resuming the live tail submit it.
LogsControls == {Hx("GET", "/logs", <<>>, "", "results", "innerHTML")}

LogDetailRow(l) == {El(<<"detail", l>>, "text", <<>>)}

LogDetailBlock(l) == {El(<<"detail", l>>, "text", <<>>)}

LogDetailPage(l) == Shell({El(<<"back">>, "logLinks", <<>>)})

-----------------------------------------------------------------------------
(* dashboards.templ *)

\* A row of a log stream in a panel or the war room: a click expands it.
streamRowControls(l) == {Hx("GET", "/logs/{id}", <<l>>, "block", "this", "afterend")}

streamPanel(rows) == {El(<<"log", l>>, "streamRow", <<l>>) : l \in rows}

\* A result as a stat, a table or a chart, or a message.
Shaped == Text

PanelFragment(type, rows) == IF type = "logs" THEN streamPanel(rows) ELSE Shaped

\* The body of a card loads itself and polls every 30 s.
PanelCard(d, p) ==
    {El(<<"panel-card", p>>, "PanelCard", <<d, p>>),
     El(<<"panel-card", p, "panel-body">>, "panelBody", <<d, p>>)}

panelPath == "/dashboards/{id}/panels/{pid}"

PanelCardControls(d, p) ==
    {Hx("GET", panelPath, <<d, p>>, "edit", "this", "outerHTML"),
     Hx("DELETE", panelPath, <<d, p>>, "", "this", "outerHTML")}

\* Variation of panelBodyControls: the answer replaces the polling element.
panelBodyControlsOuter(d, p) == {Hx("GET", panelPath, <<d, p>>, "", "this", "outerHTML")}

panelBodyControls(d, p) == {Hx("GET", panelPath, <<d, p>>, "", "this", "innerHTML")}

PanelsRegion(d, panels) ==
    {El(<<"panels-region">>, "text", <<>>)}
    \cup Under(<<"panels-region">>, UNION {PanelCard(d, p) : p \in panels})

\* The query opens in the page for the dashboard's signal.
panelFormFields(type) ==
    IF type = "logs" THEN {Link("/logs", <<>>)}
    ELSE {Link("/metrics-explorer", <<>>)} \cup QuickQueryBlock

PanelEditCard(d, p, type) == {El(<<"panel-card", p>>, "PanelEditCard", <<d, p, type>>)}

PanelEditControls(d, p, type) ==
    panelFormFields(type) \cup
    {Hx("PUT", panelPath, <<d, p>>, "", "this", "outerHTML"),
     Hx("GET", panelPath, <<d, p>>, "card", "this", "outerHTML")}

DashboardPage(d, type, panels) ==
    Shell({El(<<"dashboard">>, "DashboardPage", <<d, type>>)} \cup PanelsRegion(d, panels))

DashboardControls(d, type) ==
    panelFormFields(type) \cup
    {Link("/dashboards", <<>>), Form("/dashboards/{id}/panels", <<d>>),
     Hx("DELETE", "/dashboards/{id}", <<d>>, "", "this", "innerHTML")}

\* dashboards maps an id to its type.
DashboardsListPage(dashboards) ==
    Shell({El(<<"dashboards">>, "DashboardsListPage", <<>>)}
          \cup {El(<<"dashboard", d>>, "dashboardLink", <<d, dashboards[d]>>) :
                   d \in DOMAIN dashboards})

-----------------------------------------------------------------------------
(* metrics.templ *)

\* Before the first query the page lists the metrics.
catalog == {El(<<"catalog">>, "metricLinks", <<>>)}

\* kind is "catalog", "error", "empty" or "data"; some is whether there are metrics.
MetricsExplorerPage(kind, some, dashboards) ==
    Shell({El(<<"explorer">>, "MetricsExplorerPage", <<>>)}
          \cup (IF kind = "catalog" THEN catalog ELSE {})
          \cup (IF kind = "empty" /\ ~some THEN {El(<<"empty">>, "settingsLink", <<>>)} ELSE {})
          \cup (IF kind = "data"
                THEN {El(<<"views">>, "viewSegment", <<>>),
                      El(<<"save">>, IF dashboards = {} THEN "dashboardsLink" ELSE "saveAsPanel", <<>>)}
                ELSE {}))

\* The query form and Reset.
ExplorerControls == {Link("/metrics-explorer", <<>>)} \cup QuickQueryBlock

viewSegment == {Link("/metrics-explorer", <<>>), Link("/metrics-explorer/export", <<>>)}

saveAsPanel == {Form("/metrics-explorer/save-panel", <<>>)}

-----------------------------------------------------------------------------
(* warroom.templ *)

warWindowLabel == {El(<<"war-window-label">>, "text", <<>>)}

warMetricChart == {El(<<"war-chart">>, "text", <<>>)}

warMini == {El(<<"war-mini">>, "text", <<>>)}

warLogs(rows) ==
    {El(<<"war-logs">>, "text", <<>>)} \cup Under(<<"war-logs">>, streamPanel(rows))

WarRoomPanes(rows) == warWindowLabel \cup warMetricChart \cup warMini \cup warLogs(rows)

WarRoomPage(rows) ==
    Shell({El(<<"war-form">>, "WarRoomPage", <<>>)} \cup WarRoomPanes(rows))

\* The window form, its presets and Reset; every 15 s the panes are fetched
\* and replaced by their ids.
WarRoomControls ==
    {Link("/war-room", <<>>), Hx("GET", "/war-room", <<>>, "panes", "this", "oob")} \cup QuickQueryBlock

-----------------------------------------------------------------------------
Controls(e) ==
    CASE e.is = "Shell" -> ShellControls
      [] e.is = "LoginPage" -> LoginControls
      [] e.is = "HomePage" -> HomeControls
      [] e.is = "segment" -> segmentControls(e.of[1])
      [] e.is = "logLinks" -> {Link("/logs", <<>>)}
      [] e.is = "metricLinks" -> {Link("/metrics-explorer", <<>>)}
      [] e.is = "settingsLink" -> {Link("/settings", <<>>)}
      [] e.is = "dashboardsLink" -> {Link("/dashboards", <<>>)}
      [] e.is = "alertRow" -> alertRowControls(e.of[1])
      [] e.is = "alertCreateCard" -> alertForm("POST", "new", e.of[1] = "channel")
      [] e.is = "AlertEditRow" -> alertForm("PUT", e.of[1], e.of[2] = "channel")
      [] e.is = "ApiKeysSection" -> ApiKeysControls
      [] e.is = "apiKey" -> apiKeyControls(e.of[1])
      [] e.is = "PushoverSection" -> PushoverControls
      [] e.is = "CampfireSection" -> CampfireControls
      [] e.is = "ScrapeTargetsSection" -> ScrapeTargetsControls
      [] e.is = "scrapeTarget" -> scrapeTargetControls(e.of[1])
      [] e.is = "RetentionSection" -> RetentionControls
      [] e.is = "BackupSection" -> BackupControls
      [] e.is = "LogsPage" -> LogsControls
      [] e.is = "logRow" -> logRowControls(e.of[1])
      [] e.is = "pageSentinel" -> sentinelControls
      [] e.is = "exportFooter" -> exportControls
      [] e.is = "streamRow" -> streamRowControls(e.of[1])
      [] e.is = "DashboardsListPage" -> {Form("/dashboards", <<>>)}
      [] e.is = "dashboardLink" -> {Link("/dashboards/{id}", <<e.of[1]>>)}
      [] e.is = "DashboardPage" -> DashboardControls(e.of[1], e.of[2])
      [] e.is = "PanelCard" -> PanelCardControls(e.of[1], e.of[2])
      [] e.is = "panelBody" -> panelBodyControls(e.of[1], e.of[2])
      [] e.is = "PanelEditCard" -> PanelEditControls(e.of[1], e.of[2], e.of[3])
      [] e.is = "MetricsExplorerPage" -> ExplorerControls
      [] e.is = "viewSegment" -> viewSegment
      [] e.is = "saveAsPanel" -> saveAsPanel
      [] e.is = "WarRoomPage" -> WarRoomControls
      [] OTHER -> {}

\* The controls that fire by a timer.
Polls(e) == IF e.is \in {"segment", "panelBody", "WarRoomPage"}
            THEN {c \in Controls(e) : c.swap \in {"innerHTML", "oob"}} ELSE {}
=============================================================================
