---------------------------- MODULE WebUIProofs ----------------------------
(***************************************************************************)
(* Proofs about the web UI, for any rows, logs and bounds.                 *)
(*                                                                         *)
(* BackupsReported: the inductive invariant is BackupInv, and every step   *)
(* of the UI does to the backups what BackupStep lists.                    *)
(*                                                                         *)
(* PollersRemain: the inductive invariant is PageInv.  Sound says of a set *)
(* of elements how their paths end (Placed) and that what polls is there   *)
(* (Polling); every template makes a sound Fragment in which no element    *)
(* has the name of a poller.  Aimed says of a control where its answer     *)
(* goes, so that the messages under way (Message) may replace no poller    *)
(* and fill no row (MayReplace), and Tables keeps rows and names apart.    *)
(***************************************************************************)
EXTENDS WebUI, SequenceTheorems, TLAPS

-----------------------------------------------------------------------------
(* The backups.                                                            *)

Steps == {"none", "copy", "upload", "ran", "timed", "untimed"}
Runs == [step : Steps, by : {"", "schedule", "button"}, ok : BOOLEAN]
Times == {"never", "same", "other"}
Backups ==
    [run : Runs, sent : Nat, ok : BOOLEAN, time : Times, whole : BOOLEAN, lost : BOOLEAN]

\* The steps of a run that has its outcome.
Recording == {"ran", "timed", "untimed"}

\* A run in its states: only an error makes run.ok false, and a run that has
\* ended without one has uploaded every database; a time that could not be
\* written is a loss.
RunInv ==
    /\ backup \in Backups
    /\ backup.run.step \in Recording /\ backup.run.ok => backup.sent = Cardinality(Dbs)
    /\ backup.run.step = "untimed" => backup.lost

\* What last_result and last_run_at say, in every state of the settings.
ResultTrue == backup.ok => backup.whole
TimeTrue ==
    backup.ok /\ backup.time = "other" => backup.run.step = "timed" \/ backup.lost

BackupInv == RunInv /\ ResultTrue /\ TimeTrue

\* What a step may do to the backups.
BackupStep ==
    \/ \E by \in {"schedule", "button"} : RunNow(by)
    \/ runBackup \/ BackupLost \/ UNCHANGED backup

\* The parts of the backups, and their types.
LEMMA BackupParts ==
    ASSUME NEW b \in Backups
    PROVE  /\ b.run \in Runs /\ b.run.step \in Steps /\ b.run.by \in {"", "schedule", "button"}
           /\ b.run.ok \in BOOLEAN
           /\ b.sent \in Nat /\ b.ok \in BOOLEAN /\ b.time \in Times
           /\ b.whole \in BOOLEAN /\ b.lost \in BOOLEAN
<1>1. /\ b.run \in Runs /\ b.sent \in Nat /\ b.ok \in BOOLEAN /\ b.time \in Times
      /\ b.whole \in BOOLEAN /\ b.lost \in BOOLEAN
  BY DEF Backups
<1>2. \A r \in Runs : /\ r.step \in Steps /\ r.by \in {"", "schedule", "button"}
                      /\ r.ok \in BOOLEAN
  BY DEF Runs
<1> QED BY <1>1, <1>2

\* The backups, written down by their parts.
RunOf(step, by, ok) == [step |-> step, by |-> by, ok |-> ok]
Made(run, sent, ok, time, whole, lost) ==
    [run |-> run, sent |-> sent, ok |-> ok, time |-> time, whole |-> whole, lost |-> lost]

LEMMA BackupWritten ==
    ASSUME NEW b \in Backups
    PROVE  b = Made(RunOf(b.run.step, b.run.by, b.run.ok), b.sent, b.ok, b.time, b.whole, b.lost)
<1>1. b = Made(b.run, b.sent, b.ok, b.time, b.whole, b.lost)
  BY DEF Backups, Made
<1>2. ASSUME NEW r \in Runs PROVE r = RunOf(r.step, r.by, r.ok)
  <2>1. DOMAIN r = {"step", "by", "ok"} /\ r = [x \in DOMAIN r |-> r[x]]
    BY DEF Runs
  <2> QED BY <2>1 DEF RunOf
<1> QED BY <1>1, <1>2, BackupParts, Zenon

\* Backups whose parts are as the invariant wants them satisfy it.
Kept(step, by, outcome, sent, ok, time, whole, lost) ==
    /\ step \in Steps /\ by \in {"", "schedule", "button"} /\ outcome \in BOOLEAN
    /\ sent \in Nat /\ ok \in BOOLEAN /\ time \in Times /\ whole \in BOOLEAN /\ lost \in BOOLEAN
    /\ step \in Recording /\ outcome => sent = Cardinality(Dbs)
    /\ step = "untimed" => lost
    /\ ok => whole
    /\ ok /\ time = "other" => step = "timed" \/ lost

LEMMA BackupMade ==
    ASSUME NEW step, NEW by, NEW outcome, NEW sent, NEW ok, NEW time, NEW whole, NEW lost,
           Kept(step, by, outcome, sent, ok, time, whole, lost),
           backup' = Made(RunOf(step, by, outcome), sent, ok, time, whole, lost)
    PROVE  BackupInv'
<1>1. RunOf(step, by, outcome) \in Runs
  BY DEF RunOf, Runs, Kept
<1>2. Made(RunOf(step, by, outcome), sent, ok, time, whole, lost) \in Backups
  BY <1>1 DEF Made, Backups, Kept
<1>3. /\ backup'.run = RunOf(step, by, outcome)
      /\ backup'.sent = sent /\ backup'.ok = ok /\ backup'.time = time
      /\ backup'.whole = whole /\ backup'.lost = lost
  BY DEF Made
<1>4. RunOf(step, by, outcome).step = step /\ RunOf(step, by, outcome).ok = outcome
  BY DEF RunOf
<1>5. backup'.run.step = step /\ backup'.run.ok = outcome
  BY <1>3, <1>4, Zenon
<1>6. RunInv'
  BY <1>2, <1>3, <1>5, Zenon DEF RunInv, Kept
<1> QED BY <1>3, <1>5, <1>6, Zenon DEF BackupInv, ResultTrue, TimeTrue, Kept

\* The steps of a run, its start and its loss preserve the invariant.
LEMMA BackupKept == ASSUME BackupInv, BackupStep PROVE BackupInv'
<1> DEFINE step == backup.run.step
           by == backup.run.by
           outcome == backup.run.ok
           sent == backup.sent
           ok == backup.ok
           time == backup.time
           whole == backup.whole
           lost == backup.lost
           all == sent = Cardinality(Dbs)
<1>0. backup \in Backups
  BY Zenon DEF BackupInv, RunInv
<1>1. /\ step \in Steps /\ by \in {"", "schedule", "button"} /\ outcome \in BOOLEAN
      /\ sent \in Nat /\ ok \in BOOLEAN /\ time \in Times /\ whole \in BOOLEAN
      /\ lost \in BOOLEAN
  BY <1>0, BackupParts, Zenon
<1>2. backup = Made(RunOf(step, by, outcome), sent, ok, time, whole, lost)
  BY <1>0, BackupWritten, Zenon
<1>3. /\ step \in Recording /\ outcome => sent = Cardinality(Dbs)
      /\ step = "untimed" => lost
      /\ ok => whole
      /\ ok /\ time = "other" => step = "timed" \/ lost
  BY Zenon DEF BackupInv, RunInv, ResultTrue, TimeTrue
<1>4. all \in BOOLEAN /\ (lost \/ step = "timed") \in BOOLEAN
  BY <1>1, Zenon
<1>5. /\ {"none", "copy", "upload", "ran", "timed", "untimed"} \subseteq Steps
      /\ {"never", "same", "other"} \subseteq Times
      /\ "none" \notin Recording /\ "copy" \notin Recording /\ "upload" \notin Recording
      /\ "ran" \in Recording /\ "timed" \in Recording /\ "untimed" \in Recording
  BY DEF Steps, Times, Recording
<1>6. sent + 1 \in Nat
  <2>1. sent \in Nat
    BY <1>1, Zenon
  <2> HIDE DEF sent
  <2> QED BY <2>1
<1>a. ASSUME NEW who \in {"schedule", "button"}, RunNow(who) PROVE BackupInv'
  <2>1. step = "none"
    BY <1>a DEF RunNow, running
  <2>2. backup' = Made(RunOf("copy", who, TRUE), 0, ok, time, whole, lost)
    <3>1. backup' = [backup EXCEPT !.run = [step |-> "copy", by |-> who, ok |-> TRUE], !.sent = 0]
      BY <1>a DEF RunNow
    <3> HIDE DEF step, by, outcome, sent, ok, time, whole, lost
    <3> QED BY <1>2, <3>1 DEF Made, RunOf
  <2>3. who \in {"", "schedule", "button"} /\ 0 \in Nat
    OBVIOUS
  <2>4. "copy" # "untimed" /\ (ok /\ time = "other" => lost)
    BY <1>3, <2>1
  <2>9. Kept("copy", who, TRUE, 0, ok, time, whole, lost)
    BY <1>1, <1>3, <1>5, <1>6, <2>2, <2>3, <2>4, Zenon DEF Kept
  <2> HIDE DEF step, by, outcome, sent, ok, time, whole, lost
  <2> QED BY <2>2, <2>9, BackupMade
<1>b. ASSUME backup' = failed, step \in {"copy", "upload"} PROVE BackupInv'
  <2>1. backup' = Made(RunOf("ran", by, FALSE), sent, ok, time, whole, lost)
    <3>1. backup' = [backup EXCEPT !.run.step = "ran", !.run.ok = FALSE]
      BY <1>b DEF failed
    <3> HIDE DEF step, by, outcome, sent, ok, time, whole, lost
    <3> QED BY <1>2, <3>1 DEF Made, RunOf
  <2>2. "ran" # "untimed" /\ (ok /\ time = "other" => lost)
    BY <1>3, <1>b
  <2>9. Kept("ran", by, FALSE, sent, ok, time, whole, lost)
    BY <1>1, <1>3, <1>5, <1>6, <2>1, <2>2, Zenon DEF Kept
  <2> HIDE DEF step, by, outcome, sent, ok, time, whole, lost
  <2> QED BY <2>1, <2>9, BackupMade
<1>c. CASE backupDB
  <2>1. step = "copy" /\ backup' \in {failed, [backup EXCEPT !.run.step = "upload"]}
    BY <1>c DEF backupDB
  <2>2. CASE backup' = [backup EXCEPT !.run.step = "upload"]
    <3>1. backup' = Made(RunOf("upload", by, outcome), sent, ok, time, whole, lost)
      <4> HIDE DEF step, by, outcome, sent, ok, time, whole, lost
      <4> QED BY <1>2, <2>2 DEF Made, RunOf
    <3>2. "upload" # "untimed" /\ (ok /\ time = "other" => lost)
      BY <1>3, <2>1
    <3>9. Kept("upload", by, outcome, sent, ok, time, whole, lost)
      BY <1>1, <1>3, <1>5, <1>6, <3>1, <3>2, Zenon DEF Kept
    <3> HIDE DEF step, by, outcome, sent, ok, time, whole, lost
    <3> QED BY <3>1, <3>9, BackupMade
  <2> QED BY <1>b, <2>1, <2>2
<1>d. CASE PutObject
  <2> DEFINE more == [backup EXCEPT !.sent = @ + 1]
  <2>1. step = "upload" /\ backup' \in {failed, IF more.sent = Cardinality(Dbs)
                               THEN [more EXCEPT !.run.step = "ran"] ELSE more}
    BY <1>d DEF PutObject
  <2>2. more = Made(RunOf(step, by, outcome), sent + 1, ok, time, whole, lost)
    <3> HIDE DEF step, by, outcome, sent, ok, time, whole, lost
    <3> QED BY <1>2 DEF Made
  <2>3. ok /\ time = "other" => lost
    BY <1>3, <2>1
  <2> HIDE DEF more
  <2>4. CASE backup' = more
    <3>1. step \notin Recording /\ step # "untimed"
      BY <1>5, <2>1
    <3>9. Kept(step, by, outcome, sent + 1, ok, time, whole, lost)
      BY <1>1, <1>3, <1>5, <1>6, <2>2, <2>3, <2>4, <3>1, Zenon DEF Kept
    <3> HIDE DEF step, by, outcome, sent, ok, time, whole, lost
    <3> QED BY <2>2, <2>4, <3>9, BackupMade
  <2>5. CASE more.sent = Cardinality(Dbs) /\ backup' = [more EXCEPT !.run.step = "ran"]
    <3>1. sent + 1 = Cardinality(Dbs)
      <4>1. more.sent = sent + 1
        <5> HIDE DEF step, by, outcome, sent, ok, time, whole, lost
        <5> QED BY <2>2 DEF Made
      <4> QED BY <2>5, <4>1, Zenon
    <3>2. backup' = Made(RunOf("ran", by, outcome), sent + 1, ok, time, whole, lost)
      <4> HIDE DEF step, by, outcome, sent, ok, time, whole, lost
      <4> QED BY <2>2, <2>5 DEF Made, RunOf
    <3>3. "ran" # "untimed"
      OBVIOUS
    <3>9. Kept("ran", by, outcome, sent + 1, ok, time, whole, lost)
      BY <1>1, <1>3, <1>5, <1>6, <2>3, <3>1, <3>2, <3>3, Zenon DEF Kept
    <3> HIDE DEF step, by, outcome, sent, ok, time, whole, lost
    <3> QED BY <3>2, <3>9, BackupMade
  <2>6. backup' = failed \/ backup' = more
        \/ (more.sent = Cardinality(Dbs) /\ backup' = [more EXCEPT !.run.step = "ran"])
    BY <2>1, Zenon
  <2> QED BY <1>b, <2>1, <2>4, <2>5, <2>6
<1>e. CASE RecordTime
  <2>1. step = "ran" /\ backup' \in {[backup EXCEPT !.run.step = "timed", !.time = "other"],
                                     [backup EXCEPT !.run.step = "untimed", !.lost = TRUE]}
    BY <1>e DEF RecordTime
  <2>2. outcome => sent = Cardinality(Dbs)
    BY <1>3, <1>5, <2>1
  <2>3. CASE backup' = [backup EXCEPT !.run.step = "timed", !.time = "other"]
    <3>1. backup' = Made(RunOf("timed", by, outcome), sent, ok, "other", whole, lost)
      <4> HIDE DEF step, by, outcome, sent, ok, time, whole, lost
      <4> QED BY <1>2, <2>3 DEF Made, RunOf
    <3>2. "timed" # "untimed"
      OBVIOUS
    <3>9. Kept("timed", by, outcome, sent, ok, "other", whole, lost)
      BY <1>1, <1>3, <1>5, <1>6, <2>2, <3>1, <3>2, Zenon DEF Kept
    <3> HIDE DEF step, by, outcome, sent, ok, time, whole, lost
    <3> QED BY <3>1, <3>9, BackupMade
  <2>4. CASE backup' = [backup EXCEPT !.run.step = "untimed", !.lost = TRUE]
    <3>1. backup' = Made(RunOf("untimed", by, outcome), sent, ok, time, whole, TRUE)
      <4> HIDE DEF step, by, outcome, sent, ok, time, whole, lost
      <4> QED BY <1>2, <2>4 DEF Made, RunOf
    <3>9. Kept("untimed", by, outcome, sent, ok, time, whole, TRUE)
      BY <1>1, <1>3, <1>5, <1>6, <2>2, <3>1, Zenon DEF Kept
    <3> HIDE DEF step, by, outcome, sent, ok, time, whole, lost
    <3> QED BY <3>1, <3>9, BackupMade
  <2> QED BY <2>1, <2>3, <2>4
<1>f. CASE RecordResult
  <2> DEFINE untimed == step = "untimed"
             when == IF ~untimed THEN "same" ELSE IF time = "never" THEN time ELSE "other"
  <2>1. /\ step \in {"timed", "untimed"}
        /\ \/ backup' = [backup EXCEPT !.run = NoRun, !.ok = outcome, !.whole = all,
                                        !.time = when, !.lost = untimed]
           \/ backup' = [backup EXCEPT !.run = NoRun, !.lost = TRUE]
    BY <1>f DEF RecordResult
  <2>2. /\ outcome => all
        /\ untimed \in BOOLEAN /\ when \in Times
        /\ when = "other" => untimed
    BY <1>1, <1>3, <1>5, <2>1 DEF Times
  <2> HIDE DEF untimed, when, all
  <2>3. CASE backup' = [backup EXCEPT !.run = NoRun, !.ok = outcome, !.whole = all,
                                      !.time = when, !.lost = untimed]
    <3>1. backup' = Made(RunOf("none", "", FALSE), sent, outcome, when, all, untimed)
      <4> HIDE DEF step, by, outcome, sent, ok, time, whole, lost
      <4> QED BY <1>2, <2>3 DEF Made, RunOf, NoRun
    <3>2. "none" # "untimed" /\ "" \in {"", "schedule", "button"}
      OBVIOUS
    <3>9. Kept("none", "", FALSE, sent, outcome, when, all, untimed)
      BY <1>1, <1>4, <1>5, <1>6, <2>2, <3>1, <3>2, Zenon DEF Kept
    <3> HIDE DEF step, by, outcome, sent, ok, time, whole, lost
    <3> QED BY <3>1, <3>9, BackupMade
  <2>4. CASE backup' = [backup EXCEPT !.run = NoRun, !.lost = TRUE]
    <3>1. backup' = Made(RunOf("none", "", FALSE), sent, ok, time, whole, TRUE)
      <4> HIDE DEF step, by, outcome, sent, ok, time, whole, lost
      <4> QED BY <1>2, <2>4 DEF Made, RunOf, NoRun
    <3>2. "none" # "untimed" /\ "" \in {"", "schedule", "button"}
      OBVIOUS
    <3>9. Kept("none", "", FALSE, sent, ok, time, whole, TRUE)
      BY <1>1, <1>3, <1>5, <1>6, <3>1, <3>2, Zenon DEF Kept
    <3> HIDE DEF step, by, outcome, sent, ok, time, whole, lost
    <3> QED BY <3>1, <3>9, BackupMade
  <2> QED BY <2>1, <2>3, <2>4
<1>g. CASE BackupLost
  <2> DEFINE cut == lost \/ step = "timed"
  <2>1. backup' = [backup EXCEPT !.run = NoRun, !.lost = cut]
    BY <1>g DEF BackupLost
  <2>2. cut \in BOOLEAN /\ (ok /\ time = "other" => cut)
    BY <1>3, <1>4, Zenon
  <2> HIDE DEF cut
  <2>3. backup' = Made(RunOf("none", "", FALSE), sent, ok, time, whole, cut)
    <3> HIDE DEF step, by, outcome, sent, ok, time, whole, lost
    <3> QED BY <1>2, <2>1 DEF Made, RunOf, NoRun
  <2>4. "none" # "untimed" /\ "" \in {"", "schedule", "button"}
    OBVIOUS
  <2>9. Kept("none", "", FALSE, sent, ok, time, whole, cut)
    BY <1>1, <1>3, <1>5, <1>6, <2>2, <2>3, <2>4, Zenon DEF Kept
  <2> HIDE DEF step, by, outcome, sent, ok, time, whole, lost
  <2> QED BY <2>3, <2>9, BackupMade
<1>h. CASE UNCHANGED backup
  BY <1>h, Zenon DEF BackupInv, RunInv, ResultTrue, TimeTrue
<1> QED BY <1>a, <1>c, <1>d, <1>e, <1>f, <1>g, <1>h, Zenon DEF BackupStep, runBackup
\* A handler touches the backups only through the button.
LEMMA HandlersBackup == ASSUME NEW m, Handle(m) PROVE BackupStep
<1> USE DEF Reads, Writes, Fails, Download, bounds
<1>1. CASE \/ csrfErrorHandler(m) \/ sessionAuth(m) \/ methodNotAllowed(m)
           \/ loginPage(m) \/ processLogin(m)
           \/ processLogout(m) \/ homePage(m) \/ homePageVolumeSegment(m)
           \/ homePageErrorsSegment(m) \/ homePageServicesSegment(m)
           \/ homePageMetricsServicesSegment(m) \/ homePageMetricsSegment(m)
  BY <1>1 DEF csrfErrorHandler, sessionAuth, methodNotAllowed, loginPage, processLogin,
     processLogout,
     homePage, homePageVolumeSegment, homePageErrorsSegment, homePageServicesSegment,
     homePageMetricsServicesSegment, homePageMetricsSegment, BackupStep
<1>2. CASE \/ alertsPage(m) \/ createAlert(m) \/ editAlertPage(m) \/ updateAlert(m)
           \/ deleteAlert(m) \/ openAlertQuery(m) \/ dryRunAlert(m)
  BY <1>2 DEF alertsPage, createAlert, editAlertPage, updateAlert, deleteAlert,
     openAlertQuery, dryRunAlert, BackupStep
<1>3. CASE \/ settingsPage(m) \/ createApiKey(m) \/ deleteApiKey(m) \/ savePushover(m)
           \/ saveCampfire(m) \/ testPushover(m) \/ testCampfire(m)
           \/ createScrapeTarget(m) \/ toggleScrapeTarget(m) \/ deleteScrapeTarget(m)
           \/ updateRetentionSettings(m) \/ updateBackupSettings(m)
  BY <1>3 DEF settingsPage, createApiKey, deleteApiKey, savePushover, saveCampfire,
     testPushover, testCampfire, createScrapeTarget, toggleScrapeTarget,
     deleteScrapeTarget, updateRetentionSettings, updateBackupSettings, BackupStep
<1>4. CASE runBackupNow(m) \/ runBackupNowReturns(m)
  BY <1>4 DEF runBackupNow, runBackupNowReturns, BackupStep
<1>5. CASE \/ logsPage(m) \/ logDetailsPage(m) \/ exportLogs(m) \/ warRoomPage(m)
  BY <1>5 DEF logsPage, logDetailsPage, exportLogs, warRoomPage, BackupStep
<1>6. CASE \/ dashboardsPage(m) \/ createDashboard(m) \/ dashboardPage(m)
           \/ deleteDashboard(m) \/ createPanel(m) \/ panelFragment(m)
           \/ updatePanel(m) \/ deletePanel(m)
  BY <1>6 DEF dashboardsPage, createDashboard, dashboardPage, deleteDashboard,
     createPanel, panelFragment, updatePanel, deletePanel, BackupStep
<1>7. CASE \/ metricsExplorerPage(m) \/ saveExplorerPanel(m) \/ exportMetrics(m)
           \/ compileDSL(m) \/ filterOptions(m)
  BY <1>7 DEF metricsExplorerPage, saveExplorerPanel, exportMetrics, compileDSL,
     filterOptions, BackupStep
<1> QED BY <1>1, <1>2, <1>3, <1>4, <1>5, <1>6, <1>7 DEF Handle

\* So does every step of the web UI.
LEMMA WebBackup == ASSUME [Next]_vars PROVE BackupStep
<1> USE DEF bounds, BackupStep
<1>1. ASSUME NEW path, Visit(path) PROVE BackupStep
  BY <1>1 DEF Visit
<1>2. CASE Click \/ Poll
  BY <1>2 DEF Click, Poll, Trigger
<1>3. ASSUME NEW m, Handle(m) \/ Receive(m) PROVE BackupStep
  BY <1>3, HandlersBackup DEF Receive
<1>4. CASE Collapse \/ StreamEvent \/ BackupJob \/ ServerRestarts
  BY <1>4 DEF Collapse, StreamEvent, BackupJob, ServerRestarts, Run
<1>5. CASE OtherWrites \/ SessionEnds \/ OtherTabLogin \/ ClearCookies
  BY <1>5 DEF OtherWrites, SessionEnds, OtherTabLogin, ClearCookies
<1>6. CASE UNCHANGED vars
  BY <1>6 DEF vars
<1> QED BY <1>1, <1>2, <1>3, <1>4, <1>5, <1>6 DEF Next

\* The settings page tells the truth about backups, whoever starts runs, whichever
\* step fails and wherever a restart falls: "ok" means that the run that said so
\* has uploaded all three databases, and the time beside it is of that run, except
\* between the two writes of an outcome or after one of the two was lost.
THEOREM BackupsReported == Spec => []BackupReportsTruth
<1>1. Init => BackupInv
  <2> SUFFICES ASSUME Init PROVE BackupInv
    OBVIOUS
  <2>1. /\ backup \in Backups /\ backup.run.step = "none" /\ backup.ok = FALSE
    BY DEF Init, NewBackupService, NoRun, Backups, Runs, Steps, Times
  <2>2. "none" \notin Recording /\ "none" # "untimed"
    BY DEF Recording
  <2> QED BY <2>1, <2>2, Zenon DEF BackupInv, RunInv, ResultTrue, TimeTrue
<1>2. BackupInv /\ [Next]_vars => BackupInv'
  BY WebBackup, BackupKept
<1>3. BackupInv => BackupReportsTruth
  <2> SUFFICES ASSUME BackupInv PROVE BackupReportsTruth
    OBVIOUS
  <2>1. backup.time \in {"never", "same", "other"}
    BY BackupParts, Zenon DEF BackupInv, RunInv, Times
  <2> QED BY <2>1, Zenon DEF BackupInv, ResultTrue, TimeTrue, BackupReportsTruth, saysOk
<1> QED BY <1>1, <1>2, <1>3, PTL DEF Spec

-----------------------------------------------------------------------------
(* Paths *)

\* The elements that poll, the other names in a path, and all of them.
Pollers == Segments \cup {"panel-body"}

Places ==
    {"page", "main", "text", "home", "rows", "failing", "alert", "alerts-region", "dry-run",
     "dry-run-result", "create", "api-keys", "key", "pushover", "pushover-test-result", "campfire",
     "campfire-test-result", "test-result", "scrape-targets", "target", "retention-section",
     "backup-section", "log", "sentinel", "export", "log-scroll", "log-rows", "query-form",
     "results", "detail", "back", "panel-card", "panels-region", "dashboard", "dashboards",
     "explorer", "catalog", "empty", "views", "save", "war-window-label", "war-chart",
     "war-mini", "war-logs", "war-form", "gone"}

Names == Pollers \cup Places \cup Ids \cup Logs

\* The paths that the templates write down.
LEMMA ShortPaths ==
    ASSUME NEW S, NEW a \in S, NEW b \in S, NEW c \in S
    PROVE  /\ <<a>> \in Seq(S) /\ Len(<<a>>) = 1 /\ <<a>>[1] = a /\ <<a>> # <<>>
           /\ <<a, b>> \in Seq(S) /\ Len(<<a, b>>) = 2 /\ <<a, b>>[1] = a /\ <<a, b>>[2] = b
           /\ <<a, b>> # <<>>
           /\ <<a, b, c>> \in Seq(S) /\ Len(<<a, b, c>>) = 3 /\ <<a, b, c>>[1] = a
           /\ <<a, b, c>>[2] = b /\ <<a, b, c>>[3] = c /\ <<a, b, c>> # <<>>
           /\ last(<<a>>) = a /\ last(<<a, b>>) = b /\ last(<<a, b, c>>) = c
<1>1. /\ <<a>> \in Seq(S) /\ Len(<<a>>) = 1 /\ <<a>>[1] = a
      /\ <<a, b>> \in Seq(S) /\ Len(<<a, b>>) = 2 /\ <<a, b>>[1] = a /\ <<a, b>>[2] = b
      /\ <<a, b, c>> \in Seq(S) /\ Len(<<a, b, c>>) = 3 /\ <<a, b, c>>[1] = a
      /\ <<a, b, c>>[2] = b /\ <<a, b, c>>[3] = c
  OBVIOUS
<1>2. <<a>> # <<>> /\ <<a, b>> # <<>> /\ <<a, b, c>> # <<>>
  BY <1>1, EmptySeq
<1>3. last(<<a>>) = a /\ last(<<a, b>>) = b /\ last(<<a, b, c>>) = c
  BY <1>1 DEF last
<1> QED BY <1>1, <1>2, <1>3

\* The parent of a path is a path.
LEMMA ParentType ==
    ASSUME NEW S, NEW p \in Seq(S), p # <<>>
    PROVE  /\ parent(p) \in Seq(S) /\ Len(parent(p)) = Len(p) - 1
           /\ \A i \in 1..(Len(p) - 1) : parent(p)[i] = p[i]
<1>1. Len(p) \in Nat \ {0}
  BY EmptySeq
<1>2. \A i \in 1..(Len(p) - 1) : p[i] \in S
  BY <1>1, ElementOfSeq
<1> DEFINE n == Len(p) - 1
<1>3. n \in Int /\ 1 \in Int /\ (\A i \in 1..n : p[i] \in S) /\ n >= 0
  BY <1>1, <1>2
<1> HIDE DEF n
<1>4. /\ SubSeq(p, 1, n) \in Seq(S)
      /\ Len(SubSeq(p, 1, n)) = IF 1 <= n THEN n - 1 + 1 ELSE 0
      /\ \A i \in 1..(n - 1 + 1) : SubSeq(p, 1, n)[i] = p[1 + i - 1]
  BY <1>3, SubSeqProperties
<1>5. Len(SubSeq(p, 1, n)) = n /\ \A i \in 1..n : SubSeq(p, 1, n)[i] = p[i]
  BY <1>3, <1>4
<1> QED BY <1>4, <1>5 DEF parent, n

\* The parent and the last name of a path that continues p.
LEMMA ParentConcat ==
    ASSUME NEW S, NEW p \in Seq(S), NEW a \in Seq(S), a # <<>>
    PROVE  /\ parent(p \o a) = p \o parent(a)
           /\ last(p \o a) = last(a)
           /\ p \o a # <<>> /\ p \o a \in Seq(S)
<1> DEFINE q == p \o a
           b == parent(a)
           r == p \o b
<1>0. Len(a) \in Nat \ {0} /\ Len(p) \in Nat
  BY EmptySeq
<1>1. /\ q \in Seq(S) /\ Len(q) = Len(p) + Len(a)
      /\ \A i \in 1..(Len(p) + Len(a)) : q[i] = IF i <= Len(p) THEN p[i] ELSE a[i - Len(p)]
  BY ConcatProperties
<1>2. /\ b \in Seq(S) /\ Len(b) = Len(a) - 1 /\ \A i \in 1..(Len(a) - 1) : b[i] = a[i]
  BY ParentType
<1> HIDE DEF q, b
<1>3. /\ r \in Seq(S) /\ Len(r) = Len(p) + Len(b)
      /\ \A i \in 1..(Len(p) + Len(b)) : r[i] = IF i <= Len(p) THEN p[i] ELSE b[i - Len(p)]
  BY <1>2, ConcatProperties
<1> HIDE DEF r
<1>4. q # <<>>
  BY <1>0, <1>1, EmptySeq
<1>5. /\ parent(q) \in Seq(S) /\ Len(parent(q)) = Len(q) - 1
      /\ \A i \in 1..(Len(q) - 1) : parent(q)[i] = q[i]
  BY <1>1, <1>4, ParentType
<1>6. Len(parent(q)) = Len(r)
  BY <1>0, <1>1, <1>2, <1>3, <1>5
<1>7. ASSUME NEW i \in 1..Len(parent(q)) PROVE parent(q)[i] = r[i]
  <2>1. i \in Nat /\ i >= 1 /\ i <= Len(p) + Len(a) - 1
    BY <1>0, <1>1, <1>5
  <2>2. parent(q)[i] = q[i]
    BY <1>0, <1>1, <1>5, <2>1
  <2>3. CASE i <= Len(p)
    <3>1. q[i] = p[i]
      BY <1>0, <1>1, <2>1, <2>3
    <3>2. r[i] = p[i]
      BY <1>0, <1>2, <1>3, <2>1, <2>3
    <3> QED BY <2>2, <3>1, <3>2
  <2>4. CASE ~(i <= Len(p))
    <3>1. q[i] = a[i - Len(p)]
      BY <1>0, <1>1, <2>1, <2>4
    <3>2. r[i] = b[i - Len(p)]
      BY <1>0, <1>2, <1>3, <2>1, <2>4
    <3>3. i - Len(p) \in 1..(Len(a) - 1)
      BY <1>0, <2>1, <2>4
    <3>4. b[i - Len(p)] = a[i - Len(p)]
      BY <1>2, <3>3
    <3> QED BY <2>2, <3>1, <3>2, <3>4
  <2> QED BY <2>3, <2>4
<1>8. parent(q) = r
  BY <1>3, <1>5, <1>6, <1>7, SeqEqual
<1>9. last(q) = last(a)
  BY <1>0, <1>1 DEF last
<1> QED BY <1>1, <1>4, <1>8, <1>9 DEF q, b, r

\* The parent of a path with one more name, and that name.
LEMMA ParentOfChild ==
    ASSUME NEW S, NEW x \in Seq(S), NEW s \in S
    PROVE  /\ parent(x \o <<s>>) = x /\ last(x \o <<s>>) = s
           /\ x \o <<s>> # <<>> /\ x \o <<s>> \in Seq(S)
<1> DEFINE u == <<s>>
<1>1. u \in Seq(S) /\ u # <<>> /\ last(u) = s /\ Len(u) = 1
  BY ShortPaths
<1> HIDE DEF u
<1>2. parent(u) \in Seq(S) /\ Len(parent(u)) = 0
  BY <1>1, ParentType
<1>3. parent(u) = <<>>
  BY <1>2, EmptySeq
<1>4. x \o <<>> = x
  BY ConcatEmptySeq
<1>5. /\ parent(x \o u) = x /\ last(x \o u) = s /\ x \o u # <<>> /\ x \o u \in Seq(S)
  BY <1>1, <1>3, <1>4, ParentConcat
<1> QED BY <1>5 DEF u

\* What is below t, and not t itself, has its parent below t.
LEMMA PrefixOfParent ==
    ASSUME NEW S, NEW t \in Seq(S), NEW a \in Seq(S), a # <<>>
    PROVE  /\ IsPrefixPath(t, a) /\ t # a => IsPrefixPath(t, parent(a))
           /\ IsPrefixPath(t, parent(a)) => IsPrefixPath(t, a) /\ t # a
<1> DEFINE b == parent(a)
<1>1. /\ b \in Seq(S) /\ Len(b) = Len(a) - 1 /\ Len(a) \in Nat \ {0} /\ Len(t) \in Nat
      /\ \A i \in 1..(Len(a) - 1) : b[i] = a[i]
  BY ParentType, EmptySeq
<1>2. \A i \in 1..Len(a) : a[i] \in S
  BY ElementOfSeq
<1> HIDE DEF b
<1>3. ASSUME Len(t) <= Len(a) - 1 PROVE SubSeq(b, 1, Len(t)) = SubSeq(a, 1, Len(t))
  <2>1. /\ \A i \in 1..Len(t) : b[i] = a[i] /\ a[i] \in S
        /\ Len(t) \in Int /\ 1 \in Int
    BY <1>1, <1>2, <1>3
  <2> DEFINE A == SubSeq(a, 1, Len(t))
             B == SubSeq(b, 1, Len(t))
  <2>2. /\ A \in Seq(S) /\ Len(A) = IF 1 <= Len(t) THEN Len(t) - 1 + 1 ELSE 0
        /\ \A i \in 1..(Len(t) - 1 + 1) : A[i] = a[1 + i - 1]
    BY <2>1, SubSeqProperties
  <2>3. \A i \in 1..Len(t) : b[i] \in S
    BY <2>1
  <2>4. /\ B \in Seq(S) /\ Len(B) = IF 1 <= Len(t) THEN Len(t) - 1 + 1 ELSE 0
        /\ \A i \in 1..(Len(t) - 1 + 1) : B[i] = b[1 + i - 1]
    BY <2>1, <2>3, SubSeqProperties
  <2> HIDE DEF A, B
  <2>5. Len(A) = Len(B) /\ Len(A) = Len(t)
    BY <1>1, <2>2, <2>4
  <2>6. \A i \in 1..Len(A) : A[i] = a[i] /\ B[i] = b[i]
    BY <1>1, <2>2, <2>4, <2>5
  <2>7. \A i \in 1..Len(B) : B[i] = A[i]
    BY <2>1, <2>5, <2>6
  <2>8. B = A
    BY <2>2, <2>4, <2>5, <2>7, SeqEqual
  <2> QED BY <2>8 DEF A, B
<1>4. SubSeq(a, 1, Len(a)) = a
  BY SubSeqFull
<1>5. ASSUME IsPrefixPath(t, a), t # a PROVE IsPrefixPath(t, b)
  <2>1. Len(t) <= Len(a) /\ SubSeq(a, 1, Len(t)) = t
    BY <1>5 DEF IsPrefixPath
  <2>2. Len(t) # Len(a)
    <3> SUFFICES ASSUME Len(t) = Len(a) PROVE t = a
      BY <1>5
    <3>1. SubSeq(a, 1, Len(t)) = SubSeq(a, 1, Len(a))
      OBVIOUS
    <3> QED BY <1>4, <2>1, <3>1
  <2>3. Len(t) <= Len(a)
    BY <2>1, Zenon
  <2>4. Len(t) <= Len(a) - 1
    BY <1>1, <2>2, <2>3
  <2> QED BY <1>1, <1>3, <2>1, <2>4 DEF IsPrefixPath
<1>6. ASSUME IsPrefixPath(t, b) PROVE IsPrefixPath(t, a) /\ t # a
  <2>1. Len(t) <= Len(a) - 1 /\ SubSeq(b, 1, Len(t)) = t
    BY <1>1, <1>6 DEF IsPrefixPath
  <2>2. Len(t) <= Len(a) /\ t # a
    BY <1>1, <2>1
  <2> QED BY <1>3, <2>1, <2>2 DEF IsPrefixPath
<1> QED BY <1>5, <1>6 DEF b

\* Below p, what is below a.
LEMMA ConcatBelow ==
    ASSUME NEW S, NEW p \in Seq(S), NEW a \in Seq(S), NEW s \in S
    PROVE  (p \o a) \o <<s>> = p \o (a \o <<s>>)
<1>1. <<s>> \in Seq(S)
  BY ShortPaths
<1> QED BY <1>1, ConcatAssociative

-----------------------------------------------------------------------------
(* What the templates make.  Placed says of an element how its path ends,   *)
(* which is all a swap depends on.                                          *)

Placed(e) ==
    /\ {"at", "is", "of"} \subseteq DOMAIN e
    /\ e.at \in Seq(Names) /\ e.at # <<>>
    /\ e.is = "HomePage" => parent(e.at) # <<>> /\ last(parent(e.at)) = "main"
    /\ e.is = "segment" => last(e.at) \in Segments /\ e.of[1] \in Segments
    /\ e.is = "panelBody" => last(e.at) = "panel-body" /\ e.of[2] \in Ids
    /\ e.is \in {"PanelCard", "PanelEditCard"} => last(e.at) \in Ids /\ e.of[2] \in Ids
    /\ e.is = "alertRow" => last(e.at) \in Ids
    /\ e.is = "pageSentinel" => last(e.at) = "sentinel"
    /\ e.is = "DashboardPage" => last(e.at) = "dashboard"
    /\ e.is \in {"logRow", "streamRow"} => e.of[1] \in Logs

\* Every home page among els has its segments, every panel its body.
Polling(els) ==
    \A e \in els :
       /\ e.is = "HomePage" =>
             \A s \in Segments : \E f \in els : f.is = "segment" /\ f.at = parent(e.at) \o <<s>>
       /\ e.is = "PanelCard" =>
             \E f \in els : f.is = "panelBody" /\ f.at = e.at \o <<"panel-body">>

Sound(els) == (\A e \in els : Placed(e)) /\ Polling(els)

\* An answer: no element of it takes the place of a poller by its id.
Fragment(els) == Sound(els) /\ \A e \in els : e.at[1] \notin Pollers

\* No place is a poller, and no element is called by the id of a row.
LEMMA NamesKnown ==
    /\ \A x \in Pollers \cup Places \cup Ids \cup Logs : x \in Names
    /\ \A x \in Places : x \notin Pollers
    /\ \A s \in Segments : s \in Pollers
    /\ "panel-body" \in Pollers
    /\ \A i \in Ids \cup Logs : i \notin ElementIds /\ i \notin Pollers
<1>1. \A x \in Pollers \cup Places \cup Ids \cup Logs : x \in Names
  BY DEF Names
<1>2. \A x \in Places : x \notin Pollers
  BY DEF Places, Pollers, Segments
<1>3. \A x \in Pollers : x \in ElementIds
  BY DEF Pollers, ElementIds
<1>4. \A i \in Ids \cup Logs : i \notin ElementIds
  BY IdsAssumption
<1> QED BY <1>1, <1>2, <1>3, <1>4 DEF Pollers

\* An element that is moved below p is where it should be.
LEMMA UnderPlaced ==
    ASSUME NEW p \in Seq(Names), NEW e, Placed(e)
    PROVE  LET f == [e EXCEPT !.at = p \o @]
           IN Placed(f) /\ f.at = p \o e.at /\ f.is = e.is /\ f.of = e.of
<1> DEFINE f == [e EXCEPT !.at = p \o @]
<1>1. f.at = p \o e.at /\ f.is = e.is /\ f.of = e.of /\ {"at", "is", "of"} \subseteq DOMAIN f
  BY DEF Placed
<1>2. e.at \in Seq(Names) /\ e.at # <<>>
  BY DEF Placed
<1> HIDE DEF f
<1>3. f.at \in Seq(Names) /\ f.at # <<>> /\ last(f.at) = last(e.at)
      /\ parent(f.at) = p \o parent(e.at)
  BY <1>1, <1>2, ParentConcat
<1>4. f.is = "HomePage" => parent(f.at) # <<>> /\ last(parent(f.at)) = "main"
  <2> SUFFICES ASSUME f.is = "HomePage"
               PROVE  parent(f.at) # <<>> /\ last(parent(f.at)) = "main"
    OBVIOUS
  <2>1. parent(e.at) \in Seq(Names)
    BY <1>2, ParentType
  <2>2. parent(e.at) # <<>> /\ last(parent(e.at)) = "main"
    BY <1>1 DEF Placed
  <2> QED BY <1>3, <2>1, <2>2, ParentConcat
<1>5. Placed(f)
  BY <1>1, <1>3, <1>4 DEF Placed
<1> QED BY <1>1, <1>5 DEF f

\* So are all the elements of a fragment, and it polls as before.
LEMMA UnderSound ==
    ASSUME NEW p \in Seq(Names), NEW els, Sound(els)
    PROVE  Sound(Under(p, els))
<1> DEFINE moved(e) == [e EXCEPT !.at = p \o @]
           U == Under(p, els)
<1>a. ASSUME NEW e \in els
      PROVE  /\ Placed(e) /\ Placed(moved(e)) /\ moved(e).at = p \o e.at
             /\ moved(e).is = e.is /\ moved(e).of = e.of
  BY UnderPlaced DEF Sound
<1>b. U = {moved(e) : e \in els}
  BY DEF Under
<1> HIDE DEF U, moved
<1>1. \A f \in U : \E e \in els : /\ Placed(e) /\ Placed(f)
                                  /\ f.at = p \o e.at /\ f.is = e.is /\ f.of = e.of
  BY <1>a, <1>b
<1>2. \A e \in els : \E f \in U : f.at = p \o e.at /\ f.is = e.is
  BY <1>a, <1>b
<1>3. ASSUME NEW f \in U, f.is = "HomePage", NEW s \in Segments
      PROVE  \E g \in U : g.is = "segment" /\ g.at = parent(f.at) \o <<s>>
  <2>1. PICK e \in els : Placed(e) /\ f.at = p \o e.at /\ e.is = "HomePage"
    BY <1>1, <1>3
  <2>2. PICK h \in els : h.is = "segment" /\ h.at = parent(e.at) \o <<s>>
    BY <2>1 DEF Sound, Polling
  <2>3. PICK g \in U : g.at = p \o h.at /\ g.is = "segment"
    BY <1>2, <2>2
  <2>4. e.at \in Seq(Names) /\ e.at # <<>> /\ parent(e.at) \in Seq(Names) /\ <<s>> \in Seq(Names)
    BY <2>1, ParentType, NamesKnown DEF Placed
  <2>5. parent(f.at) = p \o parent(e.at)
    BY <2>1, <2>4, ParentConcat
  <2>6. (p \o parent(e.at)) \o <<s>> = p \o (parent(e.at) \o <<s>>)
    BY <2>4, ConcatAssociative
  <2> QED BY <2>2, <2>3, <2>5, <2>6
<1>4. ASSUME NEW f \in U, f.is = "PanelCard"
      PROVE  \E g \in U : g.is = "panelBody" /\ g.at = f.at \o <<"panel-body">>
  <2>1. PICK e \in els : Placed(e) /\ f.at = p \o e.at /\ e.is = "PanelCard"
    BY <1>1, <1>4
  <2>2. PICK h \in els : h.is = "panelBody" /\ h.at = e.at \o <<"panel-body">>
    BY <2>1 DEF Sound, Polling
  <2>3. PICK g \in U : g.at = p \o h.at /\ g.is = "panelBody"
    BY <1>2, <2>2
  <2>4. e.at \in Seq(Names) /\ "panel-body" \in Names
    BY <2>1, NamesKnown DEF Placed
  <2>5. \A a \in Seq(Names), s \in Names : (p \o a) \o <<s>> = p \o (a \o <<s>>)
    BY ConcatBelow
  <2>6. (p \o e.at) \o <<"panel-body">> = p \o (e.at \o <<"panel-body">>)
    BY <2>4, <2>5, Zenon
  <2> QED BY <2>1, <2>2, <2>3, <2>6
<1> QED BY <1>1, <1>3, <1>4 DEF Sound, Polling, U

\* The elements of two fragments together.
LEMMA UnionSound ==
    ASSUME NEW A, NEW B, Sound(A), Sound(B)
    PROVE  Sound(A \cup B)
BY DEF Sound, Polling

\* The kinds of elements about which Placed says something.
Special == {"HomePage", "segment", "panelBody", "PanelCard", "PanelEditCard", "alertRow",
            "pageSentinel", "DashboardPage", "logRow", "streamRow"}

\* Elements of the other kinds can be anywhere.
LEMMA PlainPlaced ==
    ASSUME NEW at \in Seq(Names), at # <<>>, NEW is, is \notin Special, NEW of
    PROVE  Placed(El(at, is, of)) /\ El(at, is, of).at = at /\ El(at, is, of).is = is
BY DEF Placed, El, Special

\* Where there is neither a home page nor a panel nothing polls.
LEMMA PlainSound ==
    ASSUME NEW els, \A e \in els : Placed(e) /\ e.is \notin {"HomePage", "PanelCard"}
    PROVE  Sound(els)
BY DEF Sound, Polling

\* A single plain element.
LEMMA OneSound ==
    ASSUME NEW at \in Seq(Names), at # <<>>, NEW is, is \notin Special, NEW of
    PROVE  Sound({El(at, is, of)}) /\ (at[1] \notin Pollers => Fragment({El(at, is, of)}))
<1> DEFINE e == El(at, is, of)
<1>1. Placed(e) /\ e.at = at /\ e.is = is
  BY PlainPlaced
<1>2. is \notin {"HomePage", "PanelCard"}
  BY DEF Special
<1> HIDE DEF e
<1>3. Sound({e})
  BY <1>1, <1>2, PlainSound
<1> QED BY <1>1, <1>3 DEF Fragment, e

\* The paths of one, two and three names.
LEMMA PlacePaths ==
    \A x \in Places, y, z \in Names :
       /\ <<x>> \in Seq(Names) /\ <<x>> # <<>> /\ <<x>>[1] = x /\ x \notin Pollers
       /\ <<x, y>> \in Seq(Names) /\ <<x, y>> # <<>> /\ <<x, y>>[1] = x /\ Len(<<x, y>>) = 2
       /\ <<x, y, z>> \in Seq(Names) /\ <<x, y, z>> # <<>> /\ <<x, y, z>>[1] = x
       /\ last(<<x>>) = x /\ last(<<x, y>>) = y /\ last(<<x, y, z>>) = z
<1> TAKE x \in Places, y, z \in Names
<1>1. x \in Names /\ x \notin Pollers
  BY NamesKnown
<1> QED BY <1>1, ShortPaths

\* The paths of rows.
LEMMA NamePaths ==
    \A x, y, z \in Names :
       /\ <<x, y>> \in Seq(Names) /\ <<x, y>> # <<>> /\ <<x, y>>[1] = x /\ last(<<x, y>>) = y
       /\ <<x, y, z>> \in Seq(Names) /\ <<x, y, z>> # <<>> /\ <<x, y, z>>[1] = x
       /\ last(<<x, y, z>>) = z
<1> TAKE x, y, z \in Names
<1>1. /\ <<x, y>> \in Seq(Names) /\ <<x, y>>[1] = x /\ <<x, y>>[2] = y /\ Len(<<x, y>>) = 2
      /\ <<x, y, z>> \in Seq(Names) /\ <<x, y, z>>[1] = x /\ <<x, y, z>>[3] = z
      /\ Len(<<x, y, z>>) = 3
  OBVIOUS
<1>2. <<x, y>> # <<>> /\ <<x, y, z>> # <<>>
  OBVIOUS
<1>3. last(<<x, y>>) = y /\ last(<<x, y, z>>) = z
  BY <1>1 DEF last
<1> QED BY <1>1, <1>2, <1>3

\* A plain element at some place.
LEMMA PlainFragment ==
    \A x \in Places : \A is, of : is \notin Special => Fragment({El(<<x>>, is, of)})
<1> SUFFICES ASSUME NEW x \in Places, NEW is, is \notin Special, NEW of
             PROVE  Fragment({El(<<x>>, is, of)})
  OBVIOUS
<1> DEFINE at == <<x>>
<1>1. at \in Seq(Names) /\ at # <<>> /\ at[1] \notin Pollers
  BY PlacePaths, NamesKnown
<1> HIDE DEF at
<1>2. Fragment({El(at, is, of)})
  BY <1>1, OneSound
<1> QED BY <1>2 DEF at

\* The kinds of plain elements.
LEMMA PlainKinds ==
    {"text", "Shell", "LoginPage", "logLinks", "metricLinks", "settingsLink", "dashboardsLink",
     "alertCreateCard", "AlertEditRow", "ApiKeysSection", "apiKey", "PushoverSection",
     "CampfireSection", "ScrapeTargetsSection", "scrapeTarget", "RetentionSection",
     "BackupSection", "LogsPage", "exportFooter", "DashboardsListPage", "dashboardLink",
     "MetricsExplorerPage", "viewSegment", "saveAsPanel", "WarRoomPage"} \cap Special = {}
BY DEF Special

\* Nothing, and two answers in one.
LEMMA JoinFragments ==
    /\ Sound({}) /\ Fragment({})
    /\ \A A, B : Fragment(A) /\ Fragment(B) => Fragment(A \cup B)
<1>1. Sound({}) /\ Fragment({})
  BY DEF Fragment, Sound, Polling
<1>2. ASSUME NEW A, NEW B, Fragment(A), Fragment(B) PROVE Fragment(A \cup B)
  <2>1. Sound(A \cup B)
    BY <1>2, UnionSound DEF Fragment
  <2> QED BY <1>2, <2>1 DEF Fragment
<1> QED BY <1>1, <1>2

\* Elements that do not poll make an answer.
LEMMA RowsFragment ==
    ASSUME NEW els, \A e \in els : /\ Placed(e) /\ e.at[1] \notin Pollers
                                   /\ e.is # "HomePage" /\ e.is # "PanelCard"
    PROVE  Fragment(els)
<1>1. Sound(els)
  BY DEF Sound, Polling
<1> QED BY <1>1 DEF Fragment

\* The elements below a place.
LEMMA UnderFragment ==
    ASSUME NEW p \in Seq(Names), p # <<>>, p[1] \notin Pollers, NEW els, Sound(els)
    PROVE  Fragment(Under(p, els))
<1> DEFINE moved(e) == [e EXCEPT !.at = p \o @]
           U == Under(p, els)
<1>1. U = {moved(e) : e \in els}
  BY DEF Under
<1>2. ASSUME NEW e \in els PROVE moved(e).at[1] = p[1]
  <2>1. Placed(e)
    BY DEF Sound
  <2>2. moved(e).at = p \o e.at /\ e.at \in Seq(Names)
    BY <2>1, UnderPlaced DEF Placed
  <2> HIDE DEF moved
  <2>3. \A a \in Seq(Names) : (p \o a)[1] = p[1]
    <3> TAKE a \in Seq(Names)
    <3>1. Len(p) \in Nat \ {0} /\ Len(a) \in Nat
      BY EmptySeq, LenProperties
    <3>2. \A i \in 1..(Len(p) + Len(a)) : (p \o a)[i] = IF i <= Len(p) THEN p[i] ELSE a[i - Len(p)]
      BY ConcatProperties
    <3> QED BY <3>1, <3>2
  <2>4. (p \o e.at)[1] = p[1]
    BY <2>2, <2>3, Zenon
  <2> QED BY <2>2, <2>4
<1>3. Sound(U)
  BY UnderSound
<1> HIDE DEF U, moved
<1>4. \A f \in U : f.at[1] \notin Pollers
  BY <1>1, <1>2
<1> QED BY <1>3, <1>4 DEF Fragment, U

\* A page in its shell.
LEMMA ShellSound ==
    ASSUME NEW children, Sound(children)
    PROVE  Fragment(Shell(children))
<1>1. Fragment({El(<<"page">>, "Shell", <<>>)})
  BY PlainFragment, PlainKinds DEF Places
<1>2. <<"page", "main">> \in Seq(Names)
  BY PlacePaths, NamesKnown DEF Places
<1>3. <<"page", "main">> # <<>> /\ <<"page", "main">>[1] \notin Pollers
  <2>1. "page" \in Places /\ "main" \in Places
    BY DEF Places
  <2>2. "main" \in Names
    BY <2>1, NamesKnown
  <2>3. <<"page", "main">> # <<>> /\ <<"page", "main">>[1] = "page" /\ "page" \notin Pollers
    BY <2>1, <2>2, PlacePaths, Zenon
  <2> QED BY <2>3
<1> DEFINE p == <<"page", "main">>
<1> HIDE DEF p
<1>4. Fragment(Under(p, children))
  BY <1>2, <1>3, UnderFragment DEF p
<1> QED BY <1>1, <1>4, JoinFragments DEF Shell, p

\* Messages, and the pages without rows.
LEMMA TextPages ==
    /\ Fragment(Text) /\ Fragment(LoginPage) /\ Fragment(DryRunResult)
    /\ Fragment(ChannelTestResult) /\ Fragment(RetentionSection) /\ Fragment(BackupSection)
    /\ Fragment(Shaped)
<1>1. /\ Fragment(Text) /\ Fragment(LoginPage) /\ Fragment(DryRunResult)
      /\ Fragment(ChannelTestResult) /\ Fragment(RetentionSection) /\ Fragment(BackupSection)
  BY PlainFragment, PlainKinds
     DEF Places, Text, LoginPage, DryRunResult, ChannelTestResult, RetentionSection, BackupSection
<1> QED BY <1>1 DEF Shaped

\* The home page has a place for each of its segments.
LEMMA HomeFragment == Fragment(HomePage)
<1> DEFINE p == <<"page", "main">>
           put(at, is, of) == [El(at, is, of) EXCEPT !.at = p \o @]
           home == put(<<"home">>, "HomePage", <<>>)
           seg(s) == put(<<s>>, "segment", <<s>>)
           shell == El(<<"page">>, "Shell", <<>>)
           els == {shell, home} \cup {seg(s) : s \in Segments}
<1>1. HomePage = els
  BY DEF HomePage, Shell, Under
<1>2. ASSUME NEW at, NEW is, NEW of
      PROVE  /\ put(at, is, of).at = p \o at /\ put(at, is, of).is = is /\ put(at, is, of).of = of
             /\ {"at", "is", "of"} \subseteq DOMAIN put(at, is, of)
  BY DEF El
<1>3. p \in Seq(Names) /\ p # <<>> /\ p[1] = "page" /\ last(p) = "main" /\ Len(p) = 2
  <2>1. "page" \in Places /\ "main" \in Places
    BY DEF Places
  <2>2. "main" \in Names
    BY <2>1, NamesKnown
  <2> QED BY <2>1, <2>2, PlacePaths, Zenon
<1> HIDE DEF p, put
<1>4. ASSUME NEW s \in Names
      PROVE  /\ p \o <<s>> \in Seq(Names) /\ p \o <<s>> # <<>> /\ parent(p \o <<s>>) = p
             /\ last(p \o <<s>>) = s
  BY <1>3, ParentOfChild
<1>5. ASSUME NEW s \in Names PROVE (p \o <<s>>)[1] = "page"
  <2>1. <<s>> \in Seq(Names) /\ Len(<<s>>) = 1
    BY ShortPaths
  <2>2. \A i \in 1..(Len(p) + Len(<<s>>)) :
           (p \o <<s>>)[i] = IF i <= Len(p) THEN p[i] ELSE <<s>>[i - Len(p)]
    BY <1>3, <2>1, ConcatProperties
  <2> QED BY <1>3, <2>1, <2>2
<1>6. "home" \in Names /\ "page" \notin Pollers /\ \A s \in Segments : s \in Names
  BY NamesKnown DEF Places
<1>7. /\ home.at = p \o <<"home">> /\ home.is = "HomePage" /\ {"at", "is", "of"} \subseteq DOMAIN home
      /\ parent(home.at) = p /\ home.at \in Seq(Names) /\ home.at # <<>> /\ home.at[1] = "page"
  <2>1. /\ home.at = p \o <<"home">> /\ home.is = "HomePage" /\ {"at", "is", "of"} \subseteq DOMAIN home
    BY <1>2
  <2> HIDE DEF home
  <2> QED BY <1>4, <1>5, <1>6, <2>1, Zenon
<1>8. ASSUME NEW s \in Segments
      PROVE  /\ seg(s).at = p \o <<s>> /\ seg(s).is = "segment" /\ seg(s).of[1] = s
             /\ {"at", "is", "of"} \subseteq DOMAIN seg(s) /\ last(seg(s).at) = s
             /\ seg(s).at \in Seq(Names) /\ seg(s).at # <<>> /\ seg(s).at[1] = "page"
  <2> DEFINE t == <<s>>
  <2>1. seg(s) = put(t, "segment", t) /\ t[1] = s
    OBVIOUS
  <2>2. p \o t \in Seq(Names) /\ p \o t # <<>> /\ (p \o t)[1] = "page" /\ last(p \o t) = s
    BY <1>4, <1>5, <1>6, Zenon
  <2> HIDE DEF t, seg
  <2>3. /\ seg(s).at = p \o t /\ seg(s).is = "segment" /\ seg(s).of = t
        /\ {"at", "is", "of"} \subseteq DOMAIN seg(s)
    BY <1>2, <2>1
  <2>4. seg(s).of[1] = s
    BY <2>1, <2>3
  <2> QED BY <2>2, <2>3, <2>4, Zenon DEF t
<1>9. Fragment({shell})
  BY PlainFragment, PlainKinds DEF Places
<1>10. shell.is = "Shell"
  BY DEF El
<1> HIDE DEF home, seg, shell
<1>11. Placed(home)
  BY <1>3, <1>7 DEF Placed
<1>12. ASSUME NEW s \in Segments PROVE Placed(seg(s))
  BY <1>8 DEF Placed
<1>13. ASSUME NEW e \in els
       PROVE  /\ Placed(e) /\ e.at[1] \notin Pollers
              /\ e.is = "HomePage" => e = home
              /\ e.is # "PanelCard"
  <2>1. CASE e = shell
    BY <1>9, <1>10, <2>1 DEF Fragment, Sound
  <2>2. CASE e = home
    BY <1>6, <1>7, <1>11, <2>2
  <2>3. CASE \E s \in Segments : e = seg(s)
    <3>1. PICK s \in Segments : e = seg(s)
      BY <2>3
    <3>2. Placed(e) /\ e.at[1] = "page" /\ e.is = "segment"
      BY <1>8, <1>12, <3>1, Zenon
    <3> QED BY <1>6, <3>2
  <2> QED BY <2>1, <2>2, <2>3
<1>14. \A s \in Segments : \E f \in els : f.is = "segment" /\ f.at = parent(home.at) \o <<s>>
  BY <1>7, <1>8
<1> HIDE DEF els
<1> QED BY <1>1, <1>13, <1>14 DEF Fragment, Sound, Polling

\* The segments of the home page.
LEMMA SegmentFragments ==
    ASSUME NEW some, NEW failing
    PROVE  /\ Fragment(HomeVolume(some)) /\ Fragment(HomeErrors(some))
           /\ Fragment(HomeServices(some)) /\ Fragment(HomeMetricsServices(some))
           /\ Fragment(HomeMetrics(some, failing))
<1>1. "rows" \in Places /\ "failing" \in Places
  BY DEF Places
<1>2. \A is \in {"logLinks", "metricLinks", "settingsLink"} :
          Fragment({El(<<"rows">>, is, <<>>)}) /\ Fragment({El(<<"failing">>, is, <<>>)})
  BY <1>1, PlainFragment, PlainKinds
<1>3. Fragment(HomeVolume(some)) /\ Fragment(HomeErrors(some)) /\ Fragment(HomeServices(some))
  BY <1>2, TextPages DEF HomeVolume, HomeErrors, HomeServices
<1>4. Fragment(HomeMetricsServices(some))
  BY <1>2 DEF HomeMetricsServices
<1>5. Fragment(HomeMetrics(some, failing))
  BY <1>2, JoinFragments DEF HomeMetrics
<1> QED BY <1>3, <1>4, <1>5

\* The alerts.
LEMMA AlertFragments ==
    ASSUME NEW alerts \in SUBSET Ids, NEW channel
    PROVE  /\ Fragment(AlertsRegion(alerts)) /\ Fragment(AlertsPage(alerts, channel))
           /\ \A a \in Ids : Fragment(AlertEditRow(a, channel))
<1>1. /\ "alert" \in Places /\ "alerts-region" \in Places /\ "dry-run" \in Places
      /\ "create" \in Places
  BY DEF Places
<1>2. ASSUME NEW a \in Ids PROVE Placed(alertRow(a)) /\ alertRow(a).is = "alertRow"
  <2>1. /\ <<"alert", a>> \in Seq(Names) /\ <<"alert", a>> # <<>> /\ last(<<"alert", a>>) = a
    BY <1>1, PlacePaths, NamesKnown
  <2> DEFINE at == <<"alert", a>>
  <2>2. alertRow(a) = [at |-> at, is |-> "alertRow", of |-> <<a>>]
    BY DEF alertRow, El
  <2> HIDE DEF at
  <2> QED BY <2>1, <2>2 DEF Placed, at
<1>3. Sound({alertRow(a) : a \in alerts})
  BY <1>2, PlainSound
<1>4. /\ <<"alerts-region">> \in Seq(Names) /\ <<"alerts-region">> # <<>>
      /\ <<"alerts-region">>[1] \notin Pollers
      /\ <<"alerts-region", "dry-run">> \in Seq(Names) /\ <<"alerts-region", "dry-run">> # <<>>
      /\ <<"alerts-region", "dry-run">>[1] \notin Pollers
  BY <1>1, PlacePaths, NamesKnown
<1>5. Fragment(Under(<<"alerts-region">>, {alertRow(a) : a \in alerts}))
  BY <1>3, <1>4, UnderFragment
<1>6. /\ Fragment({El(<<"alerts-region">>, "text", <<>>)})
      /\ Fragment({El(<<"alerts-region", "dry-run">>, "text", <<>>)})
  BY <1>4, OneSound, PlainKinds
<1>7. Fragment(AlertsRegion(alerts))
  <2>1. AlertsRegion(alerts) = ({El(<<"alerts-region">>, "text", <<>>)}
                                \cup {El(<<"alerts-region", "dry-run">>, "text", <<>>)})
                               \cup Under(<<"alerts-region">>, {alertRow(a) : a \in alerts})
    BY DEF AlertsRegion
  <2> QED BY <1>5, <1>6, <2>1, JoinFragments
<1>8. Sound(alertCreateCard(channel))
  BY <1>1, PlainFragment, PlainKinds DEF alertCreateCard, Fragment
<1>9. Fragment(AlertsPage(alerts, channel))
  BY <1>7, <1>8, UnionSound, ShellSound DEF AlertsPage, Fragment
<1>10. ASSUME NEW a \in Ids PROVE Fragment(AlertEditRow(a, channel))
  <2>1. <<"alert", a>> \in Seq(Names) /\ <<"alert", a>> # <<>> /\ <<"alert", a>>[1] \notin Pollers
    BY <1>1, PlacePaths, NamesKnown
  <2> QED BY <2>1, OneSound, PlainKinds DEF AlertEditRow
<1> QED BY <1>7, <1>9, <1>10

\* The settings.
LEMMA SettingsFragments ==
    ASSUME NEW keys \in SUBSET Ids, NEW tgts, DOMAIN tgts \subseteq Ids
    PROVE  /\ Fragment(ApiKeysSection(keys)) /\ Fragment(ScrapeTargetsSection(tgts))
           /\ Fragment(SettingsPage(keys, tgts))
<1>0. {"api-keys", "scrape-targets", "key", "target", "pushover", "pushover-test-result",
       "campfire", "campfire-test-result"} \subseteq Places
  BY DEF Places
<1>1. /\ "api-keys" \notin Pollers /\ "scrape-targets" \notin Pollers
      /\ "key" \in Names /\ "target" \in Names
      /\ <<"api-keys">> \in Seq(Names) /\ <<"scrape-targets">> \in Seq(Names)
  BY <1>0, NamesKnown, PlacePaths
<1>2. Fragment(ApiKeysSection(keys))
  <2> DEFINE row(k) == El(<<"api-keys", "key", k>>, "apiKey", <<k>>)
  <2>1. ASSUME NEW k \in keys
        PROVE  Placed(row(k)) /\ row(k).is = "apiKey" /\ row(k).at[1] = "api-keys"
    <3> DEFINE at == <<"api-keys", "key", k>>
               of == <<k>>
    <3>1. at \in Seq(Names) /\ at # <<>> /\ at[1] = "api-keys"
      BY <1>0, <1>1, PlacePaths, NamesKnown
    <3> HIDE DEF at, of
    <3>2. /\ Placed(El(at, "apiKey", of)) /\ El(at, "apiKey", of).at = at
          /\ El(at, "apiKey", of).is = "apiKey"
      BY <3>1, PlainPlaced, PlainKinds
    <3> QED BY <3>1, <3>2 DEF at, of
  <2> HIDE DEF row
  <2>2. Fragment({row(k) : k \in keys})
    BY <1>1, <2>1, PlainSound DEF Fragment
  <2>3. Fragment({El(<<"api-keys">>, "ApiKeysSection", <<>>)})
    BY <1>1, OneSound DEF Special
  <2> QED BY <2>2, <2>3, JoinFragments DEF ApiKeysSection, row
<1>3. Fragment(ScrapeTargetsSection(tgts))
  <2> DEFINE row(t) == El(<<"scrape-targets", "target", t>>, "scrapeTarget", <<t, tgts[t]>>)
  <2>1. ASSUME NEW t \in DOMAIN tgts
        PROVE  Placed(row(t)) /\ row(t).is = "scrapeTarget" /\ row(t).at[1] = "scrape-targets"
    <3> DEFINE at == <<"scrape-targets", "target", t>>
               of == <<t, tgts[t]>>
    <3>1. at \in Seq(Names) /\ at # <<>> /\ at[1] = "scrape-targets"
      BY <1>0, <1>1, PlacePaths, NamesKnown
    <3> HIDE DEF at, of
    <3>2. /\ Placed(El(at, "scrapeTarget", of)) /\ El(at, "scrapeTarget", of).at = at
          /\ El(at, "scrapeTarget", of).is = "scrapeTarget"
      BY <3>1, PlainPlaced, PlainKinds
    <3> QED BY <3>1, <3>2 DEF at, of
  <2> HIDE DEF row
  <2>2. Fragment({row(t) : t \in DOMAIN tgts})
    BY <1>1, <2>1, PlainSound DEF Fragment
  <2>3. Fragment({El(<<"scrape-targets">>, "ScrapeTargetsSection", <<>>)})
    BY <1>1, OneSound DEF Special
  <2> QED BY <2>2, <2>3, JoinFragments DEF ScrapeTargetsSection, row
<1>4. Sound(PushoverSection) /\ Sound(CampfireSection)
  <2>1. /\ <<"pushover">> \in Seq(Names) /\ <<"pushover-test-result">> \in Seq(Names)
        /\ <<"campfire">> \in Seq(Names) /\ <<"campfire-test-result">> \in Seq(Names)
    BY <1>0, PlacePaths, NamesKnown
  <2>2. /\ Sound({El(<<"pushover">>, "PushoverSection", <<>>)})
        /\ Sound({El(<<"pushover-test-result">>, "text", <<>>)})
        /\ Sound({El(<<"campfire">>, "CampfireSection", <<>>)})
        /\ Sound({El(<<"campfire-test-result">>, "text", <<>>)})
    BY <2>1, OneSound DEF Special
  <2>3. /\ PushoverSection = {El(<<"pushover">>, "PushoverSection", <<>>)}
                             \cup {El(<<"pushover-test-result">>, "text", <<>>)}
        /\ CampfireSection = {El(<<"campfire">>, "CampfireSection", <<>>)}
                             \cup {El(<<"campfire-test-result">>, "text", <<>>)}
    BY DEF PushoverSection, CampfireSection
  <2> QED BY <2>2, <2>3, UnionSound
<1>5. Sound(ApiKeysSection(keys) \cup PushoverSection \cup CampfireSection
            \cup ScrapeTargetsSection(tgts) \cup RetentionSection \cup BackupSection)
  <2>1. Sound(ApiKeysSection(keys)) /\ Sound(ScrapeTargetsSection(tgts))
        /\ Sound(RetentionSection) /\ Sound(BackupSection)
    BY <1>2, <1>3, TextPages DEF Fragment
  <2> QED BY <1>4, <2>1, UnionSound
<1> QED BY <1>2, <1>3, <1>5, ShellSound DEF SettingsPage

\* The logs and the war room.
LEMMA LogFragments ==
    ASSUME NEW rows \in SUBSET Logs, NEW more, NEW kind \in {"viewer", "table", "error"}
    PROVE  /\ Fragment(LogRowsPage(rows, more)) /\ Fragment(LogsResults(kind, rows, more))
           /\ Fragment(LogsPage(kind, rows, more))
           /\ Fragment(WarRoomPanes(rows)) /\ Fragment(WarRoomPage(rows))
           /\ Fragment(streamPanel(rows))
<1>0. {"log", "sentinel", "export", "log-scroll", "log-rows", "war-window-label", "war-chart",
       "war-mini", "war-logs", "results", "query-form", "war-form"} \subseteq Places
  BY DEF Places
<1>p. "log-rows" \in Names
  BY <1>0, NamesKnown
<1>1. /\ {"log", "sentinel", "export", "log-scroll", "war-window-label", "war-chart", "war-mini",
          "war-logs", "results"} \cap Pollers = {}
      /\ <<"log-scroll">> \in Seq(Names) /\ <<"log-scroll", "log-rows">> \in Seq(Names)
      /\ <<"export">> \in Seq(Names) /\ <<"war-logs">> \in Seq(Names)
      /\ <<"war-window-label">> \in Seq(Names) /\ <<"war-chart">> \in Seq(Names)
      /\ <<"war-mini">> \in Seq(Names) /\ <<"query-form">> \in Seq(Names)
      /\ <<"results">> \in Seq(Names) /\ <<"war-form">> \in Seq(Names)
  <2>1. {"log", "sentinel", "export", "log-scroll", "war-window-label", "war-chart", "war-mini",
         "war-logs", "results"} \cap Pollers = {}
    BY DEF Pollers, Segments
  <2>2. \A x \in Places : <<x>> \in Seq(Names) /\ <<x, "log-rows">> \in Seq(Names)
    BY <1>p, PlacePaths
  <2> QED BY <1>0, <2>1, <2>2
<1>2. Fragment({logRowTr(l) : l \in rows}) /\ Fragment(streamPanel(rows))
  <2> DEFINE row(l) == El(<<"log", l>>, "streamRow", <<l>>)
  <2>1. ASSUME NEW l \in rows
        PROVE  /\ Placed(logRowTr(l)) /\ logRowTr(l).is = "logRow" /\ logRowTr(l).at[1] = "log"
               /\ Placed(row(l)) /\ row(l).is = "streamRow" /\ row(l).at[1] = "log"
    <3> DEFINE at == <<"log", l>>
               of == <<l>>
    <3>1. at \in Seq(Names) /\ at # <<>> /\ at[1] = "log" /\ of[1] \in Logs
      BY <1>0, PlacePaths, NamesKnown
    <3>2. logRowTr(l) = [at |-> at, is |-> "logRow", of |-> of]
      BY DEF logRowTr, El
    <3>3. row(l) = [at |-> at, is |-> "streamRow", of |-> of]
      BY DEF El
    <3> HIDE DEF at, of, row
    <3> QED BY <3>1, <3>2, <3>3 DEF Placed
  <2> HIDE DEF row
  <2>2. Fragment({logRowTr(l) : l \in rows})
    BY <1>1, <2>1, PlainSound DEF Fragment
  <2>3. Fragment({row(l) : l \in rows})
    BY <1>1, <2>1, PlainSound DEF Fragment
  <2> QED BY <2>2, <2>3 DEF streamPanel, row
<1>3. Fragment(pageSentinel(more))
  <2> DEFINE e == El(<<"sentinel">>, "pageSentinel", <<>>)
  <2>1. Placed(e) /\ e.is = "pageSentinel" /\ e.at[1] = "sentinel"
    <3> DEFINE at == <<"sentinel">>
    <3>1. at \in Seq(Names) /\ at # <<>> /\ at[1] = "sentinel" /\ last(at) = "sentinel"
      BY <1>0, PlacePaths, NamesKnown
    <3>2. e = [at |-> at, is |-> "pageSentinel", of |-> <<>>]
      BY DEF El
    <3> HIDE DEF at, e
    <3> QED BY <3>1, <3>2 DEF Placed
  <2> HIDE DEF e
  <2>2. Fragment({e})
    BY <1>1, <2>1, PlainSound DEF Fragment
  <2> QED BY <2>2, JoinFragments DEF pageSentinel, e
<1>4. Fragment(LogRowsPage(rows, more))
  BY <1>2, <1>3, JoinFragments DEF LogRowsPage
<1>5. /\ Fragment({exportFooter}) /\ Fragment({El(<<"log-scroll">>, "text", <<>>)})
      /\ Fragment({El(<<"log-scroll", "log-rows">>, "text", <<>>)})
  BY <1>1, OneSound DEF exportFooter, Special
<1>6. Fragment(genericTable)
  <2>1. genericTable = {exportFooter} \cup {El(<<"log-scroll">>, "text", <<>>)}
    BY DEF genericTable
  <2> QED BY <1>5, <2>1, JoinFragments
<1>7. Fragment(Under(<<"log-scroll", "log-rows">>, LogRowsPage(rows, more)))
  <2>1. ASSUME NEW e \in LogRowsPage(rows, more)
        PROVE  [e EXCEPT !.at = <<"log-scroll", "log-rows">> \o @].at[1] = "log-scroll"
    <3>1. Placed(e)
      BY <1>4 DEF Fragment, Sound
    <3>2. [e EXCEPT !.at = <<"log-scroll", "log-rows">> \o @].at
             = <<"log-scroll", "log-rows">> \o e.at /\ e.at \in Seq(Names)
      BY <3>1 DEF Placed
    <3> QED BY <1>1, <3>2
  <2> QED BY <1>1, <1>4, <2>1, UnderSound DEF Fragment, Under
<1>8. Fragment(logViewer(rows, more))
  <2>1. logViewer(rows, more) =
            (({exportFooter} \cup {El(<<"log-scroll">>, "text", <<>>)})
             \cup {El(<<"log-scroll", "log-rows">>, "text", <<>>)})
            \cup Under(<<"log-scroll", "log-rows">>, LogRowsPage(rows, more))
    BY DEF logViewer
  <2> QED BY <1>5, <1>7, <2>1, JoinFragments
<1>9. Fragment(LogsResults(kind, rows, more))
  BY <1>6, <1>8, TextPages DEF LogsResults
<1>10. Fragment(LogsPage(kind, rows, more))
  <2>1. Sound(Under(<<"results">>, LogsResults(kind, rows, more)))
    BY <1>1, <1>9, UnderSound DEF Fragment
  <2>2. Sound({El(<<"query-form">>, "LogsPage", <<>>)}) /\ Sound({El(<<"results">>, "text", <<>>)})
    BY <1>1, OneSound DEF Special
  <2>3. {El(<<"query-form">>, "LogsPage", <<>>), El(<<"results">>, "text", <<>>)}
           = {El(<<"query-form">>, "LogsPage", <<>>)} \cup {El(<<"results">>, "text", <<>>)}
    OBVIOUS
  <2> QED BY <2>1, <2>2, <2>3, UnionSound, ShellSound DEF LogsPage
<1>11. Fragment(warWindowLabel) /\ Fragment(warMetricChart) /\ Fragment(warMini)
       /\ Fragment({El(<<"war-logs">>, "text", <<>>)})
  BY <1>1, OneSound DEF Special, warWindowLabel, warMetricChart, warMini
<1>12. Fragment(Under(<<"war-logs">>, streamPanel(rows)))
  <2>1. ASSUME NEW e \in streamPanel(rows)
        PROVE  [e EXCEPT !.at = <<"war-logs">> \o @].at[1] = "war-logs"
    <3>1. Placed(e)
      BY <1>2 DEF Fragment, Sound
    <3>2. [e EXCEPT !.at = <<"war-logs">> \o @].at = <<"war-logs">> \o e.at /\ e.at \in Seq(Names)
      BY <3>1 DEF Placed
    <3> QED BY <1>1, <3>2
  <2> QED BY <1>1, <1>2, <2>1, UnderSound DEF Fragment, Under
<1>13. Fragment(WarRoomPanes(rows))
  BY <1>11, <1>12, JoinFragments DEF WarRoomPanes, warLogs
<1>14. Fragment(WarRoomPage(rows))
  <2>1. Sound({El(<<"war-form">>, "WarRoomPage", <<>>)})
    BY <1>1, OneSound DEF Special
  <2> QED BY <1>13, <2>1, UnionSound, ShellSound DEF WarRoomPage, Fragment
<1> QED BY <1>2, <1>4, <1>9, <1>10, <1>13, <1>14

\* A log in full.
LEMMA DetailFragments ==
    ASSUME NEW l \in Logs
    PROVE  Fragment(LogDetailPage(l)) /\ Fragment(LogDetailBlock(l)) /\ Fragment(LogDetailRow(l))
<1>1. /\ <<"detail", l>> \in Seq(Names) /\ <<"detail", l>> # <<>> /\ <<"detail", l>>[1] = "detail"
      /\ <<"back">> \in Seq(Names) /\ <<"back">> # <<>> /\ "detail" \notin Pollers
  <2>1. "detail" \in Places /\ "back" \in Places
    BY DEF Places
  <2> QED BY <2>1, PlacePaths, NamesKnown
<1>2. Fragment({El(<<"detail", l>>, "text", <<>>)}) /\ Sound({El(<<"back">>, "logLinks", <<>>)})
  BY <1>1, OneSound DEF Special
<1> QED BY <1>2, ShellSound DEF LogDetailPage, LogDetailBlock, LogDetailRow

\* A panel has a place for its body.
LEMMA PanelFragments ==
    ASSUME NEW d, NEW p \in Ids, NEW type
    PROVE  Fragment(PanelCard(d, p)) /\ Fragment(PanelEditCard(d, p, type))
<1> DEFINE c == "panel-card"
           b == "panel-body"
           at == <<c, p>>
           below == <<c, p, b>>
           of == <<d, p>>
           form == <<d, p, type>>
           card == El(at, "PanelCard", of)
           body == El(below, "panelBody", of)
           edit == El(at, "PanelEditCard", form)
<1>0. c \in Places /\ b \in Names /\ p \in Names /\ c \in Names
  <2>1. "panel-card" \in Places
    BY DEF Places
  <2> QED BY <2>1, NamesKnown
<1>1. c \notin Pollers /\ c = "panel-card" /\ b = "panel-body"
  BY DEF Pollers, Segments
<1> HIDE DEF c, b
<1>p. /\ at \in Seq(Names) /\ at # <<>> /\ at[1] = c /\ last(at) = p
      /\ below \in Seq(Names) /\ below # <<>> /\ below[1] = c /\ last(below) = b
  BY <1>0, NamePaths
<1>5. below = at \o <<b>>
  BY <1>0
<1>o. of[2] \in Ids /\ form[2] \in Ids
  OBVIOUS
<1> HIDE DEF at, below, of, form
<1>2. /\ card = [at |-> at, is |-> "PanelCard", of |-> of]
      /\ body = [at |-> below, is |-> "panelBody", of |-> of]
      /\ edit = [at |-> at, is |-> "PanelEditCard", of |-> form]
  BY DEF El
<1> HIDE DEF card, body, edit
<1>3. Placed(card) /\ Placed(edit)
  BY <1>2, <1>p, <1>o DEF Placed
<1>4. Placed(body)
  BY <1>1, <1>2, <1>p, <1>o DEF Placed
<1>b. /\ card.is = "PanelCard" /\ body.is = "panelBody" /\ edit.is = "PanelEditCard"
      /\ body.at = card.at \o <<"panel-body">>
  BY <1>1, <1>2, <1>5
<1>6. Sound({card, body})
  BY <1>3, <1>4, <1>b DEF Sound, Polling
<1>7. Sound({edit})
  BY <1>3, <1>b, PlainSound
<1>8. card.at[1] = c /\ body.at[1] = c /\ edit.at[1] = c
  BY <1>2, <1>p
<1>9. Fragment({card, body}) /\ Fragment({edit})
  BY <1>1, <1>6, <1>7, <1>8 DEF Fragment
<1> QED BY <1>9 DEF PanelCard, PanelEditCard, card, body, edit, at, below, of, form, c, b

\* Many panels.
LEMMA PanelsSound ==
    ASSUME NEW d, NEW panels \in SUBSET Ids
    PROVE  Sound(UNION {PanelCard(d, p) : p \in panels})
<1> DEFINE all == UNION {PanelCard(d, p) : p \in panels}
<1>1. \A p \in panels : Sound(PanelCard(d, p)) /\ PanelCard(d, p) \subseteq all
  BY PanelFragments DEF Fragment
<1>2. ASSUME NEW e \in all
      PROVE  \E p \in panels : e \in PanelCard(d, p)
  OBVIOUS
<1> HIDE DEF all
<1>3. \A e \in all : Placed(e)
  BY <1>1, <1>2 DEF Sound
<1>4. ASSUME NEW e \in all, e.is = "HomePage", NEW s \in Segments
      PROVE  \E f \in all : f.is = "segment" /\ f.at = parent(e.at) \o <<s>>
  <2>1. PICK p \in panels : e \in PanelCard(d, p)
    BY <1>2
  <2>2. PICK f \in PanelCard(d, p) : f.is = "segment" /\ f.at = parent(e.at) \o <<s>>
    BY <1>1, <1>4, <2>1 DEF Sound, Polling
  <2> QED BY <1>1, <2>1, <2>2
<1>5. ASSUME NEW e \in all, e.is = "PanelCard"
      PROVE  \E f \in all : f.is = "panelBody" /\ f.at = e.at \o <<"panel-body">>
  <2>1. PICK p \in panels : e \in PanelCard(d, p)
    BY <1>2
  <2>2. PICK f \in PanelCard(d, p) : f.is = "panelBody" /\ f.at = e.at \o <<"panel-body">>
    BY <1>1, <1>5, <2>1 DEF Sound, Polling
  <2> QED BY <1>1, <2>1, <2>2
<1> QED BY <1>3, <1>4, <1>5 DEF Sound, Polling, all

\* The dashboards.
LEMMA DashboardFragments ==
    ASSUME NEW d, NEW type, NEW panels \in SUBSET Ids, NEW tables, DOMAIN tables \subseteq Ids
    PROVE  Fragment(DashboardPage(d, type, panels)) /\ Fragment(DashboardsListPage(tables))
<1>0. {"panels-region", "dashboards", "dashboard"} \subseteq Places
  BY DEF Places
<1>1. /\ <<"panels-region">> \in Seq(Names) /\ <<"dashboards">> \in Seq(Names)
      /\ <<"panels-region">> # <<>> /\ <<"dashboards">> # <<>>
  BY <1>0, PlacePaths, NamesKnown
<1>2. Sound(Under(<<"panels-region">>, UNION {PanelCard(d, p) : p \in panels}))
  BY <1>1, PanelsSound, UnderSound
<1>3. Sound({El(<<"panels-region">>, "text", <<>>)})
      /\ Sound({El(<<"dashboards">>, "DashboardsListPage", <<>>)})
  BY <1>1, OneSound DEF Special
<1>4. Sound(PanelsRegion(d, panels))
  BY <1>2, <1>3, UnionSound DEF PanelsRegion
<1>5. Sound({El(<<"dashboard">>, "DashboardPage", <<d, type>>)})
  <2> DEFINE e == El(<<"dashboard">>, "DashboardPage", <<d, type>>)
  <2>1. Placed(e) /\ e.is = "DashboardPage"
    <3> DEFINE at == <<"dashboard">>
    <3>1. at \in Seq(Names) /\ at # <<>> /\ last(at) = "dashboard"
      BY <1>0, PlacePaths, NamesKnown
    <3>2. e = [at |-> at, is |-> "DashboardPage", of |-> <<d, type>>]
      BY DEF El
    <3> HIDE DEF at, e
    <3> QED BY <3>1, <3>2 DEF Placed
  <2> HIDE DEF e
  <2>2. Sound({e})
    BY <2>1, PlainSound
  <2> QED BY <2>2 DEF e
<1>6. Sound({El(<<"dashboard", t>>, "dashboardLink", <<t, tables[t]>>) : t \in DOMAIN tables})
  <2> DEFINE row(t) == El(<<"dashboard", t>>, "dashboardLink", <<t, tables[t]>>)
  <2>1. ASSUME NEW t \in DOMAIN tables PROVE Placed(row(t)) /\ row(t).is = "dashboardLink"
    <3> DEFINE at == <<"dashboard", t>>
               of == <<t, tables[t]>>
    <3>1. at \in Seq(Names) /\ at # <<>>
      BY <1>0, PlacePaths, NamesKnown
    <3> HIDE DEF at, of
    <3>2. Placed(El(at, "dashboardLink", of)) /\ El(at, "dashboardLink", of).is = "dashboardLink"
      BY <3>1, PlainPlaced, PlainKinds
    <3> QED BY <3>2 DEF at, of
  <2> HIDE DEF row
  <2>2. Sound({row(t) : t \in DOMAIN tables})
    BY <2>1, PlainSound
  <2> QED BY <2>2 DEF row
<1>7. Fragment(DashboardPage(d, type, panels))
  BY <1>4, <1>5, UnionSound, ShellSound DEF DashboardPage
<1>8. Fragment(DashboardsListPage(tables))
  BY <1>3, <1>6, UnionSound, ShellSound DEF DashboardsListPage
<1> QED BY <1>7, <1>8

\* The metrics explorer.
LEMMA ExplorerFragment ==
    ASSUME NEW kind, NEW some, NEW dashboards
    PROVE  Fragment(MetricsExplorerPage(kind, some, dashboards))
<1>1. /\ <<"explorer">> \in Seq(Names) /\ <<"catalog">> \in Seq(Names) /\ <<"empty">> \in Seq(Names)
      /\ <<"views">> \in Seq(Names) /\ <<"save">> \in Seq(Names)
  <2>1. {"explorer", "catalog", "empty", "views", "save"} \subseteq Places
    BY DEF Places
  <2> QED BY <2>1, PlacePaths, NamesKnown
<1> DEFINE page == {El(<<"explorer">>, "MetricsExplorerPage", <<>>)}
           listed == IF kind = "catalog" THEN catalog ELSE {}
           nothing == IF kind = "empty" /\ ~some THEN {El(<<"empty">>, "settingsLink", <<>>)} ELSE {}
           to == IF dashboards = {} THEN "dashboardsLink" ELSE "saveAsPanel"
           data == IF kind = "data"
                   THEN {El(<<"views">>, "viewSegment", <<>>), El(<<"save">>, to, <<>>)} ELSE {}
<1>2. Sound(page)
  BY <1>1, OneSound DEF Special
<1>3. Sound(listed)
  <2>1. Sound(catalog)
    BY <1>1, OneSound DEF catalog, Special
  <2> QED BY <2>1, JoinFragments
<1>4. Sound(nothing)
  <2>1. Sound({El(<<"empty">>, "settingsLink", <<>>)})
    BY <1>1, OneSound DEF Special
  <2> QED BY <2>1, JoinFragments
<1>5. Sound(data)
  <2>1. to \notin Special
    BY DEF Special
  <2> HIDE DEF to
  <2>2. Sound({El(<<"views">>, "viewSegment", <<>>)}) /\ Sound({El(<<"save">>, to, <<>>)})
    BY <1>1, <2>1, OneSound DEF Special
  <2>3. {El(<<"views">>, "viewSegment", <<>>), El(<<"save">>, to, <<>>)}
           = {El(<<"views">>, "viewSegment", <<>>)} \cup {El(<<"save">>, to, <<>>)}
    OBVIOUS
  <2>4. Sound({El(<<"views">>, "viewSegment", <<>>), El(<<"save">>, to, <<>>)})
    BY <2>2, <2>3, UnionSound
  <2> QED BY <2>4, JoinFragments
<1>6. MetricsExplorerPage(kind, some, dashboards) = Shell(page \cup listed \cup nothing \cup data)
  BY DEF MetricsExplorerPage
<1> HIDE DEF page, listed, nothing, data
<1> QED BY <1>2, <1>3, <1>4, <1>5, <1>6, UnionSound, ShellSound

-----------------------------------------------------------------------------
(* What the controls ask for.                                              *)

\* The elements into which, and in place of which, answers are swapped by name.
Boxes   == {"dry-run", "pushover-test-result", "campfire-test-result", "results"}
Regions == {"alerts-region", "api-keys", "scrape-targets", "retention-section", "backup-section"}

\* The request names its rows.
Addressed(req) ==
    /\ req.path = panelPath => req.args[2] \in Ids
    /\ req.path = "/logs/{id}" => req.args[1] \in Logs

\* A control of e fills an element that is no row, or replaces one that does not
\* poll; the others replace the page or remove nothing but by id.
Aimed(e, c) ==
    /\ Addressed(c.req)
    /\ \/ c.swap = "page" /\ c.into = "document"
       \/ c.swap \in {"afterend", "oob", "none"} /\ c.into = "this"
       \/ c.swap = "innerHTML" /\ (c.into \in Boxes \/ (c.into = "this" /\ last(e.at) \notin Ids))
       \/ c.swap = "outerHTML" /\ (c.into \in Regions \/ (c.into = "this" /\ last(e.at) \notin Pollers))

\* The rows' ids are not the names of pollers, and the other way round.
LEMMA RowsAreNoPollers ==
    /\ \A i \in Ids : i \notin Pollers
    /\ "sentinel" \notin Pollers /\ "dashboard" \notin Ids
BY NamesKnown DEF Pollers, ElementIds, Segments

\* A control whose request names neither a panel nor a log.
LEMMA OtherAimed ==
    ASSUME NEW e, NEW c, c.req.path # panelPath, c.req.path # "/logs/{id}",
           \/ c.swap = "page" /\ c.into = "document"
           \/ c.swap \in {"afterend", "oob", "none"} /\ c.into = "this"
           \/ c.swap = "innerHTML" /\ (c.into \in Boxes \/ (c.into = "this" /\ last(e.at) \notin Ids))
           \/ c.swap = "outerHTML" /\ (c.into \in Regions \/ (c.into = "this" /\ last(e.at) \notin Pollers))
    PROVE  Aimed(e, c)
<1>1. Addressed(c.req)
  BY DEF Addressed
<1> QED BY <1>1, Zenon DEF Aimed

\* Links and forms that name neither a panel nor a log.
LEMMA PageAimed ==
    ASSUME NEW e, NEW path, path # panelPath, path # "/logs/{id}", NEW args
    PROVE  Aimed(e, Link(path, args)) /\ Aimed(e, Form(path, args)) /\ Aimed(e, Fetch(path))
<1> DEFINE l == Link(path, args)
           f == Form(path, args)
           g == Fetch(path)
<1>1. /\ l.req.path = path /\ l.swap = "page" /\ l.into = "document"
      /\ f.req.path = path /\ f.swap = "page" /\ f.into = "document"
      /\ g.req.path = path /\ g.swap = "none" /\ g.into = "this"
  BY DEF Link, Form, Fetch, Hx, Control, Req
<1> HIDE DEF l, f, g
<1>2. Aimed(e, l)
  BY <1>1, OtherAimed
<1>3. Aimed(e, f)
  BY <1>1, OtherAimed
<1>4. Aimed(e, g)
  BY <1>1, OtherAimed
<1> QED BY <1>2, <1>3, <1>4 DEF l, f, g

\* Htmx controls that name neither a panel nor a log.
LEMMA HxAimed ==
    ASSUME NEW e, NEW path, path # panelPath, path # "/logs/{id}", NEW args, NEW verb, NEW q,
           NEW into, NEW swap,
           \/ swap \in {"afterend", "oob", "none"} /\ into = "this"
           \/ swap = "innerHTML" /\ (into \in Boxes \/ (into = "this" /\ last(e.at) \notin Ids))
           \/ swap = "outerHTML" /\ (into \in Regions \/ (into = "this" /\ last(e.at) \notin Pollers))
    PROVE  Aimed(e, Hx(verb, path, args, q, into, swap))
<1> DEFINE c == Hx(verb, path, args, q, into, swap)
<1>1. c.req.path = path /\ c.swap = swap /\ c.into = into
  BY DEF Link, Form, Fetch, Hx, Control, Req
<1> HIDE DEF c
<1>2. Aimed(e, c)
  BY <1>1, OtherAimed
<1> QED BY <1>2 DEF c

\* The same, by what the control does to its target.
LEMMA HxKinds ==
    ASSUME NEW e, NEW path, path # panelPath, path # "/logs/{id}", NEW args, NEW verb, NEW q
    PROVE  /\ \A into \in Boxes : Aimed(e, Hx(verb, path, args, q, into, "innerHTML"))
           /\ \A into \in Regions : Aimed(e, Hx(verb, path, args, q, into, "outerHTML"))
           /\ last(e.at) \notin Ids => Aimed(e, Hx(verb, path, args, q, "this", "innerHTML"))
           /\ last(e.at) \notin Pollers => Aimed(e, Hx(verb, path, args, q, "this", "outerHTML"))
           /\ Aimed(e, Hx(verb, path, args, q, "this", "oob"))
<1>1. \A into \in Boxes : Aimed(e, Hx(verb, path, args, q, into, "innerHTML"))
  BY HxAimed
<1>2. \A into \in Regions : Aimed(e, Hx(verb, path, args, q, into, "outerHTML"))
  BY HxAimed
<1>3. last(e.at) \notin Ids => Aimed(e, Hx(verb, path, args, q, "this", "innerHTML"))
  BY HxAimed
<1>4. last(e.at) \notin Pollers => Aimed(e, Hx(verb, path, args, q, "this", "outerHTML"))
  BY HxAimed
<1>5. Aimed(e, Hx(verb, path, args, q, "this", "oob"))
  BY HxAimed
<1> QED BY <1>1, <1>2, <1>3, <1>4, <1>5

\* A panel's controls, and a log row's.
LEMMA RowAimed ==
    ASSUME NEW e, NEW args, NEW verb, NEW q
    PROVE  /\ args[2] \in Ids /\ last(e.at) \notin Ids =>
                 Aimed(e, Hx(verb, panelPath, args, q, "this", "innerHTML"))
           /\ args[2] \in Ids /\ last(e.at) \notin Pollers =>
                 Aimed(e, Hx(verb, panelPath, args, q, "this", "outerHTML"))
           /\ args[1] \in Logs => Aimed(e, Hx(verb, "/logs/{id}", args, q, "this", "afterend"))
<1>0. panelPath # "/logs/{id}"
  BY DEF panelPath
<1>1. ASSUME NEW c, NEW path, Addressed(c.req), c.into = "this",
             \/ c.swap = "afterend"
             \/ c.swap = "innerHTML" /\ last(e.at) \notin Ids
             \/ c.swap = "outerHTML" /\ last(e.at) \notin Pollers
      PROVE  Aimed(e, c)
  BY <1>1 DEF Aimed
<1>2. ASSUME NEW swap, args[2] \in Ids,
             \/ swap = "innerHTML" /\ last(e.at) \notin Ids
             \/ swap = "outerHTML" /\ last(e.at) \notin Pollers
      PROVE  Aimed(e, Hx(verb, panelPath, args, q, "this", swap))
  <2> DEFINE c == Hx(verb, panelPath, args, q, "this", swap)
  <2>1. c.req.path = panelPath /\ c.req.args = args /\ c.into = "this" /\ c.swap = swap
    BY DEF Link, Form, Fetch, Hx, Control, Req
  <2> HIDE DEF c
  <2>2. Addressed(c.req)
    BY <1>0, <1>2, <2>1 DEF Addressed
  <2>3. Aimed(e, c)
    BY <1>1, <1>2, <2>1, <2>2
  <2> QED BY <2>3 DEF c
<1>3. ASSUME args[1] \in Logs
      PROVE  Aimed(e, Hx(verb, "/logs/{id}", args, q, "this", "afterend"))
  <2> DEFINE c == Hx(verb, "/logs/{id}", args, q, "this", "afterend")
  <2>1. c.req.path = "/logs/{id}" /\ c.req.args = args /\ c.into = "this" /\ c.swap = "afterend"
    BY DEF Link, Form, Fetch, Hx, Control, Req
  <2> HIDE DEF c
  <2>2. Addressed(c.req)
    BY <1>0, <1>3, <2>1 DEF Addressed
  <2>3. Aimed(e, c)
    BY <1>1, <2>1, <2>2
  <2> QED BY <2>3 DEF c
<1> QED BY <1>2, <1>3

\* The controls of the frame, the home page, the alerts and the settings.
LEMMA PlainControlsAimed ==
    ASSUME NEW e, Placed(e),
           e.is \in {"Shell", "LoginPage", "HomePage", "segment", "logLinks", "metricLinks",
                     "settingsLink", "dashboardsLink", "alertRow", "alertCreateCard", "AlertEditRow",
                     "ApiKeysSection", "apiKey", "PushoverSection", "CampfireSection",
                     "ScrapeTargetsSection", "scrapeTarget", "RetentionSection", "BackupSection"}
    PROVE  \A c \in Controls(e) : Aimed(e, c)
<1>0. panelPath = "/dashboards/{id}/panels/{pid}"
  BY DEF panelPath
<1>1. CASE e.is = "Shell"
  <2>1. Controls(e) = ShellControls
    BY <1>1 DEF Controls
  <2>2. \A p \in {"/", "/logs", "/metrics-explorer", "/dashboards", "/alerts", "/settings"} :
           Aimed(e, Link(p, <<>>))
    BY <1>0, PageAimed
  <2>3. Aimed(e, Form("/logout", <<>>))
    BY <1>0, PageAimed
  <2> QED BY <2>1, <2>2, <2>3, Zenon DEF ShellControls, menuLink, navLink
<1>2. CASE e.is \in {"LoginPage", "HomePage", "logLinks", "metricLinks", "settingsLink",
                     "dashboardsLink", "ApiKeysSection", "ScrapeTargetsSection"}
  <2>1. Controls(e) \in {LoginControls, HomeControls, {Link("/logs", <<>>)},
                         {Link("/metrics-explorer", <<>>)}, {Link("/settings", <<>>)},
                         {Link("/dashboards", <<>>)}, ApiKeysControls, ScrapeTargetsControls}
    BY <1>2 DEF Controls
  <2>2. \A p \in {"/logs", "/war-room", "/metrics-explorer", "/settings", "/dashboards"} :
           Aimed(e, Link(p, <<>>))
    BY <1>0, PageAimed
  <2>3. \A p \in {"/login", "/settings/api-keys", "/settings/scrape-targets"} :
           Aimed(e, Form(p, <<>>))
    BY <1>0, PageAimed
  <2>4. CASE Controls(e) \in {LoginControls, HomeControls, ApiKeysControls, ScrapeTargetsControls}
    <3>1. \A c \in LoginControls \cup HomeControls : Aimed(e, c)
      BY <2>2, <2>3, Zenon DEF LoginControls, HomeControls
    <3>2. \A c \in ApiKeysControls \cup ScrapeTargetsControls : Aimed(e, c)
      BY <2>3, Zenon DEF ApiKeysControls, ScrapeTargetsControls
    <3> QED BY <2>4, <3>1, <3>2, Zenon
  <2>5. CASE Controls(e) \in {{Link("/logs", <<>>)}, {Link("/metrics-explorer", <<>>)},
                              {Link("/settings", <<>>)}, {Link("/dashboards", <<>>)}}
    <3>1. PICK p \in {"/logs", "/metrics-explorer", "/settings", "/dashboards"} :
             Controls(e) = {Link(p, <<>>)}
      BY <2>5, Zenon
    <3>2. Aimed(e, Link(p, <<>>))
      BY <2>2, <3>1, Zenon
    <3> QED BY <3>1, <3>2, Zenon
  <2> QED BY <2>1, <2>4, <2>5, Zenon
<1>3. CASE e.is = "segment"
  <2>1. Controls(e) = segmentControls(e.of[1]) /\ e.of[1] \in Segments /\ last(e.at) \notin Ids
    BY <1>3, NamesKnown DEF Controls, Placed, ElementIds
  <2>2. segmentPath(e.of[1]) \notin {panelPath, "/logs/{id}"}
    BY <1>0, <2>1 DEF segmentPath, Segments
  <2> DEFINE p == segmentPath(e.of[1])
  <2>3. p # panelPath /\ p # "/logs/{id}"
    BY <2>2
  <2> HIDE DEF p
  <2>4. Aimed(e, Hx("GET", p, <<>>, "", "this", "innerHTML"))
    BY <2>1, <2>3, HxKinds
  <2> QED BY <2>1, <2>4, Zenon DEF segmentControls, p
<1>4. CASE e.is = "alertRow"
  <2>1. Controls(e) = alertRowControls(e.of[1]) /\ last(e.at) \notin Pollers
    BY <1>4, RowsAreNoPollers DEF Controls, Placed
  <2>2. Aimed(e, Hx("POST", "/alerts/{id}/test", <<e.of[1]>>, "", "dry-run", "innerHTML"))
    BY <1>0, HxKinds DEF Boxes
  <2>3. Aimed(e, Hx("GET", "/alerts/{id}/edit", <<e.of[1]>>, "", "this", "outerHTML"))
    BY <1>0, <2>1, HxKinds
  <2>4. Aimed(e, Hx("DELETE", "/alerts/{id}", <<e.of[1]>>, "", "alerts-region", "outerHTML"))
    BY <1>0, HxKinds DEF Regions
  <2> QED BY <2>1, <2>2, <2>3, <2>4, Zenon DEF alertRowControls
<1>5. CASE e.is \in {"alertCreateCard", "AlertEditRow"}
  <2>1. \E method, a, ch : Controls(e) = alertForm(method, a, ch)
    BY <1>5 DEF Controls
  <2>2. PICK method, a, ch : Controls(e) = alertForm(method, a, ch)
    BY <2>1
  <2>3. \A c \in alertFormFields(ch) : Aimed(e, c)
    BY <1>0, PageAimed DEF alertFormFields
  <2> QED BY <1>0, <2>2, <2>3, PageAimed, HxAimed DEF alertForm, Regions
<1>6. CASE e.is \in {"apiKey", "scrapeTarget", "RetentionSection"}
  <2>1. Controls(e) \in {apiKeyControls(e.of[1]), scrapeTargetControls(e.of[1]), RetentionControls}
    BY <1>6 DEF Controls
  <2> DEFINE i == <<e.of[1]>>
  <2>2. Aimed(e, Hx("DELETE", "/settings/api-keys/{id}", i, "", "api-keys", "outerHTML"))
    BY <1>0, HxKinds DEF Regions
  <2>3. Aimed(e, Hx("POST", "/settings/scrape-targets/{id}/toggle", i, "", "scrape-targets", "outerHTML"))
    BY <1>0, HxKinds DEF Regions
  <2>4. Aimed(e, Hx("DELETE", "/settings/scrape-targets/{id}", i, "", "scrape-targets", "outerHTML"))
    BY <1>0, HxKinds DEF Regions
  <2>5. Aimed(e, Hx("PUT", "/settings/retention", <<>>, "", "retention-section", "outerHTML"))
    BY <1>0, HxKinds DEF Regions
  <2> QED BY <2>1, <2>2, <2>3, <2>4, <2>5, Zenon
          DEF apiKeyControls, scrapeTargetControls, RetentionControls
<1>7. CASE e.is \in {"PushoverSection", "CampfireSection"}
  <2>1. Controls(e) \in {PushoverControls, CampfireControls}
    BY <1>7 DEF Controls
  <2>2. /\ Aimed(e, Form("/settings/pushover", <<>>)) /\ Aimed(e, Form("/settings/campfire", <<>>))
    BY <1>0, PageAimed
  <2>3. Aimed(e, Hx("POST", "/settings/pushover/test", <<>>, "", "pushover-test-result", "innerHTML"))
    BY <1>0, HxKinds DEF Boxes
  <2>4. Aimed(e, Hx("POST", "/settings/campfire/test", <<>>, "", "campfire-test-result", "innerHTML"))
    BY <1>0, HxKinds DEF Boxes
  <2> QED BY <2>1, <2>2, <2>3, <2>4, Zenon DEF PushoverControls, CampfireControls
<1>8. CASE e.is = "BackupSection"
  <2>1. Controls(e) = BackupControls
    BY <1>8 DEF Controls
  <2>2. Aimed(e, Control(Req("POST", "/settings/backup/run", <<>>, ""), "backup-section",
                         "outerHTML", "header"))
    BY <1>0 DEF Aimed, Addressed, Control, Req, Regions
  <2> QED BY <1>0, <2>1, <2>2, HxAimed DEF BackupControls, Regions
<1> QED BY <1>1, <1>2, <1>3, <1>4, <1>5, <1>6, <1>7, <1>8

\* The controls of the logs, the dashboards, the explorer and the war room.
LEMMA RowControlsAimed ==
    ASSUME NEW e, Placed(e),
           e.is \in {"LogsPage", "logRow", "pageSentinel", "exportFooter", "streamRow",
                     "DashboardsListPage", "dashboardLink", "DashboardPage", "PanelCard",
                     "panelBody", "PanelEditCard", "MetricsExplorerPage", "viewSegment",
                     "saveAsPanel", "WarRoomPage"}
    PROVE  \A c \in Controls(e) : Aimed(e, c)
<1>0. panelPath = "/dashboards/{id}/panels/{pid}"
  BY DEF panelPath
<1>q. \A c \in QuickQueryBlock : Aimed(e, c)
  BY <1>0, PageAimed DEF QuickQueryBlock
<1>f. \A type : \A c \in panelFormFields(type) : Aimed(e, c)
  BY <1>0, <1>q, PageAimed DEF panelFormFields
<1>1. CASE e.is = "LogsPage"
  <2>1. Controls(e) = LogsControls
    BY <1>1 DEF Controls
  <2> QED BY <1>0, <2>1, HxAimed DEF LogsControls, Boxes
<1>2. CASE e.is \in {"logRow", "streamRow"}
  <2>1. Controls(e) \in {logRowControls(e.of[1]), streamRowControls(e.of[1])} /\ e.of[1] \in Logs
    BY <1>2 DEF Controls, Placed
  <2> DEFINE i == <<e.of[1]>>
  <2>2. i[1] \in Logs
    BY <2>1
  <2> HIDE DEF i
  <2>3. /\ Aimed(e, Hx("GET", "/logs/{id}", i, "", "this", "afterend"))
        /\ Aimed(e, Hx("GET", "/logs/{id}", i, "block", "this", "afterend"))
    BY <2>2, RowAimed
  <2>4. Aimed(e, Hx("GET", "/logs", <<>>, "", "results", "innerHTML"))
    BY <1>0, HxKinds DEF Boxes
  <2> QED BY <2>1, <2>3, <2>4, Zenon DEF logRowControls, streamRowControls, i
<1>3. CASE e.is = "pageSentinel"
  <2>1. Controls(e) = sentinelControls /\ last(e.at) \notin Pollers
    BY <1>3, RowsAreNoPollers DEF Controls, Placed
  <2> QED BY <1>0, <2>1, HxAimed DEF sentinelControls
<1>4. CASE e.is \in {"exportFooter", "DashboardsListPage", "viewSegment", "saveAsPanel"}
  <2>1. Controls(e) \in {exportControls, {Form("/dashboards", <<>>)}, viewSegment, saveAsPanel}
    BY <1>4 DEF Controls
  <2>2. /\ Aimed(e, Link("/logs/export", <<>>)) /\ Aimed(e, Form("/dashboards", <<>>))
        /\ Aimed(e, Link("/metrics-explorer", <<>>)) /\ Aimed(e, Link("/metrics-explorer/export", <<>>))
        /\ Aimed(e, Form("/metrics-explorer/save-panel", <<>>))
    BY <1>0, PageAimed
  <2> QED BY <2>1, <2>2, Zenon DEF exportControls, viewSegment, saveAsPanel
<1>5. CASE e.is = "dashboardLink"
  <2>1. Controls(e) = {Link("/dashboards/{id}", <<e.of[1]>>)}
    BY <1>5 DEF Controls
  <2> QED BY <1>0, <2>1, PageAimed
<1>6. CASE e.is = "DashboardPage"
  <2>1. Controls(e) = DashboardControls(e.of[1], e.of[2]) /\ last(e.at) \notin Ids
    BY <1>6, RowsAreNoPollers DEF Controls, Placed
  <2> DEFINE i == <<e.of[1]>>
  <2>2. Aimed(e, Link("/dashboards", <<>>)) /\ Aimed(e, Form("/dashboards/{id}/panels", i))
    BY <1>0, PageAimed
  <2>3. Aimed(e, Hx("DELETE", "/dashboards/{id}", i, "", "this", "innerHTML"))
    BY <1>0, <2>1, HxKinds
  <2> QED BY <1>f, <2>1, <2>2, <2>3, Zenon DEF DashboardControls
<1>7. CASE e.is = "PanelCard"
  <2>1. /\ Controls(e) = PanelCardControls(e.of[1], e.of[2])
        /\ last(e.at) \notin Pollers /\ e.of[2] \in Ids
    BY <1>7, RowsAreNoPollers DEF Controls, Placed
  <2> DEFINE i == <<e.of[1], e.of[2]>>
  <2>2. i[2] \in Ids
    BY <2>1
  <2> HIDE DEF i
  <2>3. /\ Aimed(e, Hx("GET", panelPath, i, "edit", "this", "outerHTML"))
        /\ Aimed(e, Hx("DELETE", panelPath, i, "", "this", "outerHTML"))
    BY <2>1, <2>2, RowAimed
  <2> QED BY <2>1, <2>3, Zenon DEF PanelCardControls, i
<1>8. CASE e.is = "panelBody"
  <2>1. /\ Controls(e) = panelBodyControls(e.of[1], e.of[2])
        /\ last(e.at) \notin Ids /\ e.of[2] \in Ids
    BY <1>8, NamesKnown DEF Controls, Placed, ElementIds
  <2> DEFINE i == <<e.of[1], e.of[2]>>
  <2>2. i[2] \in Ids
    BY <2>1
  <2> HIDE DEF i
  <2>3. /\ Aimed(e, Hx("GET", panelPath, i, "", "this", "innerHTML"))
    BY <2>1, <2>2, RowAimed
  <2> QED BY <2>1, <2>3, Zenon DEF panelBodyControls, i
<1>9. CASE e.is = "PanelEditCard"
  <2>1. /\ Controls(e) = PanelEditControls(e.of[1], e.of[2], e.of[3])
        /\ last(e.at) \notin Pollers /\ e.of[2] \in Ids
    BY <1>9, RowsAreNoPollers DEF Controls, Placed
  <2> DEFINE i == <<e.of[1], e.of[2]>>
  <2>2. i[2] \in Ids
    BY <2>1
  <2> HIDE DEF i
  <2>3. /\ Aimed(e, Hx("PUT", panelPath, i, "", "this", "outerHTML"))
        /\ Aimed(e, Hx("GET", panelPath, i, "card", "this", "outerHTML"))
    BY <2>1, <2>2, RowAimed
  <2> QED BY <1>f, <2>1, <2>3, Zenon DEF PanelEditControls, i
<1>10. CASE e.is = "MetricsExplorerPage"
  <2>1. Controls(e) = ExplorerControls
    BY <1>10 DEF Controls
  <2> QED BY <1>0, <1>q, <2>1, PageAimed DEF ExplorerControls
<1>11. CASE e.is = "WarRoomPage"
  <2>1. Controls(e) = WarRoomControls
    BY <1>11 DEF Controls
  <2> QED BY <1>0, <1>q, <2>1, PageAimed, HxAimed DEF WarRoomControls
<1> QED BY <1>1, <1>2, <1>3, <1>4, <1>5, <1>6, <1>7, <1>8, <1>9, <1>10, <1>11

\* Every control of every element.
LEMMA ControlsAimed == ASSUME NEW e, Placed(e) PROVE \A c \in Controls(e) : Aimed(e, c)
<1> DEFINE A == {"Shell", "LoginPage", "HomePage", "segment", "logLinks", "metricLinks",
                 "settingsLink", "dashboardsLink", "alertRow", "alertCreateCard", "AlertEditRow",
                 "ApiKeysSection", "apiKey", "PushoverSection", "CampfireSection",
                 "ScrapeTargetsSection", "scrapeTarget", "RetentionSection", "BackupSection"}
           B == {"LogsPage", "logRow", "pageSentinel", "exportFooter", "streamRow",
                 "DashboardsListPage", "dashboardLink", "DashboardPage", "PanelCard",
                 "panelBody", "PanelEditCard", "MetricsExplorerPage", "viewSegment",
                 "saveAsPanel", "WarRoomPage"}
<1>1. e.is \in A \/ e.is \in B \/ Controls(e) = {}
  BY DEF Controls
<1>2. CASE e.is \in A
  BY <1>2, PlainControlsAimed
<1>3. CASE e.is \in B
  BY <1>3, RowControlsAimed
<1> HIDE DEF A, B
<1> QED BY <1>1, <1>2, <1>3

-----------------------------------------------------------------------------
(* The messages under way.                                                 *)

Rec(step, req, to, swap, tok, els, fresh) ==
    [step |-> step, req |-> req, to |-> to, swap |-> swap, tok |-> tok, els |-> els,
     fresh |-> fresh]

\* What a request may aim at: see Aimed.
MayReplace(to, swap) ==
    /\ to \in Seq(Names)
    /\ swap \in {"page", "innerHTML", "outerHTML", "afterend", "oob", "none"}
    /\ swap # "page" => to # <<>>
    /\ swap = "innerHTML" => last(to) \notin Ids
    /\ swap = "outerHTML" => last(to) \notin Pollers

Message(m) ==
    \E step, req, to, swap, tok, els, fresh :
       /\ m = Rec(step, req, to, swap, tok, els, fresh)
       /\ Addressed(req) /\ MayReplace(to, swap) /\ Fragment(els)

Messages(ms) == \A m \in ms : Message(m)

\* The parts of a message.
LEMMA MessageParts ==
    ASSUME NEW m, Message(m)
    PROVE  Addressed(m.req) /\ MayReplace(m.to, m.swap) /\ Fragment(m.els)
<1>1. PICK step, req, to, swap, tok, els, fresh :
         /\ m = Rec(step, req, to, swap, tok, els, fresh)
         /\ Addressed(req) /\ MayReplace(to, swap) /\ Fragment(els)
  BY DEF Message
<1>2. m.req = req /\ m.to = to /\ m.swap = swap /\ m.els = els
  BY <1>1 DEF Rec
<1> QED BY <1>1, <1>2

\* A message that is changed in its parts.
LEMMA MessageChanged ==
    ASSUME NEW m, Message(m)
    PROVE  /\ Message([m EXCEPT !.fresh = FALSE])
           /\ Message([m EXCEPT !.step = "waiting"])
           /\ \A to : MayReplace(to, m.swap) => Message([m EXCEPT !.to = to])
           /\ \A step, els, fresh, req : Fragment(els) /\ Addressed(req) =>
                 Message([m EXCEPT !.step = step, !.els = els, !.fresh = fresh, !.req = req])
<1>1. PICK step, req, to, swap, tok, els, fresh :
         /\ m = Rec(step, req, to, swap, tok, els, fresh)
         /\ Addressed(req) /\ MayReplace(to, swap) /\ Fragment(els)
  BY DEF Message
<1>a. ASSUME NEW v PROVE [m EXCEPT !.fresh = v] = Rec(step, req, to, swap, tok, els, v)
  BY <1>1 DEF Rec
<1>2. [m EXCEPT !.fresh = FALSE] = Rec(step, req, to, swap, tok, els, FALSE)
  BY <1>a, Zenon
<1>3. [m EXCEPT !.step = "waiting"] = Rec("waiting", req, to, swap, tok, els, fresh)
  BY <1>1 DEF Rec
<1>4. \A x : [m EXCEPT !.to = x] = Rec(step, req, x, swap, tok, els, fresh)
  BY <1>1 DEF Rec
<1>6. m.swap = swap
  BY <1>1 DEF Rec
<1>7. Message([m EXCEPT !.fresh = FALSE])
  BY <1>1, <1>2, Zenon DEF Message
<1>8. Message([m EXCEPT !.step = "waiting"])
  BY <1>1, <1>3, Zenon DEF Message
<1>9. ASSUME NEW x, MayReplace(x, m.swap) PROVE Message([m EXCEPT !.to = x])
  <2>1. MayReplace(x, swap)
    BY <1>6, <1>9
  <2>2. [m EXCEPT !.to = x] = Rec(step, req, x, swap, tok, els, fresh)
    BY <1>4, Zenon
  <2> QED BY <1>1, <2>1, <2>2, Zenon DEF Message
<1>10. ASSUME NEW s, NEW x, NEW f, NEW r, Fragment(x), Addressed(r)
       PROVE  Message([m EXCEPT !.step = s, !.els = x, !.fresh = f, !.req = r])
  <2> DEFINE n == [m EXCEPT !.step = s, !.els = x, !.fresh = f, !.req = r]
  <2>1. DOMAIN n = {"step", "req", "to", "swap", "tok", "els", "fresh"}
    BY <1>1 DEF Rec
  <2>2. n.step = s /\ n.els = x /\ n.fresh = f /\ n.req = r
    BY <1>1 DEF Rec
  <2>3. n.to = to /\ n.swap = swap /\ n.tok = tok
    BY <1>1 DEF Rec
  <2>4. n = [i \in {"step", "req", "to", "swap", "tok", "els", "fresh"} |-> n[i]]
    BY <1>1 DEF Rec
  <2> HIDE DEF n
  <2>5. n = Rec(s, r, to, swap, tok, x, f)
    BY <2>1, <2>2, <2>3, <2>4 DEF Rec
  <2>6. Message(n)
    BY <1>1, <1>10, <2>5, Zenon DEF Message
  <2> QED BY <2>6 DEF n
<1> QED BY <1>7, <1>8, <1>9, <1>10

\* A request that is sent.
LEMMA AskedMessage ==
    ASSUME NEW req, Addressed(req), NEW to, NEW swap, MayReplace(to, swap), NEW tok
    PROVE  /\ Message(Asked(req, to, swap, tok))
           /\ \A fresh : Message([Asked(req, to, swap, tok) EXCEPT !.fresh = fresh])
<1>1. Asked(req, to, swap, tok) = Rec("asked", req, to, swap, tok, {}, TRUE)
  BY DEF Asked, Rec
<1>2. Fragment({})
  BY JoinFragments
<1>3. ASSUME NEW fresh
      PROVE  [Asked(req, to, swap, tok) EXCEPT !.fresh = fresh]
               = Rec("asked", req, to, swap, tok, {}, fresh)
  BY DEF Asked, Rec
<1> QED BY <1>1, <1>2, <1>3, Zenon DEF Message

\* Overtaken answers, and requests whose element is gone.
LEMMA OtherMessages ==
    ASSUME NEW ms, Messages(ms)
    PROVE  Messages(overtaken(ms)) /\ \A lost : Messages(without(ms, lost))
<1>1. ASSUME NEW m \in ms PROVE Message(m) /\ Message([m EXCEPT !.fresh = FALSE])
  BY MessageChanged DEF Messages
<1>2. ASSUME NEW m \in ms PROVE Message([m EXCEPT !.to = Gone])
  <2>1. Message(m)
    BY DEF Messages
  <2>2. Gone \in Seq(Names) /\ Gone # <<>> /\ last(Gone) \notin Ids /\ last(Gone) \notin Pollers
    <3>1. "gone" \in Places /\ "gone" \in ElementIds
      BY DEF Places, ElementIds
    <3>2. Gone \in Seq(Names) /\ Gone # <<>> /\ last(Gone) = "gone"
      BY <3>1, PlacePaths, NamesKnown DEF Gone
    <3> QED BY <3>1, <3>2, NamesKnown
  <2>3. MayReplace(m.to, m.swap)
    BY <2>1, MessageParts
  <2>4. MayReplace(Gone, m.swap)
    BY <2>2, <2>3 DEF MayReplace
  <2> QED BY <2>1, <2>4, MessageChanged
<1>3. Messages(overtaken(ms))
  BY <1>1, Zenon DEF Messages, overtaken
<1>4. ASSUME NEW lost PROVE Messages(without(ms, lost))
  BY <1>1, <1>2, Zenon DEF Messages, without
<1> QED BY <1>3, <1>4

\* The others, while a handler answers one of them.
LEMMA OthersMessages ==
    ASSUME Messages(flight), NEW m PROVE Messages(others(m))
<1>1. Messages(flight \ {m})
  BY DEF Messages
<1> QED BY <1>1, OtherMessages DEF others

\* The elements of an answer carry a token.
LEMMA StampedFragment ==
    ASSUME NEW els, Fragment(els), NEW tok
    PROVE  Fragment({[at |-> e.at, is |-> e.is, of |-> e.of, tok |-> tok] : e \in els})
<1> DEFINE stamp(e) == [at |-> e.at, is |-> e.is, of |-> e.of, tok |-> tok]
           T == {stamp(e) : e \in els}
<1>1. \A e \in els : stamp(e).at = e.at /\ stamp(e).is = e.is /\ stamp(e).of = e.of
                     /\ {"at", "is", "of"} \subseteq DOMAIN stamp(e)
  OBVIOUS
<1> HIDE DEF stamp
<1>2. \A e \in els : Placed(stamp(e))
  BY <1>1 DEF Fragment, Sound, Placed
<1>3. Polling(T)
  <2>1. \A f \in T : \E e \in els : f.at = e.at /\ f.is = e.is
    BY <1>1
  <2>2. \A e \in els : \E f \in T : f.at = e.at /\ f.is = e.is
    BY <1>1
  <2> HIDE DEF T
  <2>3. Polling(els)
    BY DEF Fragment, Sound
  <2>4. ASSUME NEW f \in T, f.is = "HomePage", NEW s \in Segments
        PROVE  \E g \in T : g.is = "segment" /\ g.at = parent(f.at) \o <<s>>
    <3>1. PICK e \in els : f.at = e.at /\ e.is = "HomePage"
      BY <2>1, <2>4
    <3>2. PICK h \in els : h.is = "segment" /\ h.at = parent(e.at) \o <<s>>
      BY <2>3, <3>1 DEF Polling
    <3> QED BY <2>2, <3>1, <3>2
  <2>5. ASSUME NEW f \in T, f.is = "PanelCard"
        PROVE  \E g \in T : g.is = "panelBody" /\ g.at = f.at \o <<"panel-body">>
    <3>1. PICK e \in els : f.at = e.at /\ e.is = "PanelCard"
      BY <2>1, <2>5
    <3>2. PICK h \in els : h.is = "panelBody" /\ h.at = e.at \o <<"panel-body">>
      BY <2>3, <3>1 DEF Polling
    <3> QED BY <2>2, <3>1, <3>2
  <2> QED BY <2>4, <2>5 DEF Polling
<1>4. Fragment(T)
  BY <1>1, <1>2, <1>3 DEF Fragment, Sound
<1> QED BY <1>4 DEF T, stamp

\* An answer.
LEMMA AnswerMessages ==
    ASSUME Messages(flight), NEW m \in flight, NEW els, Fragment(els), NEW fresh,
           Answer(m, els, fresh)
    PROVE  Messages(flight')
<1> DEFINE stamped == {[at |-> e.at, is |-> e.is, of |-> e.of, tok |-> csrf] : e \in els}
           answer == [m EXCEPT !.step = "answered", !.els = stamped,
                               !.fresh = fresh /\ m.fresh, !.req = Req("", "", <<>>, "")]
<1>1. Fragment(stamped)
  BY StampedFragment
<1>2. Message(m)
  BY DEF Messages
<1>3. flight' = others(m) \cup (IF m.to = Gone THEN {} ELSE {answer})
  BY DEF Answer
<1> HIDE DEF stamped
<1>4. Addressed(Req("", "", <<>>, ""))
  BY DEF Addressed, Req, panelPath
<1>5. Message(answer)
  BY <1>1, <1>2, <1>4, MessageChanged
<1>6. Messages(others(m))
  BY OthersMessages
<1> HIDE DEF answer
<1> QED BY <1>3, <1>5, <1>6 DEF Messages

\* A redirect asks again for the same element.
LEMMA AgainMessages ==
    ASSUME Messages(flight), NEW m \in flight, NEW req, Addressed(req), NEW tok, NEW fresh,
           AskAgain(m, req, tok, fresh)
    PROVE  Messages(flight')
<1>1. Message(m)
  BY DEF Messages
<1>2. MayReplace(m.to, m.swap)
  BY <1>1, MessageParts
<1> DEFINE again == [Asked(req, m.to, m.swap, tok) EXCEPT !.fresh = fresh]
<1>3. Message(again)
  BY <1>2, AskedMessage
<1>4. flight' = others(m) \cup (IF m.to = Gone THEN {} ELSE {again})
  BY DEF AskAgain
<1>5. Messages(others(m))
  BY OthersMessages
<1> HIDE DEF again
<1> QED BY <1>3, <1>4, <1>5 DEF Messages

LEMMA RedirectMessages ==
    ASSUME Messages(flight), NEW m \in flight, NEW path, path \notin {panelPath, "/logs/{id}"},
           NEW args, Redirect(m, path, args)
    PROVE  Messages(flight')
<1>1. Addressed(Req("GET", path, args, ""))
  BY DEF Addressed, Req
<1>2. AskAgain(m, Req("GET", path, args, ""), csrf, m.fresh)
  BY DEF Redirect
<1> QED BY <1>1, <1>2, AgainMessages

\* So does the redirect of a request without a session, whatever its method.
LEMMA FoundMessages ==
    ASSUME Messages(flight), NEW m \in flight, Found(m, "/login")
    PROVE  Messages(flight')
<1> DEFINE verb == IF m.req.verb = "POST" THEN "GET" ELSE m.req.verb
           navigation == isNavigation(m)
<1>1. AskAgain(m, Req(verb, "/login", <<>>, ""), m.tok, navigation)
  BY DEF Found
<1> HIDE DEF verb, navigation
<1>2. Addressed(Req(verb, "/login", <<>>, ""))
  BY DEF Addressed, Req, panelPath
<1> QED BY <1>1, <1>2, AgainMessages

\* A navigation that starts.
LEMMA NavigationMessage ==
    ASSUME NEW path, path \notin {panelPath, "/logs/{id}"}
    PROVE  Message(Asked(Req("GET", path, <<>>, ""), Document, "page", csrf))
<1>1. Addressed(Req("GET", path, <<>>, ""))
  BY DEF Addressed, Req
<1>2. MayReplace(Document, "page")
  <2>1. <<>> \in Seq(Names)
    BY EmptySeq
  <2> QED BY <2>1 DEF Document, MayReplace
<1> QED BY <1>1, <1>2, AskedMessage

\* So does a redirect of the whole tab.
LEMMA HxRedirectMessages ==
    ASSUME Messages(flight), NEW m, NEW path, path \notin {panelPath, "/logs/{id}"},
           HxRedirect(m, path)
    PROVE  Messages(flight')
<1>1. Messages(others(m))
  BY OthersMessages
<1>2. Messages(leaving(others(m)))
  BY <1>1, OtherMessages DEF leaving
<1> QED BY <1>1, <1>2, NavigationMessage DEF HxRedirect, Messages

\* A click, a submit or a timer.
LEMMA TriggerMessages ==
    ASSUME Sound(dom), Messages(flight), NEW e \in dom, NEW c \in Controls(e), Trigger(e, c)
    PROVE  Messages(flight')
<1>1. Placed(e) /\ Aimed(e, c)
  BY ControlsAimed DEF Sound
<1>a. PICK to \in targets(e, c) : \E tok :
         flight' = (IF to = Document THEN leaving(flight) ELSE flight)
                   \cup {Asked(c.req, to, c.swap, tok)}
  BY DEF Trigger
<1>2. PICK tok :
         flight' = (IF to = Document THEN leaving(flight) ELSE flight)
                   \cup {Asked(c.req, to, c.swap, tok)}
  BY <1>a
<1>3. \/ c.into = "document" /\ to = Document
      \/ c.into = "this" /\ to = e.at
      \/ c.into \notin {"document", "this"} /\ \E f \in dom : to = f.at /\ last(f.at) = c.into
  BY DEF targets
<1>4. to \in Seq(Names) /\ (c.into # "document" => to # <<>>)
  <2>1. \A f \in dom : f.at \in Seq(Names) /\ f.at # <<>>
    BY DEF Sound, Placed
  <2>2. Document \in Seq(Names)
    BY EmptySeq DEF Document
  <2> QED BY <1>3, <2>1, <2>2, Zenon
<1>5. c.swap = "innerHTML" => last(to) \notin Ids
  BY <1>1, <1>3, NamesKnown DEF Aimed, Boxes, ElementIds
<1>6. c.swap = "outerHTML" => last(to) \notin Pollers
  BY <1>1, <1>3 DEF Aimed, Regions, Pollers, Segments
<1>7. /\ c.swap \in {"page", "innerHTML", "outerHTML", "afterend", "oob", "none"}
      /\ c.swap # "page" => c.into # "document"
      /\ Addressed(c.req)
  BY <1>1 DEF Aimed, Boxes, Regions
<1>8. Message(Asked(c.req, to, c.swap, tok))
  <2>1. MayReplace(to, c.swap)
    BY <1>4, <1>5, <1>6, <1>7 DEF MayReplace
  <2> QED BY <1>7, <2>1, AskedMessage
<1>9. Messages(leaving(flight))
  BY OtherMessages DEF leaving
<1> QED BY <1>2, <1>8, <1>9 DEF Messages

-----------------------------------------------------------------------------
(* The tables hold ids.                                                    *)

Tables(t) ==
    /\ {"alerts", "keys", "targets", "dashboards", "panels", "channel"} \subseteq DOMAIN t
    /\ t.alerts \subseteq Ids /\ t.keys \subseteq Ids
    /\ DOMAIN t.targets \subseteq Ids /\ DOMAIN t.dashboards \subseteq Ids
    /\ t.panels \subseteq Ids \X Ids

\* One table replaced by another.
LEMMA TableReplaced ==
    ASSUME NEW t, Tables(t), NEW x
    PROVE  /\ x \subseteq Ids => Tables([t EXCEPT !.alerts = x])
           /\ x \subseteq Ids => Tables([t EXCEPT !.keys = x])
           /\ DOMAIN x \subseteq Ids => Tables([t EXCEPT !.targets = x])
           /\ DOMAIN x \subseteq Ids => Tables([t EXCEPT !.dashboards = x])
           /\ x \subseteq Ids \X Ids => Tables([t EXCEPT !.panels = x])
           /\ Tables([t EXCEPT !.channel = x])
<1>1. ASSUME x \subseteq Ids PROVE Tables([t EXCEPT !.alerts = x])
  BY <1>1 DEF Tables
<1>2. ASSUME x \subseteq Ids PROVE Tables([t EXCEPT !.keys = x])
  BY <1>2 DEF Tables
<1>3. ASSUME DOMAIN x \subseteq Ids PROVE Tables([t EXCEPT !.targets = x])
  BY <1>3 DEF Tables
<1>4. ASSUME DOMAIN x \subseteq Ids PROVE Tables([t EXCEPT !.dashboards = x])
  BY <1>4 DEF Tables
<1>5. ASSUME x \subseteq Ids \X Ids PROVE Tables([t EXCEPT !.panels = x])
  BY <1>5 DEF Tables
<1>6. Tables([t EXCEPT !.channel = x])
  BY DEF Tables
<1> QED BY <1>1, <1>2, <1>3, <1>4, <1>5, <1>6

\* What the operations make of tables is tables again.
LEMMA TablesWritten ==
    ASSUME Tables(db)
    PROVE  /\ \A t \in CreateAlert \cup CreateKey \cup CreateTarget \cup CreateDashboard \cup SetChannel
                       \cup {db} : Tables(t)
           /\ \A i : \A t \in DeleteAlert(i) \cup RevokeKey(i) \cup SetEnabled(i) \cup DeleteTarget(i)
                              \cup DeleteDashboard(i) : Tables(t)
           /\ \A d \in Ids : \A t \in CreatePanel(d) : Tables(t)
           /\ \A d, p : \A t \in DeletePanel(d, p) : Tables(t)
<1>1. /\ db.alerts \subseteq Ids /\ db.keys \subseteq Ids
      /\ DOMAIN db.targets \subseteq Ids /\ DOMAIN db.dashboards \subseteq Ids
      /\ db.panels \subseteq Ids \X Ids
      /\ {"alerts", "keys", "targets", "dashboards", "panels", "channel"} \subseteq DOMAIN db
  BY DEF Tables
<1>2. ASSUME NEW t \in CreateAlert PROVE Tables(t)
  <2>1. PICK i \in Ids : t = [db EXCEPT !.alerts = db.alerts \cup {i}]
    BY DEF CreateAlert
  <2>2. db.alerts \cup {i} \subseteq Ids
    BY <1>1
  <2> QED BY <2>1, <2>2, TableReplaced
<1>3. ASSUME NEW t \in CreateKey PROVE Tables(t)
  <2>1. PICK i \in Ids : t = [db EXCEPT !.keys = db.keys \cup {i}]
    BY DEF CreateKey
  <2>2. db.keys \cup {i} \subseteq Ids
    BY <1>1
  <2> QED BY <2>1, <2>2, TableReplaced
<1>4. ASSUME NEW t \in CreateTarget PROVE Tables(t)
  <2>1. PICK i \in Ids \ DOMAIN db.targets :
           t = [db EXCEPT !.targets = [u \in DOMAIN @ \cup {i} |-> IF u = i THEN "on" ELSE @[u]]]
    BY DEF CreateTarget
  <2> DEFINE g == [u \in DOMAIN db.targets \cup {i} |-> IF u = i THEN "on" ELSE db.targets[u]]
  <2>2. t = [db EXCEPT !.targets = g]
    BY <2>1
  <2>3. DOMAIN g \subseteq Ids
    BY <1>1
  <2> HIDE DEF g
  <2> QED BY <2>2, <2>3, TableReplaced
<1>5. ASSUME NEW t \in CreateDashboard PROVE Tables(t)
  <2>1. PICK i \in Ids \ DOMAIN db.dashboards, type \in {"logs", "metrics"} :
           t = [db EXCEPT !.dashboards = [u \in DOMAIN @ \cup {i} |-> IF u = i THEN type ELSE @[u]]]
    BY DEF CreateDashboard
  <2> DEFINE g == [u \in DOMAIN db.dashboards \cup {i} |-> IF u = i THEN type ELSE db.dashboards[u]]
  <2>2. t = [db EXCEPT !.dashboards = g]
    BY <2>1
  <2>3. DOMAIN g \subseteq Ids
    BY <1>1
  <2> HIDE DEF g
  <2> QED BY <2>2, <2>3, TableReplaced
<1>6. ASSUME NEW t \in SetChannel PROVE Tables(t)
  <2> DEFINE yes == TRUE
  <2>1. t = [db EXCEPT !.channel = yes]
    BY Zenon DEF SetChannel
  <2> HIDE DEF yes
  <2> QED BY <2>1, TableReplaced
<1>7. ASSUME NEW i, NEW t \in DeleteAlert(i) PROVE Tables(t)
  <2>1. t = [db EXCEPT !.alerts = db.alerts \ {i}]
    BY DEF DeleteAlert
  <2>2. db.alerts \ {i} \subseteq Ids
    BY <1>1
  <2> QED BY <2>1, <2>2, TableReplaced
<1>8. ASSUME NEW i, NEW t \in RevokeKey(i) PROVE Tables(t)
  <2>1. t = [db EXCEPT !.keys = db.keys \ {i}]
    BY DEF RevokeKey
  <2>2. db.keys \ {i} \subseteq Ids
    BY <1>1
  <2> QED BY <2>1, <2>2, TableReplaced
<1>9. ASSUME NEW i, NEW t \in SetEnabled(i) PROVE Tables(t)
  <2>1. CASE t = db
    BY <2>1
  <2>2. CASE t # db
    <3> DEFINE v == IF db.targets[i] = "on" THEN "off" ELSE "on"
               g == [db.targets EXCEPT ![i] = v]
    <3>1. t = [db EXCEPT !.targets[i] = v]
      BY <2>2 DEF SetEnabled
    <3> HIDE DEF v
    <3>2. t = [db EXCEPT !.targets = g]
      BY <3>1
    <3>3. DOMAIN g \subseteq Ids
      BY <1>1
    <3> HIDE DEF g
    <3> QED BY <3>2, <3>3, TableReplaced
  <2> QED BY <2>1, <2>2
<1>10. ASSUME NEW i, NEW t \in DeleteTarget(i) PROVE Tables(t)
  <2> DEFINE g == Restrict(db.targets, DOMAIN db.targets \ {i})
  <2>1. t = [db EXCEPT !.targets = g]
    BY DEF DeleteTarget
  <2>2. DOMAIN g \subseteq Ids
    BY <1>1 DEF Restrict
  <2> HIDE DEF g
  <2> QED BY <2>1, <2>2, TableReplaced
<1>11. ASSUME NEW i, NEW t \in DeleteDashboard(i) PROVE Tables(t)
  <2> DEFINE g == Restrict(db.dashboards, DOMAIN db.dashboards \ {i})
             q == {p \in db.panels : p[1] # i}
             u == [db EXCEPT !.dashboards = g]
  <2>1. t = [db EXCEPT !.dashboards = g, !.panels = q]
    BY DEF DeleteDashboard
  <2>2. DOMAIN g \subseteq Ids
    BY <1>1 DEF Restrict
  <2>3. q \subseteq Ids \X Ids
    BY <1>1
  <2> HIDE DEF g, q
  <2>4. t = [u EXCEPT !.panels = q]
    BY <2>1
  <2>5. Tables(u)
    BY <2>2, TableReplaced
  <2> HIDE DEF u
  <2> QED BY <2>3, <2>4, <2>5, TableReplaced
<1>12. ASSUME NEW d \in Ids, NEW t \in CreatePanel(d) PROVE Tables(t)
  <2>1. PICK i \in Ids : t = [db EXCEPT !.panels = db.panels \cup {<<d, i>>}]
    BY DEF CreatePanel
  <2>2. db.panels \cup {<<d, i>>} \subseteq Ids \X Ids
    BY <1>1
  <2> QED BY <2>1, <2>2, TableReplaced
<1>13. ASSUME NEW d, NEW p, NEW t \in DeletePanel(d, p) PROVE Tables(t)
  <2>1. t = [db EXCEPT !.panels = db.panels \ {<<d, p>>}]
    BY DEF DeletePanel
  <2>2. db.panels \ {<<d, p>>} \subseteq Ids \X Ids
    BY <1>1
  <2> QED BY <2>1, <2>2, TableReplaced
<1>14. \A t \in CreateAlert \cup CreateKey \cup CreateTarget \cup CreateDashboard \cup SetChannel
                \cup {db} : Tables(t)
  BY <1>2, <1>3, <1>4, <1>5, <1>6, Zenon
<1>15. \A i : \A t \in DeleteAlert(i) \cup RevokeKey(i) \cup SetEnabled(i) \cup DeleteTarget(i)
                       \cup DeleteDashboard(i) : Tables(t)
  BY <1>7, <1>8, <1>9, <1>10, <1>11, Zenon
<1> QED BY <1>12, <1>13, <1>14, <1>15, Zenon

\* The tables a browser starts with.
LEMMA TablesAtFirst == ASSUME NEW t \in DB PROVE Tables(t)
<1>1. /\ t.alerts \subseteq Ids /\ t.keys \subseteq Ids /\ t.panels \subseteq Ids \X Ids
      /\ t.targets \in UNION {[S -> {"on", "off"}] : S \in SUBSET Ids}
      /\ t.dashboards \in UNION {[S -> {"logs", "metrics"}] : S \in SUBSET Ids}
      /\ DOMAIN t = {"alerts", "keys", "targets", "dashboards", "panels", "channel"}
  BY DEF DB
<1>2. ASSUME NEW V, NEW g \in UNION {[S -> V] : S \in SUBSET Ids} PROVE DOMAIN g \subseteq Ids
  OBVIOUS
<1>3. DOMAIN t.targets \subseteq Ids /\ DOMAIN t.dashboards \subseteq Ids
  BY <1>1, <1>2
<1> QED BY <1>1, <1>3 DEF Tables

\* Anybody's edits of the tables.
Edit ==
    \/ db' \in CreateAlert \cup CreateKey \cup CreateTarget \cup CreateDashboard \cup SetChannel
               \cup {db}
    \/ \E i : db' \in DeleteAlert(i) \cup RevokeKey(i) \cup SetEnabled(i) \cup DeleteTarget(i)
                      \cup DeleteDashboard(i)
    \/ \E d \in DOMAIN db.dashboards : db' \in CreatePanel(d)
    \/ \E d, p : db' \in DeletePanel(d, p)

\* What they leave are tables.
LEMMA EditedTables == ASSUME Tables(db), Edit PROVE Tables(db')
<1>1. ASSUME NEW d \in DOMAIN db.dashboards PROVE d \in Ids
  BY DEF Tables
<1>2. ASSUME NEW d \in DOMAIN db.dashboards, db' \in CreatePanel(d) PROVE Tables(db')
  BY <1>1, <1>2, TablesWritten, Zenon
<1> QED BY <1>2, TablesWritten, Zenon DEF Edit

-----------------------------------------------------------------------------
(* The handlers.                                                           *)

\* A handler edits the tables and leaves the page alone.
LEMMA HandlersEdit == ASSUME NEW m, Handle(m) PROVE dom' = dom /\ Edit
<1> DEFINE Goal == dom' = dom /\ Edit
<1>1. ASSUME Reads PROVE Goal
  BY <1>1 DEF Reads, Edit, serverVars
<1>2. ASSUME NEW dbs, Writes(m, dbs) PROVE dom' = dom /\ db' \in dbs
  BY <1>2 DEF Writes
<1>3. ASSUME Fails(m) PROVE Goal
  BY <1>1, <1>3 DEF Fails
<1>4. ASSUME Download(m) PROVE Goal
  BY <1>4 DEF Download, Edit, serverVars
<1>5. ASSUME dom' = dom, UNCHANGED db PROVE Goal
  BY <1>5 DEF Edit
<1>6. CASE \/ csrfErrorHandler(m) \/ sessionAuth(m) \/ methodNotAllowed(m)
           \/ loginPage(m) \/ processLogin(m)
           \/ processLogout(m) \/ homePage(m) \/ homePageVolumeSegment(m)
           \/ homePageErrorsSegment(m) \/ homePageServicesSegment(m)
           \/ homePageMetricsServicesSegment(m) \/ homePageMetricsSegment(m)
  <2> HIDE DEF Goal
  <2>1. Reads \/ (dom' = dom /\ UNCHANGED db)
    BY <1>6 DEF csrfErrorHandler, sessionAuth, methodNotAllowed, loginPage, processLogin,
     processLogout,
       homePage, homePageVolumeSegment, homePageErrorsSegment, homePageServicesSegment,
       homePageMetricsServicesSegment, homePageMetricsSegment
  <2> QED BY <1>1, <1>5, <2>1 DEF Goal
<1>7. CASE \/ alertsPage(m) \/ createAlert(m) \/ editAlertPage(m) \/ updateAlert(m)
           \/ deleteAlert(m) \/ openAlertQuery(m) \/ dryRunAlert(m)
  <2>1. Reads \/ Writes(m, CreateAlert) \/ Writes(m, DeleteAlert(m.req.args[1])) \/ Fails(m)
    BY <1>7 DEF alertsPage, createAlert, editAlertPage, updateAlert, deleteAlert,
       openAlertQuery, dryRunAlert
  <2> QED BY <1>1, <1>2, <1>3, <2>1 DEF Edit
<1>8. CASE \/ settingsPage(m) \/ createApiKey(m) \/ deleteApiKey(m) \/ savePushover(m)
           \/ saveCampfire(m) \/ testPushover(m) \/ testCampfire(m)
           \/ createScrapeTarget(m) \/ toggleScrapeTarget(m) \/ deleteScrapeTarget(m)
           \/ updateRetentionSettings(m) \/ updateBackupSettings(m)
  <2>1. \/ Reads \/ Writes(m, CreateKey \cup {db}) \/ Writes(m, RevokeKey(m.req.args[1]))
        \/ Writes(m, SetChannel \cup {db}) \/ Writes(m, CreateTarget)
        \/ Writes(m, SetEnabled(m.req.args[1]) \cup {db})
        \/ Writes(m, DeleteTarget(m.req.args[1])) \/ Fails(m)
    BY <1>8 DEF settingsPage, createApiKey, deleteApiKey, savePushover, saveCampfire,
       testPushover, testCampfire, createScrapeTarget, toggleScrapeTarget,
       deleteScrapeTarget, updateRetentionSettings, updateBackupSettings
  <2> QED BY <1>1, <1>2, <1>3, <2>1 DEF Edit
<1>9. CASE runBackupNow(m) \/ runBackupNowReturns(m)
  <2>1. Reads \/ (dom' = dom /\ UNCHANGED db)
    BY <1>9 DEF runBackupNow, runBackupNowReturns, serverVars
  <2> QED BY <1>1, <1>5, <2>1
<1>10. CASE \/ logsPage(m) \/ logDetailsPage(m) \/ exportLogs(m) \/ warRoomPage(m)
  <2>1. Reads \/ Download(m)
    BY <1>10 DEF logsPage, logDetailsPage, exportLogs, warRoomPage
  <2> QED BY <1>1, <1>4, <2>1
<1>11. CASE \/ dashboardsPage(m) \/ createDashboard(m) \/ dashboardPage(m)
            \/ deleteDashboard(m) \/ createPanel(m) \/ panelFragment(m)
            \/ updatePanel(m) \/ deletePanel(m)
  <2>1. \/ Reads \/ Writes(m, CreateDashboard) \/ Writes(m, DeleteDashboard(m.req.args[1]))
        \/ m.req.args[1] \in DOMAIN db.dashboards /\ Writes(m, CreatePanel(m.req.args[1]))
        \/ Writes(m, DeletePanel(m.req.args[1], m.req.args[2])) \/ Fails(m)
    BY <1>11 DEF dashboardsPage, createDashboard, dashboardPage, deleteDashboard,
       createPanel, panelFragment, updatePanel, deletePanel
  <2> QED BY <1>1, <1>2, <1>3, <2>1 DEF Edit
<1>12. CASE \/ metricsExplorerPage(m) \/ saveExplorerPanel(m) \/ exportMetrics(m)
            \/ compileDSL(m) \/ filterOptions(m)
  <2>1. \/ Reads \/ Download(m)
        \/ \E d \in metricsDashboards : Writes(m, CreatePanel(d))
    BY <1>12 DEF metricsExplorerPage, saveExplorerPanel, exportMetrics, compileDSL,
       filterOptions
  <2>2. \A d \in metricsDashboards : d \in DOMAIN db.dashboards
    BY DEF metricsDashboards
  <2> QED BY <1>1, <1>2, <1>4, <2>1, <2>2 DEF Edit
<1> HIDE DEF Goal
<1> QED BY <1>6, <1>7, <1>8, <1>9, <1>10, <1>11, <1>12 DEF Handle, Goal

\* What a handler sends: a fragment, or a request that is redirected.
LEMMA HandlersSend ==
    ASSUME Messages(flight), Tables(db), NEW m \in flight, Handle(m)
    PROVE  Messages(flight')
<1>0. dom' = dom /\ Tables(db')
  BY HandlersEdit, EditedTables
<1>1. ASSUME NEW els, Fragment(els), Reply(m, els) PROVE Messages(flight')
  <2> DEFINE yes == TRUE
  <2>1. Answer(m, els, yes)
    BY <1>1, Zenon DEF Reply
  <2> HIDE DEF yes
  <2> QED BY <1>1, <2>1, AnswerMessages
<1>2. ASSUME Fails(m) PROVE Messages(flight')
  <2> DEFINE no == FALSE
  <2>1. Answer(m, Text, no)
    BY <1>2, Zenon DEF Fails
  <2> HIDE DEF no
  <2> QED BY <2>1, AnswerMessages, TextPages
<1>3. ASSUME NEW path \in {"/", "/login", "/alerts", "/settings", "/dashboards", "/dashboards/{id}",
                           "/logs", "/metrics-explorer"}, NEW args
      PROVE  /\ Redirect(m, path, args) => Messages(flight')
             /\ HxRedirect(m, path) => Messages(flight')
  <2>1. path \notin {panelPath, "/logs/{id}"}
    BY <1>3 DEF panelPath
  <2> QED BY <2>1, RedirectMessages, HxRedirectMessages
<1>4. ASSUME NEW args
      PROVE  /\ Redirect(m, "/", args) => Messages(flight')
             /\ Redirect(m, "/login", args) => Messages(flight')
             /\ Redirect(m, "/alerts", args) => Messages(flight')
             /\ Redirect(m, "/settings", args) => Messages(flight')
             /\ Redirect(m, "/dashboards/{id}", args) => Messages(flight')
             /\ Redirect(m, "/logs", args) => Messages(flight')
             /\ Redirect(m, "/metrics-explorer", args) => Messages(flight')
             /\ HxRedirect(m, "/login") => Messages(flight')
             /\ HxRedirect(m, "/dashboards") => Messages(flight')
  BY <1>3, Zenon
<1>5. ASSUME Download(m) PROVE Messages(flight')
  BY <1>5 DEF Download, Messages
<1>6. Fragment({}) /\ stored \subseteq Logs /\ {} \subseteq Logs
  BY JoinFragments DEF stored
<1>7. /\ db.alerts \subseteq Ids /\ db'.alerts \subseteq Ids
      /\ db.keys \subseteq Ids /\ db'.keys \subseteq Ids
      /\ DOMAIN db.targets \subseteq Ids /\ DOMAIN db'.targets \subseteq Ids
      /\ DOMAIN db.dashboards \subseteq Ids
  BY <1>0 DEF Tables
<1>8. Message(m) /\ Addressed(m.req)
  BY MessageParts DEF Messages
<1>9. ASSUME NEW verb, NEW path, Serve(m, verb, path) PROVE m.req.path = path
  BY <1>9 DEF Serve, route
<1>10. CASE csrfErrorHandler(m) \/ sessionAuth(m) \/ methodNotAllowed(m) \/ processLogout(m)
  BY <1>1, <1>4, <1>6, <1>10, FoundMessages, Zenon
     DEF csrfErrorHandler, sessionAuth, methodNotAllowed, processLogout
<1>11. CASE loginPage(m) \/ processLogin(m)
  BY <1>1, <1>4, <1>11, TextPages, Zenon DEF loginPage, processLogin
<1>12. CASE homePage(m)
  BY <1>1, <1>12, HomeFragment, Zenon DEF homePage
<1>13. CASE \/ homePageVolumeSegment(m) \/ homePageErrorsSegment(m) \/ homePageServicesSegment(m)
            \/ homePageMetricsServicesSegment(m) \/ homePageMetricsSegment(m)
  <2>1. \/ Reply(m, HomeVolume(ingested)) \/ Reply(m, HomeErrors(ingested))
        \/ Reply(m, HomeServices(ingested)) \/ Reply(m, HomeMetricsServices(ingested))
        \/ \E failing : Reply(m, HomeMetrics(ingested, failing))
        \/ Reply(m, Text)
    BY <1>13, Zenon DEF homePageVolumeSegment, homePageErrorsSegment, homePageServicesSegment,
       homePageMetricsServicesSegment, homePageMetricsSegment, homeFragmentError
  <2>2. ASSUME NEW failing, Reply(m, HomeMetrics(ingested, failing)) PROVE Messages(flight')
    BY <1>1, <2>2, SegmentFragments
  <2>3. /\ Fragment(HomeVolume(ingested)) /\ Fragment(HomeErrors(ingested))
        /\ Fragment(HomeServices(ingested)) /\ Fragment(HomeMetricsServices(ingested))
    BY SegmentFragments
  <2> QED BY <1>1, <2>1, <2>2, <2>3, TextPages, Zenon
<1>14. ASSUME NEW alerts, alerts \subseteq Ids, renderAlerts(m, alerts) PROVE Messages(flight')
  <2>1. \/ Reply(m, AlertsRegion(alerts)) \/ Reply(m, AlertsPage(alerts, db.channel))
        \/ Reply(m, Text)
    BY <1>14, Zenon DEF renderAlerts
  <2>2. Fragment(AlertsRegion(alerts)) /\ Fragment(AlertsPage(alerts, db.channel))
    BY <1>14, AlertFragments
  <2> QED BY <1>1, <2>1, <2>2, TextPages, Zenon
<1>15. CASE alertsPage(m) \/ createAlert(m) \/ updateAlert(m) \/ deleteAlert(m) \/ openAlertQuery(m)
  <2>1. \/ renderAlerts(m, db.alerts) \/ renderAlerts(m, db'.alerts) \/ Fails(m)
        \/ Redirect(m, "/alerts", <<>>) \/ Redirect(m, "/logs", <<>>)
        \/ Redirect(m, "/metrics-explorer", <<>>)
    BY <1>15 DEF alertsPage, createAlert, updateAlert, deleteAlert, openAlertQuery
  <2> QED BY <1>2, <1>4, <1>7, <1>14, <2>1, Zenon
<1>16. CASE editAlertPage(m) \/ dryRunAlert(m)
  <2>1. \/ Reply(m, {}) \/ Reply(m, DryRunResult)
        \/ m.req.args[1] \in db.alerts /\ Reply(m, AlertEditRow(m.req.args[1], db.channel))
    BY <1>16, Zenon DEF editAlertPage, dryRunAlert
  <2>2. m.req.args[1] \in db.alerts => Fragment(AlertEditRow(m.req.args[1], db.channel))
    BY <1>7, AlertFragments
  <2> QED BY <1>1, <1>6, <2>1, <2>2, TextPages, Zenon
<1>17. ASSUME NEW keys, keys \subseteq Ids, NEW tgts, DOMAIN tgts \subseteq Ids,
              \/ settingsView(m, keys, tgts) \/ renderScrapeTargetsSection(m, tgts)
              \/ Reply(m, ApiKeysSection(keys))
       PROVE  Messages(flight')
  <2>1. \/ Reply(m, SettingsPage(keys, tgts)) \/ Reply(m, Text)
        \/ Reply(m, ScrapeTargetsSection(tgts)) \/ Reply(m, ApiKeysSection(keys))
    BY <1>17, Zenon DEF settingsView, renderScrapeTargetsSection
  <2>2. /\ Fragment(ApiKeysSection(keys)) /\ Fragment(ScrapeTargetsSection(tgts))
        /\ Fragment(SettingsPage(keys, tgts))
    BY <1>17, SettingsFragments
  <2> QED BY <1>1, <2>1, <2>2, TextPages, Zenon
<1>18. CASE \/ settingsPage(m) \/ createApiKey(m) \/ deleteApiKey(m) \/ savePushover(m)
            \/ saveCampfire(m) \/ createScrapeTarget(m) \/ toggleScrapeTarget(m)
            \/ deleteScrapeTarget(m)
  <2>1. \/ settingsView(m, db.keys, db.targets) \/ settingsView(m, db'.keys, db'.targets)
        \/ Reply(m, ApiKeysSection(db'.keys)) \/ Reply(m, Text) \/ Fails(m)
        \/ Redirect(m, "/settings", <<>>) \/ renderScrapeTargetsSection(m, db'.targets)
    BY <1>18, Zenon DEF settingsPage, createApiKey, deleteApiKey, savePushover, saveCampfire,
       createScrapeTarget, toggleScrapeTarget, deleteScrapeTarget
  <2> QED BY <1>1, <1>2, <1>4, <1>7, <1>17, <2>1, TextPages, Zenon
<1>19. CASE \/ testPushover(m) \/ testCampfire(m) \/ updateRetentionSettings(m)
            \/ updateBackupSettings(m) \/ runBackupNowReturns(m)
  BY <1>1, <1>19, TextPages, Zenon
     DEF testPushover, testCampfire, updateRetentionSettings, updateBackupSettings,
         runBackupNowReturns
<1>20. CASE runBackupNow(m)
  <2>1. \/ Reply(m, BackupSection)
        \/ flight' = (flight \ {m}) \cup {[m EXCEPT !.step = "waiting"]}
    BY <1>20, Zenon DEF runBackupNow
  <2>2. Message([m EXCEPT !.step = "waiting"])
    BY <1>8, MessageChanged
  <2>3. ASSUME flight' = (flight \ {m}) \cup {[m EXCEPT !.step = "waiting"]}
        PROVE  Messages(flight')
    <3> DEFINE w == [m EXCEPT !.step = "waiting"]
    <3> HIDE DEF w
    <3> QED BY <2>2, <2>3 DEF Messages, w
  <2> QED BY <1>1, <2>1, <2>3, TextPages, Zenon
<1>21. ASSUME NEW kind \in {"viewer", "table", "error"}, NEW rows, rows \subseteq Logs, NEW more,
              renderLogs(m, kind, rows, more)
       PROVE  Messages(flight')
  <2>1. \/ Reply(m, LogRowsPage(rows, more)) \/ Reply(m, LogsResults(kind, rows, more))
        \/ Reply(m, LogsPage(kind, rows, more))
    BY <1>21, Zenon DEF renderLogs
  <2>2. /\ Fragment(LogRowsPage(rows, more)) /\ Fragment(LogsResults(kind, rows, more))
        /\ Fragment(LogsPage(kind, rows, more))
    BY <1>21, LogFragments
  <2> QED BY <1>1, <2>1, <2>2, Zenon
<1>22. CASE logsPage(m) \/ exportLogs(m)
  <2>1. \/ \E more : renderLogs(m, "viewer", stored, more)
        \/ \E kind \in {"table", "error"} : \E more : renderLogs(m, kind, {}, more)
        \/ Download(m) \/ Reply(m, Text)
    BY <1>22, Zenon DEF logsPage, exportLogs
  <2> QED BY <1>1, <1>5, <1>6, <1>21, <2>1, TextPages, Zenon
<1>23. CASE logDetailsPage(m)
  <2> DEFINE l == m.req.args[1]
  <2>1. l \in Logs
    <3>1. m.req.path = "/logs/{id}"
      BY <1>9, <1>23 DEF logDetailsPage
    <3> QED BY <1>8, <3>1 DEF Addressed
  <2>2. \/ Reply(m, LogDetailPage(l)) \/ Reply(m, LogDetailBlock(l)) \/ Reply(m, LogDetailRow(l))
        \/ Reply(m, {})
    BY <1>23, Zenon DEF logDetailsPage
  <2> HIDE DEF l
  <2>3. Fragment(LogDetailPage(l)) /\ Fragment(LogDetailBlock(l)) /\ Fragment(LogDetailRow(l))
    BY <2>1, DetailFragments
  <2> QED BY <1>1, <1>6, <2>2, <2>3, Zenon
<1>24. CASE warRoomPage(m)
  <2>1. Reply(m, WarRoomPanes(stored)) \/ Reply(m, WarRoomPage(stored))
    BY <1>24, Zenon DEF warRoomPage
  <2>2. Fragment(WarRoomPanes(stored)) /\ Fragment(WarRoomPage(stored))
    BY <1>6, LogFragments
  <2> QED BY <1>1, <2>1, <2>2, Zenon
<1>25. ASSUME NEW d, renderDashboard(m, d) PROVE Messages(flight')
  <2>1. Reply(m, DashboardPage(d, db.dashboards[d], panelsOf(d))) \/ Reply(m, Text)
    BY <1>25, Zenon DEF renderDashboard
  <2>2. panelsOf(d) \subseteq Ids
    BY DEF panelsOf, Tables
  <2>3. Fragment(DashboardPage(d, db.dashboards[d], panelsOf(d)))
    BY <1>7, <2>2, DashboardFragments
  <2> QED BY <1>1, <2>1, <2>3, TextPages, Zenon
<1>26. CASE \/ dashboardsPage(m) \/ createDashboard(m) \/ dashboardPage(m) \/ deleteDashboard(m)
            \/ createPanel(m)
  <2>1. \/ Reply(m, DashboardsListPage(db.dashboards)) \/ HxRedirect(m, "/dashboards") \/ Fails(m)
        \/ \E d : Redirect(m, "/dashboards/{id}", <<d>>)
        \/ renderDashboard(m, m.req.args[1]) \/ Reply(m, Text)
    BY <1>26, Zenon DEF dashboardsPage, createDashboard, dashboardPage, deleteDashboard, createPanel,
       renderDashboardsList
  <2>2. Fragment(DashboardsListPage(db.dashboards))
    BY <1>7, DashboardFragments
  <2> QED BY <1>1, <1>2, <1>4, <1>25, <2>1, <2>2, TextPages, Zenon
<1>27. CASE panelFragment(m) \/ updatePanel(m) \/ deletePanel(m)
  <2> DEFINE d == m.req.args[1]
             p == m.req.args[2]
             type == IF d \in DOMAIN db.dashboards THEN db.dashboards[d] ELSE "metrics"
  <2>1. p \in Ids
    <3>1. m.req.path = panelPath
      BY <1>9, <1>27 DEF panelFragment, updatePanel, deletePanel
    <3> QED BY <1>8, <3>1 DEF Addressed
  <2>2. \/ Reply(m, Text) \/ Reply(m, PanelEditCard(d, p, db.dashboards[d]))
        \/ Reply(m, PanelCard(d, p)) \/ Reply(m, Shaped)
        \/ Reply(m, PanelFragment(db.dashboards[d], stored))
        \/ Reply(m, PanelEditCard(d, p, type)) \/ Reply(m, {}) \/ Fails(m)
    <3>1. CASE panelFragment(m)
      BY <3>1, Zenon DEF panelFragment
    <3>2. CASE updatePanel(m) \/ deletePanel(m)
      BY <3>2, Zenon DEF updatePanel, deletePanel
    <3> QED BY <1>27, <3>1, <3>2
  <2> HIDE DEF d, p, type
  <2>3. /\ Fragment(PanelCard(d, p)) /\ Fragment(PanelEditCard(d, p, type))
        /\ Fragment(PanelEditCard(d, p, db.dashboards[d]))
    BY <2>1, PanelFragments
  <2>4. Fragment(PanelFragment(db.dashboards[d], stored))
    BY <1>6, LogFragments, TextPages DEF PanelFragment
  <2> QED BY <1>1, <1>2, <1>6, <2>2, <2>3, <2>4, TextPages, Zenon
<1>28. CASE \/ metricsExplorerPage(m) \/ saveExplorerPanel(m) \/ exportMetrics(m)
            \/ compileDSL(m) \/ filterOptions(m)
  <2>1. \/ \E kind : Reply(m, MetricsExplorerPage(kind, ingested, metricsDashboards))
        \/ \E d : Redirect(m, "/dashboards/{id}", <<d>>)
        \/ Download(m) \/ Reply(m, {}) \/ Reply(m, Text)
    BY <1>28, Zenon DEF metricsExplorerPage, saveExplorerPanel, exportMetrics, compileDSL,
       filterOptions, renderExplorer
  <2>2. ASSUME NEW kind PROVE Fragment(MetricsExplorerPage(kind, ingested, metricsDashboards))
    BY ExplorerFragment
  <2> QED BY <1>1, <1>4, <1>5, <1>6, <2>1, <2>2, TextPages, Zenon
<1>29. \/ csrfErrorHandler(m) \/ sessionAuth(m) \/ methodNotAllowed(m) \/ processLogout(m)
       \/ loginPage(m)
       \/ processLogin(m) \/ homePage(m) \/ homePageVolumeSegment(m) \/ homePageErrorsSegment(m)
       \/ homePageServicesSegment(m) \/ homePageMetricsServicesSegment(m)
       \/ homePageMetricsSegment(m) \/ alertsPage(m) \/ createAlert(m) \/ updateAlert(m)
       \/ deleteAlert(m) \/ openAlertQuery(m) \/ editAlertPage(m) \/ dryRunAlert(m)
       \/ settingsPage(m) \/ createApiKey(m) \/ deleteApiKey(m) \/ savePushover(m)
       \/ saveCampfire(m) \/ createScrapeTarget(m) \/ toggleScrapeTarget(m)
       \/ deleteScrapeTarget(m) \/ testPushover(m) \/ testCampfire(m)
       \/ updateRetentionSettings(m) \/ updateBackupSettings(m) \/ runBackupNowReturns(m)
       \/ runBackupNow(m) \/ logsPage(m) \/ exportLogs(m) \/ logDetailsPage(m) \/ warRoomPage(m)
       \/ dashboardsPage(m) \/ createDashboard(m) \/ dashboardPage(m) \/ deleteDashboard(m)
       \/ createPanel(m) \/ panelFragment(m) \/ updatePanel(m) \/ deletePanel(m)
       \/ metricsExplorerPage(m) \/ saveExplorerPanel(m) \/ exportMetrics(m) \/ compileDSL(m)
       \/ filterOptions(m)
  BY DEF Handle
<1> QED BY <1>10, <1>11, <1>12, <1>13, <1>15, <1>16, <1>18, <1>19, <1>20, <1>22, <1>23, <1>24,
           <1>26, <1>27, <1>28, <1>29

-----------------------------------------------------------------------------
(* An answer arrives.                                                      *)

\* The names in a path, in its parent and in its children.
LEMMA PathNames ==
    /\ \A p \in Seq(Names) : p # <<>> =>
          /\ \A n \in DOMAIN p : p[n] # last(p) => n \in DOMAIN parent(p) /\ parent(p)[n] = p[n]
          /\ \A n \in DOMAIN parent(p) : n \in DOMAIN p /\ parent(p)[n] = p[n]
          /\ parent(p) \in Seq(Names)
          /\ parent(p) # <<>> => parent(p)[1] = p[1]
    /\ \A p \in Seq(Names), x \in Names :
          /\ parent(p \o <<x>>) = p /\ last(p \o <<x>>) = x
          /\ p # <<>> => (p \o <<x>>)[1] = p[1]
<1>1. ASSUME NEW p \in Seq(Names), p # <<>>
      PROVE  /\ \A n \in DOMAIN p : p[n] # last(p) => n \in DOMAIN parent(p) /\ parent(p)[n] = p[n]
             /\ \A n \in DOMAIN parent(p) : n \in DOMAIN p /\ parent(p)[n] = p[n]
             /\ parent(p) \in Seq(Names)
             /\ parent(p) # <<>> => parent(p)[1] = p[1]
  <2> DEFINE q == parent(p)
  <2>1. /\ q \in Seq(Names) /\ Len(q) = Len(p) - 1
        /\ \A i \in 1..(Len(p) - 1) : q[i] = p[i]
    BY <1>1, ParentType
  <2>2. Len(p) \in Nat \ {0} /\ Len(q) \in Nat /\ DOMAIN p = 1..Len(p) /\ DOMAIN q = 1..Len(q)
    BY <1>1, <2>1, EmptySeq, LenProperties
  <2>3. q # <<>> => Len(q) # 0
    BY <2>1, EmptySeq
  <2> HIDE DEF q
  <2>4. \A n \in DOMAIN p : p[n] # last(p) => n \in DOMAIN q /\ q[n] = p[n]
    BY <2>1, <2>2 DEF last
  <2>5. \A n \in DOMAIN q : n \in DOMAIN p /\ q[n] = p[n]
    BY <2>1, <2>2
  <2>6. q # <<>> => q[1] = p[1]
    BY <2>1, <2>2, <2>3
  <2> QED BY <2>1, <2>4, <2>5, <2>6 DEF q
<1>2. ASSUME NEW p \in Seq(Names), NEW x \in Names
      PROVE  parent(p \o <<x>>) = p /\ last(p \o <<x>>) = x /\ p \o <<x>> \in Seq(Names)
             /\ p \o <<x>> # <<>>
  BY ParentOfChild
<1>3. ASSUME NEW p \in Seq(Names), NEW x \in Names, p # <<>>
      PROVE  (p \o <<x>>)[1] = p[1]
  <2> DEFINE q == p \o <<x>>
  <2>1. q \in Seq(Names) /\ q # <<>> /\ parent(q) = p
    BY <1>2
  <2> HIDE DEF q
  <2>2. q[1] = p[1]
    BY <1>1, <1>3, <2>1
  <2> QED BY <2>2 DEF q
<1> QED BY <1>1, <1>2, <1>3

\* Where the elements are that poll for e: beside it, or in it if it is a row.
LEMMA PollerOf ==
    ASSUME NEW els, Sound(els), NEW e \in els
    PROVE  /\ e.is = "HomePage" =>
                 \A s \in Segments : \E f \in els :
                    /\ f.is = "segment" /\ f.at = parent(e.at) \o <<s>>
                    /\ last(f.at) \in Pollers /\ parent(f.at) = parent(e.at)
                    /\ f.at[1] = e.at[1]
           /\ e.is = "PanelCard" =>
                 \E f \in els :
                    /\ f.is = "panelBody" /\ f.at = e.at \o <<"panel-body">>
                    /\ last(f.at) \in Pollers /\ parent(f.at) = e.at /\ last(e.at) \in Ids
                    /\ f.at[1] = e.at[1]
<1>1. Placed(e) /\ e.at \in Seq(Names) /\ e.at # <<>>
  BY DEF Sound, Placed
<1>2. ASSUME e.is = "HomePage", NEW s \in Segments
      PROVE  \E f \in els :
                /\ f.is = "segment" /\ f.at = parent(e.at) \o <<s>>
                /\ last(f.at) \in Pollers /\ parent(f.at) = parent(e.at)
                /\ f.at[1] = e.at[1]
  <2>1. PICK f \in els : f.is = "segment" /\ f.at = parent(e.at) \o <<s>>
    BY <1>2 DEF Sound, Polling
  <2>2. s \in Names /\ s \in Pollers
    BY NamesKnown
  <2>3. parent(e.at) \in Seq(Names) /\ parent(e.at) # <<>> /\ parent(e.at)[1] = e.at[1]
    BY <1>1, <1>2, PathNames DEF Placed
  <2> DEFINE p == parent(e.at)
  <2> HIDE DEF p
  <2>4. \A q \in Seq(Names) :
           /\ parent(q \o <<s>>) = q /\ last(q \o <<s>>) = s
           /\ q # <<>> => (q \o <<s>>)[1] = q[1]
    BY <2>2, PathNames
  <2>5. last(f.at) = s /\ parent(f.at) = parent(e.at) /\ f.at[1] = e.at[1]
    BY <2>1, <2>3, <2>4
  <2> QED BY <2>1, <2>2, <2>5
<1>3. ASSUME e.is = "PanelCard"
      PROVE  \E f \in els :
                /\ f.is = "panelBody" /\ f.at = e.at \o <<"panel-body">>
                /\ last(f.at) \in Pollers /\ parent(f.at) = e.at /\ last(e.at) \in Ids
                /\ f.at[1] = e.at[1]
  <2> DEFINE b == "panel-body"
  <2>1. PICK f \in els : f.is = "panelBody" /\ f.at = e.at \o <<b>>
    BY <1>3 DEF Sound, Polling
  <2>2. b \in Names /\ b \in Pollers
    BY NamesKnown
  <2> HIDE DEF b
  <2>3. last(e.at) \in Ids
    BY <1>1, <1>3 DEF Placed
  <2>4. \A q \in Seq(Names) :
           /\ parent(q \o <<b>>) = q /\ last(q \o <<b>>) = b
           /\ q # <<>> => (q \o <<b>>)[1] = q[1]
    BY <2>2, PathNames
  <2>5. last(f.at) = b /\ parent(f.at) = e.at /\ f.at[1] = e.at[1]
    BY <1>1, <2>1, <2>4
  <2> QED BY <2>1, <2>2, <2>3, <2>5 DEF b
<1> QED BY <1>2, <1>3

\* What a swap removes and adds, by its kind.
LEMMA SwapKinds ==
    ASSUME NEW m
    PROVE  /\ m.swap = "page" => removed(m) = dom /\ added(m) = m.els
           /\ m.swap = "innerHTML" =>
                 /\ removed(m) = {e \in dom : IsPrefixPath(m.to, e.at) /\ e.at # m.to}
                 /\ added(m) = Under(m.to, m.els)
           /\ m.swap = "outerHTML" =>
                 /\ removed(m) = {e \in dom : IsPrefixPath(m.to, e.at)}
                 /\ added(m) = Under(parent(m.to), m.els)
           /\ m.swap = "oob" =>
                 /\ removed(m) = {e \in dom : \E f \in outOfBand(m), n \in DOMAIN e.at :
                                                 e.at[n] = f.at[1]}
                 /\ added(m) = Under(parent(m.to), outOfBand(m))
           /\ m.swap = "afterend" => removed(m) = {} /\ added(m) = Under(parent(m.to), m.els)
           /\ m.swap = "none" => removed(m) = {} /\ added(m) = {}
<1>1. CASE m.swap = "page"
  BY <1>1 DEF removed, added
<1>2. CASE m.swap = "innerHTML"
  BY <1>2 DEF removed, added
<1>3. CASE m.swap = "outerHTML"
  BY <1>3 DEF removed, added
<1>4. CASE m.swap = "oob"
  BY <1>4 DEF removed, added
<1>5. CASE m.swap = "afterend"
  BY <1>5 DEF removed, added
<1>6. CASE m.swap = "none"
  BY <1>6 DEF removed, added
<1> QED BY <1>1, <1>2, <1>3, <1>4, <1>5, <1>6

\* A swap that leaves an element leaves what polls for it.
LEMMA PollersSurvive ==
    ASSUME Sound(dom), NEW m, Message(m), NEW e \in dom, e \notin removed(m), NEW f \in dom,
           last(f.at) \in Pollers,
           parent(f.at) = parent(e.at) \/ (parent(f.at) = e.at /\ last(e.at) \in Ids)
    PROVE  f \notin removed(m)
<1>1. /\ e.at \in Seq(Names) /\ e.at # <<>> /\ f.at \in Seq(Names) /\ f.at # <<>>
  BY DEF Sound, Placed
<1>2. MayReplace(m.to, m.swap) /\ Fragment(m.els) /\ m.to \in Seq(Names)
  BY MessageParts DEF MayReplace
<1>3. /\ IsPrefixPath(m.to, f.at) /\ m.to # f.at => IsPrefixPath(m.to, parent(f.at))
      /\ IsPrefixPath(m.to, parent(e.at)) => IsPrefixPath(m.to, e.at) /\ m.to # e.at
  BY <1>1, <1>2, PrefixOfParent
<1>4. CASE m.swap = "innerHTML"
  <2>1. removed(m) = {x \in dom : IsPrefixPath(m.to, x.at) /\ x.at # m.to}
    BY <1>4, SwapKinds
  <2>2. last(m.to) \notin Ids
    BY <1>2, <1>4 DEF MayReplace
  <2> QED BY <1>3, <2>1, <2>2
<1>5. CASE m.swap = "outerHTML"
  <2>1. removed(m) = {x \in dom : IsPrefixPath(m.to, x.at)}
    BY <1>5, SwapKinds
  <2>2. last(m.to) \notin Pollers
    BY <1>2, <1>5 DEF MayReplace
  <2> QED BY <1>3, <2>1, <2>2
<1>6. CASE m.swap = "oob"
  <2>1. removed(m) = {x \in dom : \E g \in outOfBand(m), n \in DOMAIN x.at : x.at[n] = g.at[1]}
    BY <1>6, SwapKinds
  <2>2. SUFFICES ASSUME f \in removed(m) PROVE FALSE
    OBVIOUS
  <2>3. PICK g \in outOfBand(m), n \in DOMAIN f.at : f.at[n] = g.at[1]
    BY <2>1, <2>2
  <2>4. g.at[1] \notin Pollers
    BY <1>2 DEF outOfBand, Fragment
  <2>5. n \in DOMAIN parent(f.at) /\ parent(f.at)[n] = f.at[n]
    BY <1>1, <2>3, <2>4, PathNames
  <2>6. n \in DOMAIN e.at /\ e.at[n] = g.at[1]
    <3>1. n \in DOMAIN parent(e.at) => n \in DOMAIN e.at /\ parent(e.at)[n] = e.at[n]
      BY <1>1, PathNames
    <3> QED BY <2>3, <2>5, <3>1
  <2> QED BY <2>1, <2>6
<1>7. CASE m.swap = "page"
  BY <1>7, SwapKinds
<1>8. CASE m.swap \in {"afterend", "none"}
  BY <1>8, SwapKinds
<1> QED BY <1>2, <1>4, <1>5, <1>6, <1>7, <1>8 DEF MayReplace

\* What a swap adds has what polls for it.
LEMMA AddedSound == ASSUME NEW m, Message(m) PROVE Sound(added(m))
<1>1. MayReplace(m.to, m.swap) /\ Fragment(m.els) /\ m.to \in Seq(Names) /\ Sound(m.els)
  BY MessageParts DEF MayReplace, Fragment
<1>2. m.swap # "page" => parent(m.to) \in Seq(Names)
  BY <1>1, ParentType DEF MayReplace
<1>3. Sound(outOfBand(m))
  <2>1. \A e \in outOfBand(m) : e \in m.els /\ Placed(e)
    BY <1>1 DEF outOfBand, Sound
  <2>2. ASSUME NEW e \in outOfBand(m)
        PROVE  /\ e.is = "HomePage" =>
                     \A s \in Segments : \E f \in outOfBand(m) :
                        f.is = "segment" /\ f.at = parent(e.at) \o <<s>>
               /\ e.is = "PanelCard" =>
                     \E f \in outOfBand(m) : f.is = "panelBody" /\ f.at = e.at \o <<"panel-body">>
    <3>1. e \in m.els /\ e.at[1] # "page"
      BY DEF outOfBand
    <3>2. \A f \in m.els : f.at[1] = e.at[1] => f \in outOfBand(m)
      BY <3>1 DEF outOfBand
    <3>3. ASSUME e.is = "HomePage", NEW s \in Segments
          PROVE  \E f \in outOfBand(m) : f.is = "segment" /\ f.at = parent(e.at) \o <<s>>
      <4>1. PICK f \in m.els : /\ f.is = "segment" /\ f.at = parent(e.at) \o <<s>>
                               /\ f.at[1] = e.at[1]
        BY <1>1, <3>1, <3>3, PollerOf
      <4> QED BY <3>2, <4>1, Zenon
    <3>4. ASSUME e.is = "PanelCard"
          PROVE  \E f \in outOfBand(m) : f.is = "panelBody" /\ f.at = e.at \o <<"panel-body">>
      <4>1. PICK f \in m.els : /\ f.is = "panelBody" /\ f.at = e.at \o <<"panel-body">>
                               /\ f.at[1] = e.at[1]
        BY <1>1, <3>1, <3>4, PollerOf
      <4> QED BY <3>2, <4>1, Zenon
    <3> QED BY <3>3, <3>4, Zenon
  <2> QED BY <2>1, <2>2, Zenon DEF Sound, Polling
<1>4. CASE m.swap = "page"
  BY <1>1, <1>4, SwapKinds
<1>5. CASE m.swap = "innerHTML"
  <2>1. Sound(Under(m.to, m.els))
    BY <1>1, UnderSound
  <2> QED BY <1>5, <2>1, SwapKinds
<1>6. CASE m.swap \in {"outerHTML", "afterend"}
  <2>1. Sound(Under(parent(m.to), m.els))
    BY <1>1, <1>2, <1>6, UnderSound
  <2> QED BY <1>6, <2>1, SwapKinds
<1>7. CASE m.swap = "oob"
  <2>1. Sound(Under(parent(m.to), outOfBand(m)))
    BY <1>2, <1>3, <1>7, UnderSound
  <2> QED BY <1>7, <2>1, SwapKinds
<1>8. CASE m.swap = "none"
  BY <1>8, SwapKinds, JoinFragments
<1> QED BY <1>1, <1>4, <1>5, <1>6, <1>7, <1>8 DEF MayReplace

\* The swap of an answer keeps the page sound.
LEMMA ReceivedSound ==
    ASSUME Sound(dom), Messages(flight), NEW m \in flight, Receive(m)
    PROVE  Sound(dom') /\ Messages(flight')
<1>1. Message(m)
  BY DEF Messages
<1> DEFINE kept == dom \ removed(m)
<1>2. Sound(kept)
  <2>1. \A e \in kept : Placed(e)
    BY DEF Sound
  <2>2. ASSUME NEW e \in kept, e.is = "HomePage", NEW s \in Segments
        PROVE  \E f \in kept : f.is = "segment" /\ f.at = parent(e.at) \o <<s>>
    <3>1. PICK f \in dom : /\ f.is = "segment" /\ f.at = parent(e.at) \o <<s>>
                           /\ last(f.at) \in Pollers /\ parent(f.at) = parent(e.at)
      BY <2>2, PollerOf
    <3>2. f \notin removed(m)
      BY <1>1, <3>1, PollersSurvive
    <3> QED BY <3>1, <3>2
  <2>3. ASSUME NEW e \in kept, e.is = "PanelCard"
        PROVE  \E f \in kept : f.is = "panelBody" /\ f.at = e.at \o <<"panel-body">>
    <3>1. PICK f \in dom : /\ f.is = "panelBody" /\ f.at = e.at \o <<"panel-body">>
                           /\ last(f.at) \in Pollers /\ parent(f.at) = e.at /\ last(e.at) \in Ids
      BY <2>3, PollerOf
    <3>2. f \notin removed(m)
      BY <1>1, <3>1, PollersSurvive
    <3> QED BY <3>1, <3>2
  <2> HIDE DEF kept
  <2> QED BY <2>1, <2>2, <2>3, Zenon DEF Sound, Polling
<1>3. Sound(added(m))
  BY <1>1, AddedSound
<1>4. dom' = kept \cup added(m)
  BY DEF Receive
<1>5. Sound(dom')
  <2> HIDE DEF kept
  <2> QED BY <1>2, <1>3, <1>4, UnionSound
<1>6. PICK lost : flight' = without(flight \ {m}, lost)
  BY DEF Receive
<1>7. Messages(flight \ {m})
  BY DEF Messages
<1>8. Messages(flight')
  BY <1>6, <1>7, OtherMessages
<1> QED BY <1>5, <1>8

-----------------------------------------------------------------------------
(* The page, with what is on its way to it.                                *)

PageInv == Sound(dom) /\ Messages(flight) /\ Tables(db)

\* A log row that is closed is nobody's poller.
LEMMA CollapsedSound == ASSUME Sound(dom), Collapse PROVE Sound(dom')
<1>1. PICK d \in dom : Len(d.at) > 1 /\ last(parent(d.at)) = "detail" /\ dom' = dom \ {d}
  BY DEF Collapse
<1> DEFINE kept == dom \ {d}
<1>2. \A e \in kept : Placed(e)
  BY DEF Sound
<1>3. ASSUME NEW e \in kept, e.is = "HomePage", NEW s \in Segments
      PROVE  \E f \in kept : f.is = "segment" /\ f.at = parent(e.at) \o <<s>>
  <2>1. PICK f \in dom : /\ f.is = "segment" /\ f.at = parent(e.at) \o <<s>>
                         /\ parent(f.at) = parent(e.at)
    BY <1>3, PollerOf
  <2>2. last(parent(e.at)) = "main"
    BY <1>2, <1>3 DEF Placed
  <2>3. f # d
    BY <1>1, <2>1, <2>2
  <2> QED BY <2>1, <2>3
<1>4. ASSUME NEW e \in kept, e.is = "PanelCard"
      PROVE  \E f \in kept : f.is = "panelBody" /\ f.at = e.at \o <<"panel-body">>
  <2>1. PICK f \in dom : /\ f.is = "panelBody" /\ f.at = e.at \o <<"panel-body">>
                         /\ parent(f.at) = e.at /\ last(e.at) \in Ids
    BY <1>4, PollerOf
  <2>2. "detail" \notin Ids
    BY IdsAssumption DEF ElementIds
  <2>3. f # d
    BY <1>1, <2>1, <2>2
  <2> QED BY <2>1, <2>3
<1>5. dom' = kept
  BY <1>1
<1> HIDE DEF kept
<1>6. Sound(kept)
  BY <1>2, <1>3, <1>4, Zenon DEF Sound, Polling
<1> QED BY <1>5, <1>6

\* Nor does a row of the live tail need one.
LEMMA StreamedSound == ASSUME Sound(dom), StreamEvent PROVE Sound(dom')
<1>1. PICK g \in dom, l \in Logs :
         dom' = dom \cup {[at |-> g.at \o <<"log", l>>, is |-> "logRow", of |-> <<l>>, tok |-> csrf]}
  BY DEF StreamEvent
<1> DEFINE a == g.at \o <<"log", l>>
           r == [at |-> a, is |-> "logRow", of |-> <<l>>, tok |-> csrf]
<1>2. a \in Seq(Names) /\ a # <<>>
  <2>1. g.at \in Seq(Names)
    BY DEF Sound, Placed
  <2>2. \A x \in Places, y \in Names : <<x, y>> \in Seq(Names) /\ <<x, y>> # <<>>
    BY PlacePaths
  <2>3. "log" \in Places /\ l \in Names
    BY NamesKnown DEF Places
  <2>4. <<"log", l>> \in Seq(Names) /\ <<"log", l>> # <<>>
    BY <2>2, <2>3, Zenon
  <2>5. \A q \in Seq(Names) : q # <<>> => g.at \o q \in Seq(Names) /\ g.at \o q # <<>>
    BY <2>1, ParentConcat
  <2> QED BY <2>4, <2>5, Zenon
<1> HIDE DEF a
<1>3. Placed(r) /\ r.is = "logRow"
  BY <1>2 DEF Placed
<1>4. dom' = dom \cup {r}
  BY <1>1 DEF a
<1> HIDE DEF r
<1>5. Sound({r})
  BY <1>3, PlainSound
<1> QED BY <1>4, <1>5, UnionSound

\* Every step keeps the page sound.
LEMMA PageKept == ASSUME PageInv, [Next]_vars PROVE PageInv'
<1> USE DEF PageInv
<1>1. ASSUME NEW path \in {"/", "/login", "/logs", "/metrics-explorer", "/dashboards", "/alerts",
                           "/settings", "/war-room"}, Visit(path)
      PROVE  PageInv'
  <2>1. dom' = dom /\ db' = db
    BY <1>1 DEF Visit, serverVars
  <2>2. path \notin {panelPath, "/logs/{id}"}
    BY <1>1 DEF panelPath
  <2>3. Message(Asked(Req("GET", path, <<>>, ""), Document, "page", csrf))
    BY <2>2, NavigationMessage
  <2>4. Messages(leaving(flight))
    BY OtherMessages DEF leaving
  <2>5. Messages(flight')
    BY <1>1, <2>3, <2>4 DEF Visit, Messages
  <2> QED BY <2>1, <2>5
<1>2. CASE Click \/ Poll
  <2>1. PICK e \in dom : \E c \in Controls(e) : Trigger(e, c)
    BY <1>2 DEF Click, Poll, Polls
  <2>2. PICK c \in Controls(e) : Trigger(e, c)
    BY <2>1
  <2>3. Messages(flight')
    BY <2>2, TriggerMessages
  <2>4. dom' = dom /\ db' = db
    BY <2>2 DEF Trigger, serverVars
  <2> QED BY <2>3, <2>4
<1>3. ASSUME NEW m \in flight, Handle(m) PROVE PageInv'
  <2>1. dom' = dom /\ Tables(db')
    BY <1>3, HandlersEdit, EditedTables
  <2>2. Messages(flight')
    BY <1>3, HandlersSend
  <2> QED BY <2>1, <2>2
<1>4. ASSUME NEW m \in flight, Receive(m) PROVE PageInv'
  <2>1. Sound(dom') /\ Messages(flight')
    BY <1>4, ReceivedSound
  <2>2. db' = db
    BY <1>4 DEF Receive, serverVars
  <2> QED BY <2>1, <2>2
<1>5. CASE Collapse
  <2>1. flight' = flight /\ db' = db
    BY <1>5 DEF Collapse, serverVars
  <2> QED BY <1>5, <2>1, CollapsedSound
<1>6. CASE StreamEvent
  <2>1. flight' = flight /\ db' = db
    BY <1>6 DEF StreamEvent, serverVars
  <2> QED BY <1>6, <2>1, StreamedSound
<1>7. CASE BackupJob \/ SessionEnds \/ OtherTabLogin \/ ClearCookies \/ UNCHANGED vars
  <2>1. dom' = dom /\ flight' = flight /\ db' = db
    BY <1>7 DEF BackupJob, SessionEnds, OtherTabLogin, ClearCookies, vars, serverVars
  <2> QED BY <2>1
<1>8. CASE ServerRestarts
  <2>1. dom' = dom /\ db' = db /\ flight' \subseteq flight
    BY <1>8 DEF ServerRestarts
  <2> QED BY <2>1 DEF Messages
<1>9. CASE OtherWrites
  <2>1. Edit
    BY <1>9 DEF OtherWrites, Edit
  <2>2. Tables(db')
    BY <2>1, EditedTables
  <2>3. dom' = dom /\ flight' = overtaken(flight)
    BY <1>9 DEF OtherWrites
  <2>4. Messages(overtaken(flight))
    BY OtherMessages
  <2> QED BY <2>2, <2>3, <2>4
<1>10. \/ \E path \in {"/", "/login", "/logs", "/metrics-explorer", "/dashboards", "/alerts",
                       "/settings", "/war-room"} : Visit(path)
       \/ Click \/ Poll
       \/ \E m \in flight : Handle(m) \/ Receive(m)
       \/ Collapse \/ StreamEvent \/ BackupJob \/ ServerRestarts
       \/ OtherWrites \/ SessionEnds \/ OtherTabLogin \/ ClearCookies \/ UNCHANGED vars
  BY DEF Next
<1> HIDE DEF PageInv
<1> QED BY <1>1, <1>2, <1>3, <1>4, <1>5, <1>6, <1>7, <1>8, <1>9, <1>10

\* A page left open recovers: no answer, not even a login page or an error message, whatever
\* order answers arrive in and whoever else writes, takes away an element that polls while the
\* home page or the panel it polls for is there.
THEOREM PollersRemain == Spec => []PollersStay
<1>1. Init => PageInv
  <2> SUFFICES ASSUME Init PROVE PageInv
    OBVIOUS
  <2>1. dom = {} /\ flight = {} /\ db \in DB
    BY DEF Init
  <2>2. Sound({})
    BY JoinFragments
  <2>3. Tables(db)
    BY <2>1, TablesAtFirst
  <2> QED BY <2>1, <2>2, <2>3 DEF PageInv, Messages
<1>2. PageInv /\ [Next]_vars => PageInv'
  BY PageKept
<1>3. PageInv => PollersStay
  <2>1. Polling(dom) => PollersStay
    BY DEF Polling, PollersStay
  <2> QED BY <2>1 DEF PageInv, Sound
<1> QED BY <1>1, <1>2, <1>3, PTL DEF Spec
=============================================================================
