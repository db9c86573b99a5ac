------------------------------- MODULE Backup -------------------------------
(***************************************************************************)
(* Backups (services/backup.go): copies of the three databases, uploaded   *)
(* one by one under one prefix per run, by the schedule or by the button   *)
(* of the settings page; the outcome is kept in the settings.              *)
(*                                                                         *)
(* Any step may fail: a full disk, the network, a context that is done     *)
(* because the person left the page or the server shuts down.              *)
(***************************************************************************)
EXTENDS Naturals, FiniteSets

VARIABLE backup
    \* run: the run that holds runMu, its step and who started it; sent: how many
    \* databases it has uploaded; ok: whether last_result says "ok"; time: whether
    \* last_run_at was never written, is of the run that wrote last_result ("same")
    \* or of another.  Histories: whole, whether the run that wrote last_result had
    \* uploaded them all; lost, whether one of its two settings was not written
    \* when last a run recorded its outcome

Dbs == {"logs.db", "metrics.db", "meta.db"}
NoRun == [step |-> "none", by |-> "", ok |-> FALSE]

NewBackupService ==
    [run |-> NoRun, sent |-> 0, ok |-> FALSE, time |-> "never", whole |-> FALSE, lost |-> FALSE]

running == backup.run.step # "none"

\* runMu.TryLock.
RunNow(by) ==
    /\ ~running
    /\ backup' = [backup EXCEPT !.run = [step |-> "copy", by |-> by, ok |-> TRUE], !.sent = 0]

\* Once a minute Run reads the settings and compares the schedule.
Run == RunNow("schedule")

\* runBackup returns an error.
failed == [backup EXCEPT !.run.step = "ran", !.run.ok = FALSE]

\* s3Config refuses without a bucket and credentials (also when they cannot be
\* decrypted any more); all databases are copied before the first is uploaded.
backupDB ==
    /\ backup.run.step = "copy"
    /\ backup' \in {failed, [backup EXCEPT !.run.step = "upload"]}

\* Variation of PutObject: the error of the last upload is not returned.
PutObjectIgnoresLast ==
    /\ backup.run.step = "upload"
    /\ LET sent == [backup EXCEPT !.sent = @ + 1]
       IN backup' \in IF sent.sent = Cardinality(Dbs)
                      THEN {[b EXCEPT !.run.step = "ran"] : b \in {backup, sent}} ELSE {failed, sent}

\* The databases are uploaded one after another, in any order.
PutObject ==
    /\ backup.run.step = "upload"
    /\ LET sent == [backup EXCEPT !.sent = @ + 1]
       IN backup' \in {failed, IF sent.sent = Cardinality(Dbs)
                               THEN [sent EXCEPT !.run.step = "ran"] ELSE sent}

\* RunNow records when the run was, even when its context is done; a write that
\* fails is only logged.
RecordTime ==
    /\ backup.run.step = "ran"
    /\ backup' \in {[backup EXCEPT !.run.step = "timed", !.time = "other"],
                    [backup EXCEPT !.run.step = "untimed", !.lost = TRUE]}

\* Then its outcome, in a write of its own that may fail too, and unlocks.
RecordResult ==
    /\ backup.run.step \in {"timed", "untimed"}
    /\ LET untimed == backup.run.step = "untimed"
       IN backup' \in {[backup EXCEPT !.run = NoRun, !.ok = backup.run.ok,
                                      !.whole = (backup.sent = Cardinality(Dbs)),
                                      !.time = IF ~untimed THEN "same"
                                               ELSE IF @ = "never" THEN @ ELSE "other",
                                      !.lost = untimed],
                       [backup EXCEPT !.run = NoRun, !.lost = TRUE]}

runBackup == backupDB \/ PutObject \/ RecordTime \/ RecordResult

\* The process ends; what a run has copied is removed at the next boot.
BackupLost == backup' = [backup EXCEPT !.run = NoRun, !.lost = @ \/ backup.run.step = "timed"]

\* backupLastRun: nothing is said without a time.
saysOk == backup.ok /\ backup.time # "never"

\* What the settings page says of the last backup is true, whoever starts runs,
\* whichever step fails and wherever a restart falls: "ok" means that all three
\* databases are under the prefix of the run that said so, and the time beside
\* it is of that run.  The time may be of another run only between the two writes
\* of an outcome, and after one of the two failed or a restart came between them.
BackupReportsTruth ==
    saysOk => /\ backup.whole
              /\ backup.time = "same" \/ backup.run.step = "timed" \/ backup.lost
=============================================================================
