--------------------------- MODULE MailMergeBackup ---------------------------
(***************************************************************************)
(* The mail merge queue under full-profile backup and restore: a backup is *)
(* a copy of the mail database, and preparing it for a restore holds every *)
(* unsent recipient (holdMailMergesForRestore, called for aerio.sqlite by  *)
(* electron/profile-backup-layout.ts), because the copy may predate        *)
(* deliveries made after it was taken.                                     *)
(***************************************************************************)
EXTENDS MailMerge

VARIABLE backup  \* the copied tables, or {} while no backup exists

allVars == <<vars, backup>>

Active == {"running", "paused", "needs-review"}
Copy == [status |-> jobStatus, wait |-> wait, backoff |-> backoff,
         rcpt |-> rcpt, log |-> sendLog]

TakeBackup ==
    /\ up /\ backup = {}
    /\ backup' = {Copy}
    /\ UNCHANGED vars

\* holdMailMergesForRestore on the staged copy.
HeldRowsSending(copy) ==
    [j \in Jobs |-> IF copy.status[j] \in Active
                    THEN Moved(copy.rcpt[j], {"sending"}, "ambiguous")
                    ELSE copy.rcpt[j]]
HeldRows(copy) ==
    [j \in Jobs |-> IF copy.status[j] \in Active
                    THEN Moved(copy.rcpt[j], {"pending", "sending"}, "ambiguous")
                    ELSE copy.rcpt[j]]
HeldStatus(copy) ==
    [j \in Jobs |->
        IF /\ copy.status[j] \in Active
           /\ \E p \in Recipients : HeldRows(copy)[j][p] = "ambiguous"
        THEN "needs-review" ELSE copy.status[j]]

\* The restore replaces the database while the worker is stopped; merges
\* created after the backup are gone and deleted ones are back.
Restore ==
    /\ ~up
    /\ \E copy \in backup :
         /\ rcpt' = HeldRows(copy)
         /\ jobStatus' = [j \in Jobs |->
                IF copy.status[j] = "none" /\ jobStatus[j] # "none"
                THEN "deleted" ELSE HeldStatus(copy)[j]]
         /\ wait' = copy.wait
         /\ backoff' = copy.backoff
         /\ sendLog' = copy.log
    /\ UNCHANGED <<up, online, inFlight, taken, history, backup>>

\* Every delivery date of the copy ages with the clock.
BackupAges ==
    backup' = {[copy EXCEPT !.log = Older(copy.log),
                            !.wait = [j \in Jobs |-> Remaining(copy.wait[j])]] : copy \in backup}

BackupInit == Init /\ backup = {}

BackupNext ==
    \/ Step /\ UNCHANGED backup
    \/ ClockTick /\ BackupAges
    \/ TakeBackup
    \/ Restore

BackupSpec == BackupInit /\ [][BackupNext]_allVars
=============================================================================
