------------------------------ MODULE MCKeeping ------------------------------
(*****************************************************************************)
(* What is kept alike: a Gmail mailbox, notes, reply watches and settings.   *)
(* The components have no state in common, and each is small here.  A        *)
(* behaviour is one of one component: the product of components that do not  *)
(* interact shows nothing more, and the sum of their states is small.        *)
(*****************************************************************************)
EXTENDS Integers, Sequences, MailSync

CONSTANTS
    NNew, NotesNFirst, NAddress, MaxText, NotesMaxBreaks, NotesDisturbed,  \* of Notes
    WatchMail, Known, MaxRow, ScanBatch, WatchMaxBreaks, WatchDisturbed,  \* of Watch
    NDevices, Slow, MaxEdits, MaxMishaps, MaxEvents, SettingsDisturbed  \* of Settings

ASSUME KeepingConstants ==
    /\ NNew \in Nat /\ NAddress \in Nat /\ NotesNFirst \in 0 .. NAddress
    /\ MaxRow \in Nat /\ "none" \notin WatchMail

VARIABLES
    active,   \* the component whose behaviour this is
    notesServer, record, op, work, moving, texts, notesBreaks, origin, owed, seen,
    draft, watch, rows, watchServer, watchSync, syncEnabled, time, watchBreaks, recent,
    early,
    local, settingsCheckpoint, journal, phase, review, settingsWork, file, serial,
    author, given, half, mishaps

Notes == INSTANCE ServerNotes WITH
    NFirst <- NotesNFirst, MaxBreaks <- NotesMaxBreaks, Disturbed <- NotesDisturbed,
    server <- notesServer, breaks <- notesBreaks
Watch == INSTANCE ReplyWatch WITH
    Mail <- WatchMail, MaxBreaks <- WatchMaxBreaks, Disturbed <- WatchDisturbed,
    server <- watchServer, sync <- watchSync, breaks <- watchBreaks
Settings == INSTANCE SettingsSync WITH
    Disturbed <- SettingsDisturbed, checkpoint <- settingsCheckpoint,
    work <- settingsWork

notesVars ==
    <<notesServer, record, op, work, moving, texts, notesBreaks, origin, owed, seen>>
watchVars ==
    <<draft, watch, rows, watchServer, watchSync, syncEnabled, time, watchBreaks,
    recent, early>>
settingsVars ==
    <<local, settingsCheckpoint, journal, phase, review, settingsWork, file, serial,
    author, given, half, mishaps>>
allVars == <<active, vars, notesVars, watchVars, settingsVars>>

AllInit ==
    /\ active \in {"sync", "notes", "watch", "settings"}
    /\ Init /\ Notes!Init /\ Watch!Init /\ Settings!Init

SyncOnly == active = "sync" /\ UNCHANGED <<active, notesVars, watchVars, settingsVars>>
NotesOnly == active = "notes" /\ UNCHANGED <<active, vars, watchVars, settingsVars>>
WatchOnly == active = "watch" /\ UNCHANGED <<active, vars, notesVars, settingsVars>>
SettingsOnly == active = "settings" /\ UNCHANGED <<active, vars, notesVars, watchVars>>
AllNext ==
    \/ SyncOnly /\ Next
    \/ NotesOnly /\ Notes!Next
    \/ WatchOnly /\ Watch!Next
    \/ SettingsOnly /\ Settings!Next

AllSpec == AllInit /\ [][AllNext]_allVars
AllFairSpec ==
    /\ AllSpec
    /\ WF_allVars(\/ SyncOnly /\ SyncSteps
                  \/ NotesOnly /\ Notes!WorkSteps
                  \/ WatchOnly /\ Watch!Pass
                  \/ SettingsOnly /\ Settings!Proceeds(1))
    /\ WF_allVars(\/ NotesOnly /\ Notes!Syncs
                  \/ SettingsOnly /\ Settings!Proceeds(2))
    /\ SF_allVars(NotesOnly /\ Notes!Waits)

EditsKept == Notes!EditsKept
ServerIsKept == Notes!ServerIsKept
NotesSettle == Notes!NotesSettle
ExpiresUnanswered == Watch!ExpiresUnanswered
WatchesEnd == Watch!WatchesEnd
SettingsKept == Settings!SettingsKept
DevicesAgree == <>[](active = "settings" => Settings!Agreed)
=============================================================================
