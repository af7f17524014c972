---------------------------- MODULE ProfileRestore -----------------------------
(***************************************************************************)
(* Restoring a profile backup (electron/profile-backup.ts): a copy is      *)
(* staged while Aerio runs, the next launch swaps it in by renames under a *)
(* journal, and a swap that fails or was interrupted is rolled back.  Each *)
(* rename and each write of the journal is a step, and the process may end *)
(* between any two of them.                                                *)
(*                                                                         *)
(* An entry is a database, one of its sidecar files or a directory.  Left  *)
(* out: what prepareRestore changes in the copies, checksums, and a file   *)
(* system that loses or reorders renames with the power.                   *)
(***************************************************************************)
EXTENDS Naturals, Sequences

CONSTANTS
    NEntries,     \* entries of the profile, in the order of the journal
    MaxRestores,  \* bound: restores the user starts
    MaxAccidents  \* bound: ends of the process and renames or writes that fail

VARIABLES
    live,      \* the profile: an entry is "absent", "old", "new", or has new "work"
    staging, rollback,  \* the directories below .profile-restore
    journal,   \* restore.json: its state and previouslyMissing
    stage,     \* how far the launch is
    restores, accidents,
    before,    \* history: the profile when the restore was staged
    backup     \* history: what was staged

vars == <<live, staging, rollback, journal, stage, restores, accidents, before, backup>>

Entries == 1..NEntries
Nothing == [e \in Entries |-> "absent"]
NoJournal == [state |-> "none", missing |-> {}]
At(at) == stage.at = at
Goes(at) == stage' = [at |-> at, entry |-> 1]
NextEntry(then) == IF stage.entry < NEntries THEN stage' = [stage EXCEPT !.entry = @ + 1] ELSE Goes(then)
Accident == accidents < MaxAccidents /\ accidents' = accidents + 1

Init ==
    /\ live = Nothing /\ staging = Nothing /\ rollback = Nothing /\ journal = NoJournal
    /\ stage = [at |-> "running", entry |-> 1] /\ restores = 0 /\ accidents = 0
    /\ before = live /\ backup = Nothing

-----------------------------------------------------------------------------
(* stageProfileRestore, in the running application.                        *)

StageBegins ==
    /\ At("running") /\ journal.state # "swapping"
    /\ restores < MaxRestores /\ restores' = restores + 1
    /\ journal' = NoJournal /\ staging' = Nothing /\ rollback' = Nothing
    /\ Goes("staging")
    /\ UNCHANGED <<live, accidents, before, backup>>

\* The application quits when the copy is complete.  From here on the profile
\* as it is counts as the old one.
StageEnds ==
    /\ At("staging") /\ Goes("off")
    /\ \E copy \in [Entries -> {"new", "absent"}] : staging' = copy /\ backup' = copy
    /\ live' = [e \in Entries |-> IF live[e] = "absent" THEN "absent" ELSE "old"]
    /\ before' = live'
    /\ journal' = [state |-> "staged", missing |-> {}]
    /\ UNCHANGED <<rollback, restores, accidents>>

\* A copy that is missing, corrupted or cannot be upgraded.
StagingFails ==
    /\ At("staging") /\ Accident /\ Goes("running")
    /\ staging' = Nothing
    /\ UNCHANGED <<live, rollback, journal, restores, before, backup>>

-----------------------------------------------------------------------------
(* applyPendingProfileRestore, before any store is opened.                 *)

ResumesSwap == "swap"
RollsBack == "back"
Launch ==
    /\ At("off")
    /\ CASE journal.state = "staged" ->
              /\ journal' = [state |-> "swapping", missing |-> {e \in Entries : live[e] = "absent"}]
              /\ rollback' = Nothing /\ Goes("swap")
         [] journal.state = "swapping" -> Goes(RollsBack) /\ UNCHANGED <<journal, rollback>>
         [] OTHER -> Goes("open") /\ UNCHANGED <<journal, rollback>>
    /\ UNCHANGED <<live, staging, restores, accidents, before, backup>>

\* The original is moved aside, then the copy takes its place.
MoveAside ==
    LET e == stage.entry IN
    /\ At("swap") /\ live[e] # "absent"
    /\ rollback' = [rollback EXCEPT ![e] = live[e]] /\ live' = [live EXCEPT ![e] = "absent"]
    /\ stage' = [stage EXCEPT !.at = "place"]
    /\ UNCHANGED <<staging, journal, restores, accidents, before, backup>>

Place ==
    LET e == stage.entry IN
    /\ At("place") \/ (At("swap") /\ live[e] = "absent")
    /\ live' = [live EXCEPT ![e] = staging[e]] /\ staging' = [staging EXCEPT ![e] = "absent"]
    /\ IF e < NEntries THEN stage' = [at |-> "swap", entry |-> e + 1] ELSE Goes("applied")
    /\ UNCHANGED <<rollback, journal, restores, accidents, before, backup>>

RenameFails ==
    /\ At("swap") \/ At("place")
    /\ Accident /\ Goes("back")
    /\ UNCHANGED <<live, staging, rollback, journal, restores, before, backup>>

\* rollbackSwap: what stands in the place of a saved original goes, and then
\* the original comes back; what was missing goes.
WasMissing(e) == e \in journal.missing
ClearPlace ==
    LET e == stage.entry IN
    /\ At("back") /\ live[e] # "absent" /\ (rollback[e] # "absent" \/ WasMissing(e))
    /\ live' = [live EXCEPT ![e] = "absent"]
    /\ UNCHANGED <<staging, rollback, journal, stage, restores, accidents, before, backup>>

PutBack ==
    LET e == stage.entry IN
    /\ At("back") /\ (live[e] = "absent" \/ (rollback[e] = "absent" /\ ~WasMissing(e)))
    /\ IF rollback[e] # "absent"
       THEN live' = [live EXCEPT ![e] = rollback[e]] /\ rollback' = [rollback EXCEPT ![e] = "absent"]
       ELSE UNCHANGED <<live, rollback>>
    /\ NextEntry("rolled-back")
    /\ UNCHANGED <<staging, journal, restores, accidents, before, backup>>

\* finish writes the outcome.
OutcomeForgotten == journal
Outcome == [journal EXCEPT !.state = stage.at]
Finish ==
    /\ stage.at \in {"applied", "rolled-back"}
    /\ journal' = Outcome /\ Goes("open")
    /\ UNCHANGED <<live, staging, rollback, restores, accidents, before, backup>>

\* A rename back or the writing of the outcome fails.  The start goes on.
RollbackOrFinishFails ==
    /\ stage.at \in {"back", "applied", "rolled-back"}
    /\ Accident /\ Goes("open")
    /\ UNCHANGED <<live, staging, rollback, journal, restores, before, backup>>

\* finalizeProfileRestore, after every store has opened: first the journal
\* goes, then the directories.
Opened ==
    /\ At("open")
    /\ IF journal.state \in {"applied", "rolled-back"} THEN journal' = NoJournal /\ Goes("clear")
                                                       ELSE UNCHANGED journal /\ Goes("running")
    /\ UNCHANGED <<live, staging, rollback, restores, accidents, before, backup>>

Clear ==
    /\ At("clear") /\ Goes("running")
    /\ staging' = Nothing /\ rollback' = Nothing
    /\ UNCHANGED <<live, journal, restores, accidents, before, backup>>

-----------------------------------------------------------------------------
\* The user works; a store that is missing has been created.
Work(e) ==
    /\ stage.at \in {"running", "staging"} /\ live[e] # "work"
    /\ live' = [live EXCEPT ![e] = "work"]
    /\ UNCHANGED <<staging, rollback, journal, stage, restores, accidents, before, backup>>

ProcessEnds ==
    /\ ~At("off") /\ Accident /\ Goes("off")
    /\ UNCHANGED <<live, staging, rollback, journal, restores, before, backup>>

\* The user quits: modelled where it matters, after a launch that went on
\* without an outcome.
Quits ==
    /\ At("running") /\ journal.state = "swapping" /\ Goes("off")
    /\ UNCHANGED <<live, staging, rollback, journal, restores, accidents, before, backup>>

LaunchSteps ==
    Launch \/ MoveAside \/ Place \/ ClearPlace \/ PutBack \/ Finish \/ Opened \/ Clear
Next ==
    \/ StageBegins \/ StagingFails \/ StageEnds \/ LaunchSteps
    \/ RenameFails \/ RollbackOrFinishFails \/ ProcessEnds \/ Quits
    \/ \E e \in Entries : Work(e)

\* Aerio is started again and one day quit, and a launch is straight-line code.
Fairness == WF_vars(LaunchSteps) /\ WF_vars(Quits)
Spec == Init /\ [][Next]_vars
FairSpec == Spec /\ Fairness

-----------------------------------------------------------------------------
\* Wherever the process ended, the stores open on the whole backup if the
\* journal says applied, and on the whole old profile if it says rolled back.
AllOrNothing ==
    At("open") =>
        /\ journal.state = "applied" => live = backup
        /\ journal.state = "rolled-back" => \A e \in Entries : live[e] = before[e] \/ (before[e] = "old" /\ live[e] = "work")

\* Until the outcome is known no original is lost: it is in place or aside.
OriginalsKept ==
    journal.state \in {"staged", "swapping"} =>
        \A e \in Entries : before[e] = "old" => live[e] \in {"old", "work"} \/ rollback[e] = "old"

\* The renames and the journal of a restore never leave a mixture: the stores
\* open on one whole profile, and no original is lost before the outcome.
ProfileIsWhole == AllOrNothing /\ OriginalsKept

\* Once the copy is staged, the restore ends in an outcome while Aerio runs,
\* whatever fails and wherever the process ended.
RestoreSettles == []<>(journal.state \notin {"staged", "swapping"})
=============================================================================
