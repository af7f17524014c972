---------------------------- MODULE QueuesProofs ----------------------------
(***************************************************************************)
(* The components that keep a queue or a journal, for any values of their  *)
(* constants: the stores open on one whole profile wherever a restore      *)
(* breaks off; a change of a task or of a list is carried out once, and    *)
(* nothing waits for what was given up; what a POP3 session removes is     *)
(* safe or was wanted; and the edits in a collection reach its server      *)
(* without overwriting what nobody saw. A component moves alone, so its    *)
(* invariant is shown for its own steps.                                   *)
(***************************************************************************)
EXTENDS MCQueues, SequenceTheorems, TLAPS

-----------------------------------------------------------------------------
(* A restore that is cut off, however often, opens the stores on one whole *)
(* profile.                                                                *)

RestoreSwaps == {"swap", "place", "back", "applied", "rolled-back"}
RestoreTypeOK ==
    /\ live \in [Restore!Entries -> {"absent", "old", "new", "work"}]
    /\ rollback \in [Restore!Entries -> {"absent", "old"}]
    /\ staging \in [Restore!Entries -> {"absent", "new"}] /\ backup \in [Restore!Entries -> {"absent", "new"}]
    /\ before \in [Restore!Entries -> {"absent", "old"}]
    /\ journal \in [state : {"none", "staged", "swapping", "applied", "rolled-back"},
                    missing : SUBSET Restore!Entries]
    /\ stage \in [at : RestoreSwaps \cup {"running", "staging", "off", "open", "clear"}, entry : Restore!Entries]

\* An original is in its place, perhaps with later work in it.
RestoreKept(e) == live[e] \in {"old", "work"}

\* What a roll-back needs: the original is aside, or never left its place or
\* is back there, and nothing is aside for an entry that was missing.
RestoreRecoverable(e) ==
    IF before[e] = "old" THEN rollback[e] = "old" \/ (rollback[e] = "absent" /\ RestoreKept(e))
                         ELSE rollback[e] = "absent"
RestoreRestored(e) == IF before[e] = "old" THEN RestoreKept(e) ELSE live[e] = "absent"

\* An entry before, in the middle of, and after its swap.
RestoreUntouched(e) == live[e] = before[e] /\ rollback[e] = "absent" /\ staging[e] = backup[e]
RestoreAside(e) == live[e] = "absent" /\ rollback[e] = "old" /\ before[e] = "old" /\ staging[e] = backup[e]
RestoreSwapped(e) == live[e] = backup[e] /\ rollback[e] = before[e]

\* What each state of the journal stands for.
RestoreJournal ==
    /\ journal.state = "staged" => Restore!At("off") /\ live = before /\ staging = backup
    /\ journal.state = "swapping" =>
          /\ stage.at \in RestoreSwaps \cup {"open", "running", "off"}
          /\ journal.missing = {e \in Restore!Entries : before[e] = "absent"}
          /\ \A e \in Restore!Entries : RestoreRecoverable(e)
    /\ journal.state = "applied" => stage.at \in {"open", "off"} /\ live = backup
    /\ journal.state = "rolled-back" => stage.at \in {"open", "off"} /\ \A e \in Restore!Entries : RestoreRestored(e)

\* How far the launch has come with the entries.
RestoreProgress ==
    /\ stage.at \in RestoreSwaps => journal.state = "swapping"
    /\ stage.at \in {"swap", "place"} =>
          \A e \in Restore!Entries : IF e < stage.entry THEN RestoreSwapped(e)
                                     ELSE IF e = stage.entry /\ Restore!At("place") THEN RestoreAside(e) ELSE RestoreUntouched(e)
    /\ Restore!At("back") => \A e \in Restore!Entries : e < stage.entry => RestoreRestored(e)
    /\ Restore!At("applied") => live = backup
    /\ Restore!At("rolled-back") => \A e \in Restore!Entries : RestoreRestored(e)

RestoreIInv == RestoreTypeOK /\ RestoreJournal /\ RestoreProgress

\* A step outside of the swap and the roll-back that moves no entry.
RestoreStill == live' = live /\ rollback' = rollback /\ before' = before /\ backup' = backup

LEMMA RestoreInitInv == NEntries \in Nat \ {0} /\ Restore!Init => RestoreIInv
<1> SUFFICES ASSUME NEntries \in Nat \ {0}, Restore!Init PROVE RestoreIInv
  OBVIOUS
<1>1. 1 \in Restore!Entries
  BY DEF Restore!Entries
<1>2. RestoreTypeOK
  BY <1>1 DEF Restore!Init, RestoreTypeOK, Restore!Nothing, Restore!NoJournal, RestoreSwaps
<1>3. RestoreJournal /\ RestoreProgress
  BY DEF Restore!Init, RestoreJournal, RestoreProgress, Restore!NoJournal, Restore!At, RestoreSwaps
<1> QED BY <1>2, <1>3 DEF RestoreIInv

LEMMA RestoreTypeStep ==
    ASSUME NEntries \in Nat \ {0}, RestoreIInv, Restore!Next
    PROVE  RestoreTypeOK'
<1> USE DEF RestoreTypeOK, RestoreSwaps
<1>1. RestoreTypeOK /\ 1 \in Restore!Entries
  BY DEF RestoreIInv, Restore!Entries
<1>2. ASSUME NEW at \in RestoreSwaps \cup {"running", "staging", "off", "open", "clear"}
      PROVE  [at |-> at, entry |-> 1] \in [at : RestoreSwaps \cup {"running", "staging", "off", "open", "clear"}, entry : Restore!Entries]
  BY <1>1
<1>3. CASE Restore!StageBegins \/ Restore!StagingFails \/ Restore!StageEnds
  BY <1>1, <1>2, <1>3 DEF Restore!StageBegins, Restore!StagingFails, Restore!StageEnds, Restore!Goes,
       Restore!Nothing, Restore!NoJournal
<1>4. CASE Restore!Launch
  BY <1>1, <1>2, <1>4 DEF Restore!Launch, Restore!Goes, Restore!Nothing, Restore!RollsBack
<1>5. CASE Restore!MoveAside
  <2>1. stage.entry \in Restore!Entries /\ ~(stage.entry < stage.entry) /\ Restore!At("swap") /\ live[stage.entry] # "absent"
    BY <1>1, <1>5 DEF Restore!MoveAside, Restore!Entries
  <2>2. live[stage.entry] = "old"
    BY <1>1, <2>1 DEF RestoreIInv, RestoreProgress, Restore!At, RestoreUntouched
  <2> QED BY <1>1, <1>5, <2>1, <2>2 DEF Restore!MoveAside
<1>6. CASE Restore!Place
  <2>1. stage'.at \in {"swap", "applied"} /\ stage'.entry \in Restore!Entries
    BY <1>1, <1>6 DEF Restore!Place, Restore!Goes, Restore!Entries
  <2>2. stage' = [at |-> stage'.at, entry |-> stage'.entry]
    BY <1>6 DEF Restore!Place, Restore!Goes
  <2> QED BY <1>1, <1>6, <2>1, <2>2 DEF Restore!Place
<1>7. CASE Restore!ClearPlace \/ Restore!PutBack
  <2>1. stage' \in [at : RestoreSwaps, entry : Restore!Entries] \/ stage' = stage
    BY <1>1, <1>7 DEF Restore!ClearPlace, Restore!PutBack, Restore!NextEntry, Restore!Goes, Restore!At,
         Restore!Entries
  <2> QED BY <1>1, <1>7, <2>1 DEF Restore!ClearPlace, Restore!PutBack
<1>8. CASE Restore!Finish \/ Restore!Opened \/ Restore!Clear \/ Restore!RenameFails \/ Restore!RollbackOrFinishFails \/ Restore!ProcessEnds \/ Restore!Quits
  BY <1>1, <1>2, <1>8 DEF Restore!Finish, Restore!Outcome, Restore!Opened, Restore!Clear, Restore!RenameFails,
       Restore!RollbackOrFinishFails, Restore!ProcessEnds, Restore!Quits, Restore!Goes, Restore!Nothing,
       Restore!NoJournal
<1>9. CASE \E e \in Restore!Entries : Restore!Work(e)
  BY <1>1, <1>9 DEF Restore!Work
<1> QED BY <1>3, <1>4, <1>5, <1>6, <1>7, <1>8, <1>9 DEF Restore!Next, Restore!LaunchSteps

\* An entry whose place is what it was keeps what is said of it.
LEMMA RestoreStillHolds ==
    ASSUME RestoreStill
    PROVE  \A e : (RestoreRecoverable(e)' <=> RestoreRecoverable(e)) /\ (RestoreRestored(e)' <=> RestoreRestored(e))
BY DEF RestoreStill, RestoreRecoverable, RestoreRestored, RestoreKept

LEMMA RestoreStepInv ==
    ASSUME NEntries \in Nat \ {0}, RestoreIInv, [Restore!Next]_restoreVars
    PROVE  RestoreIInv'
<1> SUFFICES ASSUME Restore!Next PROVE (RestoreJournal /\ RestoreProgress)'
  <2>1. UNCHANGED restoreVars => RestoreIInv'
    BY DEF restoreVars, RestoreIInv, RestoreTypeOK, RestoreJournal, RestoreProgress, Restore!At,
         RestoreRecoverable, RestoreRestored, RestoreKept, RestoreUntouched, RestoreAside, RestoreSwapped
  <2> QED BY <2>1, RestoreTypeStep DEF RestoreIInv
<1>0. RestoreTypeOK /\ RestoreJournal /\ RestoreProgress /\ RestoreTypeOK'
  BY RestoreTypeStep DEF RestoreIInv
<1>1. CASE Restore!StageBegins \/ Restore!StagingFails
  BY <1>0, <1>1 DEF Restore!StageBegins, Restore!StagingFails, RestoreJournal, RestoreProgress,
       Restore!NoJournal, Restore!Goes, Restore!At, RestoreSwaps
<1>2. CASE Restore!StageEnds
  BY <1>2 DEF Restore!StageEnds, RestoreJournal, RestoreProgress, Restore!Goes, Restore!At, RestoreSwaps
<1>3. CASE Restore!Launch
  <2>1. CASE journal.state = "staged"
    <3>1. /\ live' = before' /\ staging' = backup' /\ rollback' = Restore!Nothing /\ UNCHANGED before
          /\ journal' = [state |-> "swapping", missing |-> {e \in Restore!Entries : live[e] = "absent"}]
          /\ stage' = [at |-> "swap", entry |-> 1]
      BY <1>0, <1>3, <2>1 DEF Restore!Launch, RestoreJournal, Restore!Goes
    <3>2. \A e \in Restore!Entries : RestoreUntouched(e)' /\ RestoreRecoverable(e)' /\ ~(e < 1)
      BY <1>0, <3>1 DEF RestoreTypeOK, RestoreUntouched, RestoreRecoverable, RestoreKept, Restore!Nothing,
           Restore!Entries
    <3> QED BY <1>0, <2>1, <3>1, <3>2 DEF RestoreJournal, RestoreProgress, Restore!At, RestoreSwaps
  <2>2. CASE journal.state = "swapping"
    <3>1. RestoreStill /\ journal' = journal /\ stage' = [at |-> "back", entry |-> 1]
      BY <1>3, <2>2 DEF Restore!Launch, Restore!Goes, Restore!RollsBack, RestoreStill
    <3>2. \A e \in Restore!Entries : ~(e < 1)
      BY DEF Restore!Entries
    <3> QED BY <1>0, <2>2, <3>1, <3>2, RestoreStillHolds DEF RestoreJournal, RestoreProgress, Restore!At,
         RestoreSwaps, RestoreStill
  <2>3. CASE journal.state \notin {"staged", "swapping"}
    <3>1. RestoreStill /\ journal' = journal /\ stage' = [at |-> "open", entry |-> 1]
      BY <1>3, <2>3 DEF Restore!Launch, Restore!Goes, RestoreStill
    <3> QED BY <1>0, <2>3, <3>1, RestoreStillHolds DEF RestoreJournal, RestoreProgress, Restore!At,
         RestoreSwaps, RestoreStill
  <2> QED BY <2>1, <2>2, <2>3
<1>4. CASE Restore!MoveAside
  <2>0. PICK k \in Restore!Entries : k = stage.entry
    BY <1>0 DEF RestoreTypeOK
  <2>1. /\ Restore!At("swap") /\ journal.state = "swapping" /\ UNCHANGED <<journal, before, backup, staging>>
        /\ k \in Restore!Entries /\ live[k] # "absent" /\ RestoreUntouched(k)
        /\ rollback' = [rollback EXCEPT ![k] = live[k]] /\ live' = [live EXCEPT ![k] = "absent"]
        /\ stage'.at = "place" /\ stage'.entry = k
    BY <1>0, <1>4, <2>0 DEF Restore!MoveAside, RestoreTypeOK, RestoreProgress, Restore!At, RestoreSwaps,
         Restore!Entries
  <2>2. \A e \in Restore!Entries : e = k => RestoreAside(e)' /\ RestoreRecoverable(e)'
    BY <1>0, <2>1 DEF RestoreTypeOK, RestoreUntouched, RestoreAside, RestoreRecoverable
  <2>3. ASSUME NEW e \in Restore!Entries, e # k
        PROVE  /\ RestoreRecoverable(e) => RestoreRecoverable(e)'
               /\ RestoreSwapped(e) => RestoreSwapped(e)'
               /\ RestoreUntouched(e) => RestoreUntouched(e)'
    BY <1>0, <2>1, <2>3 DEF RestoreTypeOK, RestoreRecoverable, RestoreSwapped, RestoreUntouched, RestoreKept
  <2>4. \A e \in Restore!Entries : IF e < k THEN RestoreSwapped(e) ELSE RestoreUntouched(e)
    BY <1>0, <2>0, <2>1 DEF RestoreProgress, Restore!At
  <2>5. RestoreJournal'
    BY <1>0, <2>1, <2>2, <2>3 DEF RestoreJournal, Restore!At, RestoreSwaps
  <2>6. \A e \in Restore!Entries : IF e < k THEN RestoreSwapped(e)' ELSE IF e = k THEN RestoreAside(e)' ELSE RestoreUntouched(e)'
    BY <2>1, <2>2, <2>3, <2>4 DEF Restore!Entries
  <2> QED BY <2>1, <2>5, <2>6 DEF RestoreProgress, Restore!At, RestoreSwaps
<1>5. CASE Restore!Place
  <2>0. PICK k \in Restore!Entries : k = stage.entry
    BY <1>0 DEF RestoreTypeOK
  <2>1. /\ stage.at \in {"swap", "place"} /\ journal.state = "swapping"
        /\ UNCHANGED <<journal, before, backup, rollback>>
        /\ k \in Restore!Entries /\ staging[k] = backup[k] /\ rollback[k] = before[k]
        /\ live' = [live EXCEPT ![k] = staging[k]] /\ staging' = [staging EXCEPT ![k] = "absent"]
        /\ \A e \in Restore!Entries \ {k} : IF e < k THEN RestoreSwapped(e) ELSE RestoreUntouched(e)
    <3>1. stage.at \in {"swap", "place"} /\ k \in Restore!Entries /\ ~(k < k) /\ (Restore!At("swap") => live[k] = "absent")
      BY <1>0, <1>5, <2>0 DEF Restore!Place, RestoreTypeOK, Restore!At, Restore!Entries
    <3>2. \A e \in Restore!Entries : IF e < k THEN RestoreSwapped(e)
                                     ELSE IF e = k /\ Restore!At("place") THEN RestoreAside(e) ELSE RestoreUntouched(e)
      BY <1>0, <2>0, <3>1 DEF RestoreProgress
    <3>3. staging[k] = backup[k] /\ rollback[k] = before[k]
      BY <3>1, <3>2 DEF RestoreUntouched, RestoreAside, Restore!At
    <3> QED BY <1>0, <1>5, <2>0, <3>1, <3>2, <3>3 DEF Restore!Place, RestoreProgress, RestoreSwaps
  <2>2. \/ k < NEntries /\ stage'.at = "swap" /\ stage'.entry = k + 1
        \/ k = NEntries /\ stage'.at = "applied"
    BY <1>0, <1>5, <2>0, <2>1 DEF Restore!Place, Restore!Goes, Restore!Entries
  <2>3. \A e \in Restore!Entries : e = k => RestoreSwapped(e)' /\ RestoreRecoverable(e)'
    BY <1>0, <2>1 DEF RestoreTypeOK, RestoreSwapped, RestoreRecoverable
  <2>4. ASSUME NEW e \in Restore!Entries, e # k
        PROVE  /\ RestoreRecoverable(e) => RestoreRecoverable(e)'
               /\ RestoreSwapped(e) => RestoreSwapped(e)'
               /\ RestoreUntouched(e) => RestoreUntouched(e)'
    BY <1>0, <2>1, <2>4 DEF RestoreTypeOK, RestoreRecoverable, RestoreSwapped, RestoreUntouched, RestoreKept
  <2>5. \A e \in Restore!Entries : e \in Nat /\ (e < k + 1 <=> e < k \/ e = k) /\ (e = k \/ e < k \/ e > k) /\ e <= NEntries
    BY <2>1 DEF Restore!Entries
  <2>6. RestoreJournal'
    BY <1>0, <2>1, <2>2, <2>3, <2>4 DEF RestoreJournal, Restore!At, RestoreSwaps
  <2>7. CASE k < NEntries /\ stage'.at = "swap" /\ stage'.entry = k + 1
    <3>1. \A e \in Restore!Entries : IF e < k + 1 THEN RestoreSwapped(e)' ELSE RestoreUntouched(e)'
      BY <2>1, <2>3, <2>4, <2>5
    <3> QED BY <2>1, <2>6, <2>7, <3>1 DEF RestoreProgress, Restore!At, RestoreSwaps
  <2>8. CASE k = NEntries /\ stage'.at = "applied"
    <3>1. \A e \in Restore!Entries : RestoreSwapped(e)'
      BY <2>1, <2>3, <2>4, <2>5, <2>8
    <3>2. live' = backup'
      BY <1>0, <3>1 DEF RestoreTypeOK, RestoreSwapped
    <3> QED BY <2>1, <2>6, <2>8, <3>2 DEF RestoreProgress, Restore!At, RestoreSwaps
  <2> QED BY <2>2, <2>6, <2>7, <2>8
<1>6. CASE Restore!ClearPlace
  <2>0. PICK k \in Restore!Entries : k = stage.entry
    BY <1>0 DEF RestoreTypeOK
  <2>1. /\ Restore!At("back") /\ journal.state = "swapping" /\ k \in Restore!Entries
        /\ UNCHANGED <<journal, before, backup, rollback, stage>>
        /\ live' = [live EXCEPT ![k] = "absent"] /\ (rollback[k] # "absent" \/ before[k] = "absent")
    BY <1>0, <1>6, <2>0 DEF Restore!ClearPlace, Restore!WasMissing, RestoreTypeOK, RestoreProgress,
         RestoreJournal, Restore!At, RestoreSwaps
  <2>2. RestoreRecoverable(k)'
    BY <1>0, <2>1 DEF RestoreTypeOK, RestoreRecoverable, RestoreJournal
  <2>3. ASSUME NEW e \in Restore!Entries, e # k
        PROVE  (RestoreRecoverable(e) => RestoreRecoverable(e)') /\ (RestoreRestored(e) => RestoreRestored(e)')
    BY <1>0, <2>1, <2>3 DEF RestoreTypeOK, RestoreRecoverable, RestoreRestored, RestoreKept
  <2>4. \A e \in Restore!Entries : e < k => e # k
    BY <2>1 DEF Restore!Entries
  <2> QED BY <1>0, <2>0, <2>1, <2>2, <2>3, <2>4 DEF RestoreJournal, RestoreProgress, Restore!At, RestoreSwaps
<1>7. CASE Restore!PutBack
  <2>0. PICK k \in Restore!Entries : k = stage.entry
    BY <1>0 DEF RestoreTypeOK
  <2>1. /\ Restore!At("back") /\ journal.state = "swapping" /\ k \in Restore!Entries /\ RestoreRecoverable(k)
        /\ UNCHANGED <<journal, before, backup>>
        /\ live[k] = "absent" \/ (rollback[k] = "absent" /\ before[k] # "absent")
        /\ IF rollback[k] # "absent"
           THEN live' = [live EXCEPT ![k] = rollback[k]] /\ rollback' = [rollback EXCEPT ![k] = "absent"]
           ELSE UNCHANGED <<live, rollback>>
    BY <1>0, <1>7, <2>0 DEF Restore!PutBack, Restore!WasMissing, RestoreTypeOK, RestoreProgress, RestoreJournal,
         Restore!At, RestoreSwaps
  <2>2. \/ stage'.at = "back" /\ stage'.entry = k + 1
        \/ k = NEntries /\ stage'.at = "rolled-back"
    BY <1>0, <1>7, <2>0, <2>1 DEF Restore!PutBack, Restore!NextEntry, Restore!Goes, Restore!At, Restore!Entries,
         RestoreTypeOK
  <2>3. RestoreRecoverable(k)' /\ RestoreRestored(k)'
    BY <1>0, <2>1 DEF RestoreTypeOK, RestoreRecoverable, RestoreRestored, RestoreKept
  <2>4. ASSUME NEW e \in Restore!Entries, e # k
        PROVE  (RestoreRecoverable(e) => RestoreRecoverable(e)') /\ (RestoreRestored(e) => RestoreRestored(e)')
    BY <1>0, <2>1, <2>4 DEF RestoreTypeOK, RestoreRecoverable, RestoreRestored, RestoreKept
  <2>5. \A e \in Restore!Entries : e < k => RestoreRestored(e)
    BY <1>0, <2>0, <2>1 DEF RestoreProgress
  <2>6. \A e \in Restore!Entries : (e < k + 1 => e < k \/ e = k) /\ (k = NEntries => e < k \/ e = k)
    BY <2>1 DEF Restore!Entries
  <2>7. RestoreJournal'
    BY <1>0, <2>1, <2>2, <2>3, <2>4 DEF RestoreJournal, Restore!At, RestoreSwaps
  <2> QED BY <2>1, <2>2, <2>3, <2>4, <2>5, <2>6, <2>7 DEF RestoreProgress, Restore!At, RestoreSwaps
<1>8. CASE Restore!Finish
  <2>1. RestoreStill /\ journal'.state = stage.at /\ stage'.at = "open"
    BY <1>0, <1>8 DEF Restore!Finish, Restore!Outcome, Restore!Goes, RestoreStill, RestoreTypeOK
  <2> QED BY <1>0, <1>8, <2>1, RestoreStillHolds DEF Restore!Finish, RestoreJournal, RestoreProgress,
       Restore!At, RestoreSwaps, RestoreStill
<1>9. CASE Restore!RenameFails \/ Restore!RollbackOrFinishFails \/ Restore!ProcessEnds \/ Restore!Quits
  <2>1. /\ RestoreStill /\ UNCHANGED <<journal, staging>> /\ stage'.entry = 1
        /\ \/ stage.at \in {"swap", "place"} /\ stage'.at = "back"
           \/ stage.at \in RestoreSwaps /\ stage'.at = "open"
           \/ ~Restore!At("off") /\ stage'.at = "off"
    BY <1>9 DEF Restore!RenameFails, Restore!RollbackOrFinishFails, Restore!ProcessEnds, Restore!Quits,
         Restore!Goes, Restore!At, RestoreStill, RestoreSwaps
  <2>2. \A e \in Restore!Entries : ~(e < 1)
    BY DEF Restore!Entries
  <2>3. RestoreJournal'
    BY <1>0, <2>1, RestoreStillHolds DEF RestoreJournal, RestoreProgress, Restore!At, RestoreSwaps, RestoreStill
  <2> QED BY <1>0, <2>1, <2>2, <2>3 DEF RestoreProgress, Restore!At, RestoreSwaps
<1>10. CASE Restore!Opened
  <2>1. RestoreStill /\ stage'.at \in {"clear", "running"} /\ Restore!At("open")
        /\ \/ journal'.state = "none"
           \/ journal' = journal /\ journal.state \notin {"applied", "rolled-back"} /\ stage'.at = "running"
    BY <1>10 DEF Restore!Opened, Restore!Goes, RestoreStill, Restore!NoJournal
  <2> QED BY <1>0, <2>1, RestoreStillHolds DEF RestoreJournal, RestoreProgress, Restore!At, RestoreSwaps,
       RestoreStill
<1>11. CASE Restore!Clear
  BY <1>0, <1>11 DEF Restore!Clear, Restore!Goes, RestoreJournal, RestoreProgress, Restore!At, RestoreSwaps
<1>12. ASSUME NEW e \in Restore!Entries, Restore!Work(e) PROVE (RestoreJournal /\ RestoreProgress)'
  <2>1. /\ stage.at \in {"running", "staging"} /\ live' = [live EXCEPT ![e] = "work"]
        /\ UNCHANGED <<rollback, before, stage, journal>>
    BY <1>12 DEF Restore!Work
  <2>2. \A f \in Restore!Entries : RestoreRecoverable(f) => RestoreRecoverable(f)'
    BY <1>0, <2>1 DEF RestoreTypeOK, RestoreRecoverable, RestoreKept
  <2> QED BY <1>0, <2>1, <2>2 DEF RestoreJournal, RestoreProgress, Restore!At, RestoreSwaps
<1> QED BY <1>1, <1>2, <1>3, <1>4, <1>5, <1>6, <1>7, <1>8, <1>9, <1>10, <1>11, <1>12 DEF Restore!Next,
     Restore!LaunchSteps

LEMMA RestoreMoves ==
    ASSUME [AllNext]_allVars
    PROVE  [Restore!Next]_restoreVars
BY DEF AllNext, allVars, ChatOnly, TasksOnly, ListsOnly, PopOnly, RestoreOnly, DavOnly

\* The stores open on one whole profile, the backup's or the old one, and no
\* original is lost before the outcome is known, wherever applyPendingProfileRestore
\* or rollbackSwap is cut off, and however often.
THEOREM OneWholeProfile ==
    AllSpec => []ProfileIsWhole
<1>1. AllInit => RestoreIInv
  BY RestoreInitInv, QueuesConstants DEF AllInit
<1>2. RestoreIInv /\ [AllNext]_allVars => RestoreIInv'
  BY RestoreMoves, RestoreStepInv, QueuesConstants
<1>3. RestoreIInv => ProfileIsWhole
  <2>1. RestoreIInv => Restore!AllOrNothing
    BY DEF RestoreIInv, RestoreTypeOK, RestoreJournal, Restore!AllOrNothing, RestoreRestored, RestoreKept
  <2>2. RestoreIInv => Restore!OriginalsKept
    BY DEF RestoreIInv, RestoreTypeOK, RestoreJournal, Restore!OriginalsKept, RestoreRecoverable, RestoreKept
  <2> QED BY <2>1, <2>2 DEF ProfileIsWhole, Restore!ProfileIsWhole
<1> QED BY <1>1, <1>2, <1>3, PTL DEF AllSpec

-----------------------------------------------------------------------------
(* The changes of tasks, of which a completion of a recurring task also    *)
(* creates the next one.                                                   *)

TasksKinds == {"create", "update", "delete"}
TasksOutcomes == Tasks!Active \cup {"succeeded", "cancelled"}
TasksOperation == [task : Tasks!Tasks, kind : TasksKinds, base : Nat, after : Nat, result : Nat, status : TasksOutcomes,
                   attempts : Nat, undoOf : Nat, error : {"none", "restored-write"}]
TasksRequests == [op : Nat, phase : {"none", "sent", "done"}, rev : Nat]
TasksTypeOK ==
    /\ ops \in Seq(TasksOperation) /\ applied \in Seq(Nat) /\ reviewed \in Seq(Nat)
    /\ Len(applied) = Len(ops) /\ Len(reviewed) = Len(ops)
    /\ known \in [Tasks!Tasks -> Nat] /\ cached \in [Tasks!Tasks -> Nat] /\ server \in [Tasks!Tasks -> Nat]
    /\ occurrence \in [completion : Nat, creation : Nat]
    /\ request \in TasksRequests /\ revision \in Nat
    /\ externals \in [Tasks!Tasks -> [count : Nat, last : Nat]]

\* A change that another one waits for is the completion of the recurring task.
TasksIsActive(k) == Tasks!Op(k).status \in Tasks!Active
TasksDepends(k) == Tasks!Op(k).after # 0 =>
    /\ Tasks!Op(k).task = 2 /\ Tasks!Op(k).kind = "create" /\ Tasks!Op(k).after \in 1 .. k - 1
    /\ Tasks!Op(Tasks!Op(k).after).task = 1 /\ Tasks!Op(Tasks!Op(k).after).kind = "update"

\* What the status and the attempts of a change say of its way to the provider.
TasksKnown(k) ==
    /\ TasksIsActive(k) /\ Tasks!Op(k).attempts = 0 => Tasks!Unsent(k)
    /\ Tasks!Op(k).status = "running" => Tasks!Op(k).attempts > 0 /\ request.op = k
    /\ Tasks!Op(k).status \in {"queued", "failed", "conflict"} => applied[k] = 0
    /\ Tasks!Op(k).status = "succeeded" /\ Tasks!Op(k).kind # "delete" => applied[k] > 0

\* A creation was sent after its completion; while it is active it is the one in
\* task_occurrences, and its completion is not given up.
TasksAwaits(k) == Tasks!Op(k).after # 0 =>
    /\ Tasks!Op(k).attempts > 0 => Tasks!Op(Tasks!Op(k).after).status = "succeeded"
    /\ TasksIsActive(k) => /\ occurrence = [completion |-> Tasks!Op(k).after, creation |-> k]
                           /\ Tasks!Op(Tasks!Op(k).after).status # "cancelled"
TasksOccurs == occurrence = Tasks!NoOccurrence \/
    /\ occurrence.creation \in Tasks!Recorded /\ occurrence.completion # 0
    /\ Tasks!Op(occurrence.creation).after = occurrence.completion
TasksAwaited == request # Tasks!Resting =>
    /\ request.phase \in {"sent", "done"} /\ request.op \in Tasks!Recorded /\ Tasks!Op(request.op).status = "running"
    /\ request.phase = "sent" => applied[request.op] = 0
    /\ request.phase = "done" => applied[request.op] > 0

TasksIInv ==
    /\ TasksTypeOK /\ TasksOccurs /\ TasksAwaited /\ Tasks!CarriedOutOnce /\ Tasks!SuccessorIsDue
    /\ \A k \in Tasks!Recorded : TasksDepends(k) /\ TasksKnown(k) /\ TasksAwaits(k)

LEMMA TasksInitInv == Tasks!Init => TasksIInv
<1> SUFFICES ASSUME Tasks!Init PROVE TasksIInv
  OBVIOUS
<1>1. ops = <<>> /\ applied = <<>> /\ reviewed = <<>> /\ request = Tasks!Resting /\ occurrence = Tasks!NoOccurrence /\ revision = 1
  BY DEF Tasks!Init
<1>2. known \in [Tasks!Tasks -> Nat] /\ cached = known /\ server = known
  BY DEF Tasks!Init
<1>3. externals \in [Tasks!Tasks -> [count : Nat, last : Nat]]
  BY DEF Tasks!Init
<1>4. Tasks!Resting \in TasksRequests /\ Tasks!NoOccurrence \in [completion : Nat, creation : Nat]
  BY DEF Tasks!Resting, TasksRequests, Tasks!NoOccurrence
<1>5. Tasks!Recorded = {}
  BY <1>1 DEF Tasks!Recorded
<1> QED BY <1>1, <1>2, <1>3, <1>4, <1>5 DEF TasksIInv, TasksTypeOK, TasksOccurs, TasksAwaited,
     Tasks!CarriedOutOnce, Tasks!SuccessorIsDue

LEMMA TasksOpParts ==
    ASSUME NEW o \in TasksOperation
    PROVE  /\ o.task \in Tasks!Tasks /\ o.kind \in TasksKinds /\ o.base \in Nat /\ o.after \in Nat /\ o.result \in Nat
           /\ o.status \in TasksOutcomes /\ o.attempts \in Nat /\ o.undoOf \in Nat /\ o.error \in {"none", "restored-write"}
BY DEF TasksOperation

LEMMA TasksQueue == TasksTypeOK => Tasks!Recorded = 1 .. Len(ops) /\ Len(ops) \in Nat /\ \A k \in Tasks!Recorded : ops[k] \in TasksOperation /\ applied[k] \in Nat /\ reviewed[k] \in Nat
BY DEF TasksTypeOK, Tasks!Recorded

\* What one step may do to a recorded change: nothing to its way to the provider,
\* give it up, send it, or settle it.
TasksStatic(o, p) == p.task = o.task /\ p.kind = o.kind /\ p.after = o.after
TasksStill(o, p) == p.status = o.status /\ p.attempts = o.attempts /\ p.error = o.error
TasksGivesUp(o, p) == o.status # "succeeded" /\ p.status = "cancelled" /\ p.attempts = o.attempts
TasksSends(o, p) == o.status = "queued" /\ p.status \in {"running", "failed"} /\ p.attempts = o.attempts + 1
TasksSettles(o, p) ==
    /\ o.status \in Tasks!Active /\ p.status \in {"queued", "failed", "conflict", "review", "succeeded"}
    /\ p.attempts = o.attempts
    /\ p.attempts = 0 => p.status \in {"queued", "succeeded"} \/ (p.status = "review" /\ p.error = "restored-write")
TasksShape(k) ==
    LET o == ops[k]
        p == ops'[k]
    IN  /\ p \in TasksOperation /\ TasksStatic(o, p)
        /\ \/ TasksStill(o, p) /\ (p.status = "running" => request'.op = k)
           \/ TasksGivesUp(o, p)
           \/ TasksSends(o, p) /\ Tasks!DependencySettled(k) /\ (p.status = "running" => request'.op = k)
           \/ /\ TasksSettles(o, p)
              /\ p.status \in {"queued", "failed", "conflict"} => applied[k] = 0
              /\ p.status = "succeeded" /\ o.kind # "delete" => applied[k] > 0

\* What is left to show of a creation and its completion.
TasksKept(k) == ops'[k].after # 0 /\ ops'[k].status \in Tasks!Active =>
         /\ occurrence' = [completion |-> ops'[k].after, creation |-> k]
         /\ ops'[ops'[k].after].status # "cancelled"

LEMMA TasksShapeKnown ==
    ASSUME TasksIInv, NEW k \in Tasks!Recorded, k \in Tasks!Recorded', TasksShape(k), applied'[k] = applied[k]
    PROVE  TasksKnown(k)'
<1>0. TasksTypeOK /\ TasksKnown(k) /\ ops[k] \in TasksOperation /\ applied[k] \in Nat
  BY TasksQueue DEF TasksIInv
<1>1. ops[k].attempts \in Nat /\ ops'[k].attempts \in Nat /\ ops'[k].status \in TasksOutcomes /\ ops'[k].kind = ops[k].kind
  BY <1>0, TasksOpParts DEF TasksShape, TasksStatic
<1>2. CASE TasksStill(ops[k], ops'[k]) /\ (ops'[k].status = "running" => request'.op = k)
  BY <1>0, <1>1, <1>2 DEF TasksStill, TasksKnown, Tasks!Op, TasksIsActive, Tasks!Unsent
<1>3. CASE TasksGivesUp(ops[k], ops'[k])
  BY <1>3 DEF TasksGivesUp, TasksKnown, Tasks!Op, TasksIsActive, Tasks!Active
<1>4. CASE TasksSends(ops[k], ops'[k]) /\ (ops'[k].status = "running" => request'.op = k)
  BY <1>0, <1>1, <1>4 DEF TasksSends, TasksKnown, Tasks!Op, TasksIsActive
<1>5. CASE /\ TasksSettles(ops[k], ops'[k])
           /\ ops'[k].status \in {"queued", "failed", "conflict"} => applied[k] = 0
           /\ ops'[k].status = "succeeded" /\ ops[k].kind # "delete" => applied[k] > 0
  BY <1>0, <1>1, <1>5 DEF TasksSettles, TasksKnown, Tasks!Op, TasksIsActive, Tasks!Active, Tasks!Unsent
<1> QED BY <1>2, <1>3, <1>4, <1>5 DEF TasksShape

\* The queue after a step that leaves the provider alone.
LEMMA TasksQueueStep ==
    ASSUME TasksIInv, TasksTypeOK', TasksOccurs', TasksAwaited', Len(ops) <= Len(ops'),
           \A k \in Tasks!Recorded : TasksShape(k) /\ applied'[k] = applied[k],
           \A k \in Tasks!Recorded' \ Tasks!Recorded : ops'[k].status = "queued" /\ ops'[k].attempts = 0 /\ applied'[k] = 0 /\ TasksDepends(k)',
           \A k \in Tasks!Recorded' : TasksKept(k)
    PROVE  TasksIInv'
<1>0. /\ TasksTypeOK /\ Tasks!Recorded = 1 .. Len(ops) /\ Tasks!Recorded' = 1 .. Len(ops') /\ Tasks!Recorded \subseteq Tasks!Recorded'
      /\ Len(ops) \in Nat /\ Len(ops') \in Nat
  BY DEF TasksIInv, TasksTypeOK, Tasks!Recorded
<1>1. ASSUME NEW k \in Tasks!Recorded', k \notin Tasks!Recorded
      PROVE  TasksKnown(k)' /\ TasksAwaits(k)' /\ TasksDepends(k)'
  BY <1>1 DEF TasksKnown, TasksAwaits, TasksKept, Tasks!Op, TasksIsActive, Tasks!Unsent, Tasks!Active
<1>2. ASSUME NEW k \in Tasks!Recorded PROVE TasksKnown(k)'
  BY <1>0, <1>2, TasksShapeKnown
<1>3. ASSUME NEW k \in Tasks!Recorded PROVE TasksDepends(k)' /\ ops'[k].after = ops[k].after
  <2>1. TasksDepends(k) /\ TasksStatic(ops[k], ops'[k])
    BY DEF TasksIInv, TasksShape
  <2>2. ops[k].after # 0 => ops[k].after \in Tasks!Recorded
    BY <1>0, <2>1 DEF TasksDepends, Tasks!Op
  <2>3. ops[k].after # 0 => TasksStatic(ops[ops[k].after], ops'[ops[k].after])
    BY <2>2 DEF TasksShape
  <2> QED BY <2>1, <2>2, <2>3 DEF TasksDepends, Tasks!Op, TasksStatic
<1>4. ASSUME NEW k \in Tasks!Recorded, ops[k].status = "succeeded" PROVE ops'[k].status = "succeeded"
  BY <1>4 DEF TasksShape, TasksStill, TasksGivesUp, TasksSends, TasksSettles, Tasks!Active
<1>5. ASSUME NEW k \in Tasks!Recorded PROVE TasksAwaits(k)'
  <2> SUFFICES ASSUME ops'[k].after # 0, ops'[k].attempts > 0 PROVE ops'[ops'[k].after].status = "succeeded"
    BY <1>0 DEF TasksAwaits, TasksKept, Tasks!Op, TasksIsActive
  <2>1. ops[k].after # 0 /\ ops[k].after \in Tasks!Recorded /\ TasksAwaits(k) /\ ops[k].attempts \in Nat
    BY <1>0, <1>3, TasksQueue, TasksOpParts DEF TasksIInv, TasksDepends, Tasks!Op
  <2>2. ops[ops[k].after].status = "succeeded"
    <3>1. ops[k].attempts > 0 => ops[ops[k].after].status = "succeeded"
      BY <2>1 DEF TasksAwaits, Tasks!Op
    <3>2. ops'[k].attempts = ops[k].attempts \/ Tasks!DependencySettled(k)
      BY DEF TasksShape, TasksStill, TasksGivesUp, TasksSends, TasksSettles
    <3> QED BY <2>1, <3>1, <3>2 DEF Tasks!DependencySettled, Tasks!Op
  <2> QED BY <1>3, <1>4, <2>1, <2>2
<1>6. Tasks!CarriedOutOnce' /\ Tasks!SuccessorIsDue'
  <2>1. ASSUME NEW k \in Tasks!Recorded' PROVE applied'[k] <= 1
    BY <1>0, <2>1 DEF TasksIInv, Tasks!CarriedOutOnce
  <2>2. ASSUME NEW k \in Tasks!Recorded', applied'[k] > 0, ops'[k].after # 0 PROVE applied'[ops'[k].after] > 0
    <3>1. k \in Tasks!Recorded
      BY <2>2
    <3>2. ops[k].after \in Tasks!Recorded /\ applied[ops[k].after] > 0 /\ ops'[k].after = ops[k].after
      BY <1>0, <1>3, <2>2, <3>1 DEF TasksIInv, Tasks!SuccessorIsDue, TasksDepends, Tasks!Op
    <3> QED BY <3>2
  <2> QED BY <2>1, <2>2 DEF Tasks!CarriedOutOnce, Tasks!SuccessorIsDue, Tasks!Op
<1> QED BY <1>1, <1>2, <1>3, <1>5, <1>6 DEF TasksIInv

\* A step that gives no change up and leaves task_occurrences alone.
LEMMA TasksQuietStep ==
    ASSUME TasksIInv, TasksTypeOK', TasksAwaited', Len(ops') = Len(ops), UNCHANGED <<occurrence, applied>>,
           \A k \in Tasks!Recorded : TasksShape(k) /\ (ops'[k].status = "cancelled" => ops[k].status = "cancelled")
    PROVE  TasksIInv'
<1>0. TasksTypeOK /\ Tasks!Recorded = 1 .. Len(ops) /\ Tasks!Recorded' = Tasks!Recorded
  BY DEF TasksIInv, TasksTypeOK, Tasks!Recorded
<1>1. TasksOccurs'
  BY <1>0 DEF TasksIInv, TasksOccurs, TasksShape, TasksStatic, Tasks!Op
<1>2. ASSUME NEW k \in Tasks!Recorded PROVE TasksKept(k)
  <2>1. TasksDepends(k) /\ TasksAwaits(k) /\ ops'[k].after = ops[k].after
    BY DEF TasksIInv, TasksShape, TasksStatic
  <2>2. ops[k].after # 0 => ops[k].after \in Tasks!Recorded
    BY <1>0, <2>1 DEF TasksDepends, Tasks!Op
  <2>3. ops'[k].status \in Tasks!Active => ops[k].status \in Tasks!Active
    BY DEF TasksShape, TasksStill, TasksGivesUp, TasksSends, TasksSettles, Tasks!Active
  <2> QED BY <2>1, <2>2, <2>3 DEF TasksKept, TasksAwaits, Tasks!Op, TasksIsActive
<1> QED BY <1>0, <1>1, <1>2, TasksQueueStep

\* While no request is out, nothing runs.
LEMMA TasksNothing ==
    ASSUME TasksIInv, Tasks!Serial, NEW k \in Tasks!Recorded
    PROVE  ops[k].status # "running"
<1>1. k # 0 /\ request.op = 0 /\ TasksKnown(k)
  BY TasksQueue DEF TasksIInv, Tasks!Serial, Tasks!Resting
<1> QED BY <1>1 DEF TasksKnown, Tasks!Op

\* A change that is left as it is.
LEMMA TasksLeftAlone ==
    ASSUME TasksIInv, NEW k \in Tasks!Recorded, ops'[k] = ops[k], request'.op = request.op \/ Tasks!Serial \/ k # request.op
    PROVE  TasksShape(k)
<1>1. TasksTypeOK /\ ops[k] \in TasksOperation /\ TasksKnown(k)
  BY TasksQueue DEF TasksIInv
<1>2. ops[k].status = "running" => request'.op = k
  BY <1>1, TasksNothing DEF TasksKnown, Tasks!Op
<1> QED BY <1>1, <1>2 DEF TasksShape, TasksStatic, TasksStill

LEMMA TasksRebased ==
    ASSUME NEW o \in TasksOperation, NEW base \in Nat
    PROVE  /\ [o EXCEPT !.base = base] \in TasksOperation /\ TasksStatic(o, [o EXCEPT !.base = base])
           /\ TasksStill(o, [o EXCEPT !.base = base])
BY DEF TasksOperation, TasksStatic, TasksStill

LEMMA TasksWithStatus ==
    ASSUME NEW o \in TasksOperation, NEW status \in TasksOutcomes
    PROVE  LET p == [o EXCEPT !.status = status] IN
           p \in TasksOperation /\ TasksStatic(o, p) /\ p.status = status /\ p.attempts = o.attempts /\ p.error = o.error
BY DEF TasksOperation, TasksStatic

LEMMA TasksAChange ==
    ASSUME NEW t \in Tasks!Tasks, NEW kind \in TasksKinds, NEW base \in Nat, NEW after \in Nat
    PROVE  LET c == Tasks!Change(t, kind, base, after) IN
           c \in TasksOperation /\ c.task = t /\ c.kind = kind /\ c.after = after /\ c.status = "queued" /\ c.attempts = 0
<1>1. "queued" \in TasksOutcomes
  BY DEF TasksOutcomes, Tasks!Active
<1> QED BY <1>1 DEF Tasks!Change, TasksOperation

\* What Record adds to the histories.
LEMMA TasksRecording ==
    ASSUME TasksIInv, NEW new \in Seq(TasksOperation), NEW seenOf \in Seq(Nat), Len(seenOf) = Len(new),
           applied' = applied \o [i \in 1..Len(new) |-> 0], reviewed' = reviewed \o seenOf
    PROVE  /\ applied' \in Seq(Nat) /\ Len(applied') = Len(ops) + Len(new)
           /\ reviewed' \in Seq(Nat) /\ Len(reviewed') = Len(ops) + Len(new)
           /\ \A k \in Tasks!Recorded : applied'[k] = applied[k]
           /\ \A k \in Len(ops) + 1 .. Len(ops) + Len(new) : applied'[k] = 0
<1>1. TasksTypeOK /\ Tasks!Recorded = 1 .. Len(ops)
  BY TasksQueue DEF TasksIInv
<1> DEFINE zeros == [i \in 1..Len(new) |-> 0]
<1>2. zeros \in Seq(Nat) /\ Len(zeros) = Len(new) /\ \A i \in 1 .. Len(new) : zeros[i] = 0
  BY DEF zeros
<1> HIDE DEF zeros
<1>3. applied \in Seq(Nat) /\ reviewed \in Seq(Nat) /\ Len(applied) = Len(ops) /\ Len(reviewed) = Len(ops)
  BY <1>1 DEF TasksTypeOK
<1>4. applied' = applied \o zeros
  BY DEF zeros
<1>5. applied' \in Seq(Nat) /\ Len(applied') = Len(ops) + Len(new) /\ reviewed' \in Seq(Nat) /\ Len(reviewed') = Len(ops) + Len(new)
  <2>1. applied \o zeros \in Seq(Nat) /\ Len(applied \o zeros) = Len(applied) + Len(zeros)
    BY <1>2, <1>3, ConcatProperties
  <2>2. reviewed \o seenOf \in Seq(Nat) /\ Len(reviewed \o seenOf) = Len(reviewed) + Len(seenOf)
    BY <1>3, ConcatProperties
  <2> QED BY <1>2, <1>3, <1>4, <2>1, <2>2
<1>6. \A k \in Tasks!Recorded : applied'[k] = applied[k]
  BY <1>1, <1>2, <1>3, <1>4
<1>7. ASSUME NEW k \in Len(ops) + 1 .. Len(ops) + Len(new) PROVE applied'[k] = 0
  <2>1. k - Len(ops) \in 1 .. Len(new) /\ k \in 1 .. Len(applied) + Len(zeros) /\ ~(k <= Len(applied))
    BY <1>2, <1>3
  <2>2. applied'[k] = zeros[k - Len(applied)]
    <3>1. \A i \in 1 .. Len(applied) + Len(zeros) :
             (applied \o zeros)[i] = IF i <= Len(applied) THEN applied[i] ELSE zeros[i - Len(applied)]
      <4>1. applied \in Seq(Nat) /\ zeros \in Seq(Nat)
        BY <1>2, <1>3
      <4> QED BY <4>1, ConcatProperties, Zenon
    <3> QED BY <1>4, <2>1, <3>1
  <2> QED BY <1>2, <1>3, <2>1, <2>2
<1> QED BY <1>5, <1>6, <1>7

LEMMA TasksEditInv ==
    ASSUME TasksIInv, NEW t \in Tasks!Tasks, NEW kind \in {"update", "delete"}, Tasks!Edit(t, kind)
    PROVE  TasksIInv'
<1> DEFINE c == Tasks!Change(t, kind, known[t], 0)
<1>0. /\ TasksTypeOK /\ Tasks!Serial /\ Tasks!Recorded = 1 .. Len(ops) /\ Len(ops) \in Nat /\ known[t] \in Nat /\ ops \in Seq(TasksOperation)
      /\ UNCHANGED <<known, cached, occurrence, request, server, revision, externals>>
      /\ ops' = Append(ops, c) /\ applied' = applied \o [i \in 1..Len(<<kind>>) |-> 0] /\ reviewed' = reviewed \o <<Tasks!SeenNow(t)>>
  BY TasksQueue DEF TasksIInv, Tasks!Edit, Tasks!Record, TasksTypeOK
<1>1. c \in TasksOperation /\ c.after = 0 /\ c.status = "queued" /\ c.attempts = 0
  BY <1>0, TasksAChange DEF TasksKinds
<1>2. Tasks!SeenNow(t) \in Nat /\ <<Tasks!SeenNow(t)>> \in Seq(Nat) /\ Len(<<Tasks!SeenNow(t)>>) = 1
  BY <1>0 DEF Tasks!SeenNow, Tasks!Foreign, TasksTypeOK
<1> HIDE DEF c
<1>3. <<c>> \in Seq(TasksOperation) /\ Len(<<c>>) = 1 /\ Len(<<kind>>) = 1
  BY <1>1
<1>4. /\ applied' \in Seq(Nat) /\ Len(applied') = Len(ops) + 1 /\ reviewed' \in Seq(Nat) /\ Len(reviewed') = Len(ops) + 1
      /\ \A k \in Tasks!Recorded : applied'[k] = applied[k]
      /\ \A k \in Len(ops) + 1 .. Len(ops) + 1 : applied'[k] = 0
  <2>1. applied' = applied \o [i \in 1..Len(<<c>>) |-> 0] /\ Len(<<Tasks!SeenNow(t)>>) = Len(<<c>>)
    BY <1>0, <1>2, <1>3
  <2> QED BY <1>0, <1>2, <1>3, <2>1, TasksRecording
<1>5. /\ ops' \in Seq(TasksOperation) /\ Len(ops') = Len(ops) + 1 /\ ops'[Len(ops) + 1] = c
      /\ \A k \in Tasks!Recorded : ops'[k] = ops[k]
  BY <1>0, <1>1
<1>6. TasksTypeOK'
  BY <1>0, <1>4, <1>5 DEF TasksTypeOK
<1>7. \A k \in Tasks!Recorded : TasksShape(k) /\ applied'[k] = applied[k]
  BY <1>0, <1>4, <1>5, TasksLeftAlone
<1>8. Tasks!Recorded' = 1 .. Len(ops) + 1 /\ \A k \in Tasks!Recorded' \ Tasks!Recorded : k = Len(ops) + 1
  BY <1>0, <1>5 DEF Tasks!Recorded
<1>9. TasksOccurs' /\ TasksAwaited'
  BY <1>0, <1>5, <1>8 DEF TasksIInv, TasksOccurs, TasksAwaited, Tasks!Serial, Tasks!Op
<1>10. ASSUME NEW k \in Tasks!Recorded' PROVE TasksKept(k)
  <2>1. CASE k \in Tasks!Recorded
    <3>1. ops[k].after # 0 => ops[k].after \in Tasks!Recorded /\ TasksAwaits(k)
      BY <1>0, <2>1 DEF TasksIInv, TasksDepends, Tasks!Op
    <3> QED BY <1>0, <1>5, <2>1, <3>1 DEF TasksKept, TasksAwaits, Tasks!Op, TasksIsActive
  <2>2. CASE k \notin Tasks!Recorded
    BY <1>1, <1>5, <1>8, <2>2 DEF TasksKept
  <2> QED BY <2>1, <2>2
<1>11. \A k \in Tasks!Recorded' \ Tasks!Recorded : ops'[k].status = "queued" /\ ops'[k].attempts = 0 /\ applied'[k] = 0 /\ TasksDepends(k)'
  BY <1>0, <1>1, <1>4, <1>5, <1>8 DEF TasksDepends, Tasks!Op
<1>12. Len(ops) <= Len(ops')
  BY <1>0, <1>5
<1> QED BY <1>6, <1>7, <1>9, <1>10, <1>11, <1>12, TasksQueueStep

\* Completing the recurring task, with and without its successor.
LEMMA TasksCompleteInv == ASSUME TasksIInv, Tasks!Complete PROVE TasksIInv'
<1> DEFINE n == Len(ops) + 1
           fresh == occurrence = Tasks!NoOccurrence \/ Tasks!Op(occurrence.creation).status = "cancelled"
           first == Tasks!Change(1, "update", known[1], 0)
           second == Tasks!Change(2, "create", 0, n)
           new == IF fresh THEN <<first, second>> ELSE <<first>>
<1>0. /\ TasksTypeOK /\ Tasks!Serial /\ Tasks!Recorded = 1 .. Len(ops) /\ Len(ops) \in Nat /\ known[1] \in Nat /\ ops \in Seq(TasksOperation)
      /\ UNCHANGED <<known, cached, request, server, revision, externals>>
      /\ ops' = ops \o new /\ applied' = applied \o [i \in 1..Len(new) |-> 0]
      /\ reviewed' = reviewed \o [i \in 1..Len(new) |-> Tasks!SeenNow(1)]
      /\ occurrence' = IF fresh THEN [completion |-> n, creation |-> n + 1] ELSE occurrence
  BY TasksQueue DEF TasksIInv, Tasks!Complete, Tasks!Record, TasksTypeOK, Tasks!Tasks
<1>1. /\ first \in TasksOperation /\ first.after = 0 /\ first.status = "queued" /\ first.attempts = 0 /\ first.task = 1 /\ first.kind = "update"
      /\ second \in TasksOperation /\ second.after = n /\ second.status = "queued" /\ second.attempts = 0
      /\ second.task = 2 /\ second.kind = "create" /\ n \in Nat
  <2>1. 1 \in Tasks!Tasks /\ 2 \in Tasks!Tasks /\ "update" \in TasksKinds /\ "create" \in TasksKinds /\ 0 \in Nat /\ n \in Nat
    BY <1>0 DEF Tasks!Tasks, TasksKinds
  <2> HIDE DEF n
  <2>2. /\ first \in TasksOperation /\ first.after = 0 /\ first.status = "queued" /\ first.attempts = 0
        /\ first.task = 1 /\ first.kind = "update"
    <3>1. "update" \in TasksKinds /\ known[1] \in Nat
      BY <1>0, <2>1
    <3> QED BY <2>1, <3>1, TasksAChange
  <2>3. /\ second \in TasksOperation /\ second.after = n /\ second.status = "queued" /\ second.attempts = 0
        /\ second.task = 2 /\ second.kind = "create"
    BY <2>1, TasksAChange
  <2> QED BY <2>1, <2>2, <2>3
<1> HIDE DEF first, second, fresh
<1>2. /\ new \in Seq(TasksOperation) /\ Len(new) = (IF fresh THEN 2 ELSE 1) /\ new[1] = first /\ (fresh => new[2] = second)
  BY <1>1
<1> HIDE DEF new
<1>3. Tasks!SeenNow(1) \in Nat
  BY <1>0 DEF Tasks!SeenNow, Tasks!Foreign, TasksTypeOK, Tasks!Tasks
<1>4. /\ applied' \in Seq(Nat) /\ Len(applied') = Len(ops) + Len(new) /\ reviewed' \in Seq(Nat) /\ Len(reviewed') = Len(ops) + Len(new)
      /\ \A k \in Tasks!Recorded : applied'[k] = applied[k]
      /\ \A k \in Len(ops) + 1 .. Len(ops) + Len(new) : applied'[k] = 0
  <2> DEFINE shows == [i \in 1..Len(new) |-> Tasks!SeenNow(1)]
  <2>1. shows \in Seq(Nat) /\ Len(shows) = Len(new)
    BY <1>2, <1>3
  <2>2. reviewed' = reviewed \o shows
    BY <1>0
  <2> HIDE DEF shows
  <2> QED BY <1>0, <1>2, <2>1, <2>2, TasksRecording
<1>5. /\ ops' \in Seq(TasksOperation) /\ Len(ops') = Len(ops) + Len(new) /\ ops'[n] = first /\ (fresh => ops'[n + 1] = second)
      /\ \A k \in Tasks!Recorded : ops'[k] = ops[k]
  <2>1. /\ ops' \in Seq(TasksOperation) /\ Len(ops') = Len(ops) + Len(new)
        /\ \A i \in 1 .. Len(ops) + Len(new) : ops'[i] = IF i <= Len(ops) THEN ops[i] ELSE new[i - Len(ops)]
    BY <1>0, <1>2, ConcatProperties
  <2>2. n \in 1 .. Len(ops) + Len(new) /\ ~(n <= Len(ops)) /\ n - Len(ops) = 1
    BY <1>0, <1>2
  <2>3. fresh => n + 1 \in 1 .. Len(ops) + Len(new) /\ ~(n + 1 <= Len(ops)) /\ (n + 1) - Len(ops) = 2
    BY <1>0, <1>2
  <2>4. \A k \in Tasks!Recorded : k \in 1 .. Len(ops) + Len(new) /\ k <= Len(ops)
    BY <1>0, <1>2
  <2> HIDE DEF n
  <2> QED BY <1>2, <2>1, <2>2, <2>3, <2>4
<1>6. TasksTypeOK'
  <2>1. occurrence' \in [completion : Nat, creation : Nat]
    BY <1>0, <1>1 DEF TasksTypeOK
  <2> QED BY <1>0, <1>4, <1>5, <2>1 DEF TasksTypeOK
<1>7. \A k \in Tasks!Recorded : TasksShape(k) /\ applied'[k] = applied[k]
  BY <1>0, <1>4, <1>5, TasksLeftAlone
<1>8. Tasks!Recorded' = 1 .. Len(ops) + Len(new) /\ \A k \in Tasks!Recorded' \ Tasks!Recorded : k = n \/ (k = n + 1 /\ fresh)
  BY <1>0, <1>2, <1>5 DEF Tasks!Recorded
<1>9. TasksAwaited'
  BY <1>0 DEF TasksAwaited, Tasks!Serial
<1>10. TasksOccurs'
  <2>1. CASE fresh
    <3>1. n + 1 \in Tasks!Recorded' /\ n # 0
      BY <1>0, <1>2, <1>8, <2>1
    <3> QED BY <1>0, <1>1, <1>5, <2>1, <3>1 DEF TasksOccurs, Tasks!Op
  <2>2. CASE ~fresh
    BY <1>0, <1>2, <1>5, <1>8, <2>2 DEF TasksIInv, TasksOccurs, Tasks!Op, fresh
  <2> QED BY <2>1, <2>2
<1>11. ASSUME NEW k \in Tasks!Recorded' PROVE TasksKept(k)
  <2>1. CASE k \in Tasks!Recorded
    <3>1. ops[k].after # 0 => ops[k].after \in Tasks!Recorded /\ TasksAwaits(k) /\ ops[k].after # 0
      BY <1>0, <2>1 DEF TasksIInv, TasksDepends, Tasks!Op
    <3>2. ops[k].after # 0 /\ ops[k].status \in Tasks!Active => occurrence = [completion |-> ops[k].after, creation |-> k] /\ ~fresh
      BY <2>1, <3>1 DEF TasksAwaits, Tasks!Op, TasksIsActive, Tasks!NoOccurrence, Tasks!Active, fresh
    <3> QED BY <1>0, <1>5, <2>1, <3>1, <3>2 DEF TasksKept, TasksAwaits, Tasks!Op, TasksIsActive
  <2>2. CASE k = n
    BY <1>1, <1>5, <2>2 DEF TasksKept
  <2>3. CASE k = n + 1 /\ fresh
    BY <1>0, <1>1, <1>5, <2>3 DEF TasksKept
  <2> QED BY <1>8, <2>1, <2>2, <2>3
<1>12. \A k \in Tasks!Recorded' \ Tasks!Recorded : ops'[k].status = "queued" /\ ops'[k].attempts = 0 /\ applied'[k] = 0 /\ TasksDepends(k)'
  <2>1. n \in 1 .. (n + 1) - 1 /\ \A k \in Tasks!Recorded' \ Tasks!Recorded : k \in Len(ops) + 1 .. Len(ops) + Len(new)
    BY <1>0, <1>1, <1>2, <1>8
  <2>2. ASSUME NEW k \in Tasks!Recorded', k = n PROVE TasksDepends(k)'
    BY <1>1, <1>5, <2>2 DEF TasksDepends, Tasks!Op
  <2>3. ASSUME NEW k \in Tasks!Recorded', k = n + 1, fresh PROVE TasksDepends(k)'
    <3>1. ops'[k] = second /\ ops'[n] = first /\ n \in 1 .. k - 1
      BY <1>1, <1>5, <2>1, <2>3
    <3> HIDE DEF n
    <3> QED BY <1>1, <3>1 DEF TasksDepends, Tasks!Op
  <2> QED BY <1>0, <1>1, <1>4, <1>5, <1>8, <2>1, <2>2, <2>3
<1>13. Len(ops) <= Len(ops')
  BY <1>0, <1>2, <1>5
<1> QED BY <1>6, <1>7, <1>9, <1>10, <1>11, <1>12, <1>13, TasksQueueStep

\* Whoever cancels a completion that has not been sent cancels its successor.
LEMMA TasksClosed ==
    ASSUME TasksIInv, NEW k \in Tasks!Recorded, NEW c \in Tasks!Recorded, Tasks!Op(c).after # 0, TasksIsActive(c), Tasks!Op(c).after \in Tasks!WithCreation(k)
    PROVE  c \in Tasks!WithCreation(k)
<1>0. TasksTypeOK /\ TasksDepends(c) /\ TasksKnown(c) /\ TasksAwaits(c) /\ ops[c] \in TasksOperation /\ ops[k] \in TasksOperation
  BY TasksQueue DEF TasksIInv
<1>1. PICK j \in Tasks!Recorded : j = Tasks!Op(c).after
  BY DEF Tasks!WithCreation
<1>2. Tasks!Op(j).status # "succeeded"
  BY <1>1 DEF Tasks!WithCreation, Tasks!Unsent
<1>3. Tasks!Unsent(c)
  BY <1>0, <1>1, <1>2, TasksOpParts DEF TasksAwaits, TasksKnown, Tasks!Op
<1>4. Tasks!Op(j).task = 1 /\ Tasks!Op(c).task = 2 /\ Tasks!Op(c).kind = "create"
  BY <1>0, <1>1 DEF TasksDepends
<1> DEFINE dependents == {i \in Tasks!Recorded : Tasks!Op(i).kind = "create" /\ Tasks!Op(i).after # 0 /\ Tasks!Op(Tasks!Op(i).after).task = Tasks!Op(k).task}
<1>5. \A i \in dependents : Tasks!Op(i).task = 2
  BY DEF TasksIInv, TasksDepends
<1>6. Tasks!Op(k).task = 1
  <2>1. Tasks!Op(j).task \in {Tasks!Op(k).task} \cup {Tasks!Op(i).task : i \in dependents}
    BY <1>1 DEF Tasks!WithCreation
  <2> QED BY <1>4, <1>5, <2>1
<1>7. c \in dependents
  BY <1>1, <1>4, <1>6
<1> QED BY <1>3, <1>7 DEF Tasks!WithCreation

\* Undoing or discarding the completion in task_occurrences cancels a creation
\* that was not sent.
LEMMA TasksOwn ==
    ASSUME NEW c \in Tasks!Recorded, Tasks!Unsent(c)
    PROVE  c \in Tasks!WithCreation(c)
BY DEF Tasks!WithCreation

LEMMA TasksCancelling ==
    ASSUME TasksIInv, NEW set \in SUBSET Tasks!Recorded, \A k \in set : Tasks!Op(k).status # "succeeded"
    PROVE  LET p == Tasks!CancelAll(set) IN
           /\ p \in Seq(TasksOperation) /\ Len(p) = Len(ops) /\ DOMAIN p = Tasks!Recorded
           /\ \A k \in Tasks!Recorded : k \notin set => p[k] = ops[k]
           /\ \A k \in set : p[k] \in TasksOperation /\ TasksStatic(ops[k], p[k]) /\ TasksGivesUp(ops[k], p[k])
<1>1. TasksTypeOK /\ Tasks!Recorded = 1 .. Len(ops) /\ Len(ops) \in Nat /\ \A k \in Tasks!Recorded : ops[k] \in TasksOperation
  BY TasksQueue DEF TasksIInv
<1>2. "cancelled" \in TasksOutcomes
  BY DEF TasksOutcomes
<1>3. ASSUME NEW k \in set PROVE Tasks!CancelAll(set)[k] = [ops[k] EXCEPT !.status = "cancelled"]
  BY DEF Tasks!CancelAll, Tasks!Op
<1>4. \A k \in set : LET p == Tasks!CancelAll(set)[k] IN p \in TasksOperation /\ TasksStatic(ops[k], p) /\ TasksGivesUp(ops[k], p)
  <2> SUFFICES ASSUME NEW k \in set
               PROVE  LET p == Tasks!CancelAll(set)[k] IN p \in TasksOperation /\ TasksStatic(ops[k], p) /\ TasksGivesUp(ops[k], p)
    OBVIOUS
  <2>1. LET p == [ops[k] EXCEPT !.status = "cancelled"] IN
        p \in TasksOperation /\ TasksStatic(ops[k], p) /\ p.status = "cancelled" /\ p.attempts = ops[k].attempts
    BY <1>1, <1>2, TasksWithStatus
  <2>2. ops[k].status # "succeeded"
    BY DEF Tasks!Op
  <2> QED BY <1>3, <2>1, <2>2 DEF TasksGivesUp
<1>5. \A k \in Tasks!Recorded : k \notin set => Tasks!CancelAll(set)[k] = ops[k]
  BY DEF Tasks!CancelAll, Tasks!Op
<1>6. Tasks!CancelAll(set) \in [1 .. Len(ops) -> TasksOperation]
  <2>1. \A k \in Tasks!Recorded : (IF k \in set THEN [Tasks!Op(k) EXCEPT !.status = "cancelled"] ELSE Tasks!Op(k)) \in TasksOperation
    BY <1>1, <1>2, TasksWithStatus DEF Tasks!Op
  <2> QED BY <1>1, <2>1 DEF Tasks!CancelAll
<1>7. Tasks!CancelAll(set) \in Seq(TasksOperation) /\ Len(Tasks!CancelAll(set)) = Len(ops) /\ DOMAIN Tasks!CancelAll(set) = Tasks!Recorded
  BY <1>1, <1>6
<1> QED BY <1>4, <1>5, <1>7

\* A step that gives up a set of changes: with a completion its successor.
LEMMA TasksGiven ==
    ASSUME TasksIInv, Tasks!Serial, request' = request, NEW set \in SUBSET Tasks!Recorded, \A k \in set : Tasks!Op(k).status # "succeeded",
           \A k \in Tasks!Recorded : ops'[k] = Tasks!CancelAll(set)[k],
           \A c \in Tasks!Recorded : c \notin set /\ TasksIsActive(c) /\ Tasks!Op(c).after # 0 => Tasks!Op(c).after \notin set /\ occurrence' = occurrence
    PROVE  \A k \in Tasks!Recorded : TasksShape(k) /\ TasksKept(k)
<1> SUFFICES ASSUME NEW k \in Tasks!Recorded PROVE TasksShape(k) /\ TasksKept(k)
  OBVIOUS
<1>0. TasksTypeOK /\ Tasks!Recorded = 1 .. Len(ops) /\ ops[k] \in TasksOperation /\ TasksDepends(k) /\ TasksAwaits(k)
  BY TasksQueue DEF TasksIInv
<1>1. /\ \A j \in Tasks!Recorded : j \notin set => ops'[j] = ops[j]
      /\ \A j \in set : ops'[j] \in TasksOperation /\ TasksStatic(ops[j], ops'[j]) /\ TasksGivesUp(ops[j], ops'[j])
  BY TasksCancelling
<1>2. TasksShape(k)
  <2>1. CASE k \in set
    BY <1>1, <2>1 DEF TasksShape
  <2>2. CASE k \notin set
    BY <1>1, <2>2, TasksLeftAlone
  <2> QED BY <2>1, <2>2
<1>3. TasksKept(k)
  <2>1. CASE k \in set
    BY <1>1, <2>1 DEF TasksKept, TasksGivesUp, Tasks!Active
  <2>2. CASE k \notin set /\ ops[k].after # 0 /\ TasksIsActive(k)
    <3>1. ops[k].after \in Tasks!Recorded /\ ops[k].after \notin set /\ occurrence' = occurrence /\ ops'[k] = ops[k]
      BY <1>0, <1>1, <2>2 DEF TasksDepends, Tasks!Op
    <3>2. ops'[ops[k].after] = ops[ops[k].after]
      BY <1>1, <3>1
    <3> QED BY <1>0, <2>2, <3>1, <3>2 DEF TasksKept, TasksAwaits, Tasks!Op, TasksIsActive
  <2>3. CASE k \notin set /\ ~(ops[k].after # 0 /\ TasksIsActive(k))
    BY <1>1, <2>3 DEF TasksKept, TasksIsActive, Tasks!Op
  <2> QED BY <2>1, <2>2, <2>3
<1> QED BY <1>2, <1>3

LEMMA TasksUndoInv == ASSUME TasksIInv, NEW k \in Tasks!Recorded, Tasks!Undo(k) PROVE TasksIInv'
<1>0. /\ TasksTypeOK /\ Tasks!Serial /\ Tasks!SuccessorAllows(k) /\ Tasks!Recorded = 1 .. Len(ops) /\ Len(ops) \in Nat /\ k # 0
      /\ UNCHANGED <<known, cached, request, server, revision, externals>> /\ ops[k] \in TasksOperation
      /\ occurrence' = IF occurrence.completion = k THEN Tasks!NoOccurrence ELSE occurrence
  BY TasksQueue DEF TasksIInv, Tasks!Undo
<1>1. occurrence.completion = k => occurrence.creation \in Tasks!Recorded
  BY <1>0 DEF TasksIInv, TasksOccurs, Tasks!NoOccurrence
<1> DEFINE here == {k} \cup Tasks!SuccessorGoes(k) \cup (IF Tasks!Op(k).kind = "create" THEN Tasks!WithCreation(k) ELSE {})
<1>2. Tasks!SuccessorGoes(k) \in SUBSET Tasks!Recorded /\ Tasks!WithCreation(k) \in SUBSET Tasks!Recorded
  BY <1>1 DEF Tasks!SuccessorGoes, Tasks!WithCreation
<1>3. /\ \A j \in Tasks!SuccessorGoes(k) : Tasks!Op(j).status # "succeeded"
      /\ \A j \in Tasks!WithCreation(k) : Tasks!Op(j).status # "succeeded"
  BY DEF Tasks!SuccessorGoes, Tasks!WithCreation, Tasks!Unsent
<1>4. ASSUME NEW set \in SUBSET Tasks!Recorded, Tasks!SuccessorGoes(k) \subseteq set, set \subseteq here \/ set = Tasks!SuccessorGoes(k),
             Tasks!WithCreation(k) \subseteq set \/ set \cap Tasks!WithCreation(k) \subseteq {k} \cup Tasks!SuccessorGoes(k),
             NEW c \in Tasks!Recorded, c \notin set, TasksIsActive(c), Tasks!Op(c).after # 0
      PROVE  Tasks!Op(c).after \notin set /\ occurrence' = occurrence
  <2>1. occurrence = [completion |-> Tasks!Op(c).after, creation |-> c] /\ Tasks!Op(c).status \notin {"cancelled", "succeeded"}
    BY <1>4 DEF TasksIInv, TasksAwaits, TasksIsActive, Tasks!Active
  <2>2. Tasks!Op(c).after # k
    <3> SUFFICES ASSUME Tasks!Op(c).after = k PROVE FALSE
      OBVIOUS
    <3>1. occurrence.completion = k /\ occurrence.creation = c
      BY <2>1
    <3>2. Tasks!Unsent(c)
      BY <1>0, <2>1, <3>1 DEF Tasks!SuccessorAllows, Tasks!CreationRemoved
    <3>3. c \in Tasks!SuccessorGoes(k)
      BY <3>1, <3>2, TasksOwn DEF Tasks!SuccessorGoes
    <3> QED BY <1>4, <3>3
  <2>3. Tasks!Op(c).after \notin Tasks!SuccessorGoes(k)
    <3> SUFFICES ASSUME Tasks!Op(c).after \in Tasks!SuccessorGoes(k) PROVE FALSE
      OBVIOUS
    <3>1. occurrence.completion = k
      BY DEF Tasks!SuccessorGoes
    <3> QED BY <2>1, <2>2, <3>1
  <2>4. Tasks!Op(c).after \in Tasks!WithCreation(k) => c \in Tasks!WithCreation(k)
    BY <1>4, TasksClosed
  <2>5. Tasks!Op(c).after \notin set
    BY <1>4, <2>2, <2>3, <2>4
  <2> QED BY <1>0, <2>1, <2>2, <2>5
<1>5. occurrence' \in [completion : Nat, creation : Nat]
  BY <1>0 DEF TasksTypeOK, Tasks!NoOccurrence
<1>6. CASE /\ Tasks!Op(k).status = "queued" /\ ops' = Tasks!CancelAll(here) /\ UNCHANGED <<applied, reviewed>>
  <2>1. here \in SUBSET Tasks!Recorded /\ \A j \in here : Tasks!Op(j).status # "succeeded"
    BY <1>2, <1>3, <1>6
  <2>2. ops' \in Seq(TasksOperation) /\ Len(ops') = Len(ops) /\ Tasks!Recorded' = Tasks!Recorded
    BY <1>6, <2>1, TasksCancelling DEF Tasks!Recorded
  <2>3. \A c \in Tasks!Recorded : c \notin here /\ TasksIsActive(c) /\ Tasks!Op(c).after # 0 => Tasks!Op(c).after \notin here /\ occurrence' = occurrence
    <3>1. CASE Tasks!Op(k).kind = "create"
      BY <1>4, <2>1, <3>1
    <3>2. CASE Tasks!Op(k).kind # "create"
      BY <1>4, <2>1, <3>2
    <3> QED BY <3>1, <3>2
  <2> HIDE DEF here
  <2>4. \A j \in Tasks!Recorded : TasksShape(j) /\ TasksKept(j)
    BY <1>0, <1>6, <2>1, <2>3, TasksGiven
  <2>5. TasksTypeOK' /\ TasksAwaited'
    BY <1>0, <1>5, <1>6, <2>2 DEF TasksTypeOK, TasksAwaited, Tasks!Serial
  <2>6. TasksOccurs'
    BY <1>0, <2>2, <2>4 DEF TasksIInv, TasksOccurs, TasksShape, TasksStatic, Tasks!Op
  <2>7. (\A j \in Tasks!Recorded : applied'[j] = applied[j]) /\ Len(ops) <= Len(ops')
    BY <1>0, <1>6, <2>2
  <2> QED BY <2>2, <2>4, <2>5, <2>6, <2>7, TasksQueueStep
<1>7. ASSUME Tasks!Op(k).status = "succeeded", NEW kind \in TasksKinds,
             Tasks!Record(<<k>>, <<Tasks!SeenNow(Tasks!Op(k).task)>>),
             ops' = Append(Tasks!CancelAll(Tasks!SuccessorGoes(k)), [Tasks!Change(Tasks!Op(k).task, kind, Tasks!Op(k).result, 0) EXCEPT !.undoOf = k])
      PROVE  TasksIInv'
  <2> DEFINE c == [Tasks!Change(Tasks!Op(k).task, kind, Tasks!Op(k).result, 0) EXCEPT !.undoOf = k]
             set == Tasks!SuccessorGoes(k)
  <2>1. c \in TasksOperation /\ c.after = 0 /\ c.status = "queued" /\ c.attempts = 0
    <3>1. Tasks!Change(Tasks!Op(k).task, kind, Tasks!Op(k).result, 0) \in TasksOperation /\ Tasks!Change(Tasks!Op(k).task, kind, Tasks!Op(k).result, 0).after = 0
          /\ Tasks!Change(Tasks!Op(k).task, kind, Tasks!Op(k).result, 0).status = "queued" /\ Tasks!Change(Tasks!Op(k).task, kind, Tasks!Op(k).result, 0).attempts = 0
      BY <1>0, TasksAChange, TasksOpParts DEF Tasks!Op
    <3>2. k \in Nat
      BY <1>0
    <3> QED BY <3>1, <3>2 DEF TasksOperation
  <2>2. set \in SUBSET Tasks!Recorded /\ \A j \in set : Tasks!Op(j).status # "succeeded"
    BY <1>2, <1>3
  <2>3. \A i \in Tasks!Recorded : i \notin set /\ TasksIsActive(i) /\ Tasks!Op(i).after # 0 => Tasks!Op(i).after \notin set /\ occurrence' = occurrence
    BY <1>4, <2>2
  <2>4. Tasks!CancelAll(set) \in Seq(TasksOperation) /\ Len(Tasks!CancelAll(set)) = Len(ops) /\ DOMAIN Tasks!CancelAll(set) = Tasks!Recorded
    BY <2>2, TasksCancelling
  <2> HIDE DEF c, set
  <2>5. ops' = Append(Tasks!CancelAll(set), c)
    BY <1>7 DEF set, c
  <2>6. /\ ops' \in Seq(TasksOperation) /\ Len(ops') = Len(ops) + 1 /\ ops'[Len(ops) + 1] = c
        /\ \A j \in Tasks!Recorded : ops'[j] = Tasks!CancelAll(set)[j]
    BY <1>0, <2>1, <2>4, <2>5
  <2>7. \A j \in Tasks!Recorded : TasksShape(j) /\ TasksKept(j)
    BY <1>0, <2>2, <2>3, <2>6, TasksGiven
  <2>8. Tasks!Recorded' = 1 .. Len(ops) + 1 /\ \A j \in Tasks!Recorded' \ Tasks!Recorded : j = Len(ops) + 1
    BY <1>0, <2>6 DEF Tasks!Recorded
  <2>9. /\ applied' \in Seq(Nat) /\ Len(applied') = Len(ops) + 1 /\ reviewed' \in Seq(Nat) /\ Len(reviewed') = Len(ops) + 1
        /\ \A j \in Tasks!Recorded : applied'[j] = applied[j]
        /\ \A j \in Len(ops) + 1 .. Len(ops) + 1 : applied'[j] = 0
    <3>1. Tasks!Op(k).task \in Tasks!Tasks
      BY <1>0, TasksOpParts DEF Tasks!Op
    <3>2. Tasks!SeenNow(Tasks!Op(k).task) \in Nat
      BY <1>0, <3>1 DEF Tasks!SeenNow, Tasks!Foreign, TasksTypeOK
    <3>3. <<c>> \in Seq(TasksOperation) /\ Len(<<c>>) = 1 /\ Len(<<k>>) = 1
          /\ <<Tasks!SeenNow(Tasks!Op(k).task)>> \in Seq(Nat) /\ Len(<<Tasks!SeenNow(Tasks!Op(k).task)>>) = 1
      BY <2>1, <3>2
    <3>4. /\ applied' = applied \o [i \in 1..Len(<<c>>) |-> 0] /\ reviewed' = reviewed \o <<Tasks!SeenNow(Tasks!Op(k).task)>>
          /\ Len(<<Tasks!SeenNow(Tasks!Op(k).task)>>) = Len(<<c>>)
      BY <1>7, <3>3 DEF Tasks!Record
    <3> QED BY <1>0, <3>3, <3>4, TasksRecording
  <2>10. TasksTypeOK' /\ TasksAwaited'
    BY <1>0, <1>5, <2>6, <2>9 DEF TasksTypeOK, TasksAwaited, Tasks!Serial
  <2>11. TasksOccurs'
    BY <1>0, <2>6, <2>7, <2>8 DEF TasksIInv, TasksOccurs, TasksShape, TasksStatic, Tasks!Op
  <2>12. ASSUME NEW j \in Tasks!Recorded' \ Tasks!Recorded
         PROVE  ops'[j].status = "queued" /\ ops'[j].attempts = 0 /\ applied'[j] = 0 /\ TasksDepends(j)' /\ TasksKept(j)
    BY <1>0, <2>1, <2>6, <2>8, <2>9, <2>12 DEF TasksDepends, TasksKept, Tasks!Op
  <2>13. Len(ops) <= Len(ops')
    BY <1>0, <2>6
  <2> QED BY <2>7, <2>9, <2>10, <2>11, <2>12, <2>13, TasksQueueStep
<1>8. CASE Tasks!Op(k).status = "queued"
  BY <1>6, <1>8 DEF Tasks!Undo
<1>9. CASE Tasks!Op(k).status = "succeeded"
  <2> DEFINE kind == CASE Tasks!Op(k).kind = "create" -> "delete" [] Tasks!Op(k).kind = "delete" -> "create" [] OTHER -> "update"
  <2>1. kind \in TasksKinds
    BY DEF TasksKinds
  <2>2. Tasks!Record(<<k>>, <<Tasks!SeenNow(Tasks!Op(k).task)>>) /\
        ops' = Append(Tasks!CancelAll(Tasks!SuccessorGoes(k)), [Tasks!Change(Tasks!Op(k).task, kind, Tasks!Op(k).result, 0) EXCEPT !.undoOf = k])
    BY <1>9 DEF Tasks!Undo
  <2> HIDE DEF kind
  <2> QED BY <1>7, <1>9, <2>1, <2>2
<1> QED BY <1>8, <1>9 DEF Tasks!Undo

LEMMA TasksDiscardInv == ASSUME TasksIInv, NEW k \in Tasks!Recorded, Tasks!Discard(k) PROVE TasksIInv'
<1> DEFINE later == {j \in Tasks!ActiveOf(Tasks!Op(k).task) : j >= k}
           completes == \E j \in later : Tasks!CompletionOf(j)
           creations == {j \in later : Tasks!Op(j).kind = "create"} \cup (IF completes THEN {occurrence.creation} ELSE {})
           set == later \cup UNION {Tasks!WithCreation(c) : c \in creations}
<1>0. /\ TasksTypeOK /\ Tasks!Serial /\ Tasks!Recorded = 1 .. Len(ops) /\ Len(ops) \in Nat
      /\ UNCHANGED <<known, cached, request, server, revision, externals, applied, reviewed>>
      /\ occurrence' = IF completes THEN Tasks!NoOccurrence ELSE occurrence
      /\ completes => Tasks!Op(occurrence.creation).status = "cancelled" \/ Tasks!Unsent(occurrence.creation)
      /\ ops' = Tasks!CancelAll(set)
  BY TasksQueue DEF TasksIInv, Tasks!Discard, Tasks!Unsettled
<1>1. completes => occurrence.creation \in Tasks!Recorded
  <2>1. \A j \in later : j # 0
    BY <1>0 DEF Tasks!ActiveOf, Tasks!Of
  <2> QED BY <2>1 DEF TasksIInv, TasksOccurs, Tasks!NoOccurrence, Tasks!CompletionOf
<1>2. later \in SUBSET Tasks!Recorded /\ creations \in SUBSET Tasks!Recorded
  BY <1>1 DEF Tasks!ActiveOf, Tasks!Of
<1>3. set \in SUBSET Tasks!Recorded /\ \A j \in set : Tasks!Op(j).status # "succeeded"
  <2>1. \A c \in creations : Tasks!WithCreation(c) \in SUBSET Tasks!Recorded /\ \A j \in Tasks!WithCreation(c) : Tasks!Op(j).status # "succeeded"
    BY DEF Tasks!WithCreation, Tasks!Unsent
  <2>2. \A j \in later : Tasks!Op(j).status # "succeeded"
    BY DEF Tasks!ActiveOf, Tasks!Active
  <2> QED BY <1>2, <2>1, <2>2
<1>4. ASSUME NEW c \in Tasks!Recorded, c \notin set, TasksIsActive(c), Tasks!Op(c).after # 0
      PROVE  Tasks!Op(c).after \notin set /\ occurrence' = occurrence
  <2>1. occurrence = [completion |-> Tasks!Op(c).after, creation |-> c] /\ Tasks!Op(c).status # "cancelled"
    BY <1>4 DEF TasksIInv, TasksAwaits, TasksIsActive, Tasks!Active
  <2>2. ~completes
    <3> SUFFICES ASSUME completes PROVE FALSE
      OBVIOUS
    <3>1. Tasks!Unsent(c) /\ c \in creations
      BY <1>0, <2>1
    <3>2. c \in set
      BY <3>1, TasksOwn
    <3> QED BY <1>4, <3>2
  <2>3. Tasks!Op(c).after \notin later
    BY <2>1, <2>2 DEF Tasks!CompletionOf
  <2>4. ASSUME NEW i \in creations PROVE Tasks!Op(c).after \notin Tasks!WithCreation(i)
    <3>1. c \notin Tasks!WithCreation(i) /\ i \in Tasks!Recorded
      BY <1>2, <1>4
    <3> QED BY <1>4, <3>1, TasksClosed
  <2> QED BY <1>0, <2>2, <2>3, <2>4
<1> HIDE DEF set, completes
<1>5. ops' \in Seq(TasksOperation) /\ Len(ops') = Len(ops) /\ Tasks!Recorded' = Tasks!Recorded
  BY <1>0, <1>3, TasksCancelling DEF Tasks!Recorded
<1>6. \A j \in Tasks!Recorded : TasksShape(j) /\ TasksKept(j)
  BY <1>0, <1>3, <1>4, TasksGiven
<1>7. TasksTypeOK' /\ TasksAwaited'
  <2>1. Tasks!NoOccurrence \in [completion : Nat, creation : Nat]
    BY DEF Tasks!NoOccurrence
  <2> QED BY <1>0, <1>5, <2>1 DEF TasksTypeOK, TasksAwaited, Tasks!Serial
<1>8. TasksOccurs'
  BY <1>0, <1>5, <1>6 DEF TasksIInv, TasksOccurs, TasksShape, TasksStatic, Tasks!Op
<1>9. (\A j \in Tasks!Recorded : applied'[j] = applied[j]) /\ Len(ops) <= Len(ops')
  BY <1>0, <1>5
<1> QED BY <1>5, <1>6, <1>7, <1>8, <1>9, TasksQueueStep

(* The engine.                                                             *)

\* A step that gives one change another record.
LEMMA TasksReplaced ==
    ASSUME TasksIInv, NEW k \in Tasks!Recorded, NEW p \in TasksOperation, ops' = [ops EXCEPT ![k] = p]
    PROVE  /\ ops' \in Seq(TasksOperation) /\ Len(ops') = Len(ops) /\ Tasks!Recorded' = Tasks!Recorded
           /\ ops'[k] = p /\ \A j \in Tasks!Recorded : j # k => ops'[j] = ops[j]
<1>0. TasksTypeOK /\ Tasks!Recorded = 1 .. Len(ops) /\ ops \in Seq(TasksOperation)
  BY TasksQueue DEF TasksIInv, TasksTypeOK
<1> QED BY <1>0 DEF Tasks!Recorded

LEMMA TasksSendInv == ASSUME TasksIInv, Tasks!Send PROVE TasksIInv'
<1>0. /\ TasksTypeOK /\ Tasks!Serial /\ Tasks!Recorded = 1 .. Len(ops) /\ ops \in Seq(TasksOperation)
      /\ UNCHANGED <<known, cached, occurrence, server, revision, externals, applied, reviewed>>
  BY TasksQueue DEF TasksIInv, Tasks!Send, TasksTypeOK
<1>1. PICK k \in Tasks!Recorded :
          /\ Tasks!FirstSendable(k)
          /\ IF Tasks!Op(k).kind # "create" /\ Tasks!Op(k).base = 0
             THEN ops' = [Tasks!With(k, "failed") EXCEPT ![k].attempts = @ + 1] /\ UNCHANGED request
             ELSE ops' = [Tasks!With(k, "running") EXCEPT ![k].attempts = @ + 1]
                  /\ request' = [op |-> k, phase |-> "sent", rev |-> 0]
  BY DEF Tasks!Send
<1>2. /\ ops[k] \in TasksOperation /\ ops[k].attempts \in Nat /\ ops[k].status = "queued" /\ Tasks!DependencySettled(k)
      /\ TasksKnown(k) /\ applied[k] = 0 /\ k \in Nat
  BY <1>0, <1>1, TasksQueue, TasksOpParts DEF TasksIInv, Tasks!FirstSendable, Tasks!Sendable, Tasks!Op, TasksKnown
<1>3. ASSUME NEW status \in {"running", "failed"}, ops' = [Tasks!With(k, status) EXCEPT ![k].attempts = @ + 1],
             status = "running" => request' = [op |-> k, phase |-> "sent", rev |-> 0],
             status # "running" => request' = request
      PROVE  TasksIInv'
  <2> DEFINE p == [ops[k] EXCEPT !.status = status, !.attempts = @ + 1]
  <2>1. /\ p \in TasksOperation /\ TasksStatic(ops[k], p) /\ p.status = status /\ p.attempts = ops[k].attempts + 1
        /\ ops' = [ops EXCEPT ![k] = p]
    <3>1. status \in TasksOutcomes
      BY DEF TasksOutcomes, Tasks!Active
    <3>2. p \in TasksOperation /\ p.status = status /\ p.attempts = ops[k].attempts + 1
      <4>1. ops[k].attempts + 1 \in Nat
        BY <1>2
      <4>2. p = [ops[k] EXCEPT !.status = status, !.attempts = ops[k].attempts + 1]
        OBVIOUS
      <4> HIDE DEF p
      <4> QED BY <1>2, <3>1, <4>1, <4>2 DEF TasksOperation
    <3>3. TasksStatic(ops[k], p)
      BY <1>2 DEF TasksOperation, TasksStatic
    <3>4. Tasks!With(k, status) = [ops EXCEPT ![k] = [ops[k] EXCEPT !.status = status]]
      BY DEF Tasks!With
    <3>5. ops' = [ops EXCEPT ![k] = [[ops[k] EXCEPT !.status = status] EXCEPT !.attempts = @ + 1]]
      BY <1>0, <1>3, <3>4 DEF Tasks!Recorded
    <3>6. [[ops[k] EXCEPT !.status = status] EXCEPT !.attempts = @ + 1] = p
      BY <1>2 DEF TasksOperation
    <3> QED BY <3>2, <3>3, <3>5, <3>6
  <2> HIDE DEF p
  <2>2. /\ ops' \in Seq(TasksOperation) /\ Len(ops') = Len(ops) /\ Tasks!Recorded' = Tasks!Recorded
        /\ ops'[k] = p /\ \A j \in Tasks!Recorded : j # k => ops'[j] = ops[j]
    BY <2>1, TasksReplaced
  <2>3. TasksShape(k) /\ p.status # "cancelled"
    <3>1. TasksSends(ops[k], ops'[k]) /\ (ops'[k].status = "running" => request'.op = k)
      <4>1. ops'[k].status = status /\ ops'[k].attempts = ops[k].attempts + 1
        BY <2>1, <2>2
      <4>2. status = "running" => request'.op = k
        BY <1>3
      <4> QED BY <1>2, <4>1, <4>2 DEF TasksSends
    <3>2. ops'[k] \in TasksOperation /\ TasksStatic(ops[k], ops'[k]) /\ p.status # "cancelled"
      BY <2>1, <2>2
    <3> QED BY <1>2, <3>1, <3>2 DEF TasksShape
  <2>4. ASSUME NEW j \in Tasks!Recorded PROVE TasksShape(j) /\ (ops'[j].status = "cancelled" => ops[j].status = "cancelled")
    <3>1. j # k => TasksShape(j)
      BY <1>0, <2>2, TasksLeftAlone
    <3> QED BY <2>2, <2>3, <3>1
  <2>5. TasksAwaited' /\ request' \in TasksRequests
    <3>1. CASE status = "running"
      <4>1. request'.phase = "sent" /\ request'.op = k /\ request' \in TasksRequests
        BY <1>2, <1>3, <3>1 DEF TasksRequests
      <4> QED BY <1>0, <1>2, <2>1, <2>2, <3>1, <4>1 DEF TasksAwaited, Tasks!Op
    <3>2. CASE status # "running"
      BY <1>0, <1>3, <3>2 DEF TasksAwaited, Tasks!Serial, TasksTypeOK
    <3> QED BY <3>1, <3>2
  <2>6. TasksTypeOK'
    BY <1>0, <2>2, <2>5 DEF TasksTypeOK
  <2> QED BY <1>0, <2>2, <2>4, <2>5, <2>6, TasksQuietStep
<1>4. CASE Tasks!Op(k).kind # "create" /\ Tasks!Op(k).base = 0
  BY <1>1, <1>3, <1>4
<1>5. CASE ~(Tasks!Op(k).kind # "create" /\ Tasks!Op(k).base = 0)
  BY <1>1, <1>3, <1>5
<1> QED BY <1>4, <1>5

LEMMA TasksProviderInv == ASSUME TasksIInv, Tasks!ProviderApplies PROVE TasksIInv'
<1>0. /\ TasksTypeOK /\ TasksAwaited /\ Tasks!Recorded = 1 .. Len(ops) /\ request # Tasks!Resting /\ request.phase = "sent" /\ request \in TasksRequests
      /\ UNCHANGED <<ops, known, cached, occurrence, reviewed>> /\ revision' = revision + 1 /\ revision \in Nat
      /\ Tasks!CarriedOutOnce /\ Tasks!SuccessorIsDue
  <2>1. TasksTypeOK /\ TasksAwaited /\ Tasks!CarriedOutOnce /\ Tasks!SuccessorIsDue
    BY DEF TasksIInv
  <2>2. request.phase = "sent" /\ UNCHANGED <<ops, known, cached, occurrence, reviewed>> /\ revision' = revision + 1
    BY DEF Tasks!ProviderApplies
  <2>3. request # Tasks!Resting
    BY <2>2 DEF Tasks!Resting
  <2> QED BY <2>1, <2>2, <2>3, TasksQueue DEF TasksTypeOK
<1>1. PICK k \in Tasks!Recorded : k = request.op
  BY <1>0 DEF TasksAwaited
<1>2. /\ Tasks!Op(k).status = "running" /\ applied[k] = 0 /\ TasksKnown(k) /\ TasksDepends(k) /\ TasksAwaits(k) /\ ops[k] \in TasksOperation
  BY <1>0, <1>1, TasksQueue DEF TasksAwaited, TasksIInv
<1>3. PICK rev \in {0, revision + 1} :
         /\ server' = [server EXCEPT ![Tasks!Op(k).task] = rev]
         /\ request' = [request EXCEPT !.phase = "done", !.rev = rev]
  BY <1>1 DEF Tasks!ProviderApplies
<1>4. request' \in TasksRequests /\ request'.op = k /\ request'.phase = "done" /\ server' \in [Tasks!Tasks -> Nat]
  <2>1. rev \in Nat /\ server \in [Tasks!Tasks -> Nat]
    BY <1>0 DEF TasksTypeOK
  <2>2. request' \in TasksRequests /\ request'.op = k /\ request'.phase = "done"
    BY <1>0, <1>1, <1>3, <2>1 DEF TasksRequests
  <2> QED BY <1>3, <2>1, <2>2
<1>5. applied' \in Seq(Nat) /\ Len(applied') = Len(applied) /\ applied'[k] = 1 /\ \A j \in Tasks!Recorded : j # k => applied'[j] = applied[j]
  <2>1. applied' = [applied EXCEPT ![k] = @ + 1] /\ applied \in Seq(Nat) /\ k \in 1 .. Len(applied)
    BY <1>0, <1>1 DEF Tasks!ProviderApplies, TasksTypeOK
  <2>2. Tasks!Recorded = 1 .. Len(applied)
    BY <1>0 DEF TasksTypeOK
  <2> QED BY <1>2, <2>1, <2>2
<1>6. externals' \in [Tasks!Tasks -> [count : Nat, last : Nat]]
  BY <1>0, <1>1 DEF Tasks!ProviderApplies, TasksTypeOK
<1>7. TasksTypeOK'
  <2>1. revision' \in Nat
    BY <1>0
  <2> QED BY <1>0, <1>4, <1>5, <1>6, <2>1 DEF TasksTypeOK
<1>8. TasksOccurs' /\ TasksAwaited' /\ Tasks!Recorded' = Tasks!Recorded
  BY <1>0, <1>2, <1>4, <1>5 DEF TasksIInv, TasksOccurs, TasksAwaited, Tasks!Op, Tasks!Recorded
<1>9. Tasks!CarriedOutOnce'
  BY <1>0, <1>5, <1>8 DEF Tasks!CarriedOutOnce
<1>10. Tasks!SuccessorIsDue'
  <2>1. Tasks!Op(k).after # 0 => applied'[Tasks!Op(k).after] > 0
    <3> SUFFICES ASSUME Tasks!Op(k).after # 0 PROVE applied'[Tasks!Op(k).after] > 0
      OBVIOUS
    <3>1. Tasks!Op(Tasks!Op(k).after).status = "succeeded" /\ Tasks!Op(Tasks!Op(k).after).kind = "update" /\ Tasks!Op(k).after \in Tasks!Recorded /\ Tasks!Op(k).after # k
      BY <1>0, <1>2 DEF TasksAwaits, TasksKnown, TasksDepends, Tasks!Op
    <3>2. TasksKnown(Tasks!Op(k).after)
      BY <3>1 DEF TasksIInv
    <3> QED BY <1>5, <3>1, <3>2 DEF TasksKnown
  <2>2. ASSUME NEW j \in Tasks!Recorded, j # k, applied'[j] > 0, Tasks!Op(j).after # 0 PROVE applied'[Tasks!Op(j).after] > 0
    <3>1. applied[Tasks!Op(j).after] > 0 /\ Tasks!Op(j).after \in Tasks!Recorded
      BY <1>0, <1>5, <2>2 DEF Tasks!SuccessorIsDue, TasksIInv, TasksDepends, Tasks!Op
    <3> QED BY <1>2, <1>5, <3>1
  <2> QED BY <1>0, <1>8, <2>1, <2>2 DEF Tasks!SuccessorIsDue, Tasks!Op
<1>11. ASSUME NEW j \in Tasks!Recorded PROVE TasksDepends(j)' /\ TasksKnown(j)' /\ TasksAwaits(j)'
  <2>1. TasksDepends(j) /\ TasksKnown(j) /\ TasksAwaits(j)
    BY DEF TasksIInv
  <2>2. TasksKnown(j)'
    BY <1>0, <1>1, <1>2, <1>4, <1>5, <2>1 DEF TasksKnown, Tasks!Op, TasksIsActive, Tasks!Unsent
  <2> QED BY <1>0, <2>1, <2>2 DEF TasksDepends, TasksAwaits, Tasks!Op, TasksIsActive
<1> QED BY <1>7, <1>8, <1>9, <1>10, <1>11 DEF TasksIInv

\* A change settles, and its result becomes the base of others.
LEMMA TasksSettled ==
    ASSUME TasksIInv, NEW k \in Tasks!Recorded, NEW p \in TasksOperation, NEW set \in SUBSET Tasks!Recorded, NEW base \in Nat,
           ops' = [j \in Tasks!Recorded |-> IF j = k THEN p ELSE IF j \in set THEN [ops[j] EXCEPT !.base = base] ELSE ops[j]],
           TasksStatic(ops[k], p), TasksSettles(ops[k], p),
           p.status \in {"queued", "failed", "conflict"} => applied[k] = 0,
           p.status = "succeeded" /\ p.kind # "delete" => applied[k] > 0,
           request' = Tasks!Resting, Tasks!Serial \/ k = request.op, UNCHANGED <<occurrence, server, revision, externals, applied>>,
           known' \in [Tasks!Tasks -> Nat], cached' \in [Tasks!Tasks -> Nat], reviewed' \in Seq(Nat), Len(reviewed') = Len(ops)
    PROVE  TasksIInv'
<1>0. TasksTypeOK /\ Tasks!Recorded = 1 .. Len(ops) /\ \A j \in Tasks!Recorded : ops[j] \in TasksOperation
  BY TasksQueue DEF TasksIInv
<1>1. /\ ops'[k] = p
      /\ \A j \in Tasks!Recorded : j # k => ops'[j] = ops[j] \/ ops'[j] = [ops[j] EXCEPT !.base = base]
  OBVIOUS
<1>2. TasksShape(k) /\ p.status # "cancelled"
  BY <1>1 DEF TasksShape, TasksSettles, TasksStatic
<1>3. ASSUME NEW j \in Tasks!Recorded, j # k PROVE TasksShape(j) /\ ops'[j].status = ops[j].status /\ ops'[j] \in TasksOperation
  <2>1. TasksKnown(j) /\ ops[j] \in TasksOperation /\ j # 0
    BY <1>0 DEF TasksIInv
  <2>2. ops[j].status # "running"
    BY <1>3, <2>1, TasksNothing DEF TasksKnown, Tasks!Op
  <2>3. ops'[j] \in TasksOperation /\ TasksStatic(ops[j], ops'[j]) /\ TasksStill(ops[j], ops'[j])
    BY <1>1, <1>3, <2>1, TasksRebased DEF TasksStatic, TasksStill
  <2> QED BY <2>2, <2>3 DEF TasksShape, TasksStill
<1>4. ops' \in Seq(TasksOperation) /\ Len(ops') = Len(ops)
  <2>1. \A j \in Tasks!Recorded : ops'[j] \in TasksOperation
    BY <1>1, <1>3
  <2>2. \E f \in [Tasks!Recorded -> TasksOperation] : ops' = f
    BY <2>1
  <2>3. ops' \in [1 .. Len(ops) -> TasksOperation]
    BY <1>0, <2>2
  <2> QED BY <1>0, <2>3
<1>5. TasksTypeOK' /\ TasksAwaited'
  <2>1. Tasks!Resting \in TasksRequests
    BY DEF Tasks!Resting, TasksRequests
  <2> QED BY <1>0, <1>4, <2>1 DEF TasksTypeOK, TasksAwaited
<1>6. \A j \in Tasks!Recorded : TasksShape(j) /\ (ops'[j].status = "cancelled" => ops[j].status = "cancelled")
  BY <1>1, <1>2, <1>3
<1> QED BY <1>4, <1>5, <1>6, TasksQuietStep

\* What finish and accept make of a change.
LEMMA TasksSucceeds ==
    ASSUME TasksIInv, NEW k \in Tasks!Recorded, NEW rev \in Nat, TasksIsActive(k)
    PROVE  LET p == [ops[k] EXCEPT !.status = "succeeded", !.result = rev] IN
           /\ p \in TasksOperation /\ TasksStatic(ops[k], p) /\ TasksSettles(ops[k], p) /\ p.status = "succeeded" /\ p.kind = ops[k].kind
           /\ [ops EXCEPT ![k].status = "succeeded", ![k].result = rev] = [ops EXCEPT ![k] = p]
<1>1. ops[k] \in TasksOperation /\ "succeeded" \in TasksOutcomes
  BY TasksQueue DEF TasksIInv, TasksOutcomes
<1> QED BY <1>1 DEF TasksOperation, TasksStatic, TasksSettles, TasksIsActive, Tasks!Op

LEMMA TasksFinishInv ==
    ASSUME TasksIInv, NEW k \in Tasks!Recorded, NEW rev \in Nat, request # Tasks!Resting, k = request.op,
           Tasks!Finish(k, rev), request' = Tasks!Resting, ops[k].kind # "delete" => applied[k] > 0,
           UNCHANGED <<occurrence, server, revision, externals, applied, reviewed>>
    PROVE  TasksIInv'
<1> DEFINE t == Tasks!Op(k).task
           set == {j \in Tasks!Recorded : j > k /\ j \in Tasks!Of(t) /\ Tasks!Op(j).status = "queued" /\ Tasks!Op(k).kind # "delete" /\ Tasks!Rebases(k, j)}
           p == [ops[k] EXCEPT !.status = "succeeded", !.result = rev]
<1>0. TasksTypeOK /\ TasksIsActive(k) /\ t \in Tasks!Tasks /\ Tasks!Recorded = 1 .. Len(ops)
  BY TasksQueue, TasksOpParts DEF TasksIInv, TasksAwaited, TasksIsActive, Tasks!Active, Tasks!Op
<1>1. /\ p \in TasksOperation /\ TasksStatic(ops[k], p) /\ TasksSettles(ops[k], p) /\ p.status = "succeeded" /\ p.kind = ops[k].kind
      /\ [ops EXCEPT ![k].status = "succeeded", ![k].result = rev] = [ops EXCEPT ![k] = p]
  BY <1>0, TasksSucceeds
<1>2. ops' = [j \in Tasks!Recorded |-> IF j = k THEN p ELSE IF j \in set THEN [ops[j] EXCEPT !.base = rev] ELSE ops[j]]
  <2> DEFINE ended == [ops EXCEPT ![k] = p]
  <2>1. ops' = [j \in Tasks!Recorded |-> IF j \in set THEN [Tasks!Op(j) EXCEPT !.base = rev] ELSE ended[j]]
    BY <1>1 DEF Tasks!Finish
  <2>2. k \notin set /\ ended[k] = p /\ \A j \in Tasks!Recorded : j # k => ended[j] = ops[j]
    <3>1. k \notin set
      BY <1>0
    <3>2. ops \in Seq(TasksOperation)
      BY <1>0 DEF TasksTypeOK
    <3> HIDE DEF p
    <3> QED BY <3>1, <3>2 DEF Tasks!Recorded
  <2> HIDE DEF set, ended, p
  <2> QED BY <2>1, <2>2 DEF Tasks!Op
<1>3. known' \in [Tasks!Tasks -> Nat] /\ cached' \in [Tasks!Tasks -> Nat] /\ set \in SUBSET Tasks!Recorded
  BY <1>0 DEF Tasks!Finish, TasksTypeOK
<1>4. reviewed' \in Seq(Nat) /\ Len(reviewed') = Len(ops)
  BY <1>0 DEF TasksTypeOK
<1> HIDE DEF set, p
<1>5. /\ p.status = "succeeded" /\ p.kind # "delete" => applied[k] > 0
      /\ p.status \in {"queued", "failed", "conflict"} => applied[k] = 0
  BY <1>1
<1>6. p \in TasksOperation /\ TasksStatic(ops[k], p) /\ TasksSettles(ops[k], p)
  BY <1>1
<1>7. UNCHANGED <<occurrence, server, revision, externals, applied>> /\ set \in SUBSET Tasks!Recorded
  BY <1>3
<1> QED BY <1>2, <1>3, <1>4, <1>5, <1>6, <1>7, TasksSettled

\* The request ends without a result.
LEMMA TasksEndsInv ==
    ASSUME TasksIInv, request # Tasks!Resting, NEW status \in {"queued", "failed", "conflict", "review"}, Tasks!Ends(status),
           status # "review" => request.phase = "sent",
           UNCHANGED <<known, cached, occurrence, server, revision, externals, applied, reviewed>>
    PROVE  TasksIInv'
<1>0. TasksTypeOK /\ Tasks!Recorded = 1 .. Len(ops) /\ TasksAwaited
  BY TasksQueue DEF TasksIInv
<1>1. PICK k \in Tasks!Recorded : k = request.op
  BY <1>0 DEF TasksAwaited
<1>2. ops[k] \in TasksOperation /\ ops[k].status = "running" /\ TasksKnown(k) /\ (status # "review" => applied[k] = 0) /\ status \in TasksOutcomes
  BY <1>0, <1>1, TasksQueue DEF TasksAwaited, TasksIInv, Tasks!Op, TasksOutcomes, Tasks!Active
<1> DEFINE p == [ops[k] EXCEPT !.status = status]
<1>3. p \in TasksOperation /\ TasksStatic(ops[k], p) /\ p.status = status /\ p.attempts = ops[k].attempts
  BY <1>2, TasksWithStatus
<1>4. TasksSettles(ops[k], p)
  BY <1>2, <1>3, TasksOpParts DEF TasksSettles, Tasks!Active, TasksKnown, Tasks!Op
<1> HIDE DEF p
<1> PICK set \in SUBSET Tasks!Recorded : set = {}
  OBVIOUS
<1>5. ops' = [j \in Tasks!Recorded |-> IF j = k THEN p ELSE IF j \in set THEN [ops[j] EXCEPT !.base = 0] ELSE ops[j]]
  BY <1>1 DEF Tasks!Ends, Tasks!With, Tasks!Recorded, p
<1>6. request' = Tasks!Resting /\ 0 \in Nat
  BY DEF Tasks!Ends
<1>7. known' \in [Tasks!Tasks -> Nat] /\ cached' \in [Tasks!Tasks -> Nat] /\ reviewed' \in Seq(Nat) /\ Len(reviewed') = Len(ops)
  BY <1>0 DEF TasksTypeOK
<1>8. /\ p.status \in {"queued", "failed", "conflict"} => applied[k] = 0
      /\ p.status = "succeeded" /\ p.kind # "delete" => applied[k] > 0
  BY <1>2, <1>3
<1> QED BY <1>1, <1>3, <1>4, <1>5, <1>6, <1>7, <1>8, TasksSettled

\* Every change is kept, or waits for the review of the user.
LEMMA TasksParkedInv ==
    ASSUME TasksIInv, Tasks!Restart \/ Tasks!Restore
    PROVE  TasksIInv'
<1>0. /\ TasksTypeOK /\ Tasks!Recorded = 1 .. Len(ops) /\ \A j \in Tasks!Recorded : ops[j] \in TasksOperation
      /\ UNCHANGED <<known, cached, occurrence, server, revision, externals, applied, reviewed>> /\ request' = Tasks!Resting
  BY TasksQueue DEF TasksIInv, Tasks!Restart, Tasks!Restore, Tasks!Serial
<1>1. ASSUME NEW j \in Tasks!Recorded
      PROVE  /\ TasksShape(j) /\ ops'[j] \in TasksOperation /\ (ops'[j].status = "cancelled" => ops[j].status = "cancelled")
  <2>0. TasksKnown(j) /\ ops[j] \in TasksOperation
    BY <1>0 DEF TasksIInv
  <2>1. CASE ops'[j] = ops[j] /\ ops[j].status # "running"
    BY <2>0, <2>1 DEF TasksShape, TasksStatic, TasksStill
  <2>2. CASE ops'[j] = [ops[j] EXCEPT !.status = "review"] /\ ops[j].status = "running"
    <3>1. "review" \in TasksOutcomes
      BY DEF TasksOutcomes, Tasks!Active
    <3>2. ops'[j] \in TasksOperation /\ TasksStatic(ops[j], ops'[j]) /\ ops'[j].status = "review" /\ ops'[j].attempts = ops[j].attempts
      BY <2>0, <2>2, <3>1, TasksWithStatus
    <3>3. TasksSettles(ops[j], ops'[j])
      BY <2>0, <2>2, <3>2, TasksOpParts DEF TasksSettles, Tasks!Active, TasksKnown, Tasks!Op
    <3> QED BY <3>2, <3>3 DEF TasksShape
  <2>3. CASE ops'[j] = [ops[j] EXCEPT !.status = "review", !.error = "restored-write"] /\ ops[j].status \in Tasks!Active
    <3>1. "review" \in TasksOutcomes
      BY DEF TasksOutcomes, Tasks!Active
    <3>2. ops'[j] \in TasksOperation /\ TasksStatic(ops[j], ops'[j]) /\ ops'[j].status = "review" /\ ops'[j].attempts = ops[j].attempts
          /\ ops'[j].error = "restored-write"
      BY <2>0, <2>3, <3>1 DEF TasksOperation, TasksStatic
    <3>3. TasksSettles(ops[j], ops'[j])
      BY <2>3, <3>2 DEF TasksSettles
    <3> QED BY <3>2, <3>3 DEF TasksShape
  <2>4. CASE Tasks!Restart
    BY <2>1, <2>2, <2>4 DEF Tasks!Restart, Tasks!Recovered, Tasks!Op
  <2>5. CASE Tasks!Restore
    BY <2>1, <2>3, <2>5 DEF Tasks!Restore, Tasks!Op, Tasks!Active
  <2> QED BY <2>4, <2>5
<1>2. ops' \in Seq(TasksOperation) /\ Len(ops') = Len(ops)
  <2>1. \E f \in [Tasks!Recorded -> TasksOperation] : ops' = f
    BY <1>1 DEF Tasks!Restart, Tasks!Restore
  <2>2. ops' \in [1 .. Len(ops) -> TasksOperation]
    BY <1>0, <2>1
  <2> QED BY <1>0, <2>2
<1>3. TasksTypeOK' /\ TasksAwaited'
  <2>1. Tasks!Resting \in TasksRequests
    BY DEF Tasks!Resting, TasksRequests
  <2> QED BY <1>0, <1>2, <2>1 DEF TasksTypeOK, TasksAwaited
<1> QED BY <1>0, <1>1, <1>2, <1>3, TasksQuietStep

LEMMA TasksAnswerInv == ASSUME TasksIInv, Tasks!Answered \/ Tasks!RevisionRefused \/ Tasks!RateLimited \/ Tasks!Rejected \/ Tasks!Uncertain PROVE TasksIInv'
<1>0. TasksTypeOK /\ TasksAwaited
  BY DEF TasksIInv
<1>1. /\ request # Tasks!Resting /\ request' = Tasks!Resting /\ UNCHANGED <<occurrence, server, revision, externals, applied, reviewed>>
  BY DEF Tasks!Answered, Tasks!RevisionRefused, Tasks!RateLimited, Tasks!Rejected, Tasks!Uncertain, Tasks!Ends,
       Tasks!Resting
<1>2. PICK k \in Tasks!Recorded : k = request.op
  BY <1>0, <1>1 DEF TasksAwaited
<1>3. CASE Tasks!Answered
  <2>1. request.rev \in Nat /\ applied[k] > 0
    BY <1>0, <1>1, <1>2, <1>3 DEF Tasks!Answered, TasksAwaited, TasksTypeOK, TasksRequests
  <2>2. Tasks!Finish(k, request.rev)
    BY <1>2, <1>3 DEF Tasks!Answered
  <2> QED BY <1>1, <1>2, <2>1, <2>2, TasksFinishInv
<1>4. CASE Tasks!RevisionRefused
  <2>1. CASE Tasks!Op(k).kind = "delete" /\ server[Tasks!Op(k).task] = 0
    <3>1. Tasks!Finish(k, 0) /\ ops[k].kind = "delete" /\ 0 \in Nat
      BY <1>2, <1>4, <2>1 DEF Tasks!RevisionRefused, Tasks!Op
    <3> QED BY <1>1, <1>2, <3>1, TasksFinishInv
  <2>2. CASE ~(Tasks!Op(k).kind = "delete" /\ server[Tasks!Op(k).task] = 0)
    <3>1. Tasks!Ends("conflict") /\ request.phase = "sent" /\ UNCHANGED <<known, cached>>
      BY <1>1, <1>2, <1>4, <2>2 DEF Tasks!RevisionRefused, Tasks!Ends
    <3> QED BY <1>1, <3>1, TasksEndsInv
  <2> QED BY <2>1, <2>2
<1>5. CASE Tasks!RateLimited
  <2>1. PICK status \in {"queued", "failed"} : Tasks!Ends(status)
    BY <1>5 DEF Tasks!RateLimited
  <2>2. request.phase = "sent" /\ UNCHANGED <<known, cached>>
    BY <1>5 DEF Tasks!RateLimited
  <2> QED BY <1>1, <2>1, <2>2, TasksEndsInv
<1>6. CASE Tasks!Rejected
  <2>1. Tasks!Ends("failed") /\ request.phase = "sent" /\ UNCHANGED <<known, cached>>
    BY <1>6 DEF Tasks!Rejected
  <2> QED BY <1>1, <2>1, TasksEndsInv
<1>7. CASE Tasks!Uncertain
  <2>1. Tasks!Ends("review") /\ UNCHANGED <<known, cached>>
    BY <1>7 DEF Tasks!Uncertain
  <2> QED BY <1>1, <2>1, TasksEndsInv
<1> QED BY <1>3, <1>4, <1>5, <1>6, <1>7

(* Refreshing and resolving.                                               *)

\* A step that leaves the queue and its histories alone.
LEMMA TasksAsideInv ==
    ASSUME TasksIInv, TasksTypeOK', UNCHANGED <<ops, occurrence, request, applied>>
    PROVE  TasksIInv'
<1>1. Tasks!Recorded' = Tasks!Recorded
  BY DEF Tasks!Recorded
<1>2. TasksOccurs' /\ TasksAwaited' /\ Tasks!CarriedOutOnce' /\ Tasks!SuccessorIsDue'
  BY <1>1 DEF TasksIInv, TasksOccurs, TasksAwaited, Tasks!CarriedOutOnce, Tasks!SuccessorIsDue, Tasks!Op
<1>3. ASSUME NEW k \in Tasks!Recorded PROVE TasksDepends(k)' /\ TasksKnown(k)' /\ TasksAwaits(k)'
  BY DEF TasksIInv, TasksDepends, TasksKnown, TasksAwaits, Tasks!Op, TasksIsActive, Tasks!Unsent
<1> QED BY <1>1, <1>2, <1>3 DEF TasksIInv

LEMMA TasksRefreshedTyped ==
    ASSUME TasksTypeOK, Tasks!Refreshed
    PROVE  known' \in [Tasks!Tasks -> Nat] /\ cached' \in [Tasks!Tasks -> Nat]
BY DEF TasksTypeOK, Tasks!Refreshed

LEMMA TasksAsideStep == ASSUME TasksIInv, Tasks!Refresh \/ \E t \in Tasks!Tasks : Tasks!External(t) PROVE TasksIInv'
<1>0. TasksTypeOK
  BY DEF TasksIInv
<1>1. CASE Tasks!Refresh
  <2>1. Tasks!Refreshed /\ UNCHANGED <<ops, occurrence, request, server, revision, externals, applied, reviewed>>
    BY <1>1 DEF Tasks!Refresh
  <2>2. TasksTypeOK'
    BY <1>0, <2>1, TasksRefreshedTyped DEF TasksTypeOK
  <2> QED BY <2>1, <2>2, TasksAsideInv
<1>2. ASSUME NEW t \in Tasks!Tasks, Tasks!External(t) PROVE TasksIInv'
  <2>1. UNCHANGED <<ops, known, cached, occurrence, request, applied, reviewed>> /\ revision' = revision + 1
    BY <1>2 DEF Tasks!External
  <2>2. revision' \in Nat /\ server' \in [Tasks!Tasks -> Nat]
    BY <1>0, <1>2, <2>1 DEF Tasks!External, TasksTypeOK
  <2>3. externals' \in [Tasks!Tasks -> [count : Nat, last : Nat]]
    <3>1. externals' = [externals EXCEPT ![t] = [count |-> externals[t].count + 1, last |-> revision + 1]]
      BY <1>0, <1>2 DEF Tasks!External, TasksTypeOK
    <3>2. externals[t].count + 1 \in Nat /\ revision + 1 \in Nat
      BY <1>0 DEF TasksTypeOK
    <3> QED BY <1>0, <3>1, <3>2 DEF TasksTypeOK
  <2>4. TasksTypeOK'
    BY <1>0, <2>1, <2>2, <2>3 DEF TasksTypeOK
  <2> QED BY <2>1, <2>4, TasksAsideInv
<1> QED BY <1>1, <1>2

\* A history whose entries are replaced one by one.
LEMMA TasksRewritten ==
    ASSUME TasksTypeOK, NEW set \in SUBSET Tasks!Recorded, NEW value \in Nat,
           reviewed' = [j \in Tasks!Recorded |-> IF j \in set THEN value ELSE reviewed[j]]
    PROVE  reviewed' \in Seq(Nat) /\ Len(reviewed') = Len(ops)
<1>1. Tasks!Recorded = 1 .. Len(ops) /\ Len(ops) \in Nat /\ \A k \in Tasks!Recorded : reviewed[k] \in Nat
  BY TasksQueue
<1>2. reviewed' \in [1 .. Len(ops) -> Nat]
  BY <1>1
<1> QED BY <1>1, <1>2

LEMMA TasksRetryInv == ASSUME TasksIInv, NEW k \in Tasks!Recorded, Tasks!Retry(k) PROVE TasksIInv'
<1> DEFINE t == Tasks!Op(k).task
<1>0. /\ TasksTypeOK /\ Tasks!Recorded = 1 .. Len(ops) /\ ops[k] \in TasksOperation /\ TasksKnown(k) /\ t \in Tasks!Tasks
      /\ server \in [Tasks!Tasks -> Nat] /\ externals \in [Tasks!Tasks -> [count : Nat, last : Nat]]
  BY TasksQueue, TasksOpParts DEF TasksIInv, TasksTypeOK, Tasks!Op
<1>1. PICK base \in Nat : base = IF Tasks!Op(k).kind = "create" THEN Tasks!Op(k).base ELSE server[t]
  BY <1>0, TasksOpParts DEF Tasks!Op
<1>2. PICK set \in SUBSET Tasks!Recorded : set = {j \in Tasks!Recorded : j > k /\ j \in Tasks!Of(t) /\ Tasks!Op(j).status = "queued" /\ Tasks!Rebases(k, j)}
  OBVIOUS
<1>3. PICK p \in TasksOperation : p = [ops[k] EXCEPT !.status = "queued", !.base = base, !.error = "none"]
  BY <1>0 DEF TasksOperation, TasksOutcomes, Tasks!Active
<1>4. TasksStatic(ops[k], p) /\ TasksSettles(ops[k], p) /\ p.status = "queued"
  BY <1>0, <1>3 DEF TasksOperation, TasksStatic, TasksSettles, Tasks!Retry, Tasks!Unsettled, Tasks!Active, Tasks!Op
<1>5. applied[k] = 0
  BY <1>0 DEF Tasks!Retry, Tasks!Unsettled, TasksKnown
<1>6. ops' = [j \in Tasks!Recorded |-> IF j = k THEN p ELSE IF j \in set THEN [ops[j] EXCEPT !.base = base] ELSE ops[j]]
  BY <1>1, <1>2, <1>3 DEF Tasks!Retry, Tasks!Op
<1>7. /\ Tasks!Serial /\ request' = Tasks!Resting /\ UNCHANGED <<occurrence, server, revision, externals, applied>>
      /\ Tasks!Refreshed
  BY DEF Tasks!Retry, Tasks!Unsettled, Tasks!Serial
<1>8. known' \in [Tasks!Tasks -> Nat] /\ cached' \in [Tasks!Tasks -> Nat]
  BY <1>0, <1>7, TasksRefreshedTyped
<1>9. reviewed' \in Seq(Nat) /\ Len(reviewed') = Len(ops)
  <2>1. PICK other \in SUBSET Tasks!Recorded : other = set \cup {k}
    OBVIOUS
  <2>2. Tasks!Foreign(t) \in Nat
    BY <1>0 DEF Tasks!Foreign
  <2>3. reviewed' = [j \in Tasks!Recorded |-> IF j \in other THEN Tasks!Foreign(t) ELSE reviewed[j]]
    BY <1>2, <2>1 DEF Tasks!Retry
  <2> QED BY <1>0, <2>2, <2>3, TasksRewritten
<1>10. /\ p.status \in {"queued", "failed", "conflict"} => applied[k] = 0
       /\ p.status = "succeeded" /\ p.kind # "delete" => applied[k] > 0
  BY <1>4, <1>5
<1>11. Tasks!Serial \/ k = request.op
  BY <1>7
<1>12. request' = Tasks!Resting /\ UNCHANGED <<occurrence, server, revision, externals, applied>>
  BY <1>7
<1> QED BY <1>4, <1>6, <1>8, <1>9, <1>10, <1>11, <1>12, TasksSettled

LEMMA TasksAcceptInv == ASSUME TasksIInv, NEW k \in Tasks!Recorded, Tasks!Accept(k) PROVE TasksIInv'
<1> DEFINE t == Tasks!Op(k).task
<1>0. /\ TasksTypeOK /\ Tasks!Recorded = 1 .. Len(ops) /\ ops[k] \in TasksOperation /\ TasksKnown(k) /\ t \in Tasks!Tasks
      /\ server \in [Tasks!Tasks -> Nat] /\ externals \in [Tasks!Tasks -> [count : Nat, last : Nat]] /\ ops \in Seq(TasksOperation)
  BY TasksQueue, TasksOpParts DEF TasksIInv, TasksTypeOK, Tasks!Op
<1>1. PICK base \in Nat : base = server[t]
  BY <1>0
<1>2. PICK set \in SUBSET Tasks!Recorded :
          set = {j \in Tasks!Recorded : j > k /\ j \in Tasks!Of(t) /\ Tasks!Op(j).status = "queued" /\ Tasks!Op(k).kind # "delete" /\ Tasks!Rebases(k, j)}
  OBVIOUS
<1>3. PICK other \in SUBSET Tasks!Recorded :
          other = {j \in Tasks!Recorded : j > k /\ j \in Tasks!Of(t) /\ Tasks!Op(j).status = "queued" /\ Tasks!Rebases(k, j)}
  OBVIOUS
<1>4. TasksIsActive(k)
  BY DEF Tasks!Accept, Tasks!Unsettled, TasksIsActive, Tasks!Active
<1>5. PICK p :
          /\ p \in TasksOperation /\ TasksStatic(ops[k], p) /\ TasksSettles(ops[k], p) /\ p.status = "succeeded" /\ p.kind = ops[k].kind
          /\ [ops EXCEPT ![k].status = "succeeded", ![k].result = base] = [ops EXCEPT ![k] = p]
  <2> DEFINE r == [ops[k] EXCEPT !.status = "succeeded", !.result = base]
  <2>1. /\ r \in TasksOperation /\ TasksStatic(ops[k], r) /\ TasksSettles(ops[k], r) /\ r.status = "succeeded" /\ r.kind = ops[k].kind
        /\ [ops EXCEPT ![k].status = "succeeded", ![k].result = base] = [ops EXCEPT ![k] = r]
    BY <1>4, TasksSucceeds
  <2> HIDE DEF r
  <2> QED BY <2>1
<1>6. ops' = [j \in Tasks!Recorded |-> IF j = k THEN p ELSE IF j \in set THEN [ops[j] EXCEPT !.base = base] ELSE ops[j]]
  <2>1. PICK after : after = [ops EXCEPT ![k] = p]
    OBVIOUS
  <2>2. ops' = [j \in Tasks!Recorded |-> IF j \in set THEN [Tasks!Op(j) EXCEPT !.base = base] ELSE after[j]]
    BY <1>1, <1>2, <1>5, <2>1 DEF Tasks!Accept
  <2>3. k \notin set /\ after[k] = p /\ \A j \in Tasks!Recorded : j # k => after[j] = ops[j]
    BY <1>0, <1>2, <2>1 DEF Tasks!Recorded
  <2> QED BY <2>2, <2>3 DEF Tasks!Op
<1>7. Tasks!Serial /\ request' = Tasks!Resting /\ UNCHANGED <<occurrence, server, revision, externals, applied>>
  BY DEF Tasks!Accept, Tasks!Unsettled, Tasks!Serial
<1>8. known' \in [Tasks!Tasks -> Nat] /\ cached' \in [Tasks!Tasks -> Nat]
  <2>1. known \in [Tasks!Tasks -> Nat]
    BY <1>0 DEF TasksTypeOK
  <2> QED BY <1>0, <2>1 DEF Tasks!Accept
<1>9. reviewed' \in Seq(Nat) /\ Len(reviewed') = Len(ops)
  <2>1. Tasks!Foreign(t) \in Nat
    BY <1>0 DEF Tasks!Foreign
  <2>2. reviewed' = [j \in Tasks!Recorded |-> IF j \in other THEN Tasks!Foreign(t) ELSE reviewed[j]]
    BY <1>3 DEF Tasks!Accept
  <2> QED BY <1>0, <2>1, <2>2, TasksRewritten
<1>10. /\ p.status \in {"queued", "failed", "conflict"} => applied[k] = 0
       /\ p.status = "succeeded" /\ p.kind # "delete" => applied[k] > 0
  BY <1>5 DEF Tasks!Accept, Tasks!Op
<1>11. request' = Tasks!Resting /\ (Tasks!Serial \/ k = request.op) /\ UNCHANGED <<occurrence, server, revision, externals, applied>>
  BY <1>7
<1>12. p \in TasksOperation /\ TasksStatic(ops[k], p) /\ TasksSettles(ops[k], p)
  BY <1>5
<1> QED BY <1>6, <1>8, <1>9, <1>10, <1>11, <1>12, TasksSettled

LEMMA TasksStepInv == TasksIInv /\ [Tasks!Next]_tasksVars => TasksIInv'
<1> SUFFICES ASSUME TasksIInv, [Tasks!Next]_tasksVars PROVE TasksIInv'
  OBVIOUS
<1>1. CASE UNCHANGED tasksVars
  <2>1. UNCHANGED <<ops, occurrence, request, applied>> /\ TasksTypeOK'
    BY <1>1 DEF tasksVars, TasksIInv, TasksTypeOK
  <2> QED BY <2>1, TasksAsideInv
<1>2. ASSUME NEW t \in Tasks!Tasks, NEW kind \in {"update", "delete"}, Tasks!Edit(t, kind) PROVE TasksIInv'
  BY <1>2, TasksEditInv
<1>3. ASSUME NEW k, Tasks!Undo(k) \/ Tasks!Discard(k) \/ Tasks!Retry(k) \/ Tasks!Accept(k) PROVE TasksIInv'
  <2>1. k \in Tasks!Recorded
    BY <1>3 DEF Tasks!Undo, Tasks!Discard, Tasks!Retry, Tasks!Accept, Tasks!Unsettled
  <2> QED BY <1>3, <2>1, TasksUndoInv, TasksDiscardInv, TasksRetryInv, TasksAcceptInv
<1> QED BY <1>1, <1>2, <1>3, TasksCompleteInv, TasksSendInv, TasksProviderInv, TasksAnswerInv, TasksParkedInv,
     TasksAsideStep DEF Tasks!Next

LEMMA TasksSound == TasksIInv => Tasks!QueueIsSound
<1> SUFFICES ASSUME TasksIInv PROVE Tasks!QueueIsSound
  OBVIOUS
<1>1. ASSUME NEW k \in Tasks!Recorded, Tasks!Op(k).status = "queued", Tasks!Op(k).after # 0 PROVE Tasks!Op(Tasks!Op(k).after).status # "cancelled"
  BY <1>1 DEF TasksIInv, TasksAwaits, TasksIsActive, Tasks!Active
<1> QED BY <1>1 DEF TasksIInv, Tasks!QueueIsSound, Tasks!NoOrphan
(* No version is overwritten unseen.                                       *)

\* A revision that is known here is no newer than the last one given out; if it is
\* the provider's present one, the user is shown it, with all foreign changes.
TasksFresh(t) ==
    /\ server[t] <= revision /\ Tasks!Foreign(t) <= revision /\ known[t] <= revision
    /\ server[t] = 0 \/ server[t] >= Tasks!Foreign(t)
    /\ server[t] # 0 /\ known[t] = server[t] => cached[t] = server[t]
TasksRefers(k, x) == Tasks!Op(k).base = x \/ Tasks!Op(k).result = x
TasksDated(k) ==
    LET now == server[Tasks!Op(k).task] IN
    /\ Tasks!Op(k).base <= revision /\ Tasks!Op(k).result <= revision
    /\ now # 0 /\ TasksRefers(k, now) => cached[Tasks!Op(k).task] = now

\* A change that the provider would take has been made or repeated in view of what
\* others did, and so has one that an earlier such change will hand its result to.
TasksPresent(k) == Tasks!Op(k).base # 0 /\ Tasks!Op(k).base = server[Tasks!Op(k).task]
TasksReviewed(k) == reviewed[k] >= Tasks!Foreign(Tasks!Op(k).task)
TasksBased(k) == Tasks!Op(k).status \in {"queued", "running"} /\ Tasks!Op(k).kind # "create" /\ TasksPresent(k) => TasksReviewed(k)
TasksFollows(i, k) ==
    (/\ i < k /\ Tasks!Op(i).task = Tasks!Op(k).task /\ TasksIsActive(i) /\ Tasks!Op(i).kind # "create" /\ TasksPresent(i)
     /\ Tasks!Op(k).status = "queued" /\ Tasks!Op(k).kind # "create" /\ Tasks!Op(k).base = 0) => TasksReviewed(k)

\* While a request is out, no earlier change of its task waits.  When it was carried
\* out and others have not written since, what it hands its result to was made in
\* view of all they had done; when they have, nothing refers to their revision.
TasksHolds(k, j) == j > k /\ Tasks!Op(j).task = Tasks!Op(k).task /\ Tasks!Op(j).status = "queued" /\ Tasks!Op(j).kind # "create" /\ Tasks!Rebases(k, j)
TasksCarried(k) ==
    LET now == server[Tasks!Op(k).task] IN
    /\ request.rev <= revision
    /\ IF Tasks!Op(k).kind = "delete" THEN request.rev = 0 /\ now = 0 ELSE request.rev # 0
    /\ now # 0 /\ now # request.rev =>
           known[Tasks!Op(k).task] # now /\ \A j \in Tasks!Recorded : Tasks!Op(j).task = Tasks!Op(k).task => ~TasksRefers(j, now)
    /\ now = request.rev /\ Tasks!Op(k).kind # "delete" => \A j \in Tasks!Recorded : TasksHolds(k, j) => TasksReviewed(j)
TasksOut ==
         LET k == request.op IN
         request # Tasks!Resting =>
             /\ \A j \in Tasks!Recorded : j < k /\ Tasks!Op(j).task = Tasks!Op(k).task => ~TasksIsActive(j)
             /\ Tasks!Op(k).kind # "create" => Tasks!Op(k).base # 0
             /\ request.phase = "done" => TasksCarried(k)
TasksSeen ==
    /\ \A t \in Tasks!Tasks : TasksFresh(t)
    /\ \A k \in Tasks!Recorded : TasksDated(k) /\ TasksBased(k)
    /\ \A i, k \in Tasks!Recorded : TasksFollows(i, k)
    /\ TasksOut

\* The parts of the invariant for one change, with the types that arithmetic needs.
LEMMA TasksOfOne ==
    ASSUME TasksIInv, NEW k \in Tasks!Recorded
    PROVE  /\ k \in Nat /\ ops[k] \in TasksOperation /\ Tasks!Op(k).task \in Tasks!Tasks /\ Tasks!Op(k).base \in Nat /\ Tasks!Op(k).result \in Nat
           /\ reviewed[k] \in Nat /\ server[Tasks!Op(k).task] \in Nat /\ Tasks!Foreign(Tasks!Op(k).task) \in Nat /\ revision \in Nat
<1>1. TasksTypeOK /\ k \in Nat /\ ops[k] \in TasksOperation /\ reviewed[k] \in Nat
  BY TasksQueue DEF TasksIInv
<1>2. Tasks!Op(k).task \in Tasks!Tasks /\ Tasks!Op(k).base \in Nat /\ Tasks!Op(k).result \in Nat
  BY <1>1, TasksOpParts DEF Tasks!Op
<1> QED BY <1>1, <1>2 DEF TasksTypeOK, Tasks!Foreign

LEMMA TasksInitSeen == Tasks!Init => TasksSeen
<1> SUFFICES ASSUME Tasks!Init PROVE TasksSeen
  OBVIOUS
<1>1. Tasks!Recorded = {} /\ request = Tasks!Resting
  BY DEF Tasks!Init, Tasks!Recorded
<1>2. \A t \in Tasks!Tasks : TasksFresh(t)
  BY DEF Tasks!Init, TasksFresh, Tasks!Foreign, Tasks!Tasks
<1> QED BY <1>1, <1>2 DEF TasksSeen, TasksOut

\* A step that adds changes of what is shown, and gives some up.
LEMMA TasksAdded ==
    ASSUME TasksIInv, TasksSeen, Tasks!Serial, TasksIInv', UNCHANGED <<known, cached, request, server, revision, externals>>,
           \A k \in Tasks!Recorded : /\ k \in Tasks!Recorded' /\ reviewed'[k] = reviewed[k]
                                     /\ Tasks!Op(k)'.task = Tasks!Op(k).task /\ Tasks!Op(k)'.kind = Tasks!Op(k).kind
                                     /\ Tasks!Op(k)'.base = Tasks!Op(k).base /\ Tasks!Op(k)'.result = Tasks!Op(k).result
                                     /\ Tasks!Op(k)'.status = Tasks!Op(k).status \/ Tasks!Op(k)'.status = "cancelled",
           \A k \in Tasks!Recorded' \ Tasks!Recorded :
               /\ \A i \in Tasks!Recorded : i < k
               /\ Tasks!Op(k)'.result = 0
               /\ \/ Tasks!Op(k)'.base \in {0, known[Tasks!Op(k)'.task]}
                  \/ \E i \in Tasks!Recorded : Tasks!Op(i).task = Tasks!Op(k)'.task /\ Tasks!Op(k)'.base = Tasks!Op(i).result
               /\ Tasks!Op(k)'.kind # "create" => reviewed'[k] = Tasks!SeenNow(Tasks!Op(k)'.task)
               /\ \A i \in Tasks!Recorded' \ Tasks!Recorded : i < k => Tasks!Op(i)'.task # Tasks!Op(k)'.task
    PROVE  TasksSeen'
<1>0. \A t \in Tasks!Tasks : Tasks!Foreign(t)' = Tasks!Foreign(t)
  BY DEF Tasks!Foreign
<1>1. \A t \in Tasks!Tasks : TasksFresh(t)'
  BY <1>0 DEF TasksSeen, TasksFresh
<1>2. ASSUME NEW k \in Tasks!Recorded' \ Tasks!Recorded
      PROVE  /\ Tasks!Op(k)'.base <= revision /\ Tasks!Op(k)'.task \in Tasks!Tasks
             /\ LET now == server[Tasks!Op(k)'.task] IN now # 0 /\ Tasks!Op(k)'.base = now => cached[Tasks!Op(k)'.task] = now
  <2>1. Tasks!Op(k)'.task \in Tasks!Tasks /\ revision \in Nat
    <3>1. ops' \in Seq(TasksOperation) /\ Tasks!Recorded' = 1 .. Len(ops') /\ revision \in Nat
      BY DEF TasksIInv, TasksTypeOK, Tasks!Recorded
    <3>2. ops'[k] \in TasksOperation
      BY <1>2, <3>1
    <3> QED BY <3>1, <3>2, TasksOpParts DEF Tasks!Op
  <2>2. ASSUME NEW i \in Tasks!Recorded, Tasks!Op(i).task = Tasks!Op(k)'.task, Tasks!Op(k)'.base = Tasks!Op(i).result
        PROVE  /\ Tasks!Op(k)'.base <= revision
               /\ LET now == server[Tasks!Op(k)'.task] IN now # 0 /\ Tasks!Op(k)'.base = now => cached[Tasks!Op(k)'.task] = now
    BY <2>2 DEF TasksSeen, TasksDated, TasksRefers
  <2> QED BY <1>2, <2>1, <2>2 DEF TasksSeen, TasksFresh
<1>3. ASSUME NEW t \in Tasks!Tasks, server[t] # 0, cached[t] = server[t] PROVE Tasks!SeenNow(t) = Tasks!Foreign(t)
  <2>1. server[t] >= Tasks!Foreign(t)
    BY <1>3 DEF TasksSeen, TasksFresh
  <2> QED BY <1>3, <2>1 DEF Tasks!SeenNow
<1>4. ASSUME NEW k \in Tasks!Recorded' PROVE TasksDated(k)' /\ TasksBased(k)'
  <2>1. CASE k \in Tasks!Recorded
    <3>1. TasksDated(k) /\ TasksBased(k) /\ Tasks!Op(k).task \in Tasks!Tasks
      BY <2>1, TasksOfOne DEF TasksSeen
    <3> QED BY <1>0, <2>1, <3>1 DEF TasksDated, TasksRefers, TasksBased, TasksPresent, TasksReviewed
  <2>2. CASE k \notin Tasks!Recorded
    <3>1. Tasks!Op(k)'.task \in Tasks!Tasks /\ Tasks!Op(k)'.result = 0 /\ revision \in Nat
      BY <1>2, <2>2 DEF TasksIInv, TasksTypeOK
    <3>2. TasksDated(k)'
      BY <1>2, <2>2, <3>1 DEF TasksDated, TasksRefers
    <3>3. ASSUME Tasks!Op(k)'.kind # "create", TasksPresent(k)' PROVE TasksReviewed(k)'
      <4>1. reviewed'[k] = Tasks!SeenNow(Tasks!Op(k)'.task) /\ Tasks!SeenNow(Tasks!Op(k)'.task) = Tasks!Foreign(Tasks!Op(k)'.task)
        BY <1>2, <1>3, <2>2, <3>1, <3>3 DEF TasksPresent
      <4>2. Tasks!Foreign(Tasks!Op(k)'.task) \in Nat
        BY <3>1 DEF TasksIInv, TasksTypeOK, Tasks!Foreign
      <4> QED BY <1>0, <3>1, <4>1, <4>2 DEF TasksReviewed
    <3> QED BY <3>2, <3>3 DEF TasksBased
  <2> QED BY <2>1, <2>2
<1>5. ASSUME NEW i \in Tasks!Recorded', NEW k \in Tasks!Recorded' PROVE TasksFollows(i, k)'
  <2> SUFFICES ASSUME i < k, Tasks!Op(i)'.task = Tasks!Op(k)'.task, TasksIsActive(i)', Tasks!Op(i)'.kind # "create", TasksPresent(i)',
                      Tasks!Op(k)'.status = "queued", Tasks!Op(k)'.kind # "create", Tasks!Op(k)'.base = 0
               PROVE  TasksReviewed(k)'
    BY DEF TasksFollows
  <2>1. i \in Tasks!Recorded
    <3>1. i \notin Tasks!Recorded => k \notin Tasks!Recorded
      <4> SUFFICES ASSUME i \notin Tasks!Recorded, k \in Tasks!Recorded PROVE FALSE
        OBVIOUS
      <4>1. k < i /\ i \in Nat /\ k \in Nat
        BY TasksOfOne DEF TasksIInv, TasksTypeOK, Tasks!Recorded
      <4> QED BY <4>1
    <3> QED BY <3>1
  <2>2. Tasks!Op(i).task = Tasks!Op(k)'.task /\ TasksIsActive(i) /\ Tasks!Op(i).kind # "create" /\ TasksPresent(i)
    BY <2>1 DEF TasksIsActive, TasksPresent, Tasks!Active
  <2>3. CASE k \in Tasks!Recorded
    <3>1. TasksFollows(i, k) /\ Tasks!Op(k).status = "queued" /\ Tasks!Op(k).kind # "create" /\ Tasks!Op(k).base = 0 /\ Tasks!Op(k).task \in Tasks!Tasks
      BY <2>1, <2>3, TasksOfOne DEF TasksSeen
    <3>2. TasksReviewed(k)
      BY <2>2, <2>3, <3>1 DEF TasksFollows
    <3> QED BY <1>0, <2>3, <3>1, <3>2 DEF TasksReviewed
  <2>4. CASE k \notin Tasks!Recorded
    <3>1. TasksDated(i) /\ Tasks!Op(i).task \in Tasks!Tasks
      BY <2>1, TasksOfOne DEF TasksSeen
    <3>2. server[Tasks!Op(i).task] # 0 /\ cached[Tasks!Op(i).task] = server[Tasks!Op(i).task]
      BY <2>2, <3>1 DEF TasksPresent, TasksDated, TasksRefers
    <3>3. reviewed'[k] = Tasks!SeenNow(Tasks!Op(k)'.task) /\ Tasks!SeenNow(Tasks!Op(k)'.task) = Tasks!Foreign(Tasks!Op(k)'.task)
      BY <1>3, <2>2, <2>4, <3>1, <3>2
    <3>4. Tasks!Foreign(Tasks!Op(k)'.task) \in Nat
      BY <2>2, <3>1 DEF TasksIInv, TasksTypeOK, Tasks!Foreign
    <3> QED BY <1>0, <2>2, <3>1, <3>3, <3>4 DEF TasksReviewed
  <2> QED BY <2>3, <2>4
<1>6. TasksOut'
  BY DEF TasksOut, Tasks!Serial
<1> QED BY <1>1, <1>4, <1>5, <1>6 DEF TasksSeen

\* What Record keeps and adds of what the user had seen.
LEMMA TasksShows ==
    ASSUME TasksTypeOK, NEW s \in Seq(Nat), reviewed' = reviewed \o s
    PROVE  /\ \A k \in Tasks!Recorded : reviewed'[k] = reviewed[k]
           /\ \A i \in 1 .. Len(s) : reviewed'[Len(ops) + i] = s[i]
<1>1. reviewed \in Seq(Nat) /\ Len(reviewed) = Len(ops) /\ Tasks!Recorded = 1 .. Len(ops) /\ Len(ops) \in Nat
  BY TasksQueue DEF TasksTypeOK
<1>2. \A i \in 1 .. Len(reviewed) + Len(s) :
         (reviewed \o s)[i] = IF i <= Len(reviewed) THEN reviewed[i] ELSE s[i - Len(reviewed)]
  BY <1>1, ConcatProperties
<1>3. ASSUME NEW k \in Tasks!Recorded PROVE reviewed'[k] = reviewed[k]
  <2>1. k \in 1 .. Len(reviewed) + Len(s) /\ k <= Len(reviewed)
    BY <1>1
  <2> QED BY <1>2, <2>1
<1>4. ASSUME NEW i \in 1 .. Len(s) PROVE reviewed'[Len(ops) + i] = s[i]
  <2>1. Len(ops) + i \in 1 .. Len(reviewed) + Len(s) /\ ~(Len(ops) + i <= Len(reviewed)) /\ Len(ops) + i - Len(reviewed) = i
    BY <1>1
  <2> QED BY <1>2, <2>1
<1> QED BY <1>3, <1>4

LEMMA TasksEditSeen ==
    ASSUME TasksIInv, TasksSeen, TasksIInv', NEW t \in Tasks!Tasks, NEW kind \in {"update", "delete"}, Tasks!Edit(t, kind)
    PROVE  TasksSeen'
<1> DEFINE c == Tasks!Change(t, kind, known[t], 0)
           n == Len(ops) + 1
<1>1. /\ TasksTypeOK /\ Tasks!Serial /\ Tasks!Recorded = 1 .. Len(ops) /\ Len(ops) \in Nat /\ ops \in Seq(TasksOperation)
      /\ UNCHANGED <<known, cached, request, server, revision, externals>>
      /\ ops' = Append(ops, c) /\ reviewed' = reviewed \o <<Tasks!SeenNow(t)>>
  BY TasksQueue DEF TasksIInv, Tasks!Edit, Tasks!Record, TasksTypeOK
<1>2. known[t] \in Nat /\ c.task = t /\ c.base = known[t] /\ c.result = 0 /\ c \in TasksOperation
  BY <1>1, TasksAChange DEF TasksTypeOK, Tasks!Change, TasksKinds
<1>3. Tasks!SeenNow(t) \in Nat
  BY <1>1 DEF Tasks!SeenNow, Tasks!Foreign, TasksTypeOK
<1> HIDE DEF c
<1>4. /\ \A k \in Tasks!Recorded : k \in Tasks!Recorded' /\ ops'[k] = ops[k]
      /\ ops'[n] = c /\ \A k \in Tasks!Recorded' \ Tasks!Recorded : k = n
  BY <1>1, <1>2 DEF Tasks!Recorded
<1>5. (\A k \in Tasks!Recorded : reviewed'[k] = reviewed[k]) /\ reviewed'[n] = Tasks!SeenNow(t)
  <2>1. <<Tasks!SeenNow(t)>> \in Seq(Nat) /\ Len(<<Tasks!SeenNow(t)>>) = 1 /\ <<Tasks!SeenNow(t)>>[1] = Tasks!SeenNow(t)
    BY <1>3
  <2>2. \A i \in 1 .. Len(<<Tasks!SeenNow(t)>>) : reviewed'[Len(ops) + i] = <<Tasks!SeenNow(t)>>[i]
    BY <1>1, <2>1, TasksShows
  <2>3. 1 \in 1 .. Len(<<Tasks!SeenNow(t)>>)
    BY <2>1
  <2> QED BY <1>1, <2>1, <2>2, <2>3, TasksShows
<1>6. \A i \in Tasks!Recorded : i < n
  BY <1>1
<1>7. \A i \in Tasks!Recorded' \ Tasks!Recorded : ~(i < n)
  BY <1>1, <1>4
<1> QED BY <1>1, <1>2, <1>4, <1>5, <1>6, <1>7, TasksAdded DEF Tasks!Op

LEMMA TasksCompleteSeen == ASSUME TasksIInv, TasksSeen, TasksIInv', Tasks!Complete PROVE TasksSeen'
<1> DEFINE n == Len(ops) + 1
           fresh == occurrence = Tasks!NoOccurrence \/ Tasks!Op(occurrence.creation).status = "cancelled"
           first == Tasks!Change(1, "update", known[1], 0)
           second == Tasks!Change(2, "create", 0, n)
           new == IF fresh THEN <<first, second>> ELSE <<first>>
           shows == [i \in 1..Len(new) |-> Tasks!SeenNow(1)]
<1>1. /\ TasksTypeOK /\ Tasks!Serial /\ Tasks!Recorded = 1 .. Len(ops) /\ Len(ops) \in Nat /\ ops \in Seq(TasksOperation)
      /\ UNCHANGED <<known, cached, request, server, revision, externals>>
      /\ ops' = ops \o new /\ reviewed' = reviewed \o shows
  BY TasksQueue DEF TasksIInv, Tasks!Complete, Tasks!Record, TasksTypeOK
<1>2. /\ first \in TasksOperation /\ first.task = 1 /\ first.base = known[1] /\ first.result = 0 /\ 1 \in Tasks!Tasks
      /\ second \in TasksOperation /\ second.task = 2 /\ second.base = 0 /\ second.result = 0 /\ second.kind = "create"
  <2>1. 1 \in Tasks!Tasks /\ 2 \in Tasks!Tasks /\ "update" \in TasksKinds /\ "create" \in TasksKinds /\ 0 \in Nat /\ n \in Nat /\ known[1] \in Nat
    BY <1>1 DEF Tasks!Tasks, TasksKinds, TasksTypeOK
  <2>2. first \in TasksOperation /\ second \in TasksOperation
    BY <2>1, TasksAChange
  <2> QED BY <2>1, <2>2 DEF Tasks!Change
<1> HIDE DEF first, second, fresh
<1>3. /\ new \in Seq(TasksOperation) /\ Len(new) \in {1, 2} /\ new[1] = first /\ (Len(new) = 2 => new[2] = second)
  BY <1>2
<1>4. Tasks!SeenNow(1) \in Nat
  BY <1>1, <1>2 DEF Tasks!SeenNow, Tasks!Foreign, TasksTypeOK
<1>5. shows \in Seq(Nat) /\ Len(shows) = Len(new) /\ \A i \in 1 .. Len(new) : shows[i] = Tasks!SeenNow(1)
  BY <1>3, <1>4
<1> HIDE DEF new, shows
<1>6. /\ \A k \in Tasks!Recorded : reviewed'[k] = reviewed[k]
      /\ \A i \in 1 .. Len(new) : reviewed'[Len(ops) + i] = Tasks!SeenNow(1)
  BY <1>1, <1>5, TasksShows
<1>7. /\ \A i \in 1 .. Len(ops) + Len(new) : ops'[i] = IF i <= Len(ops) THEN ops[i] ELSE new[i - Len(ops)]
      /\ Tasks!Recorded' = 1 .. Len(ops) + Len(new)
  BY <1>1, <1>3, ConcatProperties DEF Tasks!Recorded
<1>8. \A k \in Tasks!Recorded : k \in Tasks!Recorded' /\ ops'[k] = ops[k]
  BY <1>1, <1>3, <1>7
<1>9. ASSUME NEW k \in Tasks!Recorded' \ Tasks!Recorded
      PROVE  \/ k = n /\ ops'[k] = first /\ reviewed'[k] = Tasks!SeenNow(1)
             \/ k = n + 1 /\ ops'[k] = second
  <2>1. k - Len(ops) \in 1 .. Len(new) /\ ~(k <= Len(ops)) /\ k \in 1 .. Len(ops) + Len(new)
    BY <1>1, <1>3, <1>7, <1>9
  <2>2. ops'[k] = new[k - Len(ops)]
    BY <1>7, <2>1
  <2>3. k - Len(ops) = 1 \/ (k - Len(ops) = 2 /\ Len(new) = 2)
    <3>1. Len(ops) \in Nat /\ Len(new) \in {1, 2}
      BY <1>1, <1>3
    <3>2. \A l, m \in Nat : (m \in {1, 2} /\ k \in 1 .. l + m /\ k - l \in 1 .. m) => k - l = 1 \/ (k - l = 2 /\ m = 2)
      OBVIOUS
    <3> QED BY <2>1, <3>1, <3>2
  <2>4. CASE k - Len(ops) = 1
    <3>1. k = n /\ k = Len(ops) + 1 /\ 1 \in 1 .. Len(new)
      BY <1>1, <1>3, <2>1, <2>4
    <3> HIDE DEF n
    <3> QED BY <1>3, <1>6, <2>2, <2>4, <3>1
  <2>5. CASE k - Len(ops) = 2 /\ Len(new) = 2
    <3>1. k = n + 1
      BY <1>1, <2>1, <2>5
    <3> HIDE DEF n
    <3> QED BY <1>3, <2>2, <2>5, <3>1
  <2> QED BY <2>3, <2>4, <2>5
<1>10. n \in Nat /\ \A i \in Tasks!Recorded : i < n /\ i < n + 1
  BY <1>1
<1> HIDE DEF n
<1>11. \A k \in Tasks!Recorded : /\ k \in Tasks!Recorded' /\ reviewed'[k] = reviewed[k] /\ Tasks!Op(k)' = Tasks!Op(k)
  BY <1>6, <1>8 DEF Tasks!Op
<1>12. ASSUME NEW k \in Tasks!Recorded' \ Tasks!Recorded
       PROVE  /\ \A i \in Tasks!Recorded : i < k
              /\ Tasks!Op(k)'.result = 0
              /\ Tasks!Op(k)'.base \in {0, known[Tasks!Op(k)'.task]}
              /\ Tasks!Op(k)'.kind # "create" => reviewed'[k] = Tasks!SeenNow(Tasks!Op(k)'.task)
              /\ \A i \in Tasks!Recorded' \ Tasks!Recorded : i < k => Tasks!Op(i)'.task # Tasks!Op(k)'.task
  <2>1. CASE k = n /\ ops'[k] = first /\ reviewed'[k] = Tasks!SeenNow(1)
    <3>1. \A i \in Tasks!Recorded' \ Tasks!Recorded : ~(i < k)
      BY <1>9, <1>10, <2>1
    <3> QED BY <1>2, <1>10, <2>1, <3>1 DEF Tasks!Op
  <2>2. CASE k = n + 1 /\ ops'[k] = second
    <3>1. \A i \in Tasks!Recorded' \ Tasks!Recorded : i < k => ops'[i] = first
      BY <1>9, <1>10, <2>2
    <3> QED BY <1>2, <1>10, <2>2, <3>1 DEF Tasks!Op
  <2> QED BY <1>9, <2>1, <2>2
<1> QED BY <1>1, <1>11, <1>12, TasksAdded

\* What cancelling leaves of a change.
LEMMA TasksSpared ==
    ASSUME TasksIInv, NEW set \in SUBSET Tasks!Recorded, \A k \in set : Tasks!Op(k).status # "succeeded"
    PROVE  LET p == Tasks!CancelAll(set) IN
           /\ p \in Seq(TasksOperation) /\ Len(p) = Len(ops) /\ DOMAIN p = Tasks!Recorded
           /\ \A k \in Tasks!Recorded : /\ p[k].task = Tasks!Op(k).task /\ p[k].kind = Tasks!Op(k).kind
                                        /\ p[k].base = Tasks!Op(k).base /\ p[k].result = Tasks!Op(k).result
                                        /\ p[k].status = Tasks!Op(k).status \/ p[k].status = "cancelled"
<1>1. \A k \in Tasks!Recorded : ops[k] \in TasksOperation
  BY TasksQueue DEF TasksIInv
<1>2. ASSUME NEW k \in Tasks!Recorded
      PROVE  LET p == Tasks!CancelAll(set)[k] IN
             /\ p.task = Tasks!Op(k).task /\ p.kind = Tasks!Op(k).kind /\ p.base = Tasks!Op(k).base /\ p.result = Tasks!Op(k).result
             /\ p.status = Tasks!Op(k).status \/ p.status = "cancelled"
  <2>1. CASE k \in set
    <3>1. Tasks!CancelAll(set)[k] = [Tasks!Op(k) EXCEPT !.status = "cancelled"]
      BY <2>1 DEF Tasks!CancelAll
    <3>2. Tasks!Op(k) \in TasksOperation
      BY <1>1 DEF Tasks!Op
    <3> QED BY <3>1, <3>2 DEF TasksOperation
  <2>2. CASE k \notin set
    BY <2>2 DEF Tasks!CancelAll
  <2> QED BY <2>1, <2>2
<1> QED BY <1>2, TasksCancelling

\* What an undo or a discard gives up has not succeeded.
LEMMA TasksGivenUp ==
    ASSUME TasksIInv, NEW k \in Tasks!Recorded
    PROVE  /\ Tasks!SuccessorGoes(k) \in SUBSET Tasks!Recorded /\ \A j \in Tasks!SuccessorGoes(k) : Tasks!Op(j).status # "succeeded"
           /\ Tasks!WithCreation(k) \in SUBSET Tasks!Recorded /\ \A j \in Tasks!WithCreation(k) : Tasks!Op(j).status # "succeeded"
BY DEF Tasks!SuccessorGoes, Tasks!WithCreation, Tasks!Unsent

LEMMA TasksUndoSeen == ASSUME TasksIInv, TasksSeen, TasksIInv', NEW k \in Tasks!Recorded, Tasks!Undo(k) PROVE TasksSeen'
<1> DEFINE here == {k} \cup Tasks!SuccessorGoes(k) \cup (IF Tasks!Op(k).kind = "create" THEN Tasks!WithCreation(k) ELSE {})
           n == Len(ops) + 1
<1>1. /\ TasksTypeOK /\ Tasks!Serial /\ Tasks!Recorded = 1 .. Len(ops) /\ Len(ops) \in Nat
      /\ UNCHANGED <<known, cached, request, server, revision, externals>>
  BY TasksQueue DEF TasksIInv, Tasks!Undo
<1>2. CASE /\ Tasks!Op(k).status = "queued" /\ ops' = Tasks!CancelAll(here) /\ UNCHANGED <<applied, reviewed>>
  <2>1. here \in SUBSET Tasks!Recorded /\ \A j \in here : Tasks!Op(j).status # "succeeded"
    BY <1>2, TasksGivenUp
  <2> HIDE DEF here
  <2>2. /\ Tasks!Recorded' = Tasks!Recorded
        /\ \A j \in Tasks!Recorded : /\ Tasks!Op(j)'.task = Tasks!Op(j).task /\ Tasks!Op(j)'.kind = Tasks!Op(j).kind
                                     /\ Tasks!Op(j)'.base = Tasks!Op(j).base /\ Tasks!Op(j)'.result = Tasks!Op(j).result
                                     /\ Tasks!Op(j)'.status = Tasks!Op(j).status \/ Tasks!Op(j)'.status = "cancelled"
    BY <1>2, <2>1, TasksSpared DEF Tasks!Op, Tasks!Recorded
  <2> QED BY <1>1, <1>2, <2>2, TasksAdded
<1>3. ASSUME Tasks!Op(k).status = "succeeded", NEW kind \in TasksKinds,
             Tasks!Record(<<k>>, <<Tasks!SeenNow(Tasks!Op(k).task)>>),
             ops' = Append(Tasks!CancelAll(Tasks!SuccessorGoes(k)), [Tasks!Change(Tasks!Op(k).task, kind, Tasks!Op(k).result, 0) EXCEPT !.undoOf = k])
      PROVE  TasksSeen'
  <2> DEFINE c == [Tasks!Change(Tasks!Op(k).task, kind, Tasks!Op(k).result, 0) EXCEPT !.undoOf = k]
             set == Tasks!SuccessorGoes(k)
             t == Tasks!Op(k).task
  <2>1. c \in TasksOperation /\ c.task = t /\ c.base = Tasks!Op(k).result /\ c.result = 0 /\ t \in Tasks!Tasks
    <3>1. t \in Tasks!Tasks /\ Tasks!Op(k).result \in Nat /\ k \in Nat
      BY TasksOfOne
    <3>2. Tasks!Change(t, kind, Tasks!Op(k).result, 0) \in TasksOperation
      BY <3>1, TasksAChange
    <3>3. c.task = t /\ c.base = Tasks!Op(k).result /\ c.result = 0
      BY DEF Tasks!Change
    <3>4. c \in TasksOperation
      BY <3>1, <3>2 DEF TasksOperation
    <3> QED BY <3>1, <3>3, <3>4
  <2>2. set \in SUBSET Tasks!Recorded /\ \A j \in set : Tasks!Op(j).status # "succeeded"
    BY TasksGivenUp
  <2> HIDE DEF c, set
  <2>3. /\ Tasks!CancelAll(set) \in Seq(TasksOperation) /\ Len(Tasks!CancelAll(set)) = Len(ops)
        /\ \A j \in Tasks!Recorded : /\ Tasks!CancelAll(set)[j].task = Tasks!Op(j).task /\ Tasks!CancelAll(set)[j].kind = Tasks!Op(j).kind
                                     /\ Tasks!CancelAll(set)[j].base = Tasks!Op(j).base /\ Tasks!CancelAll(set)[j].result = Tasks!Op(j).result
                                     /\ Tasks!CancelAll(set)[j].status = Tasks!Op(j).status \/ Tasks!CancelAll(set)[j].status = "cancelled"
    BY <2>2, TasksSpared
  <2>4. ops' = Append(Tasks!CancelAll(set), c)
    BY <1>3 DEF set, c
  <2>5. /\ \A j \in Tasks!Recorded : j \in Tasks!Recorded' /\ Tasks!Op(j)' = Tasks!CancelAll(set)[j]
        /\ ops'[n] = c /\ \A j \in Tasks!Recorded' \ Tasks!Recorded : j = n
    <3>1. /\ ops' \in Seq(TasksOperation) /\ Len(ops') = Len(ops) + 1 /\ ops'[Len(ops) + 1] = c
          /\ \A j \in Tasks!Recorded : ops'[j] = Tasks!CancelAll(set)[j]
      BY <1>1, <2>1, <2>3, <2>4
    <3>2. Tasks!Recorded' = 1 .. Len(ops) + 1
      BY <3>1 DEF Tasks!Recorded
    <3> QED BY <1>1, <3>1, <3>2 DEF Tasks!Op
  <2>6. (\A j \in Tasks!Recorded : reviewed'[j] = reviewed[j]) /\ reviewed'[n] = Tasks!SeenNow(t)
    <3>1. Tasks!SeenNow(t) \in Nat
      BY <1>1, <2>1 DEF Tasks!SeenNow, Tasks!Foreign, TasksTypeOK
    <3>2. <<Tasks!SeenNow(t)>> \in Seq(Nat) /\ Len(<<Tasks!SeenNow(t)>>) = 1 /\ <<Tasks!SeenNow(t)>>[1] = Tasks!SeenNow(t)
      BY <3>1
    <3>3. reviewed' = reviewed \o <<Tasks!SeenNow(t)>>
      BY <1>3 DEF Tasks!Record
    <3>4. \A i \in 1 .. Len(<<Tasks!SeenNow(t)>>) : reviewed'[Len(ops) + i] = <<Tasks!SeenNow(t)>>[i]
      BY <1>1, <3>2, <3>3, TasksShows
    <3>5. 1 \in 1 .. Len(<<Tasks!SeenNow(t)>>)
      BY <3>2
    <3> QED BY <1>1, <3>2, <3>3, <3>4, <3>5, TasksShows
  <2>7. (\A i \in Tasks!Recorded : i < n) /\ \A i \in Tasks!Recorded' \ Tasks!Recorded : ~(i < n)
    BY <1>1, <2>5
  <2> HIDE DEF n
  <2>8. \A j \in Tasks!Recorded : /\ j \in Tasks!Recorded' /\ reviewed'[j] = reviewed[j]
                                  /\ Tasks!Op(j)'.task = Tasks!Op(j).task /\ Tasks!Op(j)'.kind = Tasks!Op(j).kind
                                  /\ Tasks!Op(j)'.base = Tasks!Op(j).base /\ Tasks!Op(j)'.result = Tasks!Op(j).result
                                  /\ Tasks!Op(j)'.status = Tasks!Op(j).status \/ Tasks!Op(j)'.status = "cancelled"
    BY <2>3, <2>5, <2>6
  <2>9. ASSUME NEW j \in Tasks!Recorded' \ Tasks!Recorded
        PROVE  /\ \A i \in Tasks!Recorded : i < j
               /\ Tasks!Op(j)'.result = 0
               /\ \E i \in Tasks!Recorded : Tasks!Op(i).task = Tasks!Op(j)'.task /\ Tasks!Op(j)'.base = Tasks!Op(i).result
               /\ Tasks!Op(j)'.kind # "create" => reviewed'[j] = Tasks!SeenNow(Tasks!Op(j)'.task)
               /\ \A i \in Tasks!Recorded' \ Tasks!Recorded : i < j => Tasks!Op(i)'.task # Tasks!Op(j)'.task
    <3>1. j = n /\ Tasks!Op(j)' = c
      BY <2>5 DEF Tasks!Op
    <3> QED BY <2>1, <2>6, <2>7, <3>1
  <2> QED BY <1>1, <2>8, <2>9, TasksAdded
<1>4. CASE Tasks!Op(k).status = "queued"
  BY <1>2, <1>4 DEF Tasks!Undo
<1>5. CASE Tasks!Op(k).status = "succeeded"
  <2> DEFINE kind == CASE Tasks!Op(k).kind = "create" -> "delete" [] Tasks!Op(k).kind = "delete" -> "create" [] OTHER -> "update"
  <2>1. kind \in TasksKinds
    BY DEF TasksKinds
  <2>2. Tasks!Record(<<k>>, <<Tasks!SeenNow(Tasks!Op(k).task)>>) /\
        ops' = Append(Tasks!CancelAll(Tasks!SuccessorGoes(k)), [Tasks!Change(Tasks!Op(k).task, kind, Tasks!Op(k).result, 0) EXCEPT !.undoOf = k])
    BY <1>5 DEF Tasks!Undo
  <2> HIDE DEF kind
  <2> QED BY <1>3, <1>5, <2>1, <2>2
<1> QED BY <1>4, <1>5 DEF Tasks!Undo

LEMMA TasksDiscardSeen == ASSUME TasksIInv, TasksSeen, TasksIInv', NEW k \in Tasks!Recorded, Tasks!Discard(k) PROVE TasksSeen'
<1> DEFINE later == {j \in Tasks!ActiveOf(Tasks!Op(k).task) : j >= k}
           completes == \E j \in later : Tasks!CompletionOf(j)
           creations == {j \in later : Tasks!Op(j).kind = "create"} \cup (IF completes THEN {occurrence.creation} ELSE {})
           set == later \cup UNION {Tasks!WithCreation(c) : c \in creations}
<1>1. /\ TasksTypeOK /\ Tasks!Serial /\ UNCHANGED <<known, cached, request, server, revision, externals, reviewed>>
      /\ ops' = Tasks!CancelAll(set)
  BY DEF TasksIInv, Tasks!Discard, Tasks!Unsettled
<1>2. set \in SUBSET Tasks!Recorded /\ \A j \in set : Tasks!Op(j).status # "succeeded"
  <2>1. \A c \in creations : Tasks!WithCreation(c) \in SUBSET Tasks!Recorded /\ \A j \in Tasks!WithCreation(c) : Tasks!Op(j).status # "succeeded"
    BY DEF Tasks!WithCreation, Tasks!Unsent
  <2>2. later \in SUBSET Tasks!Recorded /\ \A j \in later : Tasks!Op(j).status # "succeeded"
    BY DEF Tasks!ActiveOf, Tasks!Of, Tasks!Active
  <2> QED BY <2>1, <2>2
<1> HIDE DEF set
<1>3. /\ Tasks!Recorded' = Tasks!Recorded
      /\ \A j \in Tasks!Recorded : /\ Tasks!Op(j)'.task = Tasks!Op(j).task /\ Tasks!Op(j)'.kind = Tasks!Op(j).kind
                                   /\ Tasks!Op(j)'.base = Tasks!Op(j).base /\ Tasks!Op(j)'.result = Tasks!Op(j).result
                                   /\ Tasks!Op(j)'.status = Tasks!Op(j).status \/ Tasks!Op(j)'.status = "cancelled"
  BY <1>1, <1>2, TasksSpared DEF Tasks!Op, Tasks!Recorded
<1> QED BY <1>1, <1>3, TasksAdded

\* A step that gives the changes other statuses only.
LEMMA TasksTurned ==
    ASSUME TasksIInv, TasksSeen, Tasks!Recorded' = Tasks!Recorded, UNCHANGED <<known, cached, server, revision, externals, reviewed>>, TasksOut',
           \A k \in Tasks!Recorded :
               /\ Tasks!Op(k)'.task = Tasks!Op(k).task /\ Tasks!Op(k)'.kind = Tasks!Op(k).kind
               /\ Tasks!Op(k)'.base = Tasks!Op(k).base /\ Tasks!Op(k)'.result = Tasks!Op(k).result
               /\ TasksIsActive(k)' => TasksIsActive(k)
               /\ Tasks!Op(k)'.status \in {"queued", "running"} => Tasks!Op(k).status \in {"queued", "running"}
               /\ Tasks!Op(k)'.status = "queued" => Tasks!Op(k).status = "queued" \/ Tasks!Op(k).kind = "create" \/ Tasks!Op(k).base # 0
    PROVE  TasksSeen'
<1>0. \A t \in Tasks!Tasks : Tasks!Foreign(t)' = Tasks!Foreign(t)
  BY DEF Tasks!Foreign
<1>1. \A t \in Tasks!Tasks : TasksFresh(t)'
  BY <1>0 DEF TasksSeen, TasksFresh
<1>2. ASSUME NEW k \in Tasks!Recorded PROVE TasksDated(k)' /\ TasksBased(k)'
  <2>1. TasksDated(k) /\ TasksBased(k) /\ Tasks!Op(k).task \in Tasks!Tasks
    BY TasksOfOne DEF TasksSeen
  <2> QED BY <1>0, <2>1 DEF TasksDated, TasksRefers, TasksBased, TasksPresent, TasksReviewed
<1>3. ASSUME NEW i \in Tasks!Recorded, NEW k \in Tasks!Recorded PROVE TasksFollows(i, k)'
  <2>1. TasksFollows(i, k) /\ Tasks!Op(k).task \in Tasks!Tasks
    BY TasksOfOne DEF TasksSeen
  <2> QED BY <1>0, <2>1 DEF TasksFollows, TasksPresent, TasksReviewed
<1> QED BY <1>1, <1>2, <1>3 DEF TasksSeen

LEMMA TasksSendSeen == ASSUME TasksIInv, TasksSeen, TasksIInv', Tasks!Send PROVE TasksSeen'
<1>1. /\ TasksTypeOK /\ Tasks!Serial /\ Tasks!Recorded = 1 .. Len(ops) /\ ops \in Seq(TasksOperation)
      /\ UNCHANGED <<known, cached, server, revision, externals, reviewed>>
  BY TasksQueue DEF TasksIInv, Tasks!Send, TasksTypeOK
<1>2. PICK k \in Tasks!Recorded :
          /\ Tasks!FirstSendable(k)
          /\ IF Tasks!Op(k).kind # "create" /\ Tasks!Op(k).base = 0
             THEN ops' = [Tasks!With(k, "failed") EXCEPT ![k].attempts = @ + 1] /\ UNCHANGED request
             ELSE ops' = [Tasks!With(k, "running") EXCEPT ![k].attempts = @ + 1]
                  /\ request' = [op |-> k, phase |-> "sent", rev |-> 0]
  BY DEF Tasks!Send
<1>3. PICK status \in {"running", "failed"} :
          /\ ops' = [Tasks!With(k, status) EXCEPT ![k].attempts = @ + 1]
          /\ status = "failed" => request' = Tasks!Resting
          /\ status = "running" => /\ request' = [op |-> k, phase |-> "sent", rev |-> 0]
                                   /\ Tasks!Op(k).kind # "create" => Tasks!Op(k).base # 0
  BY <1>1, <1>2 DEF Tasks!Serial
<1>4. PICK p : p = [Tasks!Op(k) EXCEPT !.status = status, !.attempts = @ + 1]
  OBVIOUS
<1>5. p.task = Tasks!Op(k).task /\ p.kind = Tasks!Op(k).kind /\ p.base = Tasks!Op(k).base /\ p.result = Tasks!Op(k).result /\ p.status = status
  BY <1>4, TasksOfOne DEF TasksOperation, Tasks!Op
<1>6. ops' = [ops EXCEPT ![k] = p]
  <2>1. Tasks!With(k, status) = [ops EXCEPT ![k] = [ops[k] EXCEPT !.status = status]]
    BY DEF Tasks!With
  <2>2. ops' = [ops EXCEPT ![k] = [[ops[k] EXCEPT !.status = status] EXCEPT !.attempts = @ + 1]]
    BY <1>1, <1>3, <2>1 DEF Tasks!Recorded
  <2>3. [[ops[k] EXCEPT !.status = status] EXCEPT !.attempts = @ + 1] = p
    BY <1>4, TasksOfOne DEF TasksOperation, Tasks!Op
  <2> QED BY <2>2, <2>3
<1>7. Tasks!Recorded' = Tasks!Recorded /\ ops'[k] = p /\ \A j \in Tasks!Recorded : j # k => ops'[j] = ops[j]
  BY <1>1, <1>6 DEF Tasks!Recorded
<1>8. Tasks!Op(k).status = "queued" /\ TasksIsActive(k) /\ \A j \in Tasks!Of(Tasks!Op(k).task) : j < k => ~TasksIsActive(j)
  BY <1>2 DEF Tasks!FirstSendable, Tasks!Sendable, TasksIsActive, Tasks!Active
<1>9. TasksOut'
  <2>1. CASE status = "failed"
    BY <1>3, <2>1 DEF TasksOut
  <2>2. CASE status = "running"
    <3>1. request'.op = k /\ request'.phase = "sent"
      BY <1>3, <2>2
    <3>2. ASSUME NEW j \in Tasks!Recorded, j < k, Tasks!Op(j).task = Tasks!Op(k).task PROVE ~TasksIsActive(j)'
      <4>1. j # k /\ j \in Tasks!Of(Tasks!Op(k).task)
        BY <3>2, TasksOfOne DEF Tasks!Of
      <4> QED BY <1>7, <1>8, <3>2, <4>1 DEF TasksIsActive, Tasks!Op
    <3>3. \A j \in Tasks!Recorded : Tasks!Op(j)'.task = Tasks!Op(j).task /\ Tasks!Op(j)'.kind = Tasks!Op(j).kind /\ Tasks!Op(j)'.base = Tasks!Op(j).base
      BY <1>5, <1>7 DEF Tasks!Op
    <3> QED BY <1>3, <1>7, <2>2, <3>1, <3>2, <3>3 DEF TasksOut
  <2> QED BY <2>1, <2>2
<1>10. ASSUME NEW j \in Tasks!Recorded
       PROVE  /\ Tasks!Op(j)'.task = Tasks!Op(j).task /\ Tasks!Op(j)'.kind = Tasks!Op(j).kind
              /\ Tasks!Op(j)'.base = Tasks!Op(j).base /\ Tasks!Op(j)'.result = Tasks!Op(j).result
              /\ TasksIsActive(j)' => TasksIsActive(j)
              /\ Tasks!Op(j)'.status \in {"queued", "running"} => Tasks!Op(j).status \in {"queued", "running"}
              /\ Tasks!Op(j)'.status = "queued" => Tasks!Op(j).status = "queued"
  BY <1>3, <1>5, <1>7, <1>8 DEF Tasks!Op, TasksIsActive
<1> QED BY <1>1, <1>7, <1>9, <1>10, TasksTurned

\* The request ends without a result, or the program ends, or a backup is restored.
LEMMA TasksEndsSeen ==
    ASSUME TasksIInv, TasksSeen, request # Tasks!Resting, NEW status \in {"queued", "failed", "conflict", "review"}, Tasks!Ends(status),
           UNCHANGED <<known, cached, server, revision, externals, reviewed>>
    PROVE  TasksSeen'
<1>1. PICK k \in Tasks!Recorded : k = request.op
  BY DEF TasksIInv, TasksAwaited
<1>2. /\ Tasks!Recorded = 1 .. Len(ops) /\ ops \in Seq(TasksOperation) /\ Tasks!Op(k).status = "running" /\ TasksIsActive(k) /\ Tasks!Op(k) \in TasksOperation
      /\ Tasks!Op(k).kind # "create" => Tasks!Op(k).base # 0
  BY <1>1, TasksQueue DEF TasksIInv, TasksTypeOK, TasksAwaited, TasksIsActive, Tasks!Active, Tasks!Op,
       TasksSeen, TasksOut
<1>3. PICK p : p = [Tasks!Op(k) EXCEPT !.status = status]
  OBVIOUS
<1>4. p.task = Tasks!Op(k).task /\ p.kind = Tasks!Op(k).kind /\ p.base = Tasks!Op(k).base /\ p.result = Tasks!Op(k).result /\ p.status = status
  BY <1>2, <1>3 DEF TasksOperation
<1>5. ops' = [ops EXCEPT ![k] = p]
  BY <1>1, <1>3 DEF Tasks!Ends, Tasks!With, Tasks!Op
<1>6. Tasks!Recorded' = Tasks!Recorded /\ ops'[k] = p /\ \A j \in Tasks!Recorded : j # k => ops'[j] = ops[j]
  BY <1>2, <1>5 DEF Tasks!Recorded
<1>7. TasksOut'
  BY DEF TasksOut, Tasks!Ends
<1>8. ASSUME NEW j \in Tasks!Recorded
      PROVE  /\ Tasks!Op(j)'.task = Tasks!Op(j).task /\ Tasks!Op(j)'.kind = Tasks!Op(j).kind
             /\ Tasks!Op(j)'.base = Tasks!Op(j).base /\ Tasks!Op(j)'.result = Tasks!Op(j).result
             /\ TasksIsActive(j)' => TasksIsActive(j)
             /\ Tasks!Op(j)'.status \in {"queued", "running"} => Tasks!Op(j).status \in {"queued", "running"}
             /\ Tasks!Op(j)'.status = "queued" => Tasks!Op(j).status = "queued" \/ Tasks!Op(j).kind = "create" \/ Tasks!Op(j).base # 0
  BY <1>2, <1>4, <1>6 DEF Tasks!Op, TasksIsActive
<1> QED BY <1>6, <1>7, <1>8, TasksTurned

LEMMA TasksParkedSeen == ASSUME TasksIInv, TasksSeen, Tasks!Restart \/ Tasks!Restore PROVE TasksSeen'
<1>1. /\ \A j \in Tasks!Recorded : ops[j] \in TasksOperation
      /\ UNCHANGED <<known, cached, server, revision, externals, reviewed>> /\ request' = Tasks!Resting
  BY TasksQueue DEF TasksIInv, Tasks!Restart, Tasks!Restore, Tasks!Serial
<1>2. Tasks!Recorded' = Tasks!Recorded
  BY DEF Tasks!Restart, Tasks!Restore, Tasks!Recorded
<1>3. ASSUME NEW j \in Tasks!Recorded
      PROVE  /\ Tasks!Op(j)'.task = Tasks!Op(j).task /\ Tasks!Op(j)'.kind = Tasks!Op(j).kind
             /\ Tasks!Op(j)'.base = Tasks!Op(j).base /\ Tasks!Op(j)'.result = Tasks!Op(j).result
             /\ TasksIsActive(j)' => TasksIsActive(j)
             /\ Tasks!Op(j)'.status \in {"queued", "running"} => Tasks!Op(j).status \in {"queued", "running"}
             /\ Tasks!Op(j)'.status = "queued" => Tasks!Op(j).status = "queued"
  <2>1. \/ ops'[j] = ops[j]
        \/ ops'[j] = [ops[j] EXCEPT !.status = "review"] /\ ops[j].status = "running"
        \/ ops'[j] = [ops[j] EXCEPT !.status = "review", !.error = "restored-write"] /\ ops[j].status \in Tasks!Active
    BY DEF Tasks!Restart, Tasks!Recovered, Tasks!Restore, Tasks!Op
  <2>2. ops[j] \in TasksOperation
    BY <1>1
  <2> QED BY <2>1, <2>2 DEF TasksOperation, Tasks!Op, TasksIsActive, Tasks!Active
<1>4. TasksOut'
  BY <1>1 DEF TasksOut
<1> QED BY <1>1, <1>2, <1>3, <1>4, TasksTurned

\* The provider gives a task a revision that nothing refers to yet, or deletes it.
LEMMA TasksAnew ==
    ASSUME TasksIInv, TasksSeen, NEW t \in Tasks!Tasks, NEW rev \in {0, revision + 1}, UNCHANGED <<ops, known, cached, reviewed>>,
           server' = [server EXCEPT ![t] = rev], revision' = revision + 1,
           \A u \in Tasks!Tasks : u # t => Tasks!Foreign(u)' = Tasks!Foreign(u), Tasks!Foreign(t)' <= revision + 1, Tasks!Foreign(t)' \in Nat
    PROVE  /\ \A u \in Tasks!Tasks : TasksFresh(u)'
           /\ \A k \in Tasks!Recorded : TasksDated(k)' /\ TasksBased(k)' /\ (Tasks!Op(k).task = t => ~TasksPresent(k)' /\ ~(rev # 0 /\ TasksRefers(k, rev)))
           /\ \A i, k \in Tasks!Recorded : TasksFollows(i, k)'
           /\ rev # 0 => known[t] # rev
<1>1. TasksTypeOK /\ revision \in Nat /\ server'[t] = rev /\ \A u \in Tasks!Tasks : u # t => server'[u] = server[u]
  BY DEF TasksIInv, TasksTypeOK
<1>2. ASSUME NEW u \in Tasks!Tasks PROVE TasksFresh(u)' /\ (rev # 0 => known[t] # rev)
  <2>1. TasksFresh(u) /\ TasksFresh(t) /\ server[u] \in Nat /\ known[u] \in Nat /\ Tasks!Foreign(u) \in Nat /\ known[t] \in Nat
    BY <1>1 DEF TasksSeen, TasksTypeOK, Tasks!Foreign
  <2>2. CASE u = t
    BY <1>1, <2>1, <2>2 DEF TasksFresh
  <2>3. CASE u # t
    BY <1>1, <2>1, <2>3 DEF TasksFresh
  <2> QED BY <2>2, <2>3
<1>3. ASSUME NEW k \in Tasks!Recorded
      PROVE  TasksDated(k)' /\ TasksBased(k)' /\ (Tasks!Op(k).task = t => ~TasksPresent(k)' /\ ~(rev # 0 /\ TasksRefers(k, rev)))
  <2>1. TasksDated(k) /\ TasksBased(k) /\ Tasks!Op(k)' = Tasks!Op(k) /\ Tasks!Op(k).task \in Tasks!Tasks /\ Tasks!Op(k).base \in Nat /\ Tasks!Op(k).result \in Nat
    BY TasksOfOne DEF TasksSeen, Tasks!Op
  <2>2. CASE Tasks!Op(k).task = t
    <3>1. Tasks!Op(k).base # revision + 1 /\ Tasks!Op(k).result # revision + 1
      BY <1>1, <2>1 DEF TasksDated
    <3> QED BY <1>1, <2>1, <2>2, <3>1 DEF TasksDated, TasksRefers, TasksBased, TasksPresent
  <2>3. CASE Tasks!Op(k).task # t
    <3>1. server'[Tasks!Op(k).task] = server[Tasks!Op(k).task] /\ Tasks!Foreign(Tasks!Op(k).task)' = Tasks!Foreign(Tasks!Op(k).task)
      BY <1>1, <2>1, <2>3
    <3> QED BY <1>1, <2>1, <2>3, <3>1 DEF TasksDated, TasksRefers, TasksBased, TasksPresent, TasksReviewed
  <2> QED BY <2>2, <2>3
<1>4. ASSUME NEW i \in Tasks!Recorded, NEW k \in Tasks!Recorded PROVE TasksFollows(i, k)'
  <2>1. TasksFollows(i, k) /\ Tasks!Op(k)' = Tasks!Op(k) /\ Tasks!Op(i)' = Tasks!Op(i) /\ Tasks!Op(k).task \in Tasks!Tasks
    BY TasksOfOne DEF TasksSeen, Tasks!Op
  <2>2. CASE Tasks!Op(i).task = t
    BY <1>3, <2>2, <2>1 DEF TasksFollows
  <2>3. CASE Tasks!Op(i).task # t /\ Tasks!Op(i).task = Tasks!Op(k).task
    <3>1. server'[Tasks!Op(k).task] = server[Tasks!Op(k).task] /\ Tasks!Foreign(Tasks!Op(k).task)' = Tasks!Foreign(Tasks!Op(k).task)
      BY <1>1, <2>1, <2>3
    <3> QED BY <2>1, <2>3, <3>1 DEF TasksFollows, TasksPresent, TasksReviewed, TasksIsActive
  <2>4. CASE Tasks!Op(i).task # Tasks!Op(k).task
    BY <2>1, <2>4 DEF TasksFollows
  <2> QED BY <2>2, <2>3, <2>4
<1> QED BY <1>2, <1>3, <1>4

LEMMA TasksProviderSeen == ASSUME TasksIInv, TasksSeen, Tasks!ProviderApplies PROVE TasksSeen'
<1>1. /\ TasksTypeOK /\ request # Tasks!Resting /\ request.phase = "sent" /\ request \in TasksRequests /\ TasksOut /\ revision \in Nat
      /\ UNCHANGED <<ops, known, cached, reviewed>> /\ revision' = revision + 1
  <2>1. request.phase = "sent" /\ UNCHANGED <<ops, known, cached, reviewed>> /\ revision' = revision + 1
    BY DEF Tasks!ProviderApplies
  <2>2. TasksTypeOK /\ TasksOut
    BY DEF TasksIInv, TasksSeen
  <2> QED BY <2>1, <2>2 DEF Tasks!Resting, TasksTypeOK
<1>2. PICK k \in Tasks!Recorded : k = request.op
  BY <1>1 DEF TasksIInv, TasksAwaited
<1>3. PICK t \in Tasks!Tasks : t = Tasks!Op(k).task
  BY TasksOfOne
<1>4. PICK rev \in {0, revision + 1} :
         /\ rev = IF Tasks!Op(k).kind = "delete" THEN 0 ELSE revision + 1
         /\ server' = [server EXCEPT ![t] = rev]
         /\ request' = [request EXCEPT !.phase = "done", !.rev = rev]
  BY <1>2, <1>3 DEF Tasks!ProviderApplies
<1>5. request'.op = k /\ request'.phase = "done" /\ request'.rev = rev /\ server'[t] = rev
  BY <1>1, <1>2, <1>4 DEF TasksRequests, TasksTypeOK
<1>6. /\ \A u \in Tasks!Tasks : u # t => Tasks!Foreign(u)' = Tasks!Foreign(u)
      /\ Tasks!Foreign(t)' = IF Tasks!Op(k).kind = "create" THEN 0 ELSE Tasks!Foreign(t)
  BY <1>1, <1>2, <1>3 DEF Tasks!ProviderApplies, Tasks!Foreign, TasksTypeOK
<1>7. Tasks!Foreign(t)' \in Nat /\ Tasks!Foreign(t)' <= revision + 1
  <2>1. Tasks!Foreign(t) \in Nat /\ TasksFresh(t)
    BY <1>1 DEF TasksTypeOK, Tasks!Foreign, TasksSeen
  <2> QED BY <1>1, <1>6, <2>1 DEF TasksFresh
<1>8. /\ \A u \in Tasks!Tasks : TasksFresh(u)'
      /\ \A j \in Tasks!Recorded : TasksDated(j)' /\ TasksBased(j)'
      /\ \A i, j \in Tasks!Recorded : TasksFollows(i, j)'
  BY <1>1, <1>4, <1>6, <1>7, TasksAnew
<1>9. \A j \in Tasks!Recorded : Tasks!Op(j)' = Tasks!Op(j) /\ (TasksIsActive(j)' <=> TasksIsActive(j))
  BY <1>1 DEF Tasks!Op, TasksIsActive
<1>10. Tasks!Recorded' = Tasks!Recorded
  BY <1>1 DEF Tasks!Recorded
<1>11. Tasks!Op(k).kind # "create" => Tasks!Op(k).base # 0 /\ Tasks!Op(k).base = server[t] /\ TasksPresent(k)
  BY <1>1, <1>2, <1>3 DEF TasksOut, Tasks!ProviderApplies, Tasks!Matches, Tasks!Revision, TasksPresent
<1>12. ASSUME NEW j \in Tasks!Recorded, TasksHolds(k, j)', Tasks!Op(k).kind # "delete" PROVE TasksReviewed(j)'
  <2>1. /\ j > k /\ Tasks!Op(j).task = t /\ Tasks!Op(j).status = "queued" /\ Tasks!Op(j).kind # "create" /\ Tasks!Rebases(k, j)
        /\ reviewed[j] \in Nat
    BY <1>3, <1>9, <1>12, TasksOfOne DEF TasksHolds, Tasks!Rebases
  <2>2. CASE Tasks!Op(k).kind = "create"
    BY <1>1, <1>6, <1>9, <2>1, <2>2 DEF TasksReviewed
  <2>3. CASE Tasks!Op(k).kind # "create"
    <3>1. TasksBased(j) /\ TasksFollows(k, j) /\ TasksIsActive(k)
      BY <1>1, <1>2 DEF TasksSeen, TasksIInv, TasksAwaited, TasksIsActive, Tasks!Active, Tasks!Op
    <3>2. k < j
      BY <2>1, TasksOfOne
    <3>3. TasksReviewed(j)
      BY <1>3, <1>11, <2>1, <2>3, <3>1, <3>2 DEF Tasks!Rebases, TasksBased, TasksFollows, TasksPresent
    <3> QED BY <1>1, <1>6, <1>9, <2>1, <2>3, <3>3 DEF TasksReviewed
  <2> QED BY <2>2, <2>3
<1>13. TasksCarried(k)'
  <2>1. rev <= revision + 1 /\ (IF Tasks!Op(k).kind = "delete" THEN rev = 0 ELSE rev # 0)
    BY <1>1, <1>4
  <2> QED BY <1>1, <1>3, <1>5, <1>9, <1>10, <1>12, <2>1 DEF TasksCarried
<1>14. TasksOut'
  BY <1>1, <1>2, <1>5, <1>9, <1>10, <1>13 DEF TasksOut
<1> QED BY <1>8, <1>10, <1>14 DEF TasksSeen

LEMMA TasksExternalSeen == ASSUME TasksIInv, TasksSeen, NEW t \in Tasks!Tasks, Tasks!External(t) PROVE TasksSeen'
<1>1. /\ TasksTypeOK /\ revision \in Nat /\ UNCHANGED <<ops, known, cached, request, reviewed>> /\ revision' = revision + 1
      /\ server[t] # 0 /\ server \in [Tasks!Tasks -> Nat] /\ externals \in [Tasks!Tasks -> [count : Nat, last : Nat]]
  BY DEF TasksIInv, TasksTypeOK, Tasks!External
<1>2. PICK rev \in {0, revision + 1} : server' = [server EXCEPT ![t] = rev]
  BY DEF Tasks!External
<1>3. (\A u \in Tasks!Tasks : u # t => Tasks!Foreign(u)' = Tasks!Foreign(u)) /\ Tasks!Foreign(t)' = revision + 1
  BY <1>1 DEF Tasks!External, Tasks!Foreign
<1>4. /\ \A u \in Tasks!Tasks : TasksFresh(u)'
      /\ \A j \in Tasks!Recorded : TasksDated(j)' /\ TasksBased(j)' /\ (Tasks!Op(j).task = t => ~(rev # 0 /\ TasksRefers(j, rev)))
      /\ \A i, j \in Tasks!Recorded : TasksFollows(i, j)'
      /\ rev # 0 => known[t] # rev
  <2>1. Tasks!Foreign(t)' <= revision + 1 /\ Tasks!Foreign(t)' \in Nat
    BY <1>1, <1>3
  <2> QED BY <1>1, <1>2, <1>3, <2>1, TasksAnew
<1>5. Tasks!Recorded' = Tasks!Recorded /\ \A j \in Tasks!Recorded : Tasks!Op(j)' = Tasks!Op(j) /\ (TasksIsActive(j)' <=> TasksIsActive(j))
  BY <1>1 DEF Tasks!Recorded, Tasks!Op, TasksIsActive
<1>6. ASSUME request # Tasks!Resting, request.phase = "done", NEW k \in Tasks!Recorded, k = request.op PROVE TasksCarried(k)'
  <2>1. TasksCarried(k) /\ request \in TasksRequests /\ request.rev \in Nat /\ Tasks!Op(k).task \in Tasks!Tasks
    BY <1>1, <1>6, TasksOfOne DEF TasksSeen, TasksOut, TasksTypeOK, TasksRequests
  <2>2. CASE Tasks!Op(k).task = t
    <3>1. Tasks!Op(k).kind # "delete" /\ request.rev # 0 /\ server'[t] = rev /\ rev # request.rev
      BY <1>1, <1>2, <2>1, <2>2 DEF TasksCarried
    <3>2. \A j \in Tasks!Recorded : TasksRefers(j, rev)' <=> TasksRefers(j, rev)
      BY <1>5 DEF TasksRefers
    <3> QED BY <1>1, <1>4, <1>5, <2>1, <2>2, <3>1, <3>2 DEF TasksCarried, TasksRefers
  <2>3. CASE Tasks!Op(k).task # t
    <3>1. server'[Tasks!Op(k).task] = server[Tasks!Op(k).task] /\ Tasks!Foreign(Tasks!Op(k).task)' = Tasks!Foreign(Tasks!Op(k).task)
      BY <1>1, <1>2, <1>3, <1>5, <2>1, <2>3
    <3>2. \A j \in Tasks!Recorded : TasksHolds(k, j)' => TasksHolds(k, j) /\ Tasks!Op(j).task = Tasks!Op(k).task
      BY <1>5 DEF TasksHolds, Tasks!Rebases
    <3>3. \A j \in Tasks!Recorded : Tasks!Op(j).task = Tasks!Op(k).task /\ TasksReviewed(j) => TasksReviewed(j)'
      BY <1>1, <1>5, <3>1 DEF TasksReviewed
    <3>4. request.rev <= revision'
      BY <1>1, <2>1 DEF TasksCarried
    <3> QED BY <1>1, <1>5, <2>1, <3>1, <3>2, <3>3, <3>4 DEF TasksCarried, TasksRefers
  <2> QED BY <2>2, <2>3
<1>7. TasksOut'
  <2>1. request # Tasks!Resting => request.op \in Tasks!Recorded
    BY DEF TasksIInv, TasksAwaited
  <2> QED BY <1>1, <1>5, <1>6, <2>1 DEF TasksSeen, TasksOut
<1> QED BY <1>4, <1>5, <1>7 DEF TasksSeen

LEMMA TasksFinishSeen ==
    ASSUME TasksIInv, TasksSeen, NEW k \in Tasks!Recorded, NEW rev \in Nat, request # Tasks!Resting, k = request.op,
           Tasks!Finish(k, rev), request' = Tasks!Resting, UNCHANGED <<server, revision, externals, reviewed>>,
           \/ request.phase = "done" /\ rev = request.rev
           \/ Tasks!Op(k).kind = "delete" /\ rev = 0 /\ server[Tasks!Op(k).task] = 0
    PROVE  TasksSeen'
<1>1. /\ TasksTypeOK /\ Tasks!Recorded = 1 .. Len(ops) /\ TasksOut /\ \A j \in Tasks!Recorded : ops[j] \in TasksOperation
      /\ revision \in Nat /\ known \in [Tasks!Tasks -> Nat] /\ cached \in [Tasks!Tasks -> Nat] /\ server \in [Tasks!Tasks -> Nat]
  BY TasksQueue DEF TasksIInv, TasksSeen, TasksTypeOK
<1>2. PICK t \in Tasks!Tasks : t = Tasks!Op(k).task
  BY TasksOfOne
<1>3. PICK set \in SUBSET Tasks!Recorded :
          set = {j \in Tasks!Recorded : j > k /\ Tasks!Op(j).task = t /\ Tasks!Op(j).status = "queued" /\ Tasks!Op(k).kind # "delete" /\ Tasks!Rebases(k, j)}
  OBVIOUS
<1>4. PICK p : p = [Tasks!Op(k) EXCEPT !.status = "succeeded", !.result = rev]
  OBVIOUS
<1>5. /\ p.task = t /\ p.kind = Tasks!Op(k).kind /\ p.base = Tasks!Op(k).base /\ p.result = rev /\ p.status = "succeeded"
      /\ [ops EXCEPT ![k].status = "succeeded", ![k].result = rev] = [ops EXCEPT ![k] = p]
  BY <1>1, <1>2, <1>4 DEF TasksOperation, Tasks!Op
<1>6. k \notin set /\ k \in Nat
  BY <1>1, <1>3
<1>7. /\ Tasks!Recorded' = Tasks!Recorded /\ ops'[k] = p
      /\ \A j \in Tasks!Recorded : j # k => ops'[j] = IF j \in set THEN [ops[j] EXCEPT !.base = rev] ELSE ops[j]
  <2>1. PICK after : after = [ops EXCEPT ![k].status = "succeeded", ![k].result = rev]
    OBVIOUS
  <2>2. ops' = [j \in Tasks!Recorded |-> IF j \in set THEN [Tasks!Op(j) EXCEPT !.base = rev] ELSE after[j]]
    <3>1. ops' = [j \in Tasks!Recorded |->
               IF j > k /\ j \in Tasks!Of(Tasks!Op(k).task) /\ Tasks!Op(j).status = "queued" /\ Tasks!Op(k).kind # "delete" /\ Tasks!Rebases(k, j)
               THEN [Tasks!Op(j) EXCEPT !.base = rev] ELSE after[j]]
      BY <2>1 DEF Tasks!Finish
    <3>2. \A j \in Tasks!Recorded : j \in Tasks!Of(t) <=> Tasks!Op(j).task = t
      BY DEF Tasks!Of
    <3> QED BY <1>2, <1>3, <3>1, <3>2
  <2>3. after[k] = p /\ \A j \in Tasks!Recorded : j # k => after[j] = ops[j]
    <3>1. after = [ops EXCEPT ![k] = p]
      BY <1>5, <2>1
    <3> QED BY <3>1 DEF Tasks!Recorded
  <2> QED BY <1>6, <2>2, <2>3 DEF Tasks!Op, Tasks!Recorded
<1>8. known' = [known EXCEPT ![t] = rev] /\ cached' = [cached EXCEPT ![t] = rev]
  BY <1>2 DEF Tasks!Finish
<1>9. /\ rev <= revision
      /\ Tasks!Op(k).kind = "delete" => rev = 0 /\ server[t] = 0
      /\ Tasks!Op(k).kind # "delete" => rev # 0 /\ request.phase = "done"
      /\ server[t] # 0 /\ server[t] # rev =>
           known[t] # server[t] /\ \A j \in Tasks!Recorded : Tasks!Op(j).task = t => ~TasksRefers(j, server[t])
      /\ server[t] = rev /\ Tasks!Op(k).kind # "delete" => \A j \in Tasks!Recorded : TasksHolds(k, j) => TasksReviewed(j)
  BY <1>1, <1>2 DEF TasksOut, TasksCarried
<1>10. ASSUME NEW j \in Tasks!Recorded
       PROVE  /\ Tasks!Op(j)'.task = Tasks!Op(j).task /\ Tasks!Op(j)'.kind = Tasks!Op(j).kind
              /\ Tasks!Op(j)'.base = IF j \in set THEN rev ELSE Tasks!Op(j).base
              /\ Tasks!Op(j)'.result = IF j = k THEN rev ELSE Tasks!Op(j).result
              /\ Tasks!Op(j)'.status = IF j = k THEN "succeeded" ELSE Tasks!Op(j).status
              /\ Tasks!Op(j).task \in Tasks!Tasks
  <2>1. ops[j] \in TasksOperation /\ Tasks!Op(j).task \in Tasks!Tasks
    BY <1>1, TasksOfOne
  <2>2. CASE j = k
    BY <1>2, <1>5, <1>6, <1>7, <2>1, <2>2 DEF Tasks!Op
  <2>3. CASE j # k
    BY <1>7, <2>1, <2>3 DEF Tasks!Op, TasksOperation
  <2> QED BY <2>2, <2>3
<1>11. \A u \in Tasks!Tasks : Tasks!Foreign(u)' = Tasks!Foreign(u)
  BY DEF Tasks!Foreign
<1>12. ASSUME NEW u \in Tasks!Tasks PROVE TasksFresh(u)'
  <2>1. TasksFresh(u)
    BY DEF TasksSeen
  <2>2. CASE u = t
    BY <1>1, <1>8, <1>9, <1>11, <2>1, <2>2 DEF TasksFresh
  <2>3. CASE u # t
    BY <1>1, <1>8, <1>11, <2>1, <2>3 DEF TasksFresh
  <2> QED BY <2>2, <2>3
<1>13. ASSUME NEW j \in Tasks!Recorded PROVE TasksDated(j)'
  <2>1. TasksDated(j)
    BY DEF TasksSeen
  <2>2. Tasks!Op(j)'.base <= revision /\ Tasks!Op(j)'.result <= revision
    BY <1>9, <1>10, <2>1 DEF TasksDated
  <2>3. CASE Tasks!Op(j).task = t
    <3>1. cached'[t] = rev
      BY <1>1, <1>8
    <3>2. server[t] # 0 /\ TasksRefers(j, server[t])' => server[t] = rev
      BY <1>9, <1>10, <2>3 DEF TasksRefers
    <3> QED BY <1>10, <2>2, <2>3, <3>1, <3>2 DEF TasksDated, TasksRefers
  <2>4. CASE Tasks!Op(j).task # t
    <3>1. j # k /\ j \notin set /\ cached'[Tasks!Op(j).task] = cached[Tasks!Op(j).task]
      BY <1>1, <1>2, <1>3, <1>8, <1>10, <2>4
    <3> QED BY <1>10, <2>1, <2>2, <2>4, <3>1 DEF TasksDated, TasksRefers
  <2> QED BY <2>3, <2>4
<1>14. ASSUME NEW j \in Tasks!Recorded PROVE TasksBased(j)'
  <2>1. TasksBased(j)
    BY DEF TasksSeen
  <2>2. CASE j \in set
    <3>1. Tasks!Op(j).task = t /\ Tasks!Op(j)'.base = rev /\ (Tasks!Op(j).kind # "create" => TasksHolds(k, j)) /\ Tasks!Op(k).kind # "delete"
      BY <1>2, <1>3, <1>10, <2>2 DEF TasksHolds
    <3>2. server[t] = rev /\ Tasks!Op(j).kind # "create" => TasksReviewed(j)
      BY <1>9, <3>1
    <3> QED BY <1>10, <1>11, <3>1, <3>2 DEF TasksBased, TasksPresent, TasksReviewed
  <2>3. CASE j \notin set
    BY <1>10, <1>11, <2>1, <2>3 DEF TasksBased, TasksPresent, TasksReviewed
  <2> QED BY <2>2, <2>3
<1>15. ASSUME NEW i \in Tasks!Recorded, NEW j \in Tasks!Recorded PROVE TasksFollows(i, j)'
  <2> SUFFICES ASSUME i < j, Tasks!Op(i).task = Tasks!Op(j).task, TasksIsActive(i)', Tasks!Op(i).kind # "create", TasksPresent(i)',
                      Tasks!Op(j)'.status = "queued", Tasks!Op(j).kind # "create", Tasks!Op(j)'.base = 0
               PROVE  TasksReviewed(j)'
    BY <1>10 DEF TasksFollows
  <2>1. j # k /\ i # k /\ TasksIsActive(i) /\ Tasks!Op(j).status = "queued" /\ TasksIsActive(j)
    BY <1>10 DEF TasksIsActive, Tasks!Active
  <2>2. CASE Tasks!Op(j).task = t
    <3>1. Tasks!Op(k).kind # "delete"
      <4>1. Tasks!Op(k).kind = "delete" => server[t] = 0 /\ Tasks!Op(i)'.base = Tasks!Op(i).base
        BY <1>3, <1>9, <1>10
      <4> QED BY <1>10, <2>2, <4>1 DEF TasksPresent
    <3>2. j > k
      <4>1. ~(j < k)
        BY <1>1, <1>2, <2>1, <2>2 DEF TasksOut
      <4> QED BY <1>1, <2>1, <4>1
    <3>3. j \in set
      <4>1. j \notin set => Tasks!Op(j).base = 0
        BY <1>10
      <4> QED BY <1>3, <2>1, <2>2, <3>1, <3>2, <4>1 DEF Tasks!Rebases
    <3> QED BY <1>9, <1>10, <3>1, <3>3
  <2>3. CASE Tasks!Op(j).task # t
    <3>1. i \notin set /\ j \notin set /\ TasksFollows(i, j)
      BY <1>3, <2>3 DEF TasksSeen
    <3>2. TasksReviewed(j)
      BY <1>10, <2>1, <3>1 DEF TasksFollows, TasksPresent
    <3> QED BY <1>10, <1>11, <3>2 DEF TasksReviewed
  <2> QED BY <2>2, <2>3
<1>16. TasksOut'
  BY DEF TasksOut
<1> QED BY <1>7, <1>12, <1>13, <1>14, <1>15, <1>16 DEF TasksSeen

LEMMA TasksAnswerSeen == ASSUME TasksIInv, TasksSeen, Tasks!Answered \/ Tasks!RevisionRefused \/ Tasks!RateLimited \/ Tasks!Rejected \/ Tasks!Uncertain PROVE TasksSeen'
<1>1. /\ request # Tasks!Resting /\ request' = Tasks!Resting /\ UNCHANGED <<server, revision, externals, reviewed>>
  BY DEF Tasks!Answered, Tasks!RevisionRefused, Tasks!RateLimited, Tasks!Rejected, Tasks!Uncertain, Tasks!Ends,
       Tasks!Resting
<1>2. PICK k \in Tasks!Recorded : k = request.op
  BY <1>1 DEF TasksIInv, TasksAwaited
<1>3. request.rev \in Nat
  BY DEF TasksIInv, TasksTypeOK, TasksRequests
<1>4. CASE Tasks!Answered
  <2>1. Tasks!Finish(k, request.rev) /\ request.phase = "done"
    BY <1>2, <1>4 DEF Tasks!Answered
  <2> QED BY <1>1, <1>2, <1>3, <2>1, TasksFinishSeen
<1>5. CASE Tasks!RevisionRefused
  <2>1. CASE Tasks!Op(k).kind = "delete" /\ server[Tasks!Op(k).task] = 0
    <3>1. Tasks!Finish(k, 0) /\ 0 \in Nat
      BY <1>2, <1>5, <2>1 DEF Tasks!RevisionRefused
    <3> QED BY <1>1, <1>2, <2>1, <3>1, TasksFinishSeen
  <2>2. CASE ~(Tasks!Op(k).kind = "delete" /\ server[Tasks!Op(k).task] = 0)
    <3>1. Tasks!Ends("conflict") /\ UNCHANGED <<known, cached>>
      BY <1>1, <1>2, <1>5, <2>2 DEF Tasks!RevisionRefused, Tasks!Ends
    <3> QED BY <1>1, <3>1, TasksEndsSeen
  <2> QED BY <2>1, <2>2
<1>6. CASE Tasks!RateLimited \/ Tasks!Rejected \/ Tasks!Uncertain
  <2>1. PICK status \in {"queued", "failed", "review"} : Tasks!Ends(status)
    BY <1>6 DEF Tasks!RateLimited, Tasks!Rejected, Tasks!Uncertain
  <2>2. UNCHANGED <<known, cached>>
    BY <1>6 DEF Tasks!RateLimited, Tasks!Rejected, Tasks!Uncertain
  <2> QED BY <1>1, <2>1, <2>2, TasksEndsSeen
<1> QED BY <1>4, <1>5, <1>6

\* A full refresh shows the user what the provider has.
LEMMA TasksShownAll ==
    ASSUME TasksIInv, TasksSeen, cached' = server, UNCHANGED <<server, revision, externals>>,
           \A u \in Tasks!Tasks : known'[u] \in {known[u], server[u]}
    PROVE  \A u \in Tasks!Tasks : TasksFresh(u)'
<1> SUFFICES ASSUME NEW u \in Tasks!Tasks PROVE TasksFresh(u)'
  OBVIOUS
<1>1. TasksFresh(u) /\ Tasks!Foreign(u)' = Tasks!Foreign(u)
  BY DEF TasksSeen, Tasks!Foreign
<1> QED BY <1>1 DEF TasksFresh

\* What is left of a change that a step does not concern.
TasksAlike(j) == Tasks!Op(j)'.base = Tasks!Op(j).base /\ Tasks!Op(j)'.status = Tasks!Op(j).status /\ reviewed'[j] = reviewed[j]

\* After a full refresh the user resolves change k, and with it the later ones of its task.
LEMMA TasksResolved ==
    ASSUME TasksIInv, TasksSeen, Tasks!Serial, NEW k \in Tasks!Recorded, NEW t \in Tasks!Tasks, t = Tasks!Op(k).task, Tasks!Recorded' = Tasks!Recorded,
           cached' = server, UNCHANGED <<server, revision, externals, request>>,
           \A u \in Tasks!Tasks : known'[u] \in {known[u], server[u]},
           \A j \in Tasks!Recorded :
               /\ Tasks!Op(j)'.task = Tasks!Op(j).task /\ Tasks!Op(j)'.kind = Tasks!Op(j).kind
               /\ Tasks!Op(j)'.base = Tasks!Op(j).base \/ (Tasks!Op(j).task = t /\ Tasks!Op(j)'.base \in {Tasks!Op(k).base, server[t]})
               /\ Tasks!Op(j)'.result = Tasks!Op(j).result \/ (Tasks!Op(j).task = t /\ Tasks!Op(j)'.result = server[t])
               /\ Tasks!Op(j).task # t \/ j < k => TasksAlike(j)
               /\ TasksAlike(j) \/ reviewed'[j] = Tasks!Foreign(t) \/ Tasks!Op(j)'.status = "succeeded"
               /\ Tasks!Op(j).task = t /\ j > k /\ Tasks!Op(j)'.status = "queued" /\ Tasks!Op(j)'.base = 0 => reviewed'[j] = Tasks!Foreign(t)
    PROVE  TasksSeen'
<1>1. \A u \in Tasks!Tasks : TasksFresh(u)'
  BY TasksShownAll
<1>2. \A u \in Tasks!Tasks : Tasks!Foreign(u)' = Tasks!Foreign(u) /\ Tasks!Foreign(u) \in Nat
  BY DEF TasksIInv, TasksTypeOK, Tasks!Foreign
<1>3. ASSUME NEW j \in Tasks!Recorded PROVE TasksDated(j)'
  <2>1. TasksDated(j) /\ TasksDated(k) /\ Tasks!Op(j).task \in Tasks!Tasks /\ server[t] <= revision
    BY TasksOfOne DEF TasksSeen, TasksFresh
  <2>2. Tasks!Op(j)'.base <= revision
    BY <2>1 DEF TasksDated
  <2>3. Tasks!Op(j)'.result <= revision
    BY <2>1 DEF TasksDated
  <2> QED BY <2>2, <2>3 DEF TasksDated
<1>4. ASSUME NEW j \in Tasks!Recorded PROVE TasksBased(j)'
  <2>1. TasksBased(j) /\ Tasks!Op(j).task \in Tasks!Tasks
    BY TasksOfOne DEF TasksSeen
  <2>2. CASE TasksAlike(j)
    BY <1>2, <2>1, <2>2 DEF TasksAlike, TasksBased, TasksPresent, TasksReviewed
  <2>3. CASE ~TasksAlike(j) /\ reviewed'[j] = Tasks!Foreign(t)
    <3>1. Tasks!Op(j).task = t
      BY <2>3
    <3> QED BY <1>2, <2>3, <3>1 DEF TasksBased, TasksReviewed
  <2>4. CASE Tasks!Op(j)'.status = "succeeded"
    BY <2>4 DEF TasksBased
  <2> QED BY <2>2, <2>3, <2>4
<1>5. ASSUME NEW i \in Tasks!Recorded, NEW j \in Tasks!Recorded PROVE TasksFollows(i, j)'
  <2> SUFFICES ASSUME i < j, Tasks!Op(i).task = Tasks!Op(j).task, TasksIsActive(i)', Tasks!Op(i).kind # "create", TasksPresent(i)',
                      Tasks!Op(j)'.status = "queued", Tasks!Op(j).kind # "create", Tasks!Op(j)'.base = 0
               PROVE  TasksReviewed(j)'
    BY DEF TasksFollows
  <2>0. Tasks!Op(j).task \in Tasks!Tasks /\ i \in Nat /\ j \in Nat /\ k \in Nat
    BY TasksOfOne
  <2>1. CASE reviewed'[j] = Tasks!Foreign(t) /\ Tasks!Op(j).task = t
    BY <1>2, <2>1 DEF TasksReviewed
  <2>2. CASE TasksAlike(i) /\ TasksAlike(j)
    <3>1. TasksFollows(i, j) /\ TasksIsActive(i) /\ TasksPresent(i) /\ Tasks!Op(j).status = "queued" /\ Tasks!Op(j).base = 0
      BY <2>2 DEF TasksSeen, TasksAlike, TasksIsActive, TasksPresent
    <3>2. TasksReviewed(j)
      BY <3>1 DEF TasksFollows
    <3> QED BY <1>2, <2>0, <2>2, <3>2 DEF TasksAlike, TasksReviewed
  <2>3. CASE Tasks!Op(j).task # t \/ j < k
    <3>1. Tasks!Op(i).task # t \/ i < k
      BY <2>0, <2>3
    <3> QED BY <2>2, <2>3, <3>1
  <2>4. CASE Tasks!Op(j).task = t /\ j > k
    BY <2>1, <2>4
  <2>5. CASE Tasks!Op(j).task = t /\ j = k
    <3>1. CASE ~TasksAlike(k)
      BY <2>1, <2>5, <3>1
    <3>2. CASE TasksAlike(k)
      BY <2>0, <2>2, <2>5, <3>2
    <3> QED BY <3>1, <3>2
  <2> QED BY <2>0, <2>3, <2>4, <2>5
<1>6. TasksOut'
  BY DEF TasksOut, Tasks!Serial
<1> QED BY <1>1, <1>3, <1>4, <1>5, <1>6 DEF TasksSeen

LEMMA TasksRefreshSeen == ASSUME TasksIInv, TasksSeen, Tasks!Refresh PROVE TasksSeen'
<1>1. /\ UNCHANGED <<ops, server, revision, externals, request, reviewed>> /\ cached' = server /\ Tasks!Serial
      /\ \A u \in Tasks!Tasks : known'[u] \in {known[u], server[u]}
  BY DEF Tasks!Refresh, Tasks!Refreshed
<1>2. (\A u \in Tasks!Tasks : TasksFresh(u)') /\ Tasks!Recorded' = Tasks!Recorded
  BY <1>1, TasksShownAll DEF Tasks!Recorded
<1>3. \A k \in Tasks!Recorded : TasksDated(k)' /\ TasksBased(k)'
  <2> SUFFICES ASSUME NEW k \in Tasks!Recorded PROVE TasksDated(k)' /\ TasksBased(k)'
    OBVIOUS
  <2>1. TasksDated(k) /\ TasksBased(k)
    BY DEF TasksSeen
  <2> QED BY <1>1, <2>1 DEF TasksDated, TasksRefers, TasksBased, TasksPresent, TasksReviewed, Tasks!Op,
       Tasks!Foreign
<1>4. \A i, k \in Tasks!Recorded : TasksFollows(i, k)'
  BY <1>1 DEF TasksSeen, TasksFollows, TasksPresent, TasksReviewed, TasksIsActive, Tasks!Op, Tasks!Foreign
<1>5. TasksOut'
  BY <1>1 DEF TasksOut, Tasks!Serial
<1> QED BY <1>2, <1>3, <1>4, <1>5 DEF TasksSeen

LEMMA TasksRetrySeen == ASSUME TasksIInv, TasksSeen, NEW k \in Tasks!Recorded, Tasks!Retry(k) PROVE TasksSeen'
<1>1. /\ TasksTypeOK /\ Tasks!Recorded = 1 .. Len(ops) /\ Tasks!Serial /\ \A j \in Tasks!Recorded : ops[j] \in TasksOperation
      /\ UNCHANGED <<server, revision, externals, request>> /\ cached' = server
      /\ \A u \in Tasks!Tasks : known'[u] \in {known[u], server[u]}
  BY TasksQueue DEF TasksIInv, Tasks!Retry, Tasks!Refreshed, Tasks!Unsettled
<1>2. PICK t \in Tasks!Tasks : t = Tasks!Op(k).task
  BY TasksOfOne
<1>3. PICK base \in {Tasks!Op(k).base, server[t]} : base = IF Tasks!Op(k).kind = "create" THEN Tasks!Op(k).base ELSE server[t]
  OBVIOUS
<1>4. PICK set \in SUBSET Tasks!Recorded : set = {j \in Tasks!Recorded : j > k /\ j \in Tasks!Of(t) /\ Tasks!Op(j).status = "queued" /\ Tasks!Rebases(k, j)}
  OBVIOUS
<1>5. ops' = [j \in Tasks!Recorded |-> IF j = k THEN [Tasks!Op(k) EXCEPT !.status = "queued", !.base = base, !.error = "none"]
                                       ELSE IF j \in set THEN [Tasks!Op(j) EXCEPT !.base = base] ELSE Tasks!Op(j)]
  BY <1>2, <1>3, <1>4 DEF Tasks!Retry
<1>6. reviewed' = [j \in Tasks!Recorded |-> IF j = k \/ j \in set THEN Tasks!Foreign(t) ELSE reviewed[j]]
  BY <1>2, <1>4 DEF Tasks!Retry
<1>7. Tasks!Recorded' = Tasks!Recorded
  BY <1>5 DEF Tasks!Recorded
<1>8. \A j \in set : j > k /\ Tasks!Op(j).task = t /\ Tasks!Op(j).status = "queued"
  BY <1>4 DEF Tasks!Of
<1>9. \A j \in Tasks!Recorded : j > k /\ Tasks!Op(j).task = t /\ Tasks!Op(j).status = "queued" /\ Tasks!Op(j).base = 0 => j \in set
  BY <1>4 DEF Tasks!Of, Tasks!Rebases
<1>10. ASSUME NEW j \in Tasks!Recorded
       PROVE  /\ Tasks!Op(j)'.task = Tasks!Op(j).task /\ Tasks!Op(j)'.kind = Tasks!Op(j).kind /\ Tasks!Op(j)'.result = Tasks!Op(j).result
              /\ Tasks!Op(j)'.base = IF j = k \/ j \in set THEN base ELSE Tasks!Op(j).base
              /\ Tasks!Op(j)'.status = IF j = k THEN "queued" ELSE Tasks!Op(j).status
              /\ reviewed'[j] = IF j = k \/ j \in set THEN Tasks!Foreign(t) ELSE reviewed[j]
              /\ j \in Nat /\ k \in Nat
  <2>1. ops[j] \in TasksOperation /\ ops[k] \in TasksOperation /\ j \in Nat /\ k \in Nat
    BY <1>1
  <2> QED BY <1>5, <1>6, <2>1 DEF Tasks!Op, TasksOperation
<1> HIDE <1>4, <1>5, <1>6
<1>11. ASSUME NEW j \in Tasks!Recorded
       PROVE  /\ Tasks!Op(j)'.task = Tasks!Op(j).task /\ Tasks!Op(j)'.kind = Tasks!Op(j).kind
              /\ Tasks!Op(j)'.base = Tasks!Op(j).base \/ (Tasks!Op(j).task = t /\ Tasks!Op(j)'.base \in {Tasks!Op(k).base, server[t]})
              /\ Tasks!Op(j)'.result = Tasks!Op(j).result \/ (Tasks!Op(j).task = t /\ Tasks!Op(j)'.result = server[t])
              /\ Tasks!Op(j).task # t \/ j < k => TasksAlike(j)
              /\ TasksAlike(j) \/ reviewed'[j] = Tasks!Foreign(t) \/ Tasks!Op(j)'.status = "succeeded"
              /\ Tasks!Op(j).task = t /\ j > k /\ Tasks!Op(j)'.status = "queued" /\ Tasks!Op(j)'.base = 0 => reviewed'[j] = Tasks!Foreign(t)
  <2>1. CASE j = k
    BY <1>2, <1>3, <1>10, <2>1
  <2>2. CASE j # k /\ j \in set
    BY <1>3, <1>8, <1>10, <2>2
  <2>3. CASE j # k /\ j \notin set
    BY <1>9, <1>10, <2>3 DEF TasksAlike
  <2> QED BY <2>1, <2>2, <2>3
<1> QED BY <1>1, <1>2, <1>7, <1>11, TasksResolved

LEMMA TasksAcceptSeen == ASSUME TasksIInv, TasksSeen, NEW k \in Tasks!Recorded, Tasks!Accept(k) PROVE TasksSeen'
<1>1. /\ TasksTypeOK /\ Tasks!Recorded = 1 .. Len(ops) /\ Tasks!Serial /\ \A j \in Tasks!Recorded : ops[j] \in TasksOperation
      /\ UNCHANGED <<server, revision, externals, request>> /\ cached' = server
      /\ \A u \in Tasks!Tasks : known'[u] \in {known[u], server[u]}
  BY TasksQueue DEF TasksIInv, Tasks!Accept, Tasks!Unsettled
<1>2. PICK t \in Tasks!Tasks : t = Tasks!Op(k).task
  BY TasksOfOne
<1>3. PICK set \in SUBSET Tasks!Recorded :
          set = {j \in Tasks!Recorded : j > k /\ j \in Tasks!Of(t) /\ Tasks!Op(j).status = "queued" /\ Tasks!Op(k).kind # "delete" /\ Tasks!Rebases(k, j)}
  OBVIOUS
<1>4. PICK other \in SUBSET Tasks!Recorded :
          other = {j \in Tasks!Recorded : j > k /\ j \in Tasks!Of(t) /\ Tasks!Op(j).status = "queued" /\ Tasks!Rebases(k, j)}
  OBVIOUS
<1>5. ops' = [j \in Tasks!Recorded |-> IF j \in set THEN [Tasks!Op(j) EXCEPT !.base = server[t]]
                                       ELSE [ops EXCEPT ![k].status = "succeeded", ![k].result = server[t]][j]]
  BY <1>2, <1>3 DEF Tasks!Accept
<1>6. reviewed' = [j \in Tasks!Recorded |-> IF j \in other THEN Tasks!Foreign(t) ELSE reviewed[j]]
  BY <1>2, <1>4 DEF Tasks!Accept
<1>7. Tasks!Recorded' = Tasks!Recorded
  BY <1>5 DEF Tasks!Recorded
<1>8. set \subseteq other /\ \A j \in other : j > k /\ Tasks!Op(j).task = t /\ Tasks!Op(j).status = "queued"
  BY <1>3, <1>4 DEF Tasks!Of
<1>9. \A j \in Tasks!Recorded : j > k /\ Tasks!Op(j).task = t /\ Tasks!Op(j).status = "queued" /\ Tasks!Op(j).base = 0 => j \in other
  BY <1>4 DEF Tasks!Of, Tasks!Rebases
<1>10. ASSUME NEW j \in Tasks!Recorded
       PROVE  /\ Tasks!Op(j)'.task = Tasks!Op(j).task /\ Tasks!Op(j)'.kind = Tasks!Op(j).kind
              /\ Tasks!Op(j)'.result = IF j = k THEN server[t] ELSE Tasks!Op(j).result
              /\ Tasks!Op(j)'.base = IF j \in set THEN server[t] ELSE Tasks!Op(j).base
              /\ Tasks!Op(j)'.status = IF j = k THEN "succeeded" ELSE Tasks!Op(j).status
              /\ reviewed'[j] = IF j \in other THEN Tasks!Foreign(t) ELSE reviewed[j]
              /\ j \in Nat /\ k \in Nat
  <2>1. ops[j] \in TasksOperation /\ ops[k] \in TasksOperation /\ j \in Nat /\ k \in Nat /\ k \notin set
    BY <1>1, <1>3
  <2>2. CASE j \in set
    BY <1>5, <1>6, <2>1, <2>2 DEF Tasks!Op, TasksOperation
  <2>3. CASE j = k
    BY <1>5, <1>6, <2>1, <2>3 DEF Tasks!Op, TasksOperation, Tasks!Recorded
  <2>4. CASE j # k /\ j \notin set
    BY <1>5, <1>6, <2>1, <2>4 DEF Tasks!Op, TasksOperation, Tasks!Recorded
  <2> QED BY <2>2, <2>3, <2>4
<1>11. ASSUME NEW j \in Tasks!Recorded
       PROVE  /\ Tasks!Op(j)'.task = Tasks!Op(j).task /\ Tasks!Op(j)'.kind = Tasks!Op(j).kind
              /\ Tasks!Op(j)'.base = Tasks!Op(j).base \/ (Tasks!Op(j).task = t /\ Tasks!Op(j)'.base \in {Tasks!Op(k).base, server[t]})
              /\ Tasks!Op(j)'.result = Tasks!Op(j).result \/ (Tasks!Op(j).task = t /\ Tasks!Op(j)'.result = server[t])
              /\ Tasks!Op(j).task # t \/ j < k => TasksAlike(j)
              /\ TasksAlike(j) \/ reviewed'[j] = Tasks!Foreign(t) \/ Tasks!Op(j)'.status = "succeeded"
              /\ Tasks!Op(j).task = t /\ j > k /\ Tasks!Op(j)'.status = "queued" /\ Tasks!Op(j)'.base = 0 => reviewed'[j] = Tasks!Foreign(t)
  <2>1. CASE j = k
    <3>1. k \notin set
      BY <1>8, <1>10
    <3> QED BY <1>2, <1>10, <2>1, <3>1
  <2>2. CASE j # k /\ j \in other
    <3>1. Tasks!Op(j).task = t /\ j > k
      BY <1>8, <2>2
    <3> QED BY <1>10, <2>2, <3>1
  <2>3. CASE j # k /\ j \notin other
    <3>1. j \notin set
      BY <1>8, <2>3
    <3> QED BY <1>9, <1>10, <2>3, <3>1 DEF TasksAlike
  <2> QED BY <2>1, <2>2, <2>3
<1> QED BY <1>1, <1>2, <1>7, <1>11, TasksResolved

LEMMA TasksStepSeen == TasksIInv /\ TasksSeen /\ [Tasks!Next]_tasksVars => TasksSeen'
<1> SUFFICES ASSUME TasksIInv, TasksSeen, [Tasks!Next]_tasksVars PROVE TasksSeen'
  OBVIOUS
<1>1. TasksIInv'
  BY TasksStepInv
<1>2. CASE UNCHANGED tasksVars
  <2>1. Tasks!Recorded' = Tasks!Recorded /\ \A t \in Tasks!Tasks : Tasks!Foreign(t)' = Tasks!Foreign(t) /\ TasksFresh(t)'
    BY <1>2 DEF tasksVars, TasksSeen, TasksFresh, Tasks!Recorded, Tasks!Foreign
  <2>2. \A k \in Tasks!Recorded : Tasks!Op(k)' = Tasks!Op(k) /\ (TasksReviewed(k)' <=> TasksReviewed(k))
    BY <1>2 DEF tasksVars, Tasks!Op, TasksReviewed, Tasks!Foreign
  <2>3. \A k \in Tasks!Recorded : TasksDated(k)' /\ TasksBased(k)'
    BY <1>2, <2>2 DEF tasksVars, TasksSeen, TasksDated, TasksRefers, TasksBased, TasksPresent
  <2>4. \A i, k \in Tasks!Recorded : TasksFollows(i, k)'
    BY <1>2, <2>2 DEF tasksVars, TasksSeen, TasksFollows, TasksPresent, TasksIsActive
  <2>5. TasksOut'
    BY <1>2 DEF tasksVars, TasksSeen, TasksOut, TasksCarried, TasksHolds, Tasks!Rebases, TasksRefers,
         TasksReviewed, Tasks!Op, Tasks!Recorded, TasksIsActive, Tasks!Foreign
  <2> QED BY <2>1, <2>3, <2>4, <2>5 DEF TasksSeen
<1>3. ASSUME NEW t \in Tasks!Tasks, NEW kind \in {"update", "delete"}, Tasks!Edit(t, kind) PROVE TasksSeen'
  BY <1>1, <1>3, TasksEditSeen
<1>4. ASSUME NEW t \in Tasks!Tasks, Tasks!External(t) PROVE TasksSeen'
  BY <1>4, TasksExternalSeen
<1>5. ASSUME NEW k, Tasks!Undo(k) \/ Tasks!Discard(k) \/ Tasks!Retry(k) \/ Tasks!Accept(k) PROVE TasksSeen'
  <2>1. k \in Tasks!Recorded
    BY <1>5 DEF Tasks!Undo, Tasks!Discard, Tasks!Retry, Tasks!Accept, Tasks!Unsettled
  <2> QED BY <1>1, <1>5, <2>1, TasksUndoSeen, TasksDiscardSeen, TasksRetrySeen, TasksAcceptSeen
<1>6. ASSUME Tasks!Complete \/ Tasks!Send PROVE TasksSeen'
  BY <1>1, <1>6, TasksCompleteSeen, TasksSendSeen
<1> QED BY <1>2, <1>3, <1>4, <1>5, <1>6, TasksProviderSeen, TasksAnswerSeen, TasksParkedSeen, TasksRefreshSeen
     DEF Tasks!Next

\* A recorded change is carried out by ProviderApplies alone.
LEMMA TasksOnlyTheProvider ==
    ASSUME TasksIInv, TasksIInv', [Tasks!Next]_tasksVars, NEW k \in Tasks!Recorded, applied'[k] > applied[k]
    PROVE  Tasks!ProviderApplies /\ k = request.op
<1>0. /\ Tasks!Recorded = 1 .. Len(ops) /\ Len(applied) = Len(ops) /\ applied \in Seq(Nat) /\ k \in Nat /\ applied[k] \in Nat
  <2>1. TasksTypeOK
    BY DEF TasksIInv
  <2> QED BY <2>1, TasksQueue DEF TasksTypeOK
<1>1. ASSUME NEW new, NEW views, Tasks!Record(new, views), Len(new) \in Nat PROVE applied'[k] = applied[k]
  <2>1. applied' = applied \o [i \in 1 .. Len(new) |-> 0]
    BY <1>1 DEF Tasks!Record
  <2>2. [i \in 1 .. Len(new) |-> 0] \in Seq(Nat)
    BY <1>1
  <2> QED BY <1>0, <2>1, <2>2
<1>2. CASE Tasks!ProviderApplies
  <2>1. PICK n : n = request.op
    OBVIOUS
  <2>2. applied' = [applied EXCEPT ![n] = @ + 1]
    BY <1>2, <2>1 DEF Tasks!ProviderApplies
  <2> QED BY <1>0, <1>2, <2>1, <2>2
<1>3. CASE applied' = applied
  BY <1>0, <1>3
<1>4. ASSUME NEW t \in Tasks!Tasks, NEW kind, Tasks!Edit(t, kind) PROVE FALSE
  <2>1. Tasks!Record(<<kind>>, <<Tasks!SeenNow(t)>>) /\ Len(<<kind>>) \in Nat
    BY <1>4 DEF Tasks!Edit
  <2> QED BY <1>0, <1>1, <2>1
<1>5. CASE Tasks!Complete
  <2> DEFINE n == Len(ops) + 1
             fresh == occurrence = Tasks!NoOccurrence \/ Tasks!Op(occurrence.creation).status = "cancelled"
             new == IF fresh THEN <<Tasks!Change(1, "update", known[1], 0), Tasks!Change(2, "create", 0, n)>>
                             ELSE <<Tasks!Change(1, "update", known[1], 0)>>
  <2>1. Tasks!Record(new, [i \in 1..Len(new) |-> Tasks!SeenNow(1)])
    BY <1>5 DEF Tasks!Complete
  <2>2. Len(new) \in Nat
    OBVIOUS
  <2> HIDE DEF new
  <2> QED BY <1>0, <1>1, <2>1, <2>2
<1>6. ASSUME NEW j, Tasks!Undo(j) PROVE FALSE
  <2>1. CASE Tasks!Record(<<j>>, <<Tasks!SeenNow(Tasks!Op(j).task)>>)
    <3>1. Len(<<j>>) \in Nat
      OBVIOUS
    <3> QED BY <1>0, <1>1, <2>1, <3>1
  <2> QED BY <1>3, <1>0, <1>6, <2>1 DEF Tasks!Undo
<1>7. CASE \/ \E t \in Tasks!Tasks : Tasks!External(t)
           \/ \E j \in 1 .. NChanges : Tasks!Discard(j) \/ Tasks!Retry(j) \/ Tasks!Accept(j)
           \/ Tasks!Send \/ Tasks!Answered \/ Tasks!RevisionRefused \/ Tasks!RateLimited \/ Tasks!Rejected \/ Tasks!Uncertain
           \/ Tasks!Restart \/ Tasks!Restore \/ Tasks!Refresh \/ UNCHANGED tasksVars
  <2>1. applied' = applied
    BY <1>7 DEF tasksVars, Tasks!External, Tasks!Discard, Tasks!Retry, Tasks!Accept, Tasks!Send, Tasks!Answered,
         Tasks!RevisionRefused, Tasks!RateLimited, Tasks!Rejected, Tasks!Uncertain, Tasks!Restart,
         Tasks!Restore, Tasks!Refresh
  <2> QED BY <1>0, <2>1
<1> QED BY <1>2, <1>4, <1>5, <1>6, <1>7, <1>0 DEF Tasks!Next

TasksUnseen == \A k \in Tasks!Recorded :
    applied'[k] > applied[k] /\ Tasks!Op(k).kind # "create" => reviewed[k] >= Tasks!Foreign(Tasks!Op(k).task)

\* It is carried out over a revision that was reviewed.
LEMMA TasksUnseenStep == TasksIInv /\ TasksSeen /\ [Tasks!Next]_tasksVars => [TasksUnseen]_tasksVars
<1> SUFFICES ASSUME TasksIInv, TasksSeen, [Tasks!Next]_tasksVars, NEW k \in Tasks!Recorded, applied'[k] > applied[k], Tasks!Op(k).kind # "create"
             PROVE  reviewed[k] >= Tasks!Foreign(Tasks!Op(k).task)
  BY DEF TasksUnseen
<1>1. Tasks!ProviderApplies /\ k = request.op
  BY TasksStepInv, TasksOnlyTheProvider
<1>2. request # Tasks!Resting /\ TasksOut /\ TasksBased(k) /\ Tasks!Op(k).status = "running"
  BY <1>1 DEF Tasks!ProviderApplies, Tasks!Resting, TasksSeen, TasksIInv, TasksAwaited
<1>3. Tasks!Op(k).base # 0 /\ Tasks!Op(k).base = server[Tasks!Op(k).task]
  BY <1>1, <1>2 DEF TasksOut, Tasks!ProviderApplies, Tasks!Matches, Tasks!Revision
<1> QED BY <1>2, <1>3 DEF TasksBased, TasksPresent, TasksReviewed

LEMMA TasksMoves ==
    ASSUME [AllNext]_allVars
    PROVE  [Tasks!Next]_tasksVars
BY DEF AllNext, allVars, ChatOnly, TasksOnly, ListsOnly, PopOnly, RestoreOnly, DavOnly

\* A change of a task is carried out at the provider at most once, a success is
\* not recorded before, and the next occurrence is created only when the
\* completion it follows was, whatever fails, is retried, undone or restored.
THEOREM TaskQueueStaysSound ==
    AllSpec => []QueueIsSound
<1>1. AllInit => TasksIInv
  BY TasksInitInv, QueuesConstants DEF AllInit
<1>2. TasksIInv /\ [AllNext]_allVars => TasksIInv'
  BY TasksMoves, TasksStepInv
<1>3. TasksIInv => QueueIsSound
  BY TasksSound DEF QueueIsSound
<1> QED BY <1>1, <1>2, <1>3, PTL DEF AllSpec

\* The provider carries a change out only over a version of the task of which the
\* user had seen all that others had done, when he made the change or repeated it.
THEOREM TaskVersionsAreSeen ==
    AllSpec => Tasks!NothingOverwritten
<1>1. AllInit => TasksIInv /\ TasksSeen
  BY TasksInitInv, TasksInitSeen, QueuesConstants DEF AllInit
<1>2. TasksIInv /\ TasksSeen /\ [AllNext]_allVars => (TasksIInv /\ TasksSeen)'
  BY TasksMoves, TasksStepInv, TasksStepSeen
<1>3. TasksIInv /\ TasksSeen /\ (TasksIInv /\ TasksSeen)' /\ [AllNext]_allVars => [TasksUnseen]_tasksVars
  BY TasksMoves, TasksUnseenStep
<1> QED BY <1>1, <1>2, <1>3, PTL DEF AllSpec, TasksUnseen, Tasks!NothingOverwritten, Tasks!vars, tasksVars

-----------------------------------------------------------------------------
(* The changes of task lists: creations, renamings and deletions.          *)

ListsKinds == {"create", "update", "delete"}
ListsOutcomes == {"queued", "running", "failed", "conflict", "review", "succeeded", "cancelled"}
ListsListIds == Lists!Lists \cup {0}
ListsChange == [kind : ListsKinds, list : ListsListIds, base : Nat, status : ListsOutcomes, attempts : Nat,
                result : ListsListIds, before : SUBSET Lists!Lists]
ListsListState == [rev : Nat, title : {"never", "gone", "old", "new", "renamed", "other"}]
ListsCalls == [change : Nat, phase : {"none", "sent", "done"}, list : ListsListIds]
ListsTypeOK ==
    /\ changes \in Seq(ListsChange) /\ done \in Seq(Nat) /\ Len(done) = Len(changes)
    /\ undescribed \in Seq(Nat) /\ Len(undescribed) = Len(changes)
    /\ remote \in [Lists!Lists -> ListsListState] /\ shown \in [Lists!Lists -> ListsListState]
    /\ call \in ListsCalls /\ stamp \in Nat

\* The change that is out, and what the provider has had of the others: it did
\* what they ask only as often as it refused to describe a new list.
ListsAwaited == call # Lists!NoCall =>
    /\ call.phase \in {"sent", "done"} /\ call.change \in Lists!Recorded /\ Lists!Status(call.change) = "running"
    /\ call.phase = "sent" => done[call.change] <= undescribed[call.change]
    /\ call.phase = "sent" /\ changes[call.change].kind = "delete" => waiting[changes[call.change].list] = "none"
ListsNotYet == \A k \in Lists!Recorded :
    /\ Lists!Status(k) \in {"queued", "failed", "conflict"} => done[k] <= undescribed[k]
    /\ Lists!Status(k) = "running" => call.change = k

ListsIInv == ListsTypeOK /\ ListsAwaited /\ ListsNotYet /\ Lists!ListsAreRight

LEMMA ListsInitInv == MaxLists \in Nat /\ Lists!Init => ListsIInv
<1> SUFFICES ASSUME MaxLists \in Nat, Lists!Init PROVE ListsIInv
  OBVIOUS
<1>1. changes = <<>> /\ done = <<>> /\ undescribed = <<>> /\ call = Lists!NoCall /\ stamp = 1 /\ remote = shown
  BY DEF Lists!Init
<1>2. shown \in [Lists!Lists -> ListsListState]
  BY DEF Lists!Init, ListsListState, Lists!Never
<1>3. Lists!NoCall \in ListsCalls
  BY DEF Lists!NoCall, ListsCalls, ListsListIds
<1>4. /\ changes \in Seq(ListsChange) /\ done \in Seq(Nat) /\ Len(done) = Len(changes)
      /\ undescribed \in Seq(Nat) /\ Len(undescribed) = Len(changes)
  BY <1>1
<1>5. Lists!Recorded = {}
  BY <1>1 DEF Lists!Recorded
<1> QED BY <1>1, <1>2, <1>3, <1>4, <1>5 DEF ListsIInv, ListsTypeOK, ListsAwaited, ListsNotYet,
     Lists!ListsAreRight, Lists!ListChangedOnce, Lists!OneCreationPerList

LEMMA ListsCallParts ==
    ASSUME NEW c \in ListsCalls
    PROVE  /\ c.change \in Nat /\ c.phase \in {"none", "sent", "done"} /\ c.list \in ListsListIds
           /\ c = [change |-> c.change, phase |-> c.phase, list |-> c.list]
BY DEF ListsCalls

\* What a change is after one of its fields has been written.
LEMMA ListsWithStatus ==
    ASSUME ListsTypeOK, NEW k \in Lists!Recorded, NEW status \in ListsOutcomes
    PROVE  /\ Lists!To(k, status) \in Seq(ListsChange) /\ Len(Lists!To(k, status)) = Len(changes)
           /\ DOMAIN Lists!To(k, status) = Lists!Recorded /\ Lists!Recorded = 1 .. Len(changes)
           /\ \A j \in Lists!Recorded : j # k => Lists!To(k, status)[j] = changes[j]
           /\ Lists!To(k, status)[k].status = status
           /\ Lists!To(k, status)[k].kind = changes[k].kind /\ Lists!To(k, status)[k].list = changes[k].list
           /\ Lists!To(k, status)[k].result = changes[k].result
<1>1. changes \in Seq(ListsChange) /\ Lists!Recorded = 1 .. Len(changes) /\ changes[k] \in ListsChange
  BY DEF ListsTypeOK, Lists!Recorded
<1>2. [changes[k] EXCEPT !.status = status] \in ListsChange
  BY <1>1 DEF ListsChange
<1>3. Lists!To(k, status) = [changes EXCEPT ![k] = [changes[k] EXCEPT !.status = status]]
  BY DEF Lists!To
<1>4. Lists!To(k, status) \in Seq(ListsChange) /\ Len(Lists!To(k, status)) = Len(changes) /\ DOMAIN Lists!To(k, status) = Lists!Recorded
  BY <1>1, <1>2, <1>3
<1>5. \A j \in Lists!Recorded : j # k => Lists!To(k, status)[j] = changes[j]
  BY <1>1, <1>3
<1>6. Lists!To(k, status)[k] = [changes[k] EXCEPT !.status = status]
  BY <1>1, <1>3
<1> QED BY <1>1, <1>4, <1>5, <1>6 DEF ListsChange

\* The fields that a step may write besides the status.
LEMMA ListsRewritten ==
    ASSUME ListsTypeOK, NEW k \in Lists!Recorded, NEW c \in ListsChange, changes' = [changes EXCEPT ![k] = c]
    PROVE  /\ changes' \in Seq(ListsChange) /\ Len(changes') = Len(changes) /\ DOMAIN changes' = Lists!Recorded
           /\ changes'[k] = c /\ \A j \in Lists!Recorded : j # k => changes'[j] = changes[j]
BY DEF ListsTypeOK, Lists!Recorded

\* A step that writes one change, sends nothing and leaves the list of another
\* creation alone keeps what is said of the queue.
LEMMA ListsOneChange ==
    ASSUME ListsIInv, NEW k \in Lists!Recorded, NEW c \in ListsChange, changes' = [changes EXCEPT ![k] = c],
           c.kind = changes[k].kind, c.list = changes[k].list,
           UNCHANGED <<done, waiting>>,
           \/ undescribed' = undescribed
           \/ /\ undescribed' \in Seq(Nat) /\ Len(undescribed') = Len(undescribed)
              /\ \A j \in Lists!Recorded : undescribed[j] <= undescribed'[j],
           c.status \in {"queued", "failed", "conflict", "running"} => done[k] <= undescribed'[k],
           c.kind = "create" /\ c.status = "succeeded" => Lists!Unclaimed(k, c.result),
           \/ call' = Lists!NoCall /\ c.status # "running" /\ (call = Lists!NoCall \/ call.change = k)
           \/ /\ call = Lists!NoCall /\ c.status = "running" /\ call' = [change |-> k, phase |-> "sent", list |-> c.list]
              /\ c.kind = "delete" => waiting[c.list] = "none"
    PROVE  /\ ListsAwaited' /\ ListsNotYet' /\ Lists!ListsAreRight' /\ changes' \in Seq(ListsChange) /\ Len(done') = Len(changes')
           /\ undescribed' \in Seq(Nat) /\ Len(undescribed') = Len(changes') /\ call' \in ListsCalls
<1>0. ListsTypeOK /\ ListsAwaited /\ ListsNotYet /\ Lists!ListsAreRight
  BY DEF ListsIInv
<1>7. /\ undescribed' \in Seq(Nat) /\ Len(undescribed') = Len(undescribed)
      /\ \A j \in Lists!Recorded : /\ done[j] \in Nat /\ undescribed[j] \in Nat /\ undescribed'[j] \in Nat
                                    /\ undescribed[j] <= undescribed'[j]
  <2>1. /\ done \in Seq(Nat) /\ undescribed \in Seq(Nat)
        /\ Lists!Recorded = 1 .. Len(done) /\ Lists!Recorded = 1 .. Len(undescribed)
    BY <1>0 DEF ListsTypeOK, Lists!Recorded
  <2>2. \A j \in Lists!Recorded : done[j] \in Nat /\ undescribed[j] \in Nat
    BY <2>1
  <2>3. CASE undescribed' = undescribed
    BY <2>1, <2>2, <2>3
  <2>4. CASE /\ undescribed' \in Seq(Nat) /\ Len(undescribed') = Len(undescribed)
             /\ \A j \in Lists!Recorded : undescribed[j] <= undescribed'[j]
    <3>1. Lists!Recorded = 1 .. Len(undescribed')
      BY <2>1, <2>4
    <3>2. \A j \in Lists!Recorded : undescribed'[j] \in Nat
      BY <2>4, <3>1
    <3> QED BY <2>2, <2>4, <3>2
  <2> QED BY <2>3, <2>4
<1>1. /\ changes' \in Seq(ListsChange) /\ Len(changes') = Len(changes) /\ Lists!Recorded' = Lists!Recorded
      /\ changes'[k] = c /\ \A j \in Lists!Recorded : j # k => changes'[j] = changes[j]
  BY <1>0, ListsRewritten DEF Lists!Recorded
<1>2. Lists!NoCall \in ListsCalls /\ k \in Nat /\ c.list \in ListsListIds
  <2>1. Lists!NoCall \in ListsCalls
    BY DEF Lists!NoCall, ListsCalls, ListsListIds
  <2>2. k \in Nat
    BY <1>0 DEF Lists!Recorded, ListsTypeOK
  <2>3. c.list \in ListsListIds
    BY DEF ListsChange
  <2> QED BY <2>1, <2>2, <2>3
<1>3. call' \in ListsCalls
  <2>1. [change |-> k, phase |-> "sent", list |-> c.list] \in ListsCalls
    BY <1>2 DEF ListsCalls
  <2> QED BY <1>2, <2>1
<1>4. ListsAwaited'
  <2>1. CASE call' = Lists!NoCall
    BY <2>1 DEF ListsAwaited, Lists!NoCall
  <2>2. CASE call' = [change |-> k, phase |-> "sent", list |-> c.list] /\ c.status = "running" /\ (c.kind = "delete" => waiting[c.list] = "none")
    <3>1. call'.change = k /\ call'.phase = "sent"
      BY <2>2
    <3> QED BY <1>1, <2>2, <3>1 DEF ListsAwaited, Lists!Status
  <2> QED BY <2>1, <2>2
<1>5. ListsNotYet'
  <2>1. ASSUME NEW j \in Lists!Recorded, j # k
        PROVE  /\ changes'[j].status \in {"queued", "failed", "conflict"} => done'[j] <= undescribed'[j]
               /\ changes'[j].status # "running"
    <3>1. Lists!Status(j) # "running"
      BY <1>0, <2>1 DEF ListsNotYet, ListsAwaited, Lists!NoCall, Lists!Recorded, ListsTypeOK
    <3>2. changes[j].status \in {"queued", "failed", "conflict"} => done[j] <= undescribed[j]
      BY <1>0, <2>1 DEF ListsNotYet, Lists!Status
    <3> QED BY <1>1, <1>7, <2>1, <3>1, <3>2 DEF Lists!Status
  <2>2. changes'[k].status = "running" => call'.change = k
    BY <1>1 DEF Lists!NoCall
  <2> QED BY <1>1, <2>1, <2>2 DEF ListsNotYet, Lists!Status
<1>6. Lists!ListsAreRight'
  <2>1. Lists!ListChangedOnce'
    <3>1. \A j \in Lists!Recorded : done[j] <= 1 + undescribed[j]
      BY <1>0 DEF Lists!ListsAreRight, Lists!ListChangedOnce
    <3>2. ASSUME NEW j \in Lists!Recorded PROVE done[j] <= 1 + undescribed'[j]
      <4>1. /\ done[j] \in Nat /\ undescribed[j] \in Nat /\ undescribed'[j] \in Nat
            /\ undescribed[j] <= undescribed'[j]
        BY <1>7
      <4>2. done[j] <= 1 + undescribed[j]
        BY <3>1
      <4> QED BY <4>1, <4>2
    <3> QED BY <1>1, <3>2 DEF Lists!ListChangedOnce
  <2>2. ASSUME NEW i \in Lists!Recorded, NEW j \in Lists!Recorded, changes'[i].kind = "create", changes'[j].kind = "create",
               changes'[i].status = "succeeded", changes'[j].status = "succeeded", changes'[i].result = changes'[j].result
        PROVE  i = j
    <3>1. CASE i # k /\ j # k
      BY <1>0, <1>1, <2>2, <3>1 DEF Lists!ListsAreRight, Lists!OneCreationPerList, Lists!Status
    <3>2. CASE i = k /\ j # k
      BY <1>1, <2>2, <3>2 DEF Lists!Unclaimed, Lists!Status
    <3>3. CASE i # k /\ j = k
      BY <1>1, <2>2, <3>3 DEF Lists!Unclaimed, Lists!Status
    <3> QED BY <3>1, <3>2, <3>3
  <2>3. Lists!OneCreationPerList'
    BY <1>1, <2>2 DEF Lists!OneCreationPerList, Lists!Status
  <2> QED BY <2>1, <2>3 DEF Lists!ListsAreRight
<1> QED BY <1>0, <1>1, <1>3, <1>4, <1>5, <1>6, <1>7 DEF ListsTypeOK

\* finish.
LEMMA ListsFinishesInv ==
    ASSUME ListsIInv, NEW k \in Lists!Recorded, NEW l \in ListsListIds, NEW lists \in [Lists!Lists -> ListsListState], Lists!Finishes(k, l, lists),
           call' = Lists!NoCall, call = Lists!NoCall \/ call.change = k, UNCHANGED <<remote, waiting, stamp, done, undescribed>>
    PROVE  ListsIInv'
<1>0. ListsTypeOK /\ changes[k] \in ListsChange
  BY DEF ListsIInv, ListsTypeOK, Lists!Recorded
<1>1. PICK c \in ListsChange : /\ c = [changes[k] EXCEPT !.status = "succeeded", !.result = l]
                               /\ c.kind = changes[k].kind /\ c.list = changes[k].list
                               /\ c.status = "succeeded" /\ c.result = l
  <2> DEFINE o == [changes[k] EXCEPT !.status = "succeeded", !.result = l]
  <2>1. "succeeded" \in ListsOutcomes
    BY DEF ListsOutcomes
  <2>2. o \in ListsChange
    BY <1>0, <2>1 DEF ListsChange
  <2>3. o.kind = changes[k].kind /\ o.list = changes[k].list /\ o.status = "succeeded" /\ o.result = l
    BY <1>0 DEF ListsChange
  <2> QED BY <2>2, <2>3
<1>2. changes' = [changes EXCEPT ![k] = c]
  BY <1>1 DEF Lists!Finishes
<1>3. c.kind = "create" => Lists!Unclaimed(k, c.result)
  BY <1>1 DEF Lists!Finishes
<1>4. shown' \in [Lists!Lists -> ListsListState]
  BY <1>0 DEF Lists!Finishes, ListsTypeOK
<1>5. ListsAwaited' /\ ListsNotYet' /\ Lists!ListsAreRight' /\ changes' \in Seq(ListsChange) /\ Len(done') = Len(changes') /\ call' \in ListsCalls
      /\ undescribed' \in Seq(Nat) /\ Len(undescribed') = Len(changes')
  BY <1>1, <1>2, <1>3, ListsOneChange
<1> QED BY <1>0, <1>4, <1>5 DEF ListsIInv, ListsTypeOK

\* The status alone is written, and nothing is sent.
LEMMA ListsStatusInv ==
    ASSUME ListsIInv, NEW k \in Lists!Recorded, NEW status \in ListsOutcomes \ {"running", "succeeded"}, changes' = Lists!To(k, status),
           status \in {"queued", "failed", "conflict"} => done[k] <= undescribed'[k],
           call' = Lists!NoCall, call = Lists!NoCall \/ call.change = k,
           \/ undescribed' = undescribed
           \/ /\ undescribed' \in Seq(Nat) /\ Len(undescribed') = Len(undescribed)
              /\ \A j \in Lists!Recorded : undescribed[j] <= undescribed'[j],
           UNCHANGED <<remote, waiting, stamp, done>>, shown' \in [Lists!Lists -> ListsListState]
    PROVE  ListsIInv'
<1>0. ListsTypeOK /\ changes[k] \in ListsChange
  BY DEF ListsIInv, ListsTypeOK, Lists!Recorded
<1>1. PICK c \in ListsChange : /\ c = [changes[k] EXCEPT !.status = status]
                               /\ c.kind = changes[k].kind /\ c.list = changes[k].list /\ c.status = status
  <2> DEFINE o == [changes[k] EXCEPT !.status = status]
  <2>1. o \in ListsChange /\ o.kind = changes[k].kind /\ o.list = changes[k].list /\ o.status = status
    BY <1>0 DEF ListsChange
  <2> QED BY <2>1
<1>2. changes' = [changes EXCEPT ![k] = c]
  BY <1>1 DEF Lists!To
<1>5. ListsAwaited' /\ ListsNotYet' /\ Lists!ListsAreRight' /\ changes' \in Seq(ListsChange) /\ Len(done') = Len(changes') /\ call' \in ListsCalls
      /\ undescribed' \in Seq(Nat) /\ Len(undescribed') = Len(changes')
  BY <1>1, <1>2, ListsOneChange
<1> QED BY <1>0, <1>5 DEF ListsIInv, ListsTypeOK

LEMMA ListsSendInv == ASSUME ListsIInv, Lists!SendChange PROVE ListsIInv'
<1>0. ListsTypeOK /\ ListsNotYet /\ Lists!Idle /\ Len(changes) \in Nat
  BY DEF ListsIInv, Lists!SendChange, ListsTypeOK
<1>1. PICK k \in Lists!Recorded :
          /\ Lists!FirstQueued(k)
          /\ IF changes[k].kind = "delete" /\ Lists!PendingTasks(changes[k].list)
             THEN changes' = [Lists!To(k, "failed") EXCEPT ![k].attempts = @ + 1] /\ UNCHANGED call
             ELSE /\ changes' = [Lists!To(k, "running") EXCEPT ![k].attempts = @ + 1]
                  /\ call' = [change |-> k, phase |-> "sent", list |-> changes[k].list]
  BY DEF Lists!SendChange
<1>2. changes[k] \in ListsChange /\ changes[k].attempts + 1 \in Nat /\ done[k] <= undescribed[k] /\ changes \in Seq(ListsChange)
  <2>1. changes \in Seq(ListsChange) /\ changes[k] \in ListsChange /\ done[k] <= undescribed[k]
    BY <1>0, <1>1 DEF ListsTypeOK, Lists!Recorded, ListsNotYet, Lists!FirstQueued
  <2> QED BY <2>1 DEF ListsChange
<1>3. ASSUME NEW status \in {"failed", "running"}, changes' = [Lists!To(k, status) EXCEPT ![k].attempts = @ + 1]
      PROVE  \E c \in ListsChange : /\ changes' = [changes EXCEPT ![k] = c]
                                     /\ c.kind = changes[k].kind /\ c.list = changes[k].list /\ c.status = status
  <2> DEFINE o == [changes[k] EXCEPT !.status = status, !.attempts = @ + 1]
  <2>1. status \in ListsOutcomes
    BY DEF ListsOutcomes
  <2>2. o \in ListsChange /\ o.kind = changes[k].kind /\ o.list = changes[k].list /\ o.status = status
    BY <1>2, <2>1 DEF ListsChange
  <2>3. changes' = [changes EXCEPT ![k] = o]
    BY <1>2, <1>3 DEF Lists!To, Lists!Recorded, ListsChange
  <2> QED BY <2>2, <2>3
<1>4. CASE changes[k].kind = "delete" /\ Lists!PendingTasks(changes[k].list)
  <2>1. PICK c \in ListsChange : /\ changes' = [changes EXCEPT ![k] = c]
                                 /\ c.kind = changes[k].kind /\ c.list = changes[k].list /\ c.status = "failed"
    BY <1>1, <1>3, <1>4
  <2>2. UNCHANGED <<done, undescribed, waiting>> /\ call' = Lists!NoCall /\ call = Lists!NoCall
    BY <1>0, <1>1, <1>4 DEF Lists!SendChange, Lists!Idle
  <2>3. ListsAwaited' /\ ListsNotYet' /\ Lists!ListsAreRight' /\ changes' \in Seq(ListsChange) /\ Len(done') = Len(changes') /\ call' \in ListsCalls
        /\ undescribed' \in Seq(Nat) /\ Len(undescribed') = Len(changes')
    BY <1>2, <2>1, <2>2, ListsOneChange
  <2> QED BY <1>0, <2>3 DEF ListsIInv, ListsTypeOK, Lists!SendChange
<1>5. CASE ~(changes[k].kind = "delete" /\ Lists!PendingTasks(changes[k].list))
  <2>1. PICK c \in ListsChange : /\ changes' = [changes EXCEPT ![k] = c]
                                 /\ c.kind = changes[k].kind /\ c.list = changes[k].list /\ c.status = "running"
    BY <1>1, <1>3, <1>5
  <2>2. UNCHANGED <<done, undescribed, waiting>> /\ call' = [change |-> k, phase |-> "sent", list |-> c.list] /\ call = Lists!NoCall
        /\ (c.kind = "delete" => waiting[c.list] = "none")
    BY <1>0, <1>1, <1>5, <2>1 DEF Lists!SendChange, Lists!Idle, Lists!PendingTasks
  <2>3. ListsAwaited' /\ ListsNotYet' /\ Lists!ListsAreRight' /\ changes' \in Seq(ListsChange) /\ Len(done') = Len(changes') /\ call' \in ListsCalls
        /\ undescribed' \in Seq(Nat) /\ Len(undescribed') = Len(changes')
    BY <1>2, <2>1, <2>2, ListsOneChange
  <2> QED BY <1>0, <2>3 DEF ListsIInv, ListsTypeOK, Lists!SendChange
<1> QED BY <1>4, <1>5

LEMMA ListsProviderInv == ASSUME ListsIInv, Lists!ProviderChanges PROVE ListsIInv'
<1> DEFINE k == call.change
           kind == changes[k].kind
           l == IF kind = "create" THEN Lists!NewList ELSE changes[k].list
<1>0. /\ ListsTypeOK /\ ListsAwaited /\ ListsNotYet /\ Lists!ListsAreRight /\ call # Lists!NoCall /\ call.phase = "sent"
      /\ k \in Lists!Recorded /\ Lists!Status(k) = "running" /\ done[k] <= undescribed[k] /\ call \in ListsCalls /\ stamp \in Nat
      /\ changes[k] \in ListsChange /\ UNCHANGED <<changes, shown, waiting, undescribed>>
  BY DEF ListsIInv, Lists!ProviderChanges, ListsAwaited, Lists!NoCall, ListsTypeOK, Lists!Recorded
<1>1. Lists!NewList \in Lists!Lists \/ kind # "create"
  BY DEF Lists!ProviderChanges, Lists!NewList
<1>2. l \in ListsListIds
  BY <1>0, <1>1 DEF ListsChange, ListsListIds
<1>3. /\ remote' = [remote EXCEPT ![l] = IF kind = "delete" THEN Lists!Gone ELSE [rev |-> stamp + 1, title |-> Lists!Title(kind)]]
      /\ call' = [call EXCEPT !.phase = "done", !.list = l] /\ stamp' = stamp + 1 /\ done' = [done EXCEPT ![k] = @ + 1]
  BY DEF Lists!ProviderChanges
<1> HIDE DEF l, kind
<1>4. remote' \in [Lists!Lists -> ListsListState]
  <2>1. Lists!Gone \in ListsListState /\ [rev |-> stamp + 1, title |-> Lists!Title(kind)] \in ListsListState
    BY <1>0 DEF Lists!Gone, ListsListState, Lists!Title
  <2> QED BY <1>0, <1>3, <2>1 DEF ListsTypeOK
<1>5. call' \in ListsCalls /\ call'.change = k /\ call'.phase = "done"
  BY <1>0, <1>2, <1>3 DEF ListsCalls
<1>6. done' \in Seq(Nat) /\ Len(done') = Len(done) /\ done'[k] = done[k] + 1
      /\ \A j \in Lists!Recorded : j # k => done'[j] = done[j]
  <2>1. done \in Seq(Nat) /\ k \in 1 .. Len(done) /\ Lists!Recorded = 1 .. Len(done)
    BY <1>0 DEF ListsTypeOK, Lists!Recorded
  <2> HIDE DEF k
  <2> QED BY <1>0, <1>3, <2>1
<1>7. ListsTypeOK'
  <2>1. undescribed' = undescribed /\ UNCHANGED <<changes, shown>>
    BY DEF Lists!ProviderChanges
  <2>2. done' \in Seq(Nat) /\ Len(done') = Len(changes') /\ stamp' \in Nat
    BY <1>0, <1>3, <1>6, <2>1 DEF ListsTypeOK
  <2> QED BY <1>0, <1>4, <1>5, <2>1, <2>2 DEF ListsTypeOK
<1>8. ListsAwaited'
  BY <1>0, <1>5 DEF ListsAwaited, Lists!Status, Lists!Recorded
<1>9. ListsNotYet'
  BY <1>0, <1>5, <1>6 DEF ListsNotYet, Lists!Status, Lists!Recorded
<1>10. Lists!ListChangedOnce'
  <2>1. \A j \in Lists!Recorded : done[j] \in Nat /\ undescribed[j] \in Nat
    BY <1>0 DEF ListsTypeOK, Lists!Recorded
  <2> HIDE DEF k
  <2> QED BY <1>0, <1>6, <2>1 DEF Lists!ListsAreRight, Lists!ListChangedOnce, Lists!Recorded
<1>11. Lists!OneCreationPerList'
  BY <1>0 DEF Lists!ListsAreRight, Lists!OneCreationPerList, Lists!Status, Lists!Recorded
<1> QED BY <1>7, <1>8, <1>9, <1>10, <1>11 DEF ListsIInv, Lists!ListsAreRight

LEMMA ListsEnqueueInv ==
    ASSUME ListsIInv, NEW kind \in ListsKinds, NEW l \in ListsListIds, Lists!Enqueue(kind, l)
    PROVE  ListsIInv'
<1> DEFINE c == Lists!ListChange(kind, l)
<1>0. /\ ListsTypeOK /\ ListsAwaited /\ ListsNotYet /\ Lists!ListsAreRight /\ Lists!Idle /\ UNCHANGED <<shown, remote, waiting, call, stamp>>
      /\ changes' = Append(changes, c) /\ done' = Append(done, 0) /\ undescribed' = Append(undescribed, 0)
      /\ changes \in Seq(ListsChange) /\ done \in Seq(Nat) /\ Len(done) = Len(changes)
      /\ undescribed \in Seq(Nat) /\ Len(undescribed) = Len(changes)
  BY DEF ListsIInv, Lists!Enqueue, ListsTypeOK
<1>1. c \in ListsChange /\ c.status = "queued"
  <2>1. l # 0 => l \in Lists!Lists
    BY DEF ListsListIds
  <2>2. (IF l = 0 THEN 0 ELSE shown[l].rev) \in Nat
    BY <1>0, <2>1 DEF ListsTypeOK, ListsListState
  <2>3. (IF kind = "create" THEN Lists!Present(shown) ELSE {}) \in SUBSET Lists!Lists
    BY DEF Lists!Present
  <2>4. "queued" \in ListsOutcomes /\ 0 \in ListsListIds
    BY DEF ListsOutcomes, ListsListIds
  <2> QED BY <2>2, <2>3, <2>4 DEF Lists!ListChange, ListsChange
<1> HIDE DEF c
<1>2. /\ changes' \in Seq(ListsChange) /\ done' \in Seq(Nat) /\ Len(done') = Len(changes')
      /\ Lists!Recorded = 1 .. Len(changes) /\ Lists!Recorded' = 1 .. (Len(changes) + 1) /\ Len(changes) \in Nat
      /\ undescribed' \in Seq(Nat) /\ Len(undescribed') = Len(changes')
      /\ \A j \in Lists!Recorded : changes'[j] = changes[j] /\ done'[j] = done[j] /\ undescribed'[j] = undescribed[j]
      /\ changes'[Len(changes) + 1] = c /\ done'[Len(changes) + 1] = 0 /\ undescribed'[Len(changes) + 1] = 0
  BY <1>0, <1>1 DEF Lists!Recorded
<1>3. \A j \in Lists!Recorded' : j \in Lists!Recorded \/ j = Len(changes) + 1
  BY <1>2
<1>4. ListsTypeOK' /\ ListsAwaited'
  BY <1>0, <1>2 DEF ListsTypeOK, ListsAwaited, Lists!Idle
<1>5. ListsNotYet'
  BY <1>0, <1>1, <1>2, <1>3 DEF ListsNotYet, Lists!Status
<1>6. Lists!ListChangedOnce'
  BY <1>0, <1>2, <1>3 DEF Lists!ListsAreRight, Lists!ListChangedOnce
<1>7. Lists!OneCreationPerList'
  BY <1>0, <1>1, <1>2, <1>3 DEF Lists!ListsAreRight, Lists!OneCreationPerList, Lists!Status
<1> QED BY <1>4, <1>5, <1>6, <1>7 DEF ListsIInv, Lists!ListsAreRight

\* The application ends and starts again, or takes over a backup.
LEMMA ListsAllReview ==
    ASSUME ListsIInv, Lists!Crash \/ Lists!RestoreLists
    PROVE  ListsIInv'
<1>0. /\ ListsTypeOK /\ ListsAwaited /\ ListsNotYet /\ Lists!ListsAreRight /\ UNCHANGED <<shown, remote, waiting, stamp, done, undescribed>> /\ call' = Lists!NoCall
      /\ changes \in Seq(ListsChange) /\ Lists!Recorded = 1 .. Len(changes) /\ Len(changes) \in Nat
  BY DEF ListsIInv, Lists!Crash, Lists!RestoreLists, ListsTypeOK, Lists!Recorded, Lists!Idle
<1>1. ASSUME NEW j \in Lists!Recorded
      PROVE  \E to \in {Lists!Status(j), "review"} :
                /\ changes'[j] = [changes[j] EXCEPT !.status = to] /\ to # "running"
                /\ to = Lists!Status(j) \/ Lists!Status(j) # "succeeded"
  <2>1. CASE Lists!Crash
    BY <1>0, <2>1 DEF Lists!Crash, Lists!Interrupted
  <2>2. CASE Lists!RestoreLists
    BY <1>0, <2>2 DEF Lists!RestoreLists, Lists!Active, Lists!Status
  <2> QED BY <2>1, <2>2
<1>2. ASSUME NEW j \in Lists!Recorded
      PROVE  /\ changes'[j] \in ListsChange /\ changes'[j].kind = changes[j].kind /\ changes'[j].result = changes[j].result
             /\ changes'[j].status \in {Lists!Status(j), "review"} /\ changes'[j].status # "running"
  <2>1. PICK to \in {Lists!Status(j), "review"} : changes'[j] = [changes[j] EXCEPT !.status = to] /\ to # "running"
    BY <1>1
  <2>2. changes[j] \in ListsChange
    BY <1>0
  <2>3. to \in ListsOutcomes
    BY <2>2 DEF Lists!Status, ListsChange, ListsOutcomes
  <2>4. [changes[j] EXCEPT !.status = to] \in ListsChange
    BY <2>2, <2>3 DEF ListsChange
  <2> QED BY <2>1, <2>2, <2>4 DEF ListsChange
<1>3. changes' \in Seq(ListsChange) /\ Len(changes') = Len(changes) /\ Lists!Recorded' = Lists!Recorded
  <2>1. \E f \in [Lists!Recorded -> {changes'[j] : j \in Lists!Recorded}] : changes' = f
    BY <1>0 DEF Lists!Crash, Lists!RestoreLists
  <2>2. changes' \in [1 .. Len(changes) -> ListsChange]
    BY <1>0, <1>2, <2>1
  <2> QED BY <1>0, <2>2 DEF Lists!Recorded
<1>4. Lists!NoCall \in ListsCalls
  BY DEF Lists!NoCall, ListsCalls, ListsListIds
<1>5. ListsTypeOK' /\ ListsAwaited'
  BY <1>0, <1>3, <1>4 DEF ListsTypeOK, ListsAwaited
<1>6. ListsNotYet'
  BY <1>0, <1>2, <1>3 DEF ListsNotYet, Lists!Status
<1>7. Lists!ListChangedOnce'
  BY <1>0, <1>3 DEF Lists!ListsAreRight, Lists!ListChangedOnce
<1>8. Lists!OneCreationPerList'
  <2>1. ASSUME NEW i \in Lists!Recorded, NEW j \in Lists!Recorded, changes'[i].kind = "create", changes'[j].kind = "create",
               changes'[i].status = "succeeded", changes'[j].status = "succeeded", changes'[i].result = changes'[j].result
        PROVE  i = j
    <3>1. Lists!Status(i) = "succeeded" /\ Lists!Status(j) = "succeeded"
      BY <1>2, <2>1
    <3> QED BY <1>0, <1>2, <2>1, <3>1 DEF Lists!ListsAreRight, Lists!OneCreationPerList
  <2> QED BY <1>3, <2>1 DEF Lists!OneCreationPerList, Lists!Status
<1> QED BY <1>5, <1>6, <1>7, <1>8 DEF ListsIInv, Lists!ListsAreRight

LEMMA ListsRetryInv ==
    ASSUME ListsIInv, NEW k \in Lists!Recorded, Lists!RetryChange(k)
    PROVE  ListsIInv'
<1>0. /\ ListsTypeOK /\ ListsNotYet /\ Lists!Idle /\ changes[k] \in ListsChange /\ changes \in Seq(ListsChange)
      /\ UNCHANGED <<remote, waiting, call, stamp, done, undescribed>> /\ shown' = remote
      /\ done[k] <= undescribed[k]
  BY DEF ListsIInv, Lists!RetryChange, Lists!InReview, ListsTypeOK, Lists!Recorded, ListsNotYet
<1>1. (IF changes[k].list = 0 THEN 0 ELSE remote[changes[k].list].rev) \in Nat
  BY <1>0 DEF ListsChange, ListsListIds, ListsTypeOK, ListsListState
<1> DEFINE base == IF changes[k].list = 0 THEN 0 ELSE remote[changes[k].list].rev
           o == [changes[k] EXCEPT !.status = "queued", !.base = base]
<1>2. o \in ListsChange /\ o.kind = changes[k].kind /\ o.list = changes[k].list /\ o.status = "queued"
  <2>1. "queued" \in ListsOutcomes /\ base \in Nat
    BY <1>1 DEF ListsOutcomes
  <2> HIDE DEF base
  <2> QED BY <1>0, <2>1 DEF ListsChange
<1>3. changes' = [changes EXCEPT ![k] = o]
  BY <1>0 DEF Lists!RetryChange, Lists!To, Lists!Recorded, ListsChange
<1> HIDE DEF o
<1>4. ListsAwaited' /\ ListsNotYet' /\ Lists!ListsAreRight' /\ changes' \in Seq(ListsChange) /\ Len(done') = Len(changes') /\ call' \in ListsCalls
      /\ undescribed' \in Seq(Nat) /\ Len(undescribed') = Len(changes')
  BY <1>0, <1>2, <1>3, ListsOneChange DEF Lists!Idle
<1> QED BY <1>0, <1>4 DEF ListsIInv, ListsTypeOK

LEMMA ListsStepInv == ListsIInv /\ [Lists!Next]_listsVars => ListsIInv'
<1> SUFFICES ASSUME ListsIInv, [Lists!Next]_listsVars PROVE ListsIInv'
  OBVIOUS
<1>0. ListsTypeOK /\ ListsAwaited /\ ListsNotYet /\ call \in ListsCalls /\ (call # Lists!NoCall => call.change \in Lists!Recorded /\ changes[call.change] \in ListsChange)
  BY DEF ListsIInv, ListsTypeOK, ListsAwaited, Lists!Recorded
<1>1. CASE \E l \in Lists!Lists : Lists!ChangesTask(l) \/ Lists!SettlesTask(l)
  <2>1. UNCHANGED <<changes, shown, remote, call, stamp, done, undescribed>> /\ call = Lists!NoCall
    BY <1>1 DEF Lists!ChangesTask, Lists!SettlesTask, Lists!Idle
  <2> QED BY <1>0, <2>1 DEF ListsIInv, ListsTypeOK, ListsAwaited, ListsNotYet, Lists!ListsAreRight,
       Lists!ListChangedOnce, Lists!OneCreationPerList, Lists!Status, Lists!Recorded
<1>2. ASSUME NEW l \in Lists!Lists, Lists!ElsewhereChanged(l) PROVE ListsIInv'
  <2>1. UNCHANGED <<changes, shown, waiting, call, done, undescribed>> /\ stamp' = stamp + 1
    BY <1>2 DEF Lists!ElsewhereChanged
  <2>2. PICK to \in {Lists!Gone, [rev |-> stamp + 1, title |-> "other"]} : remote' = [remote EXCEPT ![l] = to]
    BY <1>2 DEF Lists!ElsewhereChanged
  <2>3. to \in ListsListState
    BY <1>0 DEF Lists!Gone, ListsListState, ListsTypeOK
  <2>4. ListsTypeOK'
    BY <1>0, <2>1, <2>2, <2>3 DEF ListsTypeOK
  <2> QED BY <1>0, <2>1, <2>4 DEF ListsIInv, ListsAwaited, ListsNotYet, Lists!ListsAreRight,
       Lists!ListChangedOnce, Lists!OneCreationPerList, Lists!Status, Lists!Recorded, Lists!Unclaimed
<1>3. ASSUME NEW kind \in {"create", "update", "delete"}, NEW l \in Lists!Lists \cup {0}, Lists!Enqueue(kind, l) PROVE ListsIInv'
  BY <1>3, ListsEnqueueInv DEF ListsKinds, ListsListIds
<1>4. CASE Lists!SendChange
  BY <1>4, ListsSendInv
<1>5. CASE Lists!ProviderChanges
  BY <1>5, ListsProviderInv
<1>6. CASE Lists!ChangeAnswered
  <2>1. call.change \in Lists!Recorded /\ call.list \in ListsListIds /\ shown \in [Lists!Lists -> ListsListState]
    BY <1>0, <1>6 DEF Lists!ChangeAnswered, Lists!NoCall, ListsCalls, ListsTypeOK
  <2>2. Lists!Finishes(call.change, call.list, shown) /\ call' = Lists!NoCall /\ UNCHANGED <<remote, waiting, stamp, done, undescribed>>
    BY <1>6 DEF Lists!ChangeAnswered
  <2> QED BY <2>1, <2>2, ListsFinishesInv
<1>7. CASE Lists!ChangeRefused
  <2>1. call.change \in Lists!Recorded /\ changes[call.change].list \in ListsListIds /\ shown \in [Lists!Lists -> ListsListState]
        /\ done[call.change] <= undescribed[call.change]
    BY <1>0, <1>7 DEF Lists!ChangeRefused, Lists!NoCall, ListsChange, ListsTypeOK, ListsAwaited
  <2>2. call' = Lists!NoCall /\ UNCHANGED <<remote, waiting, stamp, done, undescribed>>
    BY <1>7 DEF Lists!ChangeRefused
  <2>3. \/ Lists!Finishes(call.change, changes[call.change].list, shown)
        \/ changes' = Lists!To(call.change, "conflict") /\ UNCHANGED shown
    BY <1>7 DEF Lists!ChangeRefused
  <2>4. "conflict" \in ListsOutcomes \ {"running", "succeeded"}
    BY DEF ListsOutcomes
  <2>5. CASE Lists!Finishes(call.change, changes[call.change].list, shown)
    BY <2>1, <2>2, <2>5, ListsFinishesInv
  <2>6. CASE changes' = Lists!To(call.change, "conflict") /\ UNCHANGED shown
    BY <2>1, <2>2, <2>4, <2>6, ListsStatusInv
  <2> QED BY <2>3, <2>5, <2>6
<1>8. CASE Lists!ChangeFails
  <2>1. PICK status \in {"queued", "failed", "review"} :
           changes' = Lists!To(call.change, status) /\ (status # "review" => call.phase = "sent")
    BY <1>8 DEF Lists!ChangeFails, Lists!RateLimited
  <2>2. call' = Lists!NoCall /\ UNCHANGED <<shown, remote, waiting, stamp, done, undescribed>> /\ call # Lists!NoCall
    BY <1>8 DEF Lists!ChangeFails, Lists!Idle
  <2>3. status \in ListsOutcomes \ {"running", "succeeded"} /\ call.change \in Lists!Recorded /\ shown' \in [Lists!Lists -> ListsListState]
        /\ (status \in {"queued", "failed", "conflict"} => done[call.change] <= undescribed[call.change])
    BY <1>0, <2>1, <2>2 DEF ListsOutcomes, ListsTypeOK, ListsAwaited
  <2> QED BY <2>1, <2>2, <2>3, ListsStatusInv
<1>15. CASE Lists!DescriptionRefused
  <2> DEFINE k == call.change
  <2>1. /\ k \in Lists!Recorded /\ call # Lists!NoCall /\ call' = Lists!NoCall /\ UNCHANGED <<shown, remote, waiting, stamp, done>>
        /\ undescribed' = [undescribed EXCEPT ![k] = @ + 1]
    BY <1>0, <1>15 DEF Lists!DescriptionRefused, Lists!NoCall
  <2>2. PICK status \in {"queued", "failed", "conflict"} : changes' = Lists!To(k, status)
    BY <1>15 DEF Lists!DescriptionRefused, Lists!RateLimited
  <2>3. status \in ListsOutcomes \ {"running", "succeeded"} /\ shown' \in [Lists!Lists -> ListsListState]
    BY <1>0, <2>1 DEF ListsOutcomes, ListsTypeOK
  <2>4. /\ undescribed \in Seq(Nat) /\ Lists!Recorded = 1 .. Len(undescribed)
        /\ \A j \in Lists!Recorded : done[j] \in Nat /\ undescribed[j] \in Nat
    BY <1>0 DEF ListsTypeOK, Lists!Recorded
  <2> HIDE DEF k
  <2>5. /\ undescribed' \in Seq(Nat) /\ Len(undescribed') = Len(undescribed)
        /\ undescribed'[k] = undescribed[k] + 1
        /\ \A j \in Lists!Recorded : j # k => undescribed'[j] = undescribed[j]
    BY <2>1, <2>4
  <2>6. done[k] <= undescribed'[k]
    BY <2>1, <2>4, <2>5 DEF ListsIInv, Lists!ListsAreRight, Lists!ListChangedOnce
  <2>7. \A j \in Lists!Recorded : undescribed[j] <= undescribed'[j]
    BY <2>4, <2>5
  <2>8. call.change = k
    BY DEF k
  <2> QED BY <2>1, <2>2, <2>3, <2>5, <2>6, <2>7, <2>8, ListsStatusInv
<1>9. CASE Lists!Crash \/ Lists!RestoreLists
  BY <1>9, ListsAllReview
<1>10. CASE Lists!RefreshLists
  <2>1. UNCHANGED <<changes, remote, waiting, call, stamp, done, undescribed>> /\ shown' = remote
    BY <1>10 DEF Lists!RefreshLists
  <2> QED BY <1>0, <2>1 DEF ListsIInv, ListsTypeOK, ListsAwaited, ListsNotYet, Lists!ListsAreRight,
       Lists!ListChangedOnce, Lists!OneCreationPerList, Lists!Status, Lists!Recorded
<1>11. ASSUME NEW k \in 1 .. MaxListChanges, Lists!DiscardChange(k) PROVE ListsIInv'
  <2>1. k \in Lists!Recorded /\ changes' = Lists!To(k, "cancelled") /\ UNCHANGED <<shown, remote, waiting, call, stamp, done, undescribed>> /\ call = Lists!NoCall
    BY <1>11 DEF Lists!DiscardChange, Lists!Idle
  <2>2. "cancelled" \in ListsOutcomes \ {"running", "succeeded"} /\ shown' \in [Lists!Lists -> ListsListState]
    BY <1>0, <2>1 DEF ListsOutcomes, ListsTypeOK
  <2> QED BY <2>1, <2>2, ListsStatusInv
<1>12. ASSUME NEW k \in 1 .. MaxListChanges, Lists!RetryChange(k) PROVE ListsIInv'
  BY <1>12, ListsRetryInv DEF Lists!RetryChange, Lists!InReview
<1>13. ASSUME NEW k \in 1 .. MaxListChanges, NEW l \in Lists!Lists, Lists!AcceptChange(k, l) PROVE ListsIInv'
  <2>1. k \in Lists!Recorded /\ Lists!Finishes(k, l, remote) /\ UNCHANGED <<remote, waiting, call, stamp, done, undescribed>> /\ call = Lists!NoCall
    BY <1>13 DEF Lists!AcceptChange, Lists!InReview, Lists!Idle
  <2>2. remote \in [Lists!Lists -> ListsListState] /\ l \in ListsListIds
    BY <1>0 DEF ListsTypeOK, ListsListIds
  <2> QED BY <2>1, <2>2, ListsFinishesInv
<1>14. CASE UNCHANGED listsVars
  BY <1>0, <1>14 DEF listsVars, ListsIInv, ListsTypeOK, ListsAwaited, ListsNotYet, Lists!ListsAreRight,
       Lists!ListChangedOnce, Lists!OneCreationPerList, Lists!Status, Lists!Recorded
<1> QED BY <1>1, <1>2, <1>3, <1>4, <1>5, <1>6, <1>7, <1>8, <1>9, <1>10, <1>11, <1>12, <1>13, <1>14, <1>15
     DEF Lists!Next

ListsStrands == \A k \in Lists!Recorded : done'[k] > done[k] /\ changes[k].kind = "delete" => waiting[changes[k].list] = "none"

\* Only the answer of the provider makes a change done, and a deletion was sent
\* when nothing of its list waited.
LEMMA ListsStrandsStep == ListsIInv /\ [Lists!Next]_listsVars => [ListsStrands]_listsVars
<1> SUFFICES ASSUME ListsIInv, Lists!Next, NEW k \in Lists!Recorded, done'[k] > done[k], changes[k].kind = "delete"
             PROVE  waiting[changes[k].list] = "none"
  BY DEF ListsStrands
<1>0. ListsTypeOK /\ ListsAwaited /\ done \in Seq(Nat) /\ Lists!Recorded = 1 .. Len(done) /\ done[k] \in Nat
  BY DEF ListsIInv, ListsTypeOK, Lists!Recorded
<1>1. CASE Lists!ProviderChanges
  <2>1. k = call.change
    <3>1. k # call.change => done'[k] = done[k]
      BY <1>0, <1>1 DEF Lists!ProviderChanges
    <3> QED BY <1>0, <3>1
  <2> QED BY <1>0, <1>1, <2>1 DEF ListsAwaited, Lists!ProviderChanges, Lists!NoCall
<1>2. ASSUME NEW kind \in {"create", "update", "delete"}, NEW l \in Lists!Lists \cup {0}, Lists!Enqueue(kind, l) PROVE done'[k] = done[k]
  BY <1>0, <1>2 DEF Lists!Enqueue
<1>3. done' = done \/ Lists!ProviderChanges \/ \E kind \in {"create", "update", "delete"}, l \in Lists!Lists \cup {0} : Lists!Enqueue(kind, l)
  BY DEF Lists!Next, Lists!ChangesTask, Lists!SettlesTask, Lists!ElsewhereChanged, Lists!SendChange,
       Lists!ChangeAnswered, Lists!ChangeRefused, Lists!ChangeFails, Lists!DescriptionRefused, Lists!Crash,
       Lists!RestoreLists, Lists!RefreshLists, Lists!DiscardChange, Lists!RetryChange, Lists!AcceptChange
<1>4. done'[k] # done[k]
  BY <1>0
<1> QED BY <1>1, <1>2, <1>3, <1>4

LEMMA ListsMoves ==
    ASSUME [AllNext]_allVars
    PROVE  [Lists!Next]_listsVars
BY DEF AllNext, allVars, ChatOnly, TasksOnly, ListsOnly, PopOnly, RestoreOnly, DavOnly

\* A change of a list is carried out once, and a list is created once, however
\* often requests fail, are reviewed and are retried; but once more for each time
\* the provider made a list and then refused to describe it.
THEOREM TaskListsStayRight ==
    AllSpec => []ListsAreRight
<1>1. AllInit => ListsIInv
  BY ListsInitInv, QueuesConstants DEF AllInit
<1>2. ListsIInv /\ [AllNext]_allVars => ListsIInv'
  BY ListsMoves, ListsStepInv
<1>3. ListsIInv => ListsAreRight
  BY DEF ListsAreRight, ListsIInv
<1> QED BY <1>1, <1>2, <1>3, PTL DEF AllSpec

\* A list is deleted at the provider only when no change of its tasks waits, in
\* spite of what is edited, retried and reviewed meanwhile.
THEOREM NoTaskIsStranded ==
    AllSpec => Lists!NoTaskStranded
<1>1. AllInit => ListsIInv
  BY ListsInitInv, QueuesConstants DEF AllInit
<1>2. ListsIInv /\ [AllNext]_allVars => ListsIInv'
  BY ListsMoves, ListsStepInv
<1>3. ListsIInv /\ ListsIInv' /\ [AllNext]_allVars => [ListsStrands]_listsVars
  BY ListsMoves, ListsStrandsStep
<1> QED BY <1>1, <1>2, <1>3, PTL DEF AllSpec, ListsStrands, Lists!NoTaskStranded, Lists!vars, listsVars

-----------------------------------------------------------------------------
(* A POP3 account: what is downloaded is kept, and what is removed was     *)
(* wanted to be.                                                           *)

PopRows == {"none", "stored", "delete-pending", "deleted", "skipped"}
PopCopies == {"none", "inbox", "undoable", "trash", "purged"}
PopPolicies == {"leave", "remove", "whenDeleted"}
PopSessions == [phase : {"closed", "get", "delete", "quit"}, listed : SUBSET Mail, pending : SUBSET Mail,
                marked : SUBSET Mail, policy : PopPolicies]
PopTypeOK ==
    /\ nature \in [Mail -> {"none", "good", "refused", "big"}]
    /\ maildrop \subseteq Mail /\ taken \subseteq Mail /\ wanted \subseteq Mail
    /\ row \in [Mail -> PopRows] /\ copy \in [Mail -> PopCopies]
    /\ flushed \in [row : [Mail -> PopRows], copy : [Mail -> PopCopies]]
    /\ session \in PopSessions /\ policy \in PopPolicies

\* Checkpoint and copy are written in one transaction, so one is there if the
\* other is, also in what a loss of power leaves.
PopTogether(m) ==
    /\ row[m] \in {"none", "skipped"} <=> copy[m] = "none"
    /\ flushed.row[m] \in {"none", "skipped"} <=> flushed.copy[m] = "none"

\* What is flushed is older: what is known there is known here, and gone too.
PopOlder(m) ==
    /\ flushed.row[m] # "none" => row[m] # "none"
    /\ flushed.row[m] = "deleted" => m \notin maildrop

\* A message safe on the disk, and what the session does with each message.
PopSafe(m) == copy[m] # "none" /\ flushed.copy[m] # "none"
PopInSession(m) ==
    /\ Pop!At("get") => m \notin session.marked /\ (m \in session.pending => row[m] = "none")
    /\ session.phase \in {"delete", "quit"} /\ m \in session.pending \cup session.marked => PopSafe(m) /\ m \in wanted
    /\ Pop!At("quit") /\ m \in session.marked => m \in taken /\ m \notin maildrop

PopGone(m) == row[m] = "deleted" => m \notin maildrop
PopMessage(m) == PopTogether(m) /\ PopOlder(m) /\ PopInSession(m) /\ PopGone(m) /\ (m \in taken => PopSafe(m))
PopIInv == PopTypeOK /\ \A m \in Mail : PopMessage(m)

LEMMA PopInitInv == Pop!Init => PopIInv
<1> SUFFICES ASSUME Pop!Init PROVE PopIInv
  OBVIOUS
<1>1. PopTypeOK
  BY DEF Pop!Init, PopTypeOK, PopRows, PopCopies, PopPolicies, PopSessions, Pop!Closed, Pop!Saved
<1>2. ASSUME NEW m \in Mail PROVE PopMessage(m)
  BY DEF Pop!Init, PopMessage, PopTogether, PopOlder, PopInSession, PopGone, Pop!Closed, Pop!Saved, Pop!At
<1> QED BY <1>1, <1>2 DEF PopIInv

LEMMA PopClosedIsTyped == Pop!Closed \in PopSessions /\ Pop!Closed.phase = "closed"
BY DEF Pop!Closed, PopSessions, PopPolicies

LEMMA PopSessionSets ==
    ASSUME NEW s \in PopSessions
    PROVE  /\ s.pending \in SUBSET Mail /\ s.marked \in SUBSET Mail /\ s.listed \in SUBSET Mail
           /\ [s EXCEPT !.phase = "quit"] \in PopSessions
BY DEF PopSessions

LEMMA PopSessionPends ==
    ASSUME NEW s \in PopSessions, NEW P \in SUBSET Mail
    PROVE  [s EXCEPT !.pending = P] \in PopSessions /\ [s EXCEPT !.phase = "delete", !.pending = P] \in PopSessions
BY DEF PopSessions

LEMMA PopSessionMarks ==
    ASSUME NEW s \in PopSessions, NEW P \in SUBSET Mail, NEW D \in SUBSET Mail
    PROVE  [s EXCEPT !.pending = P, !.marked = D] \in PopSessions
BY DEF PopSessions

LEMMA PopTypeStep ==
    ASSUME PopIInv, Pop!Next
    PROVE  PopTypeOK'
<1> USE DEF PopTypeOK
<1>0. PopTypeOK
  BY DEF PopIInv
<1>1. CASE Pop!Open
  BY <1>0, <1>1 DEF Pop!Open, PopSessions, PopRows, PopPolicies
<1>2. ASSUME NEW m \in Mail, Pop!Get(m) PROVE PopTypeOK'
  <2>1. session' = [session EXCEPT !.pending = @ \ {m}]
    BY <1>2 DEF Pop!Get, Pop!PassesOver
  <2>2. session' \in PopSessions
    BY <1>0, <2>1, PopSessionSets, PopSessionPends
  <2>3. row' \in [Mail -> PopRows] /\ copy' \in [Mail -> PopCopies]
    BY <1>0, <1>2 DEF Pop!Get, PopRows, PopCopies
  <2> QED BY <1>0, <1>2, <2>2, <2>3 DEF Pop!Get
<1>3. CASE Pop!Retire
  <2>1. row' \in [Mail -> PopRows]
    BY <1>0, <1>3 DEF Pop!Retire, PopRows
  <2>2. flushed' \in [row : [Mail -> PopRows], copy : [Mail -> PopCopies]]
    BY <1>0, <1>3, <2>1 DEF Pop!Retire, Pop!Flushed
  <2>3. session' \in PopSessions
    <3>1. Pop!Candidates \in SUBSET Mail
      BY <1>0, PopSessionSets DEF Pop!Candidates
    <3>2. session' = Pop!Closed \/ session' = [session EXCEPT !.phase = "delete", !.pending = Pop!Candidates]
      BY <1>3 DEF Pop!Retire
    <3>3. [session EXCEPT !.phase = "delete", !.pending = Pop!Candidates] \in PopSessions
      BY <1>0, <3>1, PopSessionPends
    <3> QED BY <3>2, <3>3, PopClosedIsTyped
  <2> QED BY <1>0, <1>3, <2>1, <2>2, <2>3 DEF Pop!Retire
<1>4. ASSUME NEW m \in Mail, Pop!Delete(m) PROVE PopTypeOK'
  <2>1. session' \in PopSessions
    <3>1. \/ session' = [session EXCEPT !.pending = @ \ {m}]
          \/ session' = [session EXCEPT !.pending = @ \ {m}, !.marked = @ \cup {m}]
      BY <1>4 DEF Pop!Delete
    <3>2. session.pending \ {m} \in SUBSET Mail /\ session.marked \cup {m} \in SUBSET Mail
      BY <1>0, PopSessionSets
    <3>3. session \in PopSessions
      BY <1>0
    <3>4. [session EXCEPT !.pending = @ \ {m}] \in PopSessions
      BY <3>2, <3>3, PopSessionPends
    <3>5. [session EXCEPT !.pending = @ \ {m}, !.marked = @ \cup {m}] \in PopSessions
      BY <3>2, <3>3, PopSessionMarks
    <3> QED BY <3>1, <3>4, <3>5
  <2> QED BY <1>0, <1>4, <2>1 DEF Pop!Delete
<1>5. CASE Pop!Quit
  <2>1. session' \in PopSessions
    BY <1>0, <1>5, PopClosedIsTyped, PopSessionSets DEF Pop!Quit
  <2> QED BY <1>0, <1>5, <2>1, PopSessionSets DEF Pop!Quit
<1>6. CASE Pop!MarkRemoved \/ Pop!Lost
  BY <1>0, <1>6, PopClosedIsTyped DEF Pop!MarkRemoved, Pop!Lost, Pop!Unconfirmed, PopRows
<1>7. CASE Pop!Crash
  BY <1>0, <1>7, PopClosedIsTyped DEF Pop!Crash
<1>8. CASE Pop!Chooses
  BY <1>0, <1>8 DEF Pop!Chooses, PopPolicies
<1>9. ASSUME NEW m \in Mail, Pop!Arrives(m) \/ Pop!RemovedElsewhere(m) PROVE PopTypeOK'
  BY <1>0, <1>9 DEF Pop!Arrives, Pop!RemovedElsewhere
<1>10. ASSUME NEW m \in Mail, Pop!Moves(m) PROVE PopTypeOK'
  BY <1>0, <1>10 DEF Pop!Moves, PopCopies
<1> QED BY <1>1, <1>2, <1>3, <1>4, <1>5, <1>6, <1>7, <1>8, <1>9, <1>10 DEF Pop!Next, Pop!Steps

LEMMA PopStepInv ==
    ASSUME PopIInv, [Pop!Next]_popVars
    PROVE  PopIInv'
<1>0. PopTypeOK /\ \A m \in Mail : PopMessage(m)
  BY DEF PopIInv
<1> USE DEF PopMessage, PopTogether, PopOlder, PopInSession, PopGone, PopSafe, Pop!At
<1>1. CASE UNCHANGED popVars
  BY <1>0, <1>1 DEF PopIInv, popVars, PopTypeOK
<1>2. SUFFICES ASSUME Pop!Next, NEW m \in Mail PROVE PopMessage(m)'
  BY <1>1, PopTypeStep DEF PopIInv
<1>3. PopMessage(m) /\ row[m] \in PopRows /\ copy[m] \in PopCopies
  BY <1>0 DEF PopTypeOK
<1>4. CASE Pop!Open
  BY <1>3, <1>4 DEF Pop!Open, Pop!Known, PopTypeOK, PopRows
<1>5. ASSUME NEW n \in Mail, Pop!Get(n) PROVE PopMessage(m)'
  <2>1. /\ Pop!At("get") /\ n \in session.pending /\ row[n] = "none" /\ copy[n] = "none"
        /\ session'.phase = "get" /\ session'.pending = session.pending \ {n}
        /\ session'.marked = session.marked /\ wanted \subseteq wanted'
    BY <1>0, <1>5 DEF Pop!Get, Pop!PassesOver, PopTypeOK, PopSessions
  <2>2. CASE m # n
    <3>1. row'[m] = row[m] /\ copy'[m] = copy[m] /\ UNCHANGED <<flushed, maildrop, taken>>
      BY <1>0, <1>5, <2>2 DEF Pop!Get, PopTypeOK
    <3> QED BY <1>3, <2>1, <3>1
  <2>3. CASE m = n
    <3>1. /\ UNCHANGED <<flushed, maildrop, taken>>
          /\ \/ row'[m] = row[m] /\ copy'[m] = copy[m]
             \/ row'[m] = "skipped" /\ copy'[m] = copy[m]
             \/ row'[m] = "stored" /\ copy'[m] = "inbox"
      BY <1>0, <1>5, <2>3 DEF Pop!Get, PopTypeOK
    <3> QED BY <1>3, <2>1, <2>3, <3>1
  <2> QED BY <2>2, <2>3
<1>6. CASE Pop!Retire
  <2>1. /\ UNCHANGED <<copy, maildrop, taken>> /\ row'[m] \in PopRows
        /\ row'[m] # row[m] => {row[m], row'[m]} \subseteq {"stored", "delete-pending"}
    BY <1>0, <1>6 DEF Pop!Retire, Pop!Candidates, PopTypeOK, PopRows
  <2>2. m \in Pop!Candidates => copy[m] # "none" /\ m \in wanted'
    BY <1>3, <1>6 DEF Pop!Retire, Pop!Candidates
  <2>3. Pop!At("get") /\ m \notin session.marked
    BY <1>3, <1>6 DEF Pop!Retire
  <2>4. CASE session' = Pop!Closed /\ UNCHANGED flushed
    BY <1>3, <2>1, <2>4, PopClosedIsTyped
  <2>5. CASE flushed' = Pop!Flushed(row') /\ session' = [session EXCEPT !.phase = "delete", !.pending = Pop!Candidates]
    <3>1. flushed'.row = row' /\ flushed'.copy = copy /\ session'.phase = "delete"
      BY <1>0, <2>5 DEF Pop!Flushed, PopTypeOK, PopSessions
    <3>2. session'.pending = Pop!Candidates /\ session'.marked = session.marked
      BY <1>0, <2>5 DEF PopTypeOK, PopSessions
    <3> QED BY <1>3, <2>1, <2>2, <2>3, <3>1, <3>2
  <2> QED BY <1>6, <2>4, <2>5 DEF Pop!Retire
<1>7. ASSUME NEW n \in Mail, Pop!Delete(n) PROVE PopMessage(m)'
  <2>1. /\ session'.phase = "delete" /\ session'.pending = session.pending \ {n} /\ n \in session.pending
        /\ session'.marked \in {session.marked, session.marked \cup {n}}
    BY <1>0, <1>7 DEF Pop!Delete, PopTypeOK, PopSessions
  <2> QED BY <1>3, <1>7, <2>1 DEF Pop!Delete
<1>8. CASE Pop!Quit
  BY <1>3, <1>8, PopClosedIsTyped DEF Pop!Quit, PopTypeOK, PopSessions
<1>9. CASE Pop!MarkRemoved \/ Pop!Lost
  BY <1>3, <1>9, PopClosedIsTyped DEF Pop!MarkRemoved, Pop!Lost, Pop!Unconfirmed
<1>10. CASE Pop!Crash
  BY <1>3, <1>10, PopClosedIsTyped DEF Pop!Crash
<1>11. CASE Pop!Chooses
  BY <1>3, <1>11 DEF Pop!Chooses
<1>12. ASSUME NEW n \in Mail, Pop!Arrives(n) \/ Pop!RemovedElsewhere(n) PROVE PopMessage(m)'
  BY <1>3, <1>12 DEF Pop!Arrives, Pop!RemovedElsewhere
<1>13. ASSUME NEW n \in Mail, Pop!Moves(n) PROVE PopMessage(m)'
  BY <1>0, <1>3, <1>13 DEF Pop!Moves, PopTypeOK
<1> QED BY <1>2, <1>4, <1>5, <1>6, <1>7, <1>8, <1>9, <1>10, <1>11, <1>12, <1>13 DEF Pop!Next, Pop!Steps

LEMMA PopSound == PopIInv => Pop!SidesAgree
BY DEF PopIInv, PopTypeOK, PopMessage, PopSafe, PopGone, Pop!SidesAgree, Pop!NothingLost, Pop!RemovedIsGone

\* Get stores only what has no row, and what has no row has no copy.
LEMMA PopOnceStep ==
    ASSUME PopIInv, [Pop!Next]_popVars, NEW m \in Mail, copy[m] = "purged", session'.phase = "get"
    PROVE  copy'[m] = "purged"
<1>0. PopTypeOK /\ PopMessage(m) /\ row[m] # "none" /\ copy[m] = "purged"
  BY DEF PopIInv, PopMessage, PopTogether
<1>1. CASE UNCHANGED popVars \/ Pop!Open \/ Pop!Retire \/ Pop!Quit \/ Pop!MarkRemoved \/ Pop!Lost \/ Pop!Chooses
  BY <1>0, <1>1 DEF popVars, Pop!Open, Pop!Retire, Pop!Quit, Pop!MarkRemoved, Pop!Lost, Pop!Chooses
<1>2. CASE Pop!Crash
  BY <1>0, <1>2, PopClosedIsTyped DEF Pop!Crash
<1>3. ASSUME NEW n \in Mail, Pop!Get(n) PROVE copy'[m] = "purged"
  <2>1. m # n
    BY <1>0, <1>3 DEF Pop!Get, PopMessage, PopInSession
  <2> QED BY <1>0, <1>3, <2>1 DEF Pop!Get, PopTypeOK
<1>4. ASSUME NEW n \in Mail, Pop!Delete(n) \/ Pop!Arrives(n) \/ Pop!RemovedElsewhere(n) PROVE copy'[m] = "purged"
  BY <1>0, <1>4 DEF Pop!Delete, Pop!Arrives, Pop!RemovedElsewhere
<1>5. ASSUME NEW n \in Mail, Pop!Moves(n) PROVE copy'[m] = "purged"
  BY <1>0, <1>5 DEF Pop!Moves, PopTypeOK
<1> QED BY <1>1, <1>2, <1>3, <1>4, <1>5 DEF Pop!Next, Pop!Steps

LEMMA PopWantedStep ==
    ASSUME PopIInv, [Pop!Next]_popVars
    PROVE  taken' \ taken \subseteq wanted
<1>1. CASE Pop!Quit
  <2>1. \A m \in session.marked : m \in Mail /\ m \in wanted
    <3>1. PopTypeOK /\ Pop!At("delete") /\ \A m \in Mail : PopMessage(m)
      BY <1>1 DEF PopIInv, Pop!Quit
    <3>2. session.marked \subseteq Mail
      BY <3>1, PopSessionSets DEF PopTypeOK
    <3> QED BY <3>1, <3>2 DEF PopMessage, PopInSession, Pop!At
  <2> QED BY <1>1, <2>1 DEF Pop!Quit
<1>2. CASE ~Pop!Quit
  BY <1>2 DEF Pop!Next, Pop!Steps, popVars, Pop!Open, Pop!Get, Pop!Retire, Pop!Delete, Pop!MarkRemoved,
       Pop!Lost, Pop!Crash, Pop!Chooses, Pop!Arrives, Pop!RemovedElsewhere, Pop!Moves
<1> QED BY <1>1, <1>2

LEMMA PopMoves ==
    ASSUME [AllNext]_allVars
    PROVE  [Pop!Next]_popVars
BY DEF AllNext, allVars, ChatOnly, TasksOnly, ListsOnly, PopOnly, RestoreOnly, DavOnly

\* A message is removed from the maildrop only when it is safe on the disk, and
\* what is recorded as removed is gone, wherever a session or the power breaks off.
THEOREM SidesStayInStep ==
    AllSpec => []SidesAgree
<1>1. AllInit => PopIInv
  BY PopInitInv DEF AllInit
<1>2. PopIInv /\ [AllNext]_allVars => PopIInv'
  BY PopMoves, PopStepInv
<1>3. PopIInv => SidesAgree
  BY PopSound DEF SidesAgree
<1> QED BY <1>1, <1>2, <1>3, PTL DEF AllSpec

\* What was removed from the disk is never downloaded again, and a session removes
\* from the maildrop only what the policy wanted to remove during that session.
THEOREM RemovalsAreWanted ==
    AllSpec => Pop!NeverTwice /\ Pop!RemovalWasWanted
<1>1. AllInit => PopIInv
  BY PopInitInv DEF AllInit
<1>2. PopIInv /\ [AllNext]_allVars => PopIInv'
  BY PopMoves, PopStepInv
<1>3. PopIInv /\ PopIInv' /\ [AllNext]_allVars => [\A m \in Mail : copy[m] = "purged" /\ session'.phase = "get" => copy'[m] = "purged"]_popVars
  BY PopMoves, PopOnceStep
<1>4. PopIInv /\ PopIInv' /\ [AllNext]_allVars => [taken' \ taken \subseteq wanted]_popVars
  BY PopMoves, PopWantedStep
<1> QED BY <1>1, <1>2, <1>3, <1>4, PTL DEF AllSpec, Pop!NeverTwice, Pop!RemovalWasWanted, Pop!vars, popVars

-----------------------------------------------------------------------------
(* A collection of a CalDAV or CardDAV account: the edits made here, and   *)
(* the changes others make.                                                *)

DavVersion == [text : Int, tag : Nat]
DavActions == {"none", "create", "update", "delete"}
DavStatuses == {"none", "queued", "conflict", "failed"}
DavOperation == [action : DavActions, text : Int, base : Nat, status : DavStatuses, due : BOOLEAN,
                 server : DavVersion, opened : Nat]
DavPhases == {"idle", "flush", "send", "done", "conflict", "report", "fetch"}
DavPosition == {Dav!Null} \cup Nat
DavWorks == [at : DavPhases, sync : BOOLEAN, todo : SUBSET Dav!Item, item : Nat, tag : Nat, token : DavPosition,
             complete : BOOLEAN, listed : [Dav!Item -> Nat], removed : SUBSET Dav!Item]
DavTypeOK ==
    /\ davServer \in [Dav!Item -> DavVersion] /\ cache \in [Dav!Item -> DavVersion]
    /\ davLog \in Seq(Dav!Item) /\ op \in [Dav!Item -> DavOperation] /\ work \in DavWorks
    /\ token \in 0 .. Len(davLog) /\ texts \in Nat /\ foreign \in Nat

\* The address is in a report that begins after a position.
DavListed(h, first) == h \in Dav!ChangedIn(first, Len(davLog))

\* A copy of a version has the text of the version.
DavCopyOf(kept, h) == kept.tag <= Len(davLog) /\ (kept.tag = davServer[h].tag /\ kept.tag # 0 => kept = davServer[h])
DavVersions(h) ==
    /\ davServer[h] = Dav!Absent \/ (davServer[h].tag \in 1 .. Len(davLog) /\ DavListed(h, 0))
    /\ DavCopyOf(cache[h], h) /\ DavCopyOf(op[h].server, h)

\* An edit: what is deleted has no text, and what a review says is gone is gone.
DavEdit(h) ==
       /\ op[h].action = "delete" => op[h].text = 0
       /\ op[h].status = "conflict" /\ op[h].server = Dav!Absent => davServer[h] = Dav!Absent

\* What is being sent, and what follows from its answer.
DavSends == {"send", "done", "conflict"}
DavSending ==
    /\ \A h \in work.todo : op[h].status = "queued"
    /\ work.at \in DavSends => work.item \in Dav!Item \ work.todo /\ op[work.item].status = "queued"
DavDone(h) ==
       /\ op[h].text \in reached \cup {0}
       /\ DavListed(h, token) \/ davServer[h] = Dav!Absent
       /\ op[h].text # 0 =>
             /\ DavListed(h, token) /\ work.tag \in 1 .. Len(davLog)
             /\ work.tag = davServer[h].tag => op[h].text = davServer[h].text

\* What a pull knows of an address that its next pages do not list: it has
\* the tag of the version of the server, or that there is none, or it was not
\* listed since the token of the cache.
DavFrom == IF work.token = Dav!Null THEN 0 ELSE work.token
DavPulled(h) ==
    \/ DavListed(h, DavFrom)
    \/ work.listed[h] # 0 /\ work.listed[h] = davServer[h].tag /\ h \notin work.removed
    \/ davServer[h] = Dav!Absent /\ work.listed[h] = 0 /\ (h \in work.removed \/ work.complete)
    \/ cache[h] = davServer[h] /\ work.listed[h] = 0 /\ h \notin work.removed /\ ~work.complete
DavPull ==
    work.at \in {"report", "fetch"} =>
        /\ DavFrom <= Len(davLog) /\ \A h \in Dav!Item : DavPulled(h)
        /\ Dav!At("fetch") => work.token # Dav!Null

DavIInv ==
    /\ DavTypeOK /\ DavSending /\ DavPull /\ Dav!CollectionIsSound
    /\ \A h \in Dav!Item : DavVersions(h) /\ DavEdit(h)
    /\ Dav!At("done") => DavDone(work.item)

DavOpened == \A h \in Dav!Item : op[h].base = op[h].opened

DavBounds == DavNItems \in Nat /\ NFirst \in 0 .. DavNItems

LEMMA DavInitInv == DavBounds /\ Dav!Init => DavIInv /\ DavOpened
<1> SUFFICES ASSUME DavBounds, Dav!Init PROVE DavIInv /\ DavOpened
  OBVIOUS
<1>1. /\ Dav!Item = 1 .. DavNItems /\ DavNItems \in Nat /\ NFirst \in 0 .. DavNItems
      /\ Len(davLog) = NFirst /\ \A i \in 1 .. NFirst : davLog[i] = i
  BY DEF DavBounds, Dav!Item, Dav!Init
<1>2. Dav!Idle \in DavWorks /\ Dav!NoOp \in DavOperation /\ Dav!Absent \in DavVersion
  BY DEF Dav!Idle, DavWorks, DavPhases, DavPosition, Dav!NoOp, DavOperation, DavActions, DavStatuses,
       Dav!Absent, DavVersion, Dav!Null
<1>3. DavTypeOK
  <2>1. davServer \in [Dav!Item -> DavVersion]
    BY <1>1 DEF Dav!Init, Dav!Absent, DavVersion
  <2>2. davLog \in Seq(Dav!Item)
    BY <1>1 DEF Dav!Init
  <2> QED BY <1>1, <1>2, <2>1, <2>2 DEF Dav!Init, DavTypeOK
<1>4. ASSUME NEW h \in Dav!Item PROVE DavVersions(h) /\ DavEdit(h)
  <2>1. h <= NFirst => DavListed(h, 0)
    BY <1>1 DEF DavListed, Dav!ChangedIn
  <2> QED BY <1>1, <2>1 DEF Dav!Init, DavVersions, DavEdit, DavCopyOf, Dav!Absent, Dav!NoOp
<1>5. DavSending /\ DavPull /\ ~Dav!At("done") /\ DavOpened
  BY DEF Dav!Init, DavSending, DavPull, Dav!At, Dav!Idle, DavSends, DavOpened, Dav!NoOp
<1>6. Dav!CollectionIsSound
  BY <1>1 DEF Dav!Init, Dav!CollectionIsSound, Dav!EditsKept, Dav!TokenCovers
<1> QED BY <1>3, <1>4, <1>5, <1>6 DEF DavIInv

\* What Becomes does to the log.
LEMMA DavLogGrows ==
    ASSUME DavTypeOK, NEW h \in Dav!Item, davLog' = Append(davLog, h)
    PROVE  /\ davLog' \in Seq(Dav!Item) /\ Len(davLog') = Len(davLog) + 1 /\ Len(davLog) \in Nat
           /\ \A first \in 0 .. Len(davLog), i \in Dav!Item :
                 i \in {davLog'[k] : k \in first + 1 .. Len(davLog')} <=> i \in Dav!ChangedIn(first, Len(davLog)) \/ i = h
<1>1. /\ davLog' \in Seq(Dav!Item) /\ Len(davLog') = Len(davLog) + 1 /\ Len(davLog) \in Nat
      /\ \A k \in 1 .. Len(davLog) : davLog'[k] = davLog[k]
      /\ davLog'[Len(davLog) + 1] = h
  BY DEF DavTypeOK
<1>2. ASSUME NEW first \in 0 .. Len(davLog), NEW i \in Dav!Item
      PROVE  i \in {davLog'[k] : k \in first + 1 .. Len(davLog')} <=> i \in Dav!ChangedIn(first, Len(davLog)) \/ i = h
  <2>1. \A k \in first + 1 .. Len(davLog') : k \in Nat /\ (k \in 1 .. Len(davLog) \/ k = Len(davLog) + 1)
    BY <1>1
  <2>2. first + 1 .. Len(davLog) \subseteq first + 1 .. Len(davLog') /\ Len(davLog) + 1 \in first + 1 .. Len(davLog')
    BY <1>1
  <2>3. first + 1 .. Len(davLog) \subseteq 1 .. Len(davLog)
    BY <1>1
  <2> QED BY <1>1, <2>1, <2>2, <2>3 DEF Dav!ChangedIn
<1> QED BY <1>1, <1>2

LEMMA DavGrows ==
    ASSUME DavTypeOK, NEW h \in Dav!Item, NEW text \in Int, Dav!Becomes(h, text)
    PROVE  /\ davLog' \in Seq(Dav!Item) /\ davServer' \in [Dav!Item -> DavVersion] /\ Len(davLog') = Len(davLog) + 1 /\ Len(davLog) \in Nat
           /\ \A i \in Dav!Item : i # h => davServer'[i] = davServer[i]
           /\ davServer'[h] = Dav!Absent \/ davServer'[h] = [text |-> text, tag |-> Len(davLog) + 1]
           /\ \A first \in 0 .. Len(davLog), i \in Dav!Item :
                 i \in {davLog'[k] : k \in first + 1 .. Len(davLog')} <=> i \in Dav!ChangedIn(first, Len(davLog)) \/ i = h
<1>1. davLog' = Append(davLog, h)
  BY DEF Dav!Becomes
<1>2. [text |-> text, tag |-> Len(davLog) + 1] \in DavVersion /\ Dav!Absent \in DavVersion
  BY DEF DavVersion, DavTypeOK, Dav!Absent
<1>3. /\ davServer' \in [Dav!Item -> DavVersion] /\ \A i \in Dav!Item : i # h => davServer'[i] = davServer[i]
      /\ davServer'[h] = Dav!Absent \/ davServer'[h] = [text |-> text, tag |-> Len(davLog) + 1]
  BY <1>2 DEF Dav!Becomes, DavTypeOK
<1> QED BY <1>1, <1>3, DavLogGrows

LEMMA DavWorkParts ==
    ASSUME NEW w \in DavWorks
    PROVE  /\ w.at \in DavPhases /\ w.sync \in BOOLEAN /\ w.todo \in SUBSET Dav!Item /\ w.item \in Nat /\ w.tag \in Nat
           /\ w.token \in DavPosition /\ w.complete \in BOOLEAN /\ w.listed \in [Dav!Item -> Nat] /\ w.removed \in SUBSET Dav!Item
BY DEF DavWorks

LEMMA DavIdleWork ==
    /\ Dav!Idle \in DavWorks
    /\ Dav!Idle.at = "idle" /\ Dav!Idle.todo = {} /\ Dav!Idle.removed = {} /\ \A h \in Dav!Item : Dav!Idle.listed[h] = 0
BY DEF Dav!Idle, DavWorks, DavPhases, DavPosition, Dav!Null

\* The parts of an operation, and the operations that the commands put into the queue.
LEMMA DavQueued ==
    ASSUME DavTypeOK, NEW h \in Dav!Item, NEW action \in DavActions, NEW text \in Int, NEW opened \in Nat
    PROVE  /\ Dav!NoOp \in DavOperation /\ Dav!Enqueued(h, action, text, opened) \in DavOperation
           /\ LET next == Dav!Enqueued(h, action, text, opened) IN
              /\ next.text = text /\ next.server \in {Dav!Absent, op[h].server}
              /\ next.status = "queued" \/ (op[h] # Dav!NoOp /\ next.status = op[h].status)
              /\ next.action = action \/ (op[h].action = "create" /\ next.action = "create")
              /\ \/ next.base = cache[h].tag /\ next.opened = opened
                 \/ next.base = op[h].base /\ next.opened = op[h].opened
<1>1. Dav!NoOp \in DavOperation /\ op[h] \in DavOperation /\ cache[h].tag \in Nat
  BY DEF DavTypeOK, Dav!NoOp, DavOperation, DavActions, DavStatuses, Dav!Absent, DavVersion
<1>2. Dav!New(h, action, text, opened) \in DavOperation /\ Dav!Merged(h, action, text) \in DavOperation
  BY <1>1 DEF Dav!New, Dav!Merged, DavOperation, DavActions, DavStatuses
<1>3. LET next == Dav!New(h, action, text, opened) IN
      /\ next.text = text /\ next.server = Dav!Absent /\ next.status = "queued" /\ next.action = action
      /\ next.base = cache[h].tag /\ next.opened = opened
  BY DEF Dav!New, Dav!NoOp
<1>4. LET next == Dav!Merged(h, action, text) IN
      /\ next.text = text /\ next.server = op[h].server /\ next.status = op[h].status
      /\ next.action = action \/ (op[h].action = "create" /\ next.action = "create")
      /\ next.base = op[h].base /\ next.opened = op[h].opened
  BY <1>1 DEF Dav!Merged, DavOperation
<1> QED BY <1>1, <1>2, <1>3, <1>4 DEF Dav!Enqueued

\* What resolve sends again.
LEMMA DavSentAgain ==
    ASSUME DavTypeOK, NEW h \in Dav!Item, Dav!InReview(h)
    PROVE  /\ Dav!Again(h) \in DavOperation
           /\ \/ /\ Dav!Again(h).text = op[h].text /\ Dav!Again(h).status = "queued"
                 /\ Dav!Again(h).server = Dav!Absent /\ Dav!Again(h).action \in {op[h].action, "create"}
              \/ Dav!Again(h) = Dav!NoOp /\ op[h].action = "delete" /\ op[h].status = "conflict" /\ op[h].server = Dav!Absent
           /\ Dav!Again(h).base = Dav!Again(h).opened \/ op[h].base # op[h].opened
<1> DEFINE again == [op[h] EXCEPT !.status = "queued", !.due = TRUE, !.server = Dav!Absent]
<1>0. op[h] \in DavOperation /\ Dav!Absent \in DavVersion /\ Dav!NoOp \in DavOperation /\ op[h].server.tag \in Nat
  BY DEF DavTypeOK, DavOperation, DavVersion, Dav!Absent, Dav!NoOp, DavActions, DavStatuses
<1>1. again \in DavOperation /\ again.text = op[h].text /\ again.status = "queued" /\ again.server = Dav!Absent
      /\ again.action = op[h].action /\ again.base = op[h].base /\ again.opened = op[h].opened
  BY <1>0 DEF DavOperation, DavActions, DavStatuses
<1> HIDE DEF again
<1>2. CASE op[h].status = "failed"
  <2>1. Dav!Again(h) = again
    BY <1>2 DEF Dav!Again, again
  <2> QED BY <1>1, <2>1
<1>3. CASE op[h].status = "conflict" /\ op[h].server # Dav!Absent
  <2>1. Dav!Again(h) = [again EXCEPT !.base = op[h].server.tag, !.opened = op[h].server.tag]
    BY <1>3 DEF Dav!Again, again
  <2> QED BY <1>0, <1>1, <2>1 DEF DavOperation
<1>4. CASE op[h].status = "conflict" /\ op[h].server = Dav!Absent /\ op[h].action = "delete"
  <2>1. Dav!Again(h) = Dav!NoOp
    BY <1>4 DEF Dav!Again
  <2> QED BY <1>0, <1>4, <2>1 DEF Dav!NoOp
<1>5. CASE op[h].status = "conflict" /\ op[h].server = Dav!Absent /\ op[h].action # "delete"
  <2>1. Dav!Again(h) = [again EXCEPT !.action = "create", !.base = 0, !.opened = 0]
    BY <1>5 DEF Dav!Again, again
  <2>2. Dav!Again(h) \in DavOperation
    <3>1. "create" \in DavActions /\ 0 \in Nat
      BY DEF DavActions
    <3> QED BY <1>1, <2>1, <3>1 DEF DavOperation
  <2>3. /\ Dav!Again(h).text = op[h].text /\ Dav!Again(h).status = "queued" /\ Dav!Again(h).server = Dav!Absent
        /\ Dav!Again(h).action = "create" /\ Dav!Again(h).base = 0 /\ Dav!Again(h).opened = 0
    BY <1>1, <2>1 DEF DavOperation
  <2> QED BY <2>2, <2>3
<1>6. op[h].status = "failed" \/ op[h].status = "conflict"
  BY DEF Dav!InReview
<1> QED BY <1>2, <1>3, <1>4, <1>5, <1>6

\* The steps, by what they do to the server and its log.
DavRemote == Dav!Serves \/ \E h \in Dav!Item : Dav!Foreign(h)

LEMMA DavRemoteStep ==
    ASSUME DavIInv, DavRemote
    PROVE  \E h \in Dav!Item, text \in Int :
              /\ Dav!Becomes(h, text) \/ UNCHANGED <<davServer, davLog>>
              /\ Dav!Serves => h = work.item /\ text = op[h].text
<1>0. DavTypeOK /\ DavSending
  BY DEF DavIInv
<1>1. CASE Dav!Serves
  <2>1. work.item \in Dav!Item /\ op[work.item].text \in Int
    BY <1>0, <1>1 DEF DavSending, DavSends, Dav!Serves, Dav!At, DavTypeOK, DavOperation
  <2>2. Dav!Becomes(work.item, op[work.item].text) \/ UNCHANGED <<davServer, davLog>>
    BY <1>1 DEF Dav!Serves, Dav!remote
  <2> QED BY <2>1, <2>2
<1>2. ASSUME NEW h \in Dav!Item, Dav!Foreign(h), ~Dav!Serves
      PROVE  \E text \in Int : Dav!Becomes(h, text)
  <2>1. \A n \in {0, -(DavNItems + foreign + 1)} : Dav!Becomes(h, n) => n \in Int
    BY <1>0, <1>2 DEF Dav!Foreign, DavTypeOK
  <2> QED BY <1>2, <2>1 DEF Dav!Foreign
<1> QED BY <1>1, <1>2 DEF DavRemote

LEMMA DavWorkTypeStep ==
    ASSUME DavIInv, Dav!Next
    PROVE  work' \in DavWorks
<1>0. DavTypeOK /\ DavSending /\ work \in DavWorks /\ davLog \in Seq(Dav!Item) /\ Len(davLog) \in Nat
  BY DEF DavIInv, DavTypeOK
<1>1. CASE \E h \in Dav!Item : Dav!SendBegins(h)
  <2>1. PICK h \in Dav!Item : Dav!SendBegins(h)
    BY <1>1
  <2>2. h \in Nat
    BY DEF Dav!Item
  <2> QED BY <1>0, <2>1, <2>2 DEF Dav!SendBegins, DavWorks, DavPhases
<1>2. CASE Dav!FlushEnds
  <2>1. token \in DavPosition /\ (token = Dav!Null) \in BOOLEAN /\ "report" \in DavPhases
    BY <1>0 DEF DavTypeOK, DavPosition, DavPhases
  <2>2. [Dav!Idle EXCEPT !.at = "report", !.token = token, !.complete = token = Dav!Null] \in DavWorks
    BY <2>1, DavIdleWork DEF DavWorks
  <2> QED BY <1>2, <2>2, DavIdleWork DEF Dav!FlushEnds
<1>3. CASE Dav!Serves
  <2>1. \/ work' = [work EXCEPT !.at = "done", !.tag = Len(davLog) + 1]
        \/ work' = [work EXCEPT !.at = "conflict"] \/ work' = [work EXCEPT !.at = "done"]
    BY <1>3 DEF Dav!Serves
  <2>2. "done" \in DavPhases /\ "conflict" \in DavPhases /\ Len(davLog) + 1 \in Nat
    BY <1>0 DEF DavPhases
  <2>3. [work EXCEPT !.at = "done", !.tag = Len(davLog) + 1] \in DavWorks
    BY <1>0, <2>2 DEF DavWorks
  <2>4. [work EXCEPT !.at = "conflict"] \in DavWorks /\ [work EXCEPT !.at = "done"] \in DavWorks
    BY <1>0, <2>2 DEF DavWorks
  <2> QED BY <2>1, <2>2, <2>3, <2>4
<1>4. CASE Dav!Answered \/ Dav!Conflicts \/ Dav!Refused
  BY <1>0, <1>4 DEF Dav!Answered, Dav!Conflicts, Dav!Refused, DavWorks, DavPhases
<1>5. CASE Dav!Fails
  <2>1. work.todo \in SUBSET Dav!Item /\ {} \in SUBSET Dav!Item
    BY <1>0 DEF DavWorks
  <2>2. PICK todo \in SUBSET Dav!Item : work' = [work EXCEPT !.at = "flush", !.todo = todo]
    BY <1>5, <2>1 DEF Dav!Fails
  <2>3. "flush" \in DavPhases
    BY DEF DavPhases
  <2> QED BY <1>0, <2>2, <2>3 DEF DavWorks
<1>6. CASE Dav!Report
  <2> DEFINE from == IF work.token = Dav!Null THEN 0 ELSE work.token
  <2>1. PICK last \in from .. Len(davLog) :
           LET now == Dav!ChangedIn(from, last)
               gone == {h \in now : davServer[h] = Dav!Absent}
           IN  work' = [work EXCEPT !.token = last, !.at = IF last = Len(davLog) THEN "fetch" ELSE "report",
                !.listed = [h \in Dav!Item |-> IF h \in now THEN davServer[h].tag ELSE @[h]],
                !.removed = (@ \ now) \cup gone]
    BY <1>6 DEF Dav!Report
  <2>2. from \in Nat /\ last \in Nat
    BY <1>0 DEF DavWorks, DavPosition
  <2>3. Dav!ChangedIn(from, last) \subseteq Dav!Item
    BY <1>0, <2>2 DEF Dav!ChangedIn
  <2> DEFINE now == Dav!ChangedIn(from, last)
             listed == [h \in Dav!Item |-> IF h \in now THEN davServer[h].tag ELSE work.listed[h]]
             removed == (work.removed \ now) \cup {h \in now : davServer[h] = Dav!Absent}
  <2>4. listed \in [Dav!Item -> Nat]
    BY <1>0 DEF DavTypeOK, DavWorks, DavVersion
  <2>5. removed \in SUBSET Dav!Item
    BY <1>0, <2>3 DEF DavWorks
  <2>6. \E at \in {"fetch", "report"} :
           work' = [work EXCEPT !.token = last, !.at = at, !.listed = listed, !.removed = removed]
    BY <2>1
  <2> HIDE DEF from, now, listed, removed
  <2> QED BY <1>0, <2>2, <2>4, <2>5, <2>6 DEF DavWorks, DavPhases, DavPosition
<1>7. CASE Dav!Restarts
  BY <1>7, DavIdleWork DEF Dav!Restarts, DavWorks, DavPhases
<1>8. CASE Dav!Fetch \/ Dav!PullFails \/ Dav!Crash
  BY <1>8, DavIdleWork DEF Dav!Fetch, Dav!PullFails, Dav!Crash
<1>9. ASSUME NEW sync \in BOOLEAN, Dav!Passes(sync) PROVE work' \in DavWorks
  <2>1. {h \in Dav!Item : op'[h].status = "queued" /\ op'[h].due} \in SUBSET Dav!Item
    OBVIOUS
  <2> QED BY <1>9, <2>1, DavIdleWork DEF Dav!Passes, DavWorks, DavPhases
<1>10. CASE Dav!Syncs \/ \E h \in Dav!Item : Dav!Create(h) \/ Dav!Update(h) \/ Dav!Delete(h) \/ Dav!KeepServer(h) \/ Dav!KeepLocal(h)
  BY <1>9, <1>10 DEF Dav!Syncs, Dav!Create, Dav!Update, Dav!Write, Dav!Delete, Dav!KeepServer, Dav!KeepLocal
<1>11. CASE Dav!Expires \/ \E h \in Dav!Item : Dav!BecomesDue(h) \/ Dav!Foreign(h)
  BY <1>0, <1>11 DEF Dav!Expires, Dav!BecomesDue, Dav!Foreign
<1> QED BY <1>1, <1>2, <1>3, <1>4, <1>5, <1>6, <1>7, <1>8, <1>10, <1>11 DEF Dav!Next, Dav!WorkSteps

LEMMA DavOpTypeStep ==
    ASSUME DavIInv, Dav!Next
    PROVE  op' \in [Dav!Item -> DavOperation]
<1>0. DavTypeOK /\ DavSending /\ op \in [Dav!Item -> DavOperation] /\ "delete" \in DavActions /\ "create" \in DavActions /\ "update" \in DavActions
  BY DEF DavIInv, DavTypeOK, DavActions
<1>1. ASSUME NEW h \in Dav!Item, NEW action \in {"create", "update"}, NEW opened \in Nat, Dav!Write(h, action, opened)
      PROVE  op' \in [Dav!Item -> DavOperation]
  <2>1. Dav!Enqueued(h, action, texts + 1, opened) \in DavOperation
    BY <1>0, DavQueued DEF DavTypeOK
  <2> QED BY <1>0, <1>1, <2>1 DEF Dav!Write
<1>2. ASSUME NEW h \in Dav!Item, NEW opened \in Dav!Openings(h) PROVE opened \in Nat
  BY <1>0, <1>2 DEF Dav!Openings, DavTypeOK, DavVersion
<1>3. ASSUME NEW h \in Dav!Item, Dav!Create(h) \/ Dav!Update(h) PROVE op' \in [Dav!Item -> DavOperation]
  BY <1>1, <1>2, <1>3 DEF Dav!Create, Dav!Update
<1>4. ASSUME NEW h \in Dav!Item, Dav!Delete(h) PROVE op' \in [Dav!Item -> DavOperation]
  <2>1. PICK opened \in Dav!Openings(h) :
           op' = [op EXCEPT ![h] = IF @.action = "create" THEN Dav!NoOp ELSE Dav!Enqueued(h, "delete", 0, opened)]
    BY <1>4 DEF Dav!Delete
  <2>2. Dav!Enqueued(h, "delete", 0, opened) \in DavOperation /\ Dav!NoOp \in DavOperation
    BY <1>0, <1>2, DavQueued
  <2> QED BY <1>0, <2>1, <2>2
<1>5. ASSUME NEW h \in Dav!Item, Dav!KeepServer(h) \/ Dav!KeepLocal(h) \/ Dav!BecomesDue(h) PROVE op' \in [Dav!Item -> DavOperation]
  <2>1. Dav!NoOp \in DavOperation
    BY DEF Dav!NoOp, DavOperation, DavActions, DavStatuses, Dav!Absent, DavVersion
  <2>2. CASE Dav!KeepServer(h)
    BY <1>0, <2>1, <2>2 DEF Dav!KeepServer
  <2>3. CASE Dav!KeepLocal(h)
    BY <1>0, <2>3, DavSentAgain DEF Dav!KeepLocal
  <2>4. CASE Dav!BecomesDue(h)
    BY <1>0, <2>4 DEF Dav!BecomesDue, DavOperation
  <2> QED BY <1>5, <2>2, <2>3, <2>4
<1>6. CASE Dav!Answered \/ Dav!Conflicts \/ Dav!Fails \/ Dav!Refused
  <2>1. PICK h \in Dav!Item : h = work.item
    BY <1>0, <1>6 DEF DavSending, Dav!Answered, Dav!Conflicts, Dav!Fails, Dav!Refused, DavSends, Dav!At
  <2>2. op[h] \in DavOperation /\ davServer[h] \in DavVersion /\ Dav!NoOp \in DavOperation
    BY <1>0 DEF DavTypeOK, Dav!NoOp, DavOperation, DavActions, DavStatuses, Dav!Absent, DavVersion
  <2>3. /\ [op[h] EXCEPT !.status = "conflict", !.server = davServer[h]] \in DavOperation
        /\ [op[h] EXCEPT !.due = FALSE] \in DavOperation
        /\ [op[h] EXCEPT !.status = "failed", !.due = FALSE] \in DavOperation
    BY <2>2 DEF DavOperation, DavStatuses
  <2>4. \/ op' = [op EXCEPT ![h] = Dav!NoOp]
        \/ op' = [op EXCEPT ![h] = [op[h] EXCEPT !.status = "conflict", !.server = davServer[h]]]
        \/ op' = [op EXCEPT ![h] = [op[h] EXCEPT !.due = FALSE]]
        \/ op' = [op EXCEPT ![h] = [op[h] EXCEPT !.status = "failed", !.due = FALSE]]
    BY <1>0, <1>6, <2>1 DEF Dav!Answered, Dav!Conflicts, Dav!Fails, Dav!Refused
  <2> QED BY <1>0, <2>1, <2>2, <2>3, <2>4
<1>7. CASE UNCHANGED op
  BY <1>0, <1>7
<1> QED BY <1>3, <1>4, <1>5, <1>6, <1>7 DEF Dav!Next, Dav!WorkSteps, Dav!SendBegins, Dav!FlushEnds, Dav!Serves,
     Dav!Report, Dav!Restarts, Dav!Fetch, Dav!Syncs, Dav!PullFails, Dav!Crash, Dav!Expires, Dav!Foreign

LEMMA DavTypeStep ==
    ASSUME DavIInv, Dav!Next
    PROVE  DavTypeOK'
<1>0. DavTypeOK /\ DavSending /\ DavPull /\ work \in DavWorks /\ Len(davLog) \in Nat
  BY DEF DavIInv, DavTypeOK
<1>1. /\ davServer' \in [Dav!Item -> DavVersion] /\ davLog' \in Seq(Dav!Item) /\ Len(davLog') \in Nat /\ Len(davLog) <= Len(davLog')
  <2>1. CASE UNCHANGED <<davServer, davLog>>
    BY <1>0, <2>1 DEF DavTypeOK
  <2>2. ASSUME NEW h \in Dav!Item, NEW text \in Int, Dav!Becomes(h, text)
        PROVE  /\ davServer' \in [Dav!Item -> DavVersion] /\ davLog' \in Seq(Dav!Item) /\ Len(davLog') \in Nat /\ Len(davLog) <= Len(davLog')
    <3>1. davLog' \in Seq(Dav!Item) /\ davServer' \in [Dav!Item -> DavVersion] /\ Len(davLog') = Len(davLog) + 1
      BY <1>0, <2>2, DavGrows
    <3> QED BY <1>0, <3>1
  <2>3. CASE DavRemote
    <3>1. PICK h \in Dav!Item, text \in Int : Dav!Becomes(h, text) \/ UNCHANGED <<davServer, davLog>>
      BY <2>3, DavRemoteStep
    <3> QED BY <2>1, <2>2, <3>1
  <2>4. ~DavRemote => UNCHANGED <<davServer, davLog>>
    BY DEF DavRemote, Dav!Next, Dav!WorkSteps, Dav!SendBegins, Dav!FlushEnds, Dav!Answered, Dav!Conflicts,
         Dav!Report, Dav!Restarts, Dav!Fetch, Dav!Syncs, Dav!Fails, Dav!Refused, Dav!PullFails, Dav!Crash,
         Dav!Expires, Dav!Create, Dav!Update, Dav!Write, Dav!Delete, Dav!BecomesDue, Dav!KeepServer,
         Dav!KeepLocal, Dav!remote
  <2> QED BY <2>1, <2>2, <2>3, <2>4
<1>2. cache' \in [Dav!Item -> DavVersion]
  <2>0. cache \in [Dav!Item -> DavVersion] /\ davServer \in [Dav!Item -> DavVersion] /\ Dav!Absent \in DavVersion
    BY <1>0 DEF DavTypeOK, Dav!Absent, DavVersion
  <2>1. CASE Dav!Answered
    <3>1. PICK h \in Dav!Item : h = work.item
      BY <1>0, <2>1 DEF DavSending, Dav!Answered, DavSends, Dav!At
    <3>2. PICK kept \in Dav!Stored(h) : cache' = [cache EXCEPT ![h] = kept]
      BY <2>1, <3>1 DEF Dav!Answered
    <3>3. op[h].text \in Int /\ work.tag \in Nat
      BY <1>0 DEF DavTypeOK, DavOperation, DavWorks
    <3>4. kept \in DavVersion
      BY <2>0, <3>2, <3>3 DEF Dav!Stored, Dav!ReadBack, DavVersion
    <3> QED BY <2>0, <3>2, <3>4
  <2>2. CASE Dav!Conflicts
    BY <1>0, <2>0, <2>2 DEF Dav!Conflicts, DavSending, DavSends, Dav!At
  <2>3. CASE Dav!Fetch
    BY <2>0, <2>3 DEF Dav!Fetch
  <2>4. ASSUME NEW h \in Dav!Item, Dav!KeepServer(h) \/ Dav!KeepLocal(h) PROVE cache' \in [Dav!Item -> DavVersion]
    <3>1. op[h].server \in DavVersion
      BY <1>0 DEF DavTypeOK, DavOperation
    <3> QED BY <2>0, <2>4, <3>1 DEF Dav!KeepServer, Dav!KeepLocal
  <2>5. CASE UNCHANGED cache
    BY <2>0, <2>5
  <2> QED BY <2>1, <2>2, <2>3, <2>4, <2>5 DEF Dav!Next, Dav!WorkSteps, Dav!SendBegins, Dav!FlushEnds,
       Dav!Serves, Dav!Report, Dav!Restarts, Dav!Syncs, Dav!Fails, Dav!Refused, Dav!PullFails, Dav!Crash,
       Dav!Expires, Dav!Create, Dav!Update, Dav!Write, Dav!Delete, Dav!BecomesDue, Dav!Foreign
<1>3. token' \in 0 .. Len(davLog')
  <2>1. CASE Dav!Fetch
    <3>1. work.token \in 0 .. Len(davLog)
      BY <1>0, <2>1 DEF Dav!Fetch, DavPull, DavFrom, Dav!At, DavWorks, DavPosition
    <3> QED BY <1>0, <1>1, <2>1, <3>1 DEF Dav!Fetch
  <2>2. CASE UNCHANGED token
    BY <1>0, <1>1, <2>2 DEF DavTypeOK
  <2> QED BY <2>1, <2>2 DEF Dav!Next, Dav!WorkSteps, Dav!SendBegins, Dav!FlushEnds, Dav!Serves, Dav!Report,
       Dav!Restarts, Dav!Answered, Dav!Conflicts, Dav!Syncs, Dav!Fails, Dav!Refused, Dav!PullFails, Dav!Crash,
       Dav!Expires, Dav!Create, Dav!Update, Dav!Write, Dav!Delete, Dav!BecomesDue, Dav!Foreign, Dav!KeepServer,
       Dav!KeepLocal
<1>4. texts' \in Nat /\ foreign' \in Nat
  <2>0. texts \in Nat /\ foreign \in Nat
    BY <1>0 DEF DavTypeOK
  <2>1. ASSUME NEW h \in Dav!Item, Dav!Create(h) \/ Dav!Update(h) PROVE texts' = texts + 1 /\ foreign' = foreign
    BY <2>1 DEF Dav!Create, Dav!Update, Dav!Write
  <2>2. ASSUME NEW h \in Dav!Item, Dav!Foreign(h) PROVE texts' = texts /\ foreign' = foreign + 1
    BY <2>2 DEF Dav!Foreign
  <2>3. \/ texts' = texts /\ foreign' = foreign
        \/ \E h \in Dav!Item : Dav!Create(h) \/ Dav!Update(h) \/ Dav!Foreign(h)
    BY DEF Dav!Next, Dav!WorkSteps, Dav!SendBegins, Dav!FlushEnds, Dav!Serves, Dav!Report, Dav!Restarts,
         Dav!Answered, Dav!Conflicts, Dav!Fetch, Dav!Syncs, Dav!Fails, Dav!Refused, Dav!PullFails, Dav!Crash,
         Dav!Expires, Dav!Delete, Dav!BecomesDue, Dav!KeepServer, Dav!KeepLocal, Dav!bounds
  <2> QED BY <2>0, <2>1, <2>2, <2>3
<1> QED BY <1>1, <1>2, <1>3, <1>4, DavWorkTypeStep, DavOpTypeStep DEF DavTypeOK

\* After a step: what the reports list, and the copies of a version.
DavListedThen(h, first) == h \in {davLog'[k] : k \in first + 1 .. Len(davLog')}
DavCopyThen(kept, h) == kept.tag <= Len(davLog') /\ (kept.tag = davServer'[h].tag /\ kept.tag # 0 => kept = davServer'[h])

\* An item that a step changes on the server is listed from then on.
LEMMA DavStays ==
    ASSUME DavIInv, Dav!Next, NEW h \in Dav!Item
    PROVE  /\ Len(davLog) \in Nat /\ Len(davLog') \in {Len(davLog), Len(davLog) + 1}
           /\ \A first \in 0 .. Len(davLog) : DavListed(h, first) => DavListedThen(h, first)
           /\ \/ davServer'[h] = davServer[h]
              \/ /\ \A first \in 0 .. Len(davLog) : DavListedThen(h, first)
                 /\ davServer'[h] = Dav!Absent \/ (davServer'[h].tag = Len(davLog) + 1 /\ Len(davLog') = Len(davLog) + 1)
<1>0. DavTypeOK /\ Len(davLog) \in Nat
  BY DEF DavIInv, DavTypeOK
<1>1. CASE UNCHANGED <<davServer, davLog>>
  BY <1>0, <1>1 DEF DavListed, DavListedThen, Dav!ChangedIn
<1>2. ASSUME NEW i \in Dav!Item, NEW text \in Int, Dav!Becomes(i, text)
      PROVE  /\ Len(davLog') = Len(davLog) + 1
             /\ \A first \in 0 .. Len(davLog) : DavListed(h, first) \/ h = i => DavListedThen(h, first)
             /\ h # i => davServer'[h] = davServer[h]
             /\ h = i => davServer'[h] = Dav!Absent \/ davServer'[h].tag = Len(davLog) + 1
  <2>1. /\ Len(davLog') = Len(davLog) + 1 /\ (h # i => davServer'[h] = davServer[h])
        /\ davServer'[i] = Dav!Absent \/ davServer'[i] = [text |-> text, tag |-> Len(davLog) + 1]
        /\ \A first \in 0 .. Len(davLog) :
              h \in {davLog'[k] : k \in first + 1 .. Len(davLog')} <=> h \in Dav!ChangedIn(first, Len(davLog)) \/ h = i
    BY <1>0, <1>2, DavGrows
  <2> QED BY <2>1 DEF DavListed, DavListedThen
<1>3. CASE DavRemote
  <2>1. PICK i \in Dav!Item, text \in Int : Dav!Becomes(i, text) \/ UNCHANGED <<davServer, davLog>>
    BY <1>3, DavRemoteStep
  <2> QED BY <1>0, <1>1, <1>2, <2>1
<1>4. ~DavRemote => UNCHANGED <<davServer, davLog>>
  BY DEF DavRemote, Dav!Next, Dav!WorkSteps, Dav!SendBegins, Dav!FlushEnds, Dav!Answered, Dav!Conflicts,
       Dav!Report, Dav!Restarts, Dav!Fetch, Dav!Syncs, Dav!Fails, Dav!Refused, Dav!PullFails, Dav!Crash,
       Dav!Expires, Dav!Create, Dav!Update, Dav!Write, Dav!Delete, Dav!BecomesDue, Dav!KeepServer,
       Dav!KeepLocal, Dav!remote
<1> QED BY <1>1, <1>3, <1>4

LEMMA DavCopyStays ==
    ASSUME DavIInv, Dav!Next, NEW h \in Dav!Item, NEW kept \in DavVersion, DavCopyOf(kept, h)
    PROVE  DavCopyThen(kept, h)
<1>1. kept.tag \in Nat /\ Len(davLog) \in Nat /\ Dav!Absent.tag = 0
  BY DEF DavVersion, DavIInv, DavTypeOK, Dav!Absent
<1>2. /\ Len(davLog') \in {Len(davLog), Len(davLog) + 1}
      /\ \/ davServer'[h] = davServer[h]
         \/ davServer'[h] = Dav!Absent \/ davServer'[h].tag = Len(davLog) + 1
  BY DavStays
<1> QED BY <1>1, <1>2 DEF DavCopyOf, DavCopyThen

\* What the cache and the reviews hold after a step.
LEMMA DavCopiesStep ==
    ASSUME DavIInv, Dav!Next, NEW h \in Dav!Item
    PROVE  DavCopyThen(cache'[h], h) /\ DavCopyThen(op'[h].server, h)
<1>0. /\ DavTypeOK /\ DavSending /\ Dav!Absent \in DavVersion /\ davServer[h] \in DavVersion /\ cache[h] \in DavVersion /\ op[h].server \in DavVersion
      /\ DavCopyOf(cache[h], h) /\ DavCopyOf(op[h].server, h) /\ DavCopyOf(davServer[h], h) /\ DavCopyOf(Dav!Absent, h)
  <2>1. DavTypeOK /\ DavVersions(h)
    BY DEF DavIInv
  <2>2. Dav!Absent \in DavVersion /\ davServer[h] \in DavVersion /\ cache[h] \in DavVersion /\ op[h].server \in DavVersion /\ Len(davLog) \in Nat
    BY <2>1 DEF DavTypeOK, DavOperation, Dav!Absent, DavVersion
  <2>3. DavCopyOf(davServer[h], h) /\ DavCopyOf(Dav!Absent, h)
    BY <2>1, <2>2 DEF DavVersions, DavCopyOf, Dav!Absent
  <2> QED BY <2>1, <2>2, <2>3 DEF DavVersions, DavIInv
<1>1. DavCopyThen(davServer[h], h) /\ DavCopyThen(Dav!Absent, h) /\ DavCopyThen(cache[h], h) /\ DavCopyThen(op[h].server, h)
  BY <1>0, DavCopyStays
<1>2. ASSUME cache'[h] \in {cache[h], davServer[h], Dav!Absent, op[h].server},
             op'[h].server \in {op[h].server, davServer[h], Dav!Absent}
      PROVE  DavCopyThen(cache'[h], h) /\ DavCopyThen(op'[h].server, h)
  BY <1>1, <1>2
<1>3. op'[h].server \in {op[h].server, davServer[h], Dav!Absent}
  <2>1. ASSUME NEW i \in Dav!Item, NEW action \in DavActions, NEW text \in Int, NEW opened \in Nat,
               op' = [op EXCEPT ![i] = Dav!Enqueued(i, action, text, opened)] \/ op' = [op EXCEPT ![i] = Dav!NoOp]
        PROVE  op'[h].server \in {op[h].server, davServer[h], Dav!Absent}
    <3>1. Dav!Enqueued(h, action, text, opened).server \in {Dav!Absent, op[h].server} /\ Dav!NoOp.server = Dav!Absent
      BY <1>0, DavQueued DEF Dav!NoOp
    <3> QED BY <1>0, <2>1, <3>1 DEF DavTypeOK
  <2>2. ASSUME NEW i \in Dav!Item, Dav!Create(i) \/ Dav!Update(i) \/ Dav!Delete(i) PROVE op'[h].server \in {op[h].server, davServer[h], Dav!Absent}
    <3>1. \E action \in DavActions, text \in Int, opened \in Nat :
             op' = [op EXCEPT ![i] = Dav!Enqueued(i, action, text, opened)] \/ op' = [op EXCEPT ![i] = Dav!NoOp]
      <4>1. \A opened \in Dav!Openings(i) : opened \in Nat
        BY <1>0 DEF Dav!Openings, DavTypeOK, DavVersion
      <4>2. texts + 1 \in Int /\ 0 \in Int /\ {"create", "update", "delete"} \subseteq DavActions
        BY <1>0 DEF DavTypeOK, DavActions
      <4>3. ASSUME Dav!Create(i) \/ Dav!Update(i)
            PROVE  \E action \in {"create", "update"}, opened \in Nat : Dav!Write(i, action, opened)
        BY <4>1, <4>3 DEF Dav!Create, Dav!Update
      <4>4. CASE Dav!Create(i) \/ Dav!Update(i)
        BY <4>2, <4>3, <4>4 DEF Dav!Write
      <4>5. CASE Dav!Delete(i)
        <5>1. PICK opened \in Dav!Openings(i) :
                 op' = [op EXCEPT ![i] = IF @.action = "create" THEN Dav!NoOp ELSE Dav!Enqueued(i, "delete", 0, opened)]
          BY <4>5 DEF Dav!Delete
        <5> QED BY <4>1, <4>2, <5>1
      <4> QED BY <2>2, <4>4, <4>5
    <3> QED BY <2>1, <3>1
  <2>3. ASSUME NEW i \in Dav!Item, Dav!KeepLocal(i) PROVE op'[h].server \in {op[h].server, davServer[h], Dav!Absent}
    <3>1. Dav!Again(i).server = Dav!Absent
      BY <1>0, <2>3, DavSentAgain DEF Dav!KeepLocal, Dav!NoOp
    <3> QED BY <1>0, <2>3, <3>1 DEF Dav!KeepLocal, DavTypeOK
  <2>4. ASSUME NEW i \in Dav!Item, Dav!KeepServer(i) \/ Dav!BecomesDue(i) PROVE op'[h].server \in {op[h].server, davServer[h], Dav!Absent}
    <3>1. op'[h] \in {op[h], Dav!NoOp, [op[h] EXCEPT !.due = TRUE]}
      BY <1>0, <2>4 DEF Dav!KeepServer, Dav!BecomesDue, DavTypeOK
    <3> QED BY <1>0, <3>1 DEF Dav!NoOp, DavTypeOK, DavOperation
  <2>5. CASE Dav!Answered \/ Dav!Conflicts \/ Dav!Fails \/ Dav!Refused
    <3>1. PICK i \in Dav!Item : i = work.item
      BY <1>0, <2>5 DEF DavSending, Dav!Answered, Dav!Conflicts, Dav!Fails, Dav!Refused, DavSends, Dav!At
    <3>2. op'[h] \in {op[h], Dav!NoOp, [op[h] EXCEPT !.status = "conflict", !.server = davServer[h]],
                      [op[h] EXCEPT !.due = FALSE], [op[h] EXCEPT !.status = "failed", !.due = FALSE]}
      BY <1>0, <2>5, <3>1 DEF Dav!Answered, Dav!Conflicts, Dav!Fails, Dav!Refused, DavTypeOK
    <3>3. op[h] \in DavOperation
      BY <1>0 DEF DavTypeOK
    <3>4. /\ Dav!NoOp.server = Dav!Absent /\ [op[h] EXCEPT !.due = FALSE].server = op[h].server
          /\ [op[h] EXCEPT !.status = "conflict", !.server = davServer[h]].server = davServer[h]
          /\ [op[h] EXCEPT !.status = "failed", !.due = FALSE].server = op[h].server
      BY <3>3 DEF Dav!NoOp, DavOperation
    <3> QED BY <3>2, <3>4
  <2>6. CASE UNCHANGED op
    BY <2>6
  <2> QED BY <2>2, <2>3, <2>4, <2>5, <2>6 DEF Dav!Next, Dav!WorkSteps, Dav!SendBegins, Dav!FlushEnds,
       Dav!Serves, Dav!Report, Dav!Restarts, Dav!Fetch, Dav!Syncs, Dav!PullFails, Dav!Crash, Dav!Expires,
       Dav!Foreign
<1>4. CASE Dav!Answered /\ h = work.item
  <2>1. DavDone(h) /\ op[h].text \in Int /\ work.tag \in Nat
    BY <1>0, <1>4 DEF DavIInv, Dav!Answered, Dav!At, DavTypeOK, DavOperation, DavWorks
  <2>2. cache'[h] \in Dav!Stored(h) /\ davServer' = davServer /\ davLog' = davLog
    BY <1>0, <1>4 DEF Dav!Answered, Dav!remote, DavTypeOK
  <2>3. DavCopyThen(cache'[h], h)
    <3>1. cache'[h] \in {Dav!Absent, davServer[h]} \/ (op[h].text # 0 /\ cache'[h] \in {[text |-> op[h].text, tag |-> work.tag], [text |-> op[h].text, tag |-> 0]})
      BY <2>2 DEF Dav!Stored, Dav!ReadBack
    <3>2. davServer[h] = [text |-> davServer[h].text, tag |-> davServer[h].tag] /\ Len(davLog) \in Nat
      BY <1>0 DEF DavVersion, DavTypeOK
    <3> QED BY <1>1, <2>1, <2>2, <3>1, <3>2 DEF DavDone, DavCopyThen
  <2> QED BY <1>1, <1>3, <2>3
<1>5. cache'[h] \in {cache[h], davServer[h], Dav!Absent, op[h].server} \/ (Dav!Answered /\ h = work.item)
  <2>1. CASE Dav!Answered
    BY <1>0, <2>1 DEF Dav!Answered, DavTypeOK
  <2>2. CASE Dav!Conflicts
    BY <1>0, <2>2 DEF Dav!Conflicts, DavTypeOK
  <2>3. CASE Dav!Fetch
    BY <1>0, <2>3 DEF Dav!Fetch
  <2>4. ASSUME NEW i \in Dav!Item, Dav!KeepServer(i) \/ Dav!KeepLocal(i) PROVE cache'[h] \in {cache[h], Dav!Absent, op[h].server}
    BY <1>0, <2>4 DEF Dav!KeepServer, Dav!KeepLocal, DavTypeOK
  <2>5. CASE UNCHANGED cache
    BY <2>5
  <2> QED BY <2>1, <2>2, <2>3, <2>4, <2>5 DEF Dav!Next, Dav!WorkSteps, Dav!SendBegins, Dav!FlushEnds,
       Dav!Serves, Dav!Report, Dav!Restarts, Dav!Syncs, Dav!Fails, Dav!Refused, Dav!PullFails, Dav!Crash,
       Dav!Expires, Dav!Create, Dav!Update, Dav!Write, Dav!Delete, Dav!BecomesDue, Dav!Foreign
<1> QED BY <1>2, <1>3, <1>4, <1>5

LEMMA DavVersionsStep ==
    ASSUME DavIInv, Dav!Next, NEW h \in Dav!Item
    PROVE  DavVersions(h)'
<1>0. DavVersions(h) /\ DavTypeOK
  BY DEF DavIInv
<1>1. DavCopyOf(cache[h], h)' /\ DavCopyOf(op[h].server, h)'
  BY DavCopiesStep DEF DavCopyOf, DavCopyThen
<1>2. davServer'[h] = Dav!Absent \/ (davServer'[h].tag \in 1 .. Len(davLog') /\ DavListedThen(h, 0))
  <2>1. /\ Len(davLog) \in Nat /\ Len(davLog') \in {Len(davLog), Len(davLog) + 1} /\ (DavListed(h, 0) => DavListedThen(h, 0))
        /\ \/ davServer'[h] = davServer[h]
           \/ /\ DavListedThen(h, 0)
              /\ davServer'[h] = Dav!Absent \/ (davServer'[h].tag = Len(davLog) + 1 /\ Len(davLog') = Len(davLog) + 1)
    BY DavStays
  <2> QED BY <1>0, <2>1 DEF DavVersions
<1> QED BY <1>1, <1>2 DEF DavVersions, DavListed, DavListedThen, Dav!ChangedIn

\* What a step does to a change in the queue: it is left as it is but for its
\* delay, it is answered by the server, or the user rewrites, resolves or drops it.
DavKept(h) ==
       /\ op'[h].action = op[h].action /\ op'[h].text = op[h].text
       /\ op'[h].base = op[h].base /\ op'[h].opened = op[h].opened
       /\ \/ op'[h].status = op[h].status /\ op'[h].server = op[h].server
          \/ /\ Dav!At("conflict") /\ h = work.item /\ davServer' = davServer
             /\ op'[h].status = "conflict" /\ op'[h].server = davServer[h]
          \/ op'[h].status = "failed" /\ op'[h].server = op[h].server /\ h = work.item
DavDropped(h) == op'[h] = Dav!NoOp /\ (op[h].text \in waived' \cup {0} \/ (Dav!At("done") /\ h = work.item))
DavWritten(h) ==
    /\ Dav!At("idle") /\ op[h].text \in waived'
    /\ \E action \in {"create", "update", "delete"}, opened \in Nat :
          /\ action = "create" => Dav!Fresh(h) /\ opened = 0
          /\ action # "create" => Dav!Editable(h) /\ opened \in Dav!Openings(h)
          /\ action = "delete" => op[h].action # "create"
          /\ op'[h] = Dav!Enqueued(h, action, IF action = "delete" THEN 0 ELSE texts', opened)
          /\ action # "delete" => texts' = texts + 1
DavResent(h) == Dav!At("idle") /\ Dav!InReview(h) /\ op'[h] = Dav!Again(h) /\ Dav!Again(h) # Dav!NoOp

LEMMA DavOpStep ==
    ASSUME DavIInv, Dav!Next, NEW h \in Dav!Item
    PROVE  DavKept(h) \/ DavDropped(h) \/ DavWritten(h) \/ DavResent(h)
<1>0. DavTypeOK /\ DavSending /\ DavEdit(h) /\ op[h] \in DavOperation /\ Dav!NoOp.text = 0
  BY DEF DavIInv, DavTypeOK, Dav!NoOp
<1>1. CASE op'[h] = op[h]
  BY <1>1 DEF DavKept
<1>2. ASSUME NEW i \in Dav!Item, Dav!Create(i) \/ Dav!Update(i), op'[h] # op[h] PROVE DavWritten(h)
  <2>1. i = h
    BY <1>0, <1>2 DEF Dav!Create, Dav!Update, Dav!Write, DavTypeOK
  <2>2. CASE Dav!Create(h)
    BY <1>0, <2>2 DEF Dav!Create, Dav!Write, DavWritten, DavTypeOK
  <2>3. CASE Dav!Update(h)
    <3>1. PICK opened \in Dav!Openings(h) : Dav!Write(h, "update", opened)
      BY <2>3 DEF Dav!Update
    <3>2. opened \in Nat
      BY <1>0 DEF Dav!Openings, DavTypeOK, DavVersion
    <3> QED BY <1>0, <2>3, <3>1, <3>2 DEF Dav!Update, Dav!Write, DavWritten, DavTypeOK
  <2> QED BY <1>2, <2>1, <2>2, <2>3
<1>3. ASSUME NEW i \in Dav!Item, Dav!Delete(i), op'[h] # op[h] PROVE DavWritten(h) \/ DavDropped(h)
  <2>1. PICK opened \in Dav!Openings(i) :
           op' = [op EXCEPT ![i] = IF @.action = "create" THEN Dav!NoOp ELSE Dav!Enqueued(i, "delete", 0, opened)]
    BY <1>3 DEF Dav!Delete
  <2>2. i = h /\ op[h].text \in waived' /\ Dav!Editable(h) /\ Dav!At("idle") /\ opened \in Nat
    BY <1>0, <1>3, <2>1 DEF Dav!Delete, DavTypeOK, Dav!Openings, DavVersion
  <2>3. op'[h] = IF op[h].action = "create" THEN Dav!NoOp ELSE Dav!Enqueued(h, "delete", 0, opened)
    BY <1>0, <2>1, <2>2 DEF DavTypeOK
  <2> QED BY <2>2, <2>3 DEF DavWritten, DavDropped
<1>4. ASSUME NEW i \in Dav!Item, Dav!KeepServer(i), op'[h] # op[h] PROVE DavDropped(h)
  BY <1>0, <1>4 DEF Dav!KeepServer, DavDropped, DavTypeOK
<1>5. ASSUME NEW i \in Dav!Item, Dav!KeepLocal(i), op'[h] # op[h] PROVE DavDropped(h) \/ DavResent(h)
  <2>1. i = h /\ op'[h] = Dav!Again(h) /\ Dav!InReview(h) /\ Dav!At("idle")
    BY <1>0, <1>5 DEF Dav!KeepLocal, DavTypeOK
  <2>2. Dav!Again(h) = Dav!NoOp => op[h].text = 0
    BY <1>0, <2>1, DavSentAgain DEF DavEdit, Dav!NoOp
  <2> QED BY <2>1, <2>2 DEF DavDropped, DavResent
<1>6. ASSUME NEW i \in Dav!Item, Dav!BecomesDue(i), op'[h] # op[h] PROVE DavKept(h)
  <2>1. op'[h] = [op[h] EXCEPT !.due = TRUE]
    BY <1>0, <1>6 DEF Dav!BecomesDue, DavTypeOK
  <2> QED BY <1>0, <2>1 DEF DavKept, DavOperation
<1>7. CASE Dav!Answered /\ op'[h] # op[h]
  BY <1>0, <1>7 DEF Dav!Answered, DavDropped, DavTypeOK
<1>8. CASE (Dav!Conflicts \/ Dav!Fails \/ Dav!Refused) /\ op'[h] # op[h]
  <2>1. h = work.item /\ op[h] \in DavOperation
    BY <1>0, <1>8 DEF Dav!Conflicts, Dav!Fails, Dav!Refused, DavTypeOK
  <2>2. \/ Dav!Conflicts /\ op'[h] = [op[h] EXCEPT !.status = "conflict", !.server = davServer[h]]
        \/ op'[h] = [op[h] EXCEPT !.due = FALSE]
        \/ op'[h] = [op[h] EXCEPT !.status = "failed", !.due = FALSE]
    BY <1>0, <1>8, <2>1 DEF Dav!Conflicts, Dav!Fails, Dav!Refused, DavTypeOK
  <2>3. /\ LET o == [op[h] EXCEPT !.status = "conflict", !.server = davServer[h]] IN
              /\ o.action = op[h].action /\ o.text = op[h].text /\ o.base = op[h].base /\ o.opened = op[h].opened
              /\ o.status = "conflict" /\ o.server = davServer[h]
        /\ LET o == [op[h] EXCEPT !.due = FALSE] IN
              /\ o.action = op[h].action /\ o.text = op[h].text /\ o.base = op[h].base /\ o.opened = op[h].opened
              /\ o.status = op[h].status /\ o.server = op[h].server
        /\ LET o == [op[h] EXCEPT !.status = "failed", !.due = FALSE] IN
              /\ o.action = op[h].action /\ o.text = op[h].text /\ o.base = op[h].base /\ o.opened = op[h].opened
              /\ o.status = "failed" /\ o.server = op[h].server
    BY <2>1 DEF DavOperation
  <2> QED BY <2>1, <2>2, <2>3 DEF DavKept, Dav!Conflicts, Dav!remote
<1> QED BY <1>1, <1>2, <1>3, <1>4, <1>5, <1>6, <1>7, <1>8 DEF Dav!Next, Dav!WorkSteps, Dav!SendBegins,
     Dav!FlushEnds, Dav!Serves, Dav!Report, Dav!Restarts, Dav!Fetch, Dav!Syncs, Dav!PullFails, Dav!Crash,
     Dav!Expires, Dav!Foreign

LEMMA DavEditStep ==
    ASSUME DavIInv, Dav!Next, NEW h \in Dav!Item
    PROVE  DavEdit(h)'
<1>0. DavTypeOK /\ DavSending /\ DavEdit(h) /\ op[h] \in DavOperation /\ texts \in Nat
  BY DEF DavIInv, DavTypeOK
<1>1. davServer[h] = Dav!Absent /\ op[h].status # "queued" => davServer'[h] = Dav!Absent
  <2>1. CASE Dav!Serves
    <3>1. work.item \in Dav!Item /\ op[work.item].status = "queued"
      BY <1>0, <2>1 DEF Dav!Serves, Dav!At, DavSending, DavSends
    <3> QED BY <1>0, <2>1, <3>1 DEF Dav!Serves, Dav!Becomes, Dav!remote, DavTypeOK
  <2>2. ASSUME NEW i \in Dav!Item, Dav!Foreign(i) PROVE davServer[h] = Dav!Absent => davServer'[h] = Dav!Absent
    BY <1>0, <2>2 DEF Dav!Foreign, Dav!Becomes, DavTypeOK
  <2>3. ~DavRemote => UNCHANGED davServer
    BY DEF DavRemote, Dav!Next, Dav!WorkSteps, Dav!SendBegins, Dav!FlushEnds, Dav!Answered, Dav!Conflicts,
         Dav!Report, Dav!Restarts, Dav!Fetch, Dav!Syncs, Dav!Fails, Dav!Refused, Dav!PullFails, Dav!Crash,
         Dav!Expires, Dav!Create, Dav!Update, Dav!Write, Dav!Delete, Dav!BecomesDue, Dav!KeepServer,
         Dav!KeepLocal, Dav!remote
  <2> QED BY <2>1, <2>2, <2>3 DEF DavRemote
<1>2. CASE DavKept(h)
  BY <1>0, <1>1, <1>2 DEF DavKept, DavEdit
<1>3. CASE DavDropped(h)
  BY <1>3 DEF DavDropped, DavEdit, Dav!NoOp
<1>4. CASE DavWritten(h)
  <2>1. PICK action \in {"create", "update", "delete"}, opened \in Nat :
           /\ action = "create" => Dav!Fresh(h) /\ opened = 0
           /\ action # "create" => Dav!Editable(h) /\ opened \in Dav!Openings(h)
           /\ op'[h] = Dav!Enqueued(h, action, IF action = "delete" THEN 0 ELSE texts', opened)
           /\ action # "delete" => texts' = texts + 1
    BY <1>4 DEF DavWritten
  <2>2. (IF action = "delete" THEN 0 ELSE texts') \in Int /\ action \in DavActions
    BY <1>0, <2>1 DEF DavActions
  <2>3. /\ op'[h].text = (IF action = "delete" THEN 0 ELSE texts')
        /\ op'[h].status = "queued" \/ (op[h] # Dav!NoOp /\ op'[h].status = op[h].status)
        /\ op'[h].action = action \/ (op[h].action = "create" /\ op'[h].action = "create")
    BY <1>0, <2>1, <2>2, DavQueued
  <2>4. op[h] # Dav!NoOp => op[h].status = "queued"
    BY <2>1 DEF Dav!Fresh, Dav!Editable
  <2> QED BY <2>1, <2>3, <2>4 DEF DavEdit
<1>5. CASE DavResent(h)
  <2>1. Dav!Again(h).text = op[h].text /\ Dav!Again(h).status = "queued" /\ Dav!Again(h).action \in {op[h].action, "create"}
    BY <1>0, <1>5, DavSentAgain DEF DavResent
  <2> QED BY <1>0, <1>5, <2>1 DEF DavResent, DavEdit
<1> QED BY <1>2, <1>3, <1>4, <1>5, DavOpStep

LEMMA DavSendingStep ==
    ASSUME DavIInv, Dav!Next
    PROVE  DavSending'
<1>0. DavTypeOK /\ DavSending /\ work \in DavWorks /\ op \in [Dav!Item -> DavOperation]
  BY DEF DavIInv, DavTypeOK
<1>1. Dav!Idle.todo = {} /\ Dav!Idle.at = "idle"
  BY DEF Dav!Idle
<1>2. ASSUME work' = Dav!Idle PROVE DavSending'
  BY <1>1, <1>2 DEF DavSending, DavSends
<1>3. ASSUME NEW sync \in BOOLEAN, Dav!Passes(sync) PROVE DavSending'
  <2>1. work'.at = "flush" /\ work'.todo = {h \in Dav!Item : op'[h].status = "queued" /\ op'[h].due}
    BY <1>3 DEF Dav!Passes, Dav!Idle
  <2> QED BY <2>1 DEF DavSending, DavSends
<1>4. CASE Dav!Syncs \/ \E h \in Dav!Item : Dav!Create(h) \/ Dav!Update(h) \/ Dav!Delete(h) \/ Dav!KeepServer(h) \/ Dav!KeepLocal(h)
  BY <1>3, <1>4 DEF Dav!Syncs, Dav!Create, Dav!Update, Dav!Write, Dav!Delete, Dav!KeepServer, Dav!KeepLocal
<1>5. CASE Dav!Fetch \/ Dav!PullFails \/ Dav!Crash
  BY <1>2, <1>5 DEF Dav!Fetch, Dav!PullFails, Dav!Crash
<1>6. CASE Dav!FlushEnds \/ Dav!Restarts
  <2>1. [Dav!Idle EXCEPT !.at = "report", !.token = token, !.complete = token = Dav!Null].todo = {}
        /\ [Dav!Idle EXCEPT !.at = "report", !.token = token, !.complete = token = Dav!Null].at = "report"
        /\ [Dav!Idle EXCEPT !.at = "report", !.complete = TRUE].todo = {}
        /\ [Dav!Idle EXCEPT !.at = "report", !.complete = TRUE].at = "report"
    BY DEF Dav!Idle
  <2> QED BY <1>1, <1>6, <2>1 DEF Dav!FlushEnds, Dav!Restarts, DavSending, DavSends
<1>7. CASE Dav!Report
  <2>1. work'.todo = work.todo /\ work'.at \in {"report", "fetch"} /\ UNCHANGED op
    BY <1>0, <1>7 DEF Dav!Report, DavWorks
  <2> QED BY <1>0, <2>1 DEF DavSending, DavSends
<1>8. ASSUME NEW h \in Dav!Item, Dav!SendBegins(h) PROVE DavSending'
  <2>1. work'.todo = work.todo \ {h} /\ work'.item = h /\ op' = op /\ op[h].status = "queued"
    BY <1>0, <1>8 DEF Dav!SendBegins, DavWorks, DavSending
  <2> QED BY <1>0, <2>1 DEF DavSending
<1>9. CASE Dav!Serves
  <2>1. work'.todo = work.todo /\ work'.item = work.item /\ op' = op /\ Dav!At("send")
    BY <1>0, <1>9 DEF Dav!Serves, DavWorks
  <2> QED BY <1>0, <2>1 DEF DavSending, DavSends, Dav!At
<1>10. CASE Dav!Answered \/ Dav!Conflicts \/ Dav!Fails \/ Dav!Refused
  <2>0. work.item \in Dav!Item \ work.todo
    BY <1>0, <1>10 DEF Dav!Answered, Dav!Conflicts, Dav!Fails, Dav!Refused, DavSending, DavSends, Dav!At
  <2>1. work'.at = "flush" /\ work'.todo \in {work.todo, {}}
    <3>1. CASE Dav!Fails
      <4>1. PICK todo \in {work.todo, {}} : work' = [work EXCEPT !.at = "flush", !.todo = todo]
        BY <3>1 DEF Dav!Fails
      <4> QED BY <1>0, <4>1 DEF DavWorks
    <3>2. CASE Dav!Answered \/ Dav!Conflicts \/ Dav!Refused
      BY <1>0, <3>2 DEF Dav!Answered, Dav!Conflicts, Dav!Refused, DavWorks
    <3> QED BY <1>10, <3>1, <3>2
  <2>2. \A h \in Dav!Item : h # work.item => op'[h] = op[h]
    BY <1>0, <1>10, <2>1 DEF Dav!Answered, Dav!Conflicts, Dav!Fails, Dav!Refused
  <2>3. work.todo \in SUBSET Dav!Item
    BY <1>0 DEF DavWorks
  <2> QED BY <1>0, <2>0, <2>1, <2>2, <2>3 DEF DavSending, DavSends
<1>11. CASE Dav!Expires \/ \E h \in Dav!Item : Dav!BecomesDue(h) \/ Dav!Foreign(h)
  <2>1. work' = work
    BY <1>11 DEF Dav!Expires, Dav!BecomesDue, Dav!Foreign
  <2>2. \A h \in Dav!Item : op'[h].status = op[h].status
    <3>1. ASSUME NEW i \in Dav!Item, Dav!BecomesDue(i), NEW h \in Dav!Item PROVE op'[h].status = op[h].status
      <4>1. op'[h] \in {op[h], [op[h] EXCEPT !.due = TRUE]} /\ op[h] \in DavOperation
        BY <1>0, <3>1 DEF Dav!BecomesDue
      <4> QED BY <4>1 DEF DavOperation
    <3> QED BY <1>11, <3>1 DEF Dav!Expires, Dav!Foreign
  <2>3. work.todo \in SUBSET Dav!Item
    BY <1>0 DEF DavWorks
  <2> QED BY <1>0, <2>1, <2>2, <2>3 DEF DavSending
<1> QED BY <1>4, <1>5, <1>6, <1>7, <1>8, <1>9, <1>10, <1>11 DEF Dav!Next, Dav!WorkSteps

\* The steps that leave exclusive() at what it does.
LEMMA DavResting ==
    ASSUME DavIInv, Dav!Next, work' = work, ~Dav!At("idle")
    PROVE  /\ UNCHANGED <<cache, token, reached, texts>>
           /\ \A h \in Dav!Item : op'[h].text = op[h].text
<1>0. DavTypeOK /\ work \in DavWorks /\ op \in [Dav!Item -> DavOperation] /\ DavSending
  BY DEF DavIInv, DavTypeOK
<1>1. CASE Dav!Expires \/ \E h \in Dav!Item : Dav!BecomesDue(h) \/ Dav!Foreign(h)
  <2>1. ASSUME NEW i \in Dav!Item, Dav!BecomesDue(i), NEW h \in Dav!Item PROVE op'[h].text = op[h].text
    <3>1. op'[h] \in {op[h], [op[h] EXCEPT !.due = TRUE]} /\ op[h] \in DavOperation
      BY <1>0, <2>1 DEF Dav!BecomesDue
    <3> QED BY <3>1 DEF DavOperation
  <2> QED BY <1>1, <2>1 DEF Dav!Expires, Dav!BecomesDue, Dav!Foreign, Dav!history, Dav!bounds
<1>2. CASE Dav!Report \/ Dav!FlushEnds \/ Dav!Restarts \/ \E h \in Dav!Item : Dav!SendBegins(h)
  BY <1>2 DEF Dav!Report, Dav!FlushEnds, Dav!Restarts, Dav!SendBegins, Dav!At, Dav!history, Dav!bounds
<1>5. CASE Dav!Serves
  <2>1. work'.at \in {"done", "conflict"} /\ work.at = "send"
    BY <1>0, <1>5 DEF Dav!Serves, DavWorks, Dav!At
  <2> QED BY <2>1
<1>3. CASE Dav!Answered \/ Dav!Conflicts \/ Dav!Fails \/ Dav!Refused
  <2>1. work'.at = "flush" /\ work.at # "flush"
    BY <1>0, <1>3 DEF Dav!Answered, Dav!Conflicts, Dav!Fails, Dav!Refused, Dav!At, DavWorks
  <2> QED BY <2>1
<1>4. CASE Dav!PullFails \/ Dav!Crash \/ Dav!Fetch
  BY <1>4 DEF Dav!PullFails, Dav!Crash, Dav!Fetch, Dav!Idle, Dav!At
<1> QED BY <1>1, <1>2, <1>3, <1>4, <1>5 DEF Dav!Next, Dav!WorkSteps, Dav!Create, Dav!Update, Dav!Delete,
     Dav!Write, Dav!KeepServer, Dav!KeepLocal, Dav!Syncs

LEMMA DavDoneStep ==
    ASSUME DavIInv, Dav!Next, Dav!At("done")'
    PROVE  DavDone(work.item)'
<1>0. DavTypeOK /\ DavSending /\ work \in DavWorks /\ token \in 0 .. Len(davLog) /\ Len(davLog) \in Nat
  BY DEF DavIInv, DavTypeOK
<1>1. CASE work' = work
  <2>0. Dav!At("done") /\ DavDone(work.item) /\ work.item \in Dav!Item
    BY <1>0, <1>1 DEF Dav!At, DavIInv, DavSending, DavSends
  <2> PICK h \in Dav!Item : h = work.item
    BY <2>0
  <2>1. Dav!At("done") /\ DavDone(h)
    BY <2>0
  <2>2. op'[h].text = op[h].text /\ reached' = reached /\ token' = token
    BY <1>1, <2>1, DavResting DEF Dav!At
  <2>3. /\ Len(davLog') \in {Len(davLog), Len(davLog) + 1}
        /\ DavListed(h, token) => DavListedThen(h, token)
        /\ \/ davServer'[h] = davServer[h]
           \/ /\ DavListedThen(h, token)
              /\ davServer'[h] = Dav!Absent \/ (davServer'[h].tag = Len(davLog) + 1 /\ Len(davLog') = Len(davLog) + 1)
    BY <1>0, <2>1, DavStays
  <2>4. work.tag \in Nat /\ Dav!Absent.tag = 0
    BY <1>0 DEF DavWorks, Dav!Absent
  <2>5. DavListed(h, token)' <=> DavListedThen(h, token)
    BY <1>1, <2>2 DEF DavListed, DavListedThen, Dav!ChangedIn
  <2>6. DavDone(h)'
    BY <1>0, <1>1, <2>1, <2>2, <2>3, <2>4, <2>5 DEF DavDone
  <2>7. work'.item = h
    BY <1>1
  <2> QED BY <2>6, <2>7 DEF DavDone
<1>2. CASE Dav!Serves
  <2>0. work.item \in Dav!Item
    BY <1>0, <1>2 DEF Dav!Serves, DavSending, DavSends, Dav!At
  <2> PICK h \in Dav!Item : h = work.item
    BY <2>0
  <2>1. op' = op /\ token' = token /\ work'.item = h /\ DavEdit(h) /\ op[h].text \in Int
    BY <1>0, <1>2 DEF Dav!Serves, DavSending, DavSends, Dav!At, DavWorks, DavIInv, DavTypeOK, DavOperation
  <2>2. CASE Dav!Accepts(h)
    <3>1. Dav!Becomes(h, op[h].text) /\ reached' = reached \cup {op[h].text} /\ work'.tag = Len(davLog) + 1
      BY <1>0, <1>2, <2>2 DEF Dav!Serves, DavWorks
    <3>2. /\ Len(davLog') = Len(davLog) + 1 /\ DavListedThen(h, token)
      <4>1. /\ Len(davLog') = Len(davLog) + 1
            /\ \A first \in 0 .. Len(davLog), i \in Dav!Item :
                  i \in {davLog'[k] : k \in first + 1 .. Len(davLog')} <=> i \in Dav!ChangedIn(first, Len(davLog)) \/ i = h
        BY <1>0, <2>1, <3>1, DavGrows
      <4> QED BY <1>0, <4>1 DEF DavListedThen
    <3>3. op[h].text # 0 => davServer'[h].text = op[h].text
      BY <1>0, <2>1, <3>1 DEF Dav!Becomes, DavTypeOK
    <3>4. DavListed(h, token)' <=> DavListedThen(h, token)
      BY <2>1 DEF DavListed, DavListedThen, Dav!ChangedIn
    <3>5. DavDone(h)'
      BY <1>0, <2>1, <3>1, <3>2, <3>3, <3>4 DEF DavDone
    <3> QED BY <2>1, <3>5 DEF DavDone
  <2>3. CASE ~Dav!Accepts(h)
    <3>1. Dav!Gone(h) /\ davServer' = davServer
      BY <1>0, <1>2, <2>3 DEF Dav!Serves, DavWorks, Dav!At, Dav!remote
    <3>2. op[h].text = 0
      BY <2>1, <3>1 DEF DavEdit, Dav!Gone
    <3>3. DavDone(h)'
      BY <2>1, <3>1, <3>2 DEF DavDone, Dav!Gone
    <3> QED BY <2>1, <3>3 DEF DavDone
  <2> QED BY <2>2, <2>3
<1>3. work' # work => Dav!Serves
  <2>1. ASSUME NEW sync \in BOOLEAN, Dav!Passes(sync) PROVE ~Dav!At("done")'
    BY <2>1 DEF Dav!Passes, Dav!Idle, Dav!At
  <2>2. Dav!Syncs \/ (\E h \in Dav!Item : Dav!Create(h) \/ Dav!Update(h) \/ Dav!Delete(h) \/ Dav!KeepServer(h) \/ Dav!KeepLocal(h)) => ~Dav!At("done")'
    BY <2>1 DEF Dav!Syncs, Dav!Create, Dav!Update, Dav!Write, Dav!Delete, Dav!KeepServer, Dav!KeepLocal
  <2>3. Dav!Fetch \/ Dav!PullFails \/ Dav!Crash \/ Dav!FlushEnds \/ Dav!Restarts => ~Dav!At("done")'
    <3>1. Dav!Idle.at = "idle" /\ [Dav!Idle EXCEPT !.at = "report", !.complete = TRUE].at = "report"
          /\ [Dav!Idle EXCEPT !.at = "report", !.token = token, !.complete = token = Dav!Null].at = "report"
      BY DEF Dav!Idle
    <3> QED BY <3>1 DEF Dav!Fetch, Dav!PullFails, Dav!Crash, Dav!FlushEnds, Dav!Restarts, Dav!At
  <2>4. Dav!Report \/ Dav!Answered \/ Dav!Conflicts \/ Dav!Fails \/ Dav!Refused \/ (\E h \in Dav!Item : Dav!SendBegins(h)) => ~Dav!At("done")'
    BY <1>0 DEF Dav!Report, Dav!Answered, Dav!Conflicts, Dav!Fails, Dav!Refused, Dav!SendBegins, Dav!At, DavWorks
  <2>5. Dav!Expires \/ (\E h \in Dav!Item : Dav!BecomesDue(h) \/ Dav!Foreign(h)) => work' = work
    BY DEF Dav!Expires, Dav!BecomesDue, Dav!Foreign
  <2> QED BY <2>2, <2>3, <2>4, <2>5 DEF Dav!Next, Dav!WorkSteps
<1> QED BY <1>1, <1>2, <1>3

\* A pull that begins, or begins anew, knows nothing yet.
LEMMA DavPullBegins ==
    ASSUME DavIInv, Dav!FlushEnds \/ Dav!Restarts, work'.at = "report", UNCHANGED <<davServer, davLog, cache>>
    PROVE  DavPull'
<1>0. DavTypeOK /\ token \in 0 .. Len(davLog) /\ Len(davLog) \in Nat /\ work \in DavWorks
  BY DEF DavIInv, DavTypeOK
<1>1. CASE Dav!FlushEnds
  <2>1. work' = [Dav!Idle EXCEPT !.at = "report", !.token = token, !.complete = token = Dav!Null]
    BY <1>1 DEF Dav!FlushEnds, Dav!Idle
  <2>2. /\ work'.at = "report" /\ work'.token = token /\ work'.removed = {} /\ token # Dav!Null
        /\ work'.complete = (token = Dav!Null) /\ \A h \in Dav!Item : work'.listed[h] = 0
    BY <1>0, <2>1 DEF Dav!Idle, Dav!Null
  <2>3. DavFrom' = token
    BY <2>2 DEF DavFrom
  <2>4. ASSUME NEW h \in Dav!Item PROVE DavPulled(h)'
    <3>1. DavListed(h, token) \/ cache[h] = davServer[h]
      BY DEF DavIInv, Dav!CollectionIsSound, Dav!TokenCovers, DavListed
    <3>2. DavListed(h, token) => DavListed(h, DavFrom)'
      BY <2>3 DEF DavListed, Dav!ChangedIn
    <3> QED BY <2>2, <3>1, <3>2 DEF DavPulled
  <2> QED BY <1>0, <2>2, <2>3, <2>4 DEF DavPull, Dav!At
<1>2. CASE Dav!Restarts
  <2>1. work' = [Dav!Idle EXCEPT !.at = "report", !.complete = TRUE]
    BY <1>2 DEF Dav!Restarts
  <2>2. /\ work'.at = "report" /\ work'.token = Dav!Null /\ work'.complete /\ \A h \in Dav!Item : work'.listed[h] = 0
    BY <2>1 DEF Dav!Idle
  <2>3. DavFrom' = 0
    BY <2>2 DEF DavFrom
  <2>4. ASSUME NEW h \in Dav!Item PROVE DavPulled(h)'
    <3>1. davServer[h] = Dav!Absent \/ DavListed(h, 0)
      BY DEF DavIInv, DavVersions
    <3>2. DavListed(h, 0) => DavListed(h, DavFrom)'
      BY <2>3 DEF DavListed, Dav!ChangedIn
    <3> QED BY <2>2, <3>1, <3>2 DEF DavPulled
  <2> QED BY <1>0, <2>2, <2>3, <2>4 DEF DavPull, Dav!At
<1> QED BY <1>1, <1>2

LEMMA DavPageStep ==
    ASSUME DavIInv, Dav!Report
    PROVE  DavPull'
<1>0. /\ DavTypeOK /\ Len(davLog) \in Nat /\ work \in DavWorks /\ Dav!At("report") /\ UNCHANGED <<davServer, davLog, cache>>
      /\ DavFrom \in 0 .. Len(davLog) /\ \A h \in Dav!Item : DavPulled(h)
  BY DEF DavIInv, DavTypeOK, Dav!Report, Dav!remote, DavPull, Dav!At, DavFrom, DavWorks, DavPosition
<1>1. PICK last \in DavFrom .. Len(davLog) :
         LET now == Dav!ChangedIn(DavFrom, last)
             gone == {h \in now : davServer[h] = Dav!Absent}
         IN  work' = [work EXCEPT !.token = last, !.at = IF last = Len(davLog) THEN "fetch" ELSE "report",
              !.listed = [h \in Dav!Item |-> IF h \in now THEN davServer[h].tag ELSE @[h]],
              !.removed = (@ \ now) \cup gone]
  BY DEF Dav!Report, DavFrom
<1>2. /\ work'.token = last /\ work'.complete = work.complete
      /\ \A h \in Dav!Item : work'.listed[h] = IF h \in Dav!ChangedIn(DavFrom, last) THEN davServer[h].tag ELSE work.listed[h]
      /\ work'.removed = (work.removed \ Dav!ChangedIn(DavFrom, last)) \cup {h \in Dav!ChangedIn(DavFrom, last) : davServer[h] = Dav!Absent}
  BY <1>0, <1>1 DEF DavWorks
<1>3. last \in Nat /\ last # Dav!Null /\ DavFrom' = last
  BY <1>0, <1>2 DEF DavFrom, Dav!Null
<1>4. ASSUME NEW h \in Dav!Item PROVE DavPulled(h)'
  <2>1. CASE h \in Dav!ChangedIn(DavFrom, last)
    <3>1. davServer[h] = Dav!Absent \/ davServer[h].tag # 0
      BY <1>0 DEF DavIInv, DavVersions
    <3> QED BY <1>0, <1>2, <2>1, <3>1 DEF DavPulled, Dav!Absent
  <2>2. CASE h \notin Dav!ChangedIn(DavFrom, last)
    <3>1. DavListed(h, DavFrom) => DavListed(h, DavFrom)'
      <4>1. \A k \in DavFrom + 1 .. Len(davLog) : k \in DavFrom + 1 .. last \/ k \in last + 1 .. Len(davLog)
        BY <1>0, <1>3
      <4> QED BY <1>0, <1>3, <2>2, <4>1 DEF DavListed, Dav!ChangedIn
    <3>2. work'.listed[h] = work.listed[h] /\ (h \in work'.removed <=> h \in work.removed)
      BY <1>2, <2>2
    <3> QED BY <1>0, <1>2, <3>1, <3>2 DEF DavPulled
  <2> QED BY <2>1, <2>2
<1> QED BY <1>0, <1>2, <1>3, <1>4 DEF DavPull

LEMMA DavPullStep ==
    ASSUME DavIInv, Dav!Next
    PROVE  DavPull'
<1>0. DavTypeOK /\ work \in DavWorks /\ DavPull /\ Len(davLog) \in Nat
  BY DEF DavIInv, DavTypeOK
<1>1. CASE Dav!FlushEnds \/ Dav!Restarts
  <2>1. UNCHANGED <<davServer, davLog, cache>>
    BY <1>1 DEF Dav!FlushEnds, Dav!Restarts, Dav!remote
  <2>2. work'.at = "report" => DavPull'
    BY <1>1, <2>1, DavPullBegins
  <2>3. work'.at # "report" => work' = Dav!Idle
    <3>1. [Dav!Idle EXCEPT !.at = "report", !.token = token, !.complete = token = Dav!Null].at = "report"
          /\ [Dav!Idle EXCEPT !.at = "report", !.complete = TRUE].at = "report"
      BY DEF Dav!Idle
    <3> QED BY <1>1, <3>1 DEF Dav!FlushEnds, Dav!Restarts
  <2>4. Dav!Idle.at = "idle"
    BY DEF Dav!Idle
  <2> QED BY <2>2, <2>3, <2>4 DEF DavPull
<1>2. CASE Dav!Report
  BY <1>2, DavPageStep
<1>3. CASE work' = work
  <2> SUFFICES ASSUME work.at \in {"report", "fetch"} PROVE DavPull'
    BY <1>3 DEF DavPull
  <2>1. UNCHANGED <<cache, token>>
    BY <1>3, DavResting DEF Dav!At
  <2>2. DavFrom \in 0 .. Len(davLog) /\ DavFrom' = DavFrom /\ (Dav!At("fetch") => work.token # Dav!Null)
    BY <1>0, <1>3 DEF DavPull, DavFrom, DavWorks, DavPosition
  <2>3. Len(davLog') \in {Len(davLog), Len(davLog) + 1}
    <3>1. ASSUME NEW h \in Dav!Item PROVE Len(davLog') \in {Len(davLog), Len(davLog) + 1}
      BY DavStays
    <3>2. ~(\E h \in Dav!Item : TRUE) => davLog' = davLog
      BY DEF Dav!Next, Dav!WorkSteps, Dav!SendBegins, Dav!FlushEnds, Dav!Serves, Dav!Answered, Dav!Conflicts,
           Dav!Report, Dav!Restarts, Dav!Fetch, Dav!Syncs, Dav!Fails, Dav!Refused, Dav!PullFails, Dav!Crash,
           Dav!Expires, Dav!remote, Dav!Becomes, DavSending, DavSends, DavIInv, Dav!At
    <3> QED BY <3>1, <3>2
  <2>4. ASSUME NEW h \in Dav!Item PROVE DavPulled(h)'
    <3>1. /\ DavListed(h, DavFrom) => DavListedThen(h, DavFrom)
          /\ davServer'[h] = davServer[h] \/ DavListedThen(h, DavFrom)
      BY <2>2, DavStays
    <3>2. DavListed(h, DavFrom)' <=> DavListedThen(h, DavFrom)
      BY <2>2 DEF DavListed, DavListedThen, Dav!ChangedIn
    <3>3. DavPulled(h)
      BY <1>0 DEF DavPull
    <3> QED BY <1>3, <2>1, <3>1, <3>2, <3>3 DEF DavPulled
  <2> QED BY <1>0, <1>3, <2>2, <2>3, <2>4 DEF DavPull, Dav!At
<1>4. work' # work /\ work'.at \in {"report", "fetch"} => Dav!FlushEnds \/ Dav!Restarts \/ Dav!Report
  <2>1. ASSUME NEW sync \in BOOLEAN, Dav!Passes(sync) PROVE work'.at = "flush"
    BY <2>1 DEF Dav!Passes, Dav!Idle
  <2>2. Dav!Syncs \/ (\E h \in Dav!Item : Dav!Create(h) \/ Dav!Update(h) \/ Dav!Delete(h) \/ Dav!KeepServer(h) \/ Dav!KeepLocal(h)) => work'.at = "flush"
    BY <2>1 DEF Dav!Syncs, Dav!Create, Dav!Update, Dav!Write, Dav!Delete, Dav!KeepServer, Dav!KeepLocal
  <2>3. Dav!Fetch \/ Dav!PullFails \/ Dav!Crash => work'.at = "idle"
    BY DEF Dav!Fetch, Dav!PullFails, Dav!Crash, Dav!Idle
  <2>4. Dav!Serves \/ Dav!Answered \/ Dav!Conflicts \/ Dav!Fails \/ Dav!Refused \/ (\E h \in Dav!Item : Dav!SendBegins(h))
          => work'.at \in {"done", "conflict", "flush", "send"}
    BY <1>0 DEF Dav!Serves, Dav!Answered, Dav!Conflicts, Dav!Fails, Dav!Refused, Dav!SendBegins, Dav!At, DavWorks
  <2>5. Dav!Expires \/ (\E h \in Dav!Item : Dav!BecomesDue(h) \/ Dav!Foreign(h)) => work' = work
    BY DEF Dav!Expires, Dav!BecomesDue, Dav!Foreign
  <2> QED BY <2>2, <2>3, <2>4, <2>5 DEF Dav!Next, Dav!WorkSteps
<1> QED BY <1>1, <1>2, <1>3, <1>4 DEF DavPull

\* A pull that is complete leaves each copy as the server has it, or listed.
LEMMA DavFetchCovers ==
    ASSUME DavIInv, Dav!Fetch, NEW h \in Dav!Item
    PROVE  DavListed(h, work.token) \/ cache'[h] = davServer[h]
<1>0. /\ DavTypeOK /\ Dav!At("fetch") /\ DavPulled(h) /\ DavFrom = work.token
      /\ cache'[h] = IF Dav!Fetched(h) THEN davServer[h] ELSE IF Dav!Removed(h) THEN Dav!Absent ELSE cache[h]
  BY DEF DavIInv, Dav!Fetch, DavPull, Dav!At, DavFrom
<1>1. CASE DavListed(h, DavFrom)
  BY <1>0, <1>1
<1>2. CASE work.listed[h] # 0 /\ work.listed[h] = davServer[h].tag /\ h \notin work.removed
  <2>1. DavCopyOf(cache[h], h) /\ Dav!Absent.tag = 0
    BY DEF DavIInv, DavVersions, Dav!Absent
  <2> QED BY <1>0, <1>2, <2>1 DEF Dav!Fetched, Dav!Removed, DavCopyOf
<1>3. CASE davServer[h] = Dav!Absent /\ work.listed[h] = 0 /\ (h \in work.removed \/ work.complete)
  BY <1>0, <1>3 DEF Dav!Fetched, Dav!Removed
<1>4. CASE cache[h] = davServer[h] /\ work.listed[h] = 0 /\ h \notin work.removed /\ ~work.complete
  BY <1>0, <1>4 DEF Dav!Fetched, Dav!Removed
<1> QED BY <1>0, <1>1, <1>2, <1>3, <1>4 DEF DavPulled

LEMMA DavTokenStep ==
    ASSUME DavIInv, Dav!Next, "review" \notin Disturbed
    PROVE  Dav!TokenCovers'
<1> SUFFICES ASSUME NEW h \in Dav!Item PROVE DavListedThen(h, token') \/ cache'[h] = davServer'[h]
  BY DEF Dav!TokenCovers, DavListedThen, Dav!ChangedIn
<1>0. /\ DavTypeOK /\ DavSending /\ token \in 0 .. Len(davLog) /\ cache \in [Dav!Item -> DavVersion]
      /\ DavListed(h, token) \/ cache[h] = davServer[h]
  BY DEF DavIInv, DavTypeOK, Dav!CollectionIsSound, Dav!TokenCovers, DavListed
<1>1. /\ DavListed(h, token) => DavListedThen(h, token)
      /\ davServer'[h] = davServer[h] \/ DavListedThen(h, token)
  BY <1>0, DavStays
<1>2. CASE UNCHANGED <<cache, token>>
  BY <1>0, <1>1, <1>2
<1>3. CASE Dav!Answered
  <2>1. PICK i \in Dav!Item : i = work.item
    BY <1>0, <1>3 DEF Dav!Answered, Dav!At, DavSending, DavSends
  <2>2. DavDone(i) /\ davServer' = davServer /\ token' = token
    BY <1>3, <2>1 DEF DavIInv, Dav!Answered, Dav!At, Dav!remote
  <2>3. CASE h # i
    BY <1>0, <1>1, <1>3, <2>1, <2>2, <2>3 DEF Dav!Answered
  <2>4. CASE h = i
    <3>1. cache'[h] \in Dav!Stored(h)
      BY <1>0, <1>3, <2>1, <2>4 DEF Dav!Answered
    <3>2. DavListed(h, token) \/ (davServer[h] = Dav!Absent /\ op[h].text = 0)
      BY <2>2, <2>4 DEF DavDone
    <3> QED BY <1>1, <2>2, <3>1, <3>2 DEF Dav!Stored
  <2> QED BY <2>3, <2>4
<1>4. CASE Dav!Conflicts
  BY <1>0, <1>1, <1>4 DEF Dav!Conflicts, Dav!remote
<1>5. CASE Dav!Fetch
  <2>1. token' = work.token /\ UNCHANGED <<davServer, davLog>>
    BY <1>5 DEF Dav!Fetch, Dav!remote
  <2> QED BY <1>5, <2>1, DavFetchCovers DEF DavListed, DavListedThen, Dav!ChangedIn
<1>6. ASSUME NEW i \in Dav!Item, Dav!KeepServer(i) PROVE UNCHANGED <<cache, token>>
  BY <1>0, <1>6 DEF Dav!KeepServer
<1>7. ASSUME NEW i \in Dav!Item, Dav!KeepLocal(i) PROVE DavListedThen(h, token') \/ cache'[h] = davServer'[h]
  <2>1. token' = token /\ davServer' = davServer /\ Dav!InReview(i)
    BY <1>7 DEF Dav!KeepLocal, Dav!remote
  <2>2. Dav!Again(i) = Dav!NoOp => davServer[i] = Dav!Absent
    <3>1. Dav!Again(i) = Dav!NoOp => op[i].status = "conflict" /\ op[i].server = Dav!Absent
      BY <1>0, <2>1, DavSentAgain DEF Dav!NoOp
    <3>2. DavEdit(i)
      BY DEF DavIInv
    <3> QED BY <3>1, <3>2 DEF DavEdit
  <2>3. cache'[h] = cache[h] \/ (h = i /\ Dav!Again(i) = Dav!NoOp /\ cache'[h] = Dav!Absent)
    BY <1>0, <1>7 DEF Dav!KeepLocal
  <2> QED BY <1>0, <1>1, <2>1, <2>2, <2>3
<1> QED BY <1>2, <1>3, <1>4, <1>5, <1>6, <1>7 DEF Dav!Next, Dav!WorkSteps, Dav!SendBegins, Dav!FlushEnds,
     Dav!Serves, Dav!Report, Dav!Restarts, Dav!Syncs, Dav!Fails, Dav!Refused, Dav!PullFails, Dav!Crash,
     Dav!Expires, Dav!Create, Dav!Update, Dav!Write, Dav!Delete, Dav!BecomesDue, Dav!Foreign

LEMMA DavEditsStep ==
    ASSUME DavIInv, Dav!Next
    PROVE  Dav!EditsKept'
<1>0. /\ DavTypeOK /\ Dav!EditsKept /\ texts \in Nat /\ texts' \in {texts, texts + 1}
      /\ texts' = texts \/ \E h \in Dav!Item : Dav!Create(h) \/ Dav!Update(h)
  <2>1. DavTypeOK /\ Dav!EditsKept /\ texts \in Nat
    BY DEF DavIInv, DavTypeOK, Dav!CollectionIsSound
  <2>2. ASSUME NEW h \in Dav!Item, Dav!Create(h) \/ Dav!Update(h) PROVE texts' = texts + 1
    BY <2>2 DEF Dav!Create, Dav!Update, Dav!Write
  <2>3. texts' = texts \/ \E h \in Dav!Item : Dav!Create(h) \/ Dav!Update(h)
    BY DEF Dav!Next, Dav!WorkSteps, Dav!SendBegins, Dav!FlushEnds, Dav!Serves, Dav!Report, Dav!Restarts,
         Dav!Answered, Dav!Conflicts, Dav!Fetch, Dav!Syncs, Dav!Fails, Dav!Refused, Dav!PullFails, Dav!Crash,
         Dav!Expires, Dav!Delete, Dav!BecomesDue, Dav!Foreign, Dav!KeepServer, Dav!KeepLocal, Dav!bounds
  <2> QED BY <2>1, <2>2, <2>3
<1>1. reached \subseteq reached' /\ waived \subseteq waived'
  BY DEF Dav!Next, Dav!WorkSteps, Dav!SendBegins, Dav!FlushEnds, Dav!Serves, Dav!Report, Dav!Restarts,
       Dav!Answered, Dav!Conflicts, Dav!Fetch, Dav!Syncs, Dav!Fails, Dav!Refused, Dav!PullFails, Dav!Crash,
       Dav!Expires, Dav!Create, Dav!Update, Dav!Write, Dav!Delete, Dav!BecomesDue, Dav!Foreign, Dav!KeepServer,
       Dav!KeepLocal, Dav!history
<1>2. ASSUME NEW text \in 1 .. texts
      PROVE  text \in reached' \cup waived' \/ \E h \in Dav!Item : op'[h].text = text
  <2>1. text \in reached \cup waived \/ \E h \in Dav!Item : op[h].text = text
    BY <1>0, <1>2 DEF Dav!EditsKept
  <2>2. ASSUME NEW h \in Dav!Item, op[h].text = text
        PROVE  text \in reached' \cup waived' \/ op'[h].text = text
    <3>1. text # 0
      BY <1>0, <1>2
    <3>2. Dav!At("done") /\ h = work.item => text \in reached
      BY <2>2, <3>1 DEF DavIInv, DavDone
    <3>3. CASE DavKept(h)
      BY <2>2, <3>3 DEF DavKept
    <3>4. CASE DavDropped(h)
      BY <1>1, <2>2, <3>1, <3>2, <3>4 DEF DavDropped
    <3>5. CASE DavWritten(h)
      BY <2>2, <3>5 DEF DavWritten
    <3>6. CASE DavResent(h)
      <4>1. Dav!Again(h).text = op[h].text
        BY <1>0, <3>6, DavSentAgain DEF DavResent
      <4> QED BY <2>2, <3>6, <4>1 DEF DavResent
    <3> QED BY <3>3, <3>4, <3>5, <3>6, DavOpStep
  <2> QED BY <1>1, <2>1, <2>2
<1>3. ASSUME texts' = texts + 1 PROVE \E h \in Dav!Item : op'[h].text = texts'
  <2>1. PICK h \in Dav!Item, action \in DavActions, opened \in Nat :
           op' = [op EXCEPT ![h] = Dav!Enqueued(h, action, texts + 1, opened)]
    <3>1. ASSUME NEW h \in Dav!Item PROVE \A opened \in Dav!Openings(h) : opened \in Nat
      BY <1>0 DEF Dav!Openings, DavTypeOK, DavVersion
    <3>2. PICK h \in Dav!Item : Dav!Create(h) \/ Dav!Update(h)
      <4>1. texts' # texts
        BY <1>0, <1>3
      <4> QED BY <1>0, <4>1
    <3>3. \E action \in {"create", "update"}, opened \in Nat : Dav!Write(h, action, opened)
      BY <3>1, <3>2 DEF Dav!Create, Dav!Update
    <3> QED BY <3>3 DEF Dav!Write, DavActions
  <2>2. op'[h] = Dav!Enqueued(h, action, texts + 1, opened)
    BY <1>0, <2>1 DEF DavTypeOK
  <2>3. Dav!Enqueued(h, action, texts + 1, opened).text = texts + 1
    <3>1. texts + 1 \in Int
      BY <1>0
    <3> QED BY <1>0, <3>1, DavQueued
  <2> QED BY <1>3, <2>2, <2>3
<1>4. \A text \in 1 .. texts' : text \in 1 .. texts \/ (text = texts' /\ texts' = texts + 1)
  BY <1>0
<1> QED BY <1>2, <1>3, <1>4 DEF Dav!EditsKept

LEMMA DavStepInv == ("review" \notin Disturbed) /\ DavIInv /\ [Dav!Next]_davVars => DavIInv'
<1> SUFFICES ASSUME "review" \notin Disturbed, DavIInv, [Dav!Next]_davVars PROVE DavIInv'
  OBVIOUS
<1>1. CASE Dav!Next
  <2>1. ASSUME NEW h \in Dav!Item PROVE DavVersions(h)' /\ DavEdit(h)'
    BY <1>1, DavVersionsStep, DavEditStep
  <2>2. DavTypeOK' /\ DavSending' /\ DavPull' /\ Dav!CollectionIsSound'
    BY <1>1, DavTypeStep, DavSendingStep, DavPullStep, DavTokenStep, DavEditsStep DEF Dav!CollectionIsSound
  <2>3. Dav!At("done")' => DavDone(work.item)'
    BY <1>1, DavDoneStep
  <2> QED BY <2>1, <2>2, <2>3 DEF DavIInv, Dav!Item
<1>2. CASE UNCHANGED davVars
  BY <1>2 DEF davVars, Dav!remote, Dav!bounds, Dav!history, DavIInv, DavTypeOK, DavSending, DavPull,
       Dav!CollectionIsSound, Dav!EditsKept, Dav!TokenCovers, Dav!ChangedIn, DavVersions, DavEdit, DavCopyOf,
       DavListed, Dav!At, DavDone, DavFrom, DavPulled
<1> QED BY <1>1, <1>2

LEMMA DavOpenedStep == ("editor" \notin Disturbed) /\ DavIInv /\ DavOpened /\ [Dav!Next]_davVars => DavOpened'
<1> SUFFICES ASSUME "editor" \notin Disturbed, DavIInv, DavOpened, Dav!Next, NEW h \in Dav!Item PROVE op'[h].base = op'[h].opened
  BY DEF DavOpened, davVars, Dav!Item
<1>0. DavTypeOK /\ op[h].base = op[h].opened /\ cache[h] \in DavVersion /\ texts \in Nat
  BY DEF DavIInv, DavOpened, DavTypeOK
<1>1. CASE DavKept(h)
  BY <1>0, <1>1 DEF DavKept
<1>2. CASE DavDropped(h)
  BY <1>2 DEF DavDropped, Dav!NoOp
<1>3. CASE DavWritten(h)
  <2>1. PICK action \in {"create", "update", "delete"}, opened \in Nat :
           /\ action = "create" => Dav!Fresh(h) /\ opened = 0
           /\ action # "create" => opened \in Dav!Openings(h)
           /\ op'[h] = Dav!Enqueued(h, action, IF action = "delete" THEN 0 ELSE texts', opened)
           /\ action # "delete" => texts' = texts + 1
    BY <1>3 DEF DavWritten
  <2>2. (IF action = "delete" THEN 0 ELSE texts') \in Int /\ action \in DavActions
    BY <1>0, <2>1 DEF DavActions
  <2>3. \/ op'[h].base = cache[h].tag /\ op'[h].opened = opened
        \/ op'[h].base = op[h].base /\ op'[h].opened = op[h].opened
    BY <1>0, <2>1, <2>2, DavQueued
  <2>4. opened = cache[h].tag
    BY <2>1 DEF Dav!Fresh, Dav!Openings, Dav!Absent
  <2> QED BY <1>0, <2>3, <2>4
<1>4. CASE DavResent(h)
  <2>1. Dav!Again(h).base = Dav!Again(h).opened
    BY <1>0, <1>4, DavSentAgain DEF DavResent
  <2> QED BY <1>4, <2>1 DEF DavResent
<1> QED BY <1>1, <1>2, <1>3, <1>4, DavOpStep

DavOverwrites == \A h \in Dav!Item :
        Dav!At("send") /\ work' # work /\ davServer[h] \notin {Dav!Absent, davServer'[h]} => davServer[h].tag = op[h].opened

\* A request replaces the version that the user began from.
LEMMA DavOverwriteStep == DavIInv /\ DavOpened /\ [Dav!Next]_davVars => [DavOverwrites]_davVars
<1> SUFFICES ASSUME DavIInv, DavOpened, Dav!Next, NEW h \in Dav!Item,
                    Dav!At("send"), work' # work, davServer[h] \notin {Dav!Absent, davServer'[h]}
             PROVE  davServer[h].tag = op[h].opened
  BY DEF DavOverwrites
<1>0. DavTypeOK
  BY DEF DavIInv
<1>1. CASE Dav!Serves
  <2>1. Dav!Accepts(h) /\ work.item = h
    BY <1>0, <1>1 DEF Dav!Serves, Dav!Becomes, Dav!remote, DavTypeOK
  <2> QED BY <2>1 DEF Dav!Accepts, DavOpened
<1>2. ~Dav!Serves => davServer' = davServer \/ work' = work
  BY DEF Dav!Next, Dav!WorkSteps, Dav!SendBegins, Dav!FlushEnds, Dav!Answered, Dav!Conflicts, Dav!Report,
       Dav!Restarts, Dav!Fetch, Dav!Syncs, Dav!Fails, Dav!Refused, Dav!PullFails, Dav!Crash, Dav!Expires,
       Dav!Create, Dav!Update, Dav!Write, Dav!Delete, Dav!BecomesDue, Dav!KeepServer, Dav!KeepLocal,
       Dav!Foreign, Dav!remote
<1> QED BY <1>1, <1>2

LEMMA DavMoves ==
    ASSUME [AllNext]_allVars
    PROVE  [Dav!Next]_davVars
BY DEF AllNext, allVars, ChatOnly, TasksOnly, ListsOnly, PopOnly, RestoreOnly, DavOnly

\* No edit is lost on its way to the server, and the token misses no change of
\* the collection; but nothing must be edited while it is in review.
THEOREM CollectionStaysSound ==
    "review" \notin Disturbed => (AllSpec => []CollectionIsSound)
<1> SUFFICES ASSUME "review" \notin Disturbed PROVE AllSpec => []CollectionIsSound
  OBVIOUS
<1>1. AllInit => DavIInv
  BY DavInitInv, QueuesConstants DEF AllInit, DavBounds
<1>2. DavIInv /\ [AllNext]_allVars => DavIInv'
  BY DavMoves, DavStepInv
<1>3. DavIInv => CollectionIsSound
  BY DEF DavIInv, CollectionIsSound
<1> QED BY <1>1, <1>2, <1>3, PTL DEF AllSpec

\* A request changes no version of an item but the one the user edited or chose to
\* replace in a review, whoever else writes to the collection meanwhile.
THEOREM NothingIsOverwrittenBlindly ==
    Disturbed \cap {"review", "editor"} = {} =>
        (AllSpec => Dav!NoBlindOverwrite)
<1> SUFFICES ASSUME Disturbed \cap {"review", "editor"} = {} PROVE AllSpec => Dav!NoBlindOverwrite
  OBVIOUS
<1>1. AllInit => DavIInv /\ DavOpened
  BY DavInitInv, QueuesConstants DEF AllInit, DavBounds
<1>2. DavIInv /\ DavOpened /\ [AllNext]_allVars => (DavIInv /\ DavOpened)'
  BY DavMoves, DavStepInv, DavOpenedStep
<1>3. DavIInv /\ DavOpened /\ (DavIInv /\ DavOpened)' /\ [AllNext]_allVars => [DavOverwrites]_(Dav!vars)
  BY DavMoves, DavOverwriteStep DEF Dav!vars, Dav!remote, Dav!bounds, Dav!history, davVars
<1> QED BY <1>1, <1>2, <1>3, PTL DEF AllSpec, DavOverwrites, Dav!NoBlindOverwrite
=============================================================================
