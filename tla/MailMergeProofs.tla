--------------------------- MODULE MailMergeProofs ---------------------------
(***************************************************************************)
(* The types of MailMerge, its at-most-once delivery, what it reports and  *)
(* how it spaces its submissions, for any number of merges and recipients, *)
(* any limits and any number of resends; and the same when backups of the  *)
(* tables are taken and restored at any time (MailMergeBackup).            *)
(***************************************************************************)
EXTENDS MailMergeBackup, FiniteSetTheorems, WellFoundedInduction, TLAPS

\* What makes AtMostOnce inductive: a row that may still be sent, waiting
\* or in flight and not yet taken, has not used up what the user asked for;
\* and the row of a delivery in flight is `sending' until its outcome.
Accounted ==
    /\ \A j \in Jobs, p \in Recipients :
         /\ accepted[j][p] <= 1 + resends[j][p]
         /\ rcpt[j][p] = "pending" => accepted[j][p] <= resends[j][p]
         /\ jobStatus[j] = "none" =>
                /\ accepted[j][p] <= resends[j][p] /\ resends[j][p] = 0
                /\ rcpt[j][p] = "none"
         /\ <<j, p>> \in inFlight => rcpt[j][p] = "sending"
         /\ <<j, p>> \in inFlight \ taken => accepted[j][p] <= resends[j][p]
    /\ ~up => inFlight = {}

IInv == TypeOK /\ Accounted

-----------------------------------------------------------------------------
(* The operators of the store keep the shape of a row. *)

LEMMA RefreshedType ==
    ASSUME NEW status \in JobStatus, NEW rows
    PROVE  Refreshed(status, rows) \in JobStatus
  BY DEF Refreshed, JobStatus

\* refreshStatus never invents or undoes the absence of a job.
LEMMA RefreshedExists ==
    ASSUME NEW status \in JobStatus, NEW rows, status # "none"
    PROVE  Refreshed(status, rows) # "none"
  BY DEF Refreshed, JobStatus

LEMMA MovedType ==
    ASSUME NEW rows \in [Recipients -> RecipientStatus], NEW from,
           NEW to \in RecipientStatus
    PROVE  Moved(rows, from, to) \in [Recipients -> RecipientStatus]
  BY DEF Moved

LEMMA OutcomeType ==
    ASSUME TypeOK, NEW j \in Jobs, NEW p \in Recipients, NEW status \in RecipientStatus
    PROVE  Outcome(j, p, status) \in [Recipients -> RecipientStatus]
  BY DEF Outcome, TypeOK

LEMMA OlderType ==
    ASSUME NEW log \in [Ages -> Nat]
    PROVE  Older(log) \in [Ages -> Nat]
  BY MergeConstants DEF Older, Ages

LEMMA LoggedType ==
    ASSUME NEW log \in [Ages -> Nat]
    PROVE  Logged(log) \in [Ages -> Nat]
  BY MergeConstants DEF Logged, Ages

LEMMA DeferredType ==
    ASSUME TypeOK, NEW js, NEW oldest \in Ages
    PROVE  Deferred(js, oldest) \in [Jobs -> Nat]
  BY MergeConstants DEF Deferred, Ages, TypeOK

LEMMA NextBackoffType ==
    ASSUME NEW delay \in Nat
    PROVE  NextBackoff(delay) \in Nat
  BY MergeConstants DEF NextBackoff, Lesser

-----------------------------------------------------------------------------
LEMMA TypeInit == Init => TypeOK
  BY MergeConstants DEF Init, TypeOK, AllRows, JobStatus, RecipientStatus, Ages

LEMMA TypeStep == TypeOK /\ [Next]_vars => TypeOK'
<1> SUFFICES ASSUME TypeOK, [Next]_vars PROVE TypeOK'
  OBVIOUS
<1> USE MergeConstants
<1>1. ASSUME NEW j \in Jobs, Create(j) PROVE TypeOK'
  BY <1>1 DEF Create, TypeOK, AllRows, JobStatus, RecipientStatus, history
<1>2. ASSUME NEW j \in Jobs, Pause(j) PROVE TypeOK'
  BY <1>2 DEF Pause, TypeOK, JobStatus, history
<1>3. ASSUME NEW j \in Jobs, Resume(j) PROVE TypeOK'
  <2>1. Refreshed("running", rcpt[j]) \in JobStatus
    BY RefreshedType DEF JobStatus
  <2> QED
    BY <1>3, <2>1 DEF Resume, TypeOK
<1>4. ASSUME NEW j \in Jobs, Cancel(j) PROVE TypeOK'
  <2>1. Moved(rcpt[j], {"pending"}, "cancelled") \in [Recipients -> RecipientStatus]
    BY MovedType DEF TypeOK, RecipientStatus
  <2> QED
    BY <1>4, <2>1 DEF Cancel, TypeOK, JobStatus, history
<1>5. ASSUME NEW j \in Jobs, Delete(j) PROVE TypeOK'
  BY <1>5 DEF Delete, TypeOK, AllRows, JobStatus, RecipientStatus, history
<1>6. ASSUME NEW j \in Jobs, NEW ps \in SUBSET Recipients, ResolveResend(j, ps)
      PROVE  TypeOK'
  <2> DEFINE chosen == {p \in ps : rcpt[j][p] \in {"ambiguous", "failed"}}
             rows == [p \in Recipients |-> IF p \in chosen THEN "pending" ELSE rcpt[j][p]]
  <2>1. rows \in [Recipients -> RecipientStatus]
    BY DEF TypeOK, RecipientStatus
  <2>2. Refreshed(jobStatus[j], rows) \in JobStatus
    BY RefreshedType DEF TypeOK
  <2> QED
    BY <1>6, <2>1, <2>2 DEF ResolveResend, TypeOK
<1>7. ASSUME NEW j \in Jobs, NEW ps \in SUBSET Recipients, ResolveSkip(j, ps)
      PROVE  TypeOK'
  <2> DEFINE rows == [p \in Recipients |->
                        IF p \in ps /\ rcpt[j][p] \in {"pending", "ambiguous", "failed"}
                        THEN "skipped" ELSE rcpt[j][p]]
  <2>1. rows \in [Recipients -> RecipientStatus]
    BY DEF TypeOK, RecipientStatus
  <2>2. Refreshed(jobStatus[j], rows) \in JobStatus
    BY RefreshedType DEF TypeOK
  <2> QED
    BY <1>7, <2>1, <2>2 DEF ResolveSkip, TypeOK, history
<1>8. ASSUME NEW j \in Jobs, TickClaim(j) PROVE TypeOK'
  <2>1. PICK p \in Recipients, oldest \in Ages :
          /\ rcpt' = [rcpt EXCEPT ![j][p] = "sending"]
          /\ wait' = Paced(Deferred(1..(j - 1), oldest), j)
          /\ inFlight' = {<<j, p>>}
    BY <1>8 DEF TickClaim
  <2>2. wait' \in [Jobs -> Nat]
    BY <2>1, DeferredType DEF Paced
  <2> QED
    <3>1. rcpt' \in [Jobs -> [Recipients -> RecipientStatus]]
      BY <2>1 DEF TypeOK, RecipientStatus
    <3>2. inFlight' \subseteq Jobs \X Recipients /\ taken' \subseteq inFlight'
      BY <1>8, <2>1 DEF TickClaim, TypeOK
    <3>3. sinceClaim' \in [Jobs -> Nat] /\ nudged' \in [Jobs -> BOOLEAN]
      BY <1>8 DEF TickClaim, TypeOK
    <3> QED
      BY <1>8, <2>2, <3>1, <3>2, <3>3 DEF TickClaim, TypeOK
<1>9. ASSUME TickIdle PROVE TypeOK'
  <2>1. wait' \in [Jobs -> Nat]
    BY <1>9, DeferredType DEF TickIdle
  <2> QED
    BY <1>9, <2>1 DEF TickIdle, TypeOK, history
<1>10. ASSUME NEW j \in Jobs, NEW p \in Recipients, ProviderAccepts(j, p) PROVE TypeOK'
  <2>1. accepted' \in [Jobs -> [Recipients -> Nat]]
    BY <1>10 DEF ProviderAccepts, TypeOK
  <2>2. taken' \subseteq inFlight'
    BY <1>10 DEF ProviderAccepts, TypeOK
  <2> QED
    BY <1>10, <2>1, <2>2 DEF ProviderAccepts, TypeOK, db
<1>11. ASSUME NEW j \in Jobs, NEW p \in Recipients, Answer(j, p) PROVE TypeOK'
  <2> DEFINE Settles(rows, status) ==
               /\ rcpt' = [rcpt EXCEPT ![j] = rows]
               /\ jobStatus' = [jobStatus EXCEPT ![j] = Refreshed(status, rows)]
  <2>1. PICK status \in {"sent", "failed", "ambiguous", "pending"}, js \in JobStatus :
          Settles(Outcome(j, p, status), js)
    BY <1>11 DEF Answer, MarkSent, MarkFailed, MarkAmbiguous, RequeueRateLimited,
                 RequeueNotSubmitted, TypeOK, JobStatus
  <2>2. Outcome(j, p, status) \in [Recipients -> RecipientStatus]
    BY <2>1, OutcomeType DEF RecipientStatus
  <2>3. rcpt' \in [Jobs -> [Recipients -> RecipientStatus]] /\ jobStatus' \in [Jobs -> JobStatus]
    BY <2>1, <2>2, RefreshedType DEF TypeOK
  <2>4. /\ wait' \in [Jobs -> Nat] /\ backoff' \in [Jobs -> Nat]
        /\ sendLog' \in [Ages -> Nat] /\ delivered' \in [Ages -> Nat]
    <3>1. CASE MarkSent(j, p)
      BY <3>1, LoggedType DEF MarkSent, TypeOK
    <3>2. CASE RequeueRateLimited(j, p)
      BY <3>2, NextBackoffType DEF RequeueRateLimited, TypeOK
    <3>3. CASE MarkFailed(j, p) \/ MarkAmbiguous(j, p) \/ RequeueNotSubmitted(j, p)
      BY <3>3 DEF MarkFailed, MarkAmbiguous, RequeueNotSubmitted, TypeOK
    <3> QED
      BY <1>11, <3>1, <3>2, <3>3 DEF Answer
  <2>5. Returned(j, p)
    BY <1>11 DEF Answer, MarkSent, MarkFailed, MarkAmbiguous,
       RequeueRateLimited, RequeueNotSubmitted
  <2> QED
    BY <2>3, <2>4, <2>5 DEF Returned, TypeOK
<1>12. ASSUME SetOnline PROVE TypeOK'
  BY <1>12 DEF SetOnline, TypeOK, db, history
<1>13. ASSUME Crash PROVE TypeOK'
  <2>1. accepted' \in [Jobs -> [Recipients -> Nat]]
    BY <1>13 DEF Crash, TypeOK
  <2> QED
    BY <1>13, <2>1 DEF Crash, TypeOK, db
<1>14. ASSUME Restart PROVE TypeOK'
  <2>1. RecoveredRows \in [Jobs -> [Recipients -> RecipientStatus]]
    BY MovedType DEF RecoveredRows, TypeOK, RecipientStatus
  <2>2. RecoveredStatus \in [Jobs -> JobStatus]
    BY RefreshedType DEF RecoveredStatus, TypeOK
  <2>3. Pruned(sendLog) \in [Ages -> Nat]
    BY DEF Pruned, TypeOK
  <2> QED
    BY <1>14, <2>1, <2>2, <2>3 DEF Restart, TypeOK, history
<1>15. ASSUME ClockTick PROVE TypeOK'
  <2>1. wait' \in [Jobs -> Nat]
    <3>1. \A j \in Jobs : Remaining(wait[j]) \in Nat
      BY DEF Remaining, TypeOK
    <3> QED
      BY <1>15, <3>1 DEF ClockTick
  <2>2. sinceClaim' \in [Jobs -> Nat]
    BY <1>15 DEF ClockTick, Lesser, TypeOK
  <2>3. sendLog' \in [Ages -> Nat] /\ delivered' \in [Ages -> Nat]
    BY <1>15, OlderType DEF ClockTick, TypeOK
  <2> QED
    BY <1>15, <2>1, <2>2, <2>3 DEF ClockTick, TypeOK
<1>16. ASSUME UNCHANGED vars PROVE TypeOK'
  BY <1>16 DEF vars, db, history, TypeOK
<1> QED
  BY <1>1, <1>2, <1>3, <1>4, <1>5, <1>6, <1>7, <1>8, <1>9, <1>10, <1>11,
     <1>12, <1>13, <1>14, <1>15, <1>16 DEF Next, Step, User, Tick

\* Every column of the three tables, the runner's state and the history
\* keep their types, whatever the interleaving.
THEOREM TypeCorrect == Spec => []TypeOK
<1> QED
  BY TypeInit, TypeStep, PTL DEF Spec

-----------------------------------------------------------------------------
LEMMA AccountedInit == Init => Accounted
  BY DEF Init, Accounted, AllRows

LEMMA AccountedStep == IInv /\ [Next]_vars => Accounted'
<1> SUFFICES ASSUME TypeOK, Accounted, [Next]_vars PROVE Accounted'
  BY DEF IInv
<1> USE DEF TypeOK
<1>1. ASSUME NEW j \in Jobs, Create(j) PROVE Accounted'
  \* Every row waits, and none of a job that did not exist was ever accepted.
  <2>1. \A p \in Recipients : <<j, p>> \notin inFlight
    BY <1>1 DEF Create, Accounted
  <2> QED
    BY <1>1, <2>1 DEF Create, Accounted, AllRows, history
<1>2. ASSUME NEW j \in Jobs, Pause(j) PROVE Accounted'
  BY <1>2 DEF Pause, Accounted, history
<1>3. ASSUME NEW j \in Jobs, Resume(j) PROVE Accounted'
  BY <1>3, RefreshedExists DEF Resume, Accounted, JobStatus
<1>4. ASSUME NEW j \in Jobs, Cancel(j) PROVE Accounted'
  BY <1>4 DEF Cancel, Accounted, Moved, history
<1>5. ASSUME NEW j \in Jobs, Delete(j) PROVE Accounted'
  BY <1>5 DEF Delete, Accounted, AllRows, history
<1>6. ASSUME NEW j \in Jobs, NEW ps \in SUBSET Recipients, ResolveResend(j, ps)
      PROVE  Accounted'
  \* A row put back in the queue was unknown or refused; the resend is counted.
  <2> DEFINE chosen == {p \in ps : rcpt[j][p] \in {"ambiguous", "failed"}}
             rows == [p \in Recipients |-> IF p \in chosen THEN "pending" ELSE rcpt[j][p]]
  <2>1. /\ rcpt' = [rcpt EXCEPT ![j] = rows]
        /\ jobStatus' = [jobStatus EXCEPT ![j] = Refreshed(jobStatus[j], rows)]
        /\ resends' = [resends EXCEPT ![j] =
               [p \in Recipients |-> IF p \in chosen THEN resends[j][p] + 1 ELSE resends[j][p]]]
        /\ Exists(j)
        /\ UNCHANGED <<up, inFlight, taken, accepted>>
    BY <1>6 DEF ResolveResend
  <2>2. Refreshed(jobStatus[j], rows) # "none"
    BY <2>1, RefreshedExists DEF Exists
  <2>3. ASSUME NEW i \in Jobs, NEW p \in Recipients
        PROVE  /\ resends[i][p] \in Nat /\ accepted[i][p] \in Nat
               /\ resends'[i][p] \in {resends[i][p], resends[i][p] + 1}
               /\ rcpt[i][p] = "pending" \/ rcpt'[i][p] # "pending"
                    \/ resends'[i][p] = resends[i][p] + 1
               /\ rcpt[i][p] = "sending" => rcpt'[i][p] = "sending"
               /\ jobStatus'[i] = "none" => jobStatus[i] = "none"
    BY <2>1, <2>2
  <2> QED
    BY <2>1, <2>3 DEF Accounted
<1>7. ASSUME NEW j \in Jobs, NEW ps \in SUBSET Recipients, ResolveSkip(j, ps)
      PROVE  Accounted'
  <2> DEFINE rows == [p \in Recipients |->
                        IF p \in ps /\ rcpt[j][p] \in {"pending", "ambiguous", "failed"}
                        THEN "skipped" ELSE rcpt[j][p]]
  <2>1. /\ rcpt' = [rcpt EXCEPT ![j] = rows]
        /\ jobStatus' = [jobStatus EXCEPT ![j] = Refreshed(jobStatus[j], rows)]
        /\ Exists(j)
        /\ UNCHANGED <<up, inFlight, taken, accepted, resends>>
    BY <1>7 DEF ResolveSkip, history
  <2>2. Refreshed(jobStatus[j], rows) # "none"
    BY <2>1, RefreshedExists DEF Exists
  <2>3. ASSUME NEW i \in Jobs, NEW p \in Recipients
        PROVE  /\ rcpt'[i][p] = "pending" => rcpt[i][p] = "pending"
               /\ rcpt[i][p] = "sending" => rcpt'[i][p] = "sending"
               /\ jobStatus'[i] = "none" => jobStatus[i] = "none" /\ rcpt'[i] = rcpt[i]
    BY <2>1, <2>2
  <2> QED
    BY <2>1, <2>3 DEF Accounted
<1>8. ASSUME NEW j \in Jobs, TickClaim(j) PROVE Accounted'
  \* The claimed row was waiting, and nothing else is in flight.
  <2>1. PICK p \in Recipients :
          /\ rcpt[j][p] = "pending"
          /\ rcpt' = [rcpt EXCEPT ![j][p] = "sending"]
          /\ inFlight' = {<<j, p>>}
    BY <1>8 DEF TickClaim, IsNextPending
  <2>2. up' /\ UNCHANGED <<jobStatus, accepted, resends>>
    BY <1>8 DEF TickClaim
  <2> QED
    BY <2>1, <2>2 DEF Accounted
<1>9. ASSUME TickIdle PROVE Accounted'
  BY <1>9 DEF TickIdle, Accounted, history
<1>10. ASSUME NEW j \in Jobs, NEW p \in Recipients, ProviderAccepts(j, p) PROVE Accounted'
  <2>1. /\ accepted[j][p] <= resends[j][p] /\ rcpt[j][p] = "sending"
        /\ accepted' = [accepted EXCEPT ![j][p] = accepted[j][p] + 1]
        /\ taken' = taken \cup {<<j, p>>}
        /\ UNCHANGED <<jobStatus, rcpt, up, inFlight, resends>>
    BY <1>10 DEF ProviderAccepts, Accounted, db
  <2>2. accepted[j][p] \in Nat /\ resends[j][p] \in Nat
    OBVIOUS
  <2> QED
    BY <2>1, <2>2 DEF Accounted
<1>11. ASSUME NEW j \in Jobs, NEW p \in Recipients, Answer(j, p) PROVE Accounted'
  \* Only a delivery that the provider did not take goes back to the queue.
  <2>1. /\ Returned(j, p)
        /\ \E status \in {"sent", "failed", "ambiguous", "pending"} :
             /\ status = "pending" => <<j, p>> \notin taken
             /\ rcpt' = [rcpt EXCEPT ![j] = Outcome(j, p, status)]
        /\ \E js \in JobStatus :
             /\ js = "none" => jobStatus[j] = "none"
             /\ jobStatus' = [jobStatus EXCEPT ![j] = Refreshed(js, rcpt'[j])]
    BY <1>11 DEF Answer, MarkSent, MarkFailed, MarkAmbiguous, RequeueRateLimited,
                 RequeueNotSubmitted, Outcome, JobStatus
  <2>2. /\ <<j, p>> \in inFlight /\ inFlight' = inFlight \ {<<j, p>>}
        /\ taken' = taken \ {<<j, p>>}
        /\ UNCHANGED <<up, accepted, resends>>
    BY <2>1 DEF Returned
  <2>3. ASSUME NEW i \in Jobs, NEW q \in Recipients
        PROVE  /\ rcpt'[i][q] = "pending" => \/ rcpt[i][q] = "pending"
                                             \/ i = j /\ q = p /\ <<j, p>> \notin taken
               /\ <<i, q>> # <<j, p>> => rcpt'[i][q] = rcpt[i][q]
               /\ jobStatus'[i] = "none" => jobStatus[i] = "none"
    BY <2>1, RefreshedExists DEF Outcome
  <2>4. jobStatus[j] # "none"
    BY <2>2 DEF Accounted
  <2>5. ASSUME NEW i \in Jobs, NEW q \in Recipients
        PROVE  /\ accepted'[i][q] <= 1 + resends'[i][q]
               /\ rcpt'[i][q] = "pending" => accepted'[i][q] <= resends'[i][q]
               /\ jobStatus'[i] = "none" =>
                      /\ accepted'[i][q] <= resends'[i][q] /\ resends'[i][q] = 0
                      /\ rcpt'[i][q] = "none"
               /\ <<i, q>> \in inFlight' => rcpt'[i][q] = "sending"
               /\ <<i, q>> \in inFlight' \ taken' => accepted'[i][q] <= resends'[i][q]
    <3>1. /\ accepted'[i][q] <= 1 + resends'[i][q]
          /\ rcpt'[i][q] = "pending" => accepted'[i][q] <= resends'[i][q]
      BY <2>2, <2>3 DEF Accounted
    <3>2. ASSUME jobStatus'[i] = "none"
          PROVE  /\ accepted'[i][q] <= resends'[i][q] /\ resends'[i][q] = 0
                 /\ rcpt'[i][q] = "none"
      <4>1. jobStatus[i] = "none"
        BY <3>2, <2>3
      <4>2. rcpt'[i][q] = rcpt[i][q]
        BY <4>1, <2>4, <2>3
      <4> QED
        BY <4>1, <4>2, <2>2 DEF Accounted
    <3>3. ASSUME <<i, q>> \in inFlight'
          PROVE  rcpt'[i][q] = "sending"
      BY <3>3, <2>2, <2>3 DEF Accounted
    <3>4. ASSUME <<i, q>> \in inFlight' \ taken'
          PROVE  accepted'[i][q] <= resends'[i][q]
      BY <3>4, <2>2 DEF Accounted
    <3> QED
      BY <3>1, <3>2, <3>3, <3>4
  <2>6. ~up' => inFlight' = {}
    BY <2>2 DEF Accounted
  <2> QED
    BY <2>5, <2>6 DEF Accounted
<1>12. ASSUME SetOnline PROVE Accounted'
  BY <1>12 DEF SetOnline, Accounted, db, history
<1>13. ASSUME Crash PROVE Accounted'
  <2>1. PICK late \in SUBSET (inFlight \ taken) :
          accepted' = [j \in Jobs |-> [p \in Recipients |->
               IF <<j, p>> \in late THEN accepted[j][p] + 1 ELSE accepted[j][p]]]
    BY <1>13 DEF Crash
  <2>2. /\ up' = FALSE /\ inFlight' = {} /\ taken' = {}
        /\ UNCHANGED <<jobStatus, rcpt, resends>>
    BY <1>13 DEF Crash, db
  <2>3. ASSUME NEW j \in Jobs, NEW p \in Recipients
        PROVE  /\ accepted[j][p] \in Nat /\ resends[j][p] \in Nat
               /\ \/ accepted'[j][p] = accepted[j][p]
                  \/ /\ accepted'[j][p] = accepted[j][p] + 1
                     /\ accepted[j][p] <= resends[j][p]
                     /\ rcpt[j][p] = "sending"
    BY <2>1 DEF Accounted
  <2>4. ASSUME NEW j \in Jobs, NEW p \in Recipients, jobStatus[j] = "none"
        PROVE  rcpt[j][p] # "sending"
    BY <2>4 DEF Accounted
  <2>5. ASSUME NEW j \in Jobs, NEW p \in Recipients
        PROVE  /\ accepted'[j][p] <= 1 + resends'[j][p]
               /\ rcpt'[j][p] = "pending" => accepted'[j][p] <= resends'[j][p]
               /\ jobStatus'[j] = "none" =>
                      /\ accepted'[j][p] <= resends'[j][p] /\ resends'[j][p] = 0
                      /\ rcpt'[j][p] = "none"
    <3>1. /\ accepted[j][p] <= 1 + resends[j][p]
          /\ rcpt[j][p] = "pending" => accepted[j][p] <= resends[j][p]
          /\ jobStatus[j] = "none" =>
                 /\ accepted[j][p] <= resends[j][p] /\ resends[j][p] = 0
                 /\ rcpt[j][p] = "none"
      BY DEF Accounted
    <3>2. rcpt'[j][p] = rcpt[j][p] /\ resends'[j][p] = resends[j][p] /\ jobStatus'[j] = jobStatus[j]
      BY <2>2
    <3>3. CASE accepted'[j][p] = accepted[j][p]
      BY <3>1, <3>2, <3>3
    <3>4. CASE /\ accepted'[j][p] = accepted[j][p] + 1
               /\ accepted[j][p] <= resends[j][p]
               /\ rcpt[j][p] = "sending"
      <4>1. accepted[j][p] \in Nat /\ resends[j][p] \in Nat
        BY <2>3
      <4>2. accepted'[j][p] <= 1 + resends'[j][p]
        BY <3>2, <3>4, <4>1
      <4> QED
        BY <2>4, <3>2, <3>4, <4>2
    <3> QED
      BY <2>3, <3>3, <3>4
  <2> QED
    BY <2>2, <2>5 DEF Accounted
<1>14. ASSUME Restart PROVE Accounted'
  BY <1>14, RefreshedExists DEF Restart, Accounted, RecoveredRows, RecoveredStatus, Moved, history
<1>15. ASSUME ClockTick PROVE Accounted'
  BY <1>15 DEF ClockTick, Accounted
<1>16. ASSUME UNCHANGED vars PROVE Accounted'
  BY <1>16 DEF vars, db, history, Accounted
<1> QED
  BY <1>1, <1>2, <1>3, <1>4, <1>5, <1>6, <1>7, <1>8, <1>9, <1>10, <1>11,
     <1>12, <1>13, <1>14, <1>15, <1>16 DEF Next, Step, User, Tick

\* A recipient is never sent the message twice unless the user asked for it:
\* the claim of docs/mail-merge.md that an unknown outcome is never retried.
THEOREM DeliveredAtMostOnce == Spec => []AtMostOnce
<1>1. Init => IInv
  BY TypeInit, AccountedInit DEF IInv
<1>2. IInv /\ [Next]_vars => IInv'
  BY TypeStep, AccountedStep DEF IInv
<1>3. IInv => AtMostOnce
  BY DEF IInv, Accounted, AtMostOnce
<1> QED
  BY <1>1, <1>2, <1>3, PTL DEF Spec

-----------------------------------------------------------------------------
(* What the merges report, and how their submissions are spaced: these     *)
(* hold of the queue with its backups, whose copies may come back later.   *)

\* A row exists with its merge, a completed merge has settled every row, an
\* unknown one holds its merge, and what is reported sent was accepted.
Settled == {"sent", "failed", "skipped", "cancelled"}
ConsistentRow(j, p) ==
    /\ Exists(j) <=> rcpt[j][p] # "none"
    /\ jobStatus[j] = "completed" => rcpt[j][p] \in Settled
    /\ rcpt[j][p] = "ambiguous" => jobStatus[j] \in {"needs-review", "cancelled"}
    /\ rcpt[j][p] = "sent" \/ <<j, p>> \in taken => accepted[j][p] > 0
Consistent == \A j \in Jobs, p \in Recipients : ConsistentRow(j, p)

\* While a merge has something to send, what is left of its delay makes the
\* time since its last submission up to Gap, unless the user hurried it.
Unsent(j) == \E p \in Recipients : rcpt[j][p] \in {"pending", "sending"}
SpacedJob(j) ==
    /\ sinceClaim[j] <= Gap /\ BackoffBase <= backoff[j]
    /\ jobStatus[j] = "none" => sinceClaim[j] = Gap
    /\ Unsent(j) /\ jobStatus[j] # "cancelled" /\ ~nudged[j] =>
           Gap <= wait[j] + sinceClaim[j]
Spaced == \A j \in Jobs : SpacedJob(j)

\* What is known of the copy of the tables, however long ago it was taken.
CopyRow(copy, j, p) ==
    /\ jobStatus[j] = "none" => copy.status[j] = "none"
    /\ copy.status[j] \in {"none", "deleted"} => copy.rcpt[j][p] = "none"
    /\ copy.status[j] \notin {"none", "deleted"} => copy.rcpt[j][p] # "none"
    /\ copy.status[j] = "completed" => copy.rcpt[j][p] \in Settled
    /\ copy.rcpt[j][p] = "ambiguous" => copy.status[j] \in {"needs-review", "cancelled"}
    /\ copy.rcpt[j][p] = "sent" => accepted[j][p] > 0
    /\ copy.status[j] = "cancelled" => jobStatus[j] \in {"cancelled", "deleted"}
    /\ copy.status[j] = "cancelled" /\ copy.rcpt[j][p] = "pending" =>
           accepted[j][p] <= resends[j][p] /\ <<j, p>> \notin inFlight
CopyType ==
    [status : [Jobs -> JobStatus], wait : [Jobs -> Nat], backoff : [Jobs -> Nat],
     rcpt : [Jobs -> [Recipients -> RecipientStatus]], log : [Ages -> Nat]]
CopyHolds ==
    /\ \A copy, other \in backup : copy = other
    /\ \A copy \in backup :
         /\ copy \in CopyType
         /\ \A j \in Jobs : BackoffBase <= copy.backoff[j]
         /\ \A j \in Jobs, p \in Recipients : CopyRow(copy, j, p)

BInv == IInv /\ Consistent /\ Spaced /\ CopyHolds

LEMMA RefreshedReports ==
    ASSUME NEW status \in JobStatus, NEW rows, NEW p \in Recipients
    PROVE  /\ Refreshed(status, rows) = "completed" =>
                  rows[p] \notin {"pending", "sending", "ambiguous"}
           /\ rows[p] = "ambiguous" => Refreshed(status, rows) \in {"needs-review", "cancelled"}
           /\ Refreshed(status, rows) \in {"none", "deleted"} => status = Refreshed(status, rows)
           /\ Refreshed(status, rows) = "cancelled" <=> status = "cancelled"
  BY DEF Refreshed, JobStatus

\* A row of a merge whose status was derived from its rows.
LEMMA Derived ==
    ASSUME NEW status \in JobStatus \ {"none", "deleted"},
           NEW rows \in [Recipients -> RecipientStatus], NEW p \in Recipients,
           rows[p] # "none"
    PROVE  /\ Refreshed(status, rows) \notin {"none", "deleted"}
           /\ Refreshed(status, rows) = "completed" => rows[p] \in Settled
           /\ rows[p] = "ambiguous" => Refreshed(status, rows) \in {"needs-review", "cancelled"}
  BY RefreshedReports DEF RecipientStatus, Settled

LEMMA ConsistentInit == Init => Consistent
  BY DEF Init, Consistent, ConsistentRow, Exists, AllRows

LEMMA ConsistentStep == IInv /\ Consistent /\ [Next]_vars => Consistent'
<1> SUFFICES ASSUME TypeOK, Accounted, Consistent, [Next]_vars,
                    NEW i \in Jobs, NEW q \in Recipients
             PROVE  ConsistentRow(i, q)'
  BY DEF IInv, Consistent
<1> USE DEF TypeOK, Exists
<1>0. \A j \in Jobs, p \in Recipients : ConsistentRow(j, p)
  BY DEF Consistent
<1>1. ASSUME NEW j \in Jobs, Create(j) PROVE ConsistentRow(i, q)'
  BY <1>0, <1>1 DEF Create, ConsistentRow, AllRows, history
<1>2. ASSUME NEW j \in Jobs, Pause(j) PROVE ConsistentRow(i, q)'
  BY <1>0, <1>2 DEF Pause, ConsistentRow, history
<1>3. ASSUME NEW j \in Jobs, Resume(j) PROVE ConsistentRow(i, q)'
  <2>1. /\ jobStatus[j] = "paused" /\ UNCHANGED <<rcpt, taken, accepted>>
        /\ jobStatus' = [jobStatus EXCEPT ![j] = Refreshed("running", rcpt[j])]
    BY <1>3 DEF Resume
  <2>2. \A p \in Recipients :
          /\ Refreshed("running", rcpt[j]) \notin {"none", "deleted"}
          /\ Refreshed("running", rcpt[j]) = "completed" => rcpt[j][p] \in Settled
          /\ rcpt[j][p] = "ambiguous" =>
                 Refreshed("running", rcpt[j]) \in {"needs-review", "cancelled"}
    BY <1>0, <2>1, Derived DEF JobStatus, ConsistentRow
  <2> QED
    BY <1>0, <2>1, <2>2 DEF ConsistentRow
<1>4. ASSUME NEW j \in Jobs, Cancel(j) PROVE ConsistentRow(i, q)'
  BY <1>0, <1>4 DEF Cancel, ConsistentRow, Moved, history
<1>5. ASSUME NEW j \in Jobs, Delete(j) PROVE ConsistentRow(i, q)'
  \* Nothing of a merge that is deleted is in flight.
  BY <1>0, <1>5 DEF Delete, ConsistentRow, Accounted, AllRows, history
<1>6. ASSUME NEW j \in Jobs, NEW ps \in SUBSET Recipients, ResolveResend(j, ps)
      PROVE  ConsistentRow(i, q)'
  <2> DEFINE chosen == {p \in ps : rcpt[j][p] \in {"ambiguous", "failed"}}
             rows == [p \in Recipients |-> IF p \in chosen THEN "pending" ELSE rcpt[j][p]]
  <2>1. /\ rcpt' = [rcpt EXCEPT ![j] = rows]
        /\ jobStatus' = [jobStatus EXCEPT ![j] = Refreshed(jobStatus[j], rows)]
        /\ Exists(j) /\ UNCHANGED <<taken, accepted>>
    BY <1>6 DEF ResolveResend
  <2>2. /\ rows \in [Recipients -> RecipientStatus]
        /\ \A p \in Recipients : rows[p] # "none" /\ (rows[p] = "sent" => rcpt[j][p] = "sent")
    <3>1. rcpt[j] \in [Recipients -> RecipientStatus] /\ \A p \in Recipients : rcpt[j][p] # "none"
      BY <1>0, <2>1 DEF ConsistentRow
    <3> QED BY <3>1 DEF RecipientStatus
  <2> HIDE DEF rows
  <2>3. jobStatus[j] \in JobStatus \ {"none", "deleted"}
    BY <2>1
  <2> QED
    BY <1>0, <2>1, <2>2, <2>3, Derived DEF ConsistentRow
<1>7. ASSUME NEW j \in Jobs, NEW ps \in SUBSET Recipients, ResolveSkip(j, ps)
      PROVE  ConsistentRow(i, q)'
  <2> DEFINE rows == [p \in Recipients |->
                        IF p \in ps /\ rcpt[j][p] \in {"pending", "ambiguous", "failed"}
                        THEN "skipped" ELSE rcpt[j][p]]
  <2>1. /\ rcpt' = [rcpt EXCEPT ![j] = rows]
        /\ jobStatus' = [jobStatus EXCEPT ![j] = Refreshed(jobStatus[j], rows)]
        /\ Exists(j) /\ UNCHANGED <<taken, accepted>>
    BY <1>7 DEF ResolveSkip, history
  <2>2. /\ rows \in [Recipients -> RecipientStatus]
        /\ \A p \in Recipients : rows[p] # "none" /\ (rows[p] = "sent" => rcpt[j][p] = "sent")
    BY <1>0, <2>1 DEF ConsistentRow, RecipientStatus
  <2> HIDE DEF rows
  <2>3. jobStatus[j] \in JobStatus \ {"none", "deleted"}
    BY <2>1
  <2> QED
    BY <1>0, <2>1, <2>2, <2>3, Derived DEF ConsistentRow
<1>8. ASSUME NEW j \in Jobs, TickClaim(j) PROVE ConsistentRow(i, q)'
  <2>1. PICK p \in Recipients :
          rcpt[j][p] = "pending" /\ rcpt' = [rcpt EXCEPT ![j][p] = "sending"]
    BY <1>8 DEF TickClaim, IsNextPending
  <2>2. jobStatus[j] = "running" /\ UNCHANGED <<jobStatus, taken, accepted>>
    BY <1>8 DEF TickClaim, Claimable, Due
  <2> QED
    BY <1>0, <2>1, <2>2 DEF ConsistentRow
<1>9. ASSUME TickIdle PROVE ConsistentRow(i, q)'
  BY <1>0, <1>9 DEF TickIdle, ConsistentRow, history
<1>10. ASSUME NEW j \in Jobs, NEW p \in Recipients, ProviderAccepts(j, p) PROVE ConsistentRow(i, q)'
  <2>1. /\ taken' = taken \cup {<<j, p>>}
        /\ accepted' = [accepted EXCEPT ![j][p] = accepted[j][p] + 1]
        /\ UNCHANGED <<jobStatus, rcpt>>
    BY <1>10 DEF ProviderAccepts, db
  <2>2. /\ accepted[i][q] \in Nat /\ accepted[j][p] \in Nat
        /\ IF i = j /\ q = p THEN accepted'[i][q] = accepted[j][p] + 1
                             ELSE accepted'[i][q] = accepted[i][q]
    BY <2>1
  <2>3. ConsistentRow(i, q)
    BY <1>0
  <2> QED
    BY <2>1, <2>2, <2>3 DEF ConsistentRow
<1>11. ASSUME NEW j \in Jobs, NEW p \in Recipients, Answer(j, p) PROVE ConsistentRow(i, q)'
  \* The merge exists, as one of its rows is `sending'; `sent' needs an acceptance.
  <2>1. <<j, p>> \in inFlight /\ taken' = taken \ {<<j, p>>} /\ UNCHANGED accepted
    BY <1>11 DEF Answer, MarkSent, MarkFailed, MarkAmbiguous, RequeueRateLimited,
                 RequeueNotSubmitted, Returned
  <2>2. rcpt[j][p] = "sending" /\ jobStatus[j] \in JobStatus \ {"none", "deleted"}
    BY <1>0, <2>1 DEF Accounted, ConsistentRow
  <2>3. PICK status \in {"sent", "failed", "ambiguous", "pending"} :
          /\ status = "sent" => <<j, p>> \in taken
          /\ rcpt' = [rcpt EXCEPT ![j] = [rcpt[j] EXCEPT ![p] = status]]
    BY <1>11, <2>2 DEF Answer, MarkSent, MarkFailed, MarkAmbiguous, RequeueRateLimited,
                       RequeueNotSubmitted, Outcome
  <2>4. \E before \in JobStatus \ {"none", "deleted"} :
          jobStatus' = [jobStatus EXCEPT ![j] = Refreshed(before, rcpt'[j])]
    BY <1>11, <2>2 DEF Answer, MarkSent, MarkFailed, MarkAmbiguous, RequeueRateLimited,
                       RequeueNotSubmitted, JobStatus
  <2>5. /\ rcpt'[j] \in [Recipients -> RecipientStatus]
        /\ rcpt'[j][q] # "none"
        /\ rcpt'[j][q] = "sent" => rcpt[j][q] = "sent" \/ <<j, q>> \in taken
    <3>1. rcpt[j][q] # "none"
      BY <1>0, <2>2 DEF ConsistentRow
    <3>2. rcpt[j] \in [Recipients -> RecipientStatus]
      OBVIOUS
    <3>3. rcpt'[j] = [rcpt[j] EXCEPT ![p] = status]
      BY <2>3
    <3> QED
      BY <2>3, <3>1, <3>2, <3>3 DEF RecipientStatus
  <2>6. i # j => rcpt'[i] = rcpt[i] /\ jobStatus'[i] = jobStatus[i]
    BY <2>3, <2>4
  <2>7. /\ jobStatus'[j] \notin {"none", "deleted"}
        /\ jobStatus'[j] = "completed" => rcpt'[j][q] \in Settled
        /\ rcpt'[j][q] = "ambiguous" => jobStatus'[j] \in {"needs-review", "cancelled"}
    BY <2>4, <2>5, Derived
  <2> QED
    BY <1>0, <2>1, <2>5, <2>6, <2>7 DEF ConsistentRow
<1>12. ASSUME SetOnline PROVE ConsistentRow(i, q)'
  BY <1>0, <1>12 DEF SetOnline, ConsistentRow, db, history
<1>13. ASSUME Crash PROVE ConsistentRow(i, q)'
  <2>1. accepted'[i][q] \in {accepted[i][q], accepted[i][q] + 1} /\ accepted[i][q] \in Nat
    BY <1>13 DEF Crash
  <2>2. taken' = {} /\ UNCHANGED <<jobStatus, rcpt>>
    BY <1>13 DEF Crash, db
  <2>3. ConsistentRow(i, q)
    BY <1>0
  <2>4. accepted[i][q] > 0 => accepted'[i][q] > 0
    BY <2>1
  <2> QED
    BY <2>2, <2>3, <2>4 DEF ConsistentRow
<1>14. ASSUME Restart PROVE ConsistentRow(i, q)'
  <2>1. rcpt' = RecoveredRows /\ jobStatus' = RecoveredStatus /\ UNCHANGED <<taken, accepted>>
    BY <1>14 DEF Restart, history
  <2>2. /\ rcpt'[i] \in [Recipients -> RecipientStatus]
        /\ rcpt'[i][q] = "none" <=> rcpt[i][q] = "none"
        /\ rcpt'[i][q] = "sent" => rcpt[i][q] = "sent"
    BY <2>1 DEF RecoveredRows, Moved, RecipientStatus
  <2>3. CASE \A p \in Recipients : rcpt[i][p] # "sending"
    <3>1. rcpt'[i][q] = rcpt[i][q] /\ jobStatus'[i] = jobStatus[i]
      BY <2>1, <2>3 DEF RecoveredRows, RecoveredStatus, Moved
    <3> QED
      BY <1>0, <2>1, <3>1 DEF ConsistentRow
  <2>4. CASE \E p \in Recipients : rcpt[i][p] = "sending"
    <3>1. jobStatus'[i] = Refreshed(jobStatus[i], rcpt'[i])
      BY <2>1, <2>4 DEF RecoveredStatus
    <3>2. jobStatus[i] \in JobStatus \ {"none", "deleted"}
      BY <1>0, <2>4 DEF ConsistentRow
    <3>3. rcpt[i][q] # "none"
      BY <1>0, <3>2 DEF ConsistentRow
    <3> QED
      BY <1>0, <2>1, <2>2, <3>1, <3>2, <3>3, Derived DEF ConsistentRow
  <2> QED
    BY <2>3, <2>4
<1>15. ASSUME ClockTick PROVE ConsistentRow(i, q)'
  BY <1>0, <1>15 DEF ClockTick, ConsistentRow
<1>16. ASSUME UNCHANGED vars PROVE ConsistentRow(i, q)'
  BY <1>0, <1>16 DEF vars, db, history, ConsistentRow
<1> QED
  BY <1>1, <1>2, <1>3, <1>4, <1>5, <1>6, <1>7, <1>8, <1>9, <1>10, <1>11,
     <1>12, <1>13, <1>14, <1>15, <1>16 DEF Next, Step, User, Tick

-----------------------------------------------------------------------------
LEMMA SpacedInit == Init => Spaced
  BY MergeConstants DEF Init, Spaced, SpacedJob, Unsent, AllRows

\* What most steps leave of a merge: nothing new to send, the same delay or
\* a longer one, and no hurry taken back.
Leaves(i) ==
    /\ sinceClaim'[i] = sinceClaim[i] /\ nudged'[i] = nudged[i]
    /\ backoff'[i] = backoff[i] \/ backoff'[i] = BackoffBase
    /\ jobStatus'[i] = "none" => jobStatus[i] = "none"
    /\ jobStatus[i] = "cancelled" => jobStatus'[i] = "cancelled"
    /\ Unsent(i)' => Unsent(i)
    /\ wait'[i] \in Nat /\ (wait'[i] = wait[i] \/ wait[i] = 0)

LEMMA SpacedKept ==
    ASSUME NEW i \in Jobs, wait[i] \in Nat, sinceClaim[i] \in Nat, backoff[i] \in Nat,
           SpacedJob(i), Leaves(i)
    PROVE  SpacedJob(i)'
<1>1. Gap \in Nat /\ BackoffBase \in Nat
  BY MergeConstants
<1>2. /\ sinceClaim'[i] <= Gap /\ BackoffBase <= backoff'[i]
      /\ jobStatus'[i] = "none" => sinceClaim'[i] = Gap
  BY <1>1 DEF SpacedJob, Leaves
<1>3. ASSUME Unsent(i)', jobStatus'[i] # "cancelled", ~nudged'[i]
      PROVE  Gap <= wait'[i] + sinceClaim'[i]
  <2>1. Gap <= wait[i] + sinceClaim[i]
    BY <1>3 DEF SpacedJob, Leaves
  <2> QED
    BY <1>1, <2>1 DEF Leaves
<1> QED
  BY <1>2, <1>3 DEF SpacedJob

LEMMA SpacedStep == IInv /\ Consistent /\ Spaced /\ [Next]_vars => Spaced'
<1> SUFFICES ASSUME TypeOK, Accounted, Consistent, Spaced, [Next]_vars, NEW i \in Jobs
             PROVE  SpacedJob(i)'
  BY DEF IInv, Spaced
<1> USE DEF TypeOK
<1>0. /\ SpacedJob(i) /\ wait[i] \in Nat /\ sinceClaim[i] \in Nat /\ backoff[i] \in Nat
      /\ Gap \in Nat /\ BackoffBase \in Nat /\ BackoffMax \in Nat
      /\ Gap <= BackoffBase /\ BackoffBase <= BackoffMax
  BY MergeConstants DEF Spaced
<1>1. ASSUME NEW j \in Jobs, Create(j) PROVE SpacedJob(i)'
  \* A new merge has never submitted.
  <2>1. /\ jobStatus[j] = "none" /\ jobStatus' = [jobStatus EXCEPT ![j] = "running"]
        /\ rcpt' = [rcpt EXCEPT ![j] = AllRows("pending")]
        /\ UNCHANGED <<wait, backoff, sinceClaim, nudged>>
    BY <1>1 DEF Create, history
  <2>2. CASE i = j
    BY <1>0, <2>1, <2>2 DEF SpacedJob
  <2>3. CASE i # j
    BY <1>0, <2>1, <2>3 DEF SpacedJob, Unsent
  <2> QED
    BY <2>2, <2>3
<1>2. ASSUME NEW j \in Jobs, Pause(j) PROVE SpacedJob(i)'
  BY <1>0, <1>2 DEF Pause, SpacedJob, Unsent, history
<1>3. ASSUME NEW j \in Jobs, Resume(j) PROVE SpacedJob(i)'
  <2>1. /\ jobStatus[j] = "paused" /\ Refreshed("running", rcpt[j]) # "none"
        /\ jobStatus' = [jobStatus EXCEPT ![j] = Refreshed("running", rcpt[j])]
        /\ wait' = [wait EXCEPT ![j] = 0] /\ backoff' = [backoff EXCEPT ![j] = BackoffBase]
        /\ nudged' = [nudged EXCEPT ![j] = TRUE] /\ UNCHANGED <<rcpt, sinceClaim>>
    BY <1>3, RefreshedExists DEF Resume, JobStatus
  <2> QED
    BY <1>0, <2>1 DEF SpacedJob, Unsent
<1>4. ASSUME NEW j \in Jobs, Cancel(j) PROVE SpacedJob(i)'
  BY <1>0, <1>4 DEF Cancel, SpacedJob, Unsent, Moved, history
<1>5. ASSUME NEW j \in Jobs, Delete(j) PROVE SpacedJob(i)'
  <2>1. /\ jobStatus' = [jobStatus EXCEPT ![j] = "deleted"]
        /\ rcpt' = [rcpt EXCEPT ![j] = AllRows("none")]
        /\ wait' = [wait EXCEPT ![j] = 0] /\ backoff' = [backoff EXCEPT ![j] = BackoffBase]
        /\ UNCHANGED <<sinceClaim, nudged>>
    BY <1>5 DEF Delete, history
  <2>2. i = j => ~Unsent(i)'
    BY <2>1 DEF Unsent, AllRows
  <2>3. i # j => /\ jobStatus'[i] = jobStatus[i] /\ Unsent(i)' = Unsent(i)
                 /\ wait'[i] = wait[i] /\ backoff'[i] = backoff[i]
    BY <2>1 DEF Unsent
  <2> QED
    BY <1>0, <2>1, <2>2, <2>3 DEF SpacedJob
<1>6. ASSUME NEW j \in Jobs, NEW ps \in SUBSET Recipients, ResolveResend(j, ps)
      PROVE  SpacedJob(i)'
  <2>1. /\ Exists(j) /\ UNCHANGED sinceClaim
        /\ wait' = [wait EXCEPT ![j] = 0] /\ backoff' = [backoff EXCEPT ![j] = BackoffBase]
        /\ nudged' = [nudged EXCEPT ![j] = TRUE]
        /\ \A k \in Jobs : k # j => rcpt'[k] = rcpt[k] /\ jobStatus'[k] = jobStatus[k]
        /\ \E rows : jobStatus'[j] = Refreshed(jobStatus[j], rows)
    BY <1>6 DEF ResolveResend
  <2>2. jobStatus'[j] # "none"
    BY <2>1, RefreshedExists DEF Exists
  <2>3. i # j => Unsent(i)' = Unsent(i)
    BY <2>1 DEF Unsent
  <2> QED
    BY <1>0, <2>1, <2>2, <2>3 DEF SpacedJob
<1>7. ASSUME NEW j \in Jobs, NEW ps \in SUBSET Recipients, ResolveSkip(j, ps)
      PROVE  SpacedJob(i)'
  <2>1. /\ Exists(j) /\ UNCHANGED <<wait, backoff, sinceClaim, nudged>>
        /\ \A k \in Jobs : k # j => rcpt'[k] = rcpt[k] /\ jobStatus'[k] = jobStatus[k]
        /\ \A p \in Recipients : rcpt'[j][p] \in {"skipped", rcpt[j][p]}
        /\ \E rows : jobStatus'[j] = Refreshed(jobStatus[j], rows)
    BY <1>7 DEF ResolveSkip, history
  <2>2. Unsent(i)' => Unsent(i)
    BY <2>1 DEF Unsent
  <2>3. /\ jobStatus'[i] = "none" => jobStatus[i] = "none"
        /\ jobStatus[i] = "cancelled" => jobStatus'[i] = "cancelled"
    BY <2>1, RefreshedExists, RefreshedReports DEF Exists, Refreshed
  <2>9. Leaves(i)
    BY <2>1, <2>2, <2>3 DEF Leaves
  <2> QED
    BY <1>0, <2>9, SpacedKept
<1>8. ASSUME NEW j \in Jobs, TickClaim(j) PROVE SpacedJob(i)'
  \* The merge that submits starts its gap; an older one that is due and
  \* capped waits even longer.
  <2>1. PICK p \in Recipients, oldest \in Ages :
          /\ rcpt' = [rcpt EXCEPT ![j][p] = "sending"]
          /\ wait' = Paced(Deferred(1..(j - 1), oldest), j)
    BY <1>8 DEF TickClaim
  <2>2. /\ jobStatus[j] = "running"
        /\ sinceClaim' = [sinceClaim EXCEPT ![j] = 0]
        /\ nudged' = [nudged EXCEPT ![j] = FALSE] /\ UNCHANGED <<jobStatus, backoff>>
    BY <1>8 DEF TickClaim, Claimable, Due
  <2>3. wait' \in [Jobs -> Nat] /\ wait'[j] = Gap
    BY <1>0, <2>1, DeferredType DEF Paced
  <2>4. CASE i = j
    BY <1>0, <2>2, <2>3, <2>4 DEF SpacedJob
  <2>5. CASE i # j
    <3>1. wait'[i] = wait[i] \/ wait[i] = 0
      BY <2>1, <2>5 DEF Paced, Deferred, Due
    <3>2. Unsent(i)' => Unsent(i)
      BY <2>1, <2>5 DEF Unsent
    <3>3. sinceClaim'[i] = sinceClaim[i] /\ nudged'[i] = nudged[i]
      BY <2>2, <2>5
    <3>4. wait'[i] \in Nat
      BY <2>3
    <3>9. Leaves(i)
      BY <2>2, <3>1, <3>2, <3>3, <3>4 DEF Leaves
    <3> QED
      BY <1>0, <3>9, SpacedKept
  <2> QED
    BY <2>4, <2>5
<1>9. ASSUME TickIdle PROVE SpacedJob(i)'
  <2>1. /\ wait' \in [Jobs -> Nat] /\ (wait'[i] = wait[i] \/ wait[i] = 0)
        /\ UNCHANGED <<jobStatus, backoff, rcpt, sinceClaim, nudged>>
    BY <1>9, DeferredType DEF TickIdle, Deferred, Due, history
  <2>2. Unsent(i)' = Unsent(i) /\ wait'[i] \in Nat
    BY <2>1 DEF Unsent
  <2>9. Leaves(i)
    BY <2>1, <2>2 DEF Leaves
  <2> QED
    BY <1>0, <2>9, SpacedKept
<1>10. ASSUME NEW j \in Jobs, NEW p \in Recipients, ProviderAccepts(j, p) PROVE SpacedJob(i)'
  BY <1>0, <1>10 DEF ProviderAccepts, SpacedJob, Unsent, db
<1>11. ASSUME NEW j \in Jobs, NEW p \in Recipients, Answer(j, p) PROVE SpacedJob(i)'
  \* The row was `sending': what goes back to the queue was already unsent.
  <2>1. <<j, p>> \in inFlight /\ UNCHANGED <<sinceClaim, nudged>>
    BY <1>11 DEF Answer, MarkSent, MarkFailed, MarkAmbiguous, RequeueRateLimited,
                 RequeueNotSubmitted, Returned
  <2>2. rcpt[j][p] = "sending" /\ jobStatus[j] # "none"
    BY <2>1 DEF Accounted
  <2>3. \A k \in Jobs : k # j => rcpt'[k] = rcpt[k]
    BY <1>11 DEF Answer, MarkSent, MarkFailed, MarkAmbiguous, RequeueRateLimited,
                 RequeueNotSubmitted
  <2>4. Unsent(i)' => Unsent(i)
    BY <2>2, <2>3 DEF Unsent
  <2>5. /\ jobStatus'[i] = "none" => jobStatus[i] = "none"
        /\ jobStatus[i] = "cancelled" => jobStatus'[i] = "cancelled"
    <3>1. \E status \in JobStatus : \E rows :
            /\ status # "none" /\ (jobStatus[j] = "cancelled" => status = "cancelled")
            /\ jobStatus' = [jobStatus EXCEPT ![j] = Refreshed(status, rows)]
      BY <1>11, <2>2 DEF Answer, MarkSent, MarkFailed, MarkAmbiguous, RequeueRateLimited,
                         RequeueNotSubmitted, JobStatus
    <3> QED
      BY <3>1, RefreshedExists DEF Refreshed
  <2>6. CASE RequeueRateLimited(j, p) /\ i = j
    \* The backoff overwrites the gap, and is never shorter.
    <3>1. wait'[i] = backoff[i] /\ backoff'[i] = NextBackoff(backoff[i])
      BY <2>6 DEF RequeueRateLimited
    <3>2. BackoffBase <= backoff[i] /\ sinceClaim[i] <= Gap
          /\ (jobStatus[i] = "none" => sinceClaim[i] = Gap)
      BY <1>0 DEF SpacedJob
    <3>3. BackoffBase <= backoff'[i] /\ Gap <= wait'[i] + sinceClaim[i]
      BY <1>0, <3>1, <3>2 DEF NextBackoff, Lesser
    <3> QED
      BY <2>1, <2>5, <3>2, <3>3 DEF SpacedJob
  <2>7. CASE ~(RequeueRateLimited(j, p) /\ i = j)
    <3>1. wait'[i] = wait[i] /\ (backoff'[i] = backoff[i] \/ backoff'[i] = BackoffBase)
      BY <1>11, <2>7 DEF Answer, MarkSent, MarkFailed, MarkAmbiguous, RequeueRateLimited,
                         RequeueNotSubmitted
    <3>9. Leaves(i)
      BY <2>1, <2>4, <2>5, <3>1 DEF Leaves
    <3> QED
      BY <1>0, <3>9, SpacedKept
  <2> QED
    BY <2>6, <2>7
<1>12. ASSUME SetOnline PROVE SpacedJob(i)'
  BY <1>0, <1>12 DEF SetOnline, SpacedJob, Unsent, db, history
<1>13. ASSUME Crash PROVE SpacedJob(i)'
  BY <1>0, <1>13 DEF Crash, SpacedJob, Unsent, db
<1>14. ASSUME Restart PROVE SpacedJob(i)'
  <2>1. /\ rcpt' = RecoveredRows /\ jobStatus' = RecoveredStatus
        /\ UNCHANGED <<wait, backoff, sinceClaim, nudged>>
    BY <1>14 DEF Restart, history
  <2>2. Unsent(i)' => Unsent(i)
    BY <2>1 DEF Unsent, RecoveredRows, Moved
  <2>3. /\ jobStatus'[i] = "none" => jobStatus[i] = "none"
        /\ jobStatus[i] = "cancelled" => jobStatus'[i] = "cancelled"
    BY <2>1, RefreshedExists DEF RecoveredStatus, Refreshed
  <2>9. Leaves(i)
    BY <2>1, <2>2, <2>3 DEF Leaves
  <2> QED
    BY <1>0, <2>9, SpacedKept
<1>15. ASSUME ClockTick PROVE SpacedJob(i)'
  \* What the delay loses the time since the last submission gains.
  <2>1. /\ wait'[i] = Remaining(wait[i])
        /\ sinceClaim'[i] = Lesser(Gap, sinceClaim[i] + 1)
        /\ UNCHANGED <<jobStatus, rcpt, backoff, nudged>>
    BY <1>15 DEF ClockTick
  <2>2. Unsent(i)' = Unsent(i)
    BY <2>1 DEF Unsent
  <2>3. Gap <= wait[i] + sinceClaim[i] => Gap <= wait'[i] + sinceClaim'[i]
    BY <1>0, <2>1 DEF Remaining, Lesser
  <2>4. sinceClaim'[i] <= Gap /\ (sinceClaim[i] = Gap => sinceClaim'[i] = Gap)
    BY <1>0, <2>1 DEF Lesser
  <2> QED
    BY <1>0, <2>1, <2>2, <2>3, <2>4 DEF SpacedJob
<1>16. ASSUME UNCHANGED vars PROVE SpacedJob(i)'
  BY <1>0, <1>16 DEF vars, db, history, SpacedJob, Unsent
<1> QED
  BY <1>1, <1>2, <1>3, <1>4, <1>5, <1>6, <1>7, <1>8, <1>9, <1>10, <1>11,
     <1>12, <1>13, <1>14, <1>15, <1>16 DEF Next, Step, User, Tick

-----------------------------------------------------------------------------
(* The copies of a backup *)

\* No step undoes a merge's creation, an acceptance or a cancellation, and a
\* merge that is cancelled or deleted submits no more.
Closed(j) == jobStatus[j] \in {"cancelled", "deleted"}
Later(j, p) ==
    /\ jobStatus'[j] = "none" => jobStatus[j] = "none"
    /\ accepted[j][p] > 0 => accepted'[j][p] > 0
    /\ Closed(j) => Closed(j)'
    /\ Closed(j) /\ accepted[j][p] <= resends[j][p] /\ <<j, p>> \notin inFlight =>
           accepted'[j][p] <= resends'[j][p] /\ <<j, p>> \notin inFlight'

LEMMA LaterStep ==
    ASSUME IInv, Consistent, [Next]_vars, NEW i \in Jobs, NEW q \in Recipients
    PROVE  Later(i, q)
<1> USE DEF IInv, TypeOK, Later, Closed
<1>0. /\ accepted[i][q] \in Nat /\ resends[i][q] \in Nat
      /\ <<i, q>> \in inFlight => jobStatus[i] # "none"
  BY DEF Accounted
<1>1. ASSUME NEW j \in Jobs, Create(j) PROVE Later(i, q)
  BY <1>0, <1>1 DEF Create, history
<1>2. ASSUME NEW j \in Jobs, Pause(j) PROVE Later(i, q)
  BY <1>0, <1>2 DEF Pause, history
<1>3. ASSUME NEW j \in Jobs, Resume(j) PROVE Later(i, q)
  <2>1. /\ jobStatus[j] = "paused" /\ UNCHANGED <<accepted, resends, inFlight>>
        /\ jobStatus' = [jobStatus EXCEPT ![j] = Refreshed("running", rcpt[j])]
        /\ Refreshed("running", rcpt[j]) # "none"
    BY <1>3, RefreshedExists DEF Resume, JobStatus
  <2> QED
    BY <1>0, <2>1
<1>4. ASSUME NEW j \in Jobs, Cancel(j) PROVE Later(i, q)
  BY <1>0, <1>4 DEF Cancel, history
<1>5. ASSUME NEW j \in Jobs, Delete(j) PROVE Later(i, q)
  BY <1>0, <1>5 DEF Delete, history
<1>6. ASSUME NEW j \in Jobs, NEW ps \in SUBSET Recipients, ResolveResend(j, ps)
      PROVE  Later(i, q)
  <2>1. /\ jobStatus[j] \notin {"none", "deleted", "cancelled"}
        /\ \E rows : jobStatus' = [jobStatus EXCEPT ![j] = Refreshed(jobStatus[j], rows)]
        /\ UNCHANGED <<accepted, inFlight>>
        /\ i # j => resends'[i] = resends[i]
    BY <1>6 DEF ResolveResend, Exists
  <2> QED
    BY <1>0, <2>1, RefreshedExists
<1>7. ASSUME NEW j \in Jobs, NEW ps \in SUBSET Recipients, ResolveSkip(j, ps)
      PROVE  Later(i, q)
  <2>1. /\ jobStatus[j] \notin {"none", "deleted"}
        /\ \E rows : jobStatus' = [jobStatus EXCEPT ![j] = Refreshed(jobStatus[j], rows)]
        /\ UNCHANGED <<accepted, resends, inFlight>>
    BY <1>7 DEF ResolveSkip, Exists, history
  <2> QED
    BY <1>0, <2>1, RefreshedExists DEF Refreshed
<1>8. ASSUME NEW j \in Jobs, TickClaim(j) PROVE Later(i, q)
  <2>1. /\ jobStatus[j] = "running" /\ UNCHANGED <<jobStatus, accepted, resends>>
        /\ \E p \in Recipients : inFlight' = {<<j, p>>}
    BY <1>8 DEF TickClaim, Claimable, Due
  <2> QED
    BY <1>0, <2>1
<1>9. ASSUME TickIdle PROVE Later(i, q)
  BY <1>0, <1>9 DEF TickIdle, history
<1>10. ASSUME NEW j \in Jobs, NEW p \in Recipients, ProviderAccepts(j, p) PROVE Later(i, q)
  <2>1. /\ <<j, p>> \in inFlight /\ accepted[j][p] \in Nat
        /\ accepted' = [accepted EXCEPT ![j][p] = accepted[j][p] + 1]
        /\ UNCHANGED <<jobStatus, resends, inFlight>>
    BY <1>10 DEF ProviderAccepts, db
  <2>2. IF i = j /\ q = p THEN accepted'[i][q] = accepted[i][q] + 1
                          ELSE accepted'[i][q] = accepted[i][q]
    BY <2>1
  <2>3. i = j /\ q = p => <<i, q>> \in inFlight
    BY <2>1
  <2>4. /\ UNCHANGED <<jobStatus, resends, inFlight>>
        /\ accepted[i][q] > 0 => accepted'[i][q] > 0
        /\ <<i, q>> \notin inFlight => accepted'[i][q] = accepted[i][q]
    BY <1>0, <2>1, <2>2, <2>3
  <2> QED
    BY <2>4
<1>11. ASSUME NEW j \in Jobs, NEW p \in Recipients, Answer(j, p) PROVE Later(i, q)
  <2>1. /\ <<j, p>> \in inFlight /\ inFlight' = inFlight \ {<<j, p>>}
        /\ UNCHANGED <<accepted, resends>>
    BY <1>11 DEF Answer, MarkSent, MarkFailed, MarkAmbiguous, RequeueRateLimited,
                 RequeueNotSubmitted, Returned
  <2>2. jobStatus[j] \notin {"none", "deleted"}
    BY <2>1 DEF Accounted, Consistent, ConsistentRow, Exists
  <2>3. \E status \in JobStatus : \E rows :
          /\ status # "none" /\ (jobStatus[j] = "cancelled" => status = "cancelled")
          /\ jobStatus' = [jobStatus EXCEPT ![j] = Refreshed(status, rows)]
    BY <1>11, <2>2 DEF Answer, MarkSent, MarkFailed, MarkAmbiguous, RequeueRateLimited,
                       RequeueNotSubmitted, JobStatus
  <2>4. /\ jobStatus'[i] = "none" => jobStatus[i] = "none"
        /\ Closed(i) => Closed(i)'
    BY <2>2, <2>3, RefreshedExists DEF Refreshed
  <2> QED
    BY <1>0, <2>1, <2>4
<1>12. ASSUME SetOnline PROVE Later(i, q)
  BY <1>12 DEF SetOnline, db, history
<1>13. ASSUME Crash PROVE Later(i, q)
  <2>1. /\ accepted'[i][q] \in {accepted[i][q], accepted[i][q] + 1}
        /\ <<i, q>> \notin inFlight => accepted'[i][q] = accepted[i][q]
    BY <1>13 DEF Crash
  <2>2. inFlight' = {} /\ UNCHANGED <<jobStatus, resends>>
    BY <1>13 DEF Crash, db
  <2> QED
    BY <1>0, <2>1, <2>2
<1>14. ASSUME Restart PROVE Later(i, q)
  <2>1. jobStatus' = RecoveredStatus /\ UNCHANGED <<accepted, resends, inFlight>>
    BY <1>14 DEF Restart, history
  <2>2. /\ jobStatus'[i] = "none" => jobStatus[i] = "none"
        /\ Closed(i) => Closed(i)'
    <3>1. jobStatus[i] = "deleted" => \A p \in Recipients : rcpt[i][p] # "sending"
      BY DEF Consistent, ConsistentRow, Exists
    <3> QED
      BY <2>1, <3>1, RefreshedExists DEF RecoveredStatus, Refreshed
  <2> QED
    BY <1>0, <2>1, <2>2
<1>15. ASSUME ClockTick PROVE Later(i, q)
  BY <1>15 DEF ClockTick
<1>16. ASSUME UNCHANGED vars PROVE Later(i, q)
  BY <1>16 DEF vars, db, history
<1> QED
  BY <1>1, <1>2, <1>3, <1>4, <1>5, <1>6, <1>7, <1>8, <1>9, <1>10, <1>11,
     <1>12, <1>13, <1>14, <1>15, <1>16 DEF Next, Step, User, Tick

\* What is known of a copy stays known, for the copy as it is and as it ages.
LEMMA CopyStays ==
    ASSUME NEW copy, NEW j \in Jobs, NEW p \in Recipients,
           CopyRow(copy, j, p), Later(j, p)
    PROVE  CopyRow(copy, j, p)'
  BY DEF CopyRow, Later, Closed

\* The copy one unit of time later.
AgedCopy(copy) == [copy EXCEPT !.log = Older(copy.log),
                               !.wait = [j \in Jobs |-> Remaining(copy.wait[j])]]

LEMMA AgedCopyHolds ==
    ASSUME NEW copy \in CopyType
    PROVE  /\ AgedCopy(copy) \in CopyType
           /\ AgedCopy(copy).status = copy.status /\ AgedCopy(copy).rcpt = copy.rcpt
           /\ AgedCopy(copy).backoff = copy.backoff
<1>1. Older(copy.log) \in [Ages -> Nat]
  BY OlderType DEF CopyType
<1>2. [j \in Jobs |-> Remaining(copy.wait[j])] \in [Jobs -> Nat]
  BY DEF CopyType, Remaining
<1> QED
  BY <1>1, <1>2 DEF CopyType, AgedCopy

LEMMA CopyStep == BInv /\ [Next]_vars /\ (UNCHANGED backup \/ BackupAges) => CopyHolds'
<1> SUFFICES ASSUME IInv, Consistent, CopyHolds, [Next]_vars, UNCHANGED backup \/ BackupAges
             PROVE  CopyHolds'
  BY DEF BInv
<1>1. \A copy \in backup, j \in Jobs, p \in Recipients : CopyRow(copy, j, p)'
  BY LaterStep, CopyStays DEF CopyHolds
<1>2. CASE UNCHANGED backup
  BY <1>1, <1>2 DEF CopyHolds
<1>3. CASE BackupAges
  <2>1. backup' = {AgedCopy(copy) : copy \in backup}
    BY <1>3 DEF BackupAges, AgedCopy
  <2>2. ASSUME NEW copy \in backup
        PROVE  /\ AgedCopy(copy) \in CopyType
               /\ \A j \in Jobs : BackoffBase <= AgedCopy(copy).backoff[j]
               /\ \A j \in Jobs, p \in Recipients : CopyRow(AgedCopy(copy), j, p)'
    BY <1>1, AgedCopyHolds DEF CopyHolds, CopyRow
  <2>3. \A copy, other \in backup' : copy = other
    BY <2>1 DEF CopyHolds
  <2> QED
    BY <2>1, <2>2, <2>3 DEF CopyHolds
<1> QED
  BY <1>2, <1>3

LEMMA CopyTaken == BInv /\ TakeBackup => CopyHolds'
<1> SUFFICES ASSUME TypeOK, Accounted, Consistent, Spaced, TakeBackup PROVE CopyHolds'
  BY DEF BInv, IInv
<1>1. backup' = {Copy} /\ UNCHANGED <<jobStatus, accepted, resends, inFlight>>
  BY DEF TakeBackup, vars, db, history
<1>2. Copy \in CopyType
  BY DEF TypeOK, Copy, CopyType
<1>3. \A j \in Jobs : BackoffBase <= Copy.backoff[j]
  BY DEF Spaced, SpacedJob, Copy
<1>4. ASSUME NEW j \in Jobs, NEW p \in Recipients PROVE CopyRow(Copy, j, p)
  \* A waiting row is not in flight and has an acceptance left.
  BY DEF Accounted, Consistent, ConsistentRow, Exists, CopyRow, Copy
<1>5. ASSUME NEW copy \in backup'
      PROVE  /\ copy \in CopyType
             /\ \A j \in Jobs : BackoffBase <= copy.backoff[j]
             /\ \A j \in Jobs, p \in Recipients : CopyRow(copy, j, p)'
  <2>1. copy = Copy
    BY <1>1
  <2>2. ASSUME NEW j \in Jobs, NEW p \in Recipients
        PROVE  CopyRow(copy, j, p)'
    <3>1. CopyRow(copy, j, p)
      BY <1>4, <2>1
    <3> QED
      BY <1>1, <3>1 DEF CopyRow
  <2> QED
    BY <1>2, <1>3, <2>1, <2>2
<1> QED
  BY <1>1, <1>5 DEF CopyHolds

\* The rows and the status that a restore brings back.
LEMMA Held ==
    ASSUME BInv, NEW copy \in backup, NEW j \in Jobs, NEW p \in Recipients
    PROVE  LET row == HeldRows(copy)[j][p]
               status == HeldStatus(copy)[j]
           IN  /\ row \in RecipientStatus /\ status \in JobStatus
               /\ status = "none" <=> copy.status[j] = "none"
               /\ status = "deleted" <=> copy.status[j] = "deleted"
               /\ status \in {"none", "deleted"} <=> row = "none"
               /\ status = "completed" => row \in Settled
               /\ row = "ambiguous" => status \in {"needs-review", "cancelled"}
               /\ row = "sent" => accepted[j][p] > 0
               /\ row \in {"pending", "sending"} => status = "cancelled"
               /\ row = "pending" => accepted[j][p] <= resends[j][p]
               /\ status = "cancelled" <=> copy.status[j] = "cancelled"
<1>1. copy \in CopyType /\ CopyRow(copy, j, p)
  BY DEF BInv, CopyHolds
<1>2. copy.status[j] \in JobStatus /\ copy.rcpt[j][p] \in RecipientStatus
  BY <1>1 DEF CopyType
<1>3. HeldRows(copy)[j][p] =
        IF copy.status[j] \in Active /\ copy.rcpt[j][p] \in {"pending", "sending"}
        THEN "ambiguous" ELSE copy.rcpt[j][p]
  BY DEF HeldRows, Moved
<1>4. HeldStatus(copy)[j] =
        IF copy.status[j] \in Active /\ (\E q \in Recipients : HeldRows(copy)[j][q] = "ambiguous")
        THEN "needs-review" ELSE copy.status[j]
  BY DEF HeldStatus
<1>5. HeldRows(copy)[j][p] = "ambiguous" /\ copy.status[j] \in Active =>
          HeldStatus(copy)[j] = "needs-review"
  BY <1>4
<1>6. HeldStatus(copy)[j] \in {copy.status[j], "needs-review"}
      /\ (HeldStatus(copy)[j] # copy.status[j] => copy.status[j] \in Active)
  BY <1>4
<1>7. copy.rcpt[j][p] \in {"pending", "sending"} /\ copy.status[j] \notin Active =>
          copy.status[j] = "cancelled"
  BY <1>1, <1>2 DEF CopyRow, Settled, JobStatus, Active
<1> HIDE DEF HeldRows, HeldStatus
<1> QED
  BY <1>1, <1>2, <1>3, <1>5, <1>6, <1>7
     DEF CopyRow, Settled, JobStatus, RecipientStatus, Active

LEMMA RestoreKeeps == BInv /\ Restore => BInv'
<1> SUFFICES ASSUME BInv, Restore PROVE BInv'
  OBVIOUS
<1>1. PICK copy \in backup :
        /\ rcpt' = HeldRows(copy)
        /\ jobStatus' = [j \in Jobs |->
               IF copy.status[j] = "none" /\ jobStatus[j] # "none"
               THEN "deleted" ELSE HeldStatus(copy)[j]]
        /\ wait' = copy.wait /\ backoff' = copy.backoff /\ sendLog' = copy.log
  BY DEF Restore
<1>2. /\ UNCHANGED <<up, online, inFlight, taken, accepted, resends, delivered,
                     sinceClaim, nudged, backup>>
      /\ inFlight = {} /\ taken = {} /\ ~up
  BY DEF Restore, history, BInv, IInv, TypeOK, Accounted
<1>3. copy \in CopyType /\ (\A j \in Jobs : BackoffBase <= copy.backoff[j])
  BY DEF BInv, CopyHolds
<1>4. ASSUME NEW j \in Jobs
      PROVE  /\ jobStatus'[j] = IF copy.status[j] = "none" /\ jobStatus[j] # "none"
                                THEN "deleted" ELSE HeldStatus(copy)[j]
             /\ jobStatus'[j] \in JobStatus
             /\ jobStatus'[j] = "none" <=> jobStatus[j] = "none"
             /\ \A p \in Recipients : CopyRow(copy, j, p)
  <2>1. PICK p \in Recipients : TRUE
    BY MergeConstants DEF Recipients
  <2>2. CopyRow(copy, j, p)
    BY DEF BInv, CopyHolds
  <2>3. /\ HeldStatus(copy)[j] \in JobStatus
        /\ HeldStatus(copy)[j] = "none" <=> copy.status[j] = "none"
    BY Held, <2>1
  <2>4. jobStatus'[j] = IF copy.status[j] = "none" /\ jobStatus[j] # "none"
                        THEN "deleted" ELSE HeldStatus(copy)[j]
    BY <1>1
  <2> QED
    BY <2>2, <2>3, <2>4 DEF CopyRow, JobStatus, BInv, CopyHolds
<1>5. ASSUME NEW j \in Jobs, NEW p \in Recipients
      PROVE  LET row == rcpt'[j][p]
                 status == jobStatus'[j]
             IN  /\ row \in RecipientStatus
                 /\ status \in {"none", "deleted"} <=> row = "none"
                 /\ status = "completed" => row \in Settled
                 /\ row = "ambiguous" => status \in {"needs-review", "cancelled"}
                 /\ row = "sent" => accepted[j][p] > 0
                 /\ row \in {"pending", "sending"} => status = "cancelled"
                 /\ row = "pending" => accepted[j][p] <= resends[j][p]
  BY <1>1, <1>4, Held
<1>6. TypeOK'
  <2>1. rcpt' \in [Jobs -> [Recipients -> RecipientStatus]]
    <3>1. \A j \in Jobs :
            HeldRows(copy)[j] = [p \in Recipients |-> HeldRows(copy)[j][p]]
      BY <1>3 DEF HeldRows, Moved, CopyType
    <3>2. ASSUME NEW j \in Jobs
          PROVE  rcpt'[j] \in [Recipients -> RecipientStatus]
      <4>1. \A p \in Recipients : rcpt'[j][p] \in RecipientStatus
        BY <1>5
      <4>2. rcpt'[j] = [p \in Recipients |-> rcpt'[j][p]]
        BY <1>1, <3>1
      <4> QED
        BY <4>1, <4>2
    <3> QED
      BY <1>1, <3>2 DEF HeldRows
  <2>2. jobStatus' \in [Jobs -> JobStatus]
    BY <1>1, <1>4
  <2>3. wait' \in [Jobs -> Nat] /\ backoff' \in [Jobs -> Nat] /\ sendLog' \in [Ages -> Nat]
    BY <1>1, <1>3 DEF CopyType
  <2> QED
    BY <1>2, <2>1, <2>2, <2>3 DEF BInv, IInv, TypeOK
<1>7. Accounted'
  BY <1>2, <1>4, <1>5 DEF BInv, IInv, Accounted
<1>8. Consistent'
  BY <1>2, <1>5 DEF Consistent, ConsistentRow, Exists
<1>9. Spaced'
  \* Whatever was left to send waits for the user, or belongs to a cancelled merge.
  <2>1. ASSUME NEW j \in Jobs
        PROVE  /\ Unsent(j)' => jobStatus'[j] = "cancelled"
               /\ BackoffBase <= backoff'[j]
               /\ jobStatus'[j] = "none" <=> jobStatus[j] = "none"
    BY <1>1, <1>3, <1>4, <1>5 DEF Unsent
  <2> QED
    BY <1>2, <2>1 DEF BInv, Spaced, SpacedJob
<1>10. CopyHolds'
  <2>1. ASSUME NEW c \in backup, NEW j \in Jobs, NEW p \in Recipients
        PROVE  CopyRow(c, j, p)'
    <3>1. c = copy
      BY DEF BInv, CopyHolds
    <3>2. /\ c.status[j] = "cancelled" => jobStatus'[j] = "cancelled"
          /\ CopyRow(c, j, p)
          /\ jobStatus'[j] = "none" <=> jobStatus[j] = "none"
      BY <1>4, <3>1, Held
    <3> QED
      BY <1>2, <3>2 DEF CopyRow
  <2> QED
    BY <1>2, <2>1 DEF BInv, CopyHolds
<1> QED
  BY <1>6, <1>7, <1>8, <1>9, <1>10 DEF BInv, IInv

-----------------------------------------------------------------------------
LEMMA BackupStep == BInv /\ [BackupNext]_allVars => BInv'
<1>1. ASSUME BInv, [Next]_vars, UNCHANGED backup \/ BackupAges PROVE BInv'
  BY <1>1, TypeStep, AccountedStep, ConsistentStep, SpacedStep, CopyStep DEF BInv, IInv
<1>2. ASSUME BInv, TakeBackup PROVE BInv'
  <2>1. UNCHANGED vars
    BY <1>2 DEF TakeBackup
  <2> QED
    BY <1>2, <2>1, TypeStep, AccountedStep, ConsistentStep, SpacedStep, CopyTaken
       DEF BInv, IInv
<1>3. ASSUME BInv, Restore PROVE BInv'
  BY <1>3, RestoreKeeps
<1> QED
  BY <1>1, <1>2, <1>3 DEF BackupNext, Next, allVars

LEMMA BackupInvariant == BackupSpec => []BInv
<1>1. BackupInit => BInv
  <2>1. Init /\ backup = {} => CopyHolds
    BY DEF CopyHolds
  <2> QED
    BY <2>1, TypeInit, AccountedInit, ConsistentInit, SpacedInit DEF BackupInit, BInv, IInv
<1> QED
  BY <1>1, BackupStep, PTL DEF BackupSpec

\* With backups taken and restored at any time while the worker is stopped,
\* the tables keep their types, and a recipient is still never sent the
\* message twice unasked: holdMailMergesForRestore leaves nothing to send.
THEOREM RestoredAtMostOnce == BackupSpec => [](TypeOK /\ AtMostOnce)
<1>1. BInv => TypeOK /\ AtMostOnce
  BY DEF BInv, IInv, Accounted, AtMostOnce
<1> QED
  BY <1>1, BackupInvariant, PTL

\* A merge reported as completed has settled every recipient, and a recipient
\* reported as sent was accepted, whatever is restored and whenever.
THEOREM ReportsHold == BackupSpec => []ReportsAreTrue
<1>1. BInv => ReportsAreTrue
  BY DEF BInv, Consistent, ConsistentRow, ReportsAreTrue, Settled
<1> QED
  BY <1>1, BackupInvariant, PTL

\* Only the runner's claim submits, for a running merge that is due.
LEMMA OnlyClaimsSubmit ==
    ASSUME TypeOK, [BackupNext]_allVars, NEW j \in Jobs, Submits(j)
    PROVE  TickClaim(j)
<1>1. PICK p \in Recipients : <<j, p>> \in inFlight' /\ <<j, p>> \notin inFlight
  BY DEF Submits
<1>2. ~(inFlight' \subseteq inFlight)
  BY <1>1
<1>3. ~UNCHANGED vars /\ ~Restore /\ ~ClockTick
  BY <1>2 DEF vars, Restore, ClockTick
<1>4. Step
  BY <1>3 DEF BackupNext, TakeBackup, allVars
<1>5. \A i \in Jobs : ~User(i)
  BY <1>2 DEF User, Create, Pause, Resume, Cancel, Delete, ResolveResend, ResolveSkip
<1>6. \A i \in Jobs, q \in Recipients : ~ProviderAccepts(i, q) /\ ~Answer(i, q)
  BY <1>2 DEF ProviderAccepts, Answer, MarkSent, MarkFailed, MarkAmbiguous,
     RequeueRateLimited, RequeueNotSubmitted, Returned
<1>7. ~TickIdle /\ ~SetOnline /\ ~Crash /\ ~Restart
  BY <1>2 DEF TickIdle, SetOnline, Crash, Restart
<1>8. PICK i \in Jobs : TickClaim(i)
  BY <1>4, <1>5, <1>6, <1>7 DEF Step, Tick
<1>9. PICK q \in Recipients : inFlight' = {<<i, q>>}
  BY <1>8 DEF TickClaim
<1>10. i = j
  BY <1>1, <1>9
<1> QED
  BY <1>8, <1>10

\* While a recipient of it is ambiguous, a merge submits nothing: also after a
\* crash or a restore, until the user has decided on every one.
THEOREM ReviewHolds == BackupSpec => ReviewStopsMerge
<1>1. BInv /\ [BackupNext]_allVars =>
        [\A j \in Jobs : (\E p \in Recipients : rcpt[j][p] = "ambiguous") => ~Submits(j)]_vars
  <2> SUFFICES ASSUME BInv, [BackupNext]_allVars, NEW j \in Jobs, NEW p \in Recipients,
                      rcpt[j][p] = "ambiguous", Submits(j)
               PROVE  FALSE
    OBVIOUS
  <2>1. jobStatus[j] = "running"
    BY OnlyClaimsSubmit DEF BInv, IInv, TickClaim, Claimable, Due
  <2> QED
    BY <2>1 DEF BInv, Consistent, ConsistentRow
<1> QED
  BY <1>1, BackupInvariant, PTL DEF BackupSpec, ReviewStopsMerge

\* Submissions of a merge are Gap apart, across crashes, backoffs, deferrals and
\* restores, unless the user hurried it in between.
THEOREM SubmissionsSpaced == BackupSpec => SpacedUnlessNudged
<1>1. BInv /\ [BackupNext]_allVars =>
        [\A j \in Jobs : Submits(j) => sinceClaim[j] = Gap \/ nudged[j]]_vars
  <2> SUFFICES ASSUME BInv, [BackupNext]_allVars, NEW j \in Jobs, Submits(j), ~nudged[j]
               PROVE  sinceClaim[j] = Gap
    OBVIOUS
  <2>1. TickClaim(j)
    BY OnlyClaimsSubmit DEF BInv, IInv
  <2>2. jobStatus[j] = "running" /\ wait[j] = 0 /\ Unsent(j)
    BY <2>1 DEF TickClaim, Claimable, Due, HasPending, Unsent
  <2>3. sinceClaim[j] <= Gap /\ Gap <= wait[j] + sinceClaim[j]
    BY <2>2 DEF BInv, Spaced, SpacedJob
  <2> QED
    <3>1. sinceClaim[j] \in Nat /\ Gap \in Nat
      BY MergeConstants DEF BInv, IInv, TypeOK
    <3> QED
      BY <2>2, <2>3, <3>1
<1> QED
  BY <1>1, BackupInvariant, PTL DEF BackupSpec, SpacedUnlessNudged
-----------------------------------------------------------------------------
(* MailMerge implements DeliveryPermits, with its backups too: recipients  *)
(* are the items, and every step of the queue, its runner, a crash, a      *)
(* recovery or a restore is, for each recipient, a step of the abstract    *)
(* specification or no step at all.                                        *)

\* The abstract step of one recipient, in terms of the queue.
Kept(j, p) == Granted(j, p)' = Granted(j, p) /\ accepted[j][p]' = accepted[j][p]
StepOf(j, p) ==
    \/ /\ ~MayBegin(j, p) /\ ~Open(j, p) /\ MayBegin(j, p)' /\ ~Open(j, p)'
       /\ Granted(j, p)' = Granted(j, p) + 1 /\ accepted[j][p]' = accepted[j][p]
    \/ MayBegin(j, p) /\ ~MayBegin(j, p)' /\ Open(j, p)' /\ Kept(j, p)
    \/ /\ Open(j, p) /\ ~Open(j, p)' /\ MayBegin(j, p)' = MayBegin(j, p)
       /\ Granted(j, p)' = Granted(j, p) /\ accepted[j][p]' = accepted[j][p] + 1
    \/ Open(j, p) /\ ~Open(j, p)' /\ MayBegin(j, p)' /\ Kept(j, p)
    \/ (Open(j, p)' => Open(j, p)) /\ (MayBegin(j, p)' => MayBegin(j, p)) /\ Kept(j, p)

LEMMA EveryItem == (\A j \in Jobs, p \in Recipients : StepOf(j, p)) => Permits!Next
<1> SUFFICES ASSUME \A j \in Jobs, p \in Recipients : StepOf(j, p)
             PROVE  \A i \in Jobs \X Recipients : Permits!ItemStep(i)
  BY DEF Permits!Next
<1> SUFFICES ASSUME NEW i \in Jobs \X Recipients PROVE Permits!ItemStep(i)
  OBVIOUS
<1>1. i[1] \in Jobs /\ i[2] \in Recipients
  OBVIOUS
<1>2. StepOf(i[1], i[2])
  BY <1>1
<1> QED
  BY <1>2 DEF StepOf, Kept, Permits!ItemStep, Permits!Grant, Permits!Submit,
     Permits!Accept, Permits!GiveBack, Permits!GiveUp, Permits!Uses

LEMMA PermitsInit == Init => Permits!Init
<1> SUFFICES ASSUME Init PROVE Permits!Init
  OBVIOUS
<1>1. \A i \in Jobs \X Recipients :
        /\ Granted(i[1], i[2]) = 0 /\ accepted[i[1]][i[2]] = 0
        /\ MayBegin(i[1], i[2]) = FALSE /\ Open(i[1], i[2]) = FALSE
  BY DEF Init, Granted, MayBegin, Open, AllRows
<1> QED
  BY <1>1, Zenon DEF Permits!Init

LEMMA PermitsStep == IInv /\ [Next]_vars => [Permits!Next]_(Permits!vars)
<1> SUFFICES ASSUME TypeOK, Accounted, Next PROVE Permits!Next
  <2>1. UNCHANGED vars => UNCHANGED Permits!vars
    BY DEF vars, db, history, Permits!vars, Granted, MayBegin, Open
  <2> QED
    BY <2>1 DEF IInv
<1> SUFFICES ASSUME NEW i \in Jobs, NEW q \in Recipients PROVE StepOf(i, q)
  BY EveryItem
<1> USE DEF TypeOK, StepOf, Kept, Granted, MayBegin, Open
<1>0. /\ <<i, q>> \in inFlight => rcpt[i][q] = "sending"
      /\ jobStatus[i] = "none" => rcpt[i][q] = "none" /\ resends[i][q] = 0
      /\ resends[i][q] \in Nat /\ accepted[i][q] \in Nat
      /\ ~up => inFlight = {}
  BY DEF Accounted
<1>1. ASSUME NEW j \in Jobs, Create(j) PROVE StepOf(i, q)
  <2>1. jobStatus[j] = "none" /\ UNCHANGED <<resends, accepted, inFlight, taken>>
    BY <1>1 DEF Create, history
  <2>2. CASE i = j
    <3>1. jobStatus'[i] = "running" /\ rcpt'[i][q] = "pending"
      BY <1>1, <2>2 DEF Create, AllRows
    <3>2. ~MayBegin(i, q) /\ ~Open(i, q) /\ MayBegin(i, q)' /\ ~Open(i, q)'
      BY <1>0, <2>1, <2>2, <3>1
    <3>3. Granted(i, q) = 0 /\ Granted(i, q)' = 1
      BY <1>0, <2>1, <2>2, <3>1
    <3> QED
      BY <2>1, <3>2, <3>3
  <2>3. CASE i # j
    <3>1. jobStatus'[i] = jobStatus[i] /\ rcpt'[i] = rcpt[i]
      BY <1>1, <2>3 DEF Create
    <3> QED
      BY <2>1, <3>1
  <2> QED
    BY <2>2, <2>3
<1>2. ASSUME NEW j \in Jobs, Pause(j) PROVE StepOf(i, q)
  BY <1>2 DEF Pause, history
<1>3. ASSUME NEW j \in Jobs, Resume(j) PROVE StepOf(i, q)
  <2>1. jobStatus'[i] # "none" <=> jobStatus[i] # "none"
    BY <1>3, RefreshedExists DEF Resume, JobStatus
  <2>2. jobStatus'[i] # "cancelled" => jobStatus[i] # "cancelled"
    BY <1>3 DEF Resume
  <2> QED
    BY <1>3, <2>1, <2>2 DEF Resume
<1>4. ASSUME NEW j \in Jobs, Cancel(j) PROVE StepOf(i, q)
  <2>1. /\ UNCHANGED <<resends, accepted, inFlight, taken>>
        /\ jobStatus'[i] = "none" <=> jobStatus[i] = "none"
        /\ rcpt'[i][q] = "pending" => rcpt[i][q] = "pending"
        /\ jobStatus'[i] # "cancelled" => jobStatus[i] # "cancelled"
    BY <1>4 DEF Cancel, Moved, history, Exists
  <2> QED
    BY <2>1
<1>5. ASSUME NEW j \in Jobs, Delete(j) PROVE StepOf(i, q)
  <2>1. /\ UNCHANGED <<resends, accepted, inFlight, taken>>
        /\ jobStatus'[i] = "none" <=> jobStatus[i] = "none"
        /\ rcpt'[i][q] = "pending" => rcpt[i][q] = "pending" /\ jobStatus'[i] = jobStatus[i]
    BY <1>5 DEF Delete, AllRows, history, Exists
  <2> QED
    BY <2>1
<1>6. ASSUME NEW j \in Jobs, NEW ps \in SUBSET Recipients, ResolveResend(j, ps)
      PROVE  StepOf(i, q)
  \* A row put back in the queue is granted once more; its merge is not cancelled.
  <2> DEFINE chosen == {p \in ps : rcpt[j][p] \in {"ambiguous", "failed"}}
             rows == [p \in Recipients |-> IF p \in chosen THEN "pending" ELSE rcpt[j][p]]
  <2>1. /\ rcpt' = [rcpt EXCEPT ![j] = rows]
        /\ jobStatus' = [jobStatus EXCEPT ![j] = Refreshed(jobStatus[j], rows)]
        /\ resends' = [resends EXCEPT ![j] =
               [p \in Recipients |-> IF p \in chosen THEN resends[j][p] + 1 ELSE resends[j][p]]]
        /\ jobStatus[j] # "none" /\ jobStatus[j] # "cancelled"
        /\ UNCHANGED <<inFlight, taken, accepted>>
    BY <1>6 DEF ResolveResend, Exists
  <2>2. Refreshed(jobStatus[j], rows) \notin {"none", "cancelled"}
    BY <2>1 DEF Refreshed, JobStatus
  <2>3. CASE i = j /\ q \in chosen
    BY <1>0, <2>1, <2>2, <2>3
  <2>4. CASE i = j /\ q \notin chosen
    BY <2>1, <2>2, <2>4
  <2>5. CASE i # j
    BY <2>1, <2>5
  <2> QED
    BY <2>3, <2>4, <2>5
<1>7. ASSUME NEW j \in Jobs, NEW ps \in SUBSET Recipients, ResolveSkip(j, ps)
      PROVE  StepOf(i, q)
  <2> DEFINE rows == [p \in Recipients |->
                        IF p \in ps /\ rcpt[j][p] \in {"pending", "ambiguous", "failed"}
                        THEN "skipped" ELSE rcpt[j][p]]
  <2>1. /\ rcpt' = [rcpt EXCEPT ![j] = rows]
        /\ jobStatus' = [jobStatus EXCEPT ![j] = Refreshed(jobStatus[j], rows)]
        /\ jobStatus[j] # "none"
        /\ UNCHANGED <<inFlight, taken, accepted, resends>>
    BY <1>7 DEF ResolveSkip, history, Exists
  <2>2. /\ Refreshed(jobStatus[j], rows) # "none"
        /\ jobStatus[j] = "cancelled" => Refreshed(jobStatus[j], rows) = "cancelled"
    BY <2>1, RefreshedExists DEF Refreshed
  <2>3. rcpt'[i][q] = "pending" => rcpt[i][q] = "pending"
    BY <2>1
  <2> QED
    BY <2>1, <2>2, <2>3
<1>8. ASSUME NEW j \in Jobs, TickClaim(j) PROVE StepOf(i, q)
  <2>1. PICK p \in Recipients :
          /\ rcpt[j][p] = "pending"
          /\ rcpt' = [rcpt EXCEPT ![j][p] = "sending"]
          /\ inFlight' = {<<j, p>>}
    BY <1>8 DEF TickClaim, IsNextPending
  <2>2. /\ jobStatus[j] = "running" /\ inFlight = {} /\ taken = {}
        /\ UNCHANGED <<jobStatus, accepted, resends, taken>>
    BY <1>8 DEF TickClaim, Claimable, Due
  <2>3. CASE i = j /\ q = p
    BY <2>1, <2>2, <2>3
  <2>4. CASE ~(i = j /\ q = p)
    <3>1. rcpt'[i][q] = rcpt[i][q] /\ <<i, q>> \notin inFlight'
      BY <2>1, <2>4
    <3> QED
      BY <2>2, <3>1
  <2> QED
    BY <2>3, <2>4
<1>9. ASSUME TickIdle PROVE StepOf(i, q)
  BY <1>9 DEF TickIdle, history
<1>10. ASSUME NEW j \in Jobs, NEW p \in Recipients, ProviderAccepts(j, p) PROVE StepOf(i, q)
  <2>1. /\ <<j, p>> \in inFlight \ taken /\ taken' = taken \cup {<<j, p>>}
        /\ accepted' = [accepted EXCEPT ![j][p] = accepted[j][p] + 1]
        /\ UNCHANGED <<jobStatus, rcpt, inFlight, resends>>
    BY <1>10 DEF ProviderAccepts, db
  <2>2. CASE i = j /\ q = p
    BY <1>0, <2>1, <2>2
  <2>3. CASE ~(i = j /\ q = p)
    <3>1. accepted'[i][q] = accepted[i][q] /\ (<<i, q>> \in taken' <=> <<i, q>> \in taken)
      BY <2>1, <2>3
    <3> QED
      BY <2>1, <3>1
  <2> QED
    BY <2>2, <2>3
<1>11. ASSUME NEW j \in Jobs, NEW p \in Recipients, Answer(j, p) PROVE StepOf(i, q)
  \* Only a delivery that the provider did not take goes back to the queue.
  <2>1. /\ Returned(j, p)
        /\ \E status \in {"sent", "failed", "ambiguous", "pending"} :
             /\ status = "pending" => <<j, p>> \notin taken
             /\ rcpt' = [rcpt EXCEPT ![j] = Outcome(j, p, status)]
        /\ \E js \in JobStatus :
             /\ js = "none" <=> jobStatus[j] = "none"
             /\ jobStatus[j] = "cancelled" => js = "cancelled"
             /\ jobStatus' = [jobStatus EXCEPT ![j] = Refreshed(js, rcpt'[j])]
    BY <1>11 DEF Answer, MarkSent, MarkFailed, MarkAmbiguous, RequeueRateLimited,
                 RequeueNotSubmitted, Outcome, JobStatus
  <2>2. /\ <<j, p>> \in inFlight /\ inFlight' = inFlight \ {<<j, p>>}
        /\ taken' = taken \ {<<j, p>>}
        /\ UNCHANGED <<accepted, resends>>
    BY <2>1 DEF Returned
  <2>3. jobStatus[j] # "none"
    BY <2>2 DEF Accounted
  <2>4. /\ jobStatus'[i] = "none" <=> jobStatus[i] = "none"
        /\ jobStatus[i] = "cancelled" => jobStatus'[i] = "cancelled"
    BY <2>1, <2>3, RefreshedExists DEF Refreshed
  <2>5. CASE i = j /\ q = p
    <3>1. rcpt[i][q] = "sending"
      BY <1>0, <2>2, <2>5
    <3>2. rcpt'[i][q] = "pending" => <<i, q>> \notin taken
      BY <2>1, <2>5, <3>1 DEF Outcome
    <3> QED
      BY <2>2, <2>4, <2>5, <3>1, <3>2
  <2>6. CASE ~(i = j /\ q = p)
    <3>1. rcpt'[i][q] = rcpt[i][q]
      BY <2>1, <2>6 DEF Outcome
    <3>2. Open(i, q)' <=> Open(i, q)
      BY <2>2, <2>6
    <3> QED
      BY <2>2, <2>4, <3>1, <3>2
  <2> QED
    BY <2>5, <2>6
<1>12. ASSUME SetOnline PROVE StepOf(i, q)
  BY <1>12 DEF SetOnline, db, history
<1>13. ASSUME Crash PROVE StepOf(i, q)
  <2>1. PICK late \in SUBSET (inFlight \ taken) :
          accepted' = [j \in Jobs |-> [p \in Recipients |->
               IF <<j, p>> \in late THEN accepted[j][p] + 1 ELSE accepted[j][p]]]
    BY <1>13 DEF Crash
  <2>2. /\ inFlight' = {} /\ UNCHANGED <<jobStatus, rcpt, resends>>
    BY <1>13 DEF Crash, db
  <2>3. accepted'[i][q] = IF <<i, q>> \in late THEN accepted[i][q] + 1 ELSE accepted[i][q]
    BY <2>1
  <2> QED
    BY <2>1, <2>2, <2>3
<1>14. ASSUME Restart PROVE StepOf(i, q)
  <2>1. rcpt'[i][q] = "pending" => rcpt[i][q] = "pending"
    BY <1>14 DEF Restart, RecoveredRows, Moved
  <2>2. /\ jobStatus'[i] = "none" <=> jobStatus[i] = "none"
        /\ jobStatus[i] = "cancelled" => jobStatus'[i] = "cancelled"
    BY <1>0, <1>14, RefreshedExists DEF Restart, RecoveredStatus, Refreshed, Accounted
  <2> QED
    BY <1>14, <2>1, <2>2 DEF Restart, history
<1>15. ASSUME ClockTick PROVE StepOf(i, q)
  BY <1>15 DEF ClockTick
<1> QED
  BY <1>1, <1>2, <1>3, <1>4, <1>5, <1>6, <1>7, <1>8, <1>9, <1>10, <1>11,
     <1>12, <1>13, <1>14, <1>15 DEF Next, Step, User, Tick

\* The queue with its commands, runner, crashes and recoveries implements the
\* permits: no interleaving makes a submission that the user did not wish.
THEOREM ImplementsPermits == Spec => KeepsPermits
<1>1. Init => IInv
  BY TypeInit, AccountedInit DEF IInv
<1>2. IInv /\ [Next]_vars => IInv'
  BY TypeStep, AccountedStep DEF IInv
<1> QED
  BY <1>1, <1>2, PermitsInit, PermitsStep, PTL DEF Spec, KeepsPermits, Permits!Spec

-----------------------------------------------------------------------------
\* What a restore brings back may not begin, or belongs to a cancelled merge:
\* it only gives permits up.
LEMMA PermitsRestore == BInv /\ Restore => [Permits!Next]_(Permits!vars)
<1> SUFFICES ASSUME BInv, Restore, NEW i \in Jobs, NEW q \in Recipients
             PROVE  StepOf(i, q)
  BY EveryItem
<1>1. PICK copy \in backup :
        /\ rcpt' = HeldRows(copy)
        /\ jobStatus' = [j \in Jobs |->
               IF copy.status[j] = "none" /\ jobStatus[j] # "none"
               THEN "deleted" ELSE HeldStatus(copy)[j]]
  BY DEF Restore
<1>2. UNCHANGED <<inFlight, taken, accepted, resends>>
  BY DEF Restore, history
<1>3. /\ rcpt'[i][q] = HeldRows(copy)[i][q]
      /\ jobStatus'[i] = IF copy.status[i] = "none" /\ jobStatus[i] # "none"
                         THEN "deleted" ELSE HeldStatus(copy)[i]
  BY <1>1
<1>4. /\ HeldRows(copy)[i][q] = "pending" => HeldStatus(copy)[i] = "cancelled"
      /\ HeldStatus(copy)[i] = "none" <=> copy.status[i] = "none"
      /\ HeldStatus(copy)[i] = "cancelled" <=> copy.status[i] = "cancelled"
  BY Held
<1>5. jobStatus[i] = "none" => copy.status[i] = "none"
  BY DEF BInv, CopyHolds, CopyRow
<1>6. ~MayBegin(i, q)' /\ (jobStatus'[i] = "none" <=> jobStatus[i] = "none")
  BY <1>3, <1>4, <1>5 DEF MayBegin
<1> QED
  BY <1>2, <1>6 DEF StepOf, Kept, Granted, Open

LEMMA PermitsBackupStep == BInv /\ [BackupNext]_allVars => [Permits!Next]_(Permits!vars)
<1>1. UNCHANGED vars => UNCHANGED Permits!vars
  BY DEF vars, db, history, Permits!vars, Granted, MayBegin, Open
<1>2. BackupNext => Next \/ UNCHANGED vars \/ Restore
  BY DEF BackupNext, Next, TakeBackup
<1> QED
  BY <1>1, <1>2, PermitsStep, PermitsRestore DEF BInv, allVars

\* A restored profile submits nothing that the user did not wish: the copy may
\* be older than deliveries made since, and none of them is made again.
THEOREM RestoreKeepsPermits == BackupSpec => KeepsPermits
<1>1. BackupInit => Permits!Init
  BY PermitsInit DEF BackupInit
<1> QED
  BY <1>1, BackupInvariant, PermitsBackupStep, PTL DEF BackupSpec, KeepsPermits, Permits!Spec

-----------------------------------------------------------------------------
(* The daily cap.  The total of the send log is a sum over its ages, and a   *)
(* sum is a fold: what it is and that its order does not matter comes first. *)

Chosen(s) == CHOOSE x \in s : TRUE
IsSum(g, log) == g = [s \in SUBSET Ages |-> IF s = {} THEN 0 ELSE log[Chosen(s)] + g[s \ {Chosen(s)}]]
SumOf(log) == CHOOSE g : IsSum(g, log)

\* Total is a fold; this is the function it is the value of.
LEMMA TotalIsSum == \A log : Total(log) = SumOf(log)[Ages]
BY DEF Total, MapThenSumSet, MapThenFoldSet, SumOf, IsSum, Chosen

LEMMA LeastOf ==
    ASSUME NEW S \in SUBSET Nat, S # {}
    PROVE  \E x \in S : \A y \in S : x <= y
<1> DEFINE Less == {ss \in Nat \X Nat : ss[1] < ss[2]}
<1>1. IsWellFoundedOn(Less, Nat)
  BY NatLessThanWellFounded DEF OpToRel
<1>2. PICK x \in S : \A y \in S : ~ (<<y, x>> \in Less)
  BY <1>1, WFMin, Zenon
<1>3. ASSUME NEW y \in S PROVE x <= y
  <2>1. ~ (<<y, x>> \in Less)
    BY <1>2
  <2>2. ~ (y < x)
    BY <2>1
  <2> QED BY <2>2
<1> QED BY <1>3

\* The function exists: it can be defined for sets of at most n ages, for every n.
Small(n) == {s \in SUBSET Ages : Cardinality(s) <= n}
IsPart(g, log, n) == g = [s \in Small(n) |-> IF s = {} THEN 0 ELSE log[Chosen(s)] + g[s \ {Chosen(s)}]]

LEMMA AgesFinite ==
    /\ IsFiniteSet(Ages) /\ Day \in Nat \ {0}
    /\ \A s \in SUBSET Ages : IsFiniteSet(s) /\ Cardinality(s) \in Nat
<1>1. Day \in Nat \ {0}
  BY MergeConstants
<1>2. IsFiniteSet(Ages)
  BY <1>1, FS_Interval DEF Ages
<1>3. \A s \in SUBSET Ages : IsFiniteSet(s)
  BY <1>2, FS_Subset
<1> QED BY <1>1, <1>2, <1>3, FS_CardinalityType

LEMMA SmallerSets ==
    ASSUME NEW s \in SUBSET Ages, s # {}
    PROVE  /\ Chosen(s) \in s /\ s \ {Chosen(s)} \in SUBSET Ages
           /\ \A x \in s : Cardinality(s \ {x}) = Cardinality(s) - 1 /\ Cardinality(s) \in Nat \ {0}
<1>1. Chosen(s) \in s
  BY DEF Chosen
<1>2. IsFiniteSet(s) /\ Cardinality(s) \in Nat
  BY AgesFinite
<1>3. Cardinality(s) # 0
  BY <1>2, FS_EmptySet
<1>4. \A x \in s : Cardinality(s \ {x}) = Cardinality(s) - 1
  BY <1>2, FS_RemoveElement
<1> QED BY <1>1, <1>2, <1>3, <1>4

LEMMA PartsExist ==
    ASSUME NEW log
    PROVE  \A n \in Nat : \E g : IsPart(g, log, n)
<1> DEFINE Bad == {n \in Nat : ~\E g : IsPart(g, log, n)}
<1> SUFFICES ASSUME Bad # {} PROVE FALSE
  OBVIOUS
<1>1. PICK n \in Bad : \A m \in Bad : n <= m
  <2>1. Bad \in SUBSET Nat
    OBVIOUS
  <2> HIDE DEF Bad
  <2> QED BY <2>1, LeastOf
<1>2. n \in Nat
  OBVIOUS
<1>3. CASE n = 0
  <2> DEFINE g == [s \in Small(0) |-> 0]
  <2>1. \A s \in Small(0) : s = {}
    <3> SUFFICES ASSUME NEW s \in Small(0), s # {} PROVE FALSE
      OBVIOUS
    <3>1. s \in SUBSET Ages /\ Cardinality(s) <= 0
      BY DEF Small
    <3>2. Cardinality(s) \in Nat \ {0}
      BY <3>1, SmallerSets
    <3> QED BY <3>1, <3>2
  <2>2. IsPart(g, log, 0)
    BY <2>1 DEF IsPart
  <2> QED BY <2>2, <1>3
<1>4. CASE n # 0
  <2>1. n - 1 \in Nat /\ ~(n <= n - 1)
    BY <1>4, <1>2
  <2>2. n - 1 \notin Bad
    BY <2>1, <1>1
  <2>3. PICK g : IsPart(g, log, n - 1)
    BY <2>1, <2>2
  <2> DEFINE h == [s \in Small(n) |-> IF s = {} THEN 0 ELSE log[Chosen(s)] + g[s \ {Chosen(s)}]]
  <2>4. ASSUME NEW s \in Small(n), s # {} PROVE h[s \ {Chosen(s)}] = g[s \ {Chosen(s)}]
    <3> DEFINE u == s \ {Chosen(s)}
    <3>1. s \in SUBSET Ages /\ Cardinality(s) <= n
      BY <2>4 DEF Small
    <3>2. u \in SUBSET Ages /\ Cardinality(u) = Cardinality(s) - 1 /\ Cardinality(s) \in Nat
      BY <3>1, <2>4, SmallerSets, AgesFinite
    <3>3. Cardinality(u) <= n - 1 /\ Cardinality(u) <= n
      BY <3>1, <3>2, <1>2
    <3>4. u \in Small(n - 1) /\ u \in Small(n)
      BY <3>2, <3>3 DEF Small
    <3>5. g[u] = IF u = {} THEN 0 ELSE log[Chosen(u)] + g[u \ {Chosen(u)}]
      BY <2>3, <3>4 DEF IsPart
    <3>6. h[u] = IF u = {} THEN 0 ELSE log[Chosen(u)] + g[u \ {Chosen(u)}]
      BY <3>4
    <3> QED BY <3>5, <3>6
  <2>5. IsPart(h, log, n)
    BY <2>4 DEF IsPart
  <2>6. \E f : IsPart(f, log, n)
    BY <2>5
  <2> QED BY <2>6
<1> QED BY <1>3, <1>4

LEMMA SumExists ==
    ASSUME NEW log
    PROVE  IsSum(SumOf(log), log)
<1>1. Cardinality(Ages) \in Nat /\ Small(Cardinality(Ages)) = SUBSET Ages
  BY AgesFinite, FS_Subset DEF Small
<1>2. PICK g : IsPart(g, log, Cardinality(Ages))
  BY <1>1, PartsExist
<1>3. IsSum(g, log)
  BY <1>1, <1>2 DEF IsSum, IsPart
<1> QED BY <1>3 DEF SumOf

LEMMA SumStep ==
    ASSUME NEW log
    PROVE  /\ SumOf(log)[{}] = 0
           /\ \A s \in SUBSET Ages : s # {} => SumOf(log)[s] = log[Chosen(s)] + SumOf(log)[s \ {Chosen(s)}]
<1>1. \A s \in SUBSET Ages : SumOf(log)[s] = IF s = {} THEN 0 ELSE log[Chosen(s)] + SumOf(log)[s \ {Chosen(s)}]
  BY SumExists DEF IsSum
<1> QED BY <1>1

\* The order in which a sum is taken does not matter.
LEMMA SumAnyOrder ==
    ASSUME NEW log \in [Ages -> Nat]
    PROVE  \A s \in SUBSET Ages : /\ SumOf(log)[s] \in Nat
                                  /\ \A x \in s : SumOf(log)[s] = log[x] + SumOf(log)[s \ {x}]
<1> DEFINE Sum == SumOf(log)
           Fine(s) == Sum[s] \in Nat /\ \A x \in s : Sum[s] = log[x] + Sum[s \ {x}]
           Bad == {Cardinality(s) : s \in {t \in SUBSET Ages : ~Fine(t)}}
<1> SUFFICES ASSUME NEW t \in SUBSET Ages, ~Fine(t) PROVE FALSE
  OBVIOUS
<1>1. Bad \in SUBSET Nat /\ Bad # {}
  BY AgesFinite
<1>2. PICK n \in Bad : \A m \in Bad : n <= m
  <2> HIDE DEF Bad
  <2> QED BY <1>1, LeastOf
<1>3. PICK s \in SUBSET Ages : ~Fine(s) /\ n = Cardinality(s)
  OBVIOUS
<1>4. \A u \in SUBSET Ages : Cardinality(u) < n => Fine(u)
  <2> SUFFICES ASSUME NEW u \in SUBSET Ages, Cardinality(u) < n, ~Fine(u) PROVE FALSE
    OBVIOUS
  <2>1. Cardinality(u) \in Bad
    OBVIOUS
  <2>2. n <= Cardinality(u) /\ n \in Nat /\ Cardinality(u) \in Nat
    BY <2>1, <1>2, <1>1
  <2> QED BY <2>2
<1>5. s # {}
  <2> SUFFICES ASSUME s = {} PROVE FALSE
    OBVIOUS
  <2>1. Sum[s] = 0
    BY SumStep
  <2> QED BY <2>1, <1>3
<1> DEFINE c == Chosen(s)
<1>6. /\ c \in s /\ Sum[s] = log[c] + Sum[s \ {c}]
      /\ \A x \in s : Cardinality(s \ {x}) < n /\ s \ {x} \in SUBSET Ages /\ log[x] \in Nat
  <2>1. c \in s /\ Sum[s] = log[c] + Sum[s \ {c}]
    BY <1>5, SmallerSets, SumStep
  <2>2. ASSUME NEW x \in s PROVE Cardinality(s \ {x}) < n /\ s \ {x} \in SUBSET Ages /\ log[x] \in Nat
    <3>1. Cardinality(s \ {x}) = Cardinality(s) - 1 /\ Cardinality(s) \in Nat
      BY <1>5, SmallerSets
    <3> QED BY <3>1, <1>3
  <2> QED BY <2>1, <2>2
<1>7. \A x \in s : Fine(s \ {x})
  <2> HIDE DEF Fine
  <2> QED BY <1>6, <1>4
<1>8. Sum[s] \in Nat
  BY <1>6, <1>7
<1>9. ASSUME NEW x \in s, x # c PROVE Sum[s] = log[x] + Sum[s \ {x}]
  <2>1. Sum[s \ {c}] = log[x] + Sum[(s \ {c}) \ {x}]
    BY <1>6, <1>7, <1>9
  <2>2. Sum[s \ {x}] = log[c] + Sum[(s \ {x}) \ {c}]
    BY <1>6, <1>7, <1>9
  <2>3. (s \ {x}) \ {c} = (s \ {c}) \ {x}
    OBVIOUS
  <2> DEFINE r == Sum[(s \ {c}) \ {x}]
  <2>4. r \in Nat
    <3>1. (s \ {c}) \ {x} \in SUBSET Ages /\ Cardinality((s \ {c}) \ {x}) < n
      <4> DEFINE u == s \ {c}
      <4>1. u \in SUBSET Ages /\ u # {} /\ x \in u
        BY <1>9
      <4>2. Cardinality(u \ {x}) = Cardinality(u) - 1 /\ Cardinality(u) \in Nat
        <5> HIDE DEF u
        <5> QED BY <4>1, SmallerSets
      <4>3. Cardinality(u) < n /\ n \in Nat
        BY <1>6, <1>1
      <4> QED BY <4>1, <4>2, <4>3
    <3>2. Fine((s \ {c}) \ {x})
      <4> HIDE DEF Fine
      <4> QED BY <3>1, <1>4
    <3> QED BY <3>2
  <2>5. log[c] \in Nat /\ log[x] \in Nat
    BY <1>6
  <2>6. Sum[s] = log[c] + (log[x] + r) /\ Sum[s \ {x}] = log[c] + r
    BY <1>6, <2>1, <2>2, <2>3
  <2> HIDE DEF r, Sum
  <2> QED BY <2>4, <2>5, <2>6
<1>10. \A x \in s : Sum[s] = log[x] + Sum[s \ {x}]
  BY <1>6, <1>9
<1>11. Fine(s)
  BY <1>8, <1>10
<1> QED BY <1>11, <1>3

\* A sum over the first ages, taken from the newest to the oldest.
UpTo(log, a) == SumOf(log)[0 .. a]
LEMMA SumUpTo ==
    ASSUME NEW log \in [Ages -> Nat]
    PROVE  /\ UpTo(log, 0) = log[0] /\ Total(log) = UpTo(log, Day)
           /\ \A a \in Ages : UpTo(log, a) \in Nat
           /\ \A a \in Ages \ {0} : UpTo(log, a) = log[a] + UpTo(log, a - 1)
<1>1. \A a \in Ages : 0 .. a \in SUBSET Ages /\ a \in 0 .. a /\ a \in Nat
  BY AgesFinite DEF Ages
<1>2. \A a \in Ages : UpTo(log, a) \in Nat /\ UpTo(log, a) = log[a] + SumOf(log)[(0 .. a) \ {a}]
  BY <1>1, SumAnyOrder DEF UpTo
<1>3. \A a \in Ages \ {0} : (0 .. a) \ {a} = 0 .. (a - 1)
  BY <1>1
<1>4. 0 \in Ages /\ (0 .. 0) \ {0} = {}
  BY AgesFinite DEF Ages
<1>5. UpTo(log, 0) = log[0] + 0 /\ log[0] \in Nat
  BY <1>2, <1>4, SumStep
<1>6. Total(log) = UpTo(log, Day)
  BY TotalIsSum DEF UpTo, Ages
<1>7. \A a \in Ages \ {0} : UpTo(log, a) = log[a] + UpTo(log, a - 1)
  BY <1>2, <1>3 DEF UpTo
<1>8. \A a \in Ages : UpTo(log, a) \in Nat
  BY <1>2
<1>9. UpTo(log, 0) = log[0]
  BY <1>5
<1> QED BY <1>6, <1>7, <1>8, <1>9

\* The sum of a log one unit of time later is what was in the window before.
LEMMA OlderUpTo ==
    ASSUME NEW log \in [Ages -> Nat]
    PROVE  /\ Older(log) \in [Ages -> Nat] /\ UpTo(Older(log), 0) = 0
           /\ \A a \in Ages \ {0} : UpTo(Older(log), a) = UpTo(log, a - 1)
<1> DEFINE old == Older(log)
           Bad == {a \in Ages \ {0} : UpTo(old, a) # UpTo(log, a - 1)}
<1>1. \A a \in Ages : a \in Nat /\ a <= Day /\ (a # 0 => a - 1 \in Ages)
  BY AgesFinite DEF Ages
<1>2. old \in [Ages -> Nat] /\ \A a \in Ages : old[a] = IF a = 0 THEN 0 ELSE log[a - 1]
  BY <1>1 DEF Older
<1>3. /\ UpTo(old, 0) = old[0] /\ \A a \in Ages \ {0} : UpTo(old, a) = old[a] + UpTo(old, a - 1)
  BY <1>2, SumUpTo
<1>4. UpTo(old, 0) = 0
  BY <1>2, <1>3, AgesFinite DEF Ages
<1>5. ASSUME Bad # {} PROVE FALSE
  <2>1. Bad \in SUBSET Nat
    BY <1>1
  <2>2. PICK a \in Bad : \A b \in Bad : a <= b
    <3> HIDE DEF Bad
    <3> QED BY <2>1, <1>5, LeastOf
  <2>3. a \in Ages \ {0} /\ a - 1 \in Ages /\ a \in Nat
    BY <1>1
  <2>4. UpTo(old, a) = log[a - 1] + UpTo(old, a - 1) /\ log[a - 1] \in Nat
    BY <1>2, <1>3, <2>3
  <2>5. CASE a = 1
    <3>1. UpTo(old, a - 1) = 0 /\ UpTo(log, a - 1) = log[a - 1]
      BY <1>4, <2>5, SumUpTo
    <3> QED BY <3>1, <2>4
  <2>6. CASE a # 1
    <3>1. a - 1 \in Ages \ {0} /\ ~(a <= a - 1)
      BY <2>3, <2>6
    <3>2. UpTo(old, a - 1) = UpTo(log, (a - 1) - 1)
      BY <3>1, <2>2
    <3>3. UpTo(log, a - 1) = log[a - 1] + UpTo(log, (a - 1) - 1)
      BY <3>1, SumUpTo
    <3> QED BY <3>2, <3>3, <2>4
  <2> QED BY <2>5, <2>6
<1> QED BY <1>2, <1>4, <1>5

LEMMA LoggedUpTo ==
    ASSUME NEW log \in [Ages -> Nat]
    PROVE  Logged(log) \in [Ages -> Nat] /\ \A a \in Ages : UpTo(Logged(log), a) = UpTo(log, a) + 1
<1> DEFINE new == Logged(log)
           Bad == {a \in Ages : UpTo(new, a) # UpTo(log, a) + 1}
<1>1. 0 \in Ages /\ \A a \in Ages : a \in Nat /\ a <= Day /\ (a # 0 => a - 1 \in Ages)
  BY AgesFinite DEF Ages
<1>2. new \in [Ages -> Nat] /\ \A a \in Ages : new[a] = IF a = 0 THEN log[0] + 1 ELSE log[a]
  BY <1>1 DEF Logged
<1>3. /\ UpTo(new, 0) = log[0] + 1 /\ \A a \in Ages \ {0} : UpTo(new, a) = log[a] + UpTo(new, a - 1)
  BY <1>1, <1>2, SumUpTo
<1>4. /\ UpTo(log, 0) = log[0] /\ \A a \in Ages \ {0} : UpTo(log, a) = log[a] + UpTo(log, a - 1)
      /\ \A a \in Ages : UpTo(log, a) \in Nat /\ log[a] \in Nat
  BY SumUpTo
<1>5. ASSUME Bad # {} PROVE FALSE
  <2>1. Bad \in SUBSET Nat
    BY <1>1
  <2>2. PICK a \in Bad : \A b \in Bad : a <= b
    <3> HIDE DEF Bad
    <3> QED BY <2>1, <1>5, LeastOf
  <2>3. a # 0
    BY <1>3, <1>4
  <2>4. a - 1 \in Ages /\ ~(a <= a - 1) /\ a \in Ages \ {0}
    BY <1>1, <2>3
  <2>5. UpTo(new, a - 1) = UpTo(log, a - 1) + 1
    BY <2>2, <2>4
  <2>6. UpTo(new, a) = UpTo(log, a) + 1
    BY <1>3, <1>4, <2>4, <2>5
  <2> QED BY <2>6
<1> QED BY <1>2, <1>5

\* What an outcome adds to the total, and time does not.
LEMMA Totals ==
    ASSUME NEW log \in [Ages -> Nat]
    PROVE  Total(log) \in Nat /\ Total(Older(log)) <= Total(log) /\ Total(Logged(log)) = Total(log) + 1
<1>1. Day \in Ages \ {0} /\ Day - 1 \in Ages
  BY AgesFinite DEF Ages
<1>2. Total(log) = UpTo(log, Day) /\ UpTo(log, Day) = log[Day] + UpTo(log, Day - 1)
      /\ UpTo(log, Day - 1) \in Nat /\ log[Day] \in Nat
  BY <1>1, SumUpTo
<1>3. Total(Older(log)) = UpTo(log, Day - 1)
  BY <1>1, OlderUpTo, SumUpTo
<1>4. Total(Logged(log)) = UpTo(log, Day) + 1
  BY <1>1, LoggedUpTo, SumUpTo
<1> QED BY <1>2, <1>3, <1>4

\* What the claim counted is what the window holds after the await: nothing but
\* the delivery that is awaited adds to it, and there is only one.
WithinCap ==
    /\ delivered = sendLog
    /\ \A x, y \in inFlight : x = y
    /\ \A j \in Jobs, p \in Recipients : <<j, p>> \in inFlight => Total(sendLog) < DailyCap[j]

ConfirmsWithinCap ==
    \A j \in Jobs, p \in Recipients :
         (rcpt[j][p] = "sending" /\ rcpt'[j][p] = "sent") => Total(delivered') <= DailyCap[j]

\* What is pruned is older than anything the log still counts.
LEMMA PrunesNothing == TypeOK => Pruned(sendLog) = sendLog
<1>1. Day \in Nat \ {0} /\ \A a \in Ages : ~(a > 2 * Day)
  BY AgesFinite DEF Ages
<1> QED BY <1>1 DEF Pruned, TypeOK

LEMMA CapStep == TypeOK /\ WithinCap /\ [Next]_vars => WithinCap' /\ [ConfirmsWithinCap]_vars
<1> SUFFICES ASSUME TypeOK, WithinCap, [Next]_vars PROVE WithinCap' /\ [ConfirmsWithinCap]_vars
  OBVIOUS
<1>1. DailyCap \in [Jobs -> Nat \ {0}] /\ sendLog \in [Ages -> Nat] /\ inFlight \subseteq Jobs \X Recipients
      /\ rcpt \in [Jobs -> [Recipients -> RecipientStatus]] /\ Total(sendLog) \in Nat
  BY MergeConstants, Totals DEF TypeOK
<1>2. ASSUME UNCHANGED <<sendLog, delivered, inFlight>>,
             \A j \in Jobs, p \in Recipients : ~(rcpt[j][p] = "sending" /\ rcpt'[j][p] = "sent")
      PROVE  WithinCap' /\ ConfirmsWithinCap
  BY <1>2 DEF WithinCap, ConfirmsWithinCap
<1>3. CASE UNCHANGED vars
  BY <1>3 DEF vars, db, history, WithinCap
<1>4. ASSUME NEW j \in Jobs, Create(j) \/ Pause(j) \/ Resume(j) \/ Cancel(j) \/ Delete(j)
      PROVE  WithinCap' /\ ConfirmsWithinCap
  <2>1. UNCHANGED <<sendLog, delivered, inFlight>>
    BY <1>4 DEF Create, Pause, Resume, Cancel, Delete, history
  <2>2. \A i \in Jobs, p \in Recipients : ~(rcpt[i][p] = "sending" /\ rcpt'[i][p] = "sent")
    BY <1>1, <1>4 DEF Create, Pause, Resume, Cancel, Delete, Moved, AllRows
  <2> QED BY <2>1, <2>2, <1>2
<1>5. ASSUME NEW j \in Jobs, NEW ps \in SUBSET Recipients, ResolveResend(j, ps) \/ ResolveSkip(j, ps)
      PROVE  WithinCap' /\ ConfirmsWithinCap
  <2>1. UNCHANGED <<sendLog, delivered, inFlight>>
    BY <1>5 DEF ResolveResend, ResolveSkip, history
  <2>2. \A i \in Jobs, p \in Recipients : ~(rcpt[i][p] = "sending" /\ rcpt'[i][p] = "sent")
    BY <1>1, <1>5 DEF ResolveResend, ResolveSkip
  <2> QED BY <2>1, <2>2, <1>2
<1>6. CASE TickIdle \/ SetOnline \/ \E j \in Jobs, p \in Recipients : ProviderAccepts(j, p)
  <2>1. UNCHANGED <<sendLog, delivered, inFlight, rcpt>>
    BY <1>6 DEF TickIdle, SetOnline, ProviderAccepts, db, history
  <2> QED BY <2>1, <1>2
<1>7. CASE Crash
  BY <1>7 DEF Crash, db, WithinCap, ConfirmsWithinCap
<1>8. CASE Restart
  <2>1. UNCHANGED <<sendLog, delivered, inFlight>>
    BY <1>8, PrunesNothing DEF Restart, history
  <2>2. \A i \in Jobs, p \in Recipients : ~(rcpt[i][p] = "sending" /\ rcpt'[i][p] = "sent")
    BY <1>1, <1>8 DEF Restart, RecoveredRows, Moved
  <2> QED BY <2>1, <2>2, <1>2
<1>9. ASSUME NEW j \in Jobs, TickClaim(j) PROVE WithinCap' /\ ConfirmsWithinCap
  <2>1. PICK p \in Recipients : rcpt' = [rcpt EXCEPT ![j][p] = "sending"] /\ inFlight' = {<<j, p>>}
    BY <1>9 DEF TickClaim
  <2>2. Total(sendLog) < DailyCap[j] /\ UNCHANGED <<sendLog, delivered>>
    BY <1>1, <1>9 DEF TickClaim, Claimable, Capped, SentSince
  <2>3. WithinCap'
    BY <2>1, <2>2 DEF WithinCap
  <2>4. \A i \in Jobs, q \in Recipients : ~(rcpt[i][q] = "sending" /\ rcpt'[i][q] = "sent")
    BY <1>1, <2>1
  <2> QED BY <2>3, <2>4 DEF ConfirmsWithinCap
<1>10. ASSUME NEW j \in Jobs, NEW p \in Recipients, Returned(j, p) PROVE <<j, p>> \in inFlight /\ inFlight' = {}
  BY <1>10 DEF Returned, WithinCap
<1>11. ASSUME NEW j \in Jobs, NEW p \in Recipients,
              MarkFailed(j, p) \/ MarkAmbiguous(j, p) \/ RequeueRateLimited(j, p) \/ RequeueNotSubmitted(j, p)
       PROVE  WithinCap' /\ ConfirmsWithinCap
  <2>1. UNCHANGED <<sendLog, delivered>> /\ inFlight' = {}
    BY <1>10, <1>11 DEF MarkFailed, MarkAmbiguous, RequeueRateLimited, RequeueNotSubmitted
  <2>2. PICK status \in {"failed", "ambiguous", "pending"} : rcpt' = [rcpt EXCEPT ![j] = Outcome(j, p, status)]
    BY <1>11 DEF MarkFailed, MarkAmbiguous, RequeueRateLimited, RequeueNotSubmitted
  <2>3. \A i \in Jobs, q \in Recipients : ~(rcpt[i][q] = "sending" /\ rcpt'[i][q] = "sent")
    BY <1>1, <2>2 DEF Outcome
  <2> QED BY <2>1, <2>3 DEF ConfirmsWithinCap, WithinCap
<1>12. ASSUME NEW j \in Jobs, NEW p \in Recipients, MarkSent(j, p) PROVE WithinCap' /\ ConfirmsWithinCap
  <2>1. sendLog' = Logged(sendLog) /\ delivered' = sendLog' /\ inFlight' = {} /\ <<j, p>> \in inFlight
    BY <1>10, <1>12 DEF MarkSent, WithinCap
  <2>2. Total(delivered') <= DailyCap[j]
    <3>1. Total(sendLog) < DailyCap[j] /\ DailyCap[j] \in Nat
      BY <2>1, <1>1 DEF WithinCap
    <3>2. Total(delivered') = Total(sendLog) + 1
      BY <1>1, <2>1, Totals
    <3> QED BY <3>1, <3>2, <1>1
  <2>3. rcpt' = [rcpt EXCEPT ![j] = Outcome(j, p, "sent")]
    BY <1>12 DEF MarkSent
  <2>4. \A i \in Jobs, q \in Recipients : rcpt[i][q] = "sending" /\ rcpt'[i][q] = "sent" => i = j
    BY <1>1, <2>3
  <2> QED BY <2>1, <2>2, <2>4 DEF ConfirmsWithinCap, WithinCap
<1>13. CASE ClockTick
  <2>1. sendLog' = Older(sendLog) /\ delivered' = sendLog' /\ UNCHANGED <<inFlight, rcpt>>
    BY <1>13 DEF ClockTick, WithinCap
  <2>2. Total(sendLog') <= Total(sendLog) /\ Total(sendLog') \in Nat
    <3>1. Older(sendLog) \in [Ages -> Nat]
      BY <1>1, OlderUpTo
    <3> QED BY <1>1, <2>1, <3>1, Totals
  <2>3. \A j \in Jobs, p \in Recipients : <<j, p>> \in inFlight => Total(sendLog') < DailyCap[j]
    BY <1>1, <2>2 DEF WithinCap
  <2> QED BY <2>1, <2>3 DEF ConfirmsWithinCap, WithinCap
<1> QED BY <1>3, <1>4, <1>5, <1>6, <1>7, <1>8, <1>9, <1>11, <1>12, <1>13 DEF Next, Step, User, Answer, Tick

\* The rolling daily cap of the account holds when a delivery is confirmed, over
\* all merges of the account, deleted ones included, and whatever their caps are.
THEOREM DailyCapKept == Spec => DailyCapHolds
<1>1. Init => TypeOK /\ WithinCap
  <2> SUFFICES ASSUME Init PROVE TypeOK /\ WithinCap
    OBVIOUS
  <2>1. TypeOK
    BY TypeInit
  <2> QED BY <2>1 DEF Init, WithinCap
<1>2. TypeOK /\ WithinCap /\ [Next]_vars => (TypeOK /\ WithinCap)'
  BY TypeStep, CapStep
<1>3. TypeOK /\ WithinCap /\ [Next]_vars => [ConfirmsWithinCap]_vars
  BY CapStep
<1> QED BY <1>1, <1>2, <1>3, PTL DEF Spec, DailyCapHolds, ConfirmsWithinCap
=============================================================================
