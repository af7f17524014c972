------------------------------ MODULE MailMerge ------------------------------
(***************************************************************************)
(* The mail merge queue of the mail worker: the durable job and recipient  *)
(* tables (electron/mail/mail-merge-store.ts), the runner that submits one *)
(* message at a time (electron/mail/mail-merge-runner.ts) and the worker   *)
(* commands and start-up steps around them (electron/mail-worker.ts).      *)
(*                                                                         *)
(* A delivery is an await inside tick(): the row is committed as `sending' *)
(* (TickClaim), the provider takes the message or does not, and only then  *)
(* is the outcome written.  Every user command, a crash, a restart and the *)
(* clock may fall in between.                                              *)
(*                                                                         *)
(* Time is relative.  wait[j] is next_attempt_at - now (0: NULL or past),  *)
(* and the send log keeps the age of each accepted delivery, so the clock  *)
(* needs no bound.  Jobs are numbered in the order of created_at.          *)
(***************************************************************************)
EXTENDS Naturals, FiniteSetsExt

CONSTANTS
    NJobs,        \* jobs that may be created
    NRecipients,  \* recipients of each job
    DailyCap,     \* limits.dailyCap of each job
    Gap,          \* time between submissions of a job, 60 s / perMinute
    Day,          \* MAIL_MERGE_DAY_MS
    BackoffBase,  \* BACKOFF_BASE_MS
    BackoffMax,   \* BACKOFF_MAX_MS
    MaxResends    \* bound: times the user resends one recipient

Jobs == 1..NJobs
Recipients == 1..NRecipients
Ages == 0..Day

ASSUME MergeConstants ==
    /\ NJobs \in Nat \ {0} /\ NRecipients \in Nat \ {0}
    /\ DailyCap \in [Jobs -> Nat \ {0}]
    /\ Gap \in Nat \ {0} /\ Day \in Nat \ {0}
    /\ BackoffBase \in Nat /\ BackoffMax \in Nat /\ BackoffBase <= BackoffMax
    /\ Gap <= BackoffBase  \* both are a minute, Gap divided by perMinute >= 1
    /\ MaxResends \in Nat

VARIABLES
    jobStatus,  \* mail_merge_jobs.status
    wait,       \* mail_merge_jobs.next_attempt_at, relative to now
    backoff,    \* mail_merge_jobs.backoff_count n, as the delay it stands for:
                \* min(BackoffMax, BackoffBase * 2^n)
    rcpt,       \* mail_merge_recipients.status
    sendLog,    \* mail_merge_send_log of the account: deliveries per age
    up,         \* the worker runs and has initialized its database
    online,     \* the worker's connectivity flag
    inFlight,   \* the delivery tick() awaits: {} or {<<job, position>>}
    taken,      \* deliveries of inFlight the provider has accepted
    \* The rest is history that no action reads.
    accepted,   \* messages the provider accepted, per recipient
    resends,    \* times the user chose Resend, per recipient
    delivered,  \* deliveries confirmed to the worker, per age
    sinceClaim, \* time since the last submission of a job, up to Gap
    nudged      \* Resume or Resend was chosen since the last submission

db == <<jobStatus, wait, backoff, rcpt, sendLog>>
history == <<accepted, resends, delivered, sinceClaim, nudged>>
vars == <<db, up, online, inFlight, taken, history>>

RecipientStatus ==
    {"none", "pending", "sending", "sent", "failed", "ambiguous", "skipped", "cancelled"}
JobStatus ==
    {"none", "running", "paused", "needs-review", "completed", "cancelled", "deleted"}

Exists(j) == jobStatus[j] \notin {"none", "deleted"}
Lesser(a, b) == IF a <= b THEN a ELSE b
AllRows(v) == [p \in Recipients |-> v]

\* The delay after the next rate-limit reply: exponential, with a ceiling.
NextBackoff(delay) == Lesser(BackoffMax, 2 * delay)

\* What is left of a delay after one unit of time: next_attempt_at <= now is due.
RemainingUnfloored(delay) == delay - 1
Remaining(delay) == IF delay = 0 THEN 0 ELSE delay - 1

Total(log) == MapThenSumSet(LAMBDA a : log[a], Ages)

-----------------------------------------------------------------------------
(* The store *)

\* A status that forgets the delivery in flight.
RefreshedEarly(status, rows) ==
    LET has(s) == \E p \in Recipients : rows[p] = s
    IN  IF status = "cancelled" THEN status
        ELSE IF has("ambiguous") THEN "needs-review"
        ELSE IF ~has("pending") THEN "completed"
        ELSE IF status \in {"needs-review", "completed"} THEN "running"
        ELSE status

\* refreshStatus: the status a job derives from its recipients.
Refreshed(status, rows) ==
    LET has(s) == \E p \in Recipients : rows[p] = s
    IN  IF status = "cancelled" THEN status
        ELSE IF has("ambiguous") THEN "needs-review"
        ELSE IF ~has("pending") /\ ~has("sending") THEN "completed"
        ELSE IF status \in {"needs-review", "completed"} THEN "running"
        ELSE status

\* Rows with a status in from become to, the others stay.
Moved(rows, from, to) ==
    [p \in Recipients |-> IF rows[p] \in from THEN to ELSE rows[p]]

\* A recovery that sends again.
RecoveredRowsRetried == [j \in Jobs |-> Moved(rcpt[j], {"sending"}, "pending")]

\* recoverInterrupted: rows left `sending' are ambiguous, their jobs wait for review.
RecoveredRows == [j \in Jobs |-> Moved(rcpt[j], {"sending"}, "ambiguous")]
RecoveredStatus ==
    [j \in Jobs |-> IF \E p \in Recipients : rcpt[j][p] = "sending"
                    THEN Refreshed(jobStatus[j], RecoveredRows[j])
                    ELSE jobStatus[j]]

\* pruneSendLog(now - 2 days)
Pruned(log) == [a \in Ages |-> IF a > 2 * Day THEN 0 ELSE log[a]]

\* sentSince(account, now - 1 day): the window includes its first instant.
SentSince == Total(sendLog)
IsOldest(a) == /\ \A b \in Ages : sendLog[b] > 0 => b <= a
               /\ sendLog[a] > 0 \/ a = 0

IsNextPending(j, p) == /\ rcpt[j][p] = "pending"
                       /\ \A q \in 1..(p - 1) : rcpt[j][q] # "pending"
HasPending(j) == \E p \in Recipients : rcpt[j][p] = "pending"

-----------------------------------------------------------------------------
(* Commands of the user *)

Create(j) ==
    /\ up /\ jobStatus[j] = "none"
    /\ \A i \in 1..(j - 1) : jobStatus[i] # "none"
    /\ jobStatus' = [jobStatus EXCEPT ![j] = "running"]
    /\ rcpt' = [rcpt EXCEPT ![j] = AllRows("pending")]
    /\ UNCHANGED <<wait, backoff, sendLog, up, online, inFlight, taken, history>>

Pause(j) ==
    /\ up /\ jobStatus[j] = "running"
    /\ jobStatus' = [jobStatus EXCEPT ![j] = "paused"]
    /\ UNCHANGED <<wait, backoff, rcpt, sendLog, up, online, inFlight, taken, history>>

Resume(j) ==
    /\ up /\ jobStatus[j] = "paused"
    /\ jobStatus' = [jobStatus EXCEPT ![j] = Refreshed("running", rcpt[j])]
    /\ wait' = [wait EXCEPT ![j] = 0]
    /\ backoff' = [backoff EXCEPT ![j] = BackoffBase]
    /\ nudged' = [nudged EXCEPT ![j] = TRUE]
    /\ UNCHANGED <<rcpt, sendLog, up, online, inFlight, taken,
                   accepted, resends, delivered, sinceClaim>>

\* A row in flight stays `sending' and still records its outcome.
Cancel(j) ==
    /\ up /\ Exists(j) /\ jobStatus[j] \notin {"cancelled", "completed"}
    /\ rcpt' = [rcpt EXCEPT ![j] = Moved(rcpt[j], {"pending"}, "cancelled")]
    /\ jobStatus' = [jobStatus EXCEPT ![j] = "cancelled"]
    /\ UNCHANGED <<wait, backoff, sendLog, up, online, inFlight, taken, history>>

ResolveResend(j, ps) ==
    LET chosen == {p \in ps : rcpt[j][p] \in {"ambiguous", "failed"}}
        rows == [p \in Recipients |-> IF p \in chosen THEN "pending" ELSE rcpt[j][p]]
    IN  /\ up /\ Exists(j) /\ jobStatus[j] # "cancelled"
        /\ \A p \in chosen : resends[j][p] < MaxResends
        /\ rcpt' = [rcpt EXCEPT ![j] = rows]
        /\ wait' = [wait EXCEPT ![j] = 0]
        /\ backoff' = [backoff EXCEPT ![j] = BackoffBase]
        /\ jobStatus' = [jobStatus EXCEPT ![j] = Refreshed(jobStatus[j], rows)]
        /\ resends' = [resends EXCEPT ![j] =
               [p \in Recipients |-> IF p \in chosen THEN resends[j][p] + 1 ELSE resends[j][p]]]
        /\ nudged' = [nudged EXCEPT ![j] = TRUE]
        /\ UNCHANGED <<sendLog, up, online, inFlight, taken, accepted, delivered, sinceClaim>>

ResolveSkip(j, ps) ==
    LET rows == [p \in Recipients |->
                   IF p \in ps /\ rcpt[j][p] \in {"pending", "ambiguous", "failed"}
                   THEN "skipped" ELSE rcpt[j][p]]
    IN  /\ up /\ Exists(j)
        /\ rcpt' = [rcpt EXCEPT ![j] = rows]
        /\ jobStatus' = [jobStatus EXCEPT ![j] = Refreshed(jobStatus[j], rows)]
        /\ UNCHANGED <<wait, backoff, sendLog, up, online, inFlight, taken, history>>

\* The send log is kept: the daily cap survives deleting a merge.
Delete(j) ==
    /\ up /\ Exists(j) /\ jobStatus[j] # "running"
    /\ \A p \in Recipients : rcpt[j][p] # "sending"
    /\ jobStatus' = [jobStatus EXCEPT ![j] = "deleted"]
    /\ rcpt' = [rcpt EXCEPT ![j] = AllRows("none")]
    /\ wait' = [wait EXCEPT ![j] = 0]
    /\ backoff' = [backoff EXCEPT ![j] = BackoffBase]
    /\ UNCHANGED <<sendLog, up, online, inFlight, taken, history>>

-----------------------------------------------------------------------------
(* The runner *)

DueInReview(j) == jobStatus[j] \in {"running", "needs-review"} /\ wait[j] = 0
Due(j) == jobStatus[j] = "running" /\ wait[j] = 0
CappedLate(j) == SentSince > DailyCap[j]
Capped(j) == SentSince >= DailyCap[j]
Claimable(j) == Due(j) /\ ~Capped(j) /\ HasPending(j)

\* defer: every due job of the pass that has reached its cap waits until
\* the oldest delivery of the window is a day old.
Deferred(js, oldest) ==
    [j \in Jobs |-> IF j \in js /\ Due(j) /\ Capped(j) THEN Day - oldest ELSE wait[j]]

\* claim also sets the next attempt of the job, whatever becomes of this one.
PacedByOutcome(delays, j) == delays
Paced(delays, j) == [delays EXCEPT ![j] = Gap]

\* tick() up to its await: the oldest job that can send claims its first
\* pending recipient; rows go to `sending' before the provider is contacted.
TickClaim(j) ==
    /\ up /\ online /\ inFlight = {}
    /\ Claimable(j) /\ \A i \in 1..(j - 1) : ~Claimable(i)
    /\ \E p \in Recipients, oldest \in Ages :
         /\ IsNextPending(j, p) /\ IsOldest(oldest)
         /\ rcpt' = [rcpt EXCEPT ![j][p] = "sending"]
         /\ wait' = Paced(Deferred(1..(j - 1), oldest), j)
         /\ inFlight' = {<<j, p>>}
    /\ sinceClaim' = [sinceClaim EXCEPT ![j] = 0]
    /\ nudged' = [nudged EXCEPT ![j] = FALSE]
    /\ UNCHANGED <<jobStatus, backoff, sendLog, up, online, taken,
                   accepted, resends, delivered>>

\* A tick that finds nothing to send.
TickIdle ==
    /\ up /\ online /\ inFlight = {}
    /\ \A j \in Jobs : ~Claimable(j)
    /\ \E oldest \in Ages : IsOldest(oldest) /\ wait' = Deferred(Jobs, oldest)
    /\ UNCHANGED <<jobStatus, backoff, rcpt, sendLog, up, online, inFlight, taken, history>>

\* setInterval(tick, 1 s)
Tick == TickIdle \/ \E j \in Jobs : TickClaim(j)

\* The provider takes the message; the worker does not know yet.
ProviderAccepts(j, p) ==
    /\ up /\ <<j, p>> \in inFlight \ taken
    /\ taken' = taken \cup {<<j, p>>}
    /\ accepted' = [accepted EXCEPT ![j][p] = accepted[j][p] + 1]
    /\ UNCHANGED <<db, up, online, inFlight, resends, delivered, sinceClaim, nudged>>

\* The end of deliver(): the await is over and the runner is free again.
Returned(j, p) ==
    /\ up /\ <<j, p>> \in inFlight
    /\ inFlight' = inFlight \ {<<j, p>>}
    /\ taken' = taken \ {<<j, p>>}
    /\ UNCHANGED <<up, online, accepted, resends, sinceClaim, nudged>>

\* The outcome is written only over a row that is still `sending'.
Outcome(j, p, status) ==
    [rcpt[j] EXCEPT ![p] = IF rcpt[j][p] = "sending" THEN status ELSE @]

\* INSERT INTO mail_merge_send_log
Logged(log) == [log EXCEPT ![0] = log[0] + 1]

MarkSent(j, p) ==
    /\ Returned(j, p) /\ <<j, p>> \in taken
    /\ LET rows == Outcome(j, p, "sent")
       IN  /\ rcpt' = [rcpt EXCEPT ![j] = rows]
           /\ jobStatus' = [jobStatus EXCEPT ![j] = Refreshed(jobStatus[j], rows)]
    /\ sendLog' = Logged(sendLog)
    /\ backoff' = [backoff EXCEPT ![j] = BackoffBase]
    /\ delivered' = Logged(delivered)
    /\ UNCHANGED wait

\* finishWith: `failed' proves that the provider refused the message,
\* `ambiguous' is every error that proves nothing.
MarkFailed(j, p) ==
    /\ Returned(j, p) /\ <<j, p>> \notin taken
    /\ LET rows == Outcome(j, p, "failed")
       IN  /\ rcpt' = [rcpt EXCEPT ![j] = rows]
           /\ jobStatus' = [jobStatus EXCEPT ![j] = Refreshed(jobStatus[j], rows)]
    /\ UNCHANGED <<wait, backoff, sendLog, delivered>>

MarkAmbiguous(j, p) ==
    /\ Returned(j, p)
    /\ LET rows == Outcome(j, p, "ambiguous")
       IN  /\ rcpt' = [rcpt EXCEPT ![j] = rows]
           /\ jobStatus' = [jobStatus EXCEPT ![j] = Refreshed(jobStatus[j], rows)]
    /\ UNCHANGED <<wait, backoff, sendLog, delivered>>

\* Definitely not accepted: back in the queue, after a backoff.
RequeueRateLimited(j, p) ==
    /\ Returned(j, p) /\ <<j, p>> \notin taken
    /\ LET rows == Outcome(j, p, "pending")
       IN  /\ rcpt' = [rcpt EXCEPT ![j] = rows]
           /\ jobStatus' = [jobStatus EXCEPT ![j] = Refreshed(jobStatus[j], rows)]
    /\ wait' = [wait EXCEPT ![j] = backoff[j]]
    /\ backoff' = [backoff EXCEPT ![j] = NextBackoff(backoff[j])]
    /\ UNCHANGED <<sendLog, delivered>>

\* Nothing was submitted: the job pauses, unless it no longer runs.
RequeueNotSubmitted(j, p) ==
    /\ Returned(j, p) /\ <<j, p>> \notin taken
    /\ LET rows == Outcome(j, p, "pending")
           status == IF jobStatus[j] = "running" THEN "paused" ELSE jobStatus[j]
       IN  /\ rcpt' = [rcpt EXCEPT ![j] = rows]
           /\ jobStatus' = [jobStatus EXCEPT ![j] = Refreshed(status, rows)]
    /\ UNCHANGED <<wait, backoff, sendLog, delivered>>

-----------------------------------------------------------------------------
(* The environment *)

SetOnline ==
    /\ up /\ online' = ~online
    /\ UNCHANGED <<db, up, inFlight, taken, history>>

\* The process ends; a submission on the wire may still be accepted.
Crash ==
    /\ up /\ up' = FALSE
    /\ inFlight' = {} /\ taken' = {}
    /\ \E late \in SUBSET (inFlight \ taken) :
           accepted' = [j \in Jobs |-> [p \in Recipients |->
               IF <<j, p>> \in late THEN accepted[j][p] + 1 ELSE accepted[j][p]]]
    /\ UNCHANGED <<db, online, resends, delivered, sinceClaim, nudged>>

\* The worker's `initialize' command.
Restart ==
    /\ ~up /\ up' = TRUE
    /\ rcpt' = RecoveredRows
    /\ jobStatus' = RecoveredStatus
    /\ sendLog' = Pruned(sendLog)
    /\ UNCHANGED <<wait, backoff, online, inFlight, taken, history>>

\* The send log one unit of time later; an entry leaves the window after a
\* day and can never be counted again.
OlderForever(log) ==
    [a \in Ages |-> (IF a = 0 THEN 0 ELSE log[a - 1]) + (IF a = Day THEN log[a] ELSE 0)]
Older(log) == [a \in Ages |-> IF a = 0 THEN 0 ELSE log[a - 1]]

ClockTick ==
    /\ wait' = [j \in Jobs |-> Remaining(wait[j])]
    /\ sendLog' = Older(sendLog)
    /\ delivered' = Older(delivered)
    /\ sinceClaim' = [j \in Jobs |-> Lesser(Gap, sinceClaim[j] + 1)]
    /\ UNCHANGED <<jobStatus, backoff, rcpt, up, online, inFlight, taken,
                   accepted, resends, nudged>>

-----------------------------------------------------------------------------
Init ==
    /\ jobStatus = [j \in Jobs |-> "none"]
    /\ wait = [j \in Jobs |-> 0]
    /\ backoff = [j \in Jobs |-> BackoffBase]
    /\ rcpt = [j \in Jobs |-> AllRows("none")]
    /\ sendLog = [a \in Ages |-> 0]
    /\ up = TRUE /\ online = TRUE
    /\ inFlight = {} /\ taken = {}
    /\ accepted = [j \in Jobs |-> AllRows(0)]
    /\ resends = [j \in Jobs |-> AllRows(0)]
    /\ delivered = [a \in Ages |-> 0]
    /\ sinceClaim = [j \in Jobs |-> Gap]
    /\ nudged = [j \in Jobs |-> FALSE]

User(j) ==
    \/ Create(j) \/ Pause(j) \/ Resume(j) \/ Cancel(j) \/ Delete(j)
    \/ \E ps \in SUBSET Recipients : ResolveResend(j, ps) \/ ResolveSkip(j, ps)

\* The provider answers, one way or another.
Answer(j, p) ==
    \/ MarkSent(j, p) \/ MarkFailed(j, p) \/ MarkAmbiguous(j, p)
    \/ RequeueRateLimited(j, p) \/ RequeueNotSubmitted(j, p)

Step ==
    \/ \E j \in Jobs : User(j)
    \/ \E j \in Jobs, p \in Recipients : ProviderAccepts(j, p) \/ Answer(j, p)
    \/ Tick \/ SetOnline \/ Crash \/ Restart

Next == Step \/ ClockTick

Spec == Init /\ [][Next]_vars

-----------------------------------------------------------------------------
(* Properties *)

\* Every variable keeps its shape (the columns of the three tables).
TypeOK ==
    /\ jobStatus \in [Jobs -> JobStatus]
    /\ wait \in [Jobs -> Nat] /\ backoff \in [Jobs -> Nat]
    /\ rcpt \in [Jobs -> [Recipients -> RecipientStatus]]
    /\ sendLog \in [Ages -> Nat] /\ delivered \in [Ages -> Nat]
    /\ up \in BOOLEAN /\ online \in BOOLEAN
    /\ inFlight \subseteq Jobs \X Recipients /\ taken \subseteq inFlight
    /\ accepted \in [Jobs -> [Recipients -> Nat]]
    /\ resends \in [Jobs -> [Recipients -> Nat]]
    /\ sinceClaim \in [Jobs -> Nat] /\ nudged \in [Jobs -> BOOLEAN]

\* A recipient receives the message at most once for every time the user
\* asked for it: across crashes, restarts, retries, pauses and deletions a
\* duplicate is only ever the user's own Resend.
AtMostOnce ==
    \A j \in Jobs, p \in Recipients : accepted[j][p] <= 1 + resends[j][p]

\* A merge reported as completed leaves no recipient waiting, being sent or
\* unknown, and a recipient reported as sent was accepted by the provider.
ReportsAreTrue ==
    \A j \in Jobs, p \in Recipients :
        /\ jobStatus[j] = "completed" =>
               rcpt[j][p] \in {"sent", "failed", "skipped", "cancelled"}
        /\ rcpt[j][p] = "sent" => accepted[j][p] > 0

\* The runner starts to submit to a recipient of merge j.
Submits(j) == \E p \in Recipients : <<j, p>> \in inFlight' \ inFlight

\* While one recipient is ambiguous, the whole merge submits nothing else.
ReviewStopsMerge ==
    [][\A j \in Jobs : (\E p \in Recipients : rcpt[j][p] = "ambiguous") => ~Submits(j)]_vars

\* The rolling daily cap of the account, over all merges, deleted ones
\* included, holds when a delivery is confirmed: what the claim counted is
\* still what the window holds after the await.
DailyCapHolds ==
    [][\A j \in Jobs, p \in Recipients :
         (rcpt[j][p] = "sending" /\ rcpt'[j][p] = "sent") => Total(delivered') <= DailyCap[j]]_vars

\* Submissions of a merge are Gap apart, also across a crash, a deferral or
\* a backoff, unless the user chose Resume or Resend in between.
SpacedUnlessNudged ==
    [][\A j \in Jobs : Submits(j) => sinceClaim[j] = Gap \/ nudged[j]]_vars

\* What the merges promise each recipient: the permits of DeliveryPermits.
\* A row that waits in a cancelled merge is never sent.
Granted(j, p) == IF jobStatus[j] = "none" THEN 0 ELSE 1 + resends[j][p]
MayBegin(j, p) == rcpt[j][p] = "pending" /\ jobStatus[j] # "cancelled"
Open(j, p) == <<j, p>> \in inFlight \ taken

Permits ==
    INSTANCE DeliveryPermits WITH
        Items <- Jobs \X Recipients,
        granted <- [i \in Jobs \X Recipients |-> Granted(i[1], i[2])],
        permit <- [i \in Jobs \X Recipients |-> MayBegin(i[1], i[2])],
        open <- [i \in Jobs \X Recipients |-> Open(i[1], i[2])],
        received <- [i \in Jobs \X Recipients |-> accepted[i[1]][i[2]]]

\* Every step uses a permit up, gives it back after a proven refusal, or loses
\* it: no crash, recovery, restore, cancellation or lost answer makes one.
KeepsPermits == Permits!Spec

-----------------------------------------------------------------------------
(* Liveness *)

\* The one-second timer ticks, the awaited request ends, the worker is
\* restarted, the clock advances, connectivity returns, and the provider does
\* not limit the rate forever.  From some point on the user leaves the merges
\* alone and the process and the network stay up: a user who resumes an
\* older merge again and again may well starve a younger one.
Quiet ==
    /\ ~Crash /\ ~(SetOnline /\ online)
    /\ \A j \in Jobs : ~User(j) /\ \A p \in Recipients : ~RequeueRateLimited(j, p)
Reconnects == SetOnline /\ online'
Fairness ==
    /\ <>[][Quiet]_vars
    /\ WF_vars(Restart) /\ WF_vars(ClockTick) /\ WF_vars(Tick) /\ WF_vars(Reconnects)
    /\ \A j \in Jobs, p \in Recipients : WF_vars(Answer(j, p))

FairSpec == Spec /\ Fairness

\* Every waiting recipient of a running merge is submitted in the end, or
\* the merge stops running: no job starves behind an older one, behind the
\* cap or behind a recipient that is put back in the queue.
WaitingIsServed ==
    \A j \in Jobs, p \in Recipients :
        []<>(jobStatus[j] = "running" => rcpt[j][p] # "pending")

\* No delivery stays `sending': it gets its outcome, or a restart makes it ambiguous.
SendingEnds ==
    \A j \in Jobs, p \in Recipients : []<>(rcpt[j][p] # "sending")

\* The runner gets to every waiting recipient of a running merge, and no delivery
\* stays `sending' for ever.
MergesMove == WaitingIsServed /\ SendingEnds
=============================================================================
