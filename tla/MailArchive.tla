----------------------------- MODULE MailArchive -----------------------------
(***************************************************************************)
(* Automatic archiving (electron/mail/mail-archive.ts, mail-archive-store  *)
(* .ts, mail-archive-removal.ts): a run copies each selected message into  *)
(* Local Folders, verifies the copy and queues the removal of the server   *)
(* copy in the provider operation queue of the worker (mail-worker.ts).    *)
(*                                                                         *)
(* The worker is one JavaScript thread.  A run suspends only while it      *)
(* awaits the copy of a message, the operation queue only while it awaits  *)
(* the provider.  Between two awaits a pass runs alone: while one is       *)
(* runnable (Busy), only it and a crash may take a step, and each of its   *)
(* steps is one committed database write.  Other code runs in between.     *)
(*                                                                         *)
(* One account, one policy that excludes pinned conversations (the other   *)
(* exclusions are read alike).  Whether a policy, or a rescheduled         *)
(* operation, is due is a free choice: the clock is left out.              *)
(*                                                                         *)
(* The account may be of any kind that can be archived.  For POP3 the      *)
(* queue reports a removal without a request.  Otherwise a request names   *)
(* what the provider can find: every message of Gmail and Microsoft, over  *)
(* IMAP those with a folder and a UID, and none of Exchange.               *)
(***************************************************************************)
EXTENDS Naturals, FiniteSets

CONSTANTS
    NMessages,    \* messages older than the cutoff, by received date
    NJobs,        \* bound: runs that are started
    Batch,        \* REMOVAL_BATCH
    MaxAttempts,  \* attempts of an operation before it is failed
    MaxForeign,   \* bound: changes made by users and other mail programs
    Removal,      \* the policy's removal: "trash" or "delete"
    Forbidden     \* environment events an instance leaves out

Messages == 1..NMessages
Jobs == 1..NJobs
Ops == 1..(NJobs * NMessages)  \* bound: an item is queued at most once

ASSUME ArchiveConstants ==
    /\ NMessages \in Nat \ {0} /\ NJobs \in Nat \ {0}
    /\ Batch \in Nat \ {0} /\ MaxAttempts \in Nat \ {0} /\ MaxForeign \in Nat
    /\ Removal \in {"trash", "delete"}
    /\ Forbidden \subseteq {"protect", "otherClient", "userDeletes", "sync", "crash", "corrupt"}

VARIABLES
    jobStatus,  \* mail_archive_jobs.status
    item,       \* mail_archive_items.state
    op,         \* gmail_operations: the removals
    cached,     \* messages in the local cache of the account
    hidden,     \* cached messages that carry the TRASH label
    protected,  \* messages of pinned conversations
    located,    \* messages that a request to the provider can name
    keepsFoldersLocally,  \* the account is one of POP3
    copy,       \* the Local Folders copy: "none", "good" or "bad"
    server,     \* messages still where the provider had them
    up,         \* the worker runs
    pump,       \* where copyPending of a run stands
    batch,      \* the messages left of the batch it works on
    ticking,    \* tick() has not looked at the policies yet
    pass,       \* runOperations is in progress
    opList,     \* the rows it read and has not come to
    runner,     \* the operation it awaits, or 0
    foreign,    \* bound counter: changes made from outside
    \* History that no action reads.
    purged,     \* messages whose server copy Aerio removed
    discarded   \* messages whose Local Folders copy the user deleted

jobs == <<jobStatus, item>>
account == <<located, keepsFoldersLocally>>
mail == <<cached, hidden, protected, copy, server, account>>
pumps == <<pump, batch>>
queue == <<pass, opList, runner>>
history == <<purged, discarded, foreign>>
vars == <<jobs, op, mail, up, pumps, ticking, queue, history>>

JobStatus == {"none", "running", "paused", "completed", "cancelled", "failed"}
ItemState == {"none", "pending", "copied", "removal-queued", "done", "failed", "skipped"}
ActiveItem == {"pending", "copied", "removal-queued"}
OpStatus == {"none", "queued", "running", "succeeded", "failed"}
OpRow == [status : OpStatus, job : 0..NJobs, msgs : SUBSET Messages,
          before : SUBSET Messages, attempts : 0..MaxAttempts]
NoOp == [status |-> "none", job |-> 0, msgs |-> {}, before |-> {}, attempts |-> 0]
PumpState == {"off", "begin", "queue", "check", "copying", "finish"}

First(S) == CHOOSE x \in S : \A y \in S : x <= y
InState(j, states) == {m \in Messages : item[j][m] \in states}
Settle(j, ms, state) ==
    [item EXCEPT ![j] = [m \in Messages |-> IF m \in ms THEN state ELSE item[j][m]]]
Goto(j, state) == pump' = [pump EXCEPT ![j] = state]

\* A pass between two awaits: nothing else of the worker runs.
Runnable == {j \in Jobs : pump[j] \notin {"off", "copying"}}
Busy == Runnable # {} \/ (pass /\ runner = 0)
Idle == up /\ ~Busy /\ ~ticking
\* The run whose pass goes on; an operation pass it started goes first.
Turn(j) == up /\ ~(pass /\ runner = 0) /\ j \in Runnable /\ \A i \in Runnable : j <= i

-----------------------------------------------------------------------------
(* The store *)

\* select: old messages that no item of any run still works on.
Selected == {m \in cached \ (hidden \cup protected) :
                \A j \in Jobs : item[j][m] \notin ActiveItem}

\* stillEligible, right before the copy
StillEligible(m) == m \in cached \ (hidden \cup protected)

\* What Cancel and a missing destination settle.
CancellableAll(j) == InState(j, ActiveItem)
Cancellable(j) == InState(j, {"pending", "copied"})

\* reconcileRemovals: items follow the outcome of their operation.
RemovalOf(j, m) == CHOOSE o \in Ops : op[o].job = j /\ m \in op[o].msgs
Outcome(status) == CASE status = "succeeded" -> "done"
                     [] status = "failed" -> "failed"
                     [] OTHER -> "removal-queued"
ReconciledItems ==
    [j \in Jobs |-> [m \in Messages |->
        IF item[j][m] = "removal-queued" THEN Outcome(op[RemovalOf(j, m)].status)
        ELSE item[j][m]]]
\* Permanent deletion also drops the cached message.
ReconciledCache ==
    IF Removal = "trash" THEN cached
    ELSE {m \in cached : ~\E j \in Jobs : ReconciledItems[j][m] = "done" /\ item[j][m] # "done"}

\* completeIfSettled: a running job none of whose items needs more work.
SettledWithoutFailures(j, items) ==
    jobStatus[j] = "running" /\ \A m \in Messages : items[j][m] \notin ActiveItem \cup {"failed"}
Settled(j, items) == jobStatus[j] = "running" /\ \A m \in Messages : items[j][m] \notin ActiveItem

\* reconcile: the jobs whose items changed, or that asked, may be complete.
Reconcile(asked) ==
    /\ item' = ReconciledItems
    /\ cached' = ReconciledCache
    /\ hidden' = hidden \cap cached'
    /\ jobStatus' = [j \in Jobs |->
           IF (j \in asked \/ ReconciledItems[j] # item[j]) /\ Settled(j, ReconciledItems)
           THEN "completed" ELSE jobStatus[j]]

ActiveJobs == {j \in Jobs : jobStatus[j] \in {"running", "paused"}}

\* pump: joins the pass of the job that is in progress, or begins one.
Pumped(j) == IF pump[j] = "off" THEN "begin" ELSE pump[j]

-----------------------------------------------------------------------------
(* Commands and the scheduler *)

\* start: select, create the job with its items, pump it.
StartJob(j) ==
    /\ jobStatus[j] = "none" /\ \A i \in 1..(j - 1) : jobStatus[i] # "none"
    /\ jobStatus' = [jobStatus EXCEPT ![j] = "running"]
    /\ item' = Settle(j, Selected, "pending")
    /\ Goto(j, Pumped(j))

ResumeJob(j) ==
    /\ jobStatus[j] = "paused"
    /\ jobStatus' = [jobStatus EXCEPT ![j] = "running"]
    /\ Goto(j, Pumped(j))
    /\ UNCHANGED item

\* A due policy, or runNow: the unfinished run is resumed, not doubled.
ResumeOrStart(j) == IF ActiveJobs = {} THEN StartJob(j) ELSE j \in ActiveJobs /\ ResumeJob(j)

RunNow(j) ==
    /\ Idle /\ ResumeOrStart(j)
    /\ UNCHANGED <<op, mail, up, batch, ticking, queue, history>>

\* Removals already queued finish normally.
Cancel(j) ==
    /\ Idle /\ j \in ActiveJobs
    /\ item' = Settle(j, Cancellable(j), "skipped")
    /\ jobStatus' = [jobStatus EXCEPT ![j] = "cancelled"]
    /\ UNCHANGED <<op, mail, up, pumps, ticking, queue, history>>

\* tick(): settle removals, pump the running jobs, then look at the policies.
Tick ==
    /\ Idle
    /\ Reconcile({})
    /\ pump' = [j \in Jobs |-> IF jobStatus'[j] = "running" THEN Pumped(j) ELSE pump[j]]
    /\ ticking' = TRUE
    /\ UNCHANGED <<op, protected, account, copy, server, up, batch, queue, history>>

TickPolicies ==
    /\ up /\ ticking /\ ~Busy
    /\ ticking' = FALSE
    /\ \/ UNCHANGED <<jobs, pump>>  \* nothing is due
       \/ \E j \in Jobs : ResumeOrStart(j)
    /\ UNCHANGED <<op, mail, up, batch, queue, history>>

-----------------------------------------------------------------------------
(* copyPending: one step per write, suspended only in "copying" *)

\* The job must be running; without its destination folder it fails.
PumpBegin(j) ==
    /\ Turn(j) /\ pump[j] = "begin"
    /\ \/ /\ jobStatus[j] # "running" /\ Goto(j, "off")
          /\ UNCHANGED jobs
       \/ /\ jobStatus[j] = "running" /\ Goto(j, "queue")
          /\ UNCHANGED jobs
       \/ /\ jobStatus[j] = "running" /\ Goto(j, "off")
          /\ item' = Settle(j, Cancellable(j), "skipped")
          /\ jobStatus' = [jobStatus EXCEPT ![j] = "failed"]
    /\ UNCHANGED <<op, mail, up, batch, ticking, queue, history>>

\* The first Batch items of a set, by received date.
Leading(ms) == {m \in ms : Cardinality({n \in ms : n < m}) < Batch}

\* runOperations reads the due rows.  A retried row may not be due yet.
StartPass(rows) ==
    /\ ~pass
    /\ \E due \in SUBSET {o \in Ops : rows[o].status = "queued"} : due # {} /\ opList' = due
    /\ pass' = TRUE
    /\ UNCHANGED runner

\* queueCopied hands over the verified copies: one transaction hides the
\* messages, records the operation and moves the items, whatever the status
\* of the job is by now; then the operation queue is woken.
QueueRemoval(j) ==
    LET ms == Leading(InState(j, {"copied"}))
        free == First({o \in Ops : op[o].status = "none"})
    IN  /\ Turn(j) /\ pump[j] = "queue" /\ ms # {}
        /\ op' = [op EXCEPT ![free] = [status |-> "queued", job |-> j, msgs |-> ms,
                                       before |-> ms \cap hidden, attempts |-> 0]]
        /\ hidden' = hidden \cup (ms \cap cached)
        /\ item' = Settle(j, ms, "removal-queued")
        /\ \/ StartPass(op')
           \/ UNCHANGED queue  \* offline, or a pass is in progress
        /\ UNCHANGED <<jobStatus, cached, protected, account, copy, server, up, pumps, ticking, history>>

\* The next batch of pending items, in received-date order.
FetchBatch(j) ==
    /\ Turn(j) /\ pump[j] = "queue" /\ InState(j, {"copied"}) = {}
    /\ batch' = [batch EXCEPT ![j] = Leading(InState(j, {"pending"}))]
    /\ Goto(j, IF batch'[j] = {} THEN "finish" ELSE "check")
    /\ UNCHANGED <<jobs, op, mail, up, ticking, queue, history>>

\* The item m of the batch has reached a state; the pass goes on with the next.
ItemDone(j, m, state) ==
    /\ item' = Settle(j, {m}, state)
    /\ batch' = [batch EXCEPT ![j] = @ \ {m}]
    /\ Goto(j, "check")

\* The disk is full: the item stays pending, the run waits for Resume.
PauseRun(j) ==
    /\ jobStatus' = [jobStatus EXCEPT ![j] = "paused"]
    /\ batch' = [batch EXCEPT ![j] = {}]
    /\ Goto(j, "off")
    /\ UNCHANGED item

\* One item of the batch up to its await.  A copy that an earlier attempt
\* left in the destination is verified again and adopted.
CheckItem(j) ==
    LET m == First(batch[j])
    IN  /\ Turn(j) /\ pump[j] = "check" /\ batch[j] # {}
        /\ \/ /\ jobStatus[j] # "running" /\ Goto(j, "off")
              /\ batch' = [batch EXCEPT ![j] = {}]
              /\ UNCHANGED jobs
           \/ /\ jobStatus[j] = "running" /\ ~StillEligible(m)
              /\ ItemDone(j, m, "skipped") /\ UNCHANGED jobStatus
           \/ /\ jobStatus[j] = "running" /\ StillEligible(m) /\ copy[m] = "good"
              /\ ItemDone(j, m, "copied") /\ UNCHANGED jobStatus
           \/ /\ jobStatus[j] = "running" /\ StillEligible(m) /\ copy[m] = "bad"
              /\ ItemDone(j, m, "failed") /\ UNCHANGED jobStatus
           \/ /\ jobStatus[j] = "running" /\ StillEligible(m) /\ copy[m] = "none"
              /\ \/ Goto(j, "copying") /\ UNCHANGED <<jobs, batch>>
                 \/ PauseRun(j)
        /\ UNCHANGED <<op, mail, up, ticking, queue, history>>

\* The end of a batch queues what it copied.
BatchDone(j) ==
    /\ Turn(j) /\ pump[j] = "check" /\ batch[j] = {}
    /\ Goto(j, "queue")
    /\ UNCHANGED <<jobs, op, mail, up, batch, ticking, queue, history>>

\* What the awaited store of a copy may have written.
Written == IF "corrupt" \in Forbidden THEN {"good"} ELSE {"good", "bad"}

\* verify: size, checksum and attachments of what was written.
VerifiedAlways(written) == written # "none"
Verified(written) == written = "good"

\* The awaited write ended; markCopied and setItemState overwrite whatever
\* state the item has by now.
CopyVerified(j) ==
    LET m == First(batch[j])
    IN  /\ Idle /\ pump[j] = "copying"
        /\ \E written \in Written :
              Verified(written) /\ copy' = [copy EXCEPT ![m] = written]
        /\ discarded' = discarded \ {m}
        /\ ItemDone(j, m, "copied")
        /\ UNCHANGED <<jobStatus, op, cached, hidden, protected, account, server, up, ticking, queue, purged, foreign>>

\* The write failed, or the new copy did not verify and is removed again.
CopyRejected(j) ==
    LET m == First(batch[j])
    IN  /\ Idle /\ pump[j] = "copying"
        /\ \/ UNCHANGED copy
           \/ \E written \in Written :
                 ~Verified(written) /\ copy' = [copy EXCEPT ![m] = "none"]
        /\ ItemDone(j, m, "failed")
        /\ UNCHANGED <<jobStatus, op, cached, hidden, protected, account, server, up, ticking, queue, history>>

\* No space left while the copy was written or verified.
CopyDiskFull(j) ==
    /\ Idle /\ pump[j] = "copying"
    /\ \/ UNCHANGED copy
       \/ \E written \in Written : copy' = [copy EXCEPT ![First(batch[j])] = written]
    /\ PauseRun(j)
    /\ UNCHANGED <<op, cached, hidden, protected, account, server, up, ticking, queue, history>>

PumpFinish(j) ==
    /\ Turn(j) /\ pump[j] = "finish"
    /\ Reconcile({j})
    /\ Goto(j, "off")
    /\ UNCHANGED <<op, protected, account, copy, server, up, batch, ticking, queue, history>>

-----------------------------------------------------------------------------
(* runOperations, suspended only while an operation is with the provider *)

OpsBegin ==
    /\ Idle /\ StartPass(op)
    /\ UNCHANGED <<jobs, op, mail, up, pumps, ticking, history>>

\* The count saturates: beyond MaxAttempts it makes no difference.
Attempted(n) == IF n < MaxAttempts THEN n + 1 ELSE n

OpStart ==
    LET o == First(opList)
    IN  /\ up /\ pass /\ runner = 0 /\ opList # {} /\ ~keepsFoldersLocally
        /\ op' = [op EXCEPT ![o].status = "running", ![o].attempts = Attempted(@)]
        /\ runner' = o /\ opList' = opList \ {o}
        /\ UNCHANGED <<jobs, mail, up, pumps, ticking, pass, history>>

\* A POP3 account has no folders at its provider: nothing is asked of it.
OpNeedsNoRequest ==
    LET o == First(opList)
    IN  /\ up /\ pass /\ runner = 0 /\ opList # {} /\ keepsFoldersLocally
        /\ op' = [op EXCEPT ![o].status = "succeeded"]
        /\ opList' = opList \ {o}
        /\ UNCHANGED <<jobs, mail, up, pumps, ticking, pass, runner, history>>

\* The messages of the account that its provider can be asked to remove.
Asked == IF keepsFoldersLocally THEN {} ELSE located

\* removalFor and removeArchivedMessages: of the messages still in the cache,
\* those that a request can name.
Targets(o) == op[o].msgs \cap cached \cap Asked

\* The provider moves or deletes them one by one.
ProviderRemoves ==
    /\ up /\ runner # 0
    /\ \E m \in Targets(runner) \cap server :
          server' = server \ {m} /\ purged' = purged \cup {m}
    /\ UNCHANGED <<jobs, op, cached, hidden, protected, account, copy, up, pumps, ticking, queue, discarded, foreign>>

\* The provider has done what was asked, which may be nothing at all.
OpSucceeds ==
    /\ Idle /\ runner # 0 /\ Targets(runner) \cap server = {}
    /\ op' = [op EXCEPT ![runner].status = "succeeded"]
    /\ runner' = 0
    /\ UNCHANGED <<jobs, mail, up, pumps, ticking, pass, opList, history>>

\* restoreOperationSnapshot puts the labels back.
Restored(o) == (hidden \ op[o].msgs) \cup (op[o].before \cap cached)

\* The request failed, or its answer was lost: retried, or given up.
OpErrors ==
    /\ Idle /\ runner # 0 /\ op[runner].msgs \cap Asked # {}
    /\ IF op[runner].attempts < MaxAttempts
       THEN op' = [op EXCEPT ![runner].status = "queued"] /\ UNCHANGED hidden
       ELSE op' = [op EXCEPT ![runner].status = "failed"] /\ hidden' = Restored(runner)
    /\ runner' = 0
    /\ UNCHANGED <<jobs, cached, protected, account, copy, server, up, pumps, ticking, pass, opList, history>>

\* The end of a pass settles the items.
OpsFinish ==
    /\ up /\ pass /\ runner = 0 /\ opList = {}
    /\ Reconcile({})
    /\ pass' = FALSE
    /\ UNCHANGED <<op, protected, account, copy, server, up, pumps, ticking, opList, runner, history>>

-----------------------------------------------------------------------------
(* Crash, restart and the world outside *)

\* A copy that was being written is there or not: the file is renamed into
\* place.
Crash ==
    /\ "crash" \notin Forbidden /\ up
    /\ \E landed \in SUBSET {First(batch[j]) : j \in {i \in Jobs : pump[i] = "copying"}},
          written \in Written :
         copy' = [m \in Messages |-> IF m \in landed THEN written ELSE copy[m]]
    /\ up' = FALSE
    /\ pump' = [j \in Jobs |-> "off"] /\ batch' = [j \in Jobs |-> {}]
    /\ ticking' = FALSE /\ pass' = FALSE /\ opList' = {} /\ runner' = 0
    /\ UNCHANGED <<jobs, op, cached, hidden, protected, account, server, history>>

\* recoverInterruptedWork; the first tick follows.
RecoveredAsDone(row) == IF row.status = "running" THEN [row EXCEPT !.status = "succeeded"] ELSE row
Recovered(row) == IF row.status = "running" THEN [row EXCEPT !.status = "queued"] ELSE row

Restart ==
    /\ ~up /\ up' = TRUE
    /\ op' = [o \in Ops |-> Recovered(op[o])]
    /\ UNCHANGED <<jobs, mail, pumps, ticking, queue, history>>

Foreign == foreign < MaxForeign /\ foreign' = foreign + 1

\* The user pins or unpins a conversation.
Protect ==
    /\ Foreign /\ "protect" \notin Forbidden /\ Idle
    /\ \E m \in cached :
         protected' = IF m \in protected THEN protected \ {m} ELSE protected \cup {m}
    /\ UNCHANGED <<jobs, op, cached, hidden, account, copy, server, up, pumps, ticking, queue, purged, discarded>>

\* The user deletes an archived message from Local Folders.
UserDeletesCopy ==
    /\ Foreign /\ "userDeletes" \notin Forbidden /\ Idle
    /\ \E m \in Messages :
         /\ copy[m] # "none"
         /\ copy' = [copy EXCEPT ![m] = "none"]
         /\ discarded' = discarded \cup {m}
    /\ UNCHANGED <<jobs, op, cached, hidden, protected, account, server, up, pumps, ticking, queue, purged>>

\* Another mail program moves or deletes the message on the server.
OtherClientRemoves ==
    /\ Foreign /\ "otherClient" \notin Forbidden
    /\ \E m \in server : server' = server \ {m}
    /\ UNCHANGED <<jobs, op, cached, hidden, protected, account, copy, up, pumps, ticking, queue, purged, discarded>>

\* Synchronization stores a message with the labels that the server has for
\* it, or drops it.  POP3 has no labels, and a message is fetched once.
Sync ==
    /\ Foreign /\ "sync" \notin Forbidden /\ Idle /\ ~keepsFoldersLocally
    /\ \/ \E m \in server : cached' = cached \cup {m} /\ hidden' = hidden \ {m}
       \/ \E m \in cached \ server : hidden' = hidden \cup {m} /\ UNCHANGED cached
       \/ \E m \in cached \ server : cached' = cached \ {m} /\ hidden' = hidden \ {m}
    /\ UNCHANGED <<jobs, op, protected, account, copy, server, up, pumps, ticking, queue, purged, discarded>>

-----------------------------------------------------------------------------
Init ==
    /\ jobStatus = [j \in Jobs |-> "none"]
    /\ item = [j \in Jobs |-> [m \in Messages |-> "none"]]
    /\ op = [o \in Ops |-> NoOp]
    /\ cached = Messages /\ hidden = {} /\ protected = {} /\ server = Messages
    /\ located \in SUBSET Messages /\ keepsFoldersLocally \in BOOLEAN
    /\ copy = [m \in Messages |-> "none"]
    /\ up = TRUE
    /\ pump = [j \in Jobs |-> "off"] /\ batch = [j \in Jobs |-> {}]
    /\ ticking = FALSE /\ pass = FALSE /\ opList = {} /\ runner = 0
    /\ purged = {} /\ discarded = {} /\ foreign = 0

PumpStep(j) ==
    \/ PumpBegin(j) \/ QueueRemoval(j) \/ FetchBatch(j) \/ CheckItem(j)
    \/ BatchDone(j) \/ PumpFinish(j)
CopyEnds(j) == CopyVerified(j) \/ CopyRejected(j) \/ CopyDiskFull(j)
OpEnds == OpSucceeds \/ OpErrors
World == Protect \/ UserDeletesCopy \/ OtherClientRemoves \/ Sync

Next ==
    \/ \E j \in Jobs : RunNow(j) \/ Cancel(j) \/ PumpStep(j) \/ CopyEnds(j)
    \/ Tick \/ TickPolicies
    \/ OpsBegin \/ OpStart \/ OpNeedsNoRequest \/ ProviderRemoves \/ OpEnds \/ OpsFinish
    \/ Crash \/ Restart \/ World

Spec == Init /\ [][Next]_vars

\* The event loop gets to every continuation that is ready, again and again
\* (strong fairness: a tick may come between), and the timer ticks.  Awaited
\* I/O ends; from some time on there is no crash and the disk has room.
Fairness ==
    /\ \A j \in Jobs : WF_vars(PumpStep(j)) /\ SF_vars(CopyEnds(j))
    /\ WF_vars(TickPolicies) /\ WF_vars(OpStart \/ OpNeedsNoRequest) /\ WF_vars(OpsFinish)
    /\ WF_vars(Restart)
    /\ SF_vars(Tick) /\ SF_vars(OpsBegin) /\ SF_vars(OpEnds)
    /\ <>[][~Crash]_vars
FairSpec == Spec /\ Fairness

-----------------------------------------------------------------------------
(* Properties *)

TypeOK ==
    /\ jobStatus \in [Jobs -> JobStatus]
    /\ item \in [Jobs -> [Messages -> ItemState]]
    /\ op \in [Ops -> OpRow]
    /\ cached \subseteq Messages /\ hidden \subseteq cached
    /\ protected \subseteq Messages /\ server \subseteq Messages
    /\ located \subseteq Messages /\ keepsFoldersLocally \in BOOLEAN
    /\ copy \in [Messages -> {"none", "good", "bad"}]
    /\ up \in BOOLEAN
    /\ pump \in [Jobs -> PumpState] /\ batch \in [Jobs -> SUBSET Messages]
    /\ \A j \in Jobs : pump[j] = "copying" => batch[j] # {}
    /\ ticking \in BOOLEAN /\ pass \in BOOLEAN
    /\ opList \subseteq Ops /\ runner \in Ops \cup {0}
    /\ purged \subseteq Messages /\ discarded \subseteq Messages /\ foreign \in 0..MaxForeign

\* A message that Aerio removed from the server is in Local Folders, whole,
\* unless the user deleted it there: whatever crashed, failed or was retried
\* between the copy, its verification and the removal.
NoLoss == \A m \in purged : copy[m] = "good" \/ m \in discarded

\* A removal that may still run and the items it settles agree: an item that
\* was skipped, was given up or was settled is in no such removal, and every
\* item that waits for a removal has exactly one.
RemovalTracked ==
    \A j \in Jobs, m \in Messages :
        /\ \A o \in Ops : (op[o].status \in {"queued", "running"} /\ op[o].job = j /\ m \in op[o].msgs)
                              => item[j][m] = "removal-queued"
        /\ item[j][m] = "removal-queued"
              => Cardinality({o \in Ops : op[o].job = j /\ m \in op[o].msgs}) = 1

\* "Done" is said of a message that a request can name only once it has left
\* the server.  (Of the others it is said while the server has them.)
DoneIsGone == \A j \in Jobs, m \in Messages : item[j][m] = "done" => m \notin server \cap Asked

\* A run that is reported completed has nothing left to do.
CompletedIsSettled ==
    \A j \in Jobs : jobStatus[j] = "completed" => InState(j, ActiveItem) = {}

\* A message that is still on the server is hidden only for a removal that is
\* under way or was made: a refused removal shows it again.
\* (Two removals of one message put each other's snapshot back.)
HiddenOnlyForRemoval ==
    \A m \in hidden \cap server : LET removals == {o \in Ops : m \in op[o].msgs} IN
        /\ removals # {}
        /\ Cardinality(removals) = 1
               => \A o \in removals : op[o].status \in {"queued", "running", "succeeded"}

\* The removal on the server never leaves a message without a whole local copy,
\* and none is hidden unless its removal is under way or done.
KeptAndShown == NoLoss /\ HiddenOnlyForRemoval

\* An item that is reported as done is gone from the server if the provider
\* could be asked for it, and a run that is reported as completed has no item
\* that still needs work.
ReportsHold == TypeOK /\ DoneIsGone /\ CompletedIsSettled

\* Every running run ends, or pauses for the user.
RunsEnd == \A j \in Jobs : []<>(jobStatus[j] # "running")

\* What the documentation says of Cancel: only removals that were queued by
\* then are made.
CancelKeepsServerCopy ==
    [][\A o \in Ops : (op[o].status = "none" /\ op'[o].status # "none")
                          => jobStatus[op'[o].job] # "cancelled"]_vars

=============================================================================
