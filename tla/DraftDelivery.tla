----------------------------- MODULE DraftDelivery -----------------------------
(***************************************************************************)
(* Drafts of a mail account and their delivery: the composer's autosave    *)
(* and Send, Undo Send, discarding, the mirror of a draft at the provider, *)
(* and the pass (processQueuedDrafts, electron/mail-worker.ts) that sends  *)
(* what is due and brings the provider up to date.                         *)
(*                                                                         *)
(* The tasks of one draft run one after the other (serializeDraft); a task *)
(* waits only for the provider, and while a task or the pass can run       *)
(* nothing else does, since the worker is one thread.  A scheduled draft   *)
(* is one that is due later.  Every draft has complete recipients and is   *)
(* not encrypted; the account is not a POP3 account; other mail programs   *)
(* leave the provider's copy alone.  A text is a number, later texts are   *)
(* greater.                                                                *)
(***************************************************************************)
EXTENDS Naturals, Sequences

CONSTANTS
    Drafts,
    MaxText,   \* bound: how many texts each draft has
    MaxTasks,  \* bound: tasks of a draft that wait
    Imap       \* sends over SMTP and then deletes the provider's draft

ASSUME DraftConstants ==
    MaxText \in [Drafts -> Nat \ {0}] /\ MaxTasks \in Nat \ {0} /\ Imap \in BOOLEAN

VARIABLES
    row,      \* gmail_drafts
    due,      \* drafts whose delivery_at has come
    chain,    \* draftQueues: the tasks of a draft, the first one running
    stage,    \* how far the request of the first task has got
    online, up,
    pass,     \* processQueuedDrafts: its phase, the rows it read, what it awaits
    editor,   \* the composer
    unused,   \* drafts that were never written
    wanted    \* history that no action reads: the text the user asked to
              \* send, until it is sent, fails or is taken back; or 0

vars == <<row, due, chain, stage, online, up, pass, editor, unused, wanted>>

Statuses == {"none", "local", "syncing", "synced", "failed", "send-pending", "sent",
             "discard-queued", "discarding"}
PassKinds == {"sweep", "sync", "deliver"}
UserKinds == {"save", "send", "cancel", "discard"}

Texts == UNION {0..MaxText[d] : d \in Drafts}
NoRow == [status |-> "none", text |-> 0, remote |-> FALSE]
Closed == [open |-> FALSE, text |-> 0, fresh |-> "none", saved |-> 0, sending |-> FALSE]
Resting == [phase |-> "idle", todo |-> {}, awaited |-> {}]

\* What a caller knows of the row it changes: nothing (no expectedUpdatedAt),
\* its present updated_at, or an older one.
Knowledge == {"none", "current", "stale"}
Task(kind, text, fresh) == [kind |-> kind, text |-> text, fresh |-> fresh]
NeverOutdated(known) == known
Outdated(known) == IF known = "current" THEN "stale" ELSE known

Runnable(d) == chain[d] # <<>> /\ stage[d] = "none"
PassRunnable == pass.phase # "idle" /\ pass.awaited = {}
Quiet == up /\ ~PassRunnable /\ \A d \in Drafts : ~Runnable(d)
Runs(d, kinds) == up /\ Runnable(d) /\ Head(chain[d]).kind \in kinds
Awaits(d, kinds) == up /\ chain[d] # <<>> /\ stage[d] # "none" /\ Head(chain[d]).kind \in kinds
Delivering(d) == Awaits(d, {"deliver"})

\* A write gives the row a new updated_at, which nobody knows yet.
Wrote(d, r, tasks) ==
    /\ row' = [row EXCEPT ![d] = r]
    /\ chain' = [chain EXCEPT ![d] =
           [i \in 1..Len(tasks) |-> [tasks[i] EXCEPT !.fresh = Outdated(@)]]]
EditorOutdated(d) == editor' = [editor EXCEPT ![d].fresh = Outdated(@)]

Waiting(tasks) == Len(tasks) < MaxTasks
Enqueued(d, task) ==
    /\ Waiting(chain[d]) /\ chain' = [chain EXCEPT ![d] = Append(@, task)]

-----------------------------------------------------------------------------
(* The composer and the list of drafts *)

Compose(d) ==
    /\ Quiet /\ d \in unused /\ ~editor[d].open
    /\ editor' = [editor EXCEPT ![d] = [Closed EXCEPT !.open = TRUE, !.text = 1]]
    /\ UNCHANGED <<row, due, chain, stage, online, up, pass, unused, wanted>>

\* openLocalDraft of a draft that does not wait for delivery.
Reopen(d) ==
    /\ Quiet /\ ~editor[d].open
    /\ row[d].status \in {"local", "syncing", "synced", "failed", "discarding"}
    /\ editor' = [editor EXCEPT ![d] = [Closed EXCEPT !.open = TRUE, !.text = row[d].text,
                                                      !.saved = row[d].text, !.fresh = "current"]]
    /\ UNCHANGED <<row, due, chain, stage, online, up, pass, unused, wanted>>

Edit(d) ==
    /\ Quiet /\ editor[d].open /\ ~editor[d].sending /\ editor[d].text < MaxText[d]
    /\ editor' = [editor EXCEPT ![d].text = @ + 1]
    /\ UNCHANGED <<row, due, chain, stage, online, up, pass, unused, wanted>>

\* saveNow, by the timer or the button.
Save(d) ==
    /\ Quiet /\ editor[d].open /\ ~editor[d].sending /\ editor[d].text # editor[d].saved
    /\ Enqueued(d, Task("save", editor[d].text, editor[d].fresh))
    /\ UNCHANGED <<row, due, stage, online, up, pass, editor, unused, wanted>>

Send(d) ==
    /\ Quiet /\ editor[d].open /\ ~editor[d].sending
    /\ Enqueued(d, Task("send", editor[d].text, editor[d].fresh))
    /\ editor' = [editor EXCEPT ![d].sending = TRUE]
    /\ UNCHANGED <<row, due, stage, online, up, pass, unused, wanted>>

\* closeComposer saves first.
CloseEditor(d) ==
    /\ Quiet /\ editor[d].open /\ ~editor[d].sending /\ chain[d] = <<>>
    /\ editor[d].text = editor[d].saved \/ row[d].status = "failed"
    /\ editor' = [editor EXCEPT ![d] = Closed]
    /\ UNCHANGED <<row, due, chain, stage, online, up, pass, unused, wanted>>

\* Undo Send, or cancelling in the outbox.
Cancel(d) ==
    /\ Quiet /\ row[d].status = "send-pending"
    /\ Enqueued(d, Task("cancel", 0, "none"))
    /\ UNCHANGED <<row, due, stage, online, up, pass, editor, unused, wanted>>

\* drafts:delete marks the row at once, whatever is in flight; offline the
\* pass does the rest, and the composer closes.
Discard(d) ==
    /\ Quiet /\ row[d].status \notin {"none", "sent", "discard-queued"} /\ ~editor[d].sending
    /\ IF online
       THEN /\ Waiting(chain[d])
            /\ Wrote(d, [row[d] EXCEPT !.status = "discard-queued"],
                     Append(chain[d], Task("discard", 0, "none")))
            /\ EditorOutdated(d)
       ELSE /\ Wrote(d, [row[d] EXCEPT !.status = "discard-queued"], chain[d])
            /\ editor' = [editor EXCEPT ![d] = Closed]
    /\ wanted' = [wanted EXCEPT ![d] = IF Delivering(d) THEN @ ELSE 0]
    /\ UNCHANGED <<due, stage, online, up, pass, unused>>

\* ... of a draft that was never stored.
DiscardUnsaved(d) ==
    /\ Quiet /\ row[d].status = "none" /\ editor[d].open /\ ~editor[d].sending /\ chain[d] = <<>>
    /\ editor' = [editor EXCEPT ![d] = Closed]
    /\ UNCHANGED <<row, due, chain, stage, online, up, pass, unused, wanted>>

-----------------------------------------------------------------------------
(* The tasks of a draft *)

\* A task ends: the next one of the draft may run, and the pass goes on if it
\* awaited this one.
Released(d) ==
    pass' = IF Head(chain[d]).kind \in PassKinds THEN [pass EXCEPT !.awaited = {}] ELSE pass
Ended(d) == Released(d) /\ stage' = [stage EXCEPT ![d] = "none"]

\* What the composer learns when its save was stored.
EditorSaved(d, succeeded) ==
    LET shown == editor[d]
        task == Head(chain[d])
    IN  editor' =
           [editor EXCEPT ![d] =
               IF ~shown.open THEN shown
               ELSE IF task.kind # "save" THEN [shown EXCEPT !.fresh = Outdated(shown.fresh)]
               ELSE [shown EXCEPT !.fresh = "current",
                                  !.saved = IF succeeded THEN task.text ELSE shown.saved]]

\* The check of saveDraft (electron/mail/database.ts).
Conflict(d) == row[d].status # "none" /\ Head(chain[d]).fresh = "stale"

SaveRefused(d) ==
    /\ Runs(d, {"save", "send"}) /\ Conflict(d)
    /\ chain' = [chain EXCEPT ![d] = Tail(@)]
    /\ editor' = IF Head(chain[d]).kind = "send" THEN [editor EXCEPT ![d].sending = FALSE] ELSE editor
    /\ Ended(d)
    /\ UNCHANGED <<row, due, online, up, unused, wanted>>

\* saveDraft (electron/mail-worker.ts): offline the text is only stored.
SaveStarts(d) ==
    /\ Runs(d, {"save", "sync"}) /\ ~Conflict(d)
    /\ unused' = unused \ {d}
    /\ LET stored == [row[d] EXCEPT !.text = Head(chain[d]).text] IN
       IF online
       THEN /\ Wrote(d, [stored EXCEPT !.status = "syncing"], chain[d])
            /\ stage' = [stage EXCEPT ![d] = "asked"]
            /\ EditorOutdated(d)
            /\ UNCHANGED pass
       ELSE /\ Wrote(d, [stored EXCEPT !.status = "local"], Tail(chain[d]))
            /\ EditorSaved(d, TRUE) /\ Ended(d)
    /\ UNCHANGED <<due, online, up, wanted>>

\* The result is written whatever the row says by now.
SaveEnds(d) ==
    /\ Awaits(d, {"save", "sync"})
    /\ \/ /\ stage[d] = "taken"
          /\ Wrote(d, [row[d] EXCEPT !.status = "synced", !.remote = TRUE], Tail(chain[d]))
          /\ EditorSaved(d, TRUE)
       \/ /\ Wrote(d, [row[d] EXCEPT !.status = "failed"], Tail(chain[d]))
          /\ EditorSaved(d, FALSE)
    /\ Ended(d)
    /\ UNCHANGED <<due, online, up, unused, wanted>>

\* queueDraftDelivery
SendQueues(d) ==
    /\ Runs(d, {"send"}) /\ ~Conflict(d)
    /\ Wrote(d, [row[d] EXCEPT !.status = "send-pending", !.text = Head(chain[d]).text], Tail(chain[d]))
    /\ due' = due \ {d} /\ unused' = unused \ {d}
    /\ editor' = [editor EXCEPT ![d] = Closed]
    /\ wanted' = [wanted EXCEPT ![d] = Head(chain[d]).text]
    /\ Ended(d)
    /\ UNCHANGED <<online, up>>

\* cancelDraftDelivery
CancelRuns(d) ==
    /\ Runs(d, {"cancel"})
    /\ IF row[d].status = "send-pending"
       THEN /\ Wrote(d, [row[d] EXCEPT !.status = IF row[d].remote THEN "synced" ELSE "local"], Tail(chain[d]))
            /\ wanted' = [wanted EXCEPT ![d] = 0]
            /\ EditorOutdated(d)
       ELSE chain' = [chain EXCEPT ![d] = Tail(@)] /\ UNCHANGED <<row, wanted, editor>>
    /\ Ended(d)
    /\ UNCHANGED <<due, online, up, unused>>

\* discardDraft
DiscardStarts(d) ==
    /\ Runs(d, {"discard", "sweep"})
    /\ IF row[d].remote
       THEN /\ Wrote(d, [row[d] EXCEPT !.status = "discarding"], chain[d])
            /\ stage' = [stage EXCEPT ![d] = "asked"]
            /\ EditorOutdated(d)
            /\ UNCHANGED pass
       ELSE /\ Wrote(d, NoRow, Tail(chain[d]))
            /\ editor' = [editor EXCEPT ![d] = Closed]
            /\ Ended(d)
    /\ UNCHANGED <<due, online, up, unused, wanted>>

DiscardEnds(d) ==
    /\ Awaits(d, {"discard", "sweep"})
    /\ \/ stage[d] = "taken" /\ Wrote(d, NoRow, Tail(chain[d]))
       \/ Wrote(d, [row[d] EXCEPT !.status = "failed"], Tail(chain[d]))
    /\ editor' = [editor EXCEPT ![d] = Closed]
    /\ Ended(d)
    /\ UNCHANGED <<due, online, up, unused, wanted>>

\* getDueDraft: the row may have changed since the pass read it.
AsListed(d) == row[d].status # "none"
StillDue(d) == online /\ row[d].status = "send-pending" /\ d \in due

\* deliverDraft
DeliveryStarts(d) ==
    /\ Runs(d, {"deliver"})
    /\ IF StillDue(d)
       THEN /\ Wrote(d, [row[d] EXCEPT !.status = "syncing"], chain[d])
            /\ stage' = [stage EXCEPT ![d] = "asked"]
            /\ EditorOutdated(d)
            /\ UNCHANGED pass
       ELSE /\ chain' = [chain EXCEPT ![d] = Tail(@)]
            /\ Ended(d)
            /\ UNCHANGED <<row, editor>>
    /\ UNCHANGED <<due, online, up, unused, wanted>>

\* The provider carries out the request in flight.
ProviderTakes(d) ==
    /\ Awaits(d, UserKinds \cup PassKinds) /\ stage[d] = "asked"
    /\ stage' = [stage EXCEPT ![d] = "taken"]
    /\ wanted' = [wanted EXCEPT ![d] = IF Delivering(d) THEN 0 ELSE @]
    /\ UNCHANGED <<row, due, chain, online, up, pass, editor, unused>>

\* transmitMessage over IMAP: the message went out, its draft is deleted next.
SmtpAnswers(d) ==
    /\ Imap /\ Delivering(d) /\ stage[d] = "taken" /\ row[d].remote
    /\ stage' = [stage EXCEPT ![d] = "answered"]
    /\ UNCHANGED <<row, due, chain, online, up, pass, editor, unused, wanted>>

DeliveryEnds(d) ==
    /\ Delivering(d)
    /\ \/ stage[d] = (IF Imap /\ row[d].remote THEN "answered" ELSE "taken")
          /\ Wrote(d, [row[d] EXCEPT !.status = "sent"], Tail(chain[d]))
          /\ UNCHANGED wanted
       \/ Wrote(d, [row[d] EXCEPT !.status = "failed"], Tail(chain[d]))
          /\ wanted' = [wanted EXCEPT ![d] = 0]
    /\ EditorOutdated(d) /\ Ended(d)
    /\ UNCHANGED <<due, online, up, unused>>

-----------------------------------------------------------------------------
(* processQueuedDrafts *)

NotYetDue == {d \in Drafts : row[d].status = "send-pending" /\ d \notin due}
QueuedDrafts == {d \in Drafts : row[d].status = "send-pending" /\ d \in due}
ListOf(phase) ==
    CASE phase = "sweep"   -> {d \in Drafts : row[d].status = "discard-queued"}
      [] phase = "sync"    -> {d \in Drafts : row[d].status = "local"}
      [] phase = "deliver" -> QueuedDrafts
Read(phase) == [phase |-> phase, awaited |-> {},
                todo |-> {[draft |-> d, text |-> row[d].text] : d \in ListOf(phase)}]

PassBegins ==
    /\ Quiet /\ online /\ pass = Resting
    /\ pass' = Read("sweep")
    /\ UNCHANGED <<row, due, chain, stage, online, up, editor, unused, wanted>>

\* The texts to synchronize are those that were read.
PassTakes(e) ==
    /\ up /\ PassRunnable /\ e \in pass.todo
    /\ chain' = [chain EXCEPT ![e.draft] = Append(@, Task(pass.phase, e.text, "none"))]
    /\ pass' = [pass EXCEPT !.todo = @ \ {e}, !.awaited = {e.draft}]
    /\ UNCHANGED <<row, due, stage, online, up, editor, unused, wanted>>

PassMovesOn ==
    /\ up /\ PassRunnable /\ pass.todo = {}
    /\ pass' = CASE pass.phase = "sweep"   -> Read("sync")
                 [] pass.phase = "sync"    -> Read("deliver")
                 [] pass.phase = "deliver" -> Resting
    /\ UNCHANGED <<row, due, chain, stage, online, up, editor, unused, wanted>>

-----------------------------------------------------------------------------
(* Time, the network, crash and restart *)

BecomesDue(d) ==
    /\ row[d].status = "send-pending" /\ d \notin due
    /\ due' = due \cup {d}
    /\ UNCHANGED <<row, chain, stage, online, up, pass, editor, unused, wanted>>

Network ==
    /\ Quiet /\ online' = ~online
    /\ UNCHANGED <<row, due, chain, stage, up, pass, editor, unused, wanted>>

Crash ==
    /\ up /\ up' = FALSE
    /\ chain' = [d \in Drafts |-> <<>>] /\ stage' = [d \in Drafts |-> "none"]
    /\ pass' = Resting /\ editor' = [d \in Drafts |-> Closed]
    /\ wanted' = [d \in Drafts |-> IF Delivering(d) THEN 0 ELSE wanted[d]]
    /\ UNCHANGED <<row, due, online, unused>>

\* recoverInterruptedWork
RecoveredToSend(r) == IF r.status = "syncing" THEN [r EXCEPT !.status = "send-pending"] ELSE r
NotRecovered(r) == r
Recovered(r) == IF r.status = "syncing" THEN [r EXCEPT !.status = "failed"] ELSE r

Restart ==
    /\ ~up /\ up' = TRUE
    /\ row' = [d \in Drafts |-> Recovered(row[d])]
    /\ UNCHANGED <<due, chain, stage, online, pass, editor, unused, wanted>>

Init ==
    /\ row = [d \in Drafts |-> NoRow] /\ due = {}
    /\ chain = [d \in Drafts |-> <<>>] /\ stage = [d \in Drafts |-> "none"]
    /\ online = TRUE /\ up = TRUE /\ pass = Resting
    /\ editor = [d \in Drafts |-> Closed] /\ unused = Drafts
    /\ wanted = [d \in Drafts |-> 0]

User(d) == Compose(d) \/ Reopen(d) \/ Edit(d) \/ Save(d) \/ Send(d) \/ CloseEditor(d)
           \/ Cancel(d) \/ Discard(d) \/ DiscardUnsaved(d)
TaskRuns(d) == SaveRefused(d) \/ SaveStarts(d) \/ SendQueues(d) \/ CancelRuns(d)
               \/ DiscardStarts(d) \/ DeliveryStarts(d)
TaskEnds(d) == SaveEnds(d) \/ DiscardEnds(d) \/ DeliveryEnds(d)
PassRuns == PassMovesOn \/ \E e \in pass.todo : PassTakes(e)

Next ==
    \/ \E d \in Drafts : User(d) \/ TaskRuns(d) \/ TaskEnds(d) \/ ProviderTakes(d)
                         \/ SmtpAnswers(d) \/ BecomesDue(d)
    \/ PassBegins \/ PassRuns \/ Network \/ Crash \/ Restart

Spec == Init /\ [][Next]_vars

\* The timer begins a pass every two seconds, tasks and the pass run as soon
\* as they can, requests end, the time of delivery comes; from some time on
\* the user is done, the network is there and there is no crash.
Calm == ~Crash /\ ~(Network /\ online) /\ \A d \in Drafts : ~User(d)
Reconnects == Network /\ online'
Fairness ==
    /\ \A d \in Drafts : WF_vars(TaskRuns(d)) /\ WF_vars(TaskEnds(d)) /\ WF_vars(BecomesDue(d))
    /\ WF_vars(PassBegins) /\ WF_vars(PassRuns) /\ WF_vars(Restart) /\ WF_vars(Reconnects)
    /\ <>[][Calm]_vars
FairSpec == Spec /\ Fairness

-----------------------------------------------------------------------------
(* Properties *)

TypeOK ==
    /\ row \in [Drafts -> [status : Statuses, text : Texts, remote : BOOLEAN]]
    /\ due \subseteq Drafts /\ unused \subseteq Drafts
    /\ chain \in [Drafts -> Seq([kind : UserKinds \cup PassKinds, text : Texts, fresh : Knowledge])]
    /\ stage \in [Drafts -> {"none", "asked", "taken", "answered"}]
    /\ online \in BOOLEAN /\ up \in BOOLEAN
    /\ pass \in [phase : {"idle"} \cup PassKinds, awaited : SUBSET Drafts,
                 todo : SUBSET [draft : Drafts, text : Texts]]
    /\ editor \in [Drafts -> [open : BOOLEAN, text : Texts, fresh : Knowledge,
                              saved : Texts, sending : BOOLEAN]]
    /\ wanted \in [Drafts -> Texts]

\* A message goes out only with the text the user asked to send, once for each
\* Send, and never after Undo Send or a discard: across retries of the pass,
\* edits, lost answers, crashes and restarts.
SentAsAsked ==
    [][\A d \in Drafts :
         (Delivering(d) /\ stage[d] = "asked" /\ stage'[d] = "taken")
             => wanted[d] # 0 /\ wanted[d] = row[d].text]_vars

\* A draft says it is being saved or sent only while that is going on, or the
\* worker is down: after a crash every such draft is put up for review.
SyncingIsAwaited ==
    \A d \in Drafts : row[d].status = "syncing" => (~up \/ Awaits(d, {"save", "sync", "deliver"}))

\* A composer that knows the stored draft has the only later text: what it
\* shows as saved is what the row holds.
EditorKnows ==
    \A d \in Drafts : (editor[d].open /\ editor[d].fresh = "current" /\ row[d].status \in {"local", "synced"})
                         => editor[d].saved = row[d].text

\* A draft marked as syncing is one that the worker awaits or recovers, and a
\* composer that will not be refused knows the text that is stored.
RowsAreTrue == TypeOK /\ SyncingIsAwaited /\ EditorKnows

\* Once the network is there, what is due does not stay in the outbox.
DueIsTried ==
    \A d \in Drafts : []<>(row[d].status # "send-pending")

\* No pass waits for ever for the task that it added to a draft.
PassEnds == []<>(pass.phase = "idle")

\* processQueuedDrafts gets every due message out of the outbox, and comes to an
\* end however the tasks of a draft and the pass wait for one another.
OutboxMoves == DueIsTried /\ PassEnds

\* Notice of the composer: the message is ready to send, and Undo takes it
\* back; nothing else does.
SendIsKept ==
    \A d \in Drafts : wanted[d] # 0 => (row[d].status = "send-pending" \/ Delivering(d))

=============================================================================
