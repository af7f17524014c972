# Aerio: TLA+ specifications

Aerio is a desktop client for mail, calendars, tasks, contacts and chat. It is an Electron
program: a main process, a renderer with the user interface, and a *mail worker*, a separate
thread that owns the mail database (SQLite) and talks to Gmail, Microsoft, IMAP, SMTP and POP3
servers. Almost everything that can go wrong in it has the same shape: a durable queue row is
changed, a provider is awaited, other code runs during the await (a command of the user, a timer,
another queue), and the result is written to a row that may no longer be what it was; or the
process ends in the middle and the next start has to make sense of what it finds.

This directory holds specifications of that core: the queues that send, move and delete mail, the
queues of chat, tasks, notes, calendars and address books, and what keeps a mailbox, a POP3
maildrop, settings and a restored profile the same on both sides. They were written from the code
under `src/`; a mapping from each definition to its lines is in `PROJECT.json` ("map").

## How to run

    tlc -workers 2 -config MCQueues.cfg MCQueues      # any module and configuration of section 3
    tlapm MailMergeProofs.tla                         # any of the eight proof modules of section 5

## 1. Inventory

### The core, modelled here

| Component | Where (`electron/`) | State it keeps | Operations | What makes it correct |
|---|---|---|---|---|
| Mail merge | `mail/mail-merge-store.ts`, `mail-merge-runner.ts` | jobs (status, next attempt, backoff), recipients (status), send log | create, pause, resume, cancel, resolve by Resend or Skip, delete; the runner's tick; the outcome of a delivery; recovery; pruning | nobody gets a message twice unless the user chose Resend; an unknown outcome stops the merge; daily cap and pace hold; nobody is starved |
| Automatic archiving | `mail/mail-archive.ts`, `mail-archive-store.ts`, `mail-archive-removal.ts` | jobs, items, removal rows in the operation queue, copies in Local Folders | start, run now, cancel, resume, tick; select, copy, verify, queue removal, reconcile | the server copy goes only after a verified local copy exists; items, removals and reports agree; every run ends |
| Operation queue | `mail-worker.ts` (`processOperations`, `runOperations`), `mail/database.ts` | rows of `gmail_operations` with a snapshot of the labels, labels of cached messages | a change of the user, undo, a pass with retries, restored snapshots, recovery, synchronization | a change is reported done only if made; only named messages are touched; a change given up is taken back; undo in time works; every change settles |
| Drafts and outbox | `mail-worker.ts` (`serializeDraft`, `saveDraft`, `deliverDraft`, `processQueuedDrafts`), `mail/database.ts`, `src/components/MailComposeModal.tsx` | draft rows, the chain of tasks per draft, the composer's text and the version it knows | save, send, Undo Send, discard, the pass, recovery | what goes out is what the user asked for, once, never after it was taken back; no draft waits for ever |
| Mailbox synchronization | `mail-worker.ts` (`syncAccount`, `downloadInventory`, `applyGmailHistory`, `syncGmailScope`) | inventory items, cached messages, page token, two history checkpoints | first inventory, download, catching up, incremental history, expiry, rebuild | no change of the mailbox is passed over for good; a message is new once; the cache becomes the mailbox |
| Reply watches | `mail/reply-watches.ts` | watches, cursor over stored rows, header ids | set, activate with the sent draft, pass, expire, restart | a stored reply ends the watch; it runs out only after a synchronization that would have shown the reply |
| POP3 | `mail/pop3-sync.ts`, `pop3-store.ts` | UIDLs with their state, copies, retention policy | session from list to QUIT, policy change, emptying the Trash | nothing leaves the maildrop before it is on disk; nothing is downloaded twice |
| Chat outbox | `chat/outbox.ts`, `chat-store.ts`, `chat-service.ts` | items with state, room, device, dependency; held rooms | queue, drain, request, echo, cancel, retry, prune, sign in, recovery | each message once, in the order of its room, after what it is about; never blindly again |
| Tasks | `productivity/task-store.ts`, `task-sync-engine.ts` | change rows with revision and dependency | edit, complete, undo, pass, uncertain writes and their review, restored backups | a change is carried out once, never over an unseen version, a successor after its completion |
| Task lists | `productivity/task-list-queue.ts` | list changes, placeholders of lists to be created | create, rename, delete, match, confirm, pass | one list per creation; no list is deleted over changes that wait |
| Calendars and address books | `productivity/dav-service.ts`, `dav-sync.ts`, `dav-store.ts` | queue of edits with entity tags, cache, sync token | edit, delete, pass, pull by pages, review | no edit is lost or applied over an unseen version; the token passes no change |
| Server notes | `productivity/server-notes-service.ts`, `-store.ts`, `dav-notes.ts` | note records, one queued change per note | edit, delete, move, pass, pull, three resolutions | both texts of a conflict survive; a move deletes its source last |
| Settings synchronization | `settings-sync.ts`, `settings-sync-data.ts` | settings, checkpoint, import journal, shared file | capture, compare, put, review, import, recovery | no edit is taken without a review of just these versions; devices agree in the end |
| Profile restore | `profile-backup.ts` | journal, staged, live and rolled-back entries | stage, swap, roll back, outcome | the profile that opens is whole, the old one or the new one |

How they interact. Merges, archiving, operations, drafts, synchronization, watches and POP3 live on
the one thread of the mail worker and share its database; none of them may run while another is
between two of its awaits. The archiving puts its removals into the operation queue and reads their
outcome from its rows (`reconcileRemovals`); duplicate cleanup and reply filing put rows into the
same queue. A pass over the operations is followed by a pass over the drafts (`runOperations` ends
by calling `processQueuedDrafts`). A merge does not use the outbox: its runner delivers by itself,
through the same provider functions. Synchronization overwrites the cached labels the queue has
changed, and the mail it stores is what reply watches look through. Tasks and task lists share one
lane of the task service, lists first. Notes, calendars and address books, chat and settings live in
the main process and share nothing but the timer that starts them. A profile backup copies the
databases of all of them; a restore replaces these before any is opened, holds the merges and puts
the uncertain writes of the other queues up for review.

### The other components

What each keeps and does, which behaviour of it is hard, and what would make it correct. The
status of each is in `PROJECT.json` ("components"), the hazards at their lines under "hazards".

| Component | State and operations | Hard behaviour | Correct when |
|---|---|---|---|
| Synchronization of Microsoft and IMAP (`mail/microsoft-client.ts`, `imap-client.ts`) | delta links, UID ranges | a cursor expires between pages | as for Gmail |
| Import and Local Folders (`mail/mail-import.ts`, `local-mail-store.ts`) | import jobs, offsets, fingerprints | an interrupted import is resumed | each message is imported once |
| Offline download (`mail/offline-download.ts`, `offline-store.ts`) | queue of bodies and parts, budget of bytes | the budget changes while a part is awaited | what is stored stays under the budget; every wanted body arrives |
| Rules, categories, automatic replies (`mail/rule-ledger.ts`, `server-rules.ts`, …) | ledger of messages a rule was run on | the claim survives a crash, the action may not have | a rule acts at most once per message |
| Folder management (`mail/folder-management.ts`) | folder tree | the provider's answer is followed by a local update, and a synchronization may come between | the tree is the provider's |
| Shared mailboxes (`mail/mailbox-owner-*.ts`) | owners, rights | a row of the operation queue outlives the right to it | as for the operation queue |
| Worker client (`mail/worker-client.ts`) | requests without an answer | the worker ends | each request is answered once |
| Credentials (`mail/oauth-vault.ts`) | tokens | refresh by two callers at once | one refresh, and the newest token is kept |
| Reminders and recurrence (`productivity/task-recurrence.ts`, `src/lib/recurrence.ts`) | timers | boundaries of months, counts and exceptions | the expansion is the rule's |
| Meetings (`productivity/meeting-coordinator.ts`) | a hosted meeting and its event | the second of two steps fails | no meeting without event, no event without meeting |
| Attachment index (`mail/attachment-text-indexer.ts`) | queue of parts | can be rebuilt at any time | every part is indexed or given up |
| Calendar and contacts of Google, Microsoft, Exchange | one cache, three formats | checkpoints as for mail | the cache follows the service |
| Contact merge, interchange, subscriptions | journals of what was removed | undo after later edits | undo brings back what was removed |
| Cryptography (`mail/openpgp-*.ts`, `smime-*.ts`), AI assistance, directory, MCP server, system integration, proxy, helpers, shared libraries, main process, user interface, mobile companion | small caches, formats, adapters | little of it is a protocol of several steps | – |

### What is hard in this code

* **State read before an await and used after it.** `runOperations` walks rows that it read before
  its first request; `processQueuedDrafts` keeps the texts it read; `copyPending` marks an item
  copied that Cancel has skipped meanwhile; `downloadInventory` goes on from a page token with a
  history id that is newer than the pages; a delivery of a merge ends in a job that was paused,
  cancelled or skipped during it; a synchronization of settings awaits four parties while the user
  goes on editing.
* **Lost answers.** A request may have been carried out although it failed for the worker. A merge
  puts such a recipient up for review, and so do tasks; the operation queue repeats the request,
  chat repeats it with its transaction id, DAV and notes repeat it with its condition, a draft
  becomes `failed`, a POP3 session asks the maildrop.
* **Crashes.** A committed row says `sending`, `running`, `syncing` or `removal-queued` when the
  process ends. Every component has its own recovery, and a restored backup is one more way to go
  back in time.
* **Derived states.** The status of a merge is derived from its recipients; an archiving run is
  complete when its items are settled, and these follow operation rows that another pass writes.
* **Two checkpoints for one truth.** Page token and history id, cursor and rowid, sync token and
  cache, digest of the shared file and local settings.
* **Pace and turn.** Rolling caps, backoff and spacing write the same column; one runner serves
  the oldest merge first; a room that is held must not hold up the others.

## 2. The modules

    DeliveryPermits         what a merge promises a recipient          (abstract)
      ^ implemented by
    MailMerge               the merge queue and its runner
      ^ extended by
    MailMergeBackup         + backup and restore of the profile
    MailArchive             archiving, with the removals of the operation queue
    OperationQueue          changes to a conversation, undo, passes, retries
    DraftDelivery           composer, tasks of drafts, outbox, the pass
    MailSync                a Gmail mailbox: inventory, history, checkpoints
    ReplyWatch              watches for the reply to a sent message
    Pop3Session             sessions with a POP3 maildrop, retention
    ChatOutbox              the outgoing messages of a chat account
    TaskQueue               changes of provider tasks and their engine
    TaskListQueue           changes of task lists and their lane
    DavCollection           a calendar or address book: queue and pulls
    ServerNotes             notes of a server: queue, pulls, conflicts, moves
    SettingsSync            devices that share their settings through one file
    ProfileRestore          the swap of a restored profile and its journal

    DeliveryPermitsProofs, MailMergeProofs, OperationQueueProofs, MailArchiveProofs,
    DraftDeliveryProofs, ChatOutboxProofs, QueuesProofs, KeepingProofs                proofs
    MCMailMergeBackup, MCOperationQueue, MCDraftDelivery                              instances
    MCOutgoing, MCQueues, MCKeeping                                                   composites

**Atomicity.** JavaScript runs to completion between two awaits, and every write is a committed
SQLite statement or transaction. Where nothing can tell the writes of one such stretch apart, the
stretch is one action (`TickClaim`, `SaveStarts`). Where a crash may fall between them, each write
is an action of its own, and a guard (`Busy` in `MailArchive`, `Idle` in `OperationQueue`, `Quiet`
in `DraftDelivery`) lets nothing but that stretch, the crash and the outside world go on until it
awaits again.

**The provider** is modelled from how the worker uses it: it carries out a request once, at any
time between its start and its end or a crash (`ProviderAccepts`, `ProviderRemoves`,
`ProviderApplies`, `ProviderTakes`, `HomeserverTakes`), and the worker may see success only after
that, and an error at any time.

**Composites.** `MCOutgoing`, `MCQueues` and `MCKeeping` check several components in one run. The
components of a composite share no state, so the variable `active` picks the one whose behaviour
this is: the product of components that do not interact would show nothing more, and the sum of
their states stays small. A composite EXTENDS its first component, and takes the others by INSTANCE
(`Tasks!`, `Lists!`, `Pop!`, `Restore!`, `Dav!` in `MCQueues`; `Notes!`, `Watch!`, `Settings!` in
`MCKeeping`). The constants of the parts are constants of the composite and get their values in its
configuration, so that `QueuesProofs` and `KeepingProofs`, which extend the two composites, prove for
all values what the run checks for those. `AllSpec` is the composite without fairness, about which the
theorems are, `AllFairSpec` the same with it, which the runs use.

**`Disturbed`.** Where the code is known to go wrong in a case (the disagreements of section 3), the
case is guarded by a constant of that name. The runs whose properties must hold leave it empty, and
the text below says what each of its members breaks.

### MailMerge (`MailMergeBackup`)

`jobStatus`, `wait`, `backoff` are columns of `mail_merge_jobs`, `rcpt` the status column of
`mail_merge_recipients`, `sendLog` the table `mail_merge_send_log`, `inFlight` the delivery that
`tick()` awaits. Time is relative: `wait` is what is left until the next attempt and the send log
counts deliveries by age, so the clock needs no bound. `backoff` is the delay itself and not its
exponent. Each command is an action of its name; `TickClaim` is `tick()` up to its await,
`MarkSent` … `RequeueNotSubmitted` are the outcomes of `deliver()` with `finishWith`, `Restart`
is `recoverInterrupted` and `pruneSendLog`. History variables count what the provider accepted and
what the user asked for.

`MailMergeBackup` adds one copy of the tables, taken at any time, held as
`holdMailMergesForRestore` holds it, and put back while the worker is down. The send log of the
copy is as old as the copy, so deliveries after the backup no longer count against the daily cap:
`DailyCapHolds` is therefore checked without restores.

Left out: the text of messages and CSV columns, a failure of `buildMergeDelivery` (the message was
built when the merge was created), accounts that are deleted with their merges, a second account
(caps and turns are per account).

### MailArchive

`item` is `mail_archive_items.state`, `op` the removals in `gmail_operations` with the messages
that were hidden before (the snapshot). `keepsFoldersLocally` and `located` say of which kind the account
is: for POP3 the queue marks a removal as succeeded and sends nothing (`OpNeedsNoRequest`), and otherwise
a request names the messages in `located`, which are all of Gmail and Microsoft, over IMAP those with a
folder and a UID, and none of Exchange, whose item ids are no UIDs (`mail-archive-removal.ts:48`). Both are
chosen freely and stay as they are. `pump` the place in `copyPending` of each run, `batch`
what is left of its `REMOVAL_BATCH`, `pass`, `opList`, `runner` a pass of `runOperations`.
`protected` stands for pins; stars and unread marks exclude a message in the same way.
Environment events – other mail programs, the user in Local Folders, synchronization, pins, a
corrupt write – are actions that an instance may leave out by its constant `Forbidden`.

Whether a policy or a rescheduled operation is due is a free choice. Attempts saturate at the
limit. A copy that a crash interrupts is taken to be whole or absent. Left out: editing policies,
the arithmetic of schedules and cutoffs, the preview, pruning of old run records, undo of a removal
(the interface does not offer it).

### OperationQueue

`labels` are the cached labels, `remote` those at the provider, `op` the rows with kind, message
ids, snapshot and attempts. `ApplyLocalAction`, `Undo`, `OpsBegin`, `OpStart`, `OpSucceeds`,
`OpErrors`, `OpsFinish` are the code's functions and the steps of its pass. `OfferedByToast` and
`OfferedByJournal` are the two places that offer an undo. `Request` is what
`removalFor` makes of a row that names messages. Left out: pins, moves between folders, shared
mailboxes (whose requests are made in the name of their owner), more than one conversation, POP3 accounts
and Local Folders (no request is made), and messages that a request cannot name: a row that names only
such messages succeeds without one, as in the archiving.

### DraftDelivery

`row` is `gmail_drafts`, `chain` the promises of `draftQueues`, `stage` how far the first task's
request is, `editor` the composer with the `updated_at` it knows, `pass` the phase of
`processQueuedDrafts`. Texts are numbers. A discard stops what has not begun; a delivery that is under way at
that time goes on, in the code and here. Left out: POP3 accounts, encrypted drafts, incomplete
recipients, attachments, drafts changed by another program, edits through the automation server,
the delay of messages between processes. A scheduled draft is one that becomes due later. The
status `queued`, which the worker never writes, does not appear.

### MailSync

`remote`, `log`, `floor` are the mailbox, its history and how much of it has expired; `cache` is
`gmail_messages`, `items` `gmail_sync_items`, `checkpoint` the page token, the history id of the
inventory and that of the account, `sync` the running `syncAccount` with what it holds in memory:
`ListPage`, `Download`, `HistoryPage`, `Fetch`, `FullSyncEnds`, `IncrementalEnds` are its steps. A page
of the listing is one message, a page of the history any number of records; the mailbox may change
between any two steps. `Disturbed` may hold `break` (a first inventory is broken off while it lists:
`sync_resume`), `rebuild` (a rebuild is asked for during a synchronization: the one that runs then
saves its checkpoint over a cleared inventory, `CheckpointCovers` fails) and `expiry` (the history id
of the first inventory expires before it is used: the first synchronization fails from then on,
`CacheFollows` fails). Left out: offline policies and windows, pauses, changes made in Aerio, several
accounts at once, and the synchronizations of Microsoft and IMAP.

### ReplyWatch

`watch` is the row of `mail_reply_watches`, `rows` the stored mail by rowid, `draft` what became of
the outgoing message, `watchSync` a running synchronization, `syncEnabled` whether the account
synchronizes at all. A pass looks at the first `ScanBatch` rows after its cursor, and may let the
watch run out while further ones are unread. A watch of an account that is archived or does not
synchronize runs out right at its deadline (`reply-watches.ts:90`). To set a watch again moves its
deadline, which is always in the future: time then starts again at 0. `createForDraft` would take a
draft whose delivery is under way, but it meets none: it runs in the draft's turn (`serializeDraft`,
`mail-worker.ts:1943`), as does every delivery (`1407`, `1412`), and recovery leaves no draft
`syncing`. `Mail` names the copy in Sent, an answer, an aside in another conversation and a
stranger's message; `Known` what the provider tells of what was sent. `Disturbed`: `overlap` (a
synchronization that began before the deadline ends after it), `early` (mail is stored before the
answer to the sending is taken in) and `reuse` (the newest row is removed and its rowid given
again). Left out: several watches of one message, watches without a deadline and the list of overdue
watches.

### Pop3Session

`maildrop`, `copy` and `row` are the server, Local Folders and the table of UIDLs, `flushed` what a
loss of power would leave, `session` the phase of `runPop3Sync`. DELE takes effect with QUIT, whose
answer may be lost; a message may be one that can never be retrieved. Left out: removal by age, a
destination in Local Folders, sent copies. A loss of power loses all commits since the last flush or
none.

### ChatOutbox

`item` is the table of outgoing items with state, kind, device and the item it is `after`, `drain` the
running drain, `canSend` whether the account is connected, `held` the rooms that wait, `log` what the
homeserver stored. The homeserver stores a transaction of a device once. `Enqueue`, `Cancel`, `Retry`,
`ReleaseHold` are commands, `Echo` is the synchronization that meets the item's own event, `Prune`
retention, `Restart` the recovery that puts what was being sent up for review, `SignIn` a new device.
Left out: media uploads, edits in place (a reaction stands for them), contents, other providers.

### TaskQueue and TaskListQueue

`ops` and `changes` are the rows of the two queues, `request` and `call` what the lane awaits,
`known`, `cached`, `shown` the local side, `applied` and `done` history variables that count what
the provider carried out. A revision is a number that every write increases. Task 2 is the successor
of task 1 and is created by completing it; all lists created in Aerio bear the same title, the worst
case for matching. The user confirms truthfully that a write was not carried out. A CalDAV server
makes a list with one request and describes it with a second; when the second is refused, the
creation that was carried out counts as refused, and is sent again (`DescriptionRefused`;
`undescribed` counts these). Left out: subtasks, moves between lists, permissions and the fields of
a task, and requests that follow a write of a task: Microsoft reads a task after its change
(`microsoft-tasks-connector.ts:135`, `187`) and CalDAV after a change without a tag in its answer,
so that a refused read makes a change that was carried out `queued` or `failed`; nor does a renaming
over CalDAV carry a revision.

### DavCollection

`davServer` with its `log` of changes is the collection, `cache` and `token` the local copy, `op` the
queued write of an item with the tag it is based on, `work` the pass or pull that `exclusive()` lets
run. Writes are conditional (`If-Match`, `If-None-Match`), pulls go page by page and start over when
the server has forgotten the token. `Disturbed`: `editor` and `review` (a pull brings a newer version
while an editor or a review is open, and the older tag is then replaced by the newer one). Left out:
formats, discovery, servers without tags or tokens, recurring instances, collections that vanish.

### ServerNotes

`notesServer` maps addresses to texts with revisions, `record` is the local note, `op` its queued
change, `work` the pass or pull, `moving` a move to be completed, `owed` (history) what the user
saved and has neither replaced nor given up, `seen` what the user had in view. `Disturbed`:
`inflight` (a note is changed while its request is awaited), `retried` (a new note is changed that
the server has without our knowing), `moved` (a note is changed that is being moved) and `twin` (a
synchronization or a refusal comes before such a new note is confirmed). `PutOff` and `Storable` are
the restriction by `twin` and the unique index of addresses. Other clients do not change a note
while it is moved. Left out: display state, attachments, sign-in, vNote files, folders that vanish.

### SettingsSync

`local` are a device's settings in two parts (main process and mail worker) as sets of edits, `file`
the shared file, `checkpoint` the last common state, `journal` an import under way, `phase` and
`review` what the user sees, `work` the running synchronization. Clocks may be behind (`Slow`).
`Disturbed`: `forgotten` (who deletes the shared file wants its edits kept; the import of the file
that another device then publishes takes them away without a review) and `refused` (after an import
that stopped half way the user takes the shared version again; that import overwrites the journal,
and when it is refused with the device as it was, the journal is removed although half of the first
import is still there: `settings-sync.ts:180`–`189`). Left out: encryption, validation, the mapping
of accounts, a change of the passphrase.

### ProfileRestore

`live`, `staging`, `rollback` hold the entries of the profile at three places, `journal` is the file
that says how far the swap is, `stage` the step of the launch. Each rename and each write of the
journal is a step and may fail or be the last one before the process ends. Left out: what
`prepareRestore` changes in the copies, checksums, and a file system that loses renames, a journal
that cannot be written and a roll-back whose remains cannot be removed at a launch.

## 3. The runs

`Spec` in a configuration means safety only; `FairSpec`, and the specifications of the composites, add
the fairness of section 4. Deadlock is checked where the system can always go on; the composites and
the runs with a violation say `CHECK_DEADLOCK FALSE`, because their bounded histories end.

| Run | Configuration | Instance | Checks | States |
|---|---|---|---|---|
| `merge_safety` | `MCMailMergeBackup.cfg` | 1 merge, 2 recipients, cap 1, one Resend, one backup | `TypeOK`, `AtMostOnce`, `ReportsAreTrue`, `ReviewStopsMerge`, `SpacedUnlessNudged`, `KeepsPermits` | 914 140 |
| `archive_live` | `MailArchive_live.cfg` | 2 messages, any of them located, an account of POP3 or not, 1 run that moves to the Trash in batches of 2, 2 attempts, one event from outside | `KeptAndShown`, `RemovalTracked`, `ReportsHold`, `RunsEnd` | 274 308 |
| `draft_sent` | `MCDraftDelivery_sent.cfg` | 2 drafts over IMAP, one waiting task each | `RowsAreTrue`, `SentAsAsked` | 656 767 |
| `outgoing` | `MCOutgoing.cfg` | queue: 2 messages, 2 changes, 2 attempts; merges: 2 with caps 2 and 1, one recipient each; draft: one, IMAP, 3 texts, 3 waiting tasks | `ReportsAreReal`, `RequestsAreWanted`, `GivenUpIsTakenBack`, `ChangesSettle`, `DailyCapHolds`, `MergesMove`, `OutboxMoves` | 271 535 |
| `queues` | `MCQueues.cfg` | chat: 2 items in one room, 2 lost answers, 2 devices; tasks: 3 changes, 2 attempts, one change by others, one fault; lists: 5 lists, 2 changes, 2 attempts, 2 faults; POP3: 2 mails, 2 troubles; restore: 2 entries, 2 restores, 2 accidents; DAV: 2 items, one of them there at first, one foreign change, one mishap | `RoomIsRight`, `ChatMoves`, `QueueIsSound`, `TaskChangesMove`, `ListsAreRight`, `ListChangesInTime`, `SidesAgree`, `DownloadedOnce`, `ProfileIsWhole`, `RestoreSettles`, `CollectionIsSound`, `CollectionMeets` | 380 904 |
| `keeping` | `MCKeeping.cfg` | mailbox: 3 messages, 2 of them there at first, 2 changes, one failure; notes: one note, one foreign change, 2 edits, 3 texts, one lost answer; watch: a copy, an answer and an aside, 2 rows, read one in a pass, one restart; settings: 2 devices, 2 edits, one mishap, 2 events | `SyncIsSound`, `CacheFollows`, `EditsKept`, `ServerIsKept`, `NotesSettle`, `ExpiresUnanswered`, `WatchesEnd`, `SettingsKept`, `DevicesAgree` | 525 657 |
| `archive_cancel` | `MailArchive_cancel.cfg` | 1 message, 1 run | violates `CancelKeepsServerCopy` | |
| `queue_request` | `MCOperationQueue_request.cfg` | a label on a single message | violates `RequestIsTheChange` | |
| `draft_kept` | `MCDraftDelivery_kept.cfg` | 2 drafts, one text, 2 waiting tasks | violates `SendIsKept` | |
| `dav_keep` | `DavCollection_keep.cfg` | one item | violates `ConflictsAreNew` | |
| `sync_resume` | `MailSync_resume.cfg` | `Disturbed = {"break"}` | violates `CheckpointCovers` | |
| `notes_copy` | `ServerNotes_copy.cfg` | one new note, one lost answer | violates `OneCopy` | |

Properties of one component that a run checks together are joined under one name, which is the
conjunction of the parts that its module states and explains: `KeptAndShown` is `NoLoss` and
`HiddenOnlyForRemoval`; `ReportsHold` is `DoneIsGone` and `CompletedIsSettled` with the types;
`RowsAreTrue` is `SyncingIsAwaited` and `EditorKnows`; `RequestsAreWanted` is `OnlyTargetsTouched` and
`UndoInTimeIsNeverSent`; and so on in the composites.

### What they show, and why the bounds are enough

**Mail merge.** `AtMostOnce`: whatever order of commands, answers, crashes and restores, the
provider accepts a recipient's message at most once per wish of the user, where Resend is a wish.
`KeepsPermits` says the same of every single step: it implements `DeliveryPermits`, in which a
submission uses up a permit that only a proven refusal gives back. `ReportsAreTrue` relates the
derived status of the merge to its rows and `sent` to the provider; `ReviewStopsMerge` says that an
unknown outcome stops the whole merge. Two recipients are needed so that one can be ambiguous while
the other waits, one Resend so that the second delivery of a row can meet every first one; backup
and restore may fall anywhere. `Gap`, `Day` and the backoff are one unit of time, enough to tell
"due now" from "later" and "in the window" from "out of it". `DailyCapHolds` and `MergesMove` are
checked in `outgoing` with two merges of different caps, because turns, deferral and a cap that one
merge reaches and the other does not need two.

**Archiving.** `NoLoss`: a message whose server copy Aerio removed is in Local Folders, whole,
unless the user deleted it there. `RemovalTracked` ties items to operation rows, `DoneIsGone` the
report to the server, for what a request can name (see below for the rest), `CompletedIsSettled` the
report to the items. The run has corrupt and full disks, lost answers, retries, crashes everywhere
and one event from outside. Before the kinds of account were added, its properties were also checked
for two runs over two messages (no corrupt writes; 4.3 million states), two runs over one message
with three events (0.3 million), and one run with two events (0.5 million). `HiddenOnlyForRemoval`
excepts messages that two removals name, since these put back each other's snapshot.

`NoLoss` is claimed where runs cannot disturb each other's copies (`OneCopier`: one run, or no corrupt
writes). Two runs that copy one message at once (possible through the cancellation described below) use
one local message id; when one of them finds its copy corrupt, it deletes it
(`mail-archive.ts:344`–`349`), and with it the copy that the other run has verified.

**Operation queue.** Two messages tell a change of the conversation from a change of one message,
two changes give an undo its inverse and a pass two rows, two attempts a retry and a giving-up.
`GivenUpIsTakenBack` is stated for a change that no other change is mixed with: with others the
snapshot brings back labels that have changed since, until the next synchronization.

**Drafts.** `SentAsAsked`: a message goes out with the text the user asked to send, once per Send,
and never after Undo Send or a discard. Two drafts are needed for the pass that delivers one while the
user changes the other; one draft with three texts and three waiting tasks, in `outgoing`, reaches
every order of save, send, cancel and discard around a running request, with liveness. `EditorKnows` is
the optimistic concurrency of the composer. Two symmetric drafts with two texts were checked once (1.7
million states).

**Synchronization and watches.** `CheckpointCovers`: what the cache misses or has too much is in the
part of the history that is still to be read, or in the inventory still to be downloaded; so no change
is passed over. Three messages, two changes and one failure make a page come before, between and after
a change and an expiry; the inductive invariant of section 5 was checked for three changes and two
failures as well (2 million states). `ExpiresUnanswered`: a watch that
runs out less than a day after its deadline, in an account that synchronizes, does so only when every reply
that came in time is stored. `ScanBatch` is 1, so that a pass leaves a row unread.

**Chat.** `RoomIsRight` relates the homeserver's log to the outbox: each message once, in the order
of its room, after the message it is about. Two items in one room give order and dependency, two lost
answers a repeated doubt, two devices a new session with the other's leftovers; checked with three
items for the proof (2.7 million states).

**Tasks and task lists.** `CarriedOutOnce`, `SuccessorIsDue` and `NoOrphan` relate what the provider
carried out to the chain of changes; `NothingOverwritten` is about the revision the user had seen.
`OneCreationPerList` and `NoTaskStranded` need two lists of one title that may be confused, and a task
edit that waits while its list is deleted. `ListChangedOnce` allows a creation one more list for each time the
server made one and refused to describe it. Five lists are the one there is at first, one for each of two
creations, and one for each of two faults, so that the provider never lacks a place for a list.

**Calendars, address books, notes.** A foreign change and a lost answer at any place are the two things
that optimistic concurrency has to stand; two items are needed to have a pull that stands between
them. Two foreign changes, two mishaps and three edits were checked for each alone (up to 6.5 million
states for two items).

**Settings, POP3, restore.** Two devices, two mails of which one may be one that
can never be retrieved, and two entries with two accidents (one may hit the recovery of the other) are the
least that has the interesting interleavings. POP3 with three, and
settings with two mishaps, were checked alone, and `keeping` once with one clock behind (620 827 states).

### Disagreements of code and documentation

Each has a run that TLC finds violated, and an entry under "findings".

1. `archive_cancel`. Cancel during the copy of a message settles its item as skipped; when the copy
   ends, `markCopied` overwrites it and `queueCopied` queues its removal without looking at the run's
   status (`mail-archive.ts:278`, `296`). `docs/automatic-archiving.md:91` says that every message
   whose removal was not queued keeps its server copy. The message is in Local Folders all the same
   (`NoLoss`).
2. `queue_request`. `removalFor` takes any row that names messages for a removal
   (`mail-archive-store.ts:485`); reply filing queues labels and moves of single messages, and undo
   an untrash of single messages, and both are sent as Move to Trash.
3. `draft_kept`. The pass synchronizes drafts that it read as `local`; one that was sent meanwhile
   becomes `synced` and leaves the outbox unsent (`mail-worker.ts:1410`).
4. `dav_keep`. To keep the local side of a creation that was refused stores the server's tag but sends
   `If-None-Match: *` again (`dav-service.ts:656`), and is refused for ever; `docs/caldav-carddav.md:75`
   says `If-Match`.
5. `sync_resume`. A first inventory that is interrupted between two pages goes on from its page token
   with a newer history id (`mail-worker.ts:511`), and what changed between is never seen;
   `docs/live-provider-test-matrix.md:33`.
6. `notes_copy`. A created note whose answer was lost is taken over by the next pull under another id;
   to send it again makes a second copy (`server-notes-service.ts:494`); `docs/server-notes.md:105`.

Seen while modelling, without a run. Mail:

* Resume and Resend set the next attempt to now, so the next message may follow the last at once
  (`mail-merge-store.ts:347`); `docs/mail-merge.md:65` has submissions spaced whatever their outcome.
  `SpacedUnlessNudged` excepts these two commands.
* A delivery that was not submitted puts its row back to `pending`, also in a merge that was
  cancelled during it (`mail-merge-store.ts:288`); `docs/mail-merge.md:103` has Cancel mark every
  unsent message. The row is never sent.
* A removal of archived messages of Exchange or POP3 is reported as done although nothing is asked of the
  server (`mail-archive-removal.ts:48`, `mail-worker.ts:1034`), and so is that of an IMAP message without a
  UID; after a permanent deletion the cached copy is dropped as well. `docs/automatic-archiving.md:68` has the
  message live only in Local Folders then.
* A full disk turns a run that was cancelled during the copy into a paused one (`mail-archive.ts:268`).
* A change that is undone while a pass awaits another one is sent all the same (`mail-worker.ts:1024`).
* A change that is retried is overtaken by the next one of the conversation (`mail-worker.ts:1102`);
  `docs/mail-quick-actions.md:29` has the steps of a quick action run in order.
* The result of a save is written over a discard that was marked during it (`mail-worker.ts:1281`).
* A draft left `discarding` by a crash is not recovered (`database.ts:1335`).
* Over IMAP a failed deletion of the provider's draft reports a delivered message as failed
  (`mail-worker.ts:1330`).
* A later text may be overwritten by the one the pass had read (`mail-worker.ts:1410`).
* When the answer to the creation of a provider draft is lost, the next save creates a second one.
* A rebuild during a synchronization (`mail-worker.ts:933`, `2075`) and a history id that expires during
  the first inventory (`543`, `575`): the members `rebuild` and `expiry` of `MailSync`'s `Disturbed`.
* Mail that was stored by a synchronization that then failed is never handed on as new (`398`,
  `641`–`655`).
* A message whose RETR always ends the connection holds up all later ones (`pop3-sync.ts:148`).
* A watch runs out although a reply is stored, when more than 500 rows are unread that no other pass has
  looked at (`reply-watches.ts:291`, `322`); and at its deadline, without a last look at the server, when its
  account does not synchronize (`90`).
* `ReplyWatch`: a watch runs out by a synchronization that began before its deadline
  (`reply-watches.ts:91`); a reply that is stored before the sending's answer is taken in is looked at
  too early (`mail-worker.ts:1329`); a rowid that is given again is behind the cursor
  (`reply-watches.ts:250`, `291`).

Other components:

* Chat: an item whose room becomes free during a drain by Retry or a released hold waits for the next kick
  (`outbox.ts:92`–`113`), as after Cancel and Prune; an item whose request was lost may be edited or
  cancelled although it was sent (`outbox.ts:53`); retention deletes a sent item that a pending one is
  about; the error of an awaited request is written over a `sent` that an echo has set (`150`).
* Task lists: a CalDAV list that was made but not described is made a second time, under another address
  (`caldav-tasks.ts:239`, `task-sync-engine.ts:96`); `docs/task-provider-integration.md:61` has
  ambiguous list writes never replay.
* DAV: an open editor or review takes over the tag of a version it does not show (`dav-service.ts:511`,
  `567`, `641`; the members `editor`, `review`); a collection that is switched off during a pull is
  switched on again (`338`); a creation whose answer was lost and that is then deleted stays on the
  server (`518`).
* Notes: a note that is changed during its request (`server-notes-service.ts:463`, `489`), after a lost
  creation (`dav-notes.ts:302`) or during a move (`server-notes-service.ts:499`, `802`): the members
  `inflight`, `retried`, `moved`; "keep the server's" can fail on the unique index of addresses.
* Settings: who deletes the shared file has its own edits replaced without a review by the file that
  another device publishes next (`forgotten`; `docs/settings-sync.md:13`). The journal of an import that
  stopped half way is removed by a second import that is refused (`refused`, `settings-sync.ts:187`), and
  the next synchronization takes the half for edits of the user; `docs/settings-sync.md:11` has the journal
  flag such imports.
* Restore: when renaming the staged entries back or writing the outcome fails
  (`profile-backup.ts:538`, `540`), the program starts with a journal that says `swapping`
  (`main.ts:2419`), and the next launch rolls back what was done since.

## 4. Fairness, and why the code justifies it

* Timers: the merge runner ticks every second, the worker begins its passes every two seconds, the
  archiving, chat, tasks, notes, DAV and settings have timers or kicks of their own. A tick is weakly
  fair where it stays possible, and strongly fair where other passes get in between (`OpsBegin` for
  each waiting row, since a rescheduled row becomes due within minutes, again and again; the waits of
  notes; the turns of DAV, whose `exclusive()` serves in order).
* A request ends: HTTP requests and SMTP and IMAP connections fail after the timeouts of their
  libraries, so answers are weakly fair (in the archiving strongly, since other stretches of code get
  in between). A merge's recipient is not rate limited for ever: one of the other four outcomes is
  strongly fair.
* A pass that can run does run: it is straight-line code between two awaits.
* A process that is down is started again, and the network comes back.
* Eventually no crash, no loss of the network and, where the user could go on for ever, no command
  (`<>[][Quiet]_vars`, `Calm` and their like): without this a user who keeps resuming one merge starves
  the next, and a process that crashes in every copy never finishes one. No property assumes that such
  events are few, only that they end; most components bound them anyway.

The chat outbox has one more premise, `KeepsDraining`: there is always a next kick, as the timer of a
connected account gives one. `CacheFollows` speaks of a mailbox whose (bounded) changes have ended.

## 5. What is proved

The theorems hold for every value of the constants that the named assumptions allow. They are about
the same definitions that the runs check: a proof module extends the component's module.

| Theorem | Says | Run |
|---|---|---|
| `MailMergeProofs!TypeCorrect` | `Spec => []TypeOK` | `merge_safety` |
| `MailMergeProofs!DeliveredAtMostOnce`, `RestoredAtMostOnce` | `[]AtMostOnce`, without and with backups | `merge_safety` |
| `MailMergeProofs!ReportsHold` | `BackupSpec => []ReportsAreTrue` | `merge_safety` |
| `MailMergeProofs!ReviewHolds` | `BackupSpec => []ReviewStopsMerge` | `merge_safety` |
| `MailMergeProofs!SubmissionsSpaced` | `BackupSpec => SpacedUnlessNudged` | `merge_safety` |
| `MailMergeProofs!ImplementsPermits`, `RestoreKeepsPermits` | `KeepsPermits`, without and with backups: the merge implements `DeliveryPermits` | `merge_safety` |
| `DeliveryPermitsProofs!NeverMoreThanGranted` | `Spec => []Balance` of the abstract specification | |
| `MailArchiveProofs!RemovalsTracked` | `Spec => []RemovalTracked` | `archive_live` |
| `MailArchiveProofs!ReportsTrue` | `Spec => []ReportsHold` | `archive_live` |
| `MailArchiveProofs!NothingLost` | `OneCopier => (Spec => []KeptAndShown)` | `archive_live` |
| `OperationQueueProofs!QueueTypeCorrect`, `ReportsReal`, `RequestsWanted`, `GivenUpTakenBack` | `[]TypeOK`, `[]ReportsAreReal`, `[]RequestsAreWanted`, `[]GivenUpIsTakenBack` | `outgoing` |
| `DraftDeliveryProofs!RowsStayTrue`, `OnlyAsAsked` | `[]RowsAreTrue`, `[]SentAsAsked` | `draft_sent` |
| `ChatOutboxProofs!OutboxTypeCorrect`, `RoomsAreRight`, `NeverSentBlindly` | types, `[]RoomIsRight`, `NeverBlind` | `queues` |
| `MailMergeProofs!DailyCapKept` | `Spec => DailyCapHolds` of `MailMerge` | `outgoing` |
| `QueuesProofs!TaskQueueStaysSound`, `TaskVersionsAreSeen` | `[]QueueIsSound`, `Tasks!NothingOverwritten` | `queues` |
| `QueuesProofs!TaskListsStayRight`, `NoTaskIsStranded` | `[]ListsAreRight`, `Lists!NoTaskStranded` | `queues` |
| `QueuesProofs!SidesStayInStep`, `RemovalsAreWanted` | `[]SidesAgree`, `Pop!NeverTwice` and `Pop!RemovalWasWanted` | `queues` |
| `QueuesProofs!OneWholeProfile` | `[]ProfileIsWhole` | `queues` |
| `QueuesProofs!CollectionStaysSound` | `[]CollectionIsSound`, without `review` | `queues` |
| `QueuesProofs!NothingIsOverwrittenBlindly` | `Dav!NoBlindOverwrite`, without `review` and `editor` | `queues` |
| `KeepingProofs!SyncTypeCorrect`, `SyncStaysSound` | types, `[]SyncIsSound`, without `break` and `rebuild` | `keeping` |
| `KeepingProofs!EditsStayKept`, `SourcesLeaveLast` | `[]EditsKept`, `Notes!SourceLeavesLast`, with no disturbance but `twin` | `keeping` |
| `KeepingProofs!ServerStaysKept` | `ServerIsKept`, undisturbed | `keeping` |
| `KeepingProofs!WatchesWaitForReplies` | `ExpiresUnanswered`, without `overlap` | `keeping` |
| `KeepingProofs!SettingsStayKept` | `[]SettingsKept`, undisturbed | `keeping` |

Some of these action properties are one conjunct of what a run checks, whose other conjunct is about
liveness: `Tasks!NothingOverwritten` of `TaskChangesMove`, `Lists!NoTaskStranded` of `ListChangesInTime`,
the two of `Pop!` of `DownloadedOnce`, `Dav!NoBlindOverwrite` of `CollectionMeets`, `NeverBlind` of
`ChatMoves`.

**Assumptions.** `MergeConstants`, `ArchiveConstants`, `QueueConstants`, `DraftConstants`,
`ChatConstants`, `QueuesConstants` and `KeepingConstants` give sets and numbers their kind and ask that there
is at least one merge, message, attempt, entry of a profile and so on. One relates two of them:
`Gap <= BackoffBase`. Both are a minute in the code, the gap divided by a rate of at least one per minute
(`mail-merge-runner.ts:92`, `mail-merge-store.ts:245`). Bounds on the number of mishaps, edits or
attempts need no assumption: the theorems hold for any. Some theorems have a hypothesis on a constant, for
the reasons given in sections 2 and 3: `OneCopier`, and conditions on what disturbs, which the table
names; each of these disturbances is a way the code goes wrong, and the theorem fails with it.

**Mail merge.** `AtMostOnce` is not inductive: it does not say why a row that is submitted next has
not used up its wish. `IInv == TypeOK /\ Accounted` does: a row that waits (`pending`), or is in flight
and not yet taken, has been accepted at most `resends` times, one less than allowed; a delivery in
flight has a row that says `sending`; nothing is in flight while the worker is down. The argument per
action: a claim moves a row with an unused wish into flight, acceptance uses it, only a delivery that
was not taken goes back to `pending`, recovery turns `sending` into `ambiguous` and never into
`pending`, and Resend, the only way out of `ambiguous`, raises what is allowed.

With backups, `BInv` adds what a row of the tables means by itself (`Consistent`: the status of a
merge agrees with its rows, at most one row of a merge that runs is being sent), the pace (`Spaced`:
a merge with an unsent row waits at least what is left of its gap) and the same of the copy
(`CopyHolds`). The copy is older than the tables: in it a row that waits must still have an acceptance left,
which holds because `holdMailMergesForRestore` turned all of them into rows for review, and a merge that
was cancelled before the copy was made is closed in both. Putting the copy back then restores `BInv`.
Lemmas about the store's operators (`RefreshedExists`, `SpacedKept`, …) carry the steps; the backoff of a rate
limit overwrites the gap, and here the assumption on `BackoffBase` is needed.

**Refinement.** An item of `DeliveryPermits` is a recipient. Granted are one wish by the creation and one
per Resend; there is a permit while the row waits in a merge that is not cancelled (a row that is put
back into a cancelled merge waits for ever, and has none); a submission is open while it is in flight
and not taken. Under the invariant every action is, for each recipient, one of the five abstract steps or
nothing; a crash is an acceptance for the submission that still got through, or a giving up; a restore
only gives permits up. `DeliveryPermits` steps all items together, so that commands on several
recipients need no interleaving.

**Archiving.** The invariant is the conjunction of nine parts: types; `Removals` (no two removals of
a run name one message); `Handed` (an item that was handed over is in the state of the removal that
names it); `Passes` and `Batches` (what the steps between two awaits hold in hand is still what the
tables say); `Gone` (of what a request can name, a row that succeeded has left nothing on the
server, and the rest is in the cache); `DoneIsGone`, `CompletedIsSettled`, and `Shown` (what a
hidden message is hidden for). `RemovalTracked` follows from them. That an item waits in exactly one
removal rests on a counting argument: `queueCopied` always finds a free row, since every row names
an item that no other names (`FreeRow`, by the library's theorems on cardinality). `NothingLost`
adds `Kept` (the copy of an item that may be removed is whole) and holds under `OneCopier` only.

**Operation queue.** `Safe` strengthens the reports by `InFlight` (the awaited row says `running`,
and a request that was taken is in `performed`), `Made` (what a pass has read, started or carried
out is a row that exists, with an attempt to show for it) and `Unread` (a change undone in time is
cancelled, in no pass, and not carried out). `GivenUpTakenBack` needs `Intact`: as long as no other
change is mixed in, the snapshot of a row that was not carried out is what the provider still has,
and a synchronization brings back either that or the change's own effect.

**Drafts.** The invariant is one formula `Sound(d)` for each draft and `Down` for a worker that is not
there, so that an action on one draft is checked against its own conjuncts (`HaveText`: a row has the
text it would send; `UnderWay`: a status of work in progress belongs to the task that runs;
`AsWanted`: what waits to go out was asked for and not taken back; `Knows`: the composer's version).
The pass holds rows it read before its awaits; that it may still deliver what it read is `AsWanted` of
its step.

**Chat.** `Sound` ties each item's state to the homeserver's log (what is `pending` under the present
device is not there, or is there under this item's own transaction), `Turn` says that nothing of a
room is requested before what was queued earlier, `Awaiting` what the drain holds. Steps that change
one item are restated first as a change of that item alone, and one lemma then serves all of them.
`NeverSentBlindly` is an action property: what a crash cut off is in review, and leaves it only by the
user's Retry.

**Synchronization.** `Listing`, `Phases` and `Inventoried` say what a running synchronization holds in
memory in each phase; with `Covered` (a difference of cache and mailbox is in the history after a given
point or in the inventory) the invariant is that the saved checkpoint covers, that what was read so far
covers from there (`ReadSoFar`), and that a message handed on as new was not before (`News`). With `break`
the first of these fails (`sync_resume`), with `rebuild` the second; `expiry` hurts liveness only and is
allowed by the theorems.

**Daily cap.** `DailyCapHolds` compares a sum over the send log with the cap. The sum is a fold over
the ages of deliveries, about which nothing can be shown by the induction theorems of the library;
but numbers are well-founded, and the least part of the log for which a claim on the fold fails
leads to a contradiction (`WFMin`). So `Total` is monotone, and a further delivery raises it by one
at most. The invariant (`WithinCap`) is that during an await the window is below the cap: the claim
counted it, only the awaited delivery adds to it, and the clock takes away from it. With restores it
does not hold, see section 2.

**Tasks.** `QueueIsSound` is preserved with three parts for each change: `Depends` (a creation waits
for the completion of the recurring task), `Known` (what status and attempts say of whether the
provider has it) and `Awaits` (a creation was sent only after its completion had succeeded, and is
the one that `task_occurrences` names while it is active); and `Awaited` for the request that is
out. `NothingOverwritten` needs more, since a change takes over the revision that its predecessor
left behind: `Fresh` and `Dated` (whatever refers to the provider's present revision refers to one
the user is shown), `Based` (a change that the provider would accept was made, or reviewed, in view
of all that others had done), `Follows` (the same of a change that a waiting one will hand its
revision to) and `Out` (of those the awaited one will, unless others wrote since, and then nothing
refers to their revision).

**Task lists.** `ListsAreRight` is inductive with what the awaited call says (`Awaited`: no task waits in a
list whose deletion is out) and with `NotYet`: a change that is queued, failed or in conflict was carried out
no more often than the provider refused to describe the list it had made, so that to repeat it makes no other
second list.

**POP3.** Copy and row of a message are written together, here and in what a loss of power would leave
(`Together`), and what is flushed is older (`Older`). A message is marked for removal only when both have
a copy and its removal is wanted (`Safe`, `InSession`), so that whatever QUIT takes is on the disk.

**Calendars and address books.** `Pull` says of every address what the pages so far have told: it is
in the changes after the token, or the pull has the tag of its present version, or it is listed as
removed or not there, or the cache has it. When the last page is applied nothing is left but the
first, which is what the new token is for. `Versions` (a copy with the tag of the server has its
text) and `Done` (what the answer to a write tells, also when others wrote since) carry the pass.
`NoBlindOverwrite` rests on `Opened`: the tag a write carries is that of the version the user
opened; `editor` and `review` are exactly the ways to break it.

**Notes.** `Kept` is the claim itself: what the user saved and has not given up is the text of a
change that waits. It holds because a change is whole (`Formed`: each creation has an address of its
own, and the text of one that reached the server owes nothing), the request that is awaited is the
change in the queue (`Sent`), and a note that is being moved has no change of its own and one target
(`Led`). `ServerIsKept` adds `Viewed`: every copy of a note is `Owned` (no newer than the server,
with its text while it is as new, at an address planned for this note); every change is `Based` on a
copy the user has seen; a creation has nothing on the server that it could replace (`Unborn`); a
note that is moved stays the one that was seen (`Steady`); and every note on the server is in the
cache or is a creation that is not confirmed yet (`Lives`). TLC checked `Viewed` for up to 1.85
million states, and shows it violated with `twin`, for which the theorem does not claim it.

**Watches.** A reply that was in the mailbox before the deadline is stored, or still to be stored by
the synchronization that runs, once one that began after the deadline is under way (`Synced`); only
a pass lets a watch run out, and within a day of the deadline, while the account synchronizes, only
after such a one has ended (`Answered`). With `overlap` `Synced` fails.

**Settings.** An edit belongs to one part for good (`Sorted`); a revision names one version of the
file (`Dated`); what a device agreed on with the others is in its settings, in the file and in
whatever a run holds, unless it was given up (`Based`); what a run captured is still there in each
of its steps, and no later edit of this device can be anywhere else before it was captured
(`Captured`); a run that nobody was asked about replaces only what is as it was agreed (`Decided`);
and half an import is flagged until the user has chosen (`Journaled`), which is the part that
`refused` breaks. An edit is then where it was made or was given up.

**Restore.** `Journal` says what each state of the journal stands for, `Progress` how far the entries before,
at and after the present one have come (`Swapped`, `Aside`, `Untouched`, `Restored`). While the journal
says `swapping`, every entry is `Recoverable`: its original is aside, or in its place with nothing
aside. That is what lets a roll-back start over after any accident, also after the user has worked in a
half-restored profile. The invariant was checked for three entries and three accidents first.

The names of an invariant's parts have the component in front in the two modules on composites
(`TasksDepends`, `NotesOwned`). A step of a composite is a step of one component, by which the
others stay as they are, so each invariant is shown for the steps of its own component.

**Only model-checked.** Every safety property of the runs that pass has a theorem, under the
disturbances of the table. Liveness with its fairness, and `ENABLED`, are out of the prover's reach:
`RunsEnd`, `ChangesSettle`, `MergesMove`, `OutboxMoves`, `RestoreSettles`, `CacheFollows`,
`NotesSettle`, `WatchesEnd`, `DevicesAgree`, and the liveness half of `ChatMoves`,
`TaskChangesMove`, `ListChangesInTime`, `DownloadedOnce` and `CollectionMeets`. The disagreements of
section 3 are counterexamples of TLC. `DailyCapKept` is about `MailMerge` with any constants, of
which the merges in `outgoing` are one instance.

## 6. What is not modelled, and the plan

Parsing, formatting, cryptography and the user interface are left out for good: they are functions of
one message or view, better served by the unit tests the repository has.

| Order | What | Abstract specification or reference | Bounds | Theorems |
|---|---|---|---|---|
| done | merges, archiving, operations, drafts | `DeliveryPermits` | section 3 | all safety |
| done | chat, Gmail synchronization | | section 3 | all safety |
| done | tasks, lists, POP3, restore, DAV, notes, watches, settings | | section 3 | all safety |
| 1 | `WorkerClient`: requests to a worker that ends | one answer per request | 2 requests, 1 crash | types, one answer |
| 2 | import, offline download, rule ledger | each message once; budget; at most once | 2 messages, 1 crash | the ledger |
| 3 | pins, moves, shared mailboxes in `OperationQueue` | | 2 folders | as for the queue |
| 4 | synchronization of Microsoft and IMAP | the cache becomes the mailbox | as for Gmail | |
| 5 | recurrence, archive schedule and cutoff as functions | definition by enumeration | a few months | |
| last | the mobile companion | | | |
