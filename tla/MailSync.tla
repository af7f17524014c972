------------------------------- MODULE MailSync --------------------------------
(***************************************************************************)
(* Synchronization of a Gmail mailbox (electron/mail-worker.ts): a first   *)
(* inventory by pages, the download of what it lists, and from then on the *)
(* history of changes since a checkpoint.  Each request is awaited, and    *)
(* the mailbox may change, the network fail or the process end meanwhile.  *)
(*                                                                         *)
(* Messages are numbered by age; a page of the listing is one message, a   *)
(* page of the history any number of records.  A message has one label,    *)
(* on or off.  Left out: changes made in Aerio (OperationQueue), offline   *)
(* policies and windows, pauses, and several accounts at once.             *)
(***************************************************************************)
EXTENDS Integers, Sequences, FiniteSetsExt

CONSTANTS
    NMail,        \* messages there can be
    NFirst,       \* of these, in the mailbox when the account is added
    MaxChanges,   \* bound: changes of the mailbox
    MaxBreaks,    \* bound: failures, ends of the process and rebuilds
    Disturbed     \* what may happen in the middle of a first inventory or rebuild:
                  \* a subset of {"break", "expiry", "rebuild"}

ASSUME SyncConstants == NMail \in Nat /\ NFirst \in 0..NMail /\ MaxChanges \in Nat /\ MaxBreaks \in Nat

VARIABLES
    remote, log, floor,  \* the mailbox, its history, and how much of it has expired
    cache, items,        \* gmail_messages, gmail_sync_items
    checkpoint,          \* gmail_sync_state and gmail_accounts.history_id
    sync,                \* the running syncAccount
    breaks,              \* interruptions so far
    reported             \* history: how often emitNewMail named a message

store == <<cache, items, checkpoint>>
server == <<remote, log, floor>>
vars == <<remote, log, floor, cache, items, checkpoint, sync, breaks, reported>>

Mail == 1..NMail
Null == -1
Idle == [at |-> "idle", purpose |-> "none", base |-> 0, pos |-> 0, page |-> 0,
         changed |-> {}, added |-> {}, new |-> {}]
At(at) == sync.at = at
Gone(m) == remote[m] = "none"
Waiting == {m \in Mail : items[m] \in {"pending", "failed"}}
Listed == \E m \in Mail : items[m] # "none"
CanBreak == breaks < MaxBreaks /\ breaks' = breaks + 1

Init ==
    /\ remote = [m \in Mail |-> IF m <= NFirst THEN "off" ELSE "none"] /\ log = <<>> /\ floor = 0
    /\ cache = [m \in Mail |-> "none"] /\ items = [m \in Mail |-> "none"]
    /\ checkpoint = [history |-> Null, initial |-> Null, token |-> 0, complete |-> FALSE]
    /\ sync = [Idle EXCEPT !.at = "none"]
    /\ breaks = 0 /\ reported = [m \in Mail |-> 0]

-----------------------------------------------------------------------------
(* The account is added; a poll starts a synchronization.                  *)

Connect ==
    /\ At("none") /\ sync' = Idle
    /\ UNCHANGED <<server, store, breaks, reported>>

\* resetInventory
NoItems == [m \in Mail |-> "none"]
Reset(c) == [c EXCEPT !.token = 0, !.complete = FALSE]

\* The first steps of downloadInventory: a fresh history id, then the
\* inventory goes on where it stood, or is already complete.
Inventory(its, c) ==
    LET known == \E m \in Mail : its[m] # "none"
        at == IF known THEN c ELSE Reset(c)
    IN  /\ checkpoint' = at
        /\ items' = IF at.complete THEN [m \in Mail |-> IF its[m] = "givenUp" THEN "pending" ELSE its[m]]
                                   ELSE its
        /\ sync' = [Idle EXCEPT !.at = IF at.complete THEN "download" ELSE "list",
                                !.base = Len(log), !.page = at.token]

History(purpose, base) ==
    sync' = [Idle EXCEPT !.at = "history", !.purpose = purpose, !.base = base, !.pos = base]

Starts ==
    /\ At("idle")
    /\ IF checkpoint.history = Null THEN Inventory(items, checkpoint)
       ELSE History("incremental", checkpoint.history) /\ UNCHANGED <<items, checkpoint>>
    /\ UNCHANGED <<server, cache, breaks, reported>>

\* resetForFullSync, and a synchronization unless one runs already.
Rebuild ==
    LET cleared == [Reset(checkpoint) EXCEPT !.history = Null, !.initial = Null] IN
    /\ CanBreak
    /\ IF At("idle") THEN Inventory(NoItems, cleared)
       ELSE /\ ~At("none") /\ "rebuild" \in Disturbed
            /\ items' = NoItems /\ checkpoint' = cleared /\ UNCHANGED sync
    /\ UNCHANGED <<server, cache, reported>>

-----------------------------------------------------------------------------
(* The inventory.  A page and its token are committed one after the other; *)
(* an end between the two repeats the page.                                *)

SinceThisPage == Len(log)
SinceTheProfile == sync.base
ListPage ==
    LET older == {m \in Mail : ~Gone(m) /\ (sync.page = 0 \/ m < sync.page)}
        page == IF older = {} THEN {} ELSE {Max(older)}
        listed == [m \in Mail |-> IF m \in page /\ items[m] = "none" THEN "pending" ELSE items[m]]
    IN  /\ At("list")
        /\ items' = listed
        /\ IF older # page
           THEN /\ checkpoint' = [checkpoint EXCEPT !.token = Max(older), !.initial = SinceTheProfile]
                /\ sync' = [sync EXCEPT !.page = Max(older)]
                /\ UNCHANGED cache
           ELSE \* reconcileInventory, completeInventory
                /\ cache' = [m \in Mail |-> IF listed[m] = "none" THEN "none" ELSE cache[m]]
                /\ checkpoint' = [checkpoint EXCEPT !.token = 0, !.initial = SinceTheProfile, !.complete = TRUE]
                /\ sync' = [sync EXCEPT !.at = "download"]
        /\ UNCHANGED <<server, breaks, reported>>

\* One of the messages that wait is stored, and perhaps it is time to catch up.
Stores(m) == cache' = [cache EXCEPT ![m] = remote[m]] /\ items' = [items EXCEPT ![m] = "complete"]
DownloadNext ==
    \/ UNCHANGED sync
    \/ History("catchUp", checkpoint.initial)
Download(m) ==
    /\ At("download") /\ m \in Waiting /\ ~Gone(m)
    /\ Stores(m) /\ DownloadNext
    /\ UNCHANGED <<server, checkpoint, breaks, reported>>

\* markSyncItem 'failed'; the code makes five attempts, the model two.
DownloadFails(m) ==
    /\ At("download") \/ (At("scope") /\ ~Gone(m))
    /\ m \in Waiting /\ (IF Gone(m) THEN UNCHANGED breaks ELSE CanBreak)
    /\ items' = [items EXCEPT ![m] = IF @ = "pending" THEN "failed" ELSE "givenUp"]
    /\ UNCHANGED <<server, cache, checkpoint, sync, reported>>

Downloaded ==
    /\ At("download") /\ Waiting = {}
    /\ History("final", checkpoint.initial)
    /\ UNCHANGED <<server, store, breaks, reported>>

-----------------------------------------------------------------------------
(* applyGmailHistory.                                                      *)

Records(from, to) == {log[i] : i \in from + 1 .. to}

\* A page: deletions are made at once, the rest is read when all pages are.
HistoryPage(k) ==
    LET of(kind) == {r.msg : r \in {x \in Records(sync.pos, k) : x.kind = kind}}
        deleted == of("delete")
        changed == (sync.changed \cup of("add") \cup of("label")) \ deleted
    IN  /\ At("history") /\ sync.base >= floor
        /\ k \in sync.pos .. Len(log) /\ (k = sync.pos => k = Len(log))
        /\ cache' = [m \in Mail |-> IF m \in deleted THEN "none" ELSE cache[m]]
        /\ items' = [m \in Mail |-> IF m \in deleted THEN "none"
                                    ELSE IF k = Len(log) /\ m \in changed /\ items[m] = "none" THEN "pending"
                                    ELSE items[m]]
        /\ sync' = [sync EXCEPT !.pos = k, !.changed = changed,
                                !.added = @ \cup of("add"), !.at = IF k < Len(log) THEN @ ELSE "fetch"]
        /\ UNCHANGED <<server, checkpoint, breaks, reported>>

\* The provider no longer has this history.  Only incrementalSync starts over.
EndsInError == sync' = Idle /\ UNCHANGED <<items, checkpoint>>
StartsOver == Inventory(NoItems, Reset(checkpoint))
HistoryExpired ==
    /\ At("history") /\ sync.base < floor
    /\ IF sync.purpose = "incremental" THEN StartsOver ELSE EndsInError
    /\ UNCHANGED <<server, cache, breaks, reported>>

\* isNew is asked right before the message is stored.
IsNew(m) == m \in sync.added /\ cache[m] = "none"
Fetch(m) ==
    /\ At("fetch") /\ m \in sync.changed
    /\ sync' = [sync EXCEPT !.changed = @ \ {m},
                            !.new = IF ~Gone(m) /\ IsNew(m) THEN @ \cup {m} ELSE @]
    /\ IF Gone(m) THEN cache' = [cache EXCEPT ![m] = "none"] /\ items' = [items EXCEPT ![m] = "none"]
                  ELSE Stores(m)
    /\ UNCHANGED <<server, checkpoint, breaks, reported>>

Report == reported' = [m \in Mail |-> IF m \in sync.new THEN reported[m] + 1 ELSE reported[m]]

CaughtUp ==
    /\ At("fetch") /\ sync.changed = {} /\ sync.purpose = "catchUp"
    /\ checkpoint' = [checkpoint EXCEPT !.initial = sync.pos]
    /\ sync' = [Idle EXCEPT !.at = "download"]
    /\ Report
    /\ UNCHANGED <<server, cache, items, breaks>>

\* The full synchronization ends, with an error if a message was given up.
FullSyncEnds ==
    /\ At("fetch") /\ sync.changed = {} /\ sync.purpose = "final"
    /\ checkpoint' = [checkpoint EXCEPT !.initial = sync.pos,
                         !.history = IF \E m \in Mail : items[m] \in {"failed", "givenUp"} THEN @ ELSE sync.pos]
    /\ sync' = Idle
    /\ Report
    /\ UNCHANGED <<server, cache, items, breaks>>

\* syncGmailScope downloads what still waits; here a message that is gone is dropped.
ScopeBegins ==
    /\ At("fetch") /\ sync.changed = {} /\ sync.purpose = "incremental"
    /\ sync' = [sync EXCEPT !.at = "scope"]
    /\ UNCHANGED <<server, store, breaks, reported>>
ScopeDownload(m) ==
    /\ At("scope") /\ m \in Waiting
    /\ IF Gone(m) THEN cache' = [cache EXCEPT ![m] = "none"] /\ items' = [items EXCEPT ![m] = "none"]
                  ELSE Stores(m)
    /\ UNCHANGED <<server, checkpoint, sync, breaks, reported>>
IncrementalEnds ==
    /\ At("scope") /\ Waiting = {}
    /\ checkpoint' = [checkpoint EXCEPT !.history = sync.pos]
    /\ sync' = Idle /\ Report
    /\ UNCHANGED <<server, cache, items, breaks>>

\* A request fails, or the process ends: what was not written is forgotten.
FirstInventoryRuns == At("list") /\ checkpoint.history = Null /\ Listed
Breaks ==
    /\ sync.at \notin {"none", "idle"} /\ CanBreak
    /\ FirstInventoryRuns => "break" \in Disturbed
    /\ sync' = Idle
    /\ UNCHANGED <<server, store, reported>>

-----------------------------------------------------------------------------
(* The mailbox.                                                            *)

Changes(m, kind, to) ==
    /\ Len(log) < MaxChanges
    /\ remote' = [remote EXCEPT ![m] = to]
    /\ log' = Append(log, [msg |-> m, kind |-> kind])
    /\ UNCHANGED <<floor, store, sync, breaks, reported>>

Arrive(m) ==
    /\ m > NFirst /\ \A i \in 1 .. Len(log) : log[i].msg # m
    /\ \A l \in NFirst + 1 .. m - 1 : \E i \in 1 .. Len(log) : log[i].msg = l
    /\ Changes(m, "add", "off")
Relabel(m) == remote[m] = "off" /\ Changes(m, "label", "on")
Delete(m) == ~Gone(m) /\ Changes(m, "delete", "none")

\* History is kept for a limited time.
Expire ==
    /\ checkpoint.history # Null \/ "expiry" \in Disturbed
    /\ floor < Len(log) /\ floor' = Len(log)
    /\ UNCHANGED <<remote, log, store, sync, breaks, reported>>

SyncSteps ==
    \/ Starts \/ ListPage \/ Downloaded \/ HistoryExpired \/ CaughtUp \/ FullSyncEnds
    \/ ScopeBegins \/ IncrementalEnds
    \/ \E m \in Mail : Download(m) \/ Fetch(m) \/ ScopeDownload(m) \/ (Gone(m) /\ DownloadFails(m))
    \/ \E k \in 0 .. MaxChanges : HistoryPage(k)
Next ==
    \/ Connect \/ SyncSteps \/ Rebuild \/ Breaks \/ Expire
    \/ \E m \in Mail : DownloadFails(m) \/ Arrive(m) \/ Relabel(m) \/ Delete(m)

\* Accounts are polled again and again, and requests end.
Fairness == WF_vars(SyncSteps)
Spec == Init /\ [][Next]_vars
FairSpec == Spec /\ Fairness

-----------------------------------------------------------------------------
\* The checkpoint is sound: whatever differs between the cache and the mailbox
\* is in the history after it, so no message is left out for good.
CheckpointCovers ==
    checkpoint.history # Null =>
        \A m \in Mail : cache[m] # remote[m] =>
            \E i \in checkpoint.history + 1 .. Len(log) : log[i].msg = m

\* Rules, filing and notifications see a message as new at most once, however
\* often histories overlap or a synchronization is repeated, and never one that
\* was in the mailbox when the account was added.
NewOnlyOnce == \A m \in Mail : reported[m] <= IF m > NFirst THEN 1 ELSE 0

\* The saved history checkpoint misses no change of the mailbox, and a message is
\* handed to rules and notifications as new at most once.
SyncIsSound == CheckpointCovers /\ NewOnlyOnce

\* Once the mailbox is quiet the cache becomes the mailbox, and stays it.
CacheFollows == <>[](~At("none") => cache = remote)
=============================================================================
