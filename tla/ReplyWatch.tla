------------------------------- MODULE ReplyWatch ------------------------------
(***************************************************************************)
(* Watching a sent message for replies (electron/mail/reply-watches.ts and *)
(* its calls in mail-worker.ts).  A watch is pending until its draft went  *)
(* out, then every pass looks through the mail stored since the last one,  *)
(* and it ends with a reply or, after a synchronization, at its deadline;  *)
(* in an account that does not synchronize, right at its deadline.         *)
(*                                                                         *)
(* One account, one outgoing message.  Besides its copy in Sent there is   *)
(* an answer (in its conversation), an aside (it names the message but the *)
(* provider put it in another conversation) and a message of a stranger in *)
(* the conversation.  A stored message has a row, and a row is the highest *)
(* one plus one, as SQLite gives them.  Time is 0 before the deadline, 1   *)
(* after it, and 2 a day later.  Left out: two watches of one message, and *)
(* a watch without a deadline.  A watch is set in the draft's turn, so it  *)
(* meets no draft whose delivery is under way, although createForDraft     *)
(* would take one.                                                         *)
(***************************************************************************)
EXTENDS Integers, FiniteSetsExt

CONSTANTS
    Mail,        \* the messages there are: a subset of {"copy", "answer", "aside", "stranger"}
    Known,       \* what the provider tells of what was sent: a subset of {"header", "thread"}
    MaxRow,      \* bound: rows
    ScanBatch,   \* rows that one pass reads: 500 in the code
    MaxBreaks,   \* bound: ends of the process
    Disturbed    \* the awkward cases that may happen: "overlap", a synchronization
                 \* around the deadline; "early", mail stored before the sent
                 \* message's answer is taken in; "reuse", the newest row removed

VARIABLES
    draft,       \* gmail_drafts.status; "delivered" is out with the rest awaited,
                 \* "unsure" is out and recorded as failed (sending it again is
                 \* another message, and in DraftDelivery)
    watch,       \* mail_reply_watches
    rows,        \* gmail_messages by row
    server,      \* the mailbox
    sync,        \* what the running synchronization has still to store
    syncEnabled, \* the account synchronizes: it is neither archived nor paused
    time, breaks,
    recent,      \* the last synchronization ended after the deadline
    early        \* history: what reached the mailbox before the deadline

clock == <<time, recent, early>>
mailbox == <<rows, server, sync, syncEnabled>>
vars == <<draft, watch, mailbox, clock, breaks>>

Rows == 1..MaxRow
NoSync == [on |-> FALSE, left |-> {}, stored |-> FALSE]
NoWatch == [status |-> "none", header |-> FALSE, thread |-> FALSE, copy |-> FALSE, scanned |-> 0, backfill |-> FALSE]
Naming == {"answer", "aside"}
Thread == {"copy", "answer", "stranger"}
Answers == {"answer", "aside"}

Stored == {rows[r] : r \in Rows} \ {"none"}
MaxRowid == Max({0} \cup {r \in Rows : rows[r] # "none"})
Sent == draft \in {"delivered", "unsure", "sent"}
Active == watch.status \in {"pending", "watching"}
CanBreak == breaks < MaxBreaks /\ breaks' = breaks + 1

Init ==
    /\ draft = "queued" /\ watch = NoWatch /\ rows = [r \in Rows |-> "none"] /\ server = {}
    /\ sync = NoSync /\ syncEnabled = TRUE /\ time = 0 /\ recent = FALSE /\ breaks = 0 /\ early = {}

-----------------------------------------------------------------------------
(* process: one pass over the watch.                                       *)

\* replyMatchesWatch: a reference is definitive; in the conversation it must
\* come from a recipient.
Matches(w, m) == (w.header /\ m \in Naming) \/ (w.thread /\ m = "answer")

ExpiryAtDeadline(w) == time >= 1
ExpiryDue(w) == time >= 1 /\ (~syncEnabled \/ recent \/ time = 2)

\* A message set on older mail also searches what was stored before, once.
Backfill(w) == IF w.backfill /\ w.header THEN Stored \cap Naming ELSE {}

NeverAbandoned == FALSE
Abandoned == draft \in {"local", "discarded"}
Fresh(w) == {r \in Rows : r > w.scanned /\ rows[r] # "none"}
FirstFresh(w) == {r \in Fresh(w) : Cardinality({q \in Fresh(w) : q <= r}) <= ScanBatch}
Search(w) ==
    LET adopted == ~w.copy /\ \E r \in FirstFresh(w) : rows[r] = "copy"
        v == [w EXCEPT !.copy = @ \/ adopted, !.header = @ \/ adopted, !.thread = @ \/ adopted,
                       !.scanned = Max({@} \cup FirstFresh(w)), !.backfill = FALSE]
        candidates == {rows[r] : r \in FirstFresh(w)} \cup (IF v.thread THEN Stored \cap Thread ELSE {}) \cup Backfill(w)
    IN  IF \E m \in candidates : Matches(v, m) THEN [v EXCEPT !.status = "replied"] ELSE v
\* A watch may run out while rows are left that no pass has read.
Scan(w) ==
    IF Search(w).status = "watching" /\ ExpiryDue(w) THEN [Search(w) EXCEPT !.status = "expired"] ELSE Search(w)
Process(w) ==
    CASE w.status = "pending" /\ Abandoned -> [w EXCEPT !.status = "cancelled"]
      [] w.status = "watching" -> Scan(w)
      [] OTHER -> w

\* The timer of the worker.
Pass ==
    /\ watch' = Process(watch)
    /\ UNCHANGED <<draft, mailbox, clock, breaks>>

-----------------------------------------------------------------------------
(* What the user does.                                                     *)

\* A deadline is in the future: what came until now came in time, and a pass
\* does not find the watch overdue.
NewDeadline == time' = 0 /\ recent' = FALSE /\ early' = early \cup server

\* A watch that is pending gets the deadline; no other meets a queued draft.
CreateForDraft ==
    /\ draft = "queued"
    /\ watch' = [NoWatch EXCEPT !.status = "pending"] /\ NewDeadline
    /\ UNCHANGED <<draft, mailbox, breaks>>

MessageWatch ==
    [status |-> "watching", header |-> TRUE, thread |-> TRUE, copy |-> TRUE, backfill |-> TRUE,
     scanned |-> CHOOSE r \in Rows : rows[r] = "copy"]
CreateForMessage ==
    /\ "copy" \in Stored /\ watch.status # "pending" /\ (watch.status = "watching" => watch.header)
    /\ watch' = Search(IF watch.status = "watching" THEN watch ELSE MessageWatch) /\ NewDeadline
    /\ UNCHANGED <<draft, mailbox, breaks>>

Cancel ==
    /\ Active /\ watch' = [watch EXCEPT !.status = "cancelled"]
    /\ UNCHANGED <<draft, mailbox, clock, breaks>>

CancelledForDraft == IF watch.status = "pending" THEN [watch EXCEPT !.status = "cancelled"] ELSE watch

\* drafts:cancel-send
CancelSend ==
    /\ draft = "queued" /\ draft' = "local" /\ watch' = CancelledForDraft
    /\ UNCHANGED <<mailbox, clock, breaks>>

Send ==
    /\ draft \in {"local", "failed"} /\ draft' = "queued"
    /\ UNCHANGED <<watch, mailbox, clock, breaks>>

\* discardDraft; the process may end between the draft's record and its watch.
Discard(ended) ==
    /\ draft \in {"local", "failed"} /\ draft' = "discarded"
    /\ IF ended THEN CanBreak /\ UNCHANGED watch ELSE watch' = CancelledForDraft /\ UNCHANGED breaks
    /\ UNCHANGED <<mailbox, clock>>

-----------------------------------------------------------------------------
(* deliverDraft.  Over IMAP the message is out before the draft on the     *)
(* server is deleted, and only then is the watch told.                     *)

DeliveryBegins ==
    /\ draft = "queued" /\ draft' = "syncing"
    /\ UNCHANGED <<watch, mailbox, clock, breaks>>
Transmit ==
    /\ draft = "syncing" /\ draft' = "delivered"
    /\ UNCHANGED <<watch, mailbox, clock, breaks>>
Activated ==
    IF watch.status # "pending" THEN watch
    ELSE [watch EXCEPT !.status = "watching", !.header = "header" \in Known, !.thread = "thread" \in Known,
                       !.scanned = MaxRowid]
DeliveryEnds ==
    /\ draft = "delivered" /\ draft' = "sent" /\ watch' = Activated
    /\ UNCHANGED <<mailbox, clock, breaks>>
Failed == IF draft = "delivered" THEN "unsure" ELSE "failed"
DeliveryFails ==
    /\ draft \in {"syncing", "delivered"} /\ draft' = Failed
    /\ UNCHANGED <<watch, mailbox, clock, breaks>>

-----------------------------------------------------------------------------
(* The mailbox and its synchronization.                                    *)

Arrive(m) ==
    /\ Sent /\ m \notin server \cup Stored /\ m \notin early
    /\ m # "copy" => "copy" \in server \cup Stored
    /\ server' = server \cup {m}
    /\ early' = IF time = 0 THEN early \cup {m} ELSE early
    /\ UNCHANGED <<draft, watch, rows, sync, syncEnabled, time, recent, breaks>>

SyncBegins ==
    /\ syncEnabled /\ sync = NoSync /\ sync' = [NoSync EXCEPT !.on = TRUE, !.left = server \ Stored]
    /\ UNCHANGED <<draft, watch, rows, server, syncEnabled, clock, breaks>>
SyncStores(m) ==
    /\ m \in sync.left /\ MaxRowid < MaxRow
    /\ "early" \in Disturbed \/ draft # "delivered"
    /\ rows' = [rows EXCEPT ![MaxRowid + 1] = m]
    /\ sync' = [sync EXCEPT !.left = @ \ {m}, !.stored = TRUE]
    /\ UNCHANGED <<draft, watch, server, syncEnabled, clock, breaks>>
\* The account is synced, and then emitNewMail makes a pass over what came.
SyncEnds ==
    /\ sync.on /\ sync.left = {}
    /\ sync' = [sync EXCEPT !.on = FALSE] /\ recent' = (time >= 1)
    /\ UNCHANGED <<draft, watch, rows, server, syncEnabled, time, early, breaks>>
SyncReports ==
    /\ ~sync.on /\ sync.stored
    /\ watch' = Process(watch) /\ sync' = NoSync
    /\ UNCHANGED <<draft, rows, server, syncEnabled, clock, breaks>>

\* accounts:update and accounts:disconnect; what runs already may go on.  This,
\* like the deadline, matters to an active watch only.
SwitchSync ==
    /\ Active /\ syncEnabled' = ~syncEnabled
    /\ UNCHANGED <<draft, watch, rows, server, sync, clock, breaks>>

\* A message is removed here and in the mailbox.
Remove(r) ==
    /\ rows[r] # "none" /\ ("reuse" \in Disturbed \/ r < MaxRowid)
    /\ rows' = [rows EXCEPT ![r] = "none"] /\ server' = server \ {rows[r]}
    /\ UNCHANGED <<draft, watch, sync, syncEnabled, clock, breaks>>

Tick ==
    /\ Active /\ time < 2 /\ ("overlap" \in Disturbed \/ sync = NoSync) /\ time' = time + 1
    /\ UNCHANGED <<draft, watch, mailbox, recent, early, breaks>>

\* The process ends: a delivery is not known to have happened.
Crash ==
    /\ (sync # NoSync \/ draft \in {"syncing", "delivered"}) /\ CanBreak
    /\ sync' = NoSync /\ draft' = IF draft \in {"syncing", "delivered"} THEN Failed ELSE draft
    /\ UNCHANGED <<watch, rows, server, syncEnabled, clock>>

Next ==
    \/ Pass \/ CreateForDraft \/ CreateForMessage \/ Cancel \/ CancelSend \/ Send
    \/ DeliveryBegins \/ Transmit \/ DeliveryEnds \/ DeliveryFails
    \/ SyncBegins \/ SyncReports \/ SyncEnds \/ SwitchSync \/ Tick \/ Crash
    \/ \E ended \in BOOLEAN : Discard(ended)
    \/ \E m \in Mail : Arrive(m) \/ SyncStores(m)
    \/ \E r \in Rows : Remove(r)

\* runOperations comes by every few seconds.
Fairness == WF_vars(Pass)
FairSpec == Init /\ [][Next]_vars /\ Fairness

-----------------------------------------------------------------------------
\* A watch that runs out less than a day after its deadline, while its account
\* synchronizes, does so after a synchronization that brought every reply sent
\* in time.
ExpiresUnanswered ==
    [][watch.status = "watching" /\ watch'.status = "expired" /\ time = 1 /\ syncEnabled
         => early \cap Answers \cap server \subseteq Stored]_vars

\* A stored reply ends the watch, wherever the provider put it and whenever
\* the watch was set.
ReplyEndsWatch == []<>~(watch.status = "watching" /\ Stored \cap Answers # {})

\* A watch does not wait for a message that was taken back or thrown away.
NoOrphanWatch == []<>~(watch.status = "pending" /\ draft \in {"local", "discarded"})

\* A watch ends when the reply is stored, and when its message was taken back or
\* thrown away: it is not left to wait for what is there or cannot come.
WatchesEnd == ReplyEndsWatch /\ NoOrphanWatch
=============================================================================
