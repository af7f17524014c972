---------------------------- MODULE OperationQueue ----------------------------
(***************************************************************************)
(* The durable queue of mail changes (gmail_operations): a change is shown *)
(* at once in the local cache and later sent to the provider, in passes of *)
(* runOperations (electron/mail-worker.ts), with retries, a restored       *)
(* snapshot when the provider refuses it, undo (electron/mail/database.ts) *)
(* and recovery after a crash.                                             *)
(*                                                                         *)
(* One conversation of one account.  A change is made to the conversation, *)
(* or to some of its messages: duplicate cleanup trashes single messages,  *)
(* reply filing labels the sent one.  Pins, moves and shared mailboxes are *)
(* left out.  The worker is one thread: while a pass is runnable nothing   *)
(* else runs, and it suspends only while it awaits the provider.           *)
(***************************************************************************)
EXTENDS Naturals

CONSTANTS
    Messages,     \* of the conversation
    NOps,         \* bound: changes that are made
    MaxAttempts,  \* attempts before a change is given up
    ThreadKinds,  \* changes to the conversation
    MessageKinds  \* changes to single messages

Ops == 1..NOps
Labels == {"INBOX", "TRASH", "USER"}
Kinds == {"archive", "unarchive", "trash", "untrash", "label", "unlabel"}

ASSUME QueueConstants ==
    /\ Messages # {} /\ NOps \in Nat \ {0} /\ MaxAttempts \in Nat \ {0}
    /\ ThreadKinds \subseteq Kinds /\ MessageKinds \subseteq Kinds

VARIABLES
    labels,     \* label_ids_json of the cached messages
    remote,     \* the labels at the provider
    op,         \* gmail_operations, by rowid
    up,         \* the worker runs
    pass,       \* runOperations is in progress
    opList,     \* the rows it read and has not come to
    runner,     \* the operation it awaits, or 0
    taken,      \* the provider has carried out the request in flight
    \* History that no action reads.
    performed,  \* operations that the provider carried out
    withdrawn   \* operations cancelled before they were sent, and whether a
                \* pass had read them: "no", "unread" or "read"

process == <<up, pass, opList, runner, taken>>
history == <<performed, withdrawn>>
vars == <<labels, remote, op, process, history>>

OpStatus == {"none", "queued", "running", "succeeded", "failed", "cancelled"}
Live == {"queued", "running"}
NoOp == [status |-> "none", kind |-> "label", msgs |-> {}, perMessage |-> FALSE,
         before |-> [m \in Messages |-> {}], attempts |-> 0]

IsFirst(o, set) == o \in set /\ \A q \in set : o <= q
Free == {o \in Ops : op[o].status = "none"}
Idle == up /\ ~(pass /\ runner = 0)

\* actionLabels, inverseAction
Changed(kind, set) ==
    CASE kind = "archive"   -> set \ {"INBOX"}
      [] kind = "unarchive" -> set \cup {"INBOX"}
      [] kind = "trash"     -> set \cup {"TRASH"}
      [] kind = "untrash"   -> set \ {"TRASH"}
      [] kind = "label"     -> set \cup {"USER"}
      [] kind = "unlabel"   -> set \ {"USER"}
Inverse(kind) ==
    CASE kind = "archive" -> "unarchive" [] kind = "unarchive" -> "archive"
      [] kind = "trash" -> "untrash"     [] kind = "untrash" -> "trash"
      [] kind = "label" -> "unlabel"     [] kind = "unlabel" -> "label"

-----------------------------------------------------------------------------
(* The user's side *)

\* applyLocalAction: the labels change and the operation is recorded, with
\* the labels before, in one transaction.
ApplyLocalAction(o, kind, ms, perMessage) ==
    /\ IsFirst(o, Free)
    /\ op' = [op EXCEPT ![o] = [status |-> "queued", kind |-> kind, msgs |-> ms,
                                perMessage |-> perMessage,
                                before |-> [m \in Messages |-> IF m \in ms THEN labels[m] ELSE {}],
                                attempts |-> 0]]
    /\ labels' = [m \in Messages |-> IF m \in ms THEN Changed(kind, labels[m]) ELSE labels[m]]
    /\ UNCHANGED <<remote, process, history>>

Act(o) ==
    /\ Idle
    /\ \/ \E kind \in ThreadKinds : ApplyLocalAction(o, kind, Messages, FALSE)
       \/ \E kind \in MessageKinds, m \in Messages : ApplyLocalAction(o, kind, {m}, TRUE)

\* restoreOperationSnapshot puts every label back to what it was before.
StatusOnly(o) == labels
Restored(o) ==
    [m \in Messages |-> IF m \in op[o].msgs THEN op[o].before[m] ELSE labels[m]]

\* undoOperation of a change that waits: cancelled.
UndoQueued(o) ==
    /\ op[o].status = "queued"
    /\ op' = [op EXCEPT ![o].status = "cancelled"]
    /\ labels' = Restored(o)
    /\ withdrawn' = [withdrawn EXCEPT ![o] =
           IF op[o].attempts > 0 THEN @ ELSE IF o \in opList THEN "read" ELSE "unread"]
    /\ UNCHANGED <<remote, process, performed>>

\* ... and of a change that was sent: the inverse is queued.
UndoSent(o) ==
    /\ op[o].status \in {"running", "succeeded"}
    /\ \E q \in Ops : ApplyLocalAction(q, Inverse(op[o].kind), op[o].msgs, op[o].perMessage)

\* The toast offers the newest change, while it waits to become due; the
\* journal of duplicate cleanup offers its removals at any time, once.
Newest(o) == \A q \in Ops : q > o => op[q].status \in {"none", "cancelled"}
OfferedByToast(o) == Newest(o) /\ op[o].attempts = 0 /\ o \notin opList
UndoneAlready(o) == \E q \in Ops : q > o /\ op[q].kind = "untrash" /\ op[q].msgs = op[o].msgs
OfferedByJournal(o) == op[o].perMessage /\ op[o].kind = "trash" /\ ~UndoneAlready(o)

Undo(o) ==
    /\ Idle
    /\ \/ OfferedByToast(o) /\ UndoQueued(o)
       \/ OfferedByJournal(o) /\ (UndoQueued(o) \/ UndoSent(o))

\* Synchronization overwrites the cached labels of a message.
Sync ==
    /\ Idle
    /\ \E m \in Messages : labels' = [labels EXCEPT ![m] = remote[m]]
    /\ UNCHANGED <<remote, op, process, history>>

-----------------------------------------------------------------------------
(* A pass of runOperations *)

\* dueOperations; a row that was rescheduled may not be due yet, nor one in
\* its Undo window.
DueWhateverStatus == {o \in Ops : op[o].status \in {"queued", "cancelled"}}
Due == {o \in Ops : op[o].status = "queued"}

OpsBegin ==
    /\ up /\ ~pass
    /\ pass' = TRUE
    /\ \E rows \in SUBSET Due : rows # {} /\ opList' = rows
    /\ UNCHANGED <<labels, remote, op, up, runner, taken, history>>

\* The count saturates: beyond MaxAttempts it makes no difference.
AttemptsUncounted(n) == n
Attempted(n) == IF n < MaxAttempts THEN n + 1 ELSE n

\* updateOperation('running') of the next row, whatever its status is by now.
OpStart(o) ==
    /\ up /\ pass /\ runner = 0 /\ IsFirst(o, opList)
    /\ op' = [op EXCEPT ![o].status = "running", ![o].attempts = Attempted(@)]
    /\ runner' = o /\ opList' = opList \ {o} /\ taken' = FALSE
    /\ UNCHANGED <<labels, remote, up, pass, history>>

\* The request that is sent.  removalFor takes every row with message ids
\* for a removal of the automatic archiving.
Request(o) == IF op[o].perMessage THEN "trash" ELSE op[o].kind
RequestTargets(o) == op[o].msgs

ProviderApplies ==
    /\ up /\ runner # 0 /\ ~taken
    /\ taken' = TRUE
    /\ remote' = [m \in Messages |-> IF m \in RequestTargets(runner)
                                     THEN Changed(Request(runner), remote[m]) ELSE remote[m]]
    /\ performed' = performed \cup {runner}
    /\ UNCHANGED <<labels, op, up, pass, opList, runner, withdrawn>>

OpSucceeds ==
    /\ up /\ runner # 0 /\ taken
    /\ op' = [op EXCEPT ![runner].status = "succeeded"]
    /\ runner' = 0 /\ taken' = FALSE
    /\ UNCHANGED <<labels, remote, up, pass, opList, history>>

\* The request failed, or its answer was lost: retried later, or given up.
OpErrors ==
    /\ up /\ runner # 0
    /\ IF op[runner].attempts < MaxAttempts
       THEN op' = [op EXCEPT ![runner].status = "queued"] /\ UNCHANGED labels
       ELSE op' = [op EXCEPT ![runner].status = "failed"] /\ labels' = Restored(runner)
    /\ runner' = 0 /\ taken' = FALSE
    /\ UNCHANGED <<remote, up, pass, opList, history>>

OpsFinish ==
    /\ up /\ pass /\ runner = 0 /\ opList = {}
    /\ pass' = FALSE
    /\ UNCHANGED <<labels, remote, op, up, opList, runner, taken, history>>

-----------------------------------------------------------------------------
(* Crash and restart *)

Crash ==
    /\ up /\ up' = FALSE
    /\ pass' = FALSE /\ opList' = {} /\ runner' = 0 /\ taken' = FALSE
    /\ UNCHANGED <<labels, remote, op, history>>

\* recoverInterruptedWork
RecoveredAsDone(row) == IF row.status = "running" THEN [row EXCEPT !.status = "succeeded"] ELSE row
Recovered(row) == IF row.status = "running" THEN [row EXCEPT !.status = "queued"] ELSE row

Restart ==
    /\ ~up /\ up' = TRUE
    /\ op' = [o \in Ops |-> Recovered(op[o])]
    /\ UNCHANGED <<labels, remote, pass, opList, runner, taken, history>>

Init ==
    /\ labels = [m \in Messages |-> {"INBOX"}] /\ remote = labels
    /\ op = [o \in Ops |-> NoOp]
    /\ up = TRUE /\ pass = FALSE /\ opList = {} /\ runner = 0 /\ taken = FALSE
    /\ performed = {} /\ withdrawn = [o \in Ops |-> "no"]

OpEnds == OpSucceeds \/ OpErrors

Next ==
    \/ \E o \in Ops : Act(o) \/ Undo(o) \/ OpStart(o)
    \/ Sync \/ OpsBegin \/ ProviderApplies \/ OpEnds \/ OpsFinish
    \/ Crash \/ Restart

Spec == Init /\ [][Next]_vars

\* The timer begins a pass every two seconds and a rescheduled row becomes
\* due within five minutes, so each waiting row is read again and again; a
\* request ends; from some time on there is no crash.
Fairness ==
    /\ WF_vars(\E o \in Ops : OpStart(o)) /\ WF_vars(OpEnds) /\ WF_vars(OpsFinish) /\ WF_vars(Restart)
    /\ \A o \in Ops : SF_vars(OpsBegin /\ o \in opList')
    /\ <>[][~Crash]_vars
FairSpec == Spec /\ Fairness

-----------------------------------------------------------------------------
(* Properties *)

Row == [status : OpStatus, kind : Kinds, msgs : SUBSET Messages, perMessage : BOOLEAN,
        before : [Messages -> SUBSET Labels], attempts : 0..MaxAttempts]
TypeOK ==
    /\ labels \in [Messages -> SUBSET Labels] /\ remote \in [Messages -> SUBSET Labels]
    /\ op \in [Ops -> Row]
    /\ up \in BOOLEAN /\ pass \in BOOLEAN /\ taken \in BOOLEAN
    /\ opList \subseteq Ops /\ runner \in Ops \cup {0}
    /\ performed \subseteq Ops /\ withdrawn \in [Ops -> {"no", "unread", "read"}]

\* A row says "running" exactly while a pass awaits it, or the worker is down
\* and has not recovered it: one request at a time, and none is forgotten.
RunningIsAwaited ==
    \A o \in Ops : (op[o].status = "running") => (runner = o \/ ~up)

\* A change is reported done only after the provider carried it out.
SucceededWasPerformed == \A o \in Ops : op[o].status = "succeeded" => o \in performed

\* The provider's copy of a message changes only by changes that name it: the
\* other messages of its conversation are left alone.
OnlyTargetsTouched ==
    \A m \in Messages : remote[m] # {"INBOX"} => \E o \in performed : m \in op[o].msgs

\* What a row says of its request is true: a change is marked as running only
\* while a pass awaits it or until the next start recovers it, and as succeeded
\* only when the provider carried it out.
ReportsAreReal == TypeOK /\ RunningIsAwaited /\ SucceededWasPerformed

\* A change that was given up and never carried out is not shown any longer,
\* when no other change is mixed with it.
GivenUpIsTakenBack ==
    \A o \in Ops :
        (op[o].status = "failed" /\ o \notin performed
            /\ \A q \in Ops \ {o} : op[q].status = "none") => labels = remote

\* A change that is undone before a pass has read it is never sent.
UndoInTimeIsNeverSent == \A o \in performed : withdrawn[o] # "unread"

\* runOperations changes the labels of the messages that a change names and of
\* no others, and never sends a change undone before a pass had read it.
RequestsAreWanted == OnlyTargetsTouched /\ UndoInTimeIsNeverSent

\* Every queued change is sent, given up or undone.
ChangesSettle == \A o \in Ops : []<>(op[o].status \notin Live)

\* Documentation of reply filing and of duplicate cleanup: the provider is
\* asked for the change that was queued, a label or an untrash as well.
RequestIsTheChange ==
    [][\A o \in performed' \ performed : \A m \in op[o].msgs :
         remote'[m] = Changed(op[o].kind, remote[m])]_vars

=============================================================================
