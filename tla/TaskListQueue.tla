----------------------------- MODULE TaskListQueue -----------------------------
(***************************************************************************)
(* Creating, renaming and deleting the task lists of a provider            *)
(* (electron/productivity/task-list-queue.ts) and the lane that sends these*)
(* changes before any change of a task (task-sync-engine.ts, runLists).    *)
(*                                                                         *)
(* List 1 exists.  All lists that Aerio creates bear the same title, the   *)
(* worst case for matching them.  Of the changes of tasks a list keeps only*)
(* whether one waits or needs review.  The service works in one lane, so   *)
(* only the provider, other programs and a crash act while a request is    *)
(* awaited.  The user confirms truthfully that a write was not carried out,*)
(* and matches as he likes among what the queue lets him choose.           *)
(***************************************************************************)
EXTENDS Naturals, Sequences, FiniteSets

CONSTANTS
    MaxLists,          \* bound: lists that ever exist
    MaxListChanges,    \* bound: list changes ever recorded
    MaxListAttempts,   \* attempts of a rate-limited change (5)
    MaxListFaults,     \* bound: lost answers, refusals, rate limits, crashes
    MaxTaskEdits       \* bound: task changes ever recorded

VARIABLES
    changes,    \* task_list_operations
    shown,      \* the lists of the cached snapshot, with revision and title
    remote,     \* the lists of the provider
    waiting,    \* task_operations of a list: "none", "queued" or "stuck"
    call,       \* the list change whose answer is awaited
    stamp,      \* the last revision given out
    mishaps, taskEdits,
    done,       \* history: how often the provider carried a list change out
    undescribed \* history: how often it then refused to describe the new list

vars == <<changes, shown, remote, waiting, call, stamp, mishaps, taskEdits, done, undescribed>>

Lists == 1..MaxLists
Never == [rev |-> 0, title |-> "never"]
Gone == [rev |-> 0, title |-> "gone"]
NoCall == [change |-> 0, phase |-> "none", list |-> 0]
Recorded == DOMAIN changes
Status(k) == changes[k].status
Active(k) == Status(k) \in {"queued", "running", "failed", "conflict", "review"}
Idle == call = NoCall
Present(lists) == {l \in Lists : lists[l].rev # 0}
Mishap == mishaps < MaxListFaults /\ mishaps' = mishaps + 1
To(k, status) == [changes EXCEPT ![k].status = status]

Init ==
    /\ changes = <<>> /\ call = NoCall /\ stamp = 1 /\ mishaps = 0 /\ taskEdits = 0
    /\ done = <<>> /\ undescribed = <<>>
    /\ shown = [l \in Lists |-> IF l = 1 THEN [rev |-> 1, title |-> "old"] ELSE Never]
    /\ remote = shown
    /\ waiting = [l \in Lists |-> "none"]

-----------------------------------------------------------------------------
Blocked(l) == \E k \in Recorded : changes[k].kind = "delete" /\ changes[k].list = l /\ Active(k)
OnlyQueued(l) == waiting[l] = "queued"
PendingTasks(l) == waiting[l] # "none"

\* A change of a task of the list, made by the user while the list is shown.
ChangesTask(l) ==
    /\ Idle /\ shown[l].rev # 0 /\ ~Blocked(l) /\ taskEdits < MaxTaskEdits
    /\ taskEdits' = taskEdits + 1
    /\ waiting' = [waiting EXCEPT ![l] = IF @ = "none" THEN "queued" ELSE @]
    /\ UNCHANGED <<changes, shown, remote, call, stamp, mishaps, done, undescribed>>

\* The task lane, or the user's review, settles the changes or parks them.
SettlesTask(l) ==
    /\ Idle /\ PendingTasks(l)
    /\ \E to \in {"none", "stuck"} \ {waiting[l]} : waiting' = [waiting EXCEPT ![l] = to]
    /\ UNCHANGED <<changes, shown, remote, call, stamp, mishaps, taskEdits, done, undescribed>>

ListChange(kind, l) ==
    [kind |-> kind, list |-> l, base |-> IF l = 0 THEN 0 ELSE shown[l].rev, status |-> "queued",
     attempts |-> 0, result |-> 0, before |-> IF kind = "create" THEN Present(shown) ELSE {}]

\* enqueue: one active change of a list, and no deletion over changes of tasks.
Enqueue(kind, l) ==
    /\ Idle /\ Len(changes) < MaxListChanges
    /\ IF kind = "create" THEN l = 0
       ELSE /\ l \in Present(shown)
            /\ \A k \in Recorded : changes[k].list = l => ~Active(k)
            /\ kind = "delete" => ~PendingTasks(l)
    /\ changes' = Append(changes, ListChange(kind, l))
    /\ done' = Append(done, 0) /\ undescribed' = Append(undescribed, 0)
    /\ UNCHANGED <<shown, remote, waiting, call, stamp, mishaps, taskEdits>>

FirstQueued(k) == Status(k) = "queued" /\ \A j \in 1..(k - 1) : Status(j) # "queued"

\* runLists: a deletion that has become impossible fails before it is sent.
SendChange ==
    /\ Idle
    /\ \E k \in Recorded :
          /\ FirstQueued(k)
          /\ IF changes[k].kind = "delete" /\ PendingTasks(changes[k].list)
             THEN changes' = [To(k, "failed") EXCEPT ![k].attempts = @ + 1] /\ UNCHANGED call
             ELSE /\ changes' = [To(k, "running") EXCEPT ![k].attempts = @ + 1]
                  /\ call' = [change |-> k, phase |-> "sent", list |-> changes[k].list]
    /\ UNCHANGED <<shown, remote, waiting, stamp, mishaps, taskEdits, done, undescribed>>

Title(kind) == IF kind = "create" THEN "new" ELSE "renamed"
NewList == CHOOSE l \in Lists : remote[l] = Never
Agrees(k) == changes[k].kind # "create" => remote[changes[k].list].rev = changes[k].base

ProviderChanges ==
    LET k == call.change
        kind == changes[k].kind
    IN  /\ call.phase = "sent" /\ Agrees(k)
        /\ kind = "create" => \E l \in Lists : remote[l] = Never
        /\ LET l == IF kind = "create" THEN NewList ELSE changes[k].list
           IN  /\ remote' = [remote EXCEPT ![l] =
                      IF kind = "delete" THEN Gone ELSE [rev |-> stamp + 1, title |-> Title(kind)]]
               /\ call' = [call EXCEPT !.phase = "done", !.list = l]
        /\ stamp' = stamp + 1
        /\ done' = [done EXCEPT ![k] = @ + 1]
        /\ UNCHANGED <<changes, shown, waiting, mishaps, taskEdits, undescribed>>

\* finish: a creation owns a list that was not there before and that no other
\* creation owns.
AnyList(k, l) == TRUE
Unclaimed(k, l) == \A j \in Recorded \ {k} : changes[j].kind = "create" /\ Status(j) = "succeeded" => changes[j].result # l
Finishes(k, l, lists) ==
    /\ changes[k].kind = "delete" => ~PendingTasks(l)
    /\ changes[k].kind = "create" => l \notin changes[k].before /\ Unclaimed(k, l)
    /\ changes' = [changes EXCEPT ![k].status = "succeeded", ![k].result = l]
    /\ shown' = [lists EXCEPT ![l] = remote[l]]

ChangeAnswered ==
    /\ call.phase = "done" /\ call' = NoCall
    /\ Finishes(call.change, call.list, shown)
    /\ UNCHANGED <<remote, waiting, stamp, mishaps, taskEdits, done, undescribed>>

\* 404, 409, 412: a deletion is done, everything else is a conflict.
ChangeRefused ==
    LET k == call.change IN
    /\ call.phase = "sent" /\ ~Agrees(k) /\ call' = NoCall
    /\ IF changes[k].kind = "delete" /\ remote[changes[k].list].rev = 0
       THEN Finishes(k, changes[k].list, shown)
       ELSE changes' = To(k, "conflict") /\ UNCHANGED shown
    /\ UNCHANGED <<remote, waiting, stamp, mishaps, taskEdits, done, undescribed>>

RateLimited(k) == IF changes[k].attempts < MaxListAttempts THEN "queued" ELSE "failed"

\* A rate limit or a refusal before the write; no answer before or after it.
ChangeFails ==
    LET k == call.change IN
    /\ ~Idle /\ Mishap /\ call' = NoCall
    /\ \/ call.phase = "sent" /\ \E to \in {RateLimited(k), "failed"} : changes' = To(k, to)
       \/ changes' = To(k, "review")
    /\ UNCHANGED <<shown, remote, waiting, stamp, taskEdits, done, undescribed>>

\* CalDAV makes a list with one request (MKCALENDAR) and asks what it made with
\* a second (PROPFIND): when that is refused, the creation counts as refused.
DescriptionRefused ==
    LET k == call.change IN
    /\ call.phase = "done" /\ changes[k].kind = "create" /\ Mishap /\ call' = NoCall
    /\ \E to \in {RateLimited(k), "failed", "conflict"} : changes' = To(k, to)
    /\ undescribed' = [undescribed EXCEPT ![k] = @ + 1]
    /\ UNCHANGED <<shown, remote, waiting, stamp, taskEdits, done>>

\* The constructor after a crash.
Interrupted(k) == IF Status(k) = "running" THEN "review" ELSE Status(k)
Crash ==
    /\ ~Idle /\ Mishap /\ call' = NoCall
    /\ changes' = [k \in Recorded |-> [changes[k] EXCEPT !.status = Interrupted(k)]]
    /\ UNCHANGED <<shown, remote, waiting, stamp, taskEdits, done, undescribed>>

\* restoreBackup of a backup made just now: everything active waits for review.
RestoreLists ==
    /\ Idle /\ Mishap
    /\ changes' = [k \in Recorded |-> [changes[k] EXCEPT !.status = IF Active(k) THEN "review" ELSE @]]
    /\ UNCHANGED <<shown, remote, waiting, call, stamp, taskEdits, done, undescribed>>

\* A full refresh: the snapshot of the provider.
RefreshLists ==
    /\ Idle /\ shown # remote /\ shown' = remote
    /\ UNCHANGED <<changes, remote, waiting, call, stamp, mishaps, taskEdits, done, undescribed>>

-----------------------------------------------------------------------------
(* resolve                                                                 *)

DiscardChange(k) ==
    /\ Idle /\ k \in Recorded
    /\ Status(k) \in {"failed", "conflict", "review"} \/ (Status(k) = "queued" /\ changes[k].attempts = 0)
    /\ changes' = To(k, "cancelled")
    /\ UNCHANGED <<shown, remote, waiting, call, stamp, mishaps, taskEdits, done, undescribed>>

InReview(k) == Idle /\ k \in Recorded /\ Status(k) \in {"failed", "conflict", "review"}

RetryChange(k) ==
    /\ InReview(k) /\ shown' = remote
    /\ Status(k) = "review" => done[k] = 0
    /\ changes[k].kind # "create" => remote[changes[k].list].rev # 0
    /\ changes' = [To(k, "queued") EXCEPT ![k].base = IF changes[k].list = 0 THEN 0 ELSE remote[changes[k].list].rev]
    /\ UNCHANGED <<remote, waiting, call, stamp, mishaps, taskEdits, done, undescribed>>

AcceptChange(k, l) ==
    /\ InReview(k)
    /\ CASE changes[k].kind = "delete" -> l = changes[k].list /\ remote[l].rev = 0
         [] changes[k].kind = "update" -> l = changes[k].list /\ remote[l].title = Title("update")
         [] OTHER -> remote[l].title = Title("create")
    /\ Finishes(k, l, remote)
    /\ UNCHANGED <<remote, waiting, call, stamp, mishaps, taskEdits, done, undescribed>>

\* Another program renames or deletes a list.
ElsewhereChanged(l) ==
    /\ remote[l].rev # 0 /\ Mishap /\ stamp' = stamp + 1
    /\ \E to \in {Gone, [rev |-> stamp + 1, title |-> "other"]} : remote' = [remote EXCEPT ![l] = to]
    /\ UNCHANGED <<changes, shown, waiting, call, taskEdits, done, undescribed>>

Next ==
    \/ \E l \in Lists : ChangesTask(l) \/ SettlesTask(l) \/ ElsewhereChanged(l)
    \/ \E kind \in {"create", "update", "delete"}, l \in Lists \cup {0} : Enqueue(kind, l)
    \/ SendChange \/ ProviderChanges \/ ChangeAnswered \/ ChangeRefused \/ ChangeFails \/ DescriptionRefused
    \/ Crash \/ RestoreLists \/ RefreshLists
    \/ \E k \in 1..MaxListChanges : DiscardChange(k) \/ RetryChange(k) \/ \E l \in Lists : AcceptChange(k, l)

\* The service runs its queue every minute, and every request ends.
ChangeMoves ==
    SendChange \/ ProviderChanges \/ ChangeAnswered \/ ChangeRefused \/ ChangeFails \/ DescriptionRefused
Fairness == WF_vars(ChangeMoves)
FairSpec == Init /\ [][Next]_vars /\ Fairness

-----------------------------------------------------------------------------
\* However answers get lost, a list is created, renamed or deleted once for
\* one wish of the user, and created once more for each time that the provider
\* refused to describe the list it had just made.
ListChangedOnce == \A k \in Recorded : done[k] <= 1 + undescribed[k]

\* Two creations never end up with one list, though their lists look the same
\* and the user matches the uncertain ones as he likes.
OneCreationPerList ==
    \A j, k \in Recorded : changes[j].kind = "create" /\ changes[k].kind = "create" /\ Status(j) = "succeeded"
        /\ Status(k) = "succeeded" /\ changes[j].result = changes[k].result => j = k

\* The lane of the lists changes a list once for one wish of the user, but for
\* lists that were made and not described, and two creations never get the same
\* list of the provider.
ListsAreRight == ListChangedOnce /\ OneCreationPerList

\* A list is deleted at the provider only while none of its tasks has a change
\* that is still to be sent or reviewed.
NoTaskStranded ==
    [][\A k \in Recorded : done'[k] > done[k] /\ changes[k].kind = "delete" =>
          waiting[changes[k].list] = "none"]_vars

\* A list change that may be sent is sent, and ends in an outcome.
ListChangesMove == \A k \in 1..MaxListChanges :
    []<>(k \in Recorded => Status(k) \notin {"queued", "running"})

\* The lane deletes a list only when no change of its tasks waits, and no change
\* of a list waits for ever.
ListChangesInTime == NoTaskStranded /\ ListChangesMove
=============================================================================
