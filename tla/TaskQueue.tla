------------------------------- MODULE TaskQueue -------------------------------
(***************************************************************************)
(* Changes of provider tasks (electron/productivity/task-store.ts) and the *)
(* engine that sends them (task-sync-engine.ts): per-task order, revisions,*)
(* the successor of a recurring task, undo, uncertain writes that wait for *)
(* the user, restarts and restored backups.                                *)
(*                                                                         *)
(* Task 2 is the successor of task 1 and is created by completing it.  The *)
(* service runs its jobs in one lane (task-service.ts, serial), so while a *)
(* request is awaited only the provider, other programs and a crash act.   *)
(* A revision is a number that every write increases.  Subtasks, moves,    *)
(* permissions and the fields of a task are left out.  The user confirms   *)
(* and matches truthfully.                                                 *)
(***************************************************************************)
EXTENDS Naturals, Sequences, FiniteSets

CONSTANTS
    NChanges,     \* bound: changes ever recorded
    MaxAttempts,  \* attempts of a rate-limited change (5)
    MaxExternal,  \* bound: changes by other programs
    MaxFaults     \* bound: lost answers, refusals, rate limits and crashes

VARIABLES
    ops,         \* task_operations
    known,       \* task_entities.remote_json: the revision, or 0
    cached,      \* task_provider_snapshots: the revision of a task, or 0
    occurrence,  \* task_occurrences of task 1: completion and creation
    request,     \* the change whose answer is awaited, and whether it was carried out
    server,      \* the provider: the revision of a task, or 0
    revision,    \* the last revision given out
    faults, externals,
    applied,     \* history: how often the provider carried a change out
    reviewed     \* history: the last foreign revision that the user had seen
                 \* when he made, or made again, a change

vars == <<ops, known, cached, occurrence, request, server, revision, faults, externals, applied, reviewed>>

Tasks == {1, 2}
Active == {"queued", "running", "failed", "conflict", "review"}
Resting == [op |-> 0, phase |-> "none", rev |-> 0]
NoOccurrence == [completion |-> 0, creation |-> 0]
Op(k) == ops[k]
Recorded == DOMAIN ops
Of(t) == {k \in Recorded : Op(k).task = t}
ActiveOf(t) == {k \in Of(t) : Op(k).status \in Active}

Serial == request = Resting
With(k, status) == [ops EXCEPT ![k].status = status]
Foreign(t) == externals[t].last
FaultHappens == faults < MaxFaults /\ faults' = faults + 1

Init ==
    /\ ops = <<>>
    /\ known = [t \in Tasks |-> IF t = 1 THEN 1 ELSE 0] /\ cached = known
    /\ server = known /\ revision = 1
    /\ occurrence = NoOccurrence /\ request = Resting
    /\ faults = 0 /\ externals = [t \in Tasks |-> [count |-> 0, last |-> 0]]
    /\ applied = <<>> /\ reviewed = <<>>

-----------------------------------------------------------------------------
(* Recording and taking back.                                              *)

\* entity: a task is shown if the provider has it or a change will create it,
\* unless its deletion is recorded.
Visible(t) ==
    LET last == {k \in ActiveOf(t) : \A j \in ActiveOf(t) : j <= k}
    IN  IF last # {} THEN \A k \in last : Op(k).kind # "delete" ELSE known[t] # 0 /\ cached[t] # 0

Change(t, kind, base, after) ==
    [task |-> t, kind |-> kind, base |-> base, after |-> after, result |-> 0,
     status |-> "queued", attempts |-> 0, undoOf |-> 0, error |-> "none"]

\* What the user sees of foreign changes when he changes the task.
SeenNow(t) == IF cached[t] >= Foreign(t) THEN Foreign(t) ELSE 0

Record(new, seen) ==
    /\ Len(ops) + Len(new) <= NChanges
    /\ applied' = applied \o [i \in 1..Len(new) |-> 0]
    /\ reviewed' = reviewed \o seen

Edit(t, kind) ==
    /\ Serial /\ Visible(t)
    /\ kind \in {"update", "delete"}
    /\ Record(<<kind>>, <<SeenNow(t)>>)
    /\ ops' = Append(ops, Change(t, kind, known[t], 0))
    /\ UNCHANGED <<known, cached, occurrence, request, server, revision, faults, externals>>

\* update with completed: generateOccurrence adds the successor's creation,
\* unless one is there already.
Complete ==
    LET n == Len(ops) + 1
        fresh == occurrence = NoOccurrence \/ Op(occurrence.creation).status = "cancelled"
        new == IF fresh THEN <<Change(1, "update", known[1], 0), Change(2, "create", 0, n)>>
                        ELSE <<Change(1, "update", known[1], 0)>>
    IN  /\ Serial /\ Visible(1) /\ known[2] = 0
        /\ Record(new, [i \in 1..Len(new) |-> SeenNow(1)])
        /\ ops' = ops \o new
        /\ occurrence' = IF fresh THEN [completion |-> n, creation |-> n + 1] ELSE occurrence
        /\ UNCHANGED <<known, cached, request, server, revision, faults, externals>>

Unsent(k) ==
    /\ Op(k).attempts = 0
    /\ Op(k).status = "queued" \/ (Op(k).status = "review" /\ Op(k).error = "restored-write")

\* cancelCreation: a creation that is given up takes the unsent changes of its
\* task with it, and the creations that depend on them.
WithCreation(k) ==
    LET tasks == {Op(k).task} \cup {Op(j).task : j \in {j \in Recorded :
                     Op(j).kind = "create" /\ Op(j).after # 0 /\ Op(Op(j).after).task = Op(k).task}}
    IN  {j \in Recorded : Op(j).task \in tasks /\ (Op(j).status = "queued" \/ Unsent(j))}

CancelAll(set) == [k \in Recorded |-> IF k \in set THEN [Op(k) EXCEPT !.status = "cancelled"] ELSE Op(k)]

CreationRemoved ==
    LET c == occurrence.creation IN
    Op(c).status = "succeeded" /\ ~Visible(Op(c).task) /\ ActiveOf(Op(c).task) = {}

\* Undoing a completion: the successor must not be out, or be gone again.
SuccessorAllows(k) ==
    occurrence.completion = k =>
        Op(occurrence.creation).status = "cancelled" \/ CreationRemoved \/ Unsent(occurrence.creation)
SuccessorGoes(k) ==
    IF occurrence.completion = k /\ Unsent(occurrence.creation) THEN WithCreation(occurrence.creation) ELSE {}

Undo(k) ==
    /\ Serial /\ k \in Recorded
    /\ \A j \in Recorded : Op(j).undoOf = k => Op(j).status = "cancelled"
    /\ SuccessorAllows(k)
    /\ occurrence' = IF occurrence.completion = k THEN NoOccurrence ELSE occurrence
    /\ \/ /\ Op(k).status = "queued" /\ Op(k).attempts = 0
          /\ ops' = CancelAll({k} \cup SuccessorGoes(k) \cup
                              (IF Op(k).kind = "create" THEN WithCreation(k) ELSE {}))
          /\ UNCHANGED <<applied, reviewed>>
       \/ /\ Op(k).status = "succeeded"
          /\ \A j \in Of(Op(k).task) : j > k => Op(j).status = "cancelled"
          /\ Record(<<k>>, <<SeenNow(Op(k).task)>>)
          /\ ops' = Append(CancelAll(SuccessorGoes(k)),
                 [Change(Op(k).task,
                         CASE Op(k).kind = "create" -> "delete" [] Op(k).kind = "delete" -> "create" [] OTHER -> "update",
                         Op(k).result, 0) EXCEPT !.undoOf = k])
    /\ UNCHANGED <<known, cached, request, server, revision, faults, externals>>

-----------------------------------------------------------------------------
(* The engine.                                                             *)

DependencySettled(k) == Op(k).after # 0 => Op(Op(k).after).status = "succeeded"
Sendable(k) ==
    /\ Op(k).status = "queued" /\ DependencySettled(k)
    /\ \A j \in Of(Op(k).task) : j < k => Op(j).status \notin Active
FirstNew(k) == Sendable(k) /\ Op(k).attempts = 0
FirstSendable(k) == Sendable(k) /\ \A j \in 1..(k - 1) : ~Sendable(j)

Send ==
    /\ Serial
    /\ \E k \in Recorded :
          /\ FirstSendable(k)
          /\ IF Op(k).kind # "create" /\ Op(k).base = 0
             THEN ops' = [With(k, "failed") EXCEPT ![k].attempts = @ + 1] /\ UNCHANGED request
             ELSE ops' = [With(k, "running") EXCEPT ![k].attempts = @ + 1]
                  /\ request' = [op |-> k, phase |-> "sent", rev |-> 0]
    /\ UNCHANGED <<known, cached, occurrence, server, revision, faults, externals, applied, reviewed>>

\* The provider carries out a write whose revision is the present one.
LatestRevision(k) == known[Op(k).task]
Revision(k) == Op(k).base
Matches(k) == Op(k).kind = "create" \/ server[Op(k).task] = Revision(k)
ProviderApplies ==
    LET k == request.op IN
    /\ request.phase = "sent" /\ Matches(k)
    /\ revision' = revision + 1
    /\ LET rev == IF Op(k).kind = "delete" THEN 0 ELSE revision + 1
       IN  /\ server' = [server EXCEPT ![Op(k).task] = rev]
           /\ request' = [request EXCEPT !.phase = "done", !.rev = rev]
    /\ applied' = [applied EXCEPT ![k] = @ + 1]
    /\ externals' = IF Op(k).kind = "create" THEN [externals EXCEPT ![Op(k).task].last = 0] ELSE externals
    /\ UNCHANGED <<ops, known, cached, occurrence, faults, reviewed>>

\* finish: the result becomes the base of the local changes made over it.
Rebases(k, j) == Op(j).base = 0 \/ Op(j).base = Op(k).base
Finish(k, rev) ==
    LET t == Op(k).task
        done == [ops EXCEPT ![k].status = "succeeded", ![k].result = rev]
    IN  /\ ops' = [j \in Recorded |->
               IF j > k /\ j \in Of(t) /\ Op(j).status = "queued" /\ Op(k).kind # "delete" /\ Rebases(k, j)
               THEN [Op(j) EXCEPT !.base = rev] ELSE done[j]]
        /\ known' = [known EXCEPT ![t] = rev] /\ cached' = [cached EXCEPT ![t] = rev]

Ends(status) == ops' = With(request.op, status) /\ request' = Resting

Answered ==
    /\ request.phase = "done"
    /\ Finish(request.op, request.rev)
    /\ request' = Resting
    /\ UNCHANGED <<occurrence, server, revision, faults, externals, applied, reviewed>>

\* 404 for a deletion means that it is done; otherwise 404 and 412 are conflicts.
RevisionRefused ==
    LET k == request.op IN
    /\ request.phase = "sent" /\ ~Matches(k) /\ request' = Resting
    /\ IF Op(k).kind = "delete" /\ server[Op(k).task] = 0
       THEN Finish(k, 0)
       ELSE ops' = With(k, "conflict") /\ UNCHANGED <<known, cached>>
    /\ UNCHANGED <<occurrence, server, revision, faults, externals, applied, reviewed>>

RateLimited ==
    /\ request.phase = "sent" /\ FaultHappens
    /\ Ends(IF Op(request.op).attempts < MaxAttempts THEN "queued" ELSE "failed")
    /\ UNCHANGED <<known, cached, occurrence, server, revision, externals, applied, reviewed>>

Rejected ==
    /\ request.phase = "sent" /\ FaultHappens /\ Ends("failed")
    /\ UNCHANGED <<known, cached, occurrence, server, revision, externals, applied, reviewed>>

\* No answer, a failure of the server, or a result that could not be stored.
Uncertain ==
    /\ request.phase # "none" /\ FaultHappens /\ Ends("review")
    /\ UNCHANGED <<known, cached, occurrence, server, revision, externals, applied, reviewed>>

\* The application ends and starts again: the constructor of TaskStore.
RecoveredToSend(k) == IF Op(k).status = "running" THEN [Op(k) EXCEPT !.status = "queued"] ELSE Op(k)
Recovered(k) == IF Op(k).status = "running" THEN [Op(k) EXCEPT !.status = "review"] ELSE Op(k)
Restart ==
    /\ FaultHappens /\ request # Resting /\ request' = Resting
    /\ ops' = [k \in Recorded |-> Recovered(k)]
    /\ UNCHANGED <<known, cached, occurrence, server, revision, externals, applied, reviewed>>

\* restoreBackup of a backup made just now: everything active waits for review.
Restore ==
    /\ Serial /\ FaultHappens
    /\ ops' = [k \in Recorded |-> IF Op(k).status \in Active
                  THEN [Op(k) EXCEPT !.status = "review", !.error = "restored-write"] ELSE Op(k)]
    /\ UNCHANGED <<known, cached, occurrence, request, server, revision, externals, applied, reviewed>>

-----------------------------------------------------------------------------
(* Refreshing and resolving.                                               *)

\* replaceProviderSnapshot: never changes the base of a recorded change.
Refreshed ==
    /\ cached' = server
    /\ known' = [t \in Tasks |-> IF known[t] # 0 /\ server[t] # 0 THEN server[t] ELSE known[t]]

Refresh ==
    /\ Serial /\ cached # server /\ Refreshed
    /\ UNCHANGED <<ops, occurrence, request, server, revision, faults, externals, applied, reviewed>>

Unsettled(k) == Serial /\ k \in Recorded /\ Op(k).status \in {"failed", "conflict", "review"}

\* Discarding a change discards the later ones of its task; a completion takes
\* its unsent successor with it.
CompletionOf(k) == occurrence.completion = k
Discard(k) ==
    LET later == {j \in ActiveOf(Op(k).task) : j >= k}
        completes == \E j \in later : CompletionOf(j)
        creations == {j \in later : Op(j).kind = "create"} \cup (IF completes THEN {occurrence.creation} ELSE {})
    IN  /\ Unsettled(k)
        /\ completes => Op(occurrence.creation).status = "cancelled" \/ Unsent(occurrence.creation)
        /\ ops' = CancelAll(later \cup UNION {WithCreation(c) : c \in creations})
        /\ occurrence' = IF completes THEN NoOccurrence ELSE occurrence
        /\ UNCHANGED <<known, cached, request, server, revision, faults, externals, applied, reviewed>>

\* A full refresh first; the user confirms that an uncertain write was not
\* carried out, and reviews the present revision.
Retry(k) ==
    LET t == Op(k).task
        base == IF Op(k).kind = "create" THEN Op(k).base ELSE server[t]
    IN  /\ Unsettled(k) /\ Refreshed
        /\ Op(k).status = "review" => applied[k] = 0
        /\ Op(k).kind # "create" => server[t] # 0
        /\ ops' = [j \in Recorded |->
               IF j = k THEN [Op(k) EXCEPT !.status = "queued", !.base = base, !.error = "none"]
               ELSE IF j > k /\ j \in Of(t) /\ Op(j).status = "queued" /\ Rebases(k, j)
                    THEN [Op(j) EXCEPT !.base = base] ELSE Op(j)]
        /\ reviewed' = [j \in Recorded |->
               IF j = k \/ (j > k /\ j \in Of(t) /\ Op(j).status = "queued" /\ Rebases(k, j))
               THEN Foreign(t) ELSE reviewed[j]]
        /\ UNCHANGED <<occurrence, request, server, revision, faults, externals, applied>>

\* The user matches an uncertain write with what the provider has now.
Accept(k) ==
    LET t == Op(k).task IN
    /\ Unsettled(k)
    /\ IF Op(k).kind = "delete" THEN server[t] = 0 /\ Op(k).base # 0 ELSE server[t] # 0 /\ applied[k] > 0
    /\ LET done == [ops EXCEPT ![k].status = "succeeded", ![k].result = server[t]]
       IN  ops' = [j \in Recorded |->
               IF j > k /\ j \in Of(t) /\ Op(j).status = "queued" /\ Op(k).kind # "delete" /\ Rebases(k, j)
               THEN [Op(j) EXCEPT !.base = server[t]] ELSE done[j]]
    /\ cached' = server
    /\ known' = [u \in Tasks |-> IF u = t \/ (known[u] # 0 /\ server[u] # 0) THEN server[u] ELSE known[u]]
    /\ reviewed' = [j \in Recorded |->
           IF j > k /\ j \in Of(t) /\ Op(j).status = "queued" /\ Rebases(k, j) THEN Foreign(t) ELSE reviewed[j]]
    /\ UNCHANGED <<occurrence, request, server, revision, faults, externals, applied>>

\* Another program writes or deletes the task.
External(t) ==
    /\ server[t] # 0 /\ externals[t].count < MaxExternal
    /\ revision' = revision + 1
    /\ \E gone \in BOOLEAN : server' = [server EXCEPT ![t] = IF gone THEN 0 ELSE revision + 1]
    /\ externals' = [externals EXCEPT ![t] = [count |-> @.count + 1, last |-> revision + 1]]
    /\ UNCHANGED <<ops, known, cached, occurrence, request, faults, applied, reviewed>>

Next ==
    \/ \E t \in Tasks : (\E kind \in {"update", "delete"} : Edit(t, kind)) \/ External(t)
    \/ Complete
    \/ \E k \in 1..NChanges : Undo(k) \/ Discard(k) \/ Retry(k) \/ Accept(k)
    \/ Send \/ ProviderApplies \/ Answered \/ RevisionRefused \/ RateLimited \/ Rejected \/ Uncertain
    \/ Restart \/ Restore \/ Refresh

\* The service flushes the queue every minute, and every request ends.
Works == Send \/ ProviderApplies \/ Answered \/ RevisionRefused \/ RateLimited \/ Rejected \/ Uncertain
Fairness == WF_vars(Works)
FairSpec == Init /\ [][Next]_vars /\ Fairness

-----------------------------------------------------------------------------
\* However answers get lost, and whenever the application ends, a change is
\* carried out at most once.
CarriedOutOnce == \A k \in Recorded : applied[k] <= 1

\* The provider carries out a change only over a task whose foreign changes the
\* user had seen when he made the change or decided to repeat it.
NothingOverwritten ==
    [][\A k \in Recorded : applied'[k] > applied[k] /\ Op(k).kind # "create" =>
          reviewed[k] >= Foreign(Op(k).task)]_vars

\* The successor of a recurring task reaches the provider only after the
\* completion that called for it.
SuccessorIsDue ==
    \A k \in Recorded : applied[k] > 0 /\ Op(k).after # 0 => applied[Op(k).after] > 0

\* No waiting change depends on one that was given up: it would wait forever.
NoOrphan ==
    \A k \in Recorded : Op(k).status = "queued" /\ Op(k).after # 0 => Op(Op(k).after).status # "cancelled"

\* The engine carries out a task change at most once and a successor only after
\* its completion, and the store leaves none waiting for one it gave up.
QueueIsSound == CarriedOutOnce /\ SuccessorIsDue /\ NoOrphan

\* A change that nothing precedes is sent, and its outcome is recorded.
QueueMoves == \A k \in 1..NChanges :
    []<>(k \in Recorded => ~Sendable(k) /\ request.op # k)

\* Task changes get to the provider, and none over a version of the task that
\* the user had not seen.
TaskChangesMove == NothingOverwritten /\ QueueMoves
=============================================================================
