----------------------------- MODULE DavCollection -----------------------------
(***************************************************************************)
(* A calendar or an address book of a CalDAV or CardDAV account            *)
(* (electron/productivity/dav-service.ts, dav-sync.ts, dav-store.ts): a    *)
(* queue of edits with the entity tags they are based on, and pulls that   *)
(* follow the sync token of the server page by page.  exclusive() lets     *)
(* commands, passes of the queue and pulls of an account run one at a      *)
(* time; other clients, lost answers and crashes come at any step.         *)
(*                                                                         *)
(* An item is a text with the tag of its version.  Left out: the formats,  *)
(* servers that report no tags or no sync tokens, rejected passwords,      *)
(* several collections, writes held after a restore, and collections       *)
(* hidden or removed.                                                      *)
(***************************************************************************)
EXTENDS Integers, Sequences

CONSTANTS
    NItems, NFirst,  \* addresses, and how many the server has an item at from the start
    MaxText,         \* bound: texts written by the user
    MaxForeign,      \* bound: changes of other clients
    MaxMishaps,      \* bound: failures, crashes, expired tokens
    Disturbed        \* a subset of {"review", "editor"}: a pull brings a newer version
                     \* while a review or an editor is open

VARIABLES
    server, log, floor,  \* the items, the addresses in the order they changed, and
                         \* the oldest position a token may have
    cache, op, token,    \* dav_resources, dav_operations, the collection's syncToken
    work,                \* what runs in exclusive()
    texts, foreign, mishaps,
    reached,   \* history: texts the server has had
    waived,    \* history: texts the user has replaced or given up
    seen       \* history: the versions that were shown

remote == <<server, log, floor>>
history == <<reached, waived, seen>>
bounds == <<texts, foreign, mishaps>>
vars == <<remote, cache, op, token, work, bounds, history>>

Item == 1..NItems
Absent == [text |-> 0, tag |-> 0]
\* "opened" is history: the version the user began the edit from.
NoOp == [action |-> "none", text |-> 0, base |-> 0, status |-> "none", due |-> FALSE, server |-> Absent, opened |-> 0]
Null == -1
Idle == [at |-> "idle", sync |-> FALSE, todo |-> {}, item |-> 0, tag |-> 0, token |-> Null, complete |-> FALSE,
         listed |-> [h \in Item |-> 0], removed |-> {}]
At(at) == work.at = at
Mishap == mishaps < MaxMishaps /\ mishaps' = mishaps + 1
InReview(h) == op[h].status \in {"conflict", "failed"}

Init ==
    /\ server = [h \in Item |-> IF h <= NFirst THEN [text |-> -h, tag |-> h] ELSE Absent]
    /\ log = [i \in 1..NFirst |-> i] /\ floor = 0
    /\ cache = server /\ token = NFirst
    /\ op = [h \in Item |-> NoOp] /\ work = Idle
    /\ texts = 0 /\ foreign = 0 /\ mishaps = 0
    /\ reached = {} /\ waived = {} /\ seen = {<<h, h>> : h \in 1..NFirst}

\* A pending write hides the copy of the server (project).
Shows == seen' = seen \cup {<<h, cache'[h].tag>> : h \in {i \in Item : op'[i] = NoOp}}

-----------------------------------------------------------------------------
(* enqueue, and the pass that follows every command.                       *)

Passes(sync) ==
    work' = [Idle EXCEPT !.at = "flush", !.sync = sync, !.todo = {h \in Item : op'[h].status = "queued" /\ op'[h].due}]

\* The base is the version in the cache now, and stays when writes are merged.
New(h, action, text, opened) ==
    [NoOp EXCEPT !.action = action, !.text = text, !.base = cache[h].tag, !.status = "queued", !.due = TRUE, !.opened = opened]
Merged(h, action, text) ==
    [op[h] EXCEPT !.action = IF @ = "create" THEN "create" ELSE action, !.text = text, !.due = TRUE]
Rebased(h, action, text, opened) ==
    IF op[h] = NoOp THEN New(h, action, text, opened) ELSE [Merged(h, action, text) EXCEPT !.base = cache[h].tag]
Enqueued(h, action, text, opened) ==
    IF op[h] = NoOp THEN New(h, action, text, opened) ELSE Merged(h, action, text)

Editable(h) ==
    \/ op[h] = NoOp /\ cache[h] # Absent
    \/ op[h].status = "queued" /\ op[h].action # "delete"
Openings(h) == IF "editor" \in Disturbed THEN {tag \in 1 .. cache[h].tag : <<h, tag>> \in seen} ELSE {cache[h].tag}
Write(h, action, opened) ==
    /\ At("idle") /\ texts < MaxText /\ texts' = texts + 1
    /\ op' = [op EXCEPT ![h] = Enqueued(h, action, texts + 1, opened)]
    /\ waived' = waived \cup {op[h].text}
    /\ UNCHANGED <<remote, cache, token, foreign, mishaps, reached>>
    /\ Passes(FALSE) /\ Shows
Fresh(h) == op[h] = NoOp /\ cache[h] = Absent /\ \A i \in 1 .. Len(log) : log[i] # h
Create(h) == Fresh(h) /\ Write(h, "create", 0)
Update(h) == Editable(h) /\ \E opened \in Openings(h) : Write(h, "update", opened)

\* A create that is deleted disappears from the queue.
Delete(h) ==
    /\ At("idle") /\ Editable(h)
    /\ \E opened \in Openings(h) :
        op' = [op EXCEPT ![h] = IF @.action = "create" THEN NoOp ELSE Enqueued(h, "delete", 0, opened)]
    /\ waived' = waived \cup {op[h].text}
    /\ UNCHANGED <<remote, cache, token, bounds, reached>>
    /\ Passes(FALSE) /\ Shows

-----------------------------------------------------------------------------
(* flush and send                                                          *)

Syncs == At("idle") /\ UNCHANGED <<remote, cache, op, token, bounds, history>> /\ Passes(TRUE)
SendBegins(h) ==
    /\ At("flush") /\ h \in work.todo
    /\ work' = [work EXCEPT !.at = "send", !.item = h, !.todo = @ \ {h}]
    /\ UNCHANGED <<remote, cache, op, token, bounds, history>>
FlushEnds ==
    /\ At("flush") /\ work.todo = {}
    /\ work' = IF work.sync THEN [Idle EXCEPT !.at = "report", !.token = token, !.complete = token = Null] ELSE Idle
    /\ UNCHANGED <<remote, cache, op, token, bounds, history>>

\* If-None-Match for a creation and If-Match otherwise.  A server may refuse to
\* delete what is not there (412) or say so (404), and then it is deleted.
Accepts(h) == IF op[h].action = "create" THEN server[h] = Absent ELSE server[h] # Absent /\ server[h].tag = op[h].base
GoneToo(h) == server[h] = Absent
Gone(h) == op[h].action = "delete" /\ server[h] = Absent
Becomes(h, text) ==
    /\ server' = [server EXCEPT ![h] = IF text = 0 THEN Absent ELSE [text |-> text, tag |-> Len(log) + 1]]
    /\ log' = Append(log, h) /\ UNCHANGED floor
Serves ==
    LET h == work.item IN
    /\ At("send")
    /\ IF Accepts(h)
       THEN /\ Becomes(h, op[h].text) /\ reached' = reached \cup {op[h].text}
            /\ work' = [work EXCEPT !.at = "done", !.tag = Len(log) + 1]
       ELSE /\ \E at \in {"conflict"} \cup (IF Gone(h) THEN {"done"} ELSE {}) : work' = [work EXCEPT !.at = at]
            /\ UNCHANGED <<remote, reached>>
    /\ UNCHANGED <<cache, op, token, bounds, waived, seen>>

\* completeOperation.  A server that sent no tag is asked what it stored.
ReadBack(h) == IF server[h] = Absent THEN [text |-> op[h].text, tag |-> 0] ELSE server[h]
Stored(h) == IF op[h].text = 0 THEN {Absent} ELSE {[text |-> op[h].text, tag |-> work.tag], ReadBack(h)}
Answered ==
    LET h == work.item IN
    /\ At("done")
    /\ \E copy \in Stored(h) : cache' = [cache EXCEPT ![h] = copy]
    /\ op' = [op EXCEPT ![h] = NoOp] /\ work' = [work EXCEPT !.at = "flush"]
    /\ UNCHANGED <<remote, token, bounds, reached, waived>>
    /\ Shows

\* conflict: what the server holds now is stored, in the cache and for the review.
Conflicts ==
    LET h == work.item IN
    /\ At("conflict")
    /\ cache' = [cache EXCEPT ![h] = server[h]]
    /\ op' = [op EXCEPT ![h].status = "conflict", ![h].server = server[h]]
    /\ work' = [work EXCEPT !.at = "flush"]
    /\ UNCHANGED <<remote, token, bounds, reached, waived>> /\ Shows

\* A request that fails before or after the server has acted.  A network error
\* ends the pass, an error of the server does not, and a refusal is reviewed.
Fails ==
    LET h == work.item IN
    /\ work.at \in {"send", "done", "conflict"} /\ Mishap
    /\ op' = [op EXCEPT ![h].due = FALSE]
    /\ \E todo \in {work.todo, {}} : work' = [work EXCEPT !.at = "flush", !.todo = todo]
    /\ UNCHANGED <<remote, cache, token, texts, foreign, history>>
Refused ==
    LET h == work.item IN
    /\ work.at \in {"send", "conflict"} /\ Mishap
    /\ op' = [op EXCEPT ![h].status = "failed", ![h].due = FALSE] /\ work' = [work EXCEPT !.at = "flush"]
    /\ UNCHANGED <<remote, cache, token, texts, foreign, history>>
BecomesDue(h) ==
    /\ op[h].status = "queued" /\ ~op[h].due /\ op' = [op EXCEPT ![h].due = TRUE]
    /\ UNCHANGED <<remote, cache, token, work, bounds, history>>

-----------------------------------------------------------------------------
(* syncCollectionReport, fetchResources and applyChanges                   *)

\* A page lists what changed up to a position; what follows it changed later.
ChangedIn(first, last) == {log[i] : i \in first + 1 .. last}
Report ==
    LET from == IF work.token = Null THEN 0 ELSE work.token IN
    /\ At("report") /\ (from >= floor \/ work.token = Null)
    /\ \E last \in from .. Len(log) :
        /\ last >= floor /\ (last > from \/ last = Len(log))
        /\ LET now == ChangedIn(from, last)
               gone == {h \in now : server[h] = Absent}
           IN  work' = [work EXCEPT !.token = last, !.at = IF last = Len(log) THEN "fetch" ELSE "report",
                !.listed = [h \in Item |-> IF h \in now THEN server[h].tag ELSE @[h]],
                !.removed = (@ \ now) \cup gone]
    /\ UNCHANGED <<remote, cache, op, token, bounds, history>>
Restarts ==
    /\ At("report") /\ work.token # Null /\ work.token < floor
    /\ work' = [Idle EXCEPT !.at = "report", !.complete = TRUE]
    /\ UNCHANGED <<remote, cache, op, token, bounds, history>>

Fetched(h) == work.listed[h] \notin {0, cache[h].tag} /\ server[h] # Absent
Removed(h) == h \in work.removed \/ (work.complete /\ work.listed[h] = 0)
Fetch ==
    /\ At("fetch")
    /\ cache' = [h \in Item |-> IF Fetched(h) THEN server[h] ELSE IF Removed(h) THEN Absent ELSE cache[h]]
    /\ token' = work.token /\ work' = Idle
    /\ UNCHANGED <<remote, op, bounds, reached, waived>>
    /\ Shows

PullFails ==
    /\ work.at \in {"report", "fetch"} /\ Mishap /\ work' = Idle
    /\ UNCHANGED <<remote, cache, op, token, texts, foreign, history>>
Crash ==
    /\ ~At("idle") /\ Mishap /\ work' = Idle
    /\ UNCHANGED <<remote, cache, op, token, texts, foreign, history>>

-----------------------------------------------------------------------------
(* resolve: the review of a change.                                        *)

KeepServer(h) ==
    /\ At("idle") /\ InReview(h)
    /\ ("review" \in Disturbed \/ op[h].status = "failed" \/ cache[h] = op[h].server)
    /\ cache' = IF op[h].status = "conflict" THEN [cache EXCEPT ![h] = op[h].server] ELSE cache
    /\ op' = [op EXCEPT ![h] = NoOp] /\ waived' = waived \cup {op[h].text}
    /\ UNCHANGED <<remote, token, bounds, reached>>
    /\ Passes(FALSE) /\ Shows

\* It is sent again against the version in the review.  An item the server no
\* longer has is created, or its deletion is complete.
Again(h) ==
    LET again == [op[h] EXCEPT !.status = "queued", !.due = TRUE, !.server = Absent] IN
    IF op[h].status = "failed" THEN again
    ELSE IF op[h].server # Absent THEN [again EXCEPT !.base = op[h].server.tag, !.opened = op[h].server.tag]
    ELSE IF op[h].action = "delete" THEN NoOp
    ELSE [again EXCEPT !.action = "create", !.base = 0, !.opened = 0]
KeepLocal(h) ==
    /\ At("idle") /\ InReview(h)
    /\ op' = [op EXCEPT ![h] = Again(h)]
    /\ cache' = IF Again(h) = NoOp THEN [cache EXCEPT ![h] = Absent] ELSE cache
    /\ UNCHANGED <<remote, token, bounds, reached, waived>>
    /\ Passes(FALSE) /\ Shows

-----------------------------------------------------------------------------
(* The server and its other clients.                                       *)

Foreign(h) ==
    /\ foreign < MaxForeign /\ foreign' = foreign + 1 /\ server[h] # Absent
    /\ \E text \in {0, -(NItems + foreign + 1)} : Becomes(h, text)
    /\ UNCHANGED <<cache, op, token, work, texts, mishaps, history>>
Expires ==
    /\ floor < Len(log) /\ Mishap /\ floor' = Len(log)
    /\ UNCHANGED <<server, log, cache, op, token, work, texts, foreign, history>>

WorkSteps ==
    \/ (\E h \in Item : SendBegins(h)) \/ FlushEnds \/ Serves \/ Answered \/ Conflicts \/ Report \/ Restarts \/ Fetch
Next ==
    \/ WorkSteps \/ Syncs \/ Fails \/ Refused \/ PullFails \/ Crash \/ Expires
    \/ \E h \in Item :
        Create(h) \/ Update(h) \/ Delete(h) \/ BecomesDue(h) \/ KeepServer(h) \/ KeepLocal(h) \/ Foreign(h)

\* A pass goes on, delays end, and the account is synchronized from time to time:
\* exclusive() serves its callers in turn.
Fairness == WF_vars(WorkSteps) /\ SF_vars(Syncs) /\ \A h \in Item : WF_vars(BecomesDue(h))
Spec == Init /\ [][Next]_vars
FairSpec == Spec /\ Fairness

-----------------------------------------------------------------------------
EditsKept == \A text \in 1 .. texts : text \in reached \cup waived \/ \E h \in Item : op[h].text = text
TokenCovers == \A h \in Item : h \in ChangedIn(token, Len(log)) \/ cache[h] = server[h]

\* Whatever fails in between, what the user wrote reaches the server or a review,
\* and an item of which the cache holds another version than the server is one
\* that the next report from the sync token lists.
CollectionIsSound == EditsKept /\ TokenCovers

\* A write or a deletion replaces the version of the server that the user began
\* from, or chose to replace in a review, and no other (If-Match).
NoBlindOverwrite ==
    [][\A h \in Item :
        At("send") /\ work' # work /\ server[h] \notin {Absent, server'[h]} => server[h].tag = op[h].opened]_vars

\* Documentation of CalDAV: a change that was kept in a review is refused again
\* only if the server's version is not the one reviewed.
ConflictsAreNew ==
    [][\A h \in Item :
        op[h].status = "queued" /\ op'[h].status = "conflict" /\ server[h] # Absent => server[h].tag # op[h].base]_vars

\* However often a pass fails, in the end no change waits outside a review and
\* the cache is what the server holds.
DavSettles == []<>(\A h \in Item : op[h].status # "queued" /\ cache[h] = server[h])

\* Passes of the queue and pulls bring the two sides together, and no change of
\* another client is overwritten unseen on the way.
CollectionMeets == NoBlindOverwrite /\ DavSettles
=============================================================================
