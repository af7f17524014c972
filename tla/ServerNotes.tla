------------------------------ MODULE ServerNotes ------------------------------
(***************************************************************************)
(* Notes of a CalDAV server (electron/productivity/server-notes-service,   *)
(* -store and dav-notes): a cache of the server, one queued change per     *)
(* note, a pass that sends them conditionally, and a review of what the    *)
(* server refuses.  Passes, synchronizations and reviews of an account     *)
(* exclude each other; edits, deletions and moves do not wait for them.    *)
(*                                                                         *)
(* A note is a text, and texts are numbered in the order they are written, *)
(* here or by another client.  A server changes the revision of an address *)
(* at each write.  Left out: folders that vanish or are read-only, the     *)
(* display state (color, pin, archive), attachments, sign-in, vNote files, *)
(* and the order in which a pass takes the changes.                        *)
(***************************************************************************)
EXTENDS Integers, FiniteSetsExt

CONSTANTS
    NNew,       \* notes that can be made here: created, copied or moved
    NFirst,     \* notes the server has at the beginning, all in the cache
    NAddress,   \* bound: addresses of notes
    MaxText,    \* bound: texts written, here or elsewhere
    MaxBreaks,  \* bound: lost requests and answers, refusals and ends of the process
    Disturbed   \* what the user may do at an awkward time: a subset of
                \* {"inflight", "retried", "moved", "twin"}: change a note while
                \* its request is awaited, change a new note the server has
                \* without our knowing, change a note that is being moved, and
                \* synchronize or be refused before such a new note is confirmed

VARIABLES
    server,     \* the text and revision at each address
    record,     \* server_notes
    op,         \* server_note_operations
    work,       \* what runs in `exclusive`
    moving,     \* pendingLocalMoves
    texts, breaks,
    origin,     \* history: the note an address was planned for
    owed,       \* history: the text saved last, until the server has had it
    seen        \* history: texts the user saw when acting on a note

vars == <<server, record, op, work, moving, texts, breaks, origin, owed, seen>>

Address == 1..NAddress
New == 1..NNew
RemoteNoteId(a) == NNew + a
Notes == 1 .. NNew + NAddress

NoCopy == [addr |-> 0, text |-> 0, rev |-> 0]
NoOp == [action |-> "none", status |-> "none", text |-> 0, base |-> NoCopy, planned |-> 0,
         server |-> NoCopy, gone |-> FALSE, due |-> TRUE, source |-> 0]
Idle == [at |-> "idle", note |-> 0, sent |-> NoOp, todo |-> {}, pull |-> FALSE]

At(at) == work.at = at
CopyAt(a) == IF server[a].text = 0 THEN NoCopy ELSE [addr |-> a, text |-> server[a].text, rev |-> server[a].rev]
Queued(n) == op[n].status = "queued"
Review(n) == op[n].status \in {"conflict", "failed"}
CanBreak == breaks < MaxBreaks /\ breaks' = breaks + 1
CanWrite == texts < MaxText /\ texts' = texts + 1

\* effective: what is shown for a note, the queued change applied.
Effective(n) == (record[n] # NoCopy \/ op[n].text # 0) /\ ~(op[n].action = "delete" /\ Queued(n))
Shown(n) == IF op[n].text # 0 THEN op[n].text ELSE record[n].text

Init ==
    /\ server = [a \in Address |-> IF a <= NFirst THEN [text |-> a, rev |-> 1] ELSE [text |-> 0, rev |-> 0]]
    /\ record = [n \in Notes |-> IF \E a \in 1..NFirst : n = RemoteNoteId(a) THEN CopyAt(n - NNew) ELSE NoCopy]
    /\ op = [n \in Notes |-> NoOp]
    /\ work = Idle /\ moving = {} /\ texts = NFirst /\ breaks = 0
    /\ origin = [a \in Address |-> IF a <= NFirst THEN RemoteNoteId(a) ELSE 0]
    /\ owed = [n \in Notes |-> 0] /\ seen = {}

-----------------------------------------------------------------------------
(* What the user does.                                                     *)

Fresh == {n \in New : op[n] = NoOp /\ record[n] = NoCopy /\ \A a \in Address : origin[a] # n}
Unplanned == {a \in Address : origin[a] = 0}
Settled(n) == op[n] = NoOp \/ Queued(n)

InFlight(n) == work.note = n
BeingMoved(n) == n \in moving \/ \E m \in Notes : op[m].source = n
Unconfirmed(n) == op[n].action = "create" /\ server[op[n].planned].text # 0
Calm(n) ==
    /\ "inflight" \in Disturbed \/ ~InFlight(n)
    /\ "retried" \in Disturbed \/ ~Unconfirmed(n)
    /\ "moved" \in Disturbed \/ ~BeingMoved(n)

\* enqueueCreate: the address is planned with the change, before any attempt.
CreateOp(text, a, source) ==
    [NoOp EXCEPT !.action = "create", !.status = "queued", !.text = text, !.planned = a, !.source = source]
Create ==
    /\ CanWrite /\ Fresh # {} /\ Unplanned # {}
    /\ LET n == Min(Fresh)  a == Min(Unplanned) IN
       /\ op' = [op EXCEPT ![n] = CreateOp(texts + 1, a, 0)]
       /\ origin' = [origin EXCEPT ![a] = n]
       /\ owed' = [owed EXCEPT ![n] = texts + 1]
    /\ UNCHANGED <<server, record, work, moving, breaks, seen>>

\* update: a change that waits is replaced, and keeps the base it had.
Edited(n, text) ==
    IF Queued(n) THEN [op[n] EXCEPT !.text = text, !.due = TRUE]
    ELSE [NoOp EXCEPT !.action = "update", !.status = "queued", !.text = text, !.base = record[n]]
Update(n) ==
    /\ Effective(n) /\ Settled(n) /\ Calm(n) /\ CanWrite
    /\ op' = [op EXCEPT ![n] = Edited(n, texts + 1)]
    /\ owed' = [owed EXCEPT ![n] = texts + 1]
    /\ seen' = seen \cup {Shown(n)}
    /\ UNCHANGED <<server, record, work, moving, breaks, origin>>

\* queueDelete.  A create that was not sent disappears; a note in review keeps its change.
QueueDelete(ops, n) ==
    IF ~Effective(n) \/ ~Settled(n) THEN ops
    ELSE [ops EXCEPT ![n] =
            CASE @.action = "create" -> NoOp
              [] @.action = "update" -> [@ EXCEPT !.action = "delete", !.text = 0, !.due = TRUE]
              [] OTHER -> [NoOp EXCEPT !.action = "delete", !.status = "queued", !.base = record[n]]]
Remove(n) ==
    /\ Effective(n) /\ Settled(n) /\ Calm(n)
    /\ op' = QueueDelete(op, n)
    /\ owed' = [owed EXCEPT ![n] = 0] /\ seen' = seen \cup {Shown(n)}
    /\ UNCHANGED <<server, record, work, moving, texts, breaks, origin>>

\* transfer: to another folder a copy is queued that remembers its source; to
\* Local the copy is handed to the window, which saves it some time later.
Current(n) == "moved" \in Disturbed \/ (op[n] = NoOp /\ server[record[n].addr].rev = record[n].rev)
Copied(n, a) == [op EXCEPT ![Min(Fresh)] = CreateOp(Shown(n), a, n)]
Transfer(n, to) ==
    /\ Effective(n) /\ Settled(n) /\ Calm(n) /\ Current(n)
    /\ IF to = "server"
       THEN /\ Fresh # {} /\ Unplanned # {}
            /\ LET a == Min(Unplanned) IN op' = Copied(n, a) /\ origin' = [origin EXCEPT ![a] = Min(Fresh)]
            /\ owed' = [owed EXCEPT ![Min(Fresh)] = Shown(n), ![n] = 0]
            /\ UNCHANGED moving
       ELSE /\ moving' = moving \cup {n} /\ owed' = [owed EXCEPT ![n] = 0]
            /\ UNCHANGED <<op, origin>>
    /\ seen' = seen \cup {Shown(n)}
    /\ UNCHANGED <<server, record, work, texts, breaks>>

LocalSaved(n) ==
    /\ n \in moving /\ moving' = moving \ {n}
    /\ op' = QueueDelete(op, n)
    /\ UNCHANGED <<server, record, work, texts, breaks, origin, owed, seen>>

-----------------------------------------------------------------------------
(* A pass: every queued change that is due is sent, one awaited request at *)
(* a time.  `work.sent` is the change as it was read before the request.   *)

Sendable(n) == n \in work.todo /\ Queued(n) /\ op[n].due
Flush(ops, pull) == [Idle EXCEPT !.at = "flush", !.todo = {n \in Notes : ops[n].status = "queued"}, !.pull = pull]
PassBegins(pull) ==
    /\ At("idle") /\ (pull \/ \E n \in Notes : Queued(n))
    /\ work' = Flush(op, pull)
    /\ UNCHANGED <<server, record, op, moving, texts, breaks, origin, owed, seen>>

SendBegins(n) ==
    /\ At("flush") /\ Sendable(n)
    /\ work' = [work EXCEPT !.at = "send", !.note = n, !.sent = op[n], !.todo = @ \ {n}]
    /\ UNCHANGED <<server, record, op, moving, texts, breaks, origin, owed, seen>>

AfterPass == IF work.pull THEN [Idle EXCEPT !.at = "pull"] ELSE Idle
NextChange == [work EXCEPT !.at = "flush", !.note = 0, !.sent = NoOp]

\* The server's part: If-None-Match for a create, If-Match for the rest.  A
\* create finds its own note when an earlier attempt had reached the server.
Target == IF work.sent.action = "create" THEN work.sent.planned ELSE work.sent.base.addr
Exists == server[Target].text # 0
Refuses ==
    CASE work.sent.action = "create" -> FALSE
      [] work.sent.action = "update" -> ~Exists \/ server[Target].rev # work.sent.base.rev
      [] OTHER -> Exists /\ server[Target].rev # work.sent.base.rev
AsIs == Refuses \/ (work.sent.action = "create" /\ Exists) \/ (work.sent.action = "delete" /\ ~Exists)
ServerDoes ==
    /\ server' = IF AsIs THEN server
                 ELSE [server EXCEPT ![Target] = [text |-> work.sent.text, rev |-> @.rev + 1]]
    /\ owed' = [owed EXCEPT ![work.note] = IF server'[Target].text = @ THEN 0 ELSE @]
Answer == [addr |-> Target, text |-> server'[Target].text, rev |-> server'[Target].rev]

\* The unique index over addresses: no other note may have this one.
Clash == \E m \in Notes \ {work.note} : record[m].addr = Target
Fail == [op EXCEPT ![work.note] = [work.sent EXCEPT !.status = "failed"]]
Completed == [op EXCEPT ![work.note] = NoOp]
SourceLeaves == IF work.sent.source = 0 THEN Completed ELSE QueueDelete(Completed, work.sent.source)

Answered ==
    /\ At("send") /\ ServerDoes
    /\ work' = IF Refuses THEN [work EXCEPT !.at = "fetch"] ELSE NextChange
    /\ IF Refuses THEN UNCHANGED <<record, op>>
       ELSE IF work.sent.action = "delete"
       THEN record' = [record EXCEPT ![work.note] = NoCopy] /\ op' = Completed
       ELSE IF Clash THEN op' = Fail /\ UNCHANGED record
       ELSE record' = [record EXCEPT ![work.note] = Answer] /\ op' = SourceLeaves
    /\ UNCHANGED <<moving, texts, breaks, origin, seen>>

\* conflict: what the server holds now is read, and the change waits for the user.
Fetched ==
    LET current == CopyAt(Target)
        moot == current = NoCopy /\ work.sent.action = "delete"
    IN  /\ At("fetch")
        /\ record' = IF moot THEN [record EXCEPT ![work.note] = NoCopy] ELSE record
        /\ op' = [op EXCEPT ![work.note] =
                    IF moot THEN NoOp
                    ELSE [work.sent EXCEPT !.status = "conflict", !.server = current, !.gone = current = NoCopy]]
        /\ work' = NextChange
        /\ UNCHANGED <<server, moving, texts, breaks, origin, owed, seen>>

\* A transient error: the change waits longer, and the pass ends.
PostponedForgotten == NoOp
Postponed == [work.sent EXCEPT !.due = FALSE]
Fails(reached) ==
    /\ (At("send") \/ (At("fetch") /\ ~reached)) /\ CanBreak
    /\ IF reached THEN ServerDoes ELSE UNCHANGED <<server, owed>>
    /\ op' = [op EXCEPT ![work.note] = Postponed] /\ work' = AfterPass
    /\ UNCHANGED <<record, moving, texts, origin, seen>>

\* Any other error: the change goes to review, and the pass goes on.
Rejected ==
    /\ At("send") /\ CanBreak /\ ("twin" \in Disturbed \/ ~Unconfirmed(work.note))
    /\ op' = Fail /\ work' = NextChange
    /\ UNCHANGED <<server, record, moving, texts, origin, owed, seen>>

PassEnds ==
    /\ At("flush") /\ ~\E n \in Notes : Sendable(n)
    /\ work' = AfterPass
    /\ UNCHANGED <<server, record, op, moving, texts, breaks, origin, owed, seen>>

\* nextAttemptAt is compared with the time the pass began.
BecomesDue(n) ==
    /\ At("idle") /\ Queued(n) /\ ~op[n].due
    /\ op' = [op EXCEPT ![n].due = TRUE]
    /\ UNCHANGED <<server, record, work, moving, texts, breaks, origin, owed, seen>>

-----------------------------------------------------------------------------
(* pullFolder: the cache becomes what the server holds.                    *)

KnownAs(a) == {n \in Notes : record[n].addr = a}
IdOf(a) == IF KnownAs(a) = {} THEN RemoteNoteId(a) ELSE Min(KnownAs(a))
RemovedIgnored == {n \in Notes : FALSE}
Removed == {n \in Notes : record[n] # NoCopy /\ server[record[n].addr].text = 0}
Twin == "twin" \notin Disturbed /\ \E n \in Notes : Unconfirmed(n)
Changed == {a \in Address : server[a].text # 0}
Pull ==
    /\ At("pull") /\ ~Twin
    /\ record' = [n \in Notes |->
          IF n \in Removed THEN NoCopy
          ELSE IF \E a \in Changed : IdOf(a) = n THEN CopyAt(CHOOSE a \in Changed : IdOf(a) = n)
          ELSE record[n]]
    /\ op' = [n \in Notes |-> IF n \in Removed /\ op[n].action = "delete" /\ Queued(n) THEN NoOp ELSE op[n]]
    /\ work' = Idle
    /\ UNCHANGED <<server, moving, texts, breaks, origin, owed, seen>>
PutOff ==
    /\ At("pull") /\ Twin /\ work' = Idle
    /\ UNCHANGED <<server, record, op, moving, texts, breaks, origin, owed, seen>>
PullFails ==
    /\ At("pull") /\ CanBreak /\ work' = Idle
    /\ UNCHANGED <<server, record, op, moving, texts, origin, owed, seen>>

-----------------------------------------------------------------------------
(* resolve: a refused change is decided on, and a pass follows.            *)

AcceptServer(n) ==
    [record EXCEPT ![n] = IF op[n].gone THEN NoCopy ELSE IF op[n].server # NoCopy THEN op[n].server ELSE @]

KeepServer(n) ==
    /\ record' = AcceptServer(n) /\ op' = [op EXCEPT ![n] = NoOp]
    /\ owed' = [owed EXCEPT ![n] = 0]
    /\ UNCHANGED <<origin, work>>

KeepBoth(n) ==
    /\ op[n].text # 0 /\ op[n].server # NoCopy /\ Fresh # {} /\ Unplanned # {}
    /\ LET m == Min(Fresh)  a == Min(Unplanned) IN
       /\ op' = [op EXCEPT ![n] = NoOp, ![m] = CreateOp(op[n].text, a, 0)]
       /\ origin' = [origin EXCEPT ![a] = m]
       /\ owed' = [owed EXCEPT ![n] = 0, ![m] = op[n].text]
    /\ record' = AcceptServer(n) /\ work' = Flush(op', FALSE)

AgainOverNewest(n) == [op[n] EXCEPT !.status = "queued", !.due = TRUE, !.server = NoCopy, !.gone = FALSE,
                                    !.base = CopyAt(@.addr)]
Again(n) == [op[n] EXCEPT !.status = "queued", !.due = TRUE, !.server = NoCopy, !.gone = FALSE,
                          !.base = IF op[n].server # NoCopy THEN op[n].server ELSE @]
KeepMine(n) ==
    LET recreate == op[n].action = "create" \/ op[n].gone IN
    /\ IF op[n].gone /\ op[n].action = "delete"
       THEN op' = [op EXCEPT ![n] = NoOp] /\ record' = AcceptServer(n) /\ UNCHANGED origin
       ELSE IF recreate
       THEN /\ Unplanned # {}
            /\ op' = [op EXCEPT ![n] = [Again(n) EXCEPT !.action = "create", !.base = NoCopy,
                                                        !.planned = Min(Unplanned)]]
            /\ origin' = [origin EXCEPT ![Min(Unplanned)] = n]
            /\ record' = [record EXCEPT ![n] = NoCopy]
       ELSE /\ op' = [op EXCEPT ![n] = Again(n)] /\ record' = AcceptServer(n) /\ UNCHANGED origin
    /\ work' = Flush(op', FALSE) /\ UNCHANGED owed

\* keep-server, copy-local (the text is in a Local note from then on), keep-both, keep-mine.
\* The server's copy is stored unless another note has its address by now.
Storable(n) == op[n].server = NoCopy \/ KnownAs(op[n].server.addr) \subseteq {n}
Resolve(n) ==
    /\ At("idle") /\ Review(n) /\ Storable(n)
    /\ KeepServer(n) \/ KeepBoth(n) \/ KeepMine(n)
    /\ seen' = seen \cup {op[n].server.text}
    /\ UNCHANGED <<server, moving, texts, breaks>>

-----------------------------------------------------------------------------
(* Another client, and the end of the process.                             *)

OtherClient(a, text) ==
    /\ server[a].text # 0 /\ ("moved" \in Disturbed \/ \A n \in KnownAs(a) : ~BeingMoved(n))
    /\ server' = [server EXCEPT ![a] = [text |-> text, rev |-> @.rev + 1]]
    /\ UNCHANGED <<record, op, work, moving, breaks, origin, owed, seen>>
OtherEdits(a) == CanWrite /\ OtherClient(a, texts + 1)
OtherDeletes(a) == OtherClient(a, 0) /\ UNCHANGED texts

Crash(reached) ==
    /\ CanBreak /\ (~At("idle") \/ moving # {}) /\ (reached => At("send"))
    /\ IF reached THEN ServerDoes ELSE UNCHANGED <<server, owed>>
    /\ work' = Idle /\ moving' = {}
    /\ UNCHANGED <<record, op, texts, origin, seen>>

WorkSteps ==
    \/ \E n \in Notes : SendBegins(n)
    \/ Answered \/ Fetched \/ PassEnds \/ Pull \/ PutOff
Syncs == PassBegins(TRUE)
Waits == \E n \in Notes : BecomesDue(n)
Next ==
    \/ WorkSteps \/ Syncs \/ Waits \/ PassBegins(FALSE) \/ Rejected \/ PullFails \/ Create
    \/ \E n \in Notes : Update(n) \/ Remove(n) \/ LocalSaved(n) \/ Resolve(n)
    \/ \E n \in Notes, to \in {"server", "local"} : Transfer(n, to)
    \/ \E a \in Address : OtherEdits(a) \/ OtherDeletes(a)
    \/ \E reached \in BOOLEAN : Fails(reached) \/ Crash(reached)

\* Accounts synchronize every 15 minutes, requests end, and time passes between passes.
Fairness == WF_vars(WorkSteps) /\ WF_vars(Syncs) /\ SF_vars(Waits)
FairSpec == Init /\ [][Next]_vars /\ Fairness

-----------------------------------------------------------------------------
\* What the user saved and has neither replaced nor given up is on its way to
\* the server until the server has had it.
EditsKept == \A n \in Notes : owed[n] # 0 => op[n].action \in {"create", "update"} /\ op[n].text = owed[n]

\* A write or deletion sent from here replaces only a text the user had seen
\* when acting on the note: a newer version is never overwritten unasked.
SentFromHere == At("send") /\ ~At("send")'
NoBlindWrite ==
    [][\A a \in Address : SentFromHere /\ server'[a] # server[a] /\ server[a].text # 0
            => server[a].text \in seen]_vars

\* The source of a move is given up only once the copy is on the server.
SourceLeavesLast ==
    [][\A n, m \in Notes :
          (op'[n].action = "delete" /\ op[n].action # "delete" /\ op'[m].source = n) => Remove(n)]_vars

\* The pass overwrites no version of a note that the user had not seen, and a
\* move deletes its source only when the copy is on the server.
ServerIsKept == NoBlindWrite /\ SourceLeavesLast

\* A new note has one copy on the server, however often its creation is retried.
OneCopy ==
    \A a, b \in Address : a # b /\ origin[a] = origin[b] /\ origin[a] # 0
        => server[a].text = 0 \/ server[b].text = 0

\* A queued change does not wait for ever: it is sent, or it is put to the user.
ChangesLeave == \A n \in Notes : []<>~Queued(n)

\* Once nothing changes any more, the cache is what the server holds.
CacheIsServer ==
    <>[](At("idle") => \A a \in Address : {record[n] : n \in KnownAs(a)} = {CopyAt(a)} \ {NoCopy})

\* Every change of a note is sent or put to the user, and when nothing changes
\* any more the cache is what the server holds.
NotesSettle == ChangesLeave /\ CacheIsServer
=============================================================================
