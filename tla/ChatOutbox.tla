------------------------------ MODULE ChatOutbox ------------------------------
(***************************************************************************)
(* The outgoing chat messages of one account (electron/chat/outbox.ts) and *)
(* what moves them: the commands of chat-service.ts, the drain that sends  *)
(* them one after the other, the echo of the synchronization (chat-store)  *)
(* and the recovery after a crash.                                         *)
(*                                                                         *)
(* Items are numbered in the order of the queue.  The drain gives up       *)
(* control only while it awaits a request.  Contents, media uploads and    *)
(* edits in place are left out; a reaction stands for an edit as well.     *)
(***************************************************************************)
EXTENDS Naturals, Sequences

CONSTANTS
    NItems,      \* bound: messages, reactions and deletions ever queued
    RoomOf,      \* the room of an item
    MaxLost,     \* bound: requests without a definitive answer
    MaxDevices   \* bound: sign-ins

ASSUME ChatConstants == NItems \in Nat /\ MaxLost \in Nat /\ MaxDevices \in Nat

VARIABLES
    item,     \* chat_outbox
    held,     \* rooms whose writes are held (chat_rooms.held)
    device,   \* the device of the account's present session
    canSend,  \* session ready, online, neither paused nor locked
    drain,    \* ChatOutbox.running
    timer,    \* Session.retryTimer
    lost,     \* requests that ended without a definitive answer
    log,      \* the room events at the homeserver: item and device, in order
    doubtful  \* history that no action reads: items whose request was cut off
              \* by the end of the process and that nobody looked at since

vars == <<item, held, device, canSend, drain, timer, lost, log, doubtful>>

Items == 1..NItems
Rooms == {RoomOf[i] : i \in Items}
Free == [state |-> "free", kind |-> "message", device |-> 0, after |-> 0, target |-> FALSE, event |-> FALSE]
Idle == [phase |-> "idle", item |-> 0, device |-> 0, blocked |-> {}]

ExistsIn(i, states) == item[i].state \in states
Exists(i) == ~ExistsIn(i, {"free", "deleted"})
Earlier(i) == {j \in 1..(i - 1) : RoomOf[j] = RoomOf[i] /\ Exists(j)}

\* The drain runs without a break up to its next request.
Calm == drain.phase # "loop"
Set(i, state) == item' = [item EXCEPT ![i].state = state]

\* kick: starts a drain, or joins the one that runs.
Kicked(sending) ==
    drain' = IF sending /\ drain.phase = "idle"
             THEN [phase |-> "loop", item |-> 0, device |-> device, blocked |-> {}]
             ELSE drain

Init ==
    /\ item = [i \in Items |-> Free]
    /\ held = {} /\ device = 1 /\ canSend = TRUE /\ drain = Idle /\ timer = FALSE
    /\ lost = 0 /\ log = <<>> /\ doubtful = {}

-----------------------------------------------------------------------------
(* Commands.                                                               *)

\* The target of a reaction or deletion: its event once it is known, or else
\* the item in the queue.
Targets(i) == {t \in Items : t < i /\ RoomOf[t] = RoomOf[i] /\ Exists(t)}

Enqueue(i, kind, t) ==
    /\ Calm
    /\ ExistsIn(i, {"free"}) /\ \A j \in Items : j < i => ~ExistsIn(j, {"free"})
    /\ RoomOf[i] \notin held
    /\ t = 0 <=> kind = "message"
    /\ t # 0 => t \in Targets(i)
    \* An unsent message is deleted by cancelling it.
    /\ kind = "redaction" => item[t].event \/ ExistsIn(t, {"running", "sent"})
    /\ item' = [item EXCEPT ![i] =
           [state |-> "pending", kind |-> kind, device |-> device,
            after |-> IF t # 0 /\ ~item[t].event THEN t ELSE 0,
            target |-> t # 0 /\ item[t].event, event |-> FALSE]]
    /\ Kicked(canSend)
    /\ UNCHANGED <<held, device, canSend, timer, lost, log, doubtful>>

\* An item goes with everything unsent that depends on it.
OnlyItself(i) == {i}
DependsOn(j, set) == item[j].after \in set /\ Exists(j) /\ ~ExistsIn(j, {"sent"})
Dependents(i) ==
    LET Closed(set) == i \in set /\ \A j \in Items : DependsOn(j, set) => j \in set
    IN  {j \in Items : \A set \in SUBSET Items : Closed(set) => j \in set}

Cancel(i) ==
    /\ Calm /\ ExistsIn(i, {"pending", "failed", "review"})
    /\ \A j \in Dependents(i) : ~ExistsIn(j, {"running"})
    /\ item' = [j \in Items |-> IF j \in Dependents(i) THEN [Free EXCEPT !.state = "deleted"] ELSE item[j]]
    /\ doubtful' = doubtful \ Dependents(i)
    /\ UNCHANGED <<held, device, canSend, drain, timer, lost, log>>

Retry(i) ==
    /\ Calm /\ ExistsIn(i, {"review", "failed"})
    /\ item[i].device = device
    /\ Set(i, "pending") /\ doubtful' = doubtful \ {i} /\ Kicked(canSend)
    /\ UNCHANGED <<held, device, canSend, timer, lost, log>>

\* roomAction "release-hold".
ReleaseHold(r) ==
    /\ Calm /\ r \in held
    /\ held' = held \ {r} /\ Kicked(canSend)
    /\ UNCHANGED <<item, device, canSend, timer, lost, log, doubtful>>

\* A sign-in ends the session, and with it the request that is awaited, before
\* it replaces the device.
SignIn ==
    /\ Calm /\ drain.phase = "idle" /\ device < MaxDevices
    /\ device' = device + 1 /\ canSend' = FALSE /\ timer' = FALSE
    /\ UNCHANGED <<item, held, drain, lost, log, doubtful>>

Connect ==
    /\ Calm /\ ~canSend
    /\ canSend' = TRUE /\ Kicked(TRUE)
    /\ UNCHANGED <<item, held, device, timer, lost, log, doubtful>>

Disconnect ==
    /\ Calm /\ canSend /\ canSend' = FALSE
    /\ UNCHANGED <<item, held, device, drain, timer, lost, log, doubtful>>

\* networkChanged and lockChanged start a drain whatever has changed.
Nudge ==
    /\ Calm /\ canSend /\ drain.phase = "idle" /\ Kicked(TRUE)
    /\ UNCHANGED <<item, held, device, canSend, timer, lost, log, doubtful>>

TimerFires ==
    /\ Calm /\ timer /\ timer' = FALSE /\ Kicked(canSend)
    /\ UNCHANGED <<item, held, device, canSend, lost, log, doubtful>>

\* pruneRetention: a sent item is not needed any more.
Prune(i) ==
    /\ Calm /\ ExistsIn(i, {"sent"})
    /\ item' = [item EXCEPT ![i] = [Free EXCEPT !.state = "deleted"]]
    /\ UNCHANGED <<held, device, canSend, drain, timer, lost, log, doubtful>>

-----------------------------------------------------------------------------
(* The drain.                                                              *)

Candidates == {i \in Items : ExistsIn(i, {"pending"}) /\ RoomOf[i] \notin drain.blocked}
LastPending(i) == i \in Candidates /\ \A j \in Candidates : j <= i
FirstPending(i) == i \in Candidates /\ \A j \in Candidates : i <= j

Obstructed(i) ==
    \/ RoomOf[i] \in held
    \/ \E j \in Earlier(i) : ~ExistsIn(j, {"sent"})
    \/ item[i].after # 0 /\ Exists(item[i].after) /\ ~ExistsIn(item[i].after, {"sent"})

OtherDevice(i) == item[i].device # drain.device

HasTarget(i) ==
    \/ item[i].target
    \/ item[i].after # 0 /\ Exists(item[i].after) /\ item[item[i].after].event

DrainBlocksRoom ==
    /\ drain.phase = "loop"
    /\ \E i \in Items : FirstPending(i) /\ Obstructed(i)
           /\ drain' = [drain EXCEPT !.blocked = @ \cup {RoomOf[i]}]
    /\ UNCHANGED <<item, held, device, canSend, timer, lost, log, doubtful>>

DrainReviews ==
    /\ drain.phase = "loop"
    /\ \E i \in Items : FirstPending(i) /\ ~Obstructed(i) /\ OtherDevice(i) /\ Set(i, "review")
    /\ UNCHANGED <<held, device, canSend, drain, timer, lost, log, doubtful>>

DrainSends ==
    /\ drain.phase = "loop"
    /\ \E i \in Items :
          /\ FirstPending(i) /\ ~Obstructed(i) /\ ~OtherDevice(i)
          \* sendOne: a deletion without a target is rejected before any request.
          /\ IF item[i].kind = "redaction" /\ ~HasTarget(i)
             THEN Set(i, "failed") /\ UNCHANGED drain
             ELSE Set(i, "running") /\ drain' = [drain EXCEPT !.phase = "request", !.item = i]
    /\ UNCHANGED <<held, device, canSend, timer, lost, log, doubtful>>

DrainEnds ==
    /\ drain.phase = "loop" /\ Candidates = {}
    /\ drain' = Idle
    /\ UNCHANGED <<item, held, device, canSend, timer, lost, log, doubtful>>

\* The homeserver takes a transaction once per device.
HomeserverTakes ==
    /\ drain.phase = "request" /\ canSend
    /\ LET e == <<drain.item, device>>
       IN  log' = IF \E n \in DOMAIN log : log[n] = e THEN log ELSE Append(log, e)
    /\ drain' = [drain EXCEPT !.phase = "taken"]
    /\ UNCHANGED <<item, held, device, canSend, timer, lost, doubtful>>

Accepted ==
    /\ drain.phase = "taken"
    /\ item' = IF Exists(drain.item)
               THEN [item EXCEPT ![drain.item].state = "sent", ![drain.item].event = TRUE]
               ELSE item
    /\ drain' = [drain EXCEPT !.phase = "loop", !.item = 0]
    /\ UNCHANGED <<held, device, canSend, timer, lost, log, doubtful>>

\* ChatSendRejected, and ChatEncryptionFailure, which holds the room (of an item
\* that was pruned meanwhile: as NoAnswer).
Rejected(hold) ==
    /\ drain.phase = "request" /\ Exists(drain.item) /\ lost < MaxLost
    /\ Set(drain.item, "failed")
    /\ held' = IF hold THEN held \cup {RoomOf[drain.item]} ELSE held
    /\ drain' = [drain EXCEPT !.phase = "loop", !.item = 0] /\ lost' = lost + 1
    /\ UNCHANGED <<device, canSend, timer, log, doubtful>>

\* No definitive answer: the drain ends and a timer starts the next one.  An
\* item that was pruned meanwhile cannot be written; the drain ends all the same.
NoAnswer ==
    /\ drain.phase \in {"request", "taken"}
    /\ ~canSend \/ lost < MaxLost
    /\ lost' = IF canSend THEN lost + 1 ELSE lost
    /\ item' = IF Exists(drain.item) THEN [item EXCEPT ![drain.item].state = "pending"] ELSE item
    /\ drain' = Idle /\ timer' = TRUE
    /\ UNCHANGED <<held, device, canSend, log, doubtful>>

\* applySyncBatch: the echo of an event of this device.
Echo(i) ==
    /\ Calm /\ canSend
    /\ \E n \in DOMAIN log : log[n] = <<i, device>>
    /\ item[i].device = device /\ Exists(i) /\ ~ExistsIn(i, {"sent"})
    /\ item' = [item EXCEPT ![i].state = "sent", ![i].event = TRUE]
    /\ doubtful' = doubtful \ {i}
    /\ UNCHANGED <<held, device, canSend, drain, timer, lost, log>>

\* applySyncBatch: the membership of a joined room was lost.
LosesRoom(r) ==
    /\ Calm /\ canSend /\ lost < MaxLost
    /\ held' = held \cup {r} /\ lost' = lost + 1
    /\ UNCHANGED <<item, device, canSend, drain, timer, log, doubtful>>

\* interruptedToReview.
RecoveredToPending(i) == IF ExistsIn(i, {"running"}) THEN [item[i] EXCEPT !.state = "pending"] ELSE item[i]
Recovered(i) == IF ExistsIn(i, {"running"}) THEN [item[i] EXCEPT !.state = "review"] ELSE item[i]

\* The application ends, starts and signs its session in again.
Restart ==
    /\ Calm
    /\ item' = [i \in Items |-> Recovered(i)]
    /\ doubtful' = doubtful \cup {i \in Items : ExistsIn(i, {"running"})}
    /\ drain' = Idle /\ timer' = FALSE /\ canSend' = FALSE
    /\ UNCHANGED <<held, device, lost, log>>

Next ==
    \/ \E i \in Items :
          \/ \E kind \in {"message", "reaction", "redaction"}, t \in 0..NItems : Enqueue(i, kind, t)
          \/ Cancel(i) \/ Retry(i) \/ Prune(i) \/ Echo(i)
    \/ \E r \in Rooms : ReleaseHold(r) \/ LosesRoom(r)
    \/ SignIn \/ Connect \/ Disconnect \/ Nudge \/ TimerFires \/ Restart
    \/ DrainBlocksRoom \/ DrainReviews \/ DrainSends \/ DrainEnds
    \/ HomeserverTakes \/ Accepted \/ (\E hold \in BOOLEAN : Rejected(hold)) \/ NoAnswer

Spec == Init /\ [][Next]_vars

\* The drain is not interrupted, a request ends, a set timer fires.
Drains == DrainBlocksRoom \/ DrainReviews \/ DrainSends \/ DrainEnds
Answers == HomeserverTakes \/ Accepted \/ (\E hold \in BOOLEAN : Rejected(hold)) \/ NoAnswer
Fairness == WF_vars(Drains) /\ WF_vars(Answers) /\ WF_vars(TimerFires)
FairSpec == Spec /\ Fairness

-----------------------------------------------------------------------------
\* A message reaches its room at most once: lost answers, the echo, crashes,
\* retries and sign-ins never make the homeserver store it twice.
OneEvent == \A m, n \in DOMAIN log : log[m][1] = log[n][1] => m = n

\* What reaches a room arrives in the order in which it was queued.
RoomOrder ==
    \A m, n \in DOMAIN log :
        m < n /\ RoomOf[log[m][1]] = RoomOf[log[n][1]] => log[m][1] <= log[n][1]

\* A reaction or deletion reaches the room only after the message it is about,
\* also when that message was cancelled, confirmed late or pruned meanwhile.
TargetIsThere ==
    \A n \in DOMAIN log :
        LET i == log[n][1] IN
        Exists(i) /\ item[i].after # 0 => \E m \in 1..(n - 1) : log[m][1] = item[i].after

\* What the outbox put into a room is there once, in the order in which it was
\* queued, and a reaction or deletion after the message it is about.
RoomIsRight == OneEvent /\ RoomOrder /\ TargetIsThere

\* A message whose request was cut off by the end of the process is not
\* requested again before the user retried it or the echo confirmed it.
NeverBlind == [][\A i \in Items : i \in doubtful /\ i \in doubtful' => item'[i].state # "running"]_vars

\* A pending message whose room is not held and that nothing before it holds up
\* is taken out of the queue, provided that the account stays connected and
\* that something starts the drain again and again.
Sendable(i) == ExistsIn(i, {"pending"}) /\ ~Obstructed(i)
KeepsDraining == (<>[]canSend) /\ []<>(drain.phase = "loop")
QueueDrains == \A i \in Items : KeepsDraining => []<>~Sendable(i)

\* The queue of a chat account moves, and yet never sends blindly again what was
\* being sent when the process ended.
ChatMoves == NeverBlind /\ QueueDrains
=============================================================================
