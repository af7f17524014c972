--------------------------- MODULE ChatOutboxProofs ---------------------------
(***************************************************************************)
(* What reaches the rooms from ChatOutbox is there once, in order, and     *)
(* after what it is about, for any number of messages, rooms and devices   *)
(* and any number of lost answers, crashes and sign-ins.                   *)
(***************************************************************************)
EXTENDS ChatOutbox, TLAPS

States == {"free", "pending", "running", "sent", "failed", "review", "deleted"}
ItemType == [state : States, kind : {"message", "reaction", "redaction"}, device : Nat,
             after : 0..NItems, target : BOOLEAN, event : BOOLEAN]
DrainType == [phase : {"idle", "loop", "request", "taken"}, item : 0..NItems,
              device : Nat, blocked : SUBSET Rooms]
TypeOK ==
    /\ item \in [Items -> ItemType] /\ device \in Nat
    /\ drain \in DrainType /\ log \in Seq(Items \X Nat)

Arrived(i) == \E n \in DOMAIN log : log[n][1] = i
FromItsDevice(i) == \A n \in DOMAIN log : log[n][1] = i => log[n][2] = item[i].device
FromThisSession(i) == \A n \in DOMAIN log : log[n][1] = i => log[n][2] = device
SameRoom(i, j) == RoomOf[i] = RoomOf[j]
About(i, t) == Exists(i) /\ item[i].after = t

\* The queue is filled in order; what it says was sent has arrived, from the
\* device that it names; what an item is about was queued before, and is gone
\* only after it arrived; and whatever arrived did so after everything that
\* was queued before it in its room, but for what was cancelled.
Sound(i) ==
    /\ ExistsIn(i, {"free"}) => ~Arrived(i) /\ \A j \in Items : i < j => ExistsIn(j, {"free"})
    /\ ExistsIn(i, {"sent"}) => Arrived(i)
    /\ Exists(i) => FromItsDevice(i)
    /\ \A t \in Items : About(i, t) =>
           t < i /\ ~ExistsIn(t, {"free"}) /\ (ExistsIn(t, {"deleted"}) \/ Arrived(i) => Arrived(t))
    /\ Exists(i) /\ ~Arrived(i) => \A j \in Items : i < j /\ SameRoom(i, j) => ~Arrived(j)

\* It is the turn of the item in flight, which is of the present session; when
\* it was pruned meanwhile it had arrived before.
InFlight == drain.phase \in {"request", "taken"}
Turn(i) ==
    /\ ExistsIn(i, {"running", "sent", "deleted"})
    /\ ExistsIn(i, {"deleted"}) => Arrived(i)
    /\ Exists(i) => item[i].device = device
    /\ FromThisSession(i)
    /\ \A j \in Items : j < i /\ SameRoom(i, j) /\ Exists(j) => Arrived(j)
    /\ \A t \in Items : About(i, t) => Arrived(t)
    /\ drain.phase = "taken" => Arrived(i)
Awaiting ==
    /\ drain.phase # "idle" => drain.device = device
    /\ InFlight => drain.item \in Items /\ \A i \in Items : drain.item = i => Turn(i)

IInv == TypeOK /\ (\A i \in Items : Sound(i)) /\ Awaiting /\ RoomIsRight

-----------------------------------------------------------------------------
(* Steps that put nothing into a room and queue nothing.                   *)

\* The item stays, with what it is about, and counts as sent only when it has
\* arrived.
Stays(i) ==
    /\ item'[i].device = item[i].device /\ item'[i].after = item[i].after
    /\ \A s \in {"free", "deleted"} : ExistsIn(i, {s})' <=> ExistsIn(i, {s})
    /\ ExistsIn(i, {"sent"})' => Arrived(i)

\* The item goes, and whatever is about it and stays had it arrive before.
Goes(i) ==
    /\ Exists(i) /\ ExistsIn(i, {"deleted"})'
    /\ \A j \in Items : Exists(j)' /\ item[j].after = i => Arrived(i)

Restated == log' = log /\ \A i \in Items : Stays(i) \/ Goes(i)

\* What arrived depends on the log alone.
LEMMA ArrivedKept ==
    ASSUME log' = log
    PROVE  \A i : Arrived(i)' <=> Arrived(i)
BY DEF Arrived

\* In such a step every item that stays is one that was there.
LEMMA RestatedItem ==
    ASSUME Restated, NEW i \in Items
    PROVE  /\ ExistsIn(i, {"free"})' <=> ExistsIn(i, {"free"})
           /\ ExistsIn(i, {"sent"})' => Arrived(i)
           /\ Exists(i)' => Exists(i)
           /\ \A t : About(i, t)' => About(i, t)
           /\ Exists(i)' /\ FromItsDevice(i) => FromItsDevice(i)'
           /\ ExistsIn(i, {"deleted"}) => ExistsIn(i, {"deleted"})'
           /\ ExistsIn(i, {"deleted"})' => ExistsIn(i, {"deleted"}) \/ Goes(i)
BY DEF Restated, Stays, Goes, Exists, ExistsIn, About, FromItsDevice

\* Such a step keeps what every item says true.
LEMMA RestatedSound ==
    ASSUME \A i \in Items : Sound(i), Restated
    PROVE  \A i \in Items : Sound(i)'
<1> SUFFICES ASSUME NEW i \in Items PROVE Sound(i)'
  OBVIOUS
<1>1. \A k : Arrived(k)' <=> Arrived(k)
  BY ArrivedKept DEF Restated
<1>2. Sound(i)
  OBVIOUS
<1>3. ExistsIn(i, {"free"})' => ~Arrived(i)' /\ \A j \in Items : i < j => ExistsIn(j, {"free"})'
  BY <1>1, <1>2, RestatedItem DEF Sound
<1>4. ExistsIn(i, {"sent"})' => Arrived(i)'
  BY <1>1, RestatedItem
<1>5. Exists(i)' => FromItsDevice(i)'
  BY <1>2, RestatedItem DEF Sound
<1>6. ASSUME NEW t \in Items, About(i, t)'
      PROVE  t < i /\ ~ExistsIn(t, {"free"})' /\ (ExistsIn(t, {"deleted"})' \/ Arrived(i)' => Arrived(t)')
  <2>1. About(i, t)
    BY <1>6, RestatedItem
  <2>2. t < i /\ ~ExistsIn(t, {"free"}) /\ (ExistsIn(t, {"deleted"}) \/ Arrived(i) => Arrived(t))
    BY <1>2, <2>1 DEF Sound
  <2>3. Goes(t) => Arrived(t)
    BY <1>6, <2>1 DEF Goes, About
  <2> QED BY <1>1, <2>2, <2>3, RestatedItem
<1>7. ASSUME Exists(i)', ~Arrived(i)', NEW j \in Items, i < j, SameRoom(i, j)
      PROVE  ~Arrived(j)'
  BY <1>1, <1>2, <1>7, RestatedItem DEF Sound
<1>8. \A j : SameRoom(i, j)' = SameRoom(i, j)
  BY DEF SameRoom
<1> QED BY <1>3, <1>4, <1>5, <1>6, <1>7, <1>8 DEF Sound

\* Such a step leaves the rooms right.
LEMMA RestatedRoom ==
    ASSUME TypeOK, RoomIsRight, Restated
    PROVE  RoomIsRight'
<1>1. log' = log
  BY DEF Restated
<1>2. OneEvent' /\ RoomOrder'
  BY <1>1 DEF RoomIsRight, OneEvent, RoomOrder
<1>3. TargetIsThere'
  <2> SUFFICES ASSUME NEW n \in DOMAIN log, Exists(log[n][1])', item'[log[n][1]].after # 0
               PROVE  \E m \in 1..(n - 1) : log[m][1] = item'[log[n][1]].after
    BY <1>1 DEF TargetIsThere, Exists, ExistsIn
  <2>1. PICK i \in Items : i = log[n][1]
    BY DEF TypeOK
  <2>2. Exists(i)' /\ item'[i].after # 0
    BY <1>1, <2>1 DEF Exists, ExistsIn
  <2>3. Exists(i) /\ item'[i].after = item[i].after
    BY <2>2 DEF Restated, Stays, Goes, Exists, ExistsIn
  <2> QED BY <2>1, <2>2, <2>3 DEF RoomIsRight, TargetIsThere, Exists, ExistsIn
<1> QED BY <1>2, <1>3 DEF RoomIsRight

\* Such a step keeps what the request in flight rests on, as long as its item
\* is not taken out of its hands.
LEMMA RestatedTurn ==
    ASSUME Restated, UNCHANGED <<drain, device>>, NEW i \in Items, Turn(i),
           ExistsIn(i, {"running", "sent", "deleted"})', ExistsIn(i, {"deleted"})' => Arrived(i)
    PROVE  Turn(i)'
<1>1. \A k : Arrived(k)' <=> Arrived(k)
  BY ArrivedKept DEF Restated
<1>2. Exists(i)' => item'[i].device = device'
  BY DEF Restated, Stays, Goes, Turn, Exists, ExistsIn
<1>3. FromThisSession(i)'
  BY DEF Turn, FromThisSession, Restated
<1>4. \A j \in Items : j < i /\ SameRoom(i, j) /\ Exists(j)' => Arrived(j)'
  BY <1>1, RestatedItem DEF Turn
<1>5. \A t \in Items : About(i, t)' => Arrived(t)'
  BY <1>1, RestatedItem DEF Turn
<1>6. drain'.phase = "taken" => Arrived(i)'
  BY <1>1 DEF Turn
<1>7. \A j : SameRoom(i, j)' = SameRoom(i, j)
  BY DEF SameRoom
<1> QED BY <1>1, <1>2, <1>3, <1>4, <1>5, <1>6, <1>7 DEF Turn

LEMMA RestatedAwaiting ==
    ASSUME Awaiting, Restated, UNCHANGED <<drain, device>>,
           \A i \in Items : InFlight /\ drain.item = i =>
               ExistsIn(i, {"running", "sent", "deleted"})' /\ (ExistsIn(i, {"deleted"})' => Arrived(i))
    PROVE  Awaiting'
<1>1. \A i \in Items : InFlight /\ drain.item = i => Turn(i)'
  BY RestatedTurn DEF Awaiting
<1>2. InFlight' = InFlight
  BY DEF InFlight
<1> QED BY <1>1, <1>2 DEF Awaiting

\* Between two requests, or with no drain, nothing is in flight.
LEMMA NothingInFlight ==
    ASSUME drain'.phase \notin {"request", "taken"}, drain'.phase # "idle" => drain'.device = device'
    PROVE  Awaiting'
BY DEF Awaiting, InFlight

-----------------------------------------------------------------------------
(* The steps.                                                              *)

Sounds == \A i \in Items : Sound(i)

\* A step that changes no item restates them all.
LEMMA NothingChanges ==
    ASSUME Sounds, item' = item, log' = log
    PROVE  Restated
BY DEF Sounds, Sound, Restated, Stays, ExistsIn

\* So does one that gives one item another state.
LEMMA OneChanges ==
    ASSUME Sounds, log' = log, NEW i \in Items, Exists(i), Exists(i)',
           item'[i].device = item[i].device, item'[i].after = item[i].after,
           ExistsIn(i, {"sent"})' => Arrived(i),
           \A j \in Items \ {i} : item'[j] = item[j]
    PROVE  Restated
<1> SUFFICES ASSUME NEW j \in Items PROVE Stays(j)
  BY DEF Restated
<1>1. CASE j = i
  BY <1>1 DEF Stays, Exists, ExistsIn
<1>2. CASE j # i
  BY <1>2 DEF Sounds, Sound, Stays, ExistsIn
<1> QED BY <1>1, <1>2

\* A kick leaves the drain, or starts one of the present session.
LEMMA KickedAwaiting ==
    ASSUME NEW b, Awaiting, Restated, Kicked(b), UNCHANGED device, TypeOK,
           \A i \in Items : InFlight /\ drain.item = i =>
               ExistsIn(i, {"running", "sent", "deleted"})' /\ (ExistsIn(i, {"deleted"})' => Arrived(i))
    PROVE  Awaiting'
<1>1. CASE drain' = drain
  BY <1>1, RestatedAwaiting
<1>2. CASE drain' # drain
  BY <1>2, NothingInFlight DEF Kicked
<1> QED BY <1>1, <1>2

\* What is in flight when no item changes.
LEMMA SameInFlight ==
    ASSUME Awaiting, item' = item, NEW i \in Items, InFlight, drain.item = i
    PROVE  ExistsIn(i, {"running", "sent", "deleted"})' /\ (ExistsIn(i, {"deleted"})' => Arrived(i))
BY DEF Awaiting, Turn, ExistsIn

Quiet ==
    \/ \E r \in Rooms : ReleaseHold(r) \/ LosesRoom(r)
    \/ SignIn \/ Connect \/ Disconnect \/ Nudge \/ TimerFires
    \/ DrainBlocksRoom \/ DrainEnds

\* Steps that change neither an item nor a room.
LEMMA QuietKeeps ==
    ASSUME IInv, Quiet
    PROVE  Restated /\ Awaiting'
<1>1. item' = item /\ log' = log
  BY DEF Quiet, ReleaseHold, LosesRoom, SignIn, Connect, Disconnect, Nudge, TimerFires, DrainBlocksRoom, DrainEnds
<1>2. Restated
  BY <1>1, NothingChanges DEF IInv, Sounds
<1>3. Awaiting'
  <2> USE DEF IInv
  <2>1. ASSUME UNCHANGED <<drain, device>> PROVE Awaiting'
    BY <1>1, <1>2, <2>1, SameInFlight, RestatedAwaiting
  <2>2. ASSUME NEW b, Kicked(b), UNCHANGED device PROVE Awaiting'
    BY <1>1, <1>2, <2>2, SameInFlight, KickedAwaiting
  <2>3. CASE \E r \in Rooms : ReleaseHold(r) \/ LosesRoom(r)
    BY <2>1, <2>2, <2>3 DEF ReleaseHold, LosesRoom
  <2>4. CASE SignIn
    BY <2>4, NothingInFlight DEF SignIn
  <2>5. CASE Connect \/ Nudge \/ TimerFires
    BY <2>2, <2>5 DEF Connect, Nudge, TimerFires
  <2>6. CASE Disconnect
    BY <2>1, <2>6 DEF Disconnect
  <2>7. CASE DrainBlocksRoom \/ DrainEnds
    BY <2>7, NothingInFlight DEF DrainBlocksRoom, DrainEnds, Awaiting, TypeOK, DrainType, Idle
  <2> QED BY <2>3, <2>4, <2>5, <2>6, <2>7 DEF Quiet
<1> QED BY <1>2, <1>3

\* A reaction goes with the message it is about, unless it was sent before.
LEMMA DependentsClosed ==
    ASSUME NEW i \in Items
    PROVE  /\ Dependents(i) \subseteq Items /\ i \in Dependents(i)
           /\ \A j \in Items : DependsOn(j, Dependents(i)) => j \in Dependents(i)
           /\ \A j \in Dependents(i) : j = i \/ (Exists(j) /\ ~ExistsIn(j, {"sent"}))
<1> DEFINE Closed(set) == i \in set /\ \A j \in Items : DependsOn(j, set) => j \in set
           D == {j \in Items : \A set \in SUBSET Items : Closed(set) => j \in set}
           Unsent == {i} \cup {j \in Items : Exists(j) /\ ~ExistsIn(j, {"sent"})}
<1>1. Dependents(i) = D
  BY DEF Dependents
<1>2. \A j \in Items : DependsOn(j, D) => j \in D
  <2> SUFFICES ASSUME NEW j \in Items, DependsOn(j, D), NEW set \in SUBSET Items, Closed(set)
               PROVE  j \in set
    OBVIOUS
  <2>1. D \subseteq set
    OBVIOUS
  <2> QED BY <2>1 DEF DependsOn
<1>3. D \subseteq Unsent
  <2>1. Unsent \in SUBSET Items /\ Closed(Unsent)
    BY DEF DependsOn
  <2> QED BY <2>1
<1>4. D \subseteq Items /\ i \in D
  OBVIOUS
<1> QED BY <1>1, <1>2, <1>3, <1>4

\* Cancelling.
LEMMA CancelKeeps ==
    ASSUME IInv, NEW i \in Items, Cancel(i)
    PROVE  Restated /\ Awaiting'
<1> DEFINE D == Dependents(i)
<1>1. /\ D \subseteq Items
      /\ \A j \in Items : DependsOn(j, D) => j \in D
      /\ \A j \in D : Exists(j) /\ ~ExistsIn(j, {"running", "sent"})
  BY DependentsClosed DEF Cancel, Exists, ExistsIn
<1>2. /\ \A j \in Items : item'[j] = IF j \in D THEN [Free EXCEPT !.state = "deleted"] ELSE item[j]
      /\ UNCHANGED <<drain, device, log>>
  BY DEF Cancel
<1> HIDE DEF D
<1>3. ASSUME NEW j \in D PROVE Goes(j)
  <2>1. ASSUME NEW k \in Items, Exists(k)', item[k].after = j PROVE Arrived(j)
    <3>1. k \notin D /\ Exists(k)
      BY <1>2, <2>1 DEF Exists, ExistsIn, Free
    <3>2. ExistsIn(k, {"sent"})
      BY <1>1, <2>1, <3>1 DEF DependsOn
    <3> QED BY <1>1, <2>1, <3>1, <3>2 DEF IInv, Sound, About
  <2>2. Exists(j) /\ ExistsIn(j, {"deleted"})'
    BY <1>1, <1>2 DEF ExistsIn, Free
  <2> QED BY <2>1, <2>2 DEF Goes
<1>4. ASSUME NEW j \in Items, j \notin D PROVE Stays(j)
  BY <1>2, <1>4 DEF IInv, Sound, Stays, ExistsIn
<1>5. Restated
  BY <1>2, <1>3, <1>4 DEF Restated
<1>6. ASSUME NEW j \in Items, InFlight, drain.item = j
      PROVE  ExistsIn(j, {"running", "sent", "deleted"})' /\ (ExistsIn(j, {"deleted"})' => Arrived(j))
  <2>1. Turn(j)
    BY <1>6 DEF IInv, Awaiting
  <2>2. j \notin D
    BY <1>1, <2>1 DEF Turn, Exists, ExistsIn
  <2> QED BY <1>2, <2>1, <2>2 DEF Turn, ExistsIn
<1> QED BY <1>2, <1>5, <1>6, RestatedAwaiting DEF IInv

\* Retrying, and the echo of a synchronization.
LEMMA RetryKeeps ==
    ASSUME IInv, NEW i \in Items, Retry(i)
    PROVE  Restated /\ Awaiting'
<1>1. /\ Exists(i) /\ Exists(i)' /\ ~ExistsIn(i, {"sent"})'
      /\ item'[i].device = item[i].device /\ item'[i].after = item[i].after
      /\ \A j \in Items \ {i} : item'[j] = item[j]
      /\ UNCHANGED <<device, log>> /\ Kicked(canSend)
  BY DEF IInv, TypeOK, ItemType, Retry, Set, Exists, ExistsIn
<1>2. Restated
  BY <1>1, OneChanges DEF IInv, Sounds
<1>3. ASSUME NEW j \in Items, InFlight, drain.item = j
      PROVE  ExistsIn(j, {"running", "sent", "deleted"})' /\ (ExistsIn(j, {"deleted"})' => Arrived(j))
  <2>1. Turn(j)
    BY <1>3 DEF IInv, Awaiting
  <2>2. j # i
    BY <2>1 DEF Turn, Retry, ExistsIn
  <2> QED BY <1>1, <2>1, <2>2 DEF Turn, ExistsIn
<1> QED BY <1>1, <1>2, <1>3, KickedAwaiting DEF IInv

LEMMA EchoKeeps ==
    ASSUME IInv, NEW i \in Items, Echo(i)
    PROVE  Restated /\ Awaiting'
<1>1. Arrived(i)
  BY DEF Echo, Arrived
<1>2. /\ Exists(i) /\ Exists(i)' /\ ExistsIn(i, {"sent"})'
      /\ item'[i].device = item[i].device /\ item'[i].after = item[i].after
      /\ \A j \in Items \ {i} : item'[j] = item[j]
      /\ UNCHANGED <<drain, device, log>>
  BY DEF IInv, TypeOK, ItemType, Echo, Exists, ExistsIn
<1>3. Restated
  BY <1>1, <1>2, OneChanges DEF IInv, Sounds
<1>4. ASSUME NEW j \in Items, InFlight, drain.item = j
      PROVE  ExistsIn(j, {"running", "sent", "deleted"})' /\ (ExistsIn(j, {"deleted"})' => Arrived(j))
  <2>1. Turn(j)
    BY <1>4 DEF IInv, Awaiting
  <2> QED BY <1>1, <1>2, <2>1 DEF Turn, ExistsIn
<1> QED BY <1>2, <1>3, <1>4, RestatedAwaiting DEF IInv

\* Pruning: a sent item has arrived.
LEMMA PruneKeeps ==
    ASSUME IInv, NEW i \in Items, Prune(i)
    PROVE  Restated /\ Awaiting'
<1>1. Arrived(i) /\ Exists(i)
  BY DEF IInv, Sound, Prune, Exists, ExistsIn
<1>2. /\ ExistsIn(i, {"deleted"})' /\ \A j \in Items \ {i} : item'[j] = item[j]
      /\ UNCHANGED <<drain, device, log>>
  BY DEF IInv, TypeOK, Prune, ExistsIn, Free
<1>3. Restated
  <2>1. Goes(i)
    BY <1>1, <1>2 DEF Goes
  <2>2. \A j \in Items \ {i} : Stays(j)
    BY <1>2 DEF IInv, Sound, Stays, ExistsIn
  <2> QED BY <1>2, <2>1, <2>2 DEF Restated
<1>4. ASSUME NEW j \in Items, InFlight, drain.item = j
      PROVE  ExistsIn(j, {"running", "sent", "deleted"})' /\ (ExistsIn(j, {"deleted"})' => Arrived(j))
  <2>1. Turn(j)
    BY <1>4 DEF IInv, Awaiting
  <2> QED BY <1>1, <1>2, <2>1 DEF Turn, ExistsIn
<1> QED BY <1>2, <1>3, <1>4, RestatedAwaiting DEF IInv

\* The end of the process.
LEMMA RestartKeeps ==
    ASSUME IInv, Restart
    PROVE  Restated /\ Awaiting'
<1>1. ASSUME NEW i \in Items PROVE Stays(i)
  <2>1. item'[i] = IF item[i].state = "running" THEN [item[i] EXCEPT !.state = "review"] ELSE item[i]
    BY DEF Restart, Recovered, ExistsIn
  <2>2. item[i] \in ItemType
    BY DEF IInv, TypeOK
  <2>3. item'[i].device = item[i].device /\ item'[i].after = item[i].after
    BY <2>1, <2>2 DEF ItemType
  <2>4. item'[i].state = IF item[i].state = "running" THEN "review" ELSE item[i].state
    BY <2>1, <2>2 DEF ItemType
  <2> QED BY <2>3, <2>4 DEF IInv, Sound, Stays, ExistsIn
<1>2. Restated
  BY <1>1 DEF Restated, Restart
<1> QED BY <1>2, NothingInFlight DEF Restart, Idle

\* The drain gives an item up for review.
LEMMA ReviewKeeps ==
    ASSUME IInv, DrainReviews
    PROVE  Restated /\ Awaiting'
<1>1. PICK i \in Items : FirstPending(i) /\ Set(i, "review")
  BY DEF DrainReviews
<1>2. /\ Exists(i) /\ Exists(i)' /\ ~ExistsIn(i, {"sent"})'
      /\ item'[i].device = item[i].device /\ item'[i].after = item[i].after
      /\ \A j \in Items \ {i} : item'[j] = item[j]
      /\ UNCHANGED <<drain, device, log>> /\ drain.phase = "loop"
  BY <1>1 DEF IInv, TypeOK, ItemType, DrainReviews, FirstPending, Candidates, Set, Exists, ExistsIn
<1>3. Restated
  BY <1>2, OneChanges DEF IInv, Sounds
<1>4. Awaiting'
  BY <1>2, NothingInFlight DEF IInv, Awaiting
<1> QED BY <1>3, <1>4

\* An item is sent when nothing before it, and nothing it is about, is
\* outstanding.
LEMMA SendKeeps ==
    ASSUME IInv, DrainSends
    PROVE  Restated /\ Awaiting'
<1>1. PICK i \in Items :
          /\ FirstPending(i) /\ ~Obstructed(i) /\ ~OtherDevice(i)
          /\ \/ Set(i, "failed") /\ UNCHANGED drain
             \/ Set(i, "running") /\ drain' = [drain EXCEPT !.phase = "request", !.item = i]
  BY DEF DrainSends
<1>2. /\ Exists(i) /\ Exists(i)' /\ ~ExistsIn(i, {"sent"})'
      /\ item'[i].device = item[i].device /\ item'[i].after = item[i].after
      /\ \A j \in Items \ {i} : item'[j] = item[j]
      /\ UNCHANGED <<device, log>> /\ drain.phase = "loop"
  BY <1>1 DEF IInv, TypeOK, ItemType, DrainSends, FirstPending, Candidates, Set, Exists, ExistsIn
<1>3. Restated
  BY <1>2, OneChanges DEF IInv, Sounds
<1>4. CASE UNCHANGED drain
  <2>1. drain'.phase = "loop" /\ drain'.device = device'
    BY <1>2, <1>4 DEF IInv, Awaiting
  <2> QED BY <1>3, <2>1, NothingInFlight
<1>5. CASE Set(i, "running") /\ drain' = [drain EXCEPT !.phase = "request", !.item = i]
  <2>1. /\ drain'.phase = "request" /\ drain'.item = i /\ drain'.device = drain.device
        /\ drain.device = device /\ item[i].device = device
    BY <1>1, <1>2, <1>5 DEF IInv, TypeOK, Awaiting, OtherDevice
  <2>2. \A k : Arrived(k)' <=> Arrived(k)
    BY <1>2, ArrivedKept
  <2>3. ExistsIn(i, {"running"})'
    BY <1>5 DEF IInv, TypeOK, ItemType, Set, ExistsIn
  <2>4. FromThisSession(i)'
    BY <1>2, <2>1 DEF IInv, Sound, FromItsDevice, FromThisSession
  <2>5. ASSUME NEW j \in Items, j < i, SameRoom(i, j), Exists(j)' PROVE Arrived(j)
    <3>1. Exists(j)
      BY <1>3, <2>5, RestatedItem
    <3>2. j \in Earlier(i)
      BY <2>5, <3>1 DEF Earlier, SameRoom, Items
    <3>3. ExistsIn(j, {"sent"})
      BY <1>1, <3>2 DEF Obstructed
    <3> QED BY <3>3 DEF IInv, Sound
  <2>6. ASSUME NEW t \in Items, About(i, t)' PROVE Arrived(t)
    <3>1. About(i, t)
      BY <1>3, <2>6, RestatedItem
    <3>2. ~ExistsIn(t, {"free"}) /\ (ExistsIn(t, {"deleted"}) => Arrived(t))
      BY <3>1 DEF IInv, Sound
    <3>3. Exists(t) => ExistsIn(t, {"sent"})
      BY <1>1, <3>1 DEF Obstructed, About, Items
    <3> QED BY <3>2, <3>3 DEF IInv, Sound, Exists, ExistsIn
  <2>7. \A j : SameRoom(i, j)' = SameRoom(i, j)
    BY DEF SameRoom
  <2>8. Turn(i)'
    BY <1>2, <2>1, <2>2, <2>3, <2>4, <2>5, <2>6, <2>7 DEF Turn, ExistsIn
  <2> QED BY <1>2, <1>3, <2>1, <2>8 DEF Awaiting, InFlight
<1> QED BY <1>1, <1>3, <1>4, <1>5

\* Every answer to a request ends it.
LEMMA AnswerKeeps ==
    ASSUME IInv, Accepted \/ (\E hold \in BOOLEAN : Rejected(hold)) \/ NoAnswer
    PROVE  Restated /\ Awaiting'
<1>1. PICK i \in Items : i = drain.item /\ Turn(i)
  BY DEF IInv, Awaiting, InFlight, Accepted, Rejected, NoAnswer
<1>2. log' = log /\ device' = device /\ drain' \in {Idle, [drain EXCEPT !.phase = "loop", !.item = 0]}
  BY DEF Accepted, Rejected, NoAnswer
<1>3. Awaiting'
  <2>1. CASE drain' = Idle
    BY <2>1, NothingInFlight DEF Idle
  <2>2. CASE drain' = [drain EXCEPT !.phase = "loop", !.item = 0]
    <3>1. drain.phase # "idle" /\ drain.device = device
      BY DEF IInv, Awaiting, Accepted, Rejected, NoAnswer
    <3>2. drain'.phase = "loop" /\ drain'.device = drain.device
      BY <2>2 DEF IInv, TypeOK
    <3> QED BY <1>2, <3>1, <3>2, NothingInFlight
  <2> QED BY <1>2, <2>1, <2>2
<1>4. CASE item' = item
  BY <1>2, <1>3, <1>4, NothingChanges DEF IInv, Sounds
<1>5. CASE item' # item
  <2>1. /\ Exists(i) /\ \A j \in Items \ {i} : item'[j] = item[j]
        /\ item'[i].device = item[i].device /\ item'[i].after = item[i].after
        /\ item'[i].state \in {"sent", "failed", "pending"}
        /\ item'[i].state = "sent" => drain.phase = "taken"
    BY <1>1, <1>5 DEF IInv, TypeOK, ItemType, Accepted, Rejected, NoAnswer, Set
  <2>2. Exists(i)' /\ (ExistsIn(i, {"sent"})' => Arrived(i))
    BY <1>1, <2>1 DEF Exists, ExistsIn, Turn
  <2> QED BY <1>2, <1>3, <2>1, <2>2, OneChanges DEF IInv, Sounds
<1> QED BY <1>4, <1>5

\* A new item is the last of the queue and about one that is there.
LEMMA EnqueueKeeps ==
    ASSUME IInv, NEW i \in Items, NEW kind, NEW t \in 0..NItems, Enqueue(i, kind, t)
    PROVE  Sounds' /\ Awaiting' /\ RoomIsRight'
<1>1. /\ ExistsIn(i, {"free"}) /\ ~Arrived(i)
      /\ \A j \in Items : j < i => ~ExistsIn(j, {"free"})
      /\ \A j \in Items : i < j => ExistsIn(j, {"free"}) /\ ~Arrived(j)
  BY DEF IInv, Sound, Enqueue
<1>2. /\ \A j \in Items \ {i} : item'[j] = item[j]
      /\ UNCHANGED <<device, log>> /\ Kicked(canSend)
      /\ item'[i].state = "pending" /\ item'[i].after \in {0, t}
  BY DEF IInv, TypeOK, Enqueue
<1>3. /\ \A k : Arrived(k)' <=> Arrived(k)
      /\ \A k, j : SameRoom(k, j)' = SameRoom(k, j)
  BY <1>2, ArrivedKept DEF SameRoom
<1>4. ASSUME NEW k \in Items, k # i
      PROVE  /\ \A s \in {"free", "deleted", "sent"} : ExistsIn(k, {s})' <=> ExistsIn(k, {s})
             /\ Exists(k)' <=> Exists(k)
             /\ ExistsIn(k, {"running", "sent", "deleted"})' <=> ExistsIn(k, {"running", "sent", "deleted"})
             /\ item'[k].device = item[k].device
             /\ FromItsDevice(k)' <=> FromItsDevice(k)
             /\ \A u : About(k, u)' <=> About(k, u)
  BY <1>2, <1>4 DEF Exists, ExistsIn, FromItsDevice, About
<1>5. ASSUME NEW k \in Items, k # i PROVE Sound(k)'
  <2>1. Sound(k)
    BY DEF IInv
  <2>2. ExistsIn(k, {"free"})' => ~Arrived(k)' /\ \A j \in Items : k < j => ExistsIn(j, {"free"})'
    <3> SUFFICES ASSUME ExistsIn(k, {"free"}) PROVE ~Arrived(k) /\ \A j \in Items : k < j => ExistsIn(j, {"free"})'
      BY <1>3, <1>4, <1>5
    <3>1. i < k
      BY <1>1, <1>5 DEF Items
    <3>2. \A j \in Items : k < j => j # i /\ ExistsIn(j, {"free"})
      BY <2>1, <3>1 DEF Sound, Items
    <3> QED BY <1>4, <2>1, <3>2 DEF Sound
  <2>3. ASSUME NEW u \in Items, About(k, u)'
        PROVE  u < k /\ ~ExistsIn(u, {"free"})' /\ (ExistsIn(u, {"deleted"})' \/ Arrived(k)' => Arrived(u)')
    <3>1. u < k /\ ~ExistsIn(u, {"free"}) /\ (ExistsIn(u, {"deleted"}) \/ Arrived(k) => Arrived(u))
      BY <1>4, <1>5, <2>1, <2>3 DEF Sound
    <3> QED BY <1>1, <1>3, <1>4, <3>1
  <2> QED BY <1>3, <1>4, <1>5, <2>1, <2>2, <2>3 DEF Sound
<1>6. Sound(i)'
  <2>1. ASSUME NEW u \in Items, About(i, u)' PROVE u < i /\ Exists(u)'
    <3>1. u \in Targets(i)
      BY <1>2, <2>1 DEF Enqueue, About, Items
    <3>2. u < i /\ Exists(u) /\ u # i
      BY <3>1 DEF Targets, Items
    <3> QED BY <1>4, <3>2
  <2> QED BY <1>1, <1>2, <1>3, <2>1 DEF Sound, FromItsDevice, Arrived, Exists, ExistsIn
<1>7. ASSUME NEW j \in Items, InFlight, drain.item = j, UNCHANGED drain PROVE Turn(j)'
  <2>1. Turn(j)
    BY <1>7 DEF IInv, Awaiting
  <2>2. j # i /\ ~(i < j)
    BY <1>1, <2>1 DEF Turn, ExistsIn
  <2>3. \A k \in Items : k < j /\ SameRoom(j, k) /\ Exists(k)' => Arrived(k)
    <3>1. \A k \in Items : k < j => k # i
      BY <2>2
    <3> QED BY <1>4, <2>1, <3>1 DEF Turn
  <2>4. FromThisSession(j)'
    BY <1>2, <2>1 DEF Turn, FromThisSession
  <2>5. \A u \in Items : About(j, u)' => Arrived(u)
    BY <1>4, <2>1, <2>2 DEF Turn
  <2>6. /\ ExistsIn(j, {"running", "sent", "deleted"})'
        /\ ExistsIn(j, {"deleted"})' => Arrived(j)
        /\ Exists(j)' => item'[j].device = device'
    BY <1>2, <1>4, <2>1, <2>2 DEF Turn
  <2>7. drain'.phase = "taken" => Arrived(j)
    BY <1>7, <2>1 DEF Turn
  <2> QED BY <1>3, <2>3, <2>4, <2>5, <2>6, <2>7 DEF Turn
<1>8. Awaiting'
  <2>1. CASE UNCHANGED drain
    <3>1. InFlight' = InFlight
      BY <2>1 DEF InFlight
    <3> QED BY <1>2, <1>7, <2>1, <3>1 DEF IInv, Awaiting
  <2>2. CASE drain' # drain
    BY <1>2, <2>2, NothingInFlight DEF Kicked
  <2> QED BY <2>1, <2>2
<1>9. RoomIsRight'
  <2>1. OneEvent' /\ RoomOrder'
    BY <1>2 DEF IInv, RoomIsRight, OneEvent, RoomOrder
  <2>2. ASSUME NEW n \in DOMAIN log, Exists(log[n][1])', item'[log[n][1]].after # 0
        PROVE  \E m \in 1..(n - 1) : log[m][1] = item'[log[n][1]].after
    <3>1. PICK k \in Items : k = log[n][1]
      BY DEF IInv, TypeOK
    <3>2. k # i
      BY <1>1, <3>1 DEF Arrived
    <3> QED BY <1>2, <2>2, <3>1, <3>2 DEF IInv, RoomIsRight, TargetIsThere, Exists, ExistsIn
  <2> QED BY <1>2, <2>1, <2>2 DEF RoomIsRight, TargetIsThere, Exists, ExistsIn
<1> QED BY <1>5, <1>6, <1>8, <1>9 DEF Sounds

\* The homeserver takes a message whose turn it is, unless it has it.
LEMMA TakesKeeps ==
    ASSUME IInv, HomeserverTakes
    PROVE  Sounds' /\ Awaiting' /\ RoomIsRight'
<1>1. PICK i \in Items : i = drain.item /\ Turn(i)
  BY DEF IInv, Awaiting, InFlight, HomeserverTakes
<1>2. /\ UNCHANGED <<item, device>> /\ drain.device = device
      /\ drain'.phase = "taken" /\ drain'.item = i /\ drain'.device = drain.device
  BY <1>1 DEF IInv, TypeOK, Awaiting, HomeserverTakes
<1> DEFINE e == <<i, device>>
<1>3. log' = IF Arrived(i) THEN log ELSE Append(log, e)
  <2>1. ASSUME NEW n \in DOMAIN log PROVE log[n] = e <=> log[n][1] = i
    <3>1. log[n] = <<log[n][1], log[n][2]>>
      BY DEF IInv, TypeOK
    <3> QED BY <1>1, <3>1 DEF Turn, FromThisSession
  <2> QED BY <1>1, <2>1 DEF Arrived, HomeserverTakes
<1>4. /\ DOMAIN log = 1..Len(log) /\ Len(log) \in Nat
      /\ \A n \in DOMAIN log : log[n][1] \in Items
  BY DEF IInv, TypeOK
<1>5. ~Arrived(i) => /\ DOMAIN log' = 1..(Len(log) + 1)
                     /\ \A n \in DOMAIN log : log'[n] = log[n]
                     /\ log'[Len(log) + 1] = e
  BY <1>3, <1>4 DEF IInv, TypeOK
<1>6. \A k : Arrived(k)' <=> Arrived(k) \/ k = i
  <2>1. CASE Arrived(i)
    BY <1>3, <2>1 DEF Arrived
  <2>2. CASE ~Arrived(i)
    <3>1. \A n : n \in DOMAIN log' <=> n \in DOMAIN log \/ n = Len(log) + 1
      BY <1>4, <1>5, <2>2
    <3> HIDE DEF e
    <3>2. e[1] = i
      BY DEF e
    <3> QED BY <1>5, <2>2, <3>1, <3>2 DEF Arrived
  <2> QED BY <2>1, <2>2
<1>7. /\ FromThisSession(i)'
      /\ \A k \in Items : Exists(k)' => FromItsDevice(k)'
  <2>1. CASE Arrived(i)
    BY <1>1, <1>2, <1>3, <2>1 DEF IInv, Sound, Turn, FromThisSession, FromItsDevice, Exists, ExistsIn
  <2>2. CASE ~Arrived(i)
    <3>1. \A n \in DOMAIN log' : n \in DOMAIN log \/ (log'[n][1] = i /\ log'[n][2] = device)
      BY <1>4, <1>5, <2>2
    <3>2. FromThisSession(i)'
      BY <1>1, <1>2, <1>5, <2>2, <3>1 DEF Turn, FromThisSession
    <3>3. ASSUME NEW k \in Items, Exists(k)' PROVE FromItsDevice(k)'
      <4>1. FromItsDevice(k) /\ (k = i => item[k].device = device)
        BY <1>1, <1>2, <3>3 DEF IInv, Sound, Turn, Exists, ExistsIn
      <4> QED BY <1>2, <1>5, <2>2, <3>1, <4>1 DEF FromItsDevice
    <3> QED BY <3>2, <3>3
  <2> QED BY <2>1, <2>2
<1> HIDE DEF e
<1>8. /\ \A k : Exists(k)' <=> Exists(k)
      /\ \A k, set : ExistsIn(k, set)' <=> ExistsIn(k, set)
      /\ \A k, t : About(k, t)' <=> About(k, t)
      /\ \A k, j : SameRoom(k, j)' <=> SameRoom(k, j)
  BY <1>2 DEF Exists, ExistsIn, About, SameRoom
<1>9. ASSUME NEW k \in Items PROVE Sound(k)'
  <2>1. Sound(k)
    BY DEF IInv
  <2>2. ExistsIn(k, {"free"})' => ~Arrived(k)' /\ \A j \in Items : k < j => ExistsIn(j, {"free"})'
    BY <1>1, <1>6, <1>8, <2>1 DEF Sound, Turn, ExistsIn
  <2>3. ExistsIn(k, {"sent"})' => Arrived(k)'
    BY <1>6, <1>8, <2>1 DEF Sound
  <2>4. \A t \in Items : About(k, t)' =>
            t < k /\ ~ExistsIn(t, {"free"})' /\ (ExistsIn(t, {"deleted"})' \/ Arrived(k)' => Arrived(t)')
    BY <1>1, <1>6, <1>8, <2>1 DEF Sound, Turn
  <2>5. ASSUME Exists(k), ~Arrived(k), k # i, NEW j \in Items, k < j, SameRoom(k, j) PROVE ~Arrived(j) /\ j # i
    BY <1>1, <2>1, <2>5 DEF Sound, Turn, SameRoom
  <2> QED BY <1>6, <1>7, <1>8, <2>2, <2>3, <2>4, <2>5 DEF Sound
<1>10. Awaiting'
  <2>1. Turn(i)'
    BY <1>1, <1>2, <1>6, <1>7, <1>8 DEF Turn
  <2> QED BY <1>2, <2>1 DEF Awaiting
<1>11. CASE Arrived(i)
  BY <1>2, <1>3, <1>9, <1>10, <1>11 DEF Sounds, IInv, RoomIsRight, OneEvent, RoomOrder, TargetIsThere, Exists, ExistsIn
<1>12. CASE ~Arrived(i)
  <2>1. Exists(i) /\ \A k \in Items : Arrived(k) /\ SameRoom(k, i) => k < i
    <3>1. Exists(i)
      BY <1>1, <1>12 DEF Turn, Exists, ExistsIn
    <3>2. \A k \in Items : i < k /\ SameRoom(i, k) => ~Arrived(k)
      BY <1>12, <3>1 DEF IInv, Sound
    <3> QED BY <1>12, <3>1, <3>2 DEF SameRoom, Items
  <2>2. \A n \in DOMAIN log' : \/ n \in DOMAIN log /\ n < Len(log) + 1 /\ log'[n] = log[n] /\ log[n][1] \in Items
                                  /\ Arrived(log[n][1]) /\ log[n][1] # i
                               \/ n = Len(log) + 1 /\ log'[n][1] = i
    BY <1>4, <1>5, <1>12 DEF Arrived, e
  <2>3. OneEvent'
    BY <2>2 DEF IInv, RoomIsRight, OneEvent
  <2>4. RoomOrder'
    <3> SUFFICES ASSUME NEW m \in DOMAIN log', NEW n \in DOMAIN log', m < n,
                        RoomOf[log'[m][1]] = RoomOf[log'[n][1]]
                 PROVE  log'[m][1] <= log'[n][1]
      BY DEF RoomOrder
    <3>1. CASE n \in DOMAIN log
      BY <1>4, <2>2, <3>1 DEF IInv, RoomIsRight, RoomOrder
    <3>2. CASE n = Len(log) + 1
      BY <1>4, <2>1, <2>2, <3>2 DEF SameRoom, Items
    <3> QED BY <2>2, <3>1, <3>2
  <2>5. TargetIsThere'
    <3> SUFFICES ASSUME NEW n \in DOMAIN log', NEW k, k = log'[n][1], Exists(k), item[k].after # 0
                 PROVE  \E m \in 1..(n - 1) : log'[m][1] = item[k].after
      BY <1>2 DEF TargetIsThere, Exists, ExistsIn
    <3>1. CASE n \in DOMAIN log
      <4>1. \E m \in 1..(n - 1) : log[m][1] = item[k].after
        BY <1>5, <1>12, <3>1 DEF IInv, RoomIsRight, TargetIsThere
      <4> QED BY <1>4, <1>5, <1>12, <3>1, <4>1
    <3>2. CASE n = Len(log) + 1
      <4>1. k = i /\ item[i].after \in Items
        <5>1. k = i
          BY <1>4, <2>2, <3>2
        <5>2. item[i] \in ItemType
          BY DEF IInv, TypeOK
        <5> QED BY <5>1, <5>2 DEF ItemType, Items
      <4>2. Arrived(item[i].after)
        BY <1>1, <4>1 DEF Turn, About
      <4> QED BY <1>4, <1>5, <1>12, <3>2, <4>1, <4>2 DEF Arrived
    <3> QED BY <2>2, <3>1, <3>2
  <2> QED BY <1>9, <1>10, <2>3, <2>4, <2>5 DEF Sounds, RoomIsRight
<1> QED BY <1>11, <1>12

-----------------------------------------------------------------------------
(* The theorems.                                                           *)

\* Every variable that the proof speaks of keeps its type.
LEMMA TypeKept ==
    ASSUME IInv, Next
    PROVE  TypeOK'
<1>1. \A i \in Items : item[i] \in ItemType
  BY DEF IInv, TypeOK
<1>2. ASSUME NEW r \in ItemType, NEW s \in States
      PROVE  [r EXCEPT !.state = s] \in ItemType /\ [r EXCEPT !.state = s, !.event = TRUE] \in ItemType
  BY DEF ItemType
<1>3. [Free EXCEPT !.state = "deleted"] \in ItemType
  <2>1. Free \in ItemType
    BY ChatConstants DEF Free, ItemType, States
  <2> QED BY <1>2, <2>1 DEF States
<1>4. item' \in [Items -> ItemType]
  <2> USE DEF States
  <2>1. ASSUME NEW i \in Items, NEW kind \in {"message", "reaction", "redaction"}, NEW t \in 0..NItems, Enqueue(i, kind, t)
        PROVE  item' \in [Items -> ItemType]
    <3> DEFINE r == [state |-> "pending", kind |-> kind, device |-> device,
                     after |-> IF t # 0 /\ ~item[t].event THEN t ELSE 0,
                     target |-> t # 0 /\ item[t].event, event |-> FALSE]
    <3>1. t # 0 => item[t].event \in BOOLEAN
      BY <1>1 DEF ItemType, Items
    <3>2. r \in ItemType
      BY <3>1, ChatConstants DEF ItemType, IInv, TypeOK
    <3>3. item' = [item EXCEPT ![i] = r]
      BY <2>1 DEF Enqueue
    <3> HIDE DEF r
    <3> QED BY <3>2, <3>3 DEF IInv, TypeOK
  <2>2. ASSUME NEW i \in Items, Cancel(i) \/ Prune(i) PROVE item' \in [Items -> ItemType]
    BY <1>3, <1>1, <2>2 DEF Cancel, Prune, IInv, TypeOK
  <2>3. ASSUME NEW i \in Items, NEW s \in States, Set(i, s) PROVE item' \in [Items -> ItemType]
    <3>1. item' = [item EXCEPT ![i] = [item[i] EXCEPT !.state = s]]
      BY <2>3 DEF Set, IInv, TypeOK
    <3> QED BY <1>1, <1>2, <3>1 DEF IInv, TypeOK
  <2>4. ASSUME NEW i \in Items, item' = [item EXCEPT ![i].state = "sent", ![i].event = TRUE]
        PROVE  item' \in [Items -> ItemType]
    <3>1. item' = [item EXCEPT ![i] = [item[i] EXCEPT !.state = "sent", !.event = TRUE]]
      BY <2>4 DEF IInv, TypeOK
    <3> QED BY <1>1, <1>2, <3>1 DEF IInv, TypeOK
  <2>5. ASSUME NEW i \in Items, Retry(i) \/ Echo(i) PROVE item' \in [Items -> ItemType]
    BY <2>3, <2>4, <2>5 DEF Retry, Echo
  <2>6. CASE Quiet
    BY <2>6 DEF IInv, TypeOK, Quiet, ReleaseHold, LosesRoom, SignIn, Connect, Disconnect, Nudge, TimerFires,
       DrainBlocksRoom, DrainEnds
  <2>7. CASE Restart
    BY <1>1, <1>2, <2>7 DEF Restart, Recovered
  <2>8. CASE DrainReviews \/ DrainSends
    BY <2>3, <2>8 DEF DrainReviews, DrainSends, IInv, TypeOK
  <2>9. CASE HomeserverTakes
    BY <2>9 DEF HomeserverTakes, IInv, TypeOK
  <2>10. CASE Accepted \/ (\E hold \in BOOLEAN : Rejected(hold)) \/ NoAnswer
    <3>1. drain.item \in Items
      BY <2>10 DEF Accepted, Rejected, NoAnswer, IInv, Awaiting, InFlight
    <3>2. item' = item \/ Set(drain.item, "failed") \/ Set(drain.item, "pending")
          \/ item' = [item EXCEPT ![drain.item].state = "sent", ![drain.item].event = TRUE]
      BY <2>10 DEF Accepted, Rejected, NoAnswer, Set
    <3> QED BY <2>3, <2>4, <3>1, <3>2 DEF IInv, TypeOK
  <2> QED BY <2>1, <2>2, <2>5, <2>6, <2>7, <2>8, <2>9, <2>10 DEF Next, Quiet
<1>5. drain' \in DrainType
  <2>1. Idle \in DrainType
    BY ChatConstants DEF Idle, DrainType
  <2>2. drain \in DrainType /\ device \in Nat
    BY DEF IInv, TypeOK
  <2>3. ASSUME NEW b, Kicked(b) PROVE drain' \in DrainType
    <3>1. [phase |-> "loop", item |-> 0, device |-> device, blocked |-> {}] \in DrainType
      BY <2>2, ChatConstants DEF DrainType
    <3> QED BY <2>2, <2>3, <3>1 DEF Kicked
  <2>4. ASSUME NEW d \in DrainType, NEW p \in {"loop", "request", "taken"}, NEW k \in 0..NItems
        PROVE  [d EXCEPT !.phase = p, !.item = k] \in DrainType /\ [d EXCEPT !.phase = p] \in DrainType
    BY DEF DrainType
  <2>5. ASSUME NEW d \in DrainType, NEW r \in Rooms
        PROVE  [d EXCEPT !.blocked = @ \cup {r}] \in DrainType
    BY DEF DrainType
  <2>6. 0 \in 0..NItems /\ \A i \in Items : i \in 0..NItems /\ RoomOf[i] \in Rooms
    BY ChatConstants DEF Items, Rooms
  <2>7. CASE \E i \in Items : \/ \E kind \in {"message", "reaction", "redaction"}, t \in 0..NItems : Enqueue(i, kind, t)
                              \/ Cancel(i) \/ Retry(i) \/ Prune(i) \/ Echo(i)
    BY <2>2, <2>3, <2>7 DEF Enqueue, Cancel, Retry, Prune, Echo
  <2>8. CASE Quiet
    <3>1. CASE DrainBlocksRoom
      BY <2>2, <2>5, <2>6, <3>1 DEF DrainBlocksRoom
    <3>2. CASE DrainEnds
      BY <2>1, <3>2 DEF DrainEnds
    <3>3. DrainBlocksRoom \/ DrainEnds \/ UNCHANGED drain \/ Kicked(canSend) \/ Kicked(TRUE)
      BY <2>8 DEF Quiet, ReleaseHold, LosesRoom, SignIn, Connect, Disconnect, Nudge, TimerFires
    <3> QED
      BY <2>2, <2>3, <3>1, <3>2, <3>3
  <2>9. CASE Restart \/ HomeserverTakes \/ Accepted \/ (\E hold \in BOOLEAN : Rejected(hold)) \/ NoAnswer
    <3>1. \/ drain' = Idle \/ drain' = [drain EXCEPT !.phase = "loop", !.item = 0]
          \/ drain' = [drain EXCEPT !.phase = "taken"]
      BY <2>9 DEF Restart, HomeserverTakes, Accepted, Rejected, NoAnswer
    <3>2. \A p \in {"loop", "request", "taken"} :
            [drain EXCEPT !.phase = p, !.item = 0] \in DrainType /\ [drain EXCEPT !.phase = p] \in DrainType
      BY <2>2, <2>4, <2>6
    <3> QED BY <2>1, <3>1, <3>2
  <2>10. CASE DrainReviews \/ DrainSends
    BY <2>2, <2>4, <2>6, <2>10 DEF DrainReviews, DrainSends
  <2> QED BY <2>7, <2>8, <2>9, <2>10 DEF Next, Quiet
<1>6. device' \in Nat
  <2>1. device' \in {device, device + 1}
    BY DEF Next, Enqueue, Cancel, Retry, Prune, Echo, ReleaseHold, LosesRoom, SignIn, Connect, Disconnect, Nudge,
       TimerFires, Restart, DrainBlocksRoom, DrainReviews, DrainSends, DrainEnds, HomeserverTakes, Accepted,
       Rejected, NoAnswer
  <2> QED BY <2>1 DEF IInv, TypeOK
<1>7. log' \in Seq(Items \X Nat)
  <2>1. CASE HomeserverTakes
    <3>1. <<drain.item, device>> \in Items \X Nat
      BY <2>1 DEF HomeserverTakes, IInv, TypeOK, Awaiting, InFlight
    <3> QED BY <2>1, <3>1 DEF HomeserverTakes, IInv, TypeOK
  <2>2. CASE log' = log
    BY <2>2 DEF IInv, TypeOK
  <2>3. HomeserverTakes \/ log' = log
    BY DEF Next, Enqueue, Cancel, Retry, Prune, Echo, ReleaseHold, LosesRoom, SignIn, Connect, Disconnect, Nudge,
       TimerFires, Restart, DrainBlocksRoom, DrainReviews, DrainSends, DrainEnds, Accepted, Rejected, NoAnswer
  <2> QED BY <2>1, <2>2, <2>3
<1> QED BY <1>4, <1>5, <1>6, <1>7 DEF TypeOK

LEMMA InitInv == Init => IInv
<1> SUFFICES ASSUME Init PROVE IInv
  OBVIOUS
<1>1. TypeOK
  BY ChatConstants DEF Init, TypeOK, ItemType, DrainType, States, Free, Idle
<1>2. log = <<>> /\ DOMAIN log = {} /\ \A i \in Items : item[i] = Free
  BY DEF Init
<1>3. \A i \in Items : Sound(i)
  BY <1>2 DEF Sound, Arrived, FromItsDevice, Exists, ExistsIn, About, Free
<1>4. Awaiting
  BY DEF Init, Awaiting, InFlight, Idle
<1>5. RoomIsRight
  BY <1>2 DEF RoomIsRight, OneEvent, RoomOrder, TargetIsThere
<1> QED BY <1>1, <1>3, <1>4, <1>5 DEF IInv

LEMMA StepInv == IInv /\ [Next]_vars => IInv'
<1> SUFFICES ASSUME IInv, [Next]_vars PROVE IInv'
  OBVIOUS
<1>1. ASSUME Restated, Awaiting' PROVE Sounds' /\ Awaiting' /\ RoomIsRight'
  BY <1>1, RestatedSound, RestatedRoom DEF IInv, Sounds
<1>2. CASE Next
  <2>1. ASSUME NEW i \in Items, Cancel(i) \/ Retry(i) \/ Prune(i) \/ Echo(i)
        PROVE  Sounds' /\ Awaiting' /\ RoomIsRight'
    BY <1>1, <2>1, CancelKeeps, RetryKeeps, PruneKeeps, EchoKeeps
  <2>2. Quiet => Sounds' /\ Awaiting' /\ RoomIsRight'
    BY <1>1, QuietKeeps
  <2>3. Restart \/ DrainReviews \/ DrainSends => Sounds' /\ Awaiting' /\ RoomIsRight'
    BY <1>1, RestartKeeps, ReviewKeeps, SendKeeps
  <2>4. Accepted \/ (\E hold \in BOOLEAN : Rejected(hold)) \/ NoAnswer => Sounds' /\ Awaiting' /\ RoomIsRight'
    BY <1>1, AnswerKeeps
  <2>5. Sounds' /\ Awaiting' /\ RoomIsRight'
    BY <1>2, <2>1, <2>2, <2>3, <2>4, EnqueueKeeps, TakesKeeps DEF Next, Quiet
  <2> QED BY <1>2, <2>5, TypeKept DEF IInv, Sounds
<1>3. CASE UNCHANGED vars
  <2>1. item' = item /\ log' = log /\ UNCHANGED <<drain, device>>
    BY <1>3 DEF vars
  <2>2. TypeOK'
    BY <2>1 DEF IInv, TypeOK
  <2>3. Restated
    BY <2>1, NothingChanges DEF IInv, Sounds
  <2>4. Awaiting'
    BY <2>1, <2>3, SameInFlight, RestatedAwaiting DEF IInv
  <2> QED BY <1>1, <2>2, <2>3, <2>4 DEF IInv, Sounds
<1> QED BY <1>2, <1>3

\* Every variable of the outbox and of its drain has its type.
THEOREM OutboxTypeCorrect == Spec => []TypeOK
<1>1. IInv => TypeOK
  BY DEF IInv
<1> QED BY <1>1, InitInv, StepInv, PTL DEF Spec

\* What the outbox put into a room is there once, in the order in which it was
\* queued, and a reaction or deletion after the message it is about.
THEOREM RoomsAreRight == Spec => []RoomIsRight
<1>1. IInv => RoomIsRight
  BY DEF IInv
<1> QED BY <1>1, InitInv, StepInv, PTL DEF Spec

\* A message is in doubt only while it waits for the user's review.
InReview == \A i \in doubtful : i \in Items /\ ExistsIn(i, {"review"})

LEMMA StepInReview == IInv /\ InReview /\ [Next]_vars => InReview'
<1> SUFFICES ASSUME IInv, InReview, [Next]_vars PROVE InReview'
  OBVIOUS
<1> SUFFICES ASSUME NEW i \in doubtful' PROVE i \in Items /\ ExistsIn(i, {"review"})'
  BY DEF InReview
<1> USE DEF ExistsIn
<1>1. ASSUME NEW j \in Items, NEW kind, NEW t, Enqueue(j, kind, t) PROVE i \in Items /\ item'[i].state = "review"
  BY <1>1 DEF Enqueue, InReview, IInv, TypeOK
<1>2. ASSUME NEW j \in Items, Cancel(j) PROVE i \in Items /\ item'[i].state = "review"
  BY <1>2 DEF Cancel, InReview
<1>3. ASSUME NEW j \in Items, Retry(j) \/ Prune(j) \/ Echo(j) PROVE i \in Items /\ item'[i].state = "review"
  BY <1>3 DEF Retry, Prune, Echo, Set, InReview, IInv, TypeOK
<1>4. CASE item' = item /\ doubtful' = doubtful
  BY <1>4 DEF InReview
<1>5. CASE Restart
  <2>1. /\ i \in Items /\ item[i].state \in {"running", "review"}
        /\ item'[i] = IF item[i].state = "running" THEN [item[i] EXCEPT !.state = "review"] ELSE item[i]
    BY <1>5 DEF Restart, Recovered, InReview
  <2> QED BY <2>1 DEF IInv, TypeOK, ItemType
<1>6. CASE DrainReviews \/ DrainSends
  BY <1>6 DEF DrainReviews, DrainSends, FirstPending, Candidates, Set, InReview, IInv, TypeOK
<1>7. CASE Accepted \/ (\E hold \in BOOLEAN : Rejected(hold)) \/ NoAnswer
  <2>1. drain.item \in Items /\ item[drain.item].state \in {"running", "sent", "deleted"}
    BY <1>7 DEF IInv, Awaiting, InFlight, Turn, Accepted, Rejected, NoAnswer
  <2>2. i \in Items /\ item[i].state = "review"
    BY <1>7 DEF InReview, Accepted, Rejected, NoAnswer
  <2> QED BY <1>7, <2>1, <2>2 DEF Accepted, Rejected, NoAnswer, Set, IInv, TypeOK
<1>8. CASE Quiet \/ HomeserverTakes \/ UNCHANGED vars
  <2>1. item' = item /\ doubtful' = doubtful
    BY <1>8 DEF Quiet, ReleaseHold, LosesRoom, SignIn, Connect, Disconnect, Nudge, TimerFires,
       DrainBlocksRoom, DrainEnds, HomeserverTakes, vars
  <2> QED BY <1>4, <2>1
<1> QED BY <1>1, <1>2, <1>3, <1>5, <1>6, <1>7, <1>8 DEF Next, Quiet

\* A message whose request was cut off by the end of the process is not
\* requested again before the user retried it or the echo confirmed it.
THEOREM NeverSentBlindly == Spec => NeverBlind
<1>1. Init => InReview
  BY DEF Init, InReview
<1>2. InReview /\ InReview' => \A i \in Items : i \in doubtful /\ i \in doubtful' => item'[i].state # "running"
  BY DEF InReview, ExistsIn
<1> QED BY <1>1, <1>2, InitInv, StepInv, StepInReview, PTL DEF Spec, NeverBlind
=============================================================================
