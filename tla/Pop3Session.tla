------------------------------ MODULE Pop3Session ------------------------------
(***************************************************************************)
(* One session after the other with the maildrop of a POP3 account         *)
(* (electron/mail/pop3-sync.ts, pop3-store.ts): list by UIDL, download what*)
(* has no checkpoint, store message and checkpoint in one transaction, then*)
(* apply the retention policy.  DELE takes effect with QUIT, whose answer  *)
(* may be lost.  SQLite runs with synchronous=NORMAL: a commit survives the*)
(* end of the process, but a loss of power only after the log is flushed.  *)
(*                                                                         *)
(* Left out: removal by age, a Local Folders destination, sent copies.  A  *)
(* loss of power loses all commits since the last flush, or none.          *)
(***************************************************************************)
EXTENDS Naturals, FiniteSets

CONSTANTS
    Mail,         \* messages, named by their UIDL
    MaxTroubles,  \* bound: lost connections, refusals, crashes
    MaxWishes     \* bound: what the user does in Aerio, policy changes included

VARIABLES
    nature,    \* of a message: "good", "refused" by RETR, or too "big"
    maildrop,  \* the messages on the server
    row,       \* pop3_uidls: "none", "stored", "delete-pending", "deleted", "skipped"
    copy,      \* gmail_messages: "none", "inbox", "undoable" (in Trash), "trash", "purged"
    flushed,   \* what a loss of power leaves of row and copy
    session,
    policy,    \* pop3_accounts.retention_json
    troubles, wishes,
    taken,     \* history: messages that Aerio removed from the server
    wanted     \* history: messages whose removal was wanted at some time of this session

vars == <<nature, maildrop, row, copy, flushed, session, policy, troubles, wishes, taken, wanted>>

Closed == [phase |-> "closed", listed |-> {}, pending |-> {}, marked |-> {}, policy |-> "leave"]
At(phase) == session.phase = phase
Trouble == troubles < MaxTroubles /\ troubles' = troubles + 1
Wish == wishes < MaxWishes /\ wishes' = wishes + 1
Saved == [row |-> row, copy |-> copy]

Init ==
    /\ nature = [m \in Mail |-> "none"]
    /\ maildrop = {}
    /\ row = [m \in Mail |-> "none"] /\ copy = row /\ flushed = Saved
    /\ session = Closed /\ policy = "leave"
    /\ troubles = 0 /\ wishes = 0 /\ taken = {} /\ wanted = {}

\* removalCandidates: what the policy removes, among the messages whose row
\* says stored or delete-pending.
Removable(m, by) ==
    \/ by = "remove"
    \/ by = "whenDeleted" /\ copy[m] \in {"trash", "purged"}

-----------------------------------------------------------------------------
(* The session.                                                            *)

Known(m) == row[m] # "none"

\* UIDL, markSeen, and the messages without a checkpoint.
Open ==
    /\ At("closed") /\ maildrop # {}
    /\ session' = [phase |-> "get", listed |-> maildrop, marked |-> {}, policy |-> policy,
                   pending |-> {m \in maildrop : ~Known(m)}]
    /\ row' = [m \in Mail |-> IF row[m] = "delete-pending" /\ m \notin maildrop THEN "deleted" ELSE row[m]]
    /\ wanted' = {m \in Mail : Removable(m, policy)}
    /\ UNCHANGED <<nature, maildrop, copy, flushed, policy, troubles, wishes, taken>>

\* A message that the server refuses waits for the next session.
EndsSession(m) == Closed
PassesOver(m) == [session EXCEPT !.pending = @ \ {m}]

Get(m) ==
    /\ At("get") /\ m \in session.pending
    /\ CASE nature[m] = "big" ->
              /\ row' = [row EXCEPT ![m] = "skipped"]
              /\ session' = [session EXCEPT !.pending = @ \ {m}] /\ UNCHANGED copy
         [] nature[m] # "big" /\ (nature[m] = "refused" \/ m \notin maildrop) ->
              session' = PassesOver(m) /\ UNCHANGED <<row, copy>>
         [] OTHER ->
              \* the transaction that stores message and checkpoint
              /\ row' = [row EXCEPT ![m] = "stored"] /\ copy' = [copy EXCEPT ![m] = "inbox"]
              /\ session' = [session EXCEPT !.pending = @ \ {m}]
    /\ wanted' = wanted \cup {n \in Mail : Removable(n, session.policy)}
    /\ UNCHANGED <<nature, maildrop, flushed, policy, troubles, wishes, taken>>

Candidates == {m \in session.listed : row[m] \in {"stored", "delete-pending"} /\ Removable(m, session.policy)}

\* markRemovalPending and flushToDisk, which may find the log busy.
Flushed(all) == [row |-> all, copy |-> copy]
Retire ==
    /\ At("get") /\ session.pending = {}
    /\ row' = [m \in Mail |->
           IF m \in Candidates THEN "delete-pending"
           ELSE IF row[m] = "delete-pending" /\ m \in session.listed THEN "stored" ELSE row[m]]
    /\ \/ Candidates = {} /\ session' = Closed /\ UNCHANGED <<flushed, troubles>>
       \/ Candidates # {} /\ Trouble /\ session' = Closed /\ UNCHANGED flushed
       \/ /\ Candidates # {} /\ flushed' = Flushed(row')
          /\ session' = [session EXCEPT !.phase = "delete", !.pending = Candidates]
          /\ UNCHANGED troubles
    /\ wanted' = wanted \cup {n \in Mail : Removable(n, session.policy)}
    /\ UNCHANGED <<nature, maildrop, copy, policy, wishes, taken>>

\* DELE, which the server may refuse.
Delete(m) ==
    /\ At("delete") /\ m \in session.pending
    /\ \/ UNCHANGED troubles /\ session' = [session EXCEPT !.pending = @ \ {m}, !.marked = @ \cup {m}]
       \/ Trouble /\ session' = [session EXCEPT !.pending = @ \ {m}]
    /\ UNCHANGED <<nature, maildrop, row, copy, flushed, policy, wishes, taken, wanted>>

\* QUIT: the server updates the maildrop and answers.
Quit ==
    /\ At("delete") /\ session.pending = {}
    /\ session' = IF session.marked = {} THEN Closed ELSE [session EXCEPT !.phase = "quit"]
    /\ maildrop' = maildrop \ session.marked
    /\ taken' = taken \cup session.marked
    /\ UNCHANGED <<nature, row, copy, flushed, policy, troubles, wishes, wanted>>

MarkRemoved ==
    /\ At("quit") /\ session' = Closed
    /\ row' = [m \in Mail |-> IF m \in session.marked /\ row[m] = "delete-pending" THEN "deleted" ELSE row[m]]
    /\ UNCHANGED <<nature, maildrop, copy, flushed, policy, troubles, wishes, taken, wanted>>

\* The connection is lost, a message cannot be stored, or QUIT is not
\* confirmed: what was marked and not yet updated stays on the server.
TakenForRemoved == [m \in Mail |-> IF m \in session.marked THEN "deleted" ELSE row[m]]
Unconfirmed == row
Lost ==
    /\ ~At("closed") /\ Trouble /\ session' = Closed /\ row' = Unconfirmed
    /\ UNCHANGED <<nature, maildrop, copy, flushed, policy, wishes, taken, wanted>>

\* The process ends; with it, perhaps, the power.
Crash ==
    /\ Trouble /\ session' = Closed
    /\ \E power \in BOOLEAN :
          /\ row' = IF power THEN row ELSE flushed.row
          /\ copy' = IF power THEN copy ELSE flushed.copy
    /\ UNCHANGED <<nature, maildrop, flushed, policy, wishes, taken, wanted>>

-----------------------------------------------------------------------------
(* The world.                                                              *)

\* A new message; another program removes one, in webmail, say.
Arrives(m) ==
    /\ m \notin maildrop /\ row[m] = "none" /\ m \notin taken
    /\ maildrop' = maildrop \cup {m}
    /\ \E n \in {"good", "refused", "big"} : nature' = [nature EXCEPT ![m] = n]
    /\ UNCHANGED <<row, copy, flushed, session, policy, troubles, wishes, taken, wanted>>

RemovedElsewhere(m) ==
    /\ m \in maildrop /\ Trouble /\ maildrop' = maildrop \ {m}
    /\ UNCHANGED <<nature, row, copy, flushed, session, policy, wishes, taken, wanted>>

\* The user trashes a message, which is final when the time for Undo is over;
\* restores it; empties the Trash; chooses another policy.
Moves(m) ==
    /\ \/ copy[m] = "inbox" /\ copy' = [copy EXCEPT ![m] = "undoable"] /\ Wish
       \/ copy[m] = "undoable" /\ copy' = [copy EXCEPT ![m] = "trash"] /\ UNCHANGED wishes
       \/ copy[m] \in {"undoable", "trash"} /\ copy' = [copy EXCEPT ![m] = "inbox"] /\ Wish
       \/ copy[m] = "trash" /\ copy' = [copy EXCEPT ![m] = "purged"] /\ Wish
    /\ UNCHANGED <<nature, maildrop, row, flushed, session, policy, troubles, taken, wanted>>

Chooses ==
    /\ Wish /\ \E p \in {"leave", "remove", "whenDeleted"} \ {policy} : policy' = p
    /\ UNCHANGED <<nature, maildrop, row, copy, flushed, session, troubles, taken, wanted>>

Steps == (\E m \in Mail : Get(m) \/ Delete(m)) \/ Retire \/ Quit \/ MarkRemoved
Next ==
    \/ Open \/ Steps \/ Lost \/ Crash \/ Chooses
    \/ \E m \in Mail : Arrives(m) \/ RemovedElsewhere(m) \/ Moves(m)

\* The account is polled, and a session that is not disturbed goes on.
Fairness == WF_vars(Open) /\ WF_vars(Steps)
FairSpec == Init /\ [][Next]_vars /\ Fairness

-----------------------------------------------------------------------------
\* A message that Aerio removed from the server is in Aerio, even after a loss
\* of power, unless the user emptied it from the Trash.
NothingLost == \A m \in taken : copy[m] # "none" /\ flushed.copy[m] # "none"

\* What Aerio reports as removed is gone from the server.
RemovedIsGone == \A m \in Mail : row[m] = "deleted" => m \notin maildrop

\* Retention loses no message: what Aerio had removed from the maildrop is on
\* its disk, and what it reports as removed is gone from the maildrop.
SidesAgree == NothingLost /\ RemovedIsGone

\* A message is downloaded only if there is none: what the user emptied from
\* the Trash does not come back.
NeverTwice == [][\A m \in Mail : copy[m] = "purged" /\ session'.phase = "get" => copy'[m] = "purged"]_vars

\* Only what the policy wanted to remove at some time of this session is
\* removed: a removal that failed and was taken back is not made up for.
RemovalWasWanted == [][taken' \ taken \subseteq wanted]_vars

\* Every message the server can deliver is downloaded, whatever it refuses.
MailArrives == \A m \in Mail :
    []<>(m \in maildrop /\ nature[m] = "good" => row[m] # "none")

\* Every message that can be had is downloaded in the end, none again after the
\* user emptied it from the Trash, and none is removed against the policy.
DownloadedOnce == NeverTwice /\ RemovalWasWanted /\ MailArrives
=============================================================================
