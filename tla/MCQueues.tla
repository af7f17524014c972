------------------------------- MODULE MCQueues -------------------------------
(*****************************************************************************)
(* Queues and journals: chat, tasks, task lists, the messages of a POP3      *)
(* account, a restored profile and a collection of a CalDAV or CardDAV       *)
(* account.  The components have no state in common, and each is small here. *)
(* A behaviour is one of one component: the product of components that do    *)
(* not interact shows nothing more, and the sum of their states is small.    *)
(*****************************************************************************)
EXTENDS Integers, Sequences, ChatOutbox

OneRoom == <<"room", "room">>

CONSTANTS
    NChanges, MaxAttempts, MaxExternal, MaxFaults,                  \* of Tasks
    MaxLists, MaxListChanges, MaxListAttempts, MaxListFaults, MaxTaskEdits,  \* of Lists
    Mail, MaxTroubles, MaxWishes,                                   \* of Pop
    NEntries, MaxRestores, MaxAccidents,                            \* of Restore
    DavNItems, NFirst, MaxText, MaxForeign, MaxMishaps, Disturbed   \* of Dav

ASSUME QueuesConstants ==
    /\ NEntries \in Nat \ {0} /\ MaxLists \in Nat
    /\ DavNItems \in Nat /\ NFirst \in 0 .. DavNItems

VARIABLES
    active,   \* the component whose behaviour this is
    ops, known, cached, occurrence, request, server, revision, faults, externals,
    applied, reviewed,
    changes, shown, remote, waiting, call, stamp, mishaps, taskEdits, done, undescribed,
    nature, maildrop, row, copy, flushed, session, policy, troubles, wishes, taken,
    wanted,
    live, staging, rollback, journal, stage, restores, accidents, before, backup,
    davServer, davLog, floor, cache, op, token, work, texts, foreign, davMishaps,
    reached, waived, seen

Tasks == INSTANCE TaskQueue
Lists == INSTANCE TaskListQueue
Pop == INSTANCE Pop3Session
Restore == INSTANCE ProfileRestore
Dav == INSTANCE DavCollection WITH
    NItems <- DavNItems, server <- davServer, log <- davLog, mishaps <- davMishaps

tasksVars ==
    <<ops, known, cached, occurrence, request, server, revision, faults, externals,
    applied, reviewed>>
listsVars ==
    <<changes, shown, remote, waiting, call, stamp, mishaps, taskEdits, done,
    undescribed>>
popVars ==
    <<nature, maildrop, row, copy, flushed, session, policy, troubles, wishes, taken,
    wanted>>
restoreVars ==
    <<live, staging, rollback, journal, stage, restores, accidents, before, backup>>
davVars ==
    <<davServer, davLog, floor, cache, op, token, work, texts, foreign, davMishaps,
    reached, waived, seen>>
allVars == <<active, vars, tasksVars, listsVars, popVars, restoreVars, davVars>>

AllInit ==
    /\ active \in {"chat", "tasks", "lists", "pop", "restore", "dav"}
    /\ Init /\ Tasks!Init /\ Lists!Init /\ Pop!Init /\ Restore!Init /\ Dav!Init

ChatOnly == active = "chat" /\ UNCHANGED <<active, tasksVars, listsVars, popVars, restoreVars, davVars>>
TasksOnly == active = "tasks" /\ UNCHANGED <<active, vars, listsVars, popVars, restoreVars, davVars>>
ListsOnly == active = "lists" /\ UNCHANGED <<active, vars, tasksVars, popVars, restoreVars, davVars>>
PopOnly == active = "pop" /\ UNCHANGED <<active, vars, tasksVars, listsVars, restoreVars, davVars>>
RestoreOnly == active = "restore" /\ UNCHANGED <<active, vars, tasksVars, listsVars, popVars, davVars>>
DavOnly == active = "dav" /\ UNCHANGED <<active, vars, tasksVars, listsVars, popVars, restoreVars>>
AllNext ==
    \/ ChatOnly /\ Next
    \/ TasksOnly /\ Tasks!Next
    \/ ListsOnly /\ Lists!Next
    \/ PopOnly /\ Pop!Next
    \/ RestoreOnly /\ Restore!Next
    \/ DavOnly /\ Dav!Next

AllSpec == AllInit /\ [][AllNext]_allVars
AllFairSpec ==
    /\ AllSpec
    /\ WF_allVars(\/ ChatOnly /\ Drains
                  \/ TasksOnly /\ Tasks!Works
                  \/ ListsOnly /\ Lists!ChangeMoves
                  \/ PopOnly /\ Pop!Steps
                  \/ RestoreOnly /\ Restore!LaunchSteps
                  \/ DavOnly /\ Dav!WorkSteps)
    /\ WF_allVars(\/ ChatOnly /\ Answers
                  \/ PopOnly /\ Pop!Open
                  \/ RestoreOnly /\ Restore!Quits
                  \/ DavOnly /\ Dav!BecomesDue(1))
    /\ WF_allVars(\/ ChatOnly /\ TimerFires
                  \/ DavOnly /\ Dav!BecomesDue(2))
    /\ SF_allVars(DavOnly /\ Dav!Syncs)

QueueIsSound == Tasks!QueueIsSound
TaskChangesMove == Tasks!TaskChangesMove
ListsAreRight == Lists!ListsAreRight
ListChangesInTime == Lists!ListChangesInTime
SidesAgree == Pop!SidesAgree
DownloadedOnce == Pop!DownloadedOnce
ProfileIsWhole == Restore!ProfileIsWhole
RestoreSettles == Restore!RestoreSettles
CollectionIsSound == Dav!CollectionIsSound
CollectionMeets == Dav!CollectionMeets
=============================================================================
