------------------------------ MODULE MCOutgoing ------------------------------
(*****************************************************************************)
(* What goes out through the mail worker: changes to conversations, mail     *)
(* merges and a draft.  The components have no state in common, and each is  *)
(* small here.  A behaviour is one of one component: the product of          *)
(* components that do not interact shows nothing more, and the sum of their  *)
(* states is small.                                                          *)
(*****************************************************************************)
EXTENDS MCOperationQueue

VARIABLES
    active,   \* the component whose behaviour this is
    jobStatus, wait, backoff, rcpt, sendLog, mergeUp, online, inFlight, mergeTaken,
    accepted, resends, delivered, sinceClaim, nudged,
    row, due, chain, stage, draftOnline, draftUp, draftPass, editor, unused, wanted

Merge == INSTANCE MailMerge WITH
    NJobs <- 2, NRecipients <- 1, DailyCap <- [j \in 1..2 |-> 3 - j], Gap <- 1,
    Day <- 1, BackoffBase <- 1, BackoffMax <- 1, MaxResends <- 0, up <- mergeUp,
    taken <- mergeTaken
Draft == INSTANCE DraftDelivery WITH
    Drafts <- {"draft"}, MaxText <- [d \in {"draft"} |-> 3], MaxTasks <- 3,
    Imap <- TRUE, online <- draftOnline, up <- draftUp, pass <- draftPass

mergeVars ==
    <<jobStatus, wait, backoff, rcpt, sendLog, mergeUp, online, inFlight, mergeTaken,
    accepted, resends, delivered, sinceClaim, nudged>>
draftVars ==
    <<row, due, chain, stage, draftOnline, draftUp, draftPass, editor, unused, wanted>>
allVars == <<active, vars, mergeVars, draftVars>>

AllInit ==
    /\ active \in {"changes", "merge", "draft"}
    /\ Init /\ Merge!Init /\ Draft!Init

ChangesOnly == active = "changes" /\ UNCHANGED <<active, mergeVars, draftVars>>
MergeOnly == active = "merge" /\ UNCHANGED <<active, vars, draftVars>>
DraftOnly == active = "draft" /\ UNCHANGED <<active, vars, mergeVars>>
AllNext ==
    \/ ChangesOnly /\ Next
    \/ MergeOnly /\ Merge!Next
    \/ DraftOnly /\ Draft!Next

AllSpec == AllInit /\ [][AllNext]_allVars
AllFairSpec ==
    /\ AllSpec
    /\ WF_allVars(\/ ChangesOnly /\ (\E o \in Ops : OpStart(o))
                  \/ MergeOnly /\ Merge!Tick
                  \/ DraftOnly /\ Draft!TaskRuns("draft"))
    /\ WF_allVars(\/ ChangesOnly /\ OpEnds
                  \/ MergeOnly /\ Merge!Restart
                  \/ DraftOnly /\ Draft!TaskEnds("draft"))
    /\ WF_allVars(\/ ChangesOnly /\ OpsFinish
                  \/ MergeOnly /\ Merge!ClockTick
                  \/ DraftOnly /\ Draft!BecomesDue("draft"))
    /\ WF_allVars(\/ ChangesOnly /\ Restart
                  \/ MergeOnly /\ Merge!Answer(1, 1)
                  \/ DraftOnly /\ Draft!PassBegins)
    /\ WF_allVars(\/ MergeOnly /\ Merge!Answer(2, 1)
                  \/ DraftOnly /\ Draft!PassRuns)
    /\ WF_allVars(\/ MergeOnly /\ Merge!Reconnects
                  \/ DraftOnly /\ Draft!Restart)
    /\ WF_allVars(DraftOnly /\ Draft!Reconnects)
    /\ SF_allVars(ChangesOnly /\ OpsBegin /\ 1 \in opList')
    /\ SF_allVars(ChangesOnly /\ OpsBegin /\ 2 \in opList')
    /\ <>[][~Crash]_vars
    /\ <>[][Merge!Quiet]_mergeVars
    /\ <>[][Draft!Calm]_draftVars

DailyCapHolds == Merge!DailyCapHolds
MergesMove == Merge!MergesMove
OutboxMoves == Draft!OutboxMoves
=============================================================================
