-------------------------- MODULE MailArchiveProofs --------------------------
(***************************************************************************)
(* The safety of MailArchive for any number of messages, runs, attempts    *)
(* and outside changes, any batch size, and both kinds of removal.         *)
(***************************************************************************)
EXTENDS MailArchive, TLAPS, FiniteSetTheorems, WellFoundedInduction

\* What a request can name is a matter of the account, which no step changes.
USE DEF account, Asked

\* The provider has not refused the removal.
Held(o) == op[o].status \in {"queued", "running", "succeeded"}

\* A removal that was recorded belongs to a run and names messages; no two
\* removals of a run name the same message.
Removals ==
    /\ \A o \in Ops : IF op[o].status = "none" THEN op[o] = NoOp
                      ELSE op[o].job \in Jobs /\ op[o].msgs # {}
    /\ \A o, q \in Ops : \A m \in op[o].msgs \cap op[q].msgs :
          op[o].job = op[q].job => o = q
    /\ \A o \in Ops : op[o].before \subseteq op[o].msgs

\* An item has been handed over exactly if a removal names it, and its state
\* is behind or at the outcome of that removal.
Handed ==
    /\ \A o \in Ops : \A m \in op[o].msgs :
          item[op[o].job][m] \in {"removal-queued", Outcome(op[o].status)}
    /\ \A j \in Jobs, m \in Messages : item[j][m] \in {"removal-queued", "done"} =>
          \E o \in Ops : op[o].job = j /\ m \in op[o].msgs

\* The rows that a pass has still to come to are queued, the row it awaits is
\* running, and neither outlives the worker.
Passes ==
    /\ \A o \in opList : op[o].status = "queued"
    /\ runner # 0 => op[runner].status = "running"
    /\ ~up => runner = 0 /\ opList = {}

\* The messages of a batch have still to be copied, unless their run was
\* cancelled.  A run that has not begun, or waits for Resume, is worked on by
\* no pass, and one that is completed has no batch.
Batches ==
    /\ \A j \in Jobs : pump[j] \notin {"check", "copying"} => batch[j] = {}
    /\ \A j \in Jobs : \A m \in batch[j] :
          item[j][m] = "pending" \/ (item[j][m] = "skipped" /\ jobStatus[j] = "cancelled")
    /\ \A j \in Jobs : jobStatus[j] \in {"none", "paused"} => pump[j] = "off"
    /\ \A j \in Jobs : jobStatus[j] = "completed" => batch[j] = {}
    /\ \A j \in Jobs : jobStatus[j] = "none" => \A m \in Messages : item[j][m] = "none"

\* Of what a request can name, all that the provider still has is in the cache,
\* and a removal that succeeded left none of its messages there.
Gone ==
    /\ server \cap Asked \subseteq cached
    /\ \A o \in Ops : op[o].status = "succeeded" => op[o].msgs \cap server \cap Asked = {}

\* A message that was hidden when its removal was queued, and is still on the
\* server, was hidden by an earlier removal.
Shown ==
    /\ \A o \in Ops : \A m \in op[o].before \cap server :
          \E q \in Ops : q # o /\ m \in op[q].msgs
    /\ \A m \in hidden \cap server : \E o \in Ops :
          /\ m \in op[o].msgs
          /\ Held(o) \/ \E q \in Ops : q # o /\ m \in op[q].msgs

\* The copy of a message whose server copy may be removed, or was, is whole.
Kept ==
    /\ \A j \in Jobs, m \in Messages : item[j][m] \in {"copied", "removal-queued"} =>
          copy[m] = "good" \/ m \in discarded
    /\ \A m \in purged : \E o \in Ops : m \in op[o].msgs
    /\ NoLoss

IInv ==
    /\ TypeOK /\ Removals /\ Handed /\ Passes /\ Batches
    /\ Gone /\ DoneIsGone /\ CompletedIsSettled /\ Shown

-----------------------------------------------------------------------------
(* What the operators of the model return *)

\* A set of numbers has a first one.
LEMMA FirstIsIn ==
    ASSUME NEW S \in SUBSET Nat, S # {}
    PROVE  First(S) \in S
<1> DEFINE Less == {ss \in Nat \X Nat : ss[1] < ss[2]}
<1>1. IsWellFoundedOn(Less, Nat)
  BY NatLessThanWellFounded DEF OpToRel
<1>2. \E x \in S : \A y \in S : ~(<<y, x>> \in Less)
  BY <1>1, WFMin, Zenon
<1>3. \A x, y \in S : ~(<<y, x>> \in Less) => x <= y
  OBVIOUS
<1>4. \E x \in S : \A y \in S : x <= y
  BY <1>2, <1>3
<1> QED
  BY <1>4 DEF First

LEMMA IntervalSize ==
    ASSUME NEW n \in Nat
    PROVE  IsFiniteSet(1..n) /\ Cardinality(1..n) = n
<1>1. IsFiniteSet(1..n) /\ Cardinality(1..n) = IF 1 > n THEN 0 ELSE n - 1 + 1
  BY FS_Interval
<1> QED
  BY <1>1

LEMMA NumbersOfThings == Messages \subseteq Nat /\ Jobs \subseteq Nat /\ Ops \subseteq Nat
  BY DEF Messages, Jobs, Ops

\* Settling changes the state of the named items of one run.
LEMMA SettleReturns ==
    ASSUME TypeOK, NEW j \in Jobs, NEW ms, NEW state \in ItemState
    PROVE  /\ Settle(j, ms, state) \in [Jobs -> [Messages -> ItemState]]
           /\ \A i \in Jobs, m \in Messages :
                 Settle(j, ms, state)[i][m] = IF i = j /\ m \in ms THEN state ELSE item[i][m]
  BY DEF TypeOK, Settle

LEMMA OutcomeType ==
    \A status \in OpStatus :
        Outcome(status) \in ItemState /\ Outcome(status) \in {"done", "failed", "removal-queued"}
  BY DEF Outcome, OpStatus, ItemState

\* The removal of an item that waits for one is a row that names it.
LEMMA RemovalOfItem ==
    ASSUME Handed, NEW j \in Jobs, NEW m \in Messages, item[j][m] = "removal-queued"
    PROVE  RemovalOf(j, m) \in Ops /\ op[RemovalOf(j, m)].job = j /\ m \in op[RemovalOf(j, m)].msgs
<1>1. \E o \in Ops : op[o].job = j /\ m \in op[o].msgs
  BY DEF Handed
<1> QED
  BY <1>1 DEF RemovalOf

\* Reconciled items are as before or at the outcome of their removal.
LEMMA ReconciledReturns ==
    ASSUME TypeOK, Handed
    PROVE  /\ ReconciledItems \in [Jobs -> [Messages -> ItemState]]
           /\ \A j \in Jobs, m \in Messages :
                 \/ ReconciledItems[j][m] = item[j][m]
                 \/ item[j][m] = "removal-queued" /\ \E o \in Ops :
                       /\ op[o].job = j /\ m \in op[o].msgs
                       /\ ReconciledItems[j][m] = Outcome(op[o].status)
<1>1. ASSUME NEW j \in Jobs, NEW m \in Messages
      PROVE  /\ ReconciledItems[j][m] \in ItemState
             /\ \/ ReconciledItems[j][m] = item[j][m]
                \/ item[j][m] = "removal-queued" /\ \E o \in Ops :
                       /\ op[o].job = j /\ m \in op[o].msgs
                       /\ ReconciledItems[j][m] = Outcome(op[o].status)
  <2>1. CASE item[j][m] = "removal-queued"
    <3>1. ReconciledItems[j][m] = Outcome(op[RemovalOf(j, m)].status)
      BY <2>1 DEF ReconciledItems
    <3>2. op[RemovalOf(j, m)].status \in OpStatus
      BY <2>1, RemovalOfItem DEF TypeOK, OpRow
    <3> QED
      BY <2>1, <3>1, <3>2, RemovalOfItem, OutcomeType
  <2>2. CASE item[j][m] # "removal-queued"
    BY <2>2 DEF ReconciledItems, TypeOK
  <2> QED
    BY <2>1, <2>2
<1>2. ReconciledItems \in [Jobs -> [Messages -> ItemState]]
  <2>1. ReconciledItems = [j \in Jobs |-> [m \in Messages |-> ReconciledItems[j][m]]]
    BY DEF ReconciledItems
  <2> QED
    BY <1>1, <2>1
<1> QED
  BY <1>1, <1>2

-----------------------------------------------------------------------------
(* The rows of the queue *)

LEMMA RowStatusType ==
    ASSUME NEW row \in OpRow, NEW status \in OpStatus
    PROVE  [row EXCEPT !.status = status] \in OpRow
  BY DEF OpRow

LEMMA RowStartedType ==
    ASSUME NEW row \in OpRow
    PROVE  [row EXCEPT !.status = "running", !.attempts = Attempted(@)] \in OpRow
<1>1. Attempted(row.attempts) \in 0..MaxAttempts
  BY ArchiveConstants DEF OpRow, Attempted
<1> QED
  BY <1>1 DEF OpRow, OpStatus

\* A removal that is recorded anew, whose messages no removal of its run names,
\* keeps the rows apart.
LEMMA RemovalsKept ==
    ASSUME Removals, UNCHANGED op
    PROVE  Removals'
  BY DEF Removals, NoOp

-----------------------------------------------------------------------------
(* Commands and the scheduler *)

LEMMA InitKeeps == Init => IInv
<1> SUFFICES ASSUME Init PROVE IInv
  OBVIOUS
<1>1. NoOp \in OpRow
  BY ArchiveConstants DEF NoOp, OpRow, OpStatus
<1>2. TypeOK
  <2>1. op \in [Ops -> OpRow] /\ foreign \in 0..MaxForeign
    BY <1>1, ArchiveConstants DEF Init
  <2>2. /\ jobStatus \in [Jobs -> JobStatus] /\ item \in [Jobs -> [Messages -> ItemState]]
        /\ copy \in [Messages -> {"none", "good", "bad"}]
    BY DEF Init, JobStatus, ItemState
  <2>3. /\ pump \in [Jobs -> PumpState] /\ batch \in [Jobs -> SUBSET Messages]
        /\ \A j \in Jobs : pump[j] = "copying" => batch[j] # {}
    BY DEF Init, PumpState
  <2> QED
    BY <2>1, <2>2, <2>3 DEF Init, TypeOK
<1>3. Removals /\ Handed /\ Passes /\ Batches /\ Gone /\ Shown
  BY DEF Init, Removals, Handed, Passes, Batches, Gone, Shown, NoOp
<1>4. DoneIsGone /\ CompletedIsSettled
  BY DEF Init, DoneIsGone, CompletedIsSettled
<1> QED
  BY <1>2, <1>3, <1>4 DEF IInv

LEMMA ResumeOrStartKeeps ==
    ASSUME IInv, NEW j \in Jobs, ResumeOrStart(j), ticking' \in BOOLEAN,
           UNCHANGED <<op, mail, up, batch, queue, history>>
    PROVE  IInv'
<1> USE DEF IInv
<1>1. CASE StartJob(j)
  <2>1. /\ Settle(j, Selected, "pending") \in [Jobs -> [Messages -> ItemState]]
        /\ \A i \in Jobs, m \in Messages :
              Settle(j, Selected, "pending")[i][m] = IF i = j /\ m \in Selected THEN "pending" ELSE item[i][m]
    BY SettleReturns DEF ItemState
  <2>2. /\ jobStatus[j] = "none" /\ pump[j] = "off" /\ batch[j] = {}
        /\ \A m \in Messages : item[j][m] = "none"
    BY <1>1 DEF StartJob, Batches
  <2>3. /\ \A i \in Jobs \ {j} : item'[i] = item[i] /\ jobStatus'[i] = jobStatus[i] /\ pump'[i] = pump[i]
        /\ jobStatus'[j] = "running" /\ pump'[j] = "begin"
        /\ \A m \in Messages : item'[j][m] \in {"none", "pending"}
        /\ item' \in [Jobs -> [Messages -> ItemState]]
    BY <1>1, <2>1, <2>2 DEF StartJob, Goto, Pumped, TypeOK, Settle
  <2>4. TypeOK'
    BY <1>1, <2>3 DEF StartJob, Goto, Pumped, TypeOK, JobStatus, PumpState, mail, queue, history
  <2>5. Removals' /\ Passes'
    BY RemovalsKept DEF Passes, queue
  <2>6. Handed'
    <3>1. \A o \in Ops : op[o].job # j \/ op[o].msgs = {}
      BY <2>2, OutcomeType DEF Handed, TypeOK, OpRow
    <3>2. \A o \in Ops : op[o].msgs # {} => op[o].job \in Jobs
      BY DEF Removals, NoOp
    <3> QED
      BY <2>2, <2>3, <3>1, <3>2 DEF Handed
  <2>7. Batches'
    BY <2>2, <2>3 DEF Batches
  <2>8. Gone' /\ Shown'
    BY DEF Gone, Shown, Held, mail
  <2>9. DoneIsGone' /\ CompletedIsSettled'
    BY <2>3 DEF DoneIsGone, CompletedIsSettled, InState, ActiveItem, mail
  <2> QED
    BY <2>4, <2>5, <2>6, <2>7, <2>8, <2>9
<1>2. CASE ResumeJob(j)
  <2>1. /\ item' = item /\ jobStatus[j] = "paused" /\ pump[j] = "off" /\ batch[j] = {}
        /\ \A i \in Jobs \ {j} : jobStatus'[i] = jobStatus[i] /\ pump'[i] = pump[i]
        /\ jobStatus'[j] = "running" /\ pump'[j] = "begin"
    BY <1>2 DEF ResumeJob, Goto, Pumped, TypeOK, Batches
  <2>2. TypeOK'
    BY <1>2, <2>1 DEF ResumeJob, Goto, Pumped, TypeOK, JobStatus, PumpState, mail, queue, history
  <2>3. Removals' /\ Passes' /\ Handed'
    BY <2>1, RemovalsKept DEF Passes, Handed, queue
  <2>4. Batches' /\ CompletedIsSettled' /\ DoneIsGone'
    BY <2>1 DEF Batches, CompletedIsSettled, DoneIsGone, InState, mail
  <2>5. Gone' /\ Shown'
    BY DEF Gone, Shown, Held, mail
  <2> QED
    BY <2>2, <2>3, <2>4, <2>5
<1> QED
  BY <1>1, <1>2 DEF ResumeOrStart

LEMMA RunNowKeeps ==
    ASSUME IInv, NEW j \in Jobs, RunNow(j)
    PROVE  IInv'
<1>1. ticking' \in BOOLEAN
  BY DEF RunNow, IInv, TypeOK
<1> QED
  BY <1>1, ResumeOrStartKeeps DEF RunNow

LEMMA TickPoliciesKeeps ==
    ASSUME IInv, TickPolicies
    PROVE  IInv'
<1>1. CASE UNCHANGED <<jobs, pump>>
  <2>1. TypeOK' /\ Handed'
    BY <1>1 DEF TickPolicies, IInv, TypeOK, Handed, jobs, mail, queue, history
  <2>3. Batches' /\ DoneIsGone' /\ CompletedIsSettled'
    BY <1>1 DEF TickPolicies, IInv, Batches, DoneIsGone, CompletedIsSettled, InState, jobs, mail
  <2>2. Removals' /\ Passes' /\ Gone' /\ Shown'
    BY RemovalsKept DEF TickPolicies, IInv, Passes, Gone, Shown, Held, mail, queue
  <2> QED
    BY <2>1, <2>2, <2>3 DEF IInv
<1>2. CASE \E j \in Jobs : ResumeOrStart(j)
  <2>1. PICK j \in Jobs : ResumeOrStart(j)
    BY <1>2
  <2> QED
    BY <2>1, ResumeOrStartKeeps DEF TickPolicies
<1> QED
  BY <1>1, <1>2 DEF TickPolicies

\* Settling what was not handed over keeps items and removals in step.
LEMMA SettledUnqueued ==
    ASSUME IInv, NEW j \in Jobs, NEW status \in {"cancelled", "failed"},
           item' = Settle(j, Cancellable(j), "skipped"),
           jobStatus' = [jobStatus EXCEPT ![j] = status],
           UNCHANGED <<op, mail, batch>>
    PROVE  /\ item' \in [Jobs -> [Messages -> ItemState]] /\ jobStatus' \in [Jobs -> JobStatus]
           /\ \A i \in Jobs, m \in Messages :
                 item'[i][m] = IF i = j /\ item[j][m] \in {"pending", "copied"} THEN "skipped"
                               ELSE item[i][m]
           /\ Handed' /\ DoneIsGone' /\ CompletedIsSettled' /\ Gone' /\ Shown' /\ Removals'
<1> USE DEF IInv
<1>1. /\ item' \in [Jobs -> [Messages -> ItemState]]
      /\ \A i \in Jobs, m \in Messages :
            item'[i][m] = IF i = j /\ item[j][m] \in {"pending", "copied"} THEN "skipped" ELSE item[i][m]
  BY SettleReturns DEF ItemState, Cancellable, InState
<1>2. jobStatus' \in [Jobs -> JobStatus]
  BY DEF TypeOK, JobStatus
<1>3. \A o \in Ops : op[o].msgs # {} => op[o].job \in Jobs
  BY DEF Removals, NoOp
<1>4. Handed'
  <2>1. \A o \in Ops : \A m \in op[o].msgs :
           m \in Messages /\ item[op[o].job][m] \notin {"pending", "copied"}
    <3> SUFFICES ASSUME NEW o \in Ops, NEW m \in op[o].msgs
                 PROVE  m \in Messages /\ item[op[o].job][m] \notin {"pending", "copied"}
      OBVIOUS
    <3>1. m \in Messages /\ op[o].status \in OpStatus
      BY DEF TypeOK, OpRow
    <3> QED
      BY <3>1, OutcomeType DEF Handed
  <2> QED
    BY <1>1, <1>3, <2>1 DEF Handed
<1>5. DoneIsGone' /\ CompletedIsSettled'
  BY <1>1 DEF DoneIsGone, CompletedIsSettled, InState, ActiveItem, TypeOK, mail
<1>6. Gone' /\ Shown' /\ Removals'
  BY RemovalsKept DEF Gone, Shown, Held, mail
<1> QED
  BY <1>1, <1>2, <1>4, <1>5, <1>6

LEMMA CancelKeeps ==
    ASSUME IInv, NEW j \in Jobs, Cancel(j)
    PROVE  IInv'
<1> USE DEF IInv
<1>1. /\ jobStatus[j] \in {"running", "paused"}
      /\ item' = Settle(j, Cancellable(j), "skipped")
      /\ jobStatus' = [jobStatus EXCEPT ![j] = "cancelled"]
      /\ UNCHANGED <<op, mail, pump, batch, queue, history, up, ticking>>
  BY DEF Cancel, ActiveJobs, pumps
<1>2. TypeOK'
  BY <1>1, SettledUnqueued DEF TypeOK, mail, queue, history
<1>3. Batches'
  <2>1. \A i \in Jobs, m \in Messages :
            item'[i][m] = IF i = j /\ item[j][m] \in {"pending", "copied"} THEN "skipped" ELSE item[i][m]
    BY <1>1, SettledUnqueued
  <2>2. \A i \in Jobs : jobStatus'[i] = IF i = j THEN "cancelled" ELSE jobStatus[i]
    BY <1>1 DEF TypeOK
  <2>3. \A i \in Jobs : \A m \in batch[i] : m \in Messages
    BY DEF TypeOK
  <2> QED
    BY <1>1, <2>1, <2>2, <2>3 DEF Batches
<1>4. Passes'
  BY <1>1 DEF Passes, queue
<1> QED
  BY <1>1, <1>2, <1>3, <1>4, SettledUnqueued

\* reconcile: items follow their removals, runs that are through complete, and
\* no message that is still on the server leaves the cache.
LEMMA ReconcileKeeps ==
    ASSUME IInv, NEW asked, Reconcile(asked), UNCHANGED <<op, server, account, batch>>
    PROVE  /\ item' \in [Jobs -> [Messages -> ItemState]] /\ jobStatus' \in [Jobs -> JobStatus]
           /\ cached' \subseteq Messages /\ hidden' \subseteq cached'
           /\ \A j \in Jobs, m \in Messages :
                 item'[j][m] = item[j][m] \/ item[j][m] = "removal-queued"
           /\ \A j \in Jobs :
                 \/ jobStatus'[j] = jobStatus[j]
                 \/ jobStatus[j] = "running" /\ jobStatus'[j] = "completed" /\ batch[j] = {}
           /\ Handed' /\ DoneIsGone' /\ CompletedIsSettled' /\ Gone' /\ Shown' /\ Removals'
<1> USE DEF IInv
<1>1. /\ item' = ReconciledItems /\ cached' = ReconciledCache /\ hidden' = hidden \cap cached'
      /\ jobStatus' = [j \in Jobs |->
            IF (j \in asked \/ ReconciledItems[j] # item[j]) /\ Settled(j, ReconciledItems)
            THEN "completed" ELSE jobStatus[j]]
  BY DEF Reconcile
<1>2. /\ item' \in [Jobs -> [Messages -> ItemState]]
      /\ \A j \in Jobs, m \in Messages :
            \/ item'[j][m] = item[j][m]
            \/ item[j][m] = "removal-queued" /\ \E o \in Ops :
                  op[o].job = j /\ m \in op[o].msgs /\ item'[j][m] = Outcome(op[o].status)
  BY <1>1, ReconciledReturns
<1>3. jobStatus' \in [Jobs -> JobStatus]
  BY <1>1 DEF TypeOK, JobStatus
<1>4. \A j \in Jobs : \/ jobStatus'[j] = jobStatus[j]
                      \/ /\ jobStatus[j] = "running" /\ jobStatus'[j] = "completed"
                         /\ \A m \in Messages : item'[j][m] \notin ActiveItem
  BY <1>1 DEF Settled
<1>5. ASSUME NEW j \in Jobs, jobStatus[j] = "running", \A m \in Messages : item'[j][m] \notin ActiveItem
      PROVE  batch[j] = {}
  BY <1>2, <1>5 DEF Batches, TypeOK, ActiveItem
<1>6. DoneIsGone'
  <2>1. ASSUME NEW j \in Jobs, NEW m \in Messages, item'[j][m] = "done"
        PROVE  m \notin server \cap Asked
    <3>1. CASE item'[j][m] = item[j][m]
      BY <2>1, <3>1 DEF DoneIsGone
    <3>2. CASE \E o \in Ops : m \in op[o].msgs /\ item'[j][m] = Outcome(op[o].status)
      BY <2>1, <3>2 DEF Gone, Outcome
    <3> QED
      BY <1>2, <3>1, <3>2
  <2> QED
    BY <2>1 DEF DoneIsGone
<1>7. Handed'
  <2>1. ASSUME NEW o \in Ops, NEW m \in op[o].msgs
        PROVE  item'[op[o].job][m] \in {"removal-queued", Outcome(op[o].status)}
    <3>1. op[o].job \in Jobs /\ m \in Messages
      BY DEF Removals, NoOp, TypeOK, OpRow
    <3>2. CASE item'[op[o].job][m] = item[op[o].job][m]
      BY <3>2 DEF Handed
    <3>3. CASE \E q \in Ops : op[q].job = op[o].job /\ m \in op[q].msgs
                                /\ item'[op[o].job][m] = Outcome(op[q].status)
      BY <3>3 DEF Removals
    <3> QED
      BY <1>2, <3>1, <3>2, <3>3
  <2>2. \A j \in Jobs, m \in Messages : item'[j][m] \in {"removal-queued", "done"} =>
            \E o \in Ops : op[o].job = j /\ m \in op[o].msgs
    BY <1>2 DEF Handed
  <2> QED
    BY <2>1, <2>2 DEF Handed
<1>8. CompletedIsSettled'
  <2>1. \A j \in Jobs, m \in Messages : jobStatus'[j] = "completed" => item'[j][m] \notin ActiveItem
    <3> SUFFICES ASSUME NEW j \in Jobs, NEW m \in Messages, jobStatus'[j] = "completed"
                 PROVE  item'[j][m] \notin ActiveItem
      OBVIOUS
    <3>1. CASE jobStatus[j] = "completed"
      BY <3>1, <1>2 DEF CompletedIsSettled, InState, ActiveItem
    <3> QED
      BY <3>1, <1>4
  <2> QED
    BY <2>1 DEF CompletedIsSettled, InState
<1>9. Gone'
  <2>1. ASSUME NEW m \in server \cap Asked PROVE m \in cached'
    BY <1>1, <1>6 DEF ReconciledCache, Gone, DoneIsGone, TypeOK
  <2> QED
    BY <2>1 DEF Gone
<1>10. Shown' /\ Removals'
  BY <1>1, RemovalsKept DEF Shown, Held
<1>11. cached' \subseteq Messages /\ hidden' \subseteq cached'
  BY <1>1 DEF ReconciledCache, TypeOK
<1> QED
  BY <1>2, <1>3, <1>4, <1>5, <1>6, <1>7, <1>8, <1>9, <1>10, <1>11

LEMMA TickKeeps ==
    ASSUME IInv, Tick
    PROVE  IInv'
<1> USE DEF IInv
<1>1. /\ Reconcile({}) /\ UNCHANGED <<op, server, batch, protected, account, copy, up, queue, history>>
      /\ pump' = [j \in Jobs |-> IF jobStatus'[j] = "running" THEN Pumped(j) ELSE pump[j]]
      /\ ticking' = TRUE
  BY DEF Tick
<1>2. TypeOK'
  BY <1>1, ReconcileKeeps DEF TypeOK, Pumped, PumpState, queue, history
<1>3. Batches'
  <2>1. \A j \in Jobs : \A m \in batch[j] : m \in Messages /\ item'[j][m] = item[j][m]
    BY <1>1, ReconcileKeeps DEF Batches, TypeOK
  <2>2. \A j \in Jobs : /\ pump'[j] = pump[j] \/ (pump'[j] = "begin" /\ pump[j] = "off")
                        /\ pump'[j] # pump[j] => jobStatus'[j] = "running"
    BY <1>1 DEF Pumped
  <2>3. \A j \in Jobs : jobStatus'[j] = "none" => \A m \in Messages : item'[j][m] = "none"
    BY <1>1, ReconcileKeeps DEF Batches
  <2>4. \A j \in Jobs :
           \/ jobStatus'[j] = jobStatus[j]
           \/ jobStatus[j] = "running" /\ jobStatus'[j] = "completed" /\ batch[j] = {}
    BY <1>1, ReconcileKeeps
  <2> QED
    BY <1>1, <2>1, <2>2, <2>3, <2>4 DEF Batches
<1>4. Passes'
  BY <1>1 DEF Passes, queue
<1> QED
  BY <1>1, <1>2, <1>3, <1>4, ReconcileKeeps

-----------------------------------------------------------------------------
(* copyPending *)

LEMMA PumpBeginKeeps ==
    ASSUME IInv, NEW j \in Jobs, PumpBegin(j)
    PROVE  IInv'
<1> USE DEF IInv
<1>1. CASE UNCHANGED jobs
  <2>1. \E next \in {"off", "queue"} : pump' = [pump EXCEPT ![j] = next]
    BY <1>1 DEF PumpBegin, Goto, jobs
  <2>2. /\ pump[j] = "begin" /\ (jobStatus[j] # "running" => pump'[j] = "off")
        /\ UNCHANGED <<jobStatus, item, op, mail, up, batch, ticking, queue, history>>
    BY <1>1 DEF PumpBegin, Goto, TypeOK, jobs
  <2>3. TypeOK'
    BY <2>1, <2>2 DEF TypeOK, PumpState, mail, queue, history
  <2>4. Batches'
    <3>1. \A i \in Jobs \ {j} : pump'[i] = pump[i]
      BY <2>1 DEF TypeOK
    <3>2. pump'[j] \in {"off", "queue"} /\ (jobStatus[j] # "running" => pump'[j] = "off")
      BY <2>1, <2>2 DEF TypeOK
    <3>3. batch[j] = {}
      BY <2>2 DEF Batches
    <3> QED
      BY <2>2, <3>1, <3>2, <3>3 DEF Batches
  <2>5. Removals' /\ Handed' /\ Passes' /\ Gone' /\ Shown'
    BY <2>2, RemovalsKept DEF Handed, Passes, Gone, Shown, Held, mail, queue
  <2>6. DoneIsGone' /\ CompletedIsSettled'
    BY <2>2 DEF DoneIsGone, CompletedIsSettled, InState, mail
  <2> QED
    BY <2>3, <2>4, <2>5, <2>6
<1>2. CASE /\ item' = Settle(j, Cancellable(j), "skipped")
           /\ jobStatus' = [jobStatus EXCEPT ![j] = "failed"]
           /\ Goto(j, "off")
  <2>1. UNCHANGED <<op, mail, up, batch, ticking, queue, history>> /\ batch[j] = {}
    BY DEF PumpBegin, Batches
  <2>2. /\ pump' = [pump EXCEPT ![j] = "off"] /\ pump[j] = "begin"
        /\ \A i \in Jobs : jobStatus'[i] = IF i = j THEN "failed" ELSE jobStatus[i]
    BY <1>2 DEF Goto, TypeOK, PumpBegin
  <2>3. TypeOK'
    BY <1>2, <2>1, <2>2, SettledUnqueued DEF TypeOK, PumpState, mail, queue, history
  <2>4. Batches'
    <3>1. \A i \in Jobs, m \in Messages :
            item'[i][m] = IF i = j /\ item[j][m] \in {"pending", "copied"} THEN "skipped" ELSE item[i][m]
      BY <1>2, <2>1, SettledUnqueued
    <3>2. \A i \in Jobs : \A m \in batch[i] : m \in Messages
      BY DEF TypeOK
    <3>3. \A i \in Jobs : pump'[i] = IF i = j THEN "off" ELSE pump[i]
      BY <2>2 DEF TypeOK
    <3> QED
      BY <2>1, <2>2, <3>1, <3>2, <3>3 DEF Batches
  <2>5. Passes'
    BY <2>1 DEF Passes, queue
  <2> QED
    BY <1>2, <2>1, <2>3, <2>4, <2>5, SettledUnqueued
<1> QED
  BY <1>1, <1>2 DEF PumpBegin, jobs

\* The rows in use are fewer than the pairs of a run and a message, as long as
\* a copied item waits to be handed over: there is a row for its removal.
LEMMA FreeRow ==
    ASSUME IInv, NEW j \in Jobs, NEW m \in Messages, item[j][m] = "copied"
    PROVE  \E o \in Ops : op[o].status = "none"
<1> USE DEF IInv
<1> SUFFICES ASSUME \A o \in Ops : op[o].status # "none"
             PROVE  FALSE
  OBVIOUS
<1> DEFINE Pairs == Jobs \X Messages
           others == Pairs \ {<<j, m>>}
           f == [o \in Ops |-> <<op[o].job, First(op[o].msgs)>>]
<1>1. \A o \in Ops : op[o].job \in Jobs /\ First(op[o].msgs) \in op[o].msgs /\ op[o].msgs \subseteq Messages
  <2> SUFFICES ASSUME NEW o \in Ops
               PROVE  op[o].job \in Jobs /\ First(op[o].msgs) \in op[o].msgs /\ op[o].msgs \subseteq Messages
    OBVIOUS
  <2>1. op[o].job \in Jobs /\ op[o].msgs # {} /\ op[o].msgs \subseteq Messages
    BY DEF Removals, TypeOK, OpRow
  <2> QED
    BY <2>1, FirstIsIn, NumbersOfThings
<1>2. f \in Injection(Ops, others)
  <2>1. ASSUME NEW o \in Ops PROVE f[o] \in others
    <3>1. f[o] \in Pairs
      BY <1>1
    <3>2. CASE f[o] = <<j, m>>
      <4>1. op[o].job = j /\ m \in op[o].msgs
        BY <1>1, <3>2
      <4>2. item[j][m] \in {"removal-queued", Outcome(op[o].status)} /\ op[o].status \in OpStatus
        BY <4>1 DEF Handed, TypeOK, OpRow
      <4> QED
        BY <4>2, OutcomeType
    <3> QED
      BY <3>1, <3>2
  <2>2. ASSUME NEW o \in Ops, NEW q \in Ops, f[o] = f[q] PROVE o = q
    <3>1. op[o].job = op[q].job /\ First(op[o].msgs) = First(op[q].msgs)
      BY <2>2
    <3> QED
      BY <1>1, <3>1 DEF Removals
  <2> QED
    BY <2>1, <2>2 DEF Injection, IsInjective
<1>3. /\ IsFiniteSet(Pairs) /\ Cardinality(Pairs) = NJobs * NMessages
      /\ IsFiniteSet(Ops) /\ Cardinality(Ops) = NJobs * NMessages
  <2>1. NJobs \in Nat /\ NMessages \in Nat /\ NJobs * NMessages \in Nat
    BY ArchiveConstants
  <2>2. IsFiniteSet(Jobs) /\ Cardinality(Jobs) = NJobs
    BY <2>1, IntervalSize DEF Jobs
  <2>3. IsFiniteSet(Messages) /\ Cardinality(Messages) = NMessages
    BY <2>1, IntervalSize DEF Messages
  <2>4. IsFiniteSet(Ops) /\ Cardinality(Ops) = NJobs * NMessages
    BY <2>1, IntervalSize DEF Ops
  <2> QED
    BY <2>2, <2>3, <2>4, FS_Product
<1>4. IsFiniteSet(others) /\ Cardinality(others) = Cardinality(Pairs) - 1
  <2>1. <<j, m>> \in Pairs
    OBVIOUS
  <2> QED
    BY <1>3, <2>1, FS_RemoveElement
<1>5. Cardinality(Ops) <= Cardinality(others)
  BY <1>2, <1>3, <1>4, FS_Injection
<1> QED
  BY <1>3, <1>4, <1>5, ArchiveConstants

LEMMA StartPassKeeps ==
    ASSUME NEW rows, StartPass(rows)
    PROVE  opList' \subseteq Ops /\ pass' = TRUE /\ runner' = runner
           /\ \A o \in opList' : rows[o].status = "queued"
  BY DEF StartPass

LEMMA QueueRemovalKeeps ==
    ASSUME IInv, NEW j \in Jobs, QueueRemoval(j)
    PROVE  IInv'
<1> USE DEF IInv
<1> DEFINE ms == Leading(InState(j, {"copied"}))
           free == First({o \in Ops : op[o].status = "none"})
           new == [status |-> "queued", job |-> j, msgs |-> ms, before |-> ms \cap hidden, attempts |-> 0]
<1>1. /\ pump[j] = "queue" /\ ms # {} /\ op' = [op EXCEPT ![free] = new]
      /\ hidden' = hidden \cup (ms \cap cached)
      /\ item' = Settle(j, ms, "removal-queued")
      /\ StartPass(op') \/ UNCHANGED queue
      /\ UNCHANGED <<jobStatus, cached, protected, account, copy, server, up, pumps, ticking, history>>
  BY DEF QueueRemoval
<1>2. ms \subseteq Messages /\ \A m \in ms : item[j][m] = "copied"
  BY DEF Leading, InState
<1>3. free \in Ops /\ op[free].status = "none"
  <2>1. {o \in Ops : op[o].status = "none"} # {}
    BY <1>1, <1>2, FreeRow
  <2>2. free \in {o \in Ops : op[o].status = "none"}
    BY <2>1, FirstIsIn, NumbersOfThings
  <2> QED
    BY <2>2
<1>4. op[free] = NoOp
  BY <1>3 DEF Removals
<1>5. new \in OpRow
  BY <1>2, ArchiveConstants DEF OpRow, OpStatus, Jobs
<1> HIDE DEF ms, free, new
<1>6. op' \in [Ops -> OpRow] /\ \A o \in Ops : op'[o] = IF o = free THEN new ELSE op[o]
  BY <1>1, <1>3, <1>5 DEF TypeOK
<1>7. /\ item' \in [Jobs -> [Messages -> ItemState]]
      /\ \A i \in Jobs, m \in Messages : item'[i][m] = IF i = j /\ m \in ms THEN "removal-queued" ELSE item[i][m]
  BY <1>1, SettleReturns DEF ItemState
<1>8. new.status = "queued" /\ new.job = j /\ new.msgs = ms /\ new.before = ms \cap hidden
  BY DEF new
<1>9. TypeOK'
  <2>1. opList' \subseteq Ops /\ pass' \in BOOLEAN /\ runner' = runner
    BY <1>1, StartPassKeeps DEF TypeOK, queue
  <2>2. hidden' \subseteq cached'
    BY <1>1 DEF TypeOK
  <2> QED
    BY <1>1, <1>6, <1>7, <2>1, <2>2 DEF TypeOK, pumps, history
\* The messages handed over were named by no removal of the run before.
<1>10. \A o \in Ops : op[o].job = j => op[o].msgs \cap ms = {}
  <2> SUFFICES ASSUME NEW o \in Ops, op[o].job = j, NEW m \in op[o].msgs \cap ms
               PROVE  FALSE
    OBVIOUS
  <2>1. item[j][m] \in {"removal-queued", Outcome(op[o].status)} /\ op[o].status \in OpStatus
    BY DEF Handed, TypeOK, OpRow
  <2> QED
    BY <1>2, <2>1, OutcomeType
<1>11. Removals'
  <2>1. ASSUME NEW o \in Ops
        PROVE  IF op'[o].status = "none" THEN op'[o] = NoOp ELSE op'[o].job \in Jobs /\ op'[o].msgs # {}
    BY <1>1, <1>6, <1>8 DEF Removals
  <2>2. ASSUME NEW o \in Ops, NEW q \in Ops, NEW m \in op'[o].msgs \cap op'[q].msgs, op'[o].job = op'[q].job
        PROVE  o = q
    BY <1>6, <1>8, <1>10, <2>2 DEF Removals
  <2>3. \A o \in Ops : op'[o].before \subseteq op'[o].msgs
    BY <1>6, <1>8 DEF Removals
  <2> QED
    BY <2>1, <2>2, <2>3 DEF Removals, NoOp
<1>12. Handed'
  <2>1. ASSUME NEW o \in Ops, NEW m \in op'[o].msgs
        PROVE  item'[op'[o].job][m] \in {"removal-queued", Outcome(op'[o].status)}
    <3>1. CASE o = free
      BY <1>2, <1>6, <1>7, <1>8, <3>1
    <3>2. CASE o # free
      <4>1. op'[o] = op[o] /\ m \in op[o].msgs /\ op[o].job \in Jobs /\ m \in Messages
        BY <1>6, <3>2 DEF Removals, NoOp, TypeOK, OpRow
      <4>2. item'[op[o].job][m] = item[op[o].job][m]
        BY <1>7, <1>10, <4>1
      <4> QED
        BY <4>1, <4>2 DEF Handed
    <3> QED
      BY <3>1, <3>2
  <2>2. ASSUME NEW i \in Jobs, NEW m \in Messages, item'[i][m] \in {"removal-queued", "done"}
        PROVE  \E o \in Ops : op'[o].job = i /\ m \in op'[o].msgs
    <3>1. CASE i = j /\ m \in ms
      BY <1>3, <1>6, <1>8, <3>1
    <3>2. CASE ~(i = j /\ m \in ms)
      <4>1. PICK o \in Ops : op[o].job = i /\ m \in op[o].msgs
        BY <1>7, <2>2, <3>2 DEF Handed
      <4>2. o # free
        BY <1>4, <4>1 DEF NoOp
      <4> QED
        BY <1>6, <4>1, <4>2
    <3> QED
      BY <3>1, <3>2
  <2> QED
    BY <2>1, <2>2 DEF Handed
<1>13. Passes'
  <2>1. runner' = runner /\ up' = up /\ (runner # 0 => runner # free)
    BY <1>1, <1>3, StartPassKeeps DEF queue, Passes
  <2>2. \A o \in opList' : op'[o].status = "queued"
    <3>1. CASE StartPass(op')
      BY <3>1, StartPassKeeps
    <3>2. CASE UNCHANGED queue
      BY <1>3, <1>6, <3>2 DEF queue, Passes, TypeOK
    <3> QED
      BY <1>1, <3>1, <3>2
  <2>3. up'
    BY <1>1 DEF QueueRemoval, Turn
  <2> QED
    BY <1>6, <2>1, <2>2, <2>3 DEF Passes, TypeOK
<1>14. Batches'
  <2>1. batch' = batch /\ pump' = pump /\ jobStatus' = jobStatus /\ batch[j] = {} /\ jobStatus[j] # "none"
    BY <1>1 DEF pumps, Batches
  <2>2. \A i \in Jobs : i # j => \A m \in Messages : item'[i][m] = item[i][m]
    BY <1>7
  <2>3. \A i \in Jobs : \A m \in batch[i] : m \in Messages
    BY DEF TypeOK
  <2> QED
    BY <2>1, <2>2, <2>3 DEF Batches
<1>15. Gone'
  BY <1>1, <1>6, <1>8 DEF Gone
<1>16. DoneIsGone' /\ CompletedIsSettled'
  <2>1. jobStatus[j] # "completed"
    BY <1>1, <1>2 DEF CompletedIsSettled, InState, ActiveItem
  <2> QED
    BY <1>1, <1>7, <2>1 DEF DoneIsGone, CompletedIsSettled, InState
<1>17. Shown'
  <2>1. \A o \in Ops : o # free => op'[o] = op[o]
    BY <1>6
  <2>2. op[free].msgs = {} /\ op[free].before = {} /\ op'[free] = new
    BY <1>3, <1>4, <1>6 DEF NoOp
  <2>3. ASSUME NEW o \in Ops, NEW m \in op'[o].before \cap server'
        PROVE  \E q \in Ops : q # o /\ m \in op'[q].msgs
    <3>1. CASE o = free
      <4>1. m \in hidden \cap server
        BY <1>1, <1>8, <2>2, <2>3, <3>1
      <4>2. PICK q \in Ops : m \in op[q].msgs
        BY <4>1 DEF Shown
      <4> QED
        BY <2>1, <2>2, <3>1, <4>2
    <3>2. CASE o # free
      <4>1. PICK q \in Ops : q # o /\ m \in op[q].msgs
        BY <1>1, <2>1, <2>3, <3>2 DEF Shown
      <4> QED
        BY <2>1, <2>2, <4>1
    <3> QED
      BY <3>1, <3>2
  <2>4. ASSUME NEW m \in hidden' \cap server'
        PROVE  \E o \in Ops : m \in op'[o].msgs
                  /\ (op'[o].status \in {"queued", "running", "succeeded"} \/ \E q \in Ops : q # o /\ m \in op'[q].msgs)
    <3>1. CASE m \in ms
      BY <1>3, <1>8, <2>2, <3>1
    <3>2. CASE m \notin ms
      <4>1. m \in hidden \cap server
        BY <1>1, <2>4, <3>2
      <4>2. PICK o \in Ops : m \in op[o].msgs
                  /\ (op[o].status \in {"queued", "running", "succeeded"} \/ \E q \in Ops : q # o /\ m \in op[q].msgs)
        BY <4>1 DEF Shown, Held
      <4> QED
        BY <2>1, <2>2, <4>2
    <3> QED
      BY <3>1, <3>2
  <2> QED
    BY <2>3, <2>4 DEF Shown, Held
<1> QED
  BY <1>9, <1>11, <1>12, <1>13, <1>14, <1>15, <1>16, <1>17

LEMMA FetchBatchKeeps ==
    ASSUME IInv, NEW j \in Jobs, FetchBatch(j)
    PROVE  IInv'
<1> USE DEF IInv
<1> DEFINE ms == Leading(InState(j, {"pending"}))
<1>1. /\ pump[j] = "queue" /\ batch' = [batch EXCEPT ![j] = ms]
      /\ pump' = [pump EXCEPT ![j] = IF batch'[j] = {} THEN "finish" ELSE "check"]
      /\ UNCHANGED <<jobStatus, item, op, mail, up, ticking, queue, history>>
  BY DEF FetchBatch, Goto, jobs
<1>2. ms \subseteq Messages /\ \A m \in ms : item[j][m] = "pending"
  BY DEF Leading, InState
<1> HIDE DEF ms
<1>3. /\ \A i \in Jobs : batch'[i] = IF i = j THEN ms ELSE batch[i]
      /\ \A i \in Jobs : pump'[i] = IF i # j THEN pump[i] ELSE IF ms = {} THEN "finish" ELSE "check"
      /\ batch' \in [Jobs -> SUBSET Messages] /\ pump' \in [Jobs -> PumpState]
  BY <1>1, <1>2 DEF TypeOK, PumpState
<1>4. TypeOK'
  BY <1>1, <1>3 DEF TypeOK, mail, queue, history
<1>5. jobStatus[j] = "completed" => ms = {}
  BY <1>2 DEF CompletedIsSettled, InState, ActiveItem
<1>6. Batches'
  BY <1>1, <1>2, <1>3, <1>5 DEF Batches
<1>7. Removals' /\ Handed' /\ Passes' /\ Gone' /\ Shown'
  BY <1>1, RemovalsKept DEF Handed, Passes, Gone, Shown, Held, mail, queue
<1>8. DoneIsGone' /\ CompletedIsSettled'
  BY <1>1 DEF DoneIsGone, CompletedIsSettled, InState, mail
<1> QED
  BY <1>4, <1>6, <1>7, <1>8

\* An item of a batch is in no removal of its run, so that its end touches none.
LEMMA BatchItem ==
    ASSUME IInv, NEW j \in Jobs, NEW m \in batch[j]
    PROVE  /\ m \in Messages /\ item[j][m] \in {"pending", "skipped"} /\ jobStatus[j] # "completed"
           /\ \A o \in Ops : ~(op[o].job = j /\ m \in op[o].msgs)
<1>1. m \in Messages /\ item[j][m] \in {"pending", "skipped"} /\ jobStatus[j] # "completed"
  BY DEF IInv, TypeOK, Batches
<1>2. \A o \in Ops : m \in op[o].msgs /\ op[o].job = j => FALSE
  <2> SUFFICES ASSUME NEW o \in Ops, m \in op[o].msgs, op[o].job = j
               PROVE  FALSE
    OBVIOUS
  <2>1. item[j][m] \in {"removal-queued", Outcome(op[o].status)} /\ op[o].status \in OpStatus
    BY DEF IInv, Handed, TypeOK, OpRow
  <2> QED
    BY <1>1, <2>1, OutcomeType
<1> QED
  BY <1>1, <1>2

LEMMA ItemDoneKeeps ==
    ASSUME IInv, NEW j \in Jobs, NEW m \in batch[j], NEW state \in {"copied", "failed", "skipped"},
           ItemDone(j, m, state), copy' \in [Messages -> {"none", "good", "bad"}],
           discarded' \subseteq Messages,
           UNCHANGED <<jobStatus, op, cached, hidden, protected, account, server, up, ticking, queue, purged, foreign>>
    PROVE  IInv'
<1> USE DEF IInv
<1>1. /\ item' = Settle(j, {m}, state) /\ batch' = [batch EXCEPT ![j] = @ \ {m}]
      /\ pump' = [pump EXCEPT ![j] = "check"]
  BY DEF ItemDone, Goto
<1>2. /\ item' \in [Jobs -> [Messages -> ItemState]]
      /\ \A i \in Jobs, n \in Messages : item'[i][n] = IF i = j /\ n = m THEN state ELSE item[i][n]
  BY <1>1, SettleReturns DEF ItemState
<1>3. /\ \A i \in Jobs : batch'[i] = IF i = j THEN batch[j] \ {m} ELSE batch[i]
      /\ \A i \in Jobs : pump'[i] = IF i = j THEN "check" ELSE pump[i]
      /\ batch' \in [Jobs -> SUBSET Messages] /\ pump' \in [Jobs -> PumpState]
  BY <1>1 DEF TypeOK, PumpState
<1>4. TypeOK'
  BY <1>2, <1>3 DEF TypeOK, queue
<1>5. Removals' /\ Passes' /\ Gone' /\ Shown'
  BY RemovalsKept DEF Passes, Gone, Shown, Held, queue
<1>6. Handed'
  <2>1. \A o \in Ops : \A n \in op[o].msgs :
           op[o].job \in Jobs /\ n \in Messages /\ item'[op[o].job][n] = item[op[o].job][n]
    BY <1>2, BatchItem DEF Removals, NoOp, TypeOK, OpRow
  <2>2. \A i \in Jobs, n \in Messages :
           item'[i][n] \in {"removal-queued", "done"} => item'[i][n] = item[i][n]
    BY <1>2
  <2> QED
    BY <2>1, <2>2 DEF Handed
<1>7. Batches'
  <2>1. pump[j] # "off" /\ jobStatus[j] \notin {"none", "completed", "paused"}
    BY BatchItem DEF Batches
  <2>2. \A i \in Jobs : \A n \in batch[i] : n \in Messages
    BY DEF TypeOK
  <2>3. \A i \in Jobs : \A n \in batch'[i] : n \in batch[i] /\ item'[i][n] = item[i][n]
    BY <1>2, <1>3, <2>2
  <2>4. \A i \in Jobs : /\ pump'[i] \notin {"check", "copying"} => batch'[i] = {}
                        /\ jobStatus[i] \in {"none", "paused"} => pump'[i] = "off"
                        /\ jobStatus[i] = "completed" => batch'[i] = {}
    BY <1>3, <2>1 DEF Batches
  <2>5. \A i \in Jobs : jobStatus[i] = "none" => \A n \in Messages : item'[i][n] = "none"
    BY <1>2, <2>1 DEF Batches
  <2> QED
    BY <2>3, <2>4, <2>5 DEF Batches
<1>8. DoneIsGone' /\ CompletedIsSettled'
  BY <1>2, BatchItem DEF DoneIsGone, CompletedIsSettled, InState
<1> QED
  BY <1>4, <1>5, <1>6, <1>7, <1>8

LEMMA PauseRunKeeps ==
    ASSUME IInv, NEW j \in Jobs, batch[j] # {}, PauseRun(j),
           copy' \in [Messages -> {"none", "good", "bad"}],
           UNCHANGED <<op, cached, hidden, protected, account, server, up, ticking, queue, history>>
    PROVE  IInv'
<1> USE DEF IInv
<1>1. /\ item' = item /\ jobStatus' = [jobStatus EXCEPT ![j] = "paused"]
      /\ batch' = [batch EXCEPT ![j] = {}] /\ pump' = [pump EXCEPT ![j] = "off"]
  BY DEF PauseRun, Goto
<1>2. /\ \A i \in Jobs : batch'[i] = IF i = j THEN {} ELSE batch[i]
      /\ \A i \in Jobs : pump'[i] = IF i = j THEN "off" ELSE pump[i]
      /\ \A i \in Jobs : jobStatus'[i] = IF i = j THEN "paused" ELSE jobStatus[i]
      /\ batch' \in [Jobs -> SUBSET Messages] /\ pump' \in [Jobs -> PumpState]
      /\ jobStatus' \in [Jobs -> JobStatus]
  BY <1>1 DEF TypeOK, PumpState, JobStatus
<1>3. TypeOK'
  BY <1>1, <1>2 DEF TypeOK, queue, history
<1>4. Removals' /\ Handed' /\ Passes' /\ Gone' /\ Shown'
  BY <1>1, RemovalsKept DEF Handed, Passes, Gone, Shown, Held, queue
<1>5. Batches' /\ DoneIsGone' /\ CompletedIsSettled'
  BY <1>1, <1>2 DEF Batches, DoneIsGone, CompletedIsSettled, InState
<1> QED
  BY <1>3, <1>4, <1>5

LEMMA CheckItemKeeps ==
    ASSUME IInv, NEW j \in Jobs, CheckItem(j)
    PROVE  IInv'
<1> USE DEF IInv
<1> DEFINE m == First(batch[j])
<1>1. /\ pump[j] = "check" /\ batch[j] # {}
      /\ UNCHANGED <<op, mail, up, ticking, queue, history>>
  BY DEF CheckItem
<1>2. m \in batch[j]
  <2>1. batch[j] \subseteq Nat
    BY NumbersOfThings DEF TypeOK
  <2> QED
    BY <1>1, <2>1, FirstIsIn
<1>3. /\ copy' \in [Messages -> {"none", "good", "bad"}] /\ discarded' \subseteq Messages
      /\ UNCHANGED <<cached, hidden, protected, account, server, purged, foreign, discarded, copy>>
  BY <1>1 DEF TypeOK, mail, history
<1>4. \/ batch' = [batch EXCEPT ![j] = {}] /\ Goto(j, "off") /\ UNCHANGED jobs
      \/ Goto(j, "copying") /\ UNCHANGED <<jobs, batch>>
      \/ \E state \in {"copied", "failed", "skipped"} : ItemDone(j, m, state) /\ UNCHANGED jobStatus
      \/ PauseRun(j)
  BY DEF CheckItem
<1> HIDE DEF m
<1>5. CASE batch' = [batch EXCEPT ![j] = {}] /\ Goto(j, "off") /\ UNCHANGED jobs
  <2>1. /\ \A i \in Jobs : batch'[i] = IF i = j THEN {} ELSE batch[i]
        /\ \A i \in Jobs : pump'[i] = IF i = j THEN "off" ELSE pump[i]
        /\ batch' \in [Jobs -> SUBSET Messages] /\ pump' \in [Jobs -> PumpState]
    BY <1>5 DEF TypeOK, PumpState, Goto
  <2>2. TypeOK'
    BY <1>1, <1>5, <2>1 DEF TypeOK, jobs, mail, queue, history
  <2>3. Removals' /\ Handed' /\ Passes' /\ Gone' /\ Shown'
    BY <1>1, <1>5, RemovalsKept DEF Handed, Passes, Gone, Shown, Held, mail, queue, jobs
  <2>4. Batches' /\ DoneIsGone' /\ CompletedIsSettled'
    BY <1>1, <1>5, <2>1 DEF Batches, DoneIsGone, CompletedIsSettled, InState, mail, jobs
  <2> QED
    BY <2>2, <2>3, <2>4
<1>6. CASE Goto(j, "copying") /\ UNCHANGED <<jobs, batch>>
  <2>1. /\ \A i \in Jobs : pump'[i] = IF i = j THEN "copying" ELSE pump[i]
        /\ pump' \in [Jobs -> PumpState]
    BY <1>6 DEF TypeOK, PumpState, Goto
  <2>2. TypeOK'
    BY <1>1, <1>6, <2>1 DEF TypeOK, jobs, mail, queue, history
  <2>3. Removals' /\ Handed' /\ Passes' /\ Gone' /\ Shown'
    BY <1>1, <1>6, RemovalsKept DEF Handed, Passes, Gone, Shown, Held, mail, queue, jobs
  <2>4. Batches' /\ DoneIsGone' /\ CompletedIsSettled'
    BY <1>1, <1>6, <2>1 DEF Batches, DoneIsGone, CompletedIsSettled, InState, mail, jobs
  <2> QED
    BY <2>2, <2>3, <2>4
<1>7. CASE \E state \in {"copied", "failed", "skipped"} : ItemDone(j, m, state) /\ UNCHANGED jobStatus
  BY <1>1, <1>2, <1>3, <1>7, ItemDoneKeeps
<1>8. CASE PauseRun(j)
  BY <1>1, <1>3, <1>8, PauseRunKeeps
<1> QED
  BY <1>4, <1>5, <1>6, <1>7, <1>8

LEMMA BatchDoneKeeps ==
    ASSUME IInv, NEW j \in Jobs, BatchDone(j)
    PROVE  IInv'
<1> USE DEF IInv
<1>1. /\ pump[j] = "check" /\ batch[j] = {} /\ pump' = [pump EXCEPT ![j] = "queue"]
      /\ UNCHANGED <<jobStatus, item, op, mail, up, batch, ticking, queue, history>>
  BY DEF BatchDone, Goto, jobs
<1>2. /\ \A i \in Jobs : pump'[i] = IF i = j THEN "queue" ELSE pump[i]
      /\ pump' \in [Jobs -> PumpState]
  BY <1>1 DEF TypeOK, PumpState
<1>3. TypeOK'
  BY <1>1, <1>2 DEF TypeOK, mail, queue, history
<1>4. Removals' /\ Handed' /\ Passes' /\ Gone' /\ Shown'
  BY <1>1, RemovalsKept DEF Handed, Passes, Gone, Shown, Held, mail, queue
<1>5. Batches' /\ DoneIsGone' /\ CompletedIsSettled'
  BY <1>1, <1>2 DEF Batches, DoneIsGone, CompletedIsSettled, InState, mail
<1> QED
  BY <1>3, <1>4, <1>5

\* The message whose copy is awaited, and what its store leaves behind.
LEMMA CopyAwaited ==
    ASSUME IInv, NEW j \in Jobs, pump[j] = "copying"
    PROVE  /\ batch[j] # {} /\ First(batch[j]) \in batch[j] /\ First(batch[j]) \in Messages
           /\ \A state \in {"none", "good", "bad"} :
                 [copy EXCEPT ![First(batch[j])] = state] \in [Messages -> {"none", "good", "bad"}]
<1>1. batch[j] # {} /\ batch[j] \subseteq Messages /\ batch[j] \subseteq Nat
  BY NumbersOfThings DEF IInv, TypeOK
<1>2. First(batch[j]) \in batch[j]
  BY <1>1, FirstIsIn
<1> QED
  BY <1>1, <1>2 DEF IInv, TypeOK

LEMMA WrittenType == Written \subseteq {"good", "bad"}
  BY DEF Written

LEMMA CopyEndsKeeps ==
    ASSUME IInv, NEW j \in Jobs, CopyEnds(j)
    PROVE  IInv'
<1> DEFINE m == First(batch[j])
<1>1. pump[j] = "copying"
  BY DEF CopyEnds, CopyVerified, CopyRejected, CopyDiskFull
<1>2. /\ copy \in [Messages -> {"none", "good", "bad"}] /\ discarded \subseteq Messages
      /\ m \in batch[j] /\ batch[j] # {}
      /\ \A state \in {"none", "good", "bad"} :
            [copy EXCEPT ![m] = state] \in [Messages -> {"none", "good", "bad"}]
  BY <1>1, CopyAwaited DEF IInv, TypeOK
<1>3. CASE CopyVerified(j)
  <2>1. /\ copy' \in [Messages -> {"none", "good", "bad"}] /\ discarded' \subseteq Messages
        /\ ItemDone(j, m, "copied")
        /\ UNCHANGED <<jobStatus, op, cached, hidden, protected, account, server, up, ticking, queue, purged, foreign>>
    BY <1>2, <1>3, WrittenType DEF CopyVerified
  <2> HIDE DEF m
  <2> QED
    BY <1>2, <2>1, ItemDoneKeeps
<1>4. CASE CopyRejected(j)
  <2>1. /\ copy' \in [Messages -> {"none", "good", "bad"}] /\ discarded' \subseteq Messages
        /\ ItemDone(j, m, "failed")
        /\ UNCHANGED <<jobStatus, op, cached, hidden, protected, account, server, up, ticking, queue, purged, foreign>>
    BY <1>2, <1>4, WrittenType DEF CopyRejected, history
  <2> HIDE DEF m
  <2> QED
    BY <1>2, <2>1, ItemDoneKeeps
<1>5. CASE CopyDiskFull(j)
  <2>1. /\ copy' \in [Messages -> {"none", "good", "bad"}] /\ PauseRun(j)
        /\ UNCHANGED <<op, cached, hidden, protected, account, server, up, ticking, queue, history>>
    BY <1>2, <1>5, WrittenType DEF CopyDiskFull
  <2> QED
    BY <1>2, <2>1, PauseRunKeeps
<1> QED
  BY <1>3, <1>4, <1>5 DEF CopyEnds

LEMMA PumpFinishKeeps ==
    ASSUME IInv, NEW j \in Jobs, PumpFinish(j)
    PROVE  IInv'
<1> USE DEF IInv
<1>1. /\ Reconcile({j}) /\ pump[j] = "finish" /\ pump' = [pump EXCEPT ![j] = "off"]
      /\ UNCHANGED <<op, protected, account, copy, server, up, batch, ticking, queue, history>>
  BY DEF PumpFinish, Goto
<1>2. /\ \A i \in Jobs : pump'[i] = IF i = j THEN "off" ELSE pump[i]
      /\ pump' \in [Jobs -> PumpState]
  BY <1>1 DEF TypeOK, PumpState
<1>3. TypeOK'
  BY <1>1, <1>2, ReconcileKeeps DEF TypeOK, queue, history
<1>4. Batches'
  <2>1. \A i \in Jobs : \A m \in batch[i] : m \in Messages /\ item'[i][m] = item[i][m]
    BY <1>1, ReconcileKeeps DEF Batches, TypeOK
  <2>2. \A i \in Jobs : jobStatus'[i] = "none" => \A m \in Messages : item'[i][m] = "none"
    BY <1>1, ReconcileKeeps DEF Batches
  <2> QED
    BY <1>1, <1>2, <2>1, <2>2, ReconcileKeeps DEF Batches
<1>5. Passes'
  BY <1>1 DEF Passes, queue
<1> QED
  BY <1>1, <1>3, <1>4, <1>5, ReconcileKeeps

-----------------------------------------------------------------------------
(* runOperations *)

LEMMA OpsBeginKeeps ==
    ASSUME IInv, OpsBegin
    PROVE  IInv'
<1> USE DEF IInv
<1>1. /\ opList' \subseteq Ops /\ pass' = TRUE /\ runner' = runner /\ up
      /\ \A o \in opList' : op[o].status = "queued"
      /\ UNCHANGED <<jobs, op, mail, up, pumps, ticking, history>>
  BY StartPassKeeps DEF OpsBegin, Idle
<1>2. TypeOK'
  BY <1>1 DEF TypeOK, jobs, mail, pumps, history
<1>3. Removals' /\ Handed' /\ Passes' /\ Gone' /\ Shown'
  BY <1>1, RemovalsKept DEF Handed, Passes, Gone, Shown, Held, mail, jobs
<1>4. Batches' /\ DoneIsGone' /\ CompletedIsSettled'
  BY <1>1 DEF Batches, DoneIsGone, CompletedIsSettled, InState, mail, jobs, pumps
<1> QED
  BY <1>2, <1>3, <1>4

\* A step that changes only the status and the attempts of one row.
LEMMA RowChanges ==
    ASSUME IInv, NEW o \in Ops, op[o].status # "none", op' \in [Ops -> OpRow], UNCHANGED <<jobs, server, account>>,
           \A q \in Ops \ {o} : op'[q] = op[q],
           op'[o].job = op[o].job, op'[o].msgs = op[o].msgs, op'[o].before = op[o].before,
           op'[o].status # "none",
           Outcome(op[o].status) = "removal-queued", server \cap Asked \subseteq cached',
           op'[o].status = "succeeded" => op[o].msgs \cap server \cap Asked = {}
    PROVE  Removals' /\ Handed' /\ Gone' /\ DoneIsGone' /\ CompletedIsSettled'
<1> USE DEF IInv
<1>1. \A q \in Ops : op'[q].job = op[q].job /\ op'[q].msgs = op[q].msgs
  OBVIOUS
<1>2. item' = item /\ jobStatus' = jobStatus
  BY DEF jobs
<1>3. Removals'
  BY <1>1 DEF Removals, NoOp
<1>4. Handed'
  <2>1. ASSUME NEW q \in Ops, NEW m \in op[q].msgs
        PROVE  item[op[q].job][m] \in {"removal-queued", Outcome(op'[q].status)}
    BY DEF Handed
  <2>2. \A j \in Jobs, m \in Messages : item[j][m] \in {"removal-queued", "done"} =>
            \E q \in Ops : op'[q].job = j /\ m \in op'[q].msgs
    BY <1>1 DEF Handed
  <2> QED
    BY <1>1, <1>2, <2>1, <2>2 DEF Handed
<1>5. Gone' /\ DoneIsGone' /\ CompletedIsSettled'
  BY <1>1, <1>2 DEF Gone, DoneIsGone, CompletedIsSettled, InState
<1> QED
  BY <1>3, <1>4, <1>5

\* What is hidden stays accounted for while no message reappears on the server
\* and no removal is refused.
LEMMA ShownKept ==
    ASSUME Shown, server' \subseteq server, hidden' \cap server' \subseteq hidden,
           \A q \in Ops : op'[q].msgs = op[q].msgs /\ op'[q].before = op[q].before,
           \A q \in Ops : op[q].status \in {"queued", "running", "succeeded"} =>
               op'[q].status \in {"queued", "running", "succeeded"}
    PROVE  Shown'
<1>1. ASSUME NEW o \in Ops, NEW m \in op'[o].before \cap server'
      PROVE  \E q \in Ops : q # o /\ m \in op'[q].msgs
  <2>1. PICK q \in Ops : q # o /\ m \in op[q].msgs
    BY DEF Shown
  <2> QED
    BY <2>1
<1>2. ASSUME NEW m \in hidden' \cap server'
      PROVE  \E o \in Ops : m \in op'[o].msgs
                /\ (op'[o].status \in {"queued", "running", "succeeded"} \/ \E q \in Ops : q # o /\ m \in op'[q].msgs)
  <2>1. PICK o \in Ops : m \in op[o].msgs
                /\ (op[o].status \in {"queued", "running", "succeeded"} \/ \E q \in Ops : q # o /\ m \in op[q].msgs)
    BY DEF Shown, Held
  <2> QED
    BY <2>1
<1> QED
  BY <1>1, <1>2 DEF Shown, Held

LEMMA OpStartKeeps ==
    ASSUME IInv, OpStart
    PROVE  IInv'
<1> USE DEF IInv
<1> DEFINE o == First(opList)
<1>1. /\ up /\ opList # {} /\ runner' = o /\ opList' = opList \ {o}
      /\ op' = [op EXCEPT ![o].status = "running", ![o].attempts = Attempted(@)]
      /\ UNCHANGED <<jobs, mail, up, pumps, ticking, pass, history>>
  BY DEF OpStart
<1>2. o \in opList /\ o \in Ops
  <2>1. opList \subseteq Nat /\ opList \subseteq Ops
    BY NumbersOfThings DEF TypeOK
  <2> QED
    BY <1>1, <2>1, FirstIsIn
<1> HIDE DEF o
<1>3. op[o].status = "queued" /\ op[o] \in OpRow
  BY <1>2 DEF Passes, TypeOK
<1>4. [op[o] EXCEPT !.status = "running", !.attempts = Attempted(@)] \in OpRow
  BY <1>3, RowStartedType
<1>5. /\ op' \in [Ops -> OpRow] /\ \A q \in Ops \ {o} : op'[q] = op[q]
      /\ op'[o] = [op[o] EXCEPT !.status = "running", !.attempts = Attempted(@)]
  BY <1>1, <1>2, <1>4 DEF TypeOK
<1>6. /\ op'[o].status = "running" /\ op'[o].job = op[o].job /\ op'[o].msgs = op[o].msgs
      /\ op'[o].before = op[o].before
  BY <1>3, <1>5 DEF OpRow
<1>7. TypeOK'
  BY <1>1, <1>2, <1>5 DEF TypeOK, jobs, mail, pumps, history
<1>8. Removals' /\ Handed' /\ Gone' /\ DoneIsGone' /\ CompletedIsSettled'
  <2>1. Outcome(op[o].status) = "removal-queued"
    BY <1>3 DEF Outcome
  <2>2. server \cap Asked \subseteq cached' /\ UNCHANGED <<jobs, server, account>>
    BY <1>1 DEF Gone, mail
  <2> QED
    BY <1>2, <1>3, <1>5, <1>6, <2>1, <2>2, RowChanges
<1>9. Passes'
  <2>1. 0 \notin Ops
    BY DEF Ops
  <2> QED
    BY <1>1, <1>2, <1>5, <1>6, <2>1 DEF Passes, TypeOK
<1>10. Batches'
  BY <1>1 DEF Batches, jobs, pumps
<1>11. Shown'
  <2>1. \A q \in Ops : op'[q].msgs = op[q].msgs /\ op'[q].before = op[q].before
                       /\ (op[q].status \in {"queued", "running", "succeeded"} => op'[q].status \in {"queued", "running", "succeeded"})
    BY <1>5, <1>6
  <2>2. server' = server /\ hidden' = hidden
    BY <1>1 DEF mail
  <2> QED
    BY <2>1, <2>2, ShownKept
<1> QED
  BY <1>7, <1>8, <1>9, <1>10, <1>11

\* A removal that succeeds without a request was asked for nothing.
LEMMA OpNeedsNoRequestKeeps ==
    ASSUME IInv, OpNeedsNoRequest
    PROVE  IInv'
<1> USE DEF IInv
<1> DEFINE o == First(opList)
<1>1. /\ up /\ opList # {} /\ keepsFoldersLocally /\ opList' = opList \ {o}
      /\ op' = [op EXCEPT ![o].status = "succeeded"]
      /\ UNCHANGED <<jobs, mail, up, pumps, ticking, pass, runner, history>>
  BY DEF OpNeedsNoRequest
<1>2. o \in opList /\ o \in Ops
  <2>1. opList \subseteq Nat /\ opList \subseteq Ops
    BY NumbersOfThings DEF TypeOK
  <2> QED
    BY <1>1, <2>1, FirstIsIn
<1> HIDE DEF o
<1>3. op[o].status = "queued" /\ op[o] \in OpRow
  BY <1>2 DEF Passes, TypeOK
<1>4. [op[o] EXCEPT !.status = "succeeded"] \in OpRow
  BY <1>3, RowStatusType DEF OpStatus
<1>5. /\ op' \in [Ops -> OpRow] /\ \A q \in Ops \ {o} : op'[q] = op[q]
      /\ op'[o] = [op[o] EXCEPT !.status = "succeeded"]
  BY <1>1, <1>2, <1>4 DEF TypeOK
<1>6. /\ op'[o].status = "succeeded" /\ op'[o].job = op[o].job /\ op'[o].msgs = op[o].msgs
      /\ op'[o].before = op[o].before
  BY <1>3, <1>5 DEF OpRow
<1>7. TypeOK'
  BY <1>1, <1>2, <1>5 DEF TypeOK, jobs, mail, pumps, history
<1>8. Removals' /\ Handed' /\ Gone' /\ DoneIsGone' /\ CompletedIsSettled'
  <2>1. Outcome(op[o].status) = "removal-queued"
    BY <1>3 DEF Outcome
  <2>2. server \cap Asked \subseteq cached' /\ UNCHANGED <<jobs, server, account>>
    BY <1>1 DEF Gone, mail
  <2>3. op[o].msgs \cap server \cap Asked = {}
    BY <1>1
  <2> QED
    BY <1>2, <1>3, <1>5, <1>6, <2>1, <2>2, <2>3, RowChanges
<1>9. Passes'
  BY <1>1, <1>2, <1>3, <1>5, <1>6 DEF Passes, TypeOK
<1>10. Batches'
  BY <1>1 DEF Batches, jobs, pumps
<1>11. Shown'
  <2>1. \A q \in Ops : op'[q].msgs = op[q].msgs /\ op'[q].before = op[q].before
                       /\ (op[q].status \in {"queued", "running", "succeeded"}
                             => op'[q].status \in {"queued", "running", "succeeded"})
    BY <1>5, <1>6
  <2>2. server' = server /\ hidden' = hidden
    BY <1>1 DEF mail
  <2> QED
    BY <2>1, <2>2, ShownKept
<1> QED
  BY <1>7, <1>8, <1>9, <1>10, <1>11

LEMMA ProviderRemovesKeeps ==
    ASSUME IInv, ProviderRemoves
    PROVE  IInv'
<1> USE DEF IInv
<1>1. /\ \E m \in Messages : server' = server \ {m} /\ purged' = purged \cup {m}
      /\ UNCHANGED <<jobs, op, cached, hidden, protected, account, copy, up, pumps, ticking, queue, discarded, foreign>>
  BY DEF ProviderRemoves, Targets, TypeOK
<1>2. TypeOK'
  BY <1>1 DEF TypeOK, jobs, pumps, queue
<1>3. Removals' /\ Handed' /\ Passes' /\ Gone'
  BY <1>1, RemovalsKept DEF Handed, Passes, Gone, queue, jobs
<1>4. Batches' /\ DoneIsGone' /\ CompletedIsSettled'
  BY <1>1 DEF Batches, DoneIsGone, CompletedIsSettled, InState, jobs, pumps
<1>5. Shown'
  BY <1>1, ShownKept
<1> QED
  BY <1>2, <1>3, <1>4, <1>5

\* What a request in flight ends with.
LEMMA AwaitedRow ==
    ASSUME IInv, runner # 0
    PROVE  /\ runner \in Ops /\ op[runner].status = "running" /\ up
           /\ Outcome(op[runner].status) = "removal-queued"
           /\ runner \notin opList
           /\ \A status \in OpStatus \ {"none"} :
                 LET ended == [op EXCEPT ![runner].status = status] IN
                 /\ ended \in [Ops -> OpRow] /\ \A q \in Ops \ {runner} : ended[q] = op[q]
                 /\ ended[runner].status = status /\ ended[runner].job = op[runner].job
                 /\ ended[runner].msgs = op[runner].msgs /\ ended[runner].before = op[runner].before
<1>1. runner \in Ops /\ op[runner].status = "running" /\ op[runner] \in OpRow
  BY DEF IInv, TypeOK, Passes
<1>2. up /\ runner \notin opList
  BY <1>1 DEF IInv, TypeOK, Passes
<1>3. ASSUME NEW status \in OpStatus
      PROVE  LET ended == [op EXCEPT ![runner].status = status] IN
                 /\ ended \in [Ops -> OpRow] /\ \A q \in Ops \ {runner} : ended[q] = op[q]
                 /\ ended[runner].status = status /\ ended[runner].job = op[runner].job
                 /\ ended[runner].msgs = op[runner].msgs /\ ended[runner].before = op[runner].before
  <2>1. [op[runner] EXCEPT !.status = status] \in OpRow
    BY <1>1, RowStatusType
  <2> QED
    BY <1>1, <2>1 DEF IInv, TypeOK, OpRow
<1> QED
  BY <1>1, <1>2, <1>3 DEF Outcome

LEMMA OpSucceedsKeeps ==
    ASSUME IInv, OpSucceeds
    PROVE  IInv'
<1> USE DEF IInv
<1>1. /\ runner # 0 /\ Targets(runner) \cap server = {} /\ runner' = 0
      /\ op' = [op EXCEPT ![runner].status = "succeeded"]
      /\ UNCHANGED <<jobs, mail, up, pumps, ticking, pass, opList, history>>
  BY DEF OpSucceeds
<1>2. /\ op' \in [Ops -> OpRow] /\ \A q \in Ops \ {runner} : op'[q] = op[q]
      /\ op'[runner].status = "succeeded" /\ op'[runner].job = op[runner].job
      /\ op'[runner].msgs = op[runner].msgs /\ op'[runner].before = op[runner].before
  BY <1>1, AwaitedRow, "succeeded" \in OpStatus \ {"none"} DEF OpStatus
<1>3. op[runner].msgs \cap server \cap Asked = {}
  BY <1>1 DEF Targets, Gone
<1>4. TypeOK'
  BY <1>1, <1>2 DEF TypeOK, jobs, mail, pumps, history
<1>5. Removals' /\ Handed' /\ Gone' /\ DoneIsGone' /\ CompletedIsSettled'
  <2>1. server \cap Asked \subseteq cached' /\ UNCHANGED <<jobs, server, account>>
    BY <1>1 DEF Gone, mail
  <2> QED
    BY <1>1, <1>2, <1>3, <2>1, AwaitedRow, RowChanges
<1>6. Passes'
  BY <1>1, <1>2, AwaitedRow DEF Passes, TypeOK
<1>7. Batches'
  BY <1>1 DEF Batches, jobs, pumps
<1>8. Shown'
  <2>1. server' = server /\ hidden' = hidden
    BY <1>1 DEF mail
  <2>2. \A q \in Ops : op'[q].msgs = op[q].msgs /\ op'[q].before = op[q].before
    BY <1>2
  <2>3. \A q \in Ops : op[q].status \in {"queued", "running", "succeeded"} =>
               op'[q].status \in {"queued", "running", "succeeded"}
    BY <1>2
  <2> QED
    BY <2>1, <2>2, <2>3, ShownKept
<1> QED
  BY <1>4, <1>5, <1>6, <1>7, <1>8

LEMMA OpErrorsKeeps ==
    ASSUME IInv, OpErrors
    PROVE  IInv'
<1> USE DEF IInv
<1>1. /\ runner # 0 /\ runner' = 0
      /\ \E status \in {"queued", "failed"} : op' = [op EXCEPT ![runner].status = status]
      /\ UNCHANGED <<jobs, cached, protected, account, copy, server, up, pumps, ticking, pass, opList, history>>
  BY DEF OpErrors
<1>2. PICK status \in {"queued", "failed"} : op' = [op EXCEPT ![runner].status = status]
  BY <1>1
<1>3. /\ op' \in [Ops -> OpRow] /\ \A q \in Ops \ {runner} : op'[q] = op[q]
      /\ op'[runner].status = status /\ op'[runner].job = op[runner].job
      /\ op'[runner].msgs = op[runner].msgs /\ op'[runner].before = op[runner].before
  BY <1>1, <1>2, AwaitedRow, status \in OpStatus \ {"none"} DEF OpStatus
<1>4. \/ op'[runner].status = "queued" /\ hidden' = hidden
      \/ op'[runner].status = "failed" /\ hidden' = Restored(runner)
  BY <1>1, <1>3, AwaitedRow DEF OpErrors, TypeOK, OpRow
<1>5. hidden' \subseteq cached /\ hidden' \subseteq (hidden \ op[runner].msgs) \cup hidden \cup op[runner].before
  BY <1>4 DEF Restored, TypeOK
<1>6. TypeOK'
  BY <1>1, <1>3, <1>5 DEF TypeOK, jobs, pumps, history
<1>7. Removals' /\ Handed' /\ Gone' /\ DoneIsGone' /\ CompletedIsSettled'
  <2>1. server \cap Asked \subseteq cached' /\ UNCHANGED <<jobs, server, account>>
    BY <1>1 DEF Gone
  <2> QED
    BY <1>1, <1>3, <2>1, AwaitedRow, RowChanges
<1>8. Passes'
  BY <1>1, <1>3, AwaitedRow DEF Passes, TypeOK
<1>9. Batches'
  BY <1>1 DEF Batches, jobs, pumps
<1>10. Shown'
  <2>1. \A q \in Ops : op'[q].msgs = op[q].msgs /\ op'[q].before = op[q].before
    BY <1>3
  <2>2. CASE op'[runner].status = "queued" /\ hidden' = hidden
    <3>1. \A q \in Ops : op[q].status \in {"queued", "running", "succeeded"} => op'[q].status \in {"queued", "running", "succeeded"}
      BY <1>3, <2>2
    <3> QED
      BY <1>1, <2>1, <2>2, <3>1, ShownKept
  <2>3. CASE op'[runner].status = "failed" /\ hidden' = Restored(runner)
    <3>1. ASSUME NEW o \in Ops, NEW m \in op'[o].before \cap server'
          PROVE  \E q \in Ops : q # o /\ m \in op'[q].msgs
      <4>1. PICK q \in Ops : q # o /\ m \in op[q].msgs
        BY <1>1, <2>1, <3>1 DEF Shown
      <4> QED
        BY <2>1, <4>1
    <3>2. ASSUME NEW m \in hidden' \cap server'
          PROVE  \E o \in Ops : m \in op'[o].msgs
                    /\ (op'[o].status \in {"queued", "running", "succeeded"} \/ \E q \in Ops : q # o /\ m \in op'[q].msgs)
      <4>1. CASE m \in hidden /\ m \notin op[runner].msgs
        <5>1. PICK o \in Ops : m \in op[o].msgs
                /\ (op[o].status \in {"queued", "running", "succeeded"} \/ \E q \in Ops : q # o /\ m \in op[q].msgs)
          BY <1>1, <3>2, <4>1 DEF Shown, Held
        <5>2. op'[o] = op[o]
          BY <1>3, <4>1, <5>1
        <5> QED
          BY <2>1, <5>1, <5>2
      <4>2. CASE m \in op[runner].before
        <5>1. PICK q \in Ops : q # runner /\ m \in op[q].msgs
          BY <1>1, <3>2, <4>2, AwaitedRow DEF Shown
        <5>2. m \in op[runner].msgs
          BY <1>1, <4>2, AwaitedRow DEF Removals
        <5> QED
          BY <1>1, <2>1, <5>1, <5>2, AwaitedRow
      <4> QED
        BY <2>3, <3>2, <4>1, <4>2 DEF Restored
    <3> QED
      BY <3>1, <3>2 DEF Shown, Held
  <2> QED
    BY <1>4, <2>2, <2>3
<1> QED
  BY <1>6, <1>7, <1>8, <1>9, <1>10

LEMMA OpsFinishKeeps ==
    ASSUME IInv, OpsFinish
    PROVE  IInv'
<1> USE DEF IInv
<1>1. /\ Reconcile({}) /\ pass' = FALSE
      /\ UNCHANGED <<op, protected, account, copy, server, up, pumps, ticking, opList, runner, history>>
  BY DEF OpsFinish
<1>2. TypeOK'
  BY <1>1, ReconcileKeeps DEF TypeOK, pumps, history
<1>3. Batches'
  <2>1. \A i \in Jobs : \A m \in batch[i] : m \in Messages /\ item'[i][m] = item[i][m]
    BY <1>1, ReconcileKeeps DEF Batches, TypeOK, pumps
  <2>2. \A i \in Jobs : jobStatus'[i] = "none" => \A m \in Messages : item'[i][m] = "none"
    BY <1>1, ReconcileKeeps DEF Batches, pumps
  <2>3. \A i \in Jobs : \/ jobStatus'[i] = jobStatus[i]
                        \/ jobStatus[i] = "running" /\ jobStatus'[i] = "completed" /\ batch[i] = {}
    BY <1>1, ReconcileKeeps DEF pumps
  <2> QED
    BY <1>1, <2>1, <2>2, <2>3 DEF Batches, pumps
<1>4. Passes'
  BY <1>1 DEF Passes
<1> QED
  BY <1>1, <1>2, <1>3, <1>4, ReconcileKeeps DEF pumps

-----------------------------------------------------------------------------
(* Crash, restart and the world outside *)

\* A crash may land some of the copies that were being written.
LEMMA CrashLands ==
    ASSUME IInv, Crash
    PROVE  \E landed \in SUBSET Messages, written \in Written :
              /\ \A m \in landed : \E j \in Jobs : m \in batch[j]
              /\ copy' = [m \in Messages |-> IF m \in landed THEN written ELSE copy[m]]
<1>1. PICK landed \in SUBSET {First(batch[j]) : j \in {i \in Jobs : pump[i] = "copying"}}, written \in Written :
          copy' = [m \in Messages |-> IF m \in landed THEN written ELSE copy[m]]
  BY DEF Crash
<1>2. \A m \in landed : m \in Messages /\ \E j \in Jobs : m \in batch[j]
  BY CopyAwaited
<1> QED
  BY <1>1, <1>2

LEMMA CrashKeeps ==
    ASSUME IInv, Crash
    PROVE  IInv'
<1> USE DEF IInv
<1>1. /\ up' = FALSE /\ pump' = [j \in Jobs |-> "off"] /\ batch' = [j \in Jobs |-> {}]
      /\ ticking' = FALSE /\ pass' = FALSE /\ opList' = {} /\ runner' = 0
      /\ UNCHANGED <<jobs, op, cached, hidden, protected, account, server, history>>
  BY DEF Crash
<1>2. copy' \in [Messages -> {"none", "good", "bad"}]
  BY CrashLands, WrittenType DEF TypeOK
<1>3. TypeOK'
  BY <1>1, <1>2 DEF TypeOK, PumpState, jobs, history
<1>4. Removals' /\ Handed' /\ Passes' /\ Gone' /\ Shown'
  BY <1>1, RemovalsKept DEF Handed, Passes, Gone, Shown, Held, jobs
<1>5. Batches' /\ DoneIsGone' /\ CompletedIsSettled'
  BY <1>1 DEF Batches, DoneIsGone, CompletedIsSettled, InState, jobs
<1> QED
  BY <1>3, <1>4, <1>5

LEMMA RestartKeeps ==
    ASSUME IInv, Restart
    PROVE  IInv'
<1> USE DEF IInv
<1>1. /\ ~up /\ up' = TRUE /\ op' = [o \in Ops |-> Recovered(op[o])]
      /\ UNCHANGED <<jobs, mail, pumps, ticking, queue, history>>
  BY DEF Restart
<1>2. \A o \in Ops :
         /\ op'[o] \in OpRow /\ op'[o].job = op[o].job /\ op'[o].msgs = op[o].msgs
         /\ op'[o].before = op[o].before
         /\ op[o].status # "running" => op'[o] = op[o]
         /\ op[o].status = "running" => op'[o].status = "queued"
  BY <1>1 DEF Recovered, TypeOK, OpRow, OpStatus
<1>3. TypeOK'
  BY <1>1, <1>2 DEF TypeOK, jobs, mail, pumps, queue, history
<1>4. Removals'
  BY <1>2 DEF Removals, NoOp
<1>5. Handed'
  <2>1. \A o \in Ops : Outcome(op'[o].status) = Outcome(op[o].status)
    BY <1>2 DEF Outcome
  <2> QED
    BY <1>1, <1>2, <2>1 DEF Handed, jobs
<1>6. Passes'
  BY <1>1 DEF Passes, queue
<1>7. Batches' /\ DoneIsGone' /\ CompletedIsSettled'
  BY <1>1 DEF Batches, DoneIsGone, CompletedIsSettled, InState, jobs, mail, pumps
<1>8. Gone'
  BY <1>1, <1>2 DEF Gone, mail
<1>9. Shown'
  <2>1. \A o \in Ops : op[o].status \in {"queued", "running", "succeeded"} => op'[o].status \in {"queued", "running", "succeeded"}
    BY <1>2
  <2> QED
    BY <1>1, <1>2, <2>1, ShownKept DEF mail
<1> QED
  BY <1>3, <1>4, <1>5, <1>6, <1>7, <1>8, <1>9

LEMMA WorldKeeps ==
    ASSUME IInv, World
    PROVE  IInv'
<1> USE DEF IInv
<1>1. /\ foreign' \in 0..MaxForeign /\ copy' \in [Messages -> {"none", "good", "bad"}]
      /\ protected' \subseteq Messages /\ discarded' \subseteq Messages
      /\ server' \subseteq server /\ server' \cap Asked \subseteq cached' /\ cached' \subseteq Messages
      /\ hidden' \subseteq cached' /\ hidden' \cap server' \subseteq hidden
      /\ UNCHANGED <<jobs, op, account, up, pumps, ticking, queue, purged>>
  <2>1. foreign < MaxForeign /\ foreign' = foreign + 1 => foreign' \in 0..MaxForeign
    BY ArchiveConstants DEF TypeOK
  <2>2. CASE Protect
    BY <2>1, <2>2 DEF Protect, Foreign, TypeOK, Gone
  <2>3. CASE UserDeletesCopy
    BY <2>1, <2>3 DEF UserDeletesCopy, Foreign, TypeOK, Gone
  <2>4. CASE OtherClientRemoves
    BY <2>1, <2>4 DEF OtherClientRemoves, Foreign, TypeOK, Gone
  <2>5. CASE Sync
    BY <2>1, <2>5 DEF Sync, Foreign, TypeOK, Gone
  <2> QED
    BY <2>2, <2>3, <2>4, <2>5 DEF World
<1>2. TypeOK'
  BY <1>1 DEF TypeOK, jobs, pumps, queue
<1>3. Removals' /\ Handed' /\ Passes' /\ Gone'
  BY <1>1, RemovalsKept DEF Handed, Passes, Gone, queue, jobs
<1>4. Batches' /\ DoneIsGone' /\ CompletedIsSettled'
  BY <1>1 DEF Batches, DoneIsGone, CompletedIsSettled, InState, jobs, pumps
<1>5. Shown'
  BY <1>1, ShownKept
<1> QED
  BY <1>2, <1>3, <1>4, <1>5

LEMMA NextKeeps == IInv /\ [Next]_vars => IInv'
<1> SUFFICES ASSUME IInv, [Next]_vars PROVE IInv'
  OBVIOUS
<1>1. CASE UNCHANGED vars
  <2>1. TypeOK' /\ Removals' /\ Handed' /\ Passes' /\ Gone' /\ Shown'
    BY <1>1, RemovalsKept DEF vars, IInv, TypeOK, Handed, Passes, Gone, Shown, Held, jobs, mail, pumps,
                              queue, history
  <2>2. Batches' /\ DoneIsGone' /\ CompletedIsSettled'
    BY <1>1 DEF vars, IInv, Batches, DoneIsGone, CompletedIsSettled, InState, jobs, mail, pumps
  <2> QED
    BY <2>1, <2>2 DEF IInv
<1>2. CASE \E j \in Jobs : RunNow(j) \/ Cancel(j) \/ PumpStep(j) \/ CopyEnds(j)
  <2>1. PICK j \in Jobs : RunNow(j) \/ Cancel(j) \/ PumpStep(j) \/ CopyEnds(j)
    BY <1>2
  <2>2. CASE PumpStep(j)
    BY <2>2, PumpBeginKeeps, QueueRemovalKeeps, FetchBatchKeeps, CheckItemKeeps, BatchDoneKeeps,
       PumpFinishKeeps DEF PumpStep
  <2> QED
    BY <2>1, <2>2, RunNowKeeps, CancelKeeps, CopyEndsKeeps
<1>3. CASE Tick \/ TickPolicies
  BY <1>3, TickKeeps, TickPoliciesKeeps
<1>4. CASE OpsBegin \/ OpStart \/ OpNeedsNoRequest \/ ProviderRemoves \/ OpEnds \/ OpsFinish
  BY <1>4, OpsBeginKeeps, OpStartKeeps, OpNeedsNoRequestKeeps, ProviderRemovesKeeps, OpSucceedsKeeps, OpErrorsKeeps,
     OpsFinishKeeps DEF OpEnds
<1>5. CASE Crash \/ Restart \/ World
  BY <1>5, CrashKeeps, RestartKeeps, WorldKeeps
<1> QED
  BY <1>1, <1>2, <1>3, <1>4, <1>5 DEF Next

LEMMA Invariant == Spec => []IInv
  BY InitKeeps, NextKeeps, PTL DEF Spec

-----------------------------------------------------------------------------
(* What follows from the invariant *)

LEMMA TrackedFollows == IInv => RemovalTracked
<1> SUFFICES ASSUME IInv, NEW j \in Jobs, NEW m \in Messages
             PROVE  /\ \A o \in Ops : (op[o].status \in {"queued", "running"} /\ op[o].job = j /\ m \in op[o].msgs)
                              => item[j][m] = "removal-queued"
                    /\ item[j][m] = "removal-queued"
                          => Cardinality({o \in Ops : op[o].job = j /\ m \in op[o].msgs}) = 1
  BY DEF RemovalTracked
<1>1. ASSUME NEW o \in Ops, op[o].status \in {"queued", "running"}, op[o].job = j, m \in op[o].msgs
      PROVE  item[j][m] = "removal-queued"
  <2>1. Outcome(op[o].status) = "removal-queued"
    BY <1>1 DEF Outcome
  <2> QED
    BY <1>1, <2>1 DEF IInv, Handed
<1>2. ASSUME item[j][m] = "removal-queued"
      PROVE  Cardinality({o \in Ops : op[o].job = j /\ m \in op[o].msgs}) = 1
  <2>1. PICK o \in Ops : op[o].job = j /\ m \in op[o].msgs
    BY <1>2 DEF IInv, Handed
  <2>2. {q \in Ops : op[q].job = j /\ m \in op[q].msgs} = {o}
    BY <2>1 DEF IInv, Removals
  <2> QED
    BY <2>2, FS_Singleton
<1> QED
  BY <1>1, <1>2

LEMMA HiddenFollows == IInv => HiddenOnlyForRemoval
<1> SUFFICES ASSUME IInv, NEW m \in hidden \cap server
             PROVE  LET removals == {o \in Ops : m \in op[o].msgs} IN
                      /\ removals # {}
                      /\ Cardinality(removals) = 1
                            => \A o \in removals : op[o].status \in {"queued", "running", "succeeded"}
  BY DEF HiddenOnlyForRemoval
<1> DEFINE removals == {o \in Ops : m \in op[o].msgs}
<1>1. PICK o \in Ops : m \in op[o].msgs
                /\ (op[o].status \in {"queued", "running", "succeeded"} \/ \E q \in Ops : q # o /\ m \in op[q].msgs)
  BY DEF IInv, Shown, Held
<1>2. ASSUME Cardinality(removals) = 1
      PROVE  \A q \in removals : op[q].status \in {"queued", "running", "succeeded"}
  <2>1. IsFiniteSet(Ops)
    BY IntervalSize, ArchiveConstants, NJobs * NMessages \in Nat DEF Ops
  <2>2. IsFiniteSet(removals)
    BY <2>1, FS_Subset
  <2>3. \E x : removals = {x}
    BY <1>2, <2>2, FS_Singleton
  <2>4. \A q \in Ops : m \in op[q].msgs => q = o
    BY <1>1, <2>3
  <2> QED
    BY <1>1, <2>4
<1> QED
  BY <1>1, <1>2

\* Items and removals stay in step: nothing that was settled, skipped or given
\* up is in a removal that may still run, and what waits has exactly one.
THEOREM RemovalsTracked == Spec => []RemovalTracked
  BY Invariant, TrackedFollows, PTL

\* reconcileRemovals and completeIfSettled report only what is true.
THEOREM ReportsTrue == Spec => []ReportsHold
<1>1. IInv => ReportsHold
  BY DEF IInv, ReportsHold
<1> QED
  BY <1>1, Invariant, PTL

-----------------------------------------------------------------------------
(* No message is lost.  Two runs may copy the same message at the same time *)
(* (the first one was cancelled meanwhile), to the same file: when a write  *)
(* of the second can go wrong, it takes away the copy that the first one    *)
(* had verified.                                                            *)

OneCopier == NJobs = 1 \/ "corrupt" \in Forbidden
KeptStates == {"copied", "removal-queued"}

LEMMA KeptStill ==
    ASSUME Kept, purged' \subseteq purged, \A o \in Ops : op[o].msgs \subseteq op'[o].msgs,
           \A j \in Jobs, m \in Messages : item'[j][m] \in KeptStates =>
               item[j][m] \in KeptStates \/ copy'[m] = "good" \/ m \in discarded',
           \A m \in Messages :
               /\ copy[m] = "good" \/ m \in discarded
               /\ m \in purged \/ \E j \in Jobs : item[j][m] \in KeptStates
               => copy'[m] = "good" \/ m \in discarded',
           purged \subseteq Messages
    PROVE  Kept'
<1>1. \A j \in Jobs, m \in Messages : item'[j][m] \in KeptStates => copy'[m] = "good" \/ m \in discarded'
  BY DEF Kept, KeptStates
<1>2. \A m \in purged' : \E o \in Ops : m \in op'[o].msgs
  BY DEF Kept
<1>3. NoLoss'
  BY DEF Kept, NoLoss
<1> QED
  BY <1>1, <1>2, <1>3 DEF Kept, KeptStates

\* What a store writes is whole, or the message is not counted on yet.
LEMMA WriteIsHarmless ==
    ASSUME OneCopier, IInv, Kept, NEW j \in Jobs, NEW m \in batch[j], NEW written \in Written
    PROVE  \/ written = "good"
           \/ m \notin purged /\ \A i \in Jobs : item[i][m] \notin KeptStates
<1>1. CASE "corrupt" \in Forbidden
  BY <1>1 DEF Written
<1>2. CASE NJobs = 1
  <2>1. \A i \in Jobs : i = j
    BY <1>2 DEF Jobs
  <2>2. item[j][m] \notin KeptStates
    BY BatchItem DEF KeptStates
  <2>3. ASSUME m \in purged PROVE FALSE
    <3>1. PICK o \in Ops : m \in op[o].msgs
      BY <2>3 DEF Kept
    <3>2. op[o].job \in Jobs
      BY <3>1 DEF IInv, Removals, NoOp
    <3> QED
      BY <2>1, <3>1, <3>2, BatchItem
  <2> QED
    BY <2>1, <2>2, <2>3
<1> QED
  BY <1>1, <1>2 DEF OneCopier

\* Steps that leave the copies alone and hand over nothing that was not copied.
LEMMA KeptAlike ==
    ASSUME IInv, Kept, UNCHANGED <<copy, purged, discarded>>,
           \A o \in Ops : op'[o].msgs = op[o].msgs,
           \A j \in Jobs, m \in Messages : item'[j][m] \in KeptStates => item[j][m] \in KeptStates
    PROVE  Kept'
<1>1. purged \subseteq Messages
  BY DEF IInv, TypeOK
<1> QED
  BY <1>1, KeptStill

LEMMA KeptWhenSettled ==
    ASSUME IInv, Kept, UNCHANGED <<copy, purged, discarded, op>>,
           NEW j \in Jobs, NEW ms, NEW state \in ItemState \ KeptStates, item' = Settle(j, ms, state)
    PROVE  Kept'
<1>1. \A i \in Jobs, m \in Messages : item'[i][m] = IF i = j /\ m \in ms THEN state ELSE item[i][m]
  BY SettleReturns DEF IInv
<1> QED
  BY <1>1, KeptAlike

LEMMA KeptByCopy ==
    ASSUME OneCopier, IInv, Kept, NEW j \in Jobs, CopyEnds(j)
    PROVE  Kept'
<1> DEFINE m == First(batch[j])
<1>1. /\ m \in batch[j] /\ m \in Messages /\ purged \subseteq Messages
      /\ copy \in [Messages -> {"none", "good", "bad"}]
      /\ UNCHANGED <<op, purged>>
  BY CopyAwaited DEF IInv, TypeOK, CopyEnds, CopyVerified, CopyRejected, CopyDiskFull, history
<1> HIDE DEF m
<1>2. CASE CopyVerified(j)
  <2>1. /\ copy' = [copy EXCEPT ![m] = "good"] /\ discarded' = discarded \ {m}
        /\ item' = Settle(j, {m}, "copied")
    BY <1>2 DEF CopyVerified, ItemDone, Verified, m
  <2>2. \A i \in Jobs, n \in Messages : item'[i][n] = IF i = j /\ n = m THEN "copied" ELSE item[i][n]
    BY <2>1, SettleReturns DEF IInv, ItemState
  <2>3. \A n \in Messages : copy'[n] = IF n = m THEN "good" ELSE copy[n]
    BY <1>1, <2>1
  <2>4. purged' \subseteq purged /\ \A o \in Ops : op[o].msgs \subseteq op'[o].msgs
    BY <1>1
  <2> QED
    BY <1>1, <2>1, <2>2, <2>3, <2>4, KeptStill
<1>3. CASE CopyRejected(j) \/ CopyDiskFull(j)
  <2>1. \A i \in Jobs, n \in Messages : item'[i][n] \in KeptStates => item[i][n] \in KeptStates
    <3>1. item' = Settle(j, {m}, "failed") \/ item' = item
      BY <1>3 DEF CopyRejected, CopyDiskFull, ItemDone, PauseRun, m
    <3>2. \A i \in Jobs, n \in Messages :
              Settle(j, {m}, "failed")[i][n] = IF i = j /\ n = m THEN "failed" ELSE item[i][n]
      BY SettleReturns DEF IInv, ItemState
    <3> QED
      BY <3>1, <3>2 DEF KeptStates
  <2>2. \/ copy' = copy
        \/ copy' = [copy EXCEPT ![m] = "good"]
        \/ m \notin purged /\ (\A i \in Jobs : item[i][m] \notin KeptStates)
             /\ \E state \in {"none", "good", "bad"} : copy' = [copy EXCEPT ![m] = state]
    <3>1. CASE CopyRejected(j)
      BY <1>1, <3>1, WriteIsHarmless DEF CopyRejected, Verified, m
    <3>2. CASE CopyDiskFull(j)
      BY <1>1, <3>2, WriteIsHarmless, WrittenType DEF CopyDiskFull, m
    <3> QED
      BY <1>3, <3>1, <3>2
  <2>3. \A n \in Messages : \/ copy'[n] = copy[n] \/ copy'[n] = "good"
                            \/ n \notin purged /\ \A i \in Jobs : item[i][n] \notin KeptStates
    BY <1>1, <2>2
  <2>4. discarded' = discarded /\ purged' \subseteq purged /\ \A o \in Ops : op[o].msgs \subseteq op'[o].msgs
    BY <1>1, <1>3 DEF CopyRejected, CopyDiskFull, history
  <2> QED
    BY <1>1, <2>1, <2>3, <2>4, KeptStill
<1> QED
  BY <1>2, <1>3 DEF CopyEnds

LEMMA KeptByCrash ==
    ASSUME OneCopier, IInv, Kept, Crash
    PROVE  Kept'
<1>1. PICK landed \in SUBSET Messages, written \in Written :
          /\ \A m \in landed : \E j \in Jobs : m \in batch[j]
          /\ copy' = [m \in Messages |-> IF m \in landed THEN written ELSE copy[m]]
  BY CrashLands
<1>2. \A m \in Messages : \/ copy'[m] = copy[m] \/ copy'[m] = "good"
                          \/ m \notin purged /\ \A i \in Jobs : item[i][m] \notin KeptStates
  BY <1>1, WriteIsHarmless
<1>3. /\ UNCHANGED <<item, op, purged, discarded>> /\ purged \subseteq Messages
  BY DEF Crash, jobs, history, IInv, TypeOK
<1> QED
  BY <1>2, <1>3, KeptStill

LEMMA KeptByRemoval ==
    ASSUME IInv, Kept, ProviderRemoves
    PROVE  Kept'
<1>1. PICK m \in Targets(runner) \cap server : server' = server \ {m} /\ purged' = purged \cup {m}
  BY DEF ProviderRemoves
<1>2. /\ UNCHANGED <<item, op, copy, discarded>> /\ runner # 0
  BY DEF ProviderRemoves, jobs
<1>3. m \in op[runner].msgs /\ m \in Messages /\ op[runner].job \in Jobs /\ runner \in Ops
  BY <1>1, <1>2, AwaitedRow DEF Targets, IInv, Removals, NoOp, TypeOK, OpRow
<1>4. item[op[runner].job][m] = "removal-queued"
  BY <1>2, <1>3, AwaitedRow DEF IInv, Handed
<1>5. copy[m] = "good" \/ m \in discarded
  BY <1>3, <1>4 DEF Kept
<1> QED
  BY <1>1, <1>2, <1>3, <1>5 DEF Kept, NoLoss

LEMMA KeptByQueueing ==
    ASSUME IInv, Kept, NEW j \in Jobs, QueueRemoval(j)
    PROVE  Kept'
<1> DEFINE ms == Leading(InState(j, {"copied"}))
           free == First({o \in Ops : op[o].status = "none"})
<1>1. \A i \in Jobs, m \in Messages : item'[i][m] = IF i = j /\ m \in ms THEN "removal-queued" ELSE item[i][m]
  BY SettleReturns DEF QueueRemoval, IInv, ItemState
<1>2. \A m \in ms : m \in Messages /\ item[j][m] = "copied"
  BY DEF Leading, InState
<1>3. /\ UNCHANGED <<copy, purged, discarded>> /\ purged \subseteq Messages
      /\ \E row : op' = [op EXCEPT ![free] = row]
  BY DEF QueueRemoval, history, IInv, TypeOK
<1> HIDE DEF ms
<1>4. \A o \in Ops : op[o].msgs \subseteq op'[o].msgs
  <2>1. \A o \in Ops : o # free => op'[o] = op[o]
    BY <1>3 DEF IInv, TypeOK
  <2>2. op[free].msgs = {}
    <3>1. ms # {}
      BY DEF QueueRemoval, ms
    <3>2. {o \in Ops : op[o].status = "none"} # {}
      BY <1>2, <3>1, FreeRow
    <3>3. free \in {o \in Ops : op[o].status = "none"}
      BY <3>2, FirstIsIn, NumbersOfThings
    <3> HIDE DEF free
    <3>4. op[free] = NoOp
      BY <3>3 DEF IInv, Removals
    <3> QED
      BY <3>4 DEF NoOp
  <2> HIDE DEF free
  <2> QED
    BY <2>1, <2>2
<1> QED
  BY <1>1, <1>2, <1>3, <1>4, KeptStill DEF KeptStates

LEMMA KeptByReconciling ==
    ASSUME IInv, Kept, NEW asked, Reconcile(asked), UNCHANGED <<op, server, account, batch, copy, purged, discarded>>
    PROVE  Kept'
<1>1. \A j \in Jobs, m \in Messages : item'[j][m] \in KeptStates => item[j][m] \in KeptStates
  BY ReconcileKeeps DEF KeptStates
<1> QED
  BY <1>1, KeptAlike

LEMMA KeptByStarting ==
    ASSUME IInv, Kept, NEW j \in Jobs, ResumeOrStart(j), UNCHANGED <<op, copy, purged, discarded>>
    PROVE  Kept'
<1>1. CASE StartJob(j)
  BY <1>1, KeptWhenSettled DEF StartJob, ItemState, KeptStates
<1>2. CASE ResumeJob(j)
  BY <1>2, KeptAlike DEF ResumeJob
<1> QED
  BY <1>1, <1>2 DEF ResumeOrStart

\* An item of a batch is adopted only with a whole copy.
LEMMA KeptByChecking ==
    ASSUME IInv, Kept, NEW j \in Jobs, CheckItem(j)
    PROVE  Kept'
<1> DEFINE m == First(batch[j])
<1>1. UNCHANGED <<op, copy, purged, discarded>> /\ purged \subseteq Messages
  BY DEF CheckItem, mail, history, IInv, TypeOK
<1>2. \/ item' = item
      \/ item' = Settle(j, {m}, "skipped") \/ item' = Settle(j, {m}, "failed")
      \/ copy[m] = "good" /\ item' = Settle(j, {m}, "copied")
  BY DEF CheckItem, ItemDone, PauseRun, jobs
<1> HIDE DEF m
<1>3. CASE item' = item
  BY <1>1, <1>3, KeptAlike
<1>4. CASE item' = Settle(j, {m}, "skipped") \/ item' = Settle(j, {m}, "failed")
  BY <1>1, <1>4, KeptWhenSettled DEF ItemState, KeptStates
<1>5. CASE copy[m] = "good" /\ item' = Settle(j, {m}, "copied")
  <2>1. \A i \in Jobs, n \in Messages : item'[i][n] = IF i = j /\ n = m THEN "copied" ELSE item[i][n]
    BY <1>5, SettleReturns DEF IInv, ItemState
  <2>2. \A i \in Jobs, n \in Messages : item'[i][n] \in KeptStates =>
            item[i][n] \in KeptStates \/ copy'[n] = "good" \/ n \in discarded'
    BY <1>1, <1>5, <2>1
  <2> QED
    BY <1>1, <2>2, KeptStill
<1> QED
  BY <1>2, <1>3, <1>4, <1>5

LEMMA KeptByPumping ==
    ASSUME IInv, Kept, NEW j \in Jobs, PumpStep(j)
    PROVE  Kept'
<1>1. CASE PumpBegin(j)
  <2>1. /\ UNCHANGED <<op, copy, purged, discarded>>
        /\ item' = item \/ item' = Settle(j, Cancellable(j), "skipped")
    BY <1>1 DEF PumpBegin, jobs, mail, history
  <2> QED
    BY <2>1, KeptAlike, KeptWhenSettled DEF ItemState, KeptStates
<1>2. CASE QueueRemoval(j)
  BY <1>2, KeptByQueueing
<1>3. CASE FetchBatch(j) \/ BatchDone(j)
  BY <1>3, KeptAlike DEF FetchBatch, BatchDone, jobs, mail, history
<1>4. CASE CheckItem(j)
  BY <1>4, KeptByChecking
<1>5. CASE PumpFinish(j)
  BY <1>5, KeptByReconciling DEF PumpFinish, history
<1> QED
  BY <1>1, <1>2, <1>3, <1>4, <1>5 DEF PumpStep

\* The steps of the operation queue change the status of rows, not what they
\* name.
LEMMA KeptByOperations ==
    ASSUME IInv, Kept, OpsBegin \/ OpStart \/ OpNeedsNoRequest \/ OpEnds \/ OpsFinish \/ Restart
    PROVE  Kept'
<1>1. op \in [Ops -> OpRow]
  BY DEF IInv, TypeOK
<1>2. CASE OpsBegin
  BY <1>2, KeptAlike DEF OpsBegin, jobs, mail, history
<1>3. CASE OpStart
  <2>1. First(opList) \in Ops
    BY <1>3, FirstIsIn, NumbersOfThings DEF OpStart, IInv, TypeOK
  <2>2. \A o \in Ops : op'[o].msgs = op[o].msgs
    <3> DEFINE f == First(opList)
    <3>1. op' = [op EXCEPT ![f] = [op[f] EXCEPT !.status = "running", !.attempts = Attempted(op[f].attempts)]]
      BY <1>3 DEF OpStart
    <3> HIDE DEF f
    <3> QED
      BY <1>1, <3>1 DEF OpRow
  <2> QED
    BY <1>3, <2>2, KeptAlike DEF OpStart, jobs, mail, history
<1>4. CASE OpEnds
  <2>1. \A o \in Ops : op'[o].msgs = op[o].msgs
    BY <1>1, <1>4 DEF OpEnds, OpSucceeds, OpErrors, OpRow
  <2> QED
    BY <1>4, <2>1, KeptAlike DEF OpEnds, OpSucceeds, OpErrors, jobs, mail, history
<1>5. CASE OpsFinish
  BY <1>5, KeptByReconciling DEF OpsFinish, pumps, history
<1>6. CASE Restart
  <2>1. \A o \in Ops : op'[o].msgs = op[o].msgs
    BY <1>1, <1>6 DEF Restart, Recovered, OpRow
  <2> QED
    BY <1>6, <2>1, KeptAlike DEF Restart, jobs, mail, history
<1>7. CASE OpNeedsNoRequest
  <2>1. \A o \in Ops : op'[o].msgs = op[o].msgs
    BY <1>1, <1>7 DEF OpNeedsNoRequest, OpRow
  <2> QED
    BY <1>7, <2>1, KeptAlike DEF OpNeedsNoRequest, jobs, mail, history
<1> QED
  BY <1>2, <1>3, <1>4, <1>5, <1>6, <1>7

\* Only the user takes a verified copy away.
LEMMA KeptByWorld ==
    ASSUME IInv, Kept, World
    PROVE  Kept'
<1>1. CASE UserDeletesCopy
  <2>1. PICK m \in Messages : copy' = [copy EXCEPT ![m] = "none"] /\ discarded' = discarded \cup {m}
    BY <1>1 DEF UserDeletesCopy
  <2>2. UNCHANGED <<item, op, purged>> /\ purged \subseteq Messages
    BY <1>1 DEF UserDeletesCopy, jobs, IInv, TypeOK
  <2>3. \A n \in Messages : copy'[n] = copy[n] \/ n \in discarded'
    BY <2>1 DEF IInv, TypeOK
  <2> QED
    BY <2>1, <2>2, <2>3, KeptStill
<1>2. CASE Protect \/ OtherClientRemoves \/ Sync
  BY <1>2, KeptAlike DEF Protect, OtherClientRemoves, Sync, jobs
<1> QED
  BY <1>1, <1>2 DEF World

LEMMA KeptNext ==
    ASSUME OneCopier, IInv, Kept, [Next]_vars
    PROVE  Kept'
<1>1. CASE UNCHANGED vars
  BY <1>1, KeptAlike DEF vars, jobs, mail, history
<1>2. ASSUME NEW j \in Jobs, RunNow(j) \/ Cancel(j) \/ PumpStep(j) \/ CopyEnds(j)
      PROVE  Kept'
  <2>1. CASE RunNow(j)
    BY <2>1, KeptByStarting DEF RunNow, mail, history
  <2>2. CASE Cancel(j)
    BY <2>2, KeptWhenSettled DEF Cancel, mail, history, ItemState, KeptStates
  <2> QED
    BY <1>2, <2>1, <2>2, KeptByPumping, KeptByCopy
<1>3. CASE Tick \/ TickPolicies
  <2>1. CASE Tick
    BY <2>1, KeptByReconciling DEF Tick, history
  <2>2. CASE TickPolicies
    <3>1. UNCHANGED <<op, copy, purged, discarded>>
      BY <2>2 DEF TickPolicies, mail, history
    <3>2. CASE UNCHANGED <<jobs, pump>>
      BY <3>1, <3>2, KeptAlike DEF jobs
    <3> QED
      BY <2>2, <3>1, <3>2, KeptByStarting DEF TickPolicies
  <2> QED
    BY <1>3, <2>1, <2>2
<1>4. CASE ProviderRemoves
  BY <1>4, KeptByRemoval
<1>5. CASE Crash
  BY <1>5, KeptByCrash
<1> QED
  BY <1>1, <1>2, <1>3, <1>4, <1>5, KeptByOperations, KeptByWorld DEF Next

\* With one run, or copies that are written whole, the removal on the server
\* leaves no message without its local copy, and no message that stays on the
\* server is hidden without a removal.
THEOREM NothingLost == OneCopier => (Spec => []KeptAndShown)
<1> SUFFICES ASSUME OneCopier PROVE Spec => []KeptAndShown
  OBVIOUS
<1>1. Init => Kept
  BY DEF Init, Kept, NoLoss
<1>2. Kept /\ IInv /\ [Next]_vars => Kept'
  BY KeptNext
<1>3. Kept /\ IInv => KeptAndShown
  BY HiddenFollows DEF Kept, KeptAndShown
<1> QED
  BY <1>1, <1>2, <1>3, Invariant, PTL DEF Spec
=============================================================================
