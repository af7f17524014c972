------------------------- MODULE OperationQueueProofs -------------------------
(***************************************************************************)
(* The safety of OperationQueue for any conversation, any number of        *)
(* changes and attempts, and any kinds of changes.                         *)
(***************************************************************************)
EXTENDS OperationQueue, TLAPS

\* A pass and its request exist only while the worker runs, and the request
\* in flight belongs to the row that says so.
InFlight ==
    /\ ~up => runner = 0 /\ opList = {}
    /\ runner = 0 => ~taken
    /\ runner # 0 => op[runner].status = "running"
    /\ taken => runner \in performed

\* What a pass has read, started or carried out is a change that was made,
\* and one that was started has an attempt to show for it.
Made ==
    /\ \A o \in opList : op[o].status # "none"
    /\ \A o \in performed : op[o].status # "none" /\ op[o].attempts > 0
    /\ \A o \in Ops : op[o].status = "running" => op[o].attempts > 0

\* A change that was undone in time is cancelled and no pass knows of it.
Unread ==
    \A o \in Ops : withdrawn[o] = "unread" =>
        op[o].status = "cancelled" /\ o \notin opList /\ o \notin performed /\ o # runner

Safe == /\ InFlight /\ Made /\ Unread
        /\ RunningIsAwaited /\ SucceededWasPerformed /\ OnlyTargetsTouched
IInv == TypeOK /\ Safe

-----------------------------------------------------------------------------
\* A change of labels gives labels.
LEMMA ChangedType ==
    ASSUME NEW kind \in Kinds, NEW set \in SUBSET Labels
    PROVE  Changed(kind, set) \in SUBSET Labels
  BY DEF Changed, Kinds, Labels

LEMMA InverseType ==
    ASSUME NEW kind \in Kinds
    PROVE  Inverse(kind) \in Kinds
  BY DEF Inverse, Kinds

LEMMA AttemptedType ==
    ASSUME NEW n \in 0..MaxAttempts
    PROVE  Attempted(n) \in 0..MaxAttempts /\ Attempted(n) > 0
  BY QueueConstants DEF Attempted

LEMMA RequestType ==
    ASSUME TypeOK, NEW o \in Ops
    PROVE  Request(o) \in Kinds /\ RequestTargets(o) \subseteq Messages
  BY DEF TypeOK, Row, Request, RequestTargets, Kinds

LEMMA RestoredType ==
    ASSUME TypeOK, NEW o \in Ops
    PROVE  Restored(o) \in [Messages -> SUBSET Labels]
  BY DEF TypeOK, Row, Restored

-----------------------------------------------------------------------------
\* The next status of a row, and its next attempt, keep it a row.
LEMMA RowStatusType ==
    ASSUME NEW row \in Row, NEW status \in OpStatus
    PROVE  [row EXCEPT !.status = status] \in Row
  BY DEF Row

LEMMA RowStartedType ==
    ASSUME NEW row \in Row
    PROVE  [row EXCEPT !.status = "running", !.attempts = Attempted(row.attempts)] \in Row
<1>1. row.attempts \in 0..MaxAttempts
  BY DEF Row
<1>2. Attempted(row.attempts) \in 0..MaxAttempts
  BY <1>1, AttemptedType
<1> QED
  BY <1>2 DEF Row, OpStatus

LEMMA RowRecoveredType ==
    ASSUME NEW row \in Row
    PROVE  Recovered(row) \in Row
  BY DEF Row, OpStatus, Recovered

LEMMA TypeInit == Init => TypeOK
<1>1. [m \in Messages |-> {}] \in [Messages -> SUBSET Labels]
  OBVIOUS
<1>2. NoOp \in Row
  BY <1>1, QueueConstants DEF NoOp, Row, OpStatus, Kinds
<1>3. [m \in Messages |-> {"INBOX"}] \in [Messages -> SUBSET Labels]
  BY DEF Labels
<1>4. Init => /\ labels \in [Messages -> SUBSET Labels] /\ remote \in [Messages -> SUBSET Labels]
              /\ op \in [Ops -> Row]
  BY <1>2, <1>3 DEF Init
<1> QED
  BY <1>4 DEF Init, TypeOK

\* applyLocalAction adds a row in the place of none and touches nothing of
\* the pass.
LEMMA AppliedType ==
    ASSUME TypeOK, NEW o \in Ops, NEW kind \in Kinds, NEW ms \in SUBSET Messages,
           NEW perMessage \in BOOLEAN, ApplyLocalAction(o, kind, ms, perMessage)
    PROVE  TypeOK'
<1>1. labels' \in [Messages -> SUBSET Labels]
  BY ChangedType DEF TypeOK, ApplyLocalAction
<1>2. [m \in Messages |-> IF m \in ms THEN labels[m] ELSE {}] \in [Messages -> SUBSET Labels]
  BY DEF TypeOK
<1>3. op' \in [Ops -> Row]
  <2>1. [status |-> "queued", kind |-> kind, msgs |-> ms, perMessage |-> perMessage,
         before |-> [m \in Messages |-> IF m \in ms THEN labels[m] ELSE {}],
         attempts |-> 0] \in Row
    BY <1>2, QueueConstants DEF Row, OpStatus
  <2> QED
    BY <2>1 DEF TypeOK, ApplyLocalAction
<1> QED
  BY <1>1, <1>3 DEF TypeOK, ApplyLocalAction, process, history

LEMMA ActApplies ==
    ASSUME NEW o \in Ops, Act(o)
    PROVE  \E kind \in Kinds, ms \in SUBSET Messages, perMessage \in BOOLEAN :
               ApplyLocalAction(o, kind, ms, perMessage)
<1>1. CASE \E kind \in ThreadKinds : ApplyLocalAction(o, kind, Messages, FALSE)
  BY <1>1, QueueConstants
<1>2. CASE \E kind \in MessageKinds, m \in Messages : ApplyLocalAction(o, kind, {m}, TRUE)
  <2>1. PICK kind \in MessageKinds, m \in Messages : ApplyLocalAction(o, kind, {m}, TRUE)
    BY <1>2
  <2>2. {m} \in SUBSET Messages
    OBVIOUS
  <2> QED
    BY <2>1, <2>2, QueueConstants
<1> QED
  BY <1>1, <1>2 DEF Act

\* An undo cancels the row, or applies the inverse as a change of its own.
LEMMA UndoCases ==
    ASSUME TypeOK, NEW o \in Ops, Undo(o)
    PROVE  \/ UndoQueued(o)
           \/ \E q \in Ops, kind \in Kinds, ms \in SUBSET Messages, perMessage \in BOOLEAN :
                 ApplyLocalAction(q, kind, ms, perMessage)
<1>1. CASE UndoQueued(o)
  BY <1>1
<1>2. CASE UndoSent(o)
  <2>1. PICK q \in Ops : ApplyLocalAction(q, Inverse(op[o].kind), op[o].msgs, op[o].perMessage)
    BY <1>2 DEF UndoSent
  <2>2. /\ Inverse(op[o].kind) \in Kinds /\ op[o].msgs \in SUBSET Messages
        /\ op[o].perMessage \in BOOLEAN
    BY InverseType DEF TypeOK, Row
  <2> QED
    BY <2>1, <2>2
<1> QED
  BY <1>1, <1>2 DEF Undo

LEMMA TypeStep == TypeOK /\ [Next]_vars => TypeOK'
<1> SUFFICES ASSUME TypeOK, [Next]_vars PROVE TypeOK'
  OBVIOUS
<1>1. ASSUME NEW o \in Ops, Act(o) PROVE TypeOK'
  BY <1>1, ActApplies, AppliedType
<1>2. ASSUME NEW o \in Ops, Undo(o) PROVE TypeOK'
  <2>1. CASE UndoQueued(o)
    <3>1. Restored(o) \in [Messages -> SUBSET Labels]
      BY RestoredType
    <3>2. op' \in [Ops -> Row]
      BY <2>1, RowStatusType DEF UndoQueued, TypeOK, OpStatus
    <3> QED
      BY <2>1, <3>1, <3>2 DEF UndoQueued, TypeOK, process
  <2> QED
    BY <1>2, <2>1, UndoCases, AppliedType
<1>3. ASSUME NEW o \in Ops, OpStart(o) PROVE TypeOK'
  <2>1. op' = [op EXCEPT ![o] = [op[o] EXCEPT !.status = "running", !.attempts = Attempted(op[o].attempts)]]
    BY <1>3 DEF OpStart, TypeOK, Row
  <2>2. op' \in [Ops -> Row]
    BY <2>1, RowStartedType DEF TypeOK
  <2> QED
    BY <1>3, <2>2 DEF OpStart, TypeOK, history
<1>4. ASSUME Sync PROVE TypeOK'
  BY <1>4 DEF Sync, TypeOK, process, history
<1>5. ASSUME OpsBegin PROVE TypeOK'
  BY <1>5 DEF OpsBegin, TypeOK, Due, history
<1>6. ASSUME ProviderApplies PROVE TypeOK'
  <2>1. runner \in Ops
    BY <1>6 DEF ProviderApplies, TypeOK
  <2>2. Request(runner) \in Kinds
    BY <2>1, RequestType
  <2>3. remote' \in [Messages -> SUBSET Labels]
    BY <1>6, <2>2, ChangedType DEF ProviderApplies, TypeOK
  <2> QED
    BY <1>6, <2>1, <2>3 DEF ProviderApplies, TypeOK
<1>7. ASSUME OpSucceeds PROVE TypeOK'
  <2>1. op' \in [Ops -> Row]
    BY <1>7, RowStatusType DEF OpSucceeds, TypeOK, OpStatus
  <2> QED
    BY <1>7, <2>1 DEF OpSucceeds, TypeOK, history
<1>8. ASSUME OpErrors PROVE TypeOK'
  <2>1. runner \in Ops
    BY <1>8 DEF OpErrors, TypeOK
  <2>2. Restored(runner) \in [Messages -> SUBSET Labels]
    BY <2>1, RestoredType
  <2>3. op' \in [Ops -> Row]
    <3>1. CASE op' = [op EXCEPT ![runner].status = "queued"]
      BY <2>1, <3>1, RowStatusType DEF TypeOK, OpStatus
    <3>2. CASE op' = [op EXCEPT ![runner].status = "failed"]
      BY <2>1, <3>2, RowStatusType DEF TypeOK, OpStatus
    <3> QED
      BY <1>8, <3>1, <3>2 DEF OpErrors
  <2>4. labels' \in [Messages -> SUBSET Labels]
    BY <1>8, <2>2 DEF OpErrors, TypeOK
  <2> QED
    BY <1>8, <2>3, <2>4 DEF OpErrors, TypeOK, history
<1>9. ASSUME OpsFinish PROVE TypeOK'
  BY <1>9 DEF OpsFinish, TypeOK, history
<1>10. ASSUME Crash PROVE TypeOK'
  BY <1>10 DEF Crash, TypeOK, history
<1>11. ASSUME Restart PROVE TypeOK'
  BY <1>11, RowRecoveredType DEF Restart, TypeOK, history
<1>12. ASSUME UNCHANGED vars PROVE TypeOK'
  BY <1>12 DEF vars, process, history, TypeOK
<1> QED
  BY <1>1, <1>2, <1>3, <1>4, <1>5, <1>6, <1>7, <1>8, <1>9, <1>10, <1>11, <1>12
     DEF Next, OpEnds

\* Every variable of the operation queue keeps its type.
THEOREM QueueTypeCorrect == Spec => []TypeOK
<1>1. TypeOK /\ [Next]_vars => TypeOK'
  BY TypeStep
<1> QED
  BY TypeInit, <1>1, PTL DEF Spec

-----------------------------------------------------------------------------
LEMMA SafeInit == Init => Safe
  BY DEF Init, Safe, InFlight, Made, Unread, RunningIsAwaited, SucceededWasPerformed,
         OnlyTargetsTouched, NoOp

\* A change that is made takes a row that nothing refers to.
LEMMA AppliedSafe ==
    ASSUME TypeOK, Safe, NEW o \in Ops, NEW kind \in Kinds, NEW ms \in SUBSET Messages,
           NEW perMessage \in BOOLEAN, ApplyLocalAction(o, kind, ms, perMessage)
    PROVE  Safe'
<1>1. op[o].status = "none"
  BY DEF ApplyLocalAction, IsFirst, Free
<1>2. /\ op'[o].status = "queued"
      /\ \A q \in Ops \ {o} : op'[q] = op[q]
  BY DEF ApplyLocalAction, TypeOK
<1>3. UNCHANGED <<remote, up, pass, opList, runner, taken, performed, withdrawn>>
  BY DEF ApplyLocalAction, process, history
<1>4. o \notin opList /\ o \notin performed /\ o # runner /\ withdrawn[o] # "unread"
  BY <1>1 DEF Safe, Made, Unread, InFlight, Ops
<1>5. opList \subseteq Ops /\ performed \subseteq Ops /\ runner \in Ops \cup {0}
  BY DEF TypeOK
<1>6. InFlight'
  BY <1>2, <1>3, <1>4, <1>5 DEF Safe, InFlight
<1>7. Made'
  BY <1>2, <1>3, <1>4, <1>5 DEF Safe, Made
<1>8. Unread'
  BY <1>2, <1>3, <1>4 DEF Safe, Unread
<1>9. RunningIsAwaited' /\ SucceededWasPerformed'
  BY <1>2, <1>3 DEF Safe, RunningIsAwaited, SucceededWasPerformed
<1>10. OnlyTargetsTouched'
  BY <1>2, <1>3, <1>4, <1>5 DEF Safe, OnlyTargetsTouched
<1> QED
  BY <1>6, <1>7, <1>8, <1>9, <1>10 DEF Safe

LEMMA UndoQueuedSafe ==
    ASSUME TypeOK, Safe, NEW o \in Ops, UndoQueued(o)
    PROVE  Safe'
<1>1. /\ op[o].status = "queued" /\ op'[o].status = "cancelled"
      /\ \A q \in Ops \ {o} : op'[q] = op[q]
      /\ \A q \in Ops : op'[q].attempts = op[q].attempts /\ op'[q].msgs = op[q].msgs
  BY DEF UndoQueued, TypeOK, Row
<1>2. UNCHANGED <<remote, up, pass, opList, runner, taken, performed>>
  BY DEF UndoQueued, process
<1>3. o # runner
  BY <1>1 DEF Safe, InFlight, Ops
<1>4. withdrawn'[o] = "unread" => o \notin opList /\ o \notin performed
  <2>1. ASSUME op[o].attempts > 0, withdrawn'[o] = "unread" PROVE FALSE
    <3>1. withdrawn[o] = "unread"
      BY <2>1 DEF UndoQueued, TypeOK
    <3> QED
      BY <1>1, <3>1 DEF Safe, Unread
  <2>2. ASSUME ~(op[o].attempts > 0), withdrawn'[o] = "unread" PROVE o \notin opList
    BY <2>2 DEF UndoQueued, TypeOK
  <2>3. ~(op[o].attempts > 0) => o \notin performed
    BY DEF Safe, Made
  <2> QED
    BY <2>1, <2>2, <2>3
<1>5. \A q \in Ops \ {o} : withdrawn'[q] = withdrawn[q]
  BY DEF UndoQueued, TypeOK
<1>6. opList \subseteq Ops /\ performed \subseteq Ops /\ runner \in Ops \cup {0}
  BY DEF TypeOK
<1>7. InFlight'
  BY <1>1, <1>2, <1>3, <1>6 DEF Safe, InFlight
<1>8. Made'
  <2>1. \A q \in Ops : op[q].status # "none" => op'[q].status # "none"
    BY <1>1
  <2>2. \A q \in Ops : op'[q].status = "running" => op[q].status = "running"
    BY <1>1
  <2> QED
    BY <1>1, <1>2, <1>6, <2>1, <2>2 DEF Safe, Made
<1>9. Unread'
  BY <1>1, <1>2, <1>3, <1>4, <1>5 DEF Safe, Unread
<1>10. RunningIsAwaited' /\ SucceededWasPerformed'
  BY <1>1, <1>2 DEF Safe, RunningIsAwaited, SucceededWasPerformed
<1>11. OnlyTargetsTouched'
  BY <1>1, <1>2, <1>6 DEF Safe, OnlyTargetsTouched
<1> QED
  BY <1>7, <1>8, <1>9, <1>10, <1>11 DEF Safe

\* The pass comes to a row: it cannot be one that was undone before the pass
\* read it, and no other row says "running".
LEMMA OpStartSafe ==
    ASSUME TypeOK, Safe, NEW o \in Ops, OpStart(o)
    PROVE  Safe'
<1>1. /\ op'[o].status = "running" /\ op'[o].attempts = Attempted(op[o].attempts)
      /\ \A q \in Ops \ {o} : op'[q] = op[q]
      /\ \A q \in Ops : op'[q].msgs = op[q].msgs
  BY DEF OpStart, TypeOK, Row
<1>2. /\ up /\ runner = 0 /\ o \in opList
      /\ runner' = o /\ opList' = opList \ {o} /\ taken' = FALSE
      /\ UNCHANGED <<remote, up, performed, withdrawn>>
  BY DEF OpStart, IsFirst, history
<1>3. op'[o].attempts > 0
  BY <1>1, AttemptedType DEF TypeOK, Row
<1>4. opList \subseteq Ops /\ performed \subseteq Ops /\ o # 0
  BY DEF TypeOK, Ops
<1>5. InFlight'
  BY <1>1, <1>2, <1>4 DEF InFlight
<1>6. Made'
  BY <1>1, <1>2, <1>3, <1>4 DEF Safe, Made
<1>7. Unread'
  BY <1>1, <1>2 DEF Safe, Unread
<1>8. RunningIsAwaited' /\ SucceededWasPerformed'
  BY <1>1, <1>2, <1>4 DEF Safe, RunningIsAwaited, SucceededWasPerformed, Ops
<1>9. OnlyTargetsTouched'
  BY <1>1, <1>2, <1>4 DEF Safe, OnlyTargetsTouched
<1> QED
  BY <1>5, <1>6, <1>7, <1>8, <1>9 DEF Safe

\* The provider touches the messages that the change in flight names.
LEMMA ProviderAppliesSafe ==
    ASSUME TypeOK, Safe, ProviderApplies
    PROVE  Safe'
<1>1. /\ up /\ runner \in Ops /\ runner # 0 /\ taken' = TRUE
      /\ performed' = performed \cup {runner}
      /\ UNCHANGED <<op, up, opList, runner, withdrawn>>
  BY DEF ProviderApplies, TypeOK
<1>2. op[runner].status = "running"
  BY <1>1 DEF Safe, InFlight
<1>3. InFlight' /\ Made'
  BY <1>1, <1>2 DEF Safe, InFlight, Made
<1>4. Unread' /\ RunningIsAwaited' /\ SucceededWasPerformed'
  BY <1>1, <1>2 DEF Safe, Unread, RunningIsAwaited, SucceededWasPerformed
<1>5. OnlyTargetsTouched'
  <2> SUFFICES ASSUME NEW m \in Messages, remote'[m] # {"INBOX"}
               PROVE  \E o \in performed' : m \in op'[o].msgs
    BY DEF OnlyTargetsTouched
  <2>1. CASE m \in op[runner].msgs
    BY <1>1, <2>1
  <2>2. CASE m \notin op[runner].msgs
    <3>1. remote'[m] = remote[m]
      BY <2>2 DEF ProviderApplies, RequestTargets
    <3> QED
      BY <1>1, <3>1 DEF Safe, OnlyTargetsTouched
  <2> QED
    BY <2>1, <2>2
<1> QED
  BY <1>3, <1>4, <1>5 DEF Safe

\* A request ends: its row leaves "running" for a status that the outcome
\* allows.
LEMMA OpEndsSafe ==
    ASSUME TypeOK, Safe, OpEnds
    PROVE  Safe'
<1>1. /\ up /\ runner \in Ops /\ runner # 0 /\ runner' = 0 /\ taken' = FALSE
      /\ UNCHANGED <<remote, up, opList, performed, withdrawn>>
  BY DEF OpEnds, OpSucceeds, OpErrors, TypeOK, history
<1>2. /\ op'[runner].status \in {"succeeded", "queued", "failed"}
      /\ op'[runner].status = "succeeded" => taken
      /\ \A q \in Ops \ {runner} : op'[q] = op[q]
      /\ \A q \in Ops : op'[q].attempts = op[q].attempts /\ op'[q].msgs = op[q].msgs
  <2>1. CASE OpSucceeds
    BY <1>1, <2>1 DEF OpSucceeds, TypeOK, Row
  <2>2. CASE OpErrors
    <3>1. \E status \in {"queued", "failed"} : op' = [op EXCEPT ![runner].status = status]
      BY <2>2 DEF OpErrors
    <3> QED BY <1>1, <3>1 DEF TypeOK, Row
  <2> QED
    BY <2>1, <2>2 DEF OpEnds
<1>3. op[runner].status = "running" /\ (taken => runner \in performed)
  BY <1>1 DEF Safe, InFlight
<1>4. opList \subseteq Ops /\ performed \subseteq Ops
  BY DEF TypeOK
<1>5. InFlight' /\ Made'
  BY <1>1, <1>2, <1>3, <1>4 DEF Safe, InFlight, Made
<1>6. Unread'
  BY <1>1, <1>2, <1>3 DEF Safe, Unread, Ops
<1>7. RunningIsAwaited' /\ SucceededWasPerformed'
  BY <1>1, <1>2, <1>3 DEF Safe, RunningIsAwaited, SucceededWasPerformed
<1>8. OnlyTargetsTouched'
  BY <1>1, <1>2, <1>4 DEF Safe, OnlyTargetsTouched
<1> QED
  BY <1>5, <1>6, <1>7, <1>8 DEF Safe

LEMMA SafeStep == TypeOK /\ Safe /\ [Next]_vars => Safe'
<1> SUFFICES ASSUME TypeOK, Safe, [Next]_vars PROVE Safe'
  OBVIOUS
<1>1. ASSUME NEW o \in Ops, Act(o) PROVE Safe'
  BY <1>1, ActApplies, AppliedSafe
<1>2. ASSUME NEW o \in Ops, Undo(o) PROVE Safe'
  BY <1>2, UndoCases, UndoQueuedSafe, AppliedSafe
<1>3. ASSUME NEW o \in Ops, OpStart(o) PROVE Safe'
  BY <1>3, OpStartSafe
<1>4. ASSUME Sync PROVE Safe'
  BY <1>4 DEF Sync, process, history, Safe, InFlight, Made, Unread, RunningIsAwaited,
              SucceededWasPerformed, OnlyTargetsTouched
<1>5. ASSUME OpsBegin PROVE Safe'
  <2>1. opList' \subseteq Due /\ UNCHANGED <<remote, op, up, runner, taken, performed, withdrawn>>
    BY <1>5 DEF OpsBegin, history
  <2>2. InFlight' /\ Made'
    BY <1>5, <2>1 DEF OpsBegin, Due, Safe, InFlight, Made
  <2>3. Unread' /\ RunningIsAwaited' /\ SucceededWasPerformed'
    BY <2>1 DEF Due, Safe, Unread, RunningIsAwaited, SucceededWasPerformed
  <2> QED
    BY <2>1, <2>2, <2>3 DEF Safe, OnlyTargetsTouched
<1>6. ASSUME ProviderApplies PROVE Safe'
  BY <1>6, ProviderAppliesSafe
<1>7. ASSUME OpEnds PROVE Safe'
  BY <1>7, OpEndsSafe
<1>8. ASSUME OpsFinish PROVE Safe'
  BY <1>8 DEF OpsFinish, history, Safe, InFlight, Made, Unread, RunningIsAwaited,
              SucceededWasPerformed, OnlyTargetsTouched
<1>9. ASSUME Crash PROVE Safe'
  BY <1>9 DEF Crash, history, Safe, InFlight, Made, Unread, RunningIsAwaited,
              SucceededWasPerformed, OnlyTargetsTouched, Ops
<1>10. ASSUME Restart PROVE Safe'
  <2>1. UNCHANGED <<remote, opList, runner, taken, performed, withdrawn>> /\ ~up /\ up'
    BY <1>10 DEF Restart, history
  <2>2. \A q \in Ops : /\ op'[q].attempts = op[q].attempts /\ op'[q].msgs = op[q].msgs
                       /\ op[q].status # "running" => op'[q] = op[q]
                       /\ op[q].status = "running" => op'[q].status = "queued"
    BY <1>10 DEF Restart, Recovered, TypeOK, Row
  <2>3. runner = 0 /\ opList = {} /\ ~taken /\ performed \subseteq Ops
    BY <2>1 DEF Safe, InFlight, TypeOK
  <2>4. InFlight' /\ Made'
    BY <2>1, <2>2, <2>3 DEF Safe, InFlight, Made
  <2>5. Unread' /\ RunningIsAwaited' /\ SucceededWasPerformed'
    BY <2>1, <2>2, <2>3 DEF Safe, Unread, RunningIsAwaited, SucceededWasPerformed
  <2>6. OnlyTargetsTouched'
    BY <2>1, <2>2, <2>3 DEF Safe, OnlyTargetsTouched
  <2> QED
    BY <2>4, <2>5, <2>6 DEF Safe
<1>11. ASSUME UNCHANGED vars PROVE Safe'
  BY <1>11 DEF vars, process, history, Safe, InFlight, Made, Unread, RunningIsAwaited,
               SucceededWasPerformed, OnlyTargetsTouched
<1> QED
  BY <1>1, <1>2, <1>3, <1>4, <1>5, <1>6, <1>7, <1>8, <1>9, <1>10, <1>11 DEF Next

\* TypeOK and Safe together are inductive.
LEMMA QueueInvariant == Spec => []IInv
<1>1. Init => IInv
  BY TypeInit, SafeInit DEF IInv
<1>2. IInv /\ [Next]_vars => IInv'
  BY TypeStep, SafeStep DEF IInv
<1> QED
  BY <1>1, <1>2, PTL DEF Spec

\* One request at a time, and a row left "running" by a crash is recovered:
\* runOperations and recoverInterruptedWork together.
THEOREM RunningRowsAwaited == Spec => []RunningIsAwaited
<1>1. IInv => RunningIsAwaited
  BY DEF IInv, Safe
<1> QED
  BY <1>1, QueueInvariant, PTL

\* runOperations reports a change done only after the provider did it.
THEOREM SuccessIsReal == Spec => []SucceededWasPerformed
<1>1. IInv => SucceededWasPerformed
  BY DEF IInv, Safe
<1> QED
  BY <1>1, QueueInvariant, PTL

\* The requests of runOperations leave the messages alone that no change names.
THEOREM OthersAreLeftAlone == Spec => []OnlyTargetsTouched
<1>1. IInv => OnlyTargetsTouched
  BY DEF IInv, Safe
<1> QED
  BY <1>1, QueueInvariant, PTL

\* undoOperation of a change that no pass has read yet is final.
THEOREM UndoneInTime == Spec => []UndoInTimeIsNeverSent
<1>1. IInv => UndoInTimeIsNeverSent
  BY DEF IInv, Safe, Unread, UndoInTimeIsNeverSent, TypeOK
<1> QED
  BY <1>1, QueueInvariant, PTL

\* The two invariants of the rows' reports together.
THEOREM ReportsReal == Spec => []ReportsAreReal
  BY QueueTypeCorrect, RunningRowsAwaited, SuccessIsReal, PTL DEF ReportsAreReal

\* The two invariants of what reaches the provider together.
THEOREM RequestsWanted == Spec => []RequestsAreWanted
  BY OthersAreLeftAlone, UndoneInTime, PTL DEF RequestsAreWanted

-----------------------------------------------------------------------------
(* What a change that is given up leaves behind *)

\* While a change is the only one and the provider has not carried it out,
\* its row holds what the provider has of the messages it names, and the
\* other messages are shown as the provider has them.
Alone(o) == \A q \in Ops \ {o} : op[q].status = "none"
IntactRow(o) ==
    Alone(o) /\ o \notin performed =>
        /\ op[o].status \in {"none", "failed"} => labels = remote
        /\ op[o].status # "none" =>
               \A m \in Messages :
                   remote[m] = IF m \in op[o].msgs THEN op[o].before[m] ELSE labels[m]
Intact == \A o \in Ops : IntactRow(o)

LEMMA IntactInit == Init => Intact
  BY DEF Init, Intact, IntactRow, NoOp

\* The first change records what it changes; a second one is not alone.
LEMMA AppliedIntact ==
    ASSUME IInv, Intact, NEW i \in Ops, NEW o \in Ops, NEW kind \in Kinds,
           NEW ms \in SUBSET Messages, NEW perMessage \in BOOLEAN,
           ApplyLocalAction(o, kind, ms, perMessage)
    PROVE  IntactRow(i)'
<1>1. /\ op[o].status = "none" /\ op'[o].status = "queued" /\ op'[o].msgs = ms
      /\ op'[o].before = [m \in Messages |-> IF m \in ms THEN labels[m] ELSE {}]
      /\ \A q \in Ops \ {o} : op'[q] = op[q]
  BY DEF ApplyLocalAction, IsFirst, Free, IInv, TypeOK
<1>2. /\ labels' = [m \in Messages |-> IF m \in ms THEN Changed(kind, labels[m]) ELSE labels[m]]
      /\ UNCHANGED <<remote, performed>>
  BY DEF ApplyLocalAction, history
<1>3. SUFFICES ASSUME Alone(i)', i \notin performed'
               PROVE  IntactRow(i)'
  BY DEF IntactRow
<1>4. i = o
  BY <1>1, <1>3 DEF Alone
<1>5. Alone(o) /\ o \notin performed
  BY <1>1, <1>2, <1>3, <1>4 DEF Alone
<1>6. labels = remote
  BY <1>1, <1>5 DEF Intact, IntactRow
<1> QED
  BY <1>1, <1>2, <1>4, <1>6 DEF IntactRow

\* A step that touches neither the labels nor what a row recorded.
SameRow(i) ==
    /\ op'[i].msgs = op[i].msgs /\ op'[i].before = op[i].before
    /\ op'[i].status = "none" <=> op[i].status = "none"
    /\ op'[i].status = "failed" => op[i].status = "failed"

LEMMA SameRowsIntact ==
    ASSUME Intact, UNCHANGED <<labels, remote>>, performed \subseteq performed',
           \A q \in Ops : SameRow(q), NEW i \in Ops
    PROVE  IntactRow(i)'
<1>1. Alone(i)' => Alone(i)
  BY DEF Alone, SameRow
<1>2. IntactRow(i) /\ SameRow(i)
  BY DEF Intact
<1> QED
  BY <1>1, <1>2 DEF IntactRow, SameRow

\* The snapshot of a change that is alone and not carried out is what the
\* provider has, whatever was synchronized since.
LEMMA RestoredIntact ==
    ASSUME IInv, Intact, NEW o \in Ops, Alone(o), o \notin performed, op[o].status # "none"
    PROVE  Restored(o) = remote
<1>1. \A m \in Messages :
        remote[m] = IF m \in op[o].msgs THEN op[o].before[m] ELSE labels[m]
  BY DEF Intact, IntactRow
<1> QED
  BY <1>1 DEF Restored, IInv, TypeOK

LEMMA IntactStep == IInv /\ Intact /\ [Next]_vars => Intact'
<1> SUFFICES ASSUME IInv, Intact, [Next]_vars, NEW i \in Ops
             PROVE  IntactRow(i)'
  BY DEF Intact
<1> USE DEF TypeOK
<1>1. ASSUME NEW o \in Ops, Act(o) PROVE IntactRow(i)'
  BY <1>1, ActApplies, AppliedIntact
<1>2. ASSUME NEW o \in Ops, Undo(o) PROVE IntactRow(i)'
  <2>1. CASE UndoQueued(o)
    <3>1. /\ op[o].status = "queued" /\ op'[o].status = "cancelled"
          /\ op'[o].msgs = op[o].msgs /\ op'[o].before = op[o].before
          /\ \A q \in Ops \ {o} : op'[q] = op[q]
      BY <2>1 DEF UndoQueued, IInv, Row
    <3>2. labels' = Restored(o) /\ UNCHANGED <<remote, performed>>
      BY <2>1 DEF UndoQueued
    <3>3. CASE i = o
      <4>1. Alone(o)' => Alone(o)
        BY <3>1 DEF Alone
      <4>2. ASSUME Alone(o)', o \notin performed' PROVE labels' = remote'
        BY <3>1, <3>2, <4>1, <4>2, RestoredIntact
      <4>3. IntactRow(o)
        BY DEF Intact
      <4> QED
        BY <3>1, <3>2, <3>3, <4>1, <4>2, <4>3 DEF IntactRow
    <3>4. CASE i # o
      BY <3>1, <3>4 DEF IntactRow, Alone
    <3> QED
      BY <3>3, <3>4
  <2>2. CASE \E q \in Ops, kind \in Kinds, ms \in SUBSET Messages, perMessage \in BOOLEAN :
                ApplyLocalAction(q, kind, ms, perMessage)
    BY <2>2, AppliedIntact
  <2> QED
    BY <1>2, <2>1, <2>2, UndoCases DEF IInv
<1>3. ASSUME NEW o \in Ops, OpStart(o) PROVE IntactRow(i)'
  \* A row that the pass has read was made, whatever became of it.
  <2>1. /\ op[o].status # "none" /\ op[o] \in Row
        /\ op' = [op EXCEPT ![o].status = "running", ![o].attempts = Attempted(@)]
        /\ UNCHANGED <<labels, remote, performed>>
    BY <1>3 DEF OpStart, IsFirst, IInv, Safe, Made, history
  <2>2. \A q \in Ops : SameRow(q)
    BY <2>1 DEF SameRow, IInv, Row
  <2> QED
    BY <2>1, <2>2, SameRowsIntact
<1>4. ASSUME Sync PROVE IntactRow(i)'
  <2>1. PICK m \in Messages : labels' = [labels EXCEPT ![m] = remote[m]]
    BY <1>4 DEF Sync
  <2>2. UNCHANGED <<remote, op, performed>>
    BY <1>4 DEF Sync, history
  <2>3. \A n \in Messages : labels'[n] \in {labels[n], remote[n]}
    BY <2>1 DEF IInv
  <2>4. labels = remote => labels' = remote
    BY <2>1 DEF IInv
  <2>5. Alone(i)' = Alone(i) /\ IntactRow(i)
    BY <2>2 DEF Alone, Intact
  <2>6. \A n \in Messages : labels[n] = remote[n] => labels'[n] = remote[n]
    BY <2>3
  <2> QED
    BY <2>2, <2>4, <2>5, <2>6 DEF IntactRow
<1>5. ASSUME OpsBegin PROVE IntactRow(i)'
  <2>1. UNCHANGED <<labels, remote, op, performed>>
    BY <1>5 DEF OpsBegin, history
  <2> QED
    BY <2>1, SameRowsIntact DEF SameRow
<1>6. ASSUME ProviderApplies PROVE IntactRow(i)'
  \* Another change that is carried out exists: this one is not alone.
  <2>1. /\ runner \in Ops /\ performed' = performed \cup {runner}
        /\ op[runner].status # "none" /\ op' = op
    BY <1>6 DEF ProviderApplies, IInv, Safe, InFlight
  <2>2. Alone(i)' /\ i \notin performed' => FALSE
    BY <2>1 DEF Alone
  <2> QED
    BY <2>2 DEF IntactRow
<1>7. ASSUME OpSucceeds PROVE IntactRow(i)'
  <2>1. /\ runner \in Ops /\ op[runner].status = "running"
        /\ op' = [op EXCEPT ![runner].status = "succeeded"]
        /\ UNCHANGED <<labels, remote, performed>>
    BY <1>7 DEF OpSucceeds, IInv, Safe, InFlight, history
  <2>2. \A q \in Ops : SameRow(q)
    BY <2>1 DEF SameRow, IInv, Row
  <2> QED
    BY <2>1, <2>2, SameRowsIntact
<1>8. ASSUME OpErrors PROVE IntactRow(i)'
  <2>1. /\ runner \in Ops /\ op[runner].status = "running"
        /\ UNCHANGED <<remote, performed>>
    BY <1>8 DEF OpErrors, IInv, Safe, InFlight, history
  <2>2. CASE op[runner].attempts < MaxAttempts
    <3>1. op' = [op EXCEPT ![runner].status = "queued"] /\ UNCHANGED labels
      BY <1>8, <2>2 DEF OpErrors
    <3>2. \A q \in Ops : SameRow(q)
      BY <2>1, <3>1 DEF SameRow, IInv, Row
    <3> QED
      BY <2>1, <3>1, <3>2, SameRowsIntact
  <2>3. CASE ~(op[runner].attempts < MaxAttempts)
    \* Given up: the snapshot is restored.
    <3>1. op' = [op EXCEPT ![runner].status = "failed"] /\ labels' = Restored(runner)
      BY <1>8, <2>3 DEF OpErrors
    <3>2. CASE i = runner
      <4>1. /\ op'[i].status = "failed" /\ op'[i].msgs = op[i].msgs
            /\ op'[i].before = op[i].before /\ (Alone(i)' => Alone(i))
        BY <2>1, <3>1, <3>2 DEF Alone, IInv, Row
      <4>2. ASSUME Alone(i)', i \notin performed' PROVE labels' = remote'
        BY <2>1, <3>1, <3>2, <4>1, <4>2, RestoredIntact
      <4>3. IntactRow(i) /\ op[i].status # "none"
        BY <2>1, <3>2 DEF Intact
      <4> QED
        BY <2>1, <4>1, <4>2, <4>3 DEF IntactRow
    <3>3. CASE i # runner
      <4>1. op'[runner].status = "failed"
        BY <2>1, <3>1 DEF IInv, Row
      <4>2. ~Alone(i)'
        BY <2>1, <3>3, <4>1 DEF Alone
      <4> QED
        BY <4>2 DEF IntactRow
    <3> QED
      BY <3>2, <3>3
  <2> QED
    BY <2>2, <2>3
<1>9. ASSUME OpsFinish PROVE IntactRow(i)'
  BY <1>9, SameRowsIntact DEF OpsFinish, SameRow, history
<1>10. ASSUME Crash PROVE IntactRow(i)'
  BY <1>10, SameRowsIntact DEF Crash, SameRow, history
<1>11. ASSUME Restart PROVE IntactRow(i)'
  <2>1. op' = [o \in Ops |-> Recovered(op[o])] /\ UNCHANGED <<labels, remote, performed>>
    BY <1>11 DEF Restart, history
  <2>2. \A q \in Ops : SameRow(q)
    BY <2>1 DEF SameRow, Recovered, IInv, Row
  <2> QED
    BY <2>1, <2>2, SameRowsIntact
<1>12. ASSUME UNCHANGED vars PROVE IntactRow(i)'
  BY <1>12, SameRowsIntact DEF vars, process, history, SameRow
<1> QED
  BY <1>1, <1>2, <1>3, <1>4, <1>5, <1>6, <1>7, <1>8, <1>9, <1>10, <1>11, <1>12
     DEF Next, OpEnds

\* When runOperations gives a change up, restoreOperationSnapshot takes it back
\* from the cache, also when synchronizations wrote there in between.
THEOREM GivenUpTakenBack == Spec => []GivenUpIsTakenBack
<1>1. Init => Intact
  BY IntactInit
<1>2. IInv /\ Intact => GivenUpIsTakenBack
  BY DEF Intact, IntactRow, Alone, GivenUpIsTakenBack
<1> QED
  BY <1>1, <1>2, QueueInvariant, IntactStep, PTL DEF Spec
=============================================================================
