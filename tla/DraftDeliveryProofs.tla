------------------------- MODULE DraftDeliveryProofs -------------------------
(***************************************************************************)
(* The safety of DraftDelivery for any set of drafts, any number of texts  *)
(* and of waiting tasks, over IMAP and other providers.                    *)
(*                                                                         *)
(* What a row, the tasks of its draft, its request, its composer and the   *)
(* wish of the user have to do with one another concerns one draft, and    *)
(* nearly every step changes one draft: Sound says it of the values of a   *)
(* draft, and a lemma per action says it of the draft that the action      *)
(* changes.                                                                *)
(***************************************************************************)
EXTENDS DraftDelivery, TLAPS, SequenceTheorems

Rows == [status : Statuses, text : Texts, remote : BOOLEAN]
Tasks == [kind : UserKinds \cup PassKinds, text : Texts, fresh : Knowledge]
Stages == {"none", "asked", "taken", "answered"}
Editors == [open : BOOLEAN, text : Texts, fresh : Knowledge, saved : Texts, sending : BOOLEAN]
Passes == [phase : {"idle"} \cup PassKinds, awaited : SUBSET Drafts,
           todo : SUBSET [draft : Drafts, text : Texts]]

\* The first of some tasks is of one of these kinds and its request is under way.
Requested(c, s, kinds) == c # <<>> /\ s # "none" /\ Head(c).kind \in kinds

\* The kinds of tasks that carry a text.
WithText == {"save", "sync", "send"}

\* Only a text that was written is stored, sent or shown.
HaveText(r, c, ed) ==
    /\ IF r.status = "none" THEN ~r.remote ELSE r.text # 0
    /\ \A i \in 1..Len(c) : c[i].kind \in WithText => c[i].text # 0
    /\ ed.open => ed.text # 0

\* A request is one of the first task, of a draft that does not wait for
\* delivery; what is being saved holds
\* the text that is saved; and what is marked so is being saved or sent.
UnderWay(r, c, s) ==
    /\ s # "none" => c # <<>> /\ r.status \notin {"none", "send-pending"}
    /\ Requested(c, s, {"save", "sync"}) => r.text = Head(c).text
    /\ r.status = "syncing" => Requested(c, s, {"save", "sync", "deliver"})

\* What waits for delivery, or was asked of the provider, is what the user wants.
AsWanted(r, c, s, w) ==
    /\ r.status = "send-pending" => w = r.text
    /\ Requested(c, s, {"deliver"}) /\ s = "asked" => w # 0 /\ w = r.text

Knows(r, ed) ==
    ed.open /\ ed.fresh = "current" /\ r.status \in {"local", "synced"} => ed.saved = r.text

Sound(r, c, s, ed, w) ==
    HaveText(r, c, ed) /\ UnderWay(r, c, s) /\ AsWanted(r, c, s, w) /\ Knows(r, ed)

\* While the worker is down nothing is under way, and rows may still say so.
Down(d) ==
    /\ chain[d] = <<>> /\ stage[d] = "none" /\ editor[d] = Closed
    /\ IF row[d].status = "none" THEN ~row[d].remote ELSE row[d].text # 0
    /\ row[d].status = "send-pending" => wanted[d] = row[d].text

IInv ==
    /\ TypeOK
    /\ \A e \in pass.todo : e.text # 0
    /\ up => \A d \in Drafts : Sound(row[d], chain[d], stage[d], editor[d], wanted[d])
    /\ ~up => pass = Resting /\ \A d \in Drafts : Down(d)

-----------------------------------------------------------------------------
(* Texts and sequences of tasks *)

LEMMA TextNumbers ==
    ASSUME NEW d \in Drafts
    PROVE  /\ Texts \subseteq Nat /\ 0 \in Texts /\ 1 \in Texts
           /\ \A t \in Texts : t < MaxText[d] => t + 1 \in Texts
  BY DraftConstants DEF Texts

\* The tasks as a write to their draft leaves them.
Aged(c) == [i \in 1..Len(c) |-> [c[i] EXCEPT !.fresh = Outdated(@)]]

LEMMA OutdatedType ==
    \A known \in Knowledge : Outdated(known) \in Knowledge /\ Outdated(known) # "current"
  BY DEF Outdated, Knowledge

LEMMA AgedReturns ==
    ASSUME NEW c \in Seq(Tasks)
    PROVE  /\ Aged(c) \in Seq(Tasks) /\ Len(Aged(c)) = Len(c)
           /\ \A i \in 1..Len(c) : Aged(c)[i].kind = c[i].kind /\ Aged(c)[i].text = c[i].text
           /\ c = <<>> <=> Aged(c) = <<>>
           /\ c # <<>> => Head(Aged(c)).kind = Head(c).kind /\ Head(Aged(c)).text = Head(c).text
<1>1. ASSUME NEW i \in 1..Len(c)
      PROVE  /\ [c[i] EXCEPT !.fresh = Outdated(@)] \in Tasks
             /\ [c[i] EXCEPT !.fresh = Outdated(@)].kind = c[i].kind
             /\ [c[i] EXCEPT !.fresh = Outdated(@)].text = c[i].text
  <2>1. c[i] \in Tasks
    OBVIOUS
  <2> QED
    BY <2>1, OutdatedType DEF Tasks
<1>2. Aged(c) \in Seq(Tasks) /\ Len(Aged(c)) = Len(c)
  BY <1>1 DEF Aged
<1>3. \A i \in 1..Len(c) : Aged(c)[i].kind = c[i].kind /\ Aged(c)[i].text = c[i].text
  BY <1>1 DEF Aged
<1>4. c # <<>> => 1 \in 1..Len(c) /\ Head(c) = c[1] /\ Head(Aged(c)) = Aged(c)[1]
  BY <1>2
<1>5. c = <<>> <=> Aged(c) = <<>>
  BY <1>2
<1> QED
  BY <1>2, <1>3, <1>4, <1>5

LEMMA AppendReturns ==
    ASSUME NEW c \in Seq(Tasks), NEW t \in Tasks
    PROVE  /\ Append(c, t) \in Seq(Tasks) /\ Append(c, t) # <<>>
           /\ \A i \in 1..Len(Append(c, t)) : Append(c, t)[i] = t \/ \E j \in 1..Len(c) : Append(c, t)[i] = c[j]
           /\ Head(Append(c, t)) = IF c = <<>> THEN t ELSE Head(c)
<1>1. /\ Append(c, t) \in Seq(Tasks) /\ Len(Append(c, t)) = Len(c) + 1 /\ Len(c) \in Nat
      /\ \A i \in 1..Len(c) : Append(c, t)[i] = c[i]
      /\ Append(c, t)[Len(c) + 1] = t
  OBVIOUS
<1>2. \A i \in 1..Len(Append(c, t)) : i \in 1..Len(c) \/ i = Len(c) + 1
  BY <1>1
<1>3. Head(Append(c, t)) = Append(c, t)[1] /\ Append(c, t) # <<>>
  BY <1>1
<1>4. CASE c = <<>>
  BY <1>1, <1>2, <1>3, <1>4
<1>5. CASE c # <<>>
  <2>1. 1 \in 1..Len(c) /\ Head(c) = c[1]
    BY <1>5
  <2> QED
    BY <1>1, <1>2, <1>3, <1>5, <2>1
<1> QED
  BY <1>4, <1>5

LEMMA TailReturns ==
    ASSUME NEW c \in Seq(Tasks), c # <<>>
    PROVE  /\ Tail(c) \in Seq(Tasks) /\ Head(c) \in Tasks /\ Head(c) = c[1] /\ 1 \in 1..Len(c)
           /\ \A i \in 1..Len(Tail(c)) : i + 1 \in 1..Len(c) /\ Tail(c)[i] = c[i + 1]
  OBVIOUS

\* Tasks carry texts that were written, also when a write to their draft has
\* outdated them, one was added or the first one ended.
CarryTexts(c) == \A i \in 1..Len(c) : c[i].kind \in WithText => c[i].text # 0

LEMMA AgedCarry ==
    ASSUME NEW c \in Seq(Tasks), CarryTexts(c)
    PROVE  CarryTexts(Aged(c))
  BY AgedReturns DEF CarryTexts

LEMMA TailCarry ==
    ASSUME NEW c \in Seq(Tasks), c # <<>>, CarryTexts(c)
    PROVE  CarryTexts(Tail(c)) /\ (Head(c).kind \in WithText => Head(c).text # 0)
  BY TailReturns DEF CarryTexts

LEMMA AppendCarry ==
    ASSUME NEW c \in Seq(Tasks), CarryTexts(c), NEW t \in Tasks, t.kind \in WithText => t.text # 0
    PROVE  CarryTexts(Append(c, t))
  BY AppendReturns DEF CarryTexts

-----------------------------------------------------------------------------
(* A step that changes one draft *)

\* A variable that holds a value for every draft changes to v for d.
Becomes(new, old, d, values, v) ==
    new \in [Drafts -> values] /\ new[d] = v /\ \A e \in Drafts \ {d} : new[e] = old[e]

LEMMA Typed ==
    ASSUME IInv
    PROVE  /\ row \in [Drafts -> Rows] /\ chain \in [Drafts -> Seq(Tasks)] /\ stage \in [Drafts -> Stages]
           /\ editor \in [Drafts -> Editors] /\ wanted \in [Drafts -> Texts]
           /\ due \subseteq Drafts /\ unused \subseteq Drafts /\ online \in BOOLEAN /\ up \in BOOLEAN
           /\ pass \in Passes /\ \A e \in pass.todo : e.text # 0
  BY DEF IInv, TypeOK, Rows, Tasks, Stages, Editors, Passes

LEMMA StaysAt ==
    ASSUME NEW values, NEW f \in [Drafts -> values], NEW d \in Drafts
    PROVE  Becomes(f, f, d, values, f[d])
  BY DEF Becomes

LEMMA ChangesAt ==
    ASSUME NEW values, NEW f \in [Drafts -> values], NEW d \in Drafts, NEW v \in values
    PROVE  Becomes([f EXCEPT ![d] = v], f, d, values, v)
  BY DEF Becomes

LEMMA OneDraftChanges ==
    ASSUME IInv, up, up' = up, NEW d \in Drafts,
           NEW r, NEW c, NEW s, NEW ed, NEW w,
           Becomes(row', row, d, Rows, r), Becomes(chain', chain, d, Seq(Tasks), c),
           Becomes(stage', stage, d, Stages, s), Becomes(editor', editor, d, Editors, ed),
           Becomes(wanted', wanted, d, Texts, w),
           Sound(r, c, s, ed, w),
           due' \subseteq Drafts, unused' \subseteq Drafts, online' \in BOOLEAN,
           pass' \in Passes, \A e \in pass'.todo : e.text # 0
    PROVE  IInv'
<1>1. TypeOK'
  BY DEF TypeOK, IInv, Rows, Tasks, Stages, Editors, Passes, Becomes
<1>2. \A e \in Drafts : Sound(row'[e], chain'[e], stage'[e], editor'[e], wanted'[e])
  <2>1. ASSUME NEW e \in Drafts, e # d
        PROVE  /\ row'[e] = row[e] /\ chain'[e] = chain[e] /\ stage'[e] = stage[e]
               /\ editor'[e] = editor[e] /\ wanted'[e] = wanted[e]
    BY <2>1 DEF Becomes
  <2>2. /\ row'[d] = r /\ chain'[d] = c /\ stage'[d] = s /\ editor'[d] = ed /\ wanted'[d] = w
    BY DEF Becomes
  <2> QED
    BY <2>1, <2>2 DEF IInv
<1> QED
  BY <1>1, <1>2 DEF IInv

\* What the invariant says of one draft while the worker runs.
LEMMA ADraft ==
    ASSUME IInv, up, NEW d \in Drafts
    PROVE  /\ row[d] \in Rows /\ chain[d] \in Seq(Tasks) /\ stage[d] \in Stages
           /\ editor[d] \in Editors /\ wanted[d] \in Texts
           /\ Sound(row[d], chain[d], stage[d], editor[d], wanted[d])
           /\ CarryTexts(chain[d])
  BY DEF IInv, TypeOK, Rows, Tasks, Stages, Editors, Passes, Sound, HaveText, CarryTexts

\* The end of a task leaves the pass with what it has still to come to.
LEMMA ReleasedReturns ==
    ASSUME IInv, up, NEW d \in Drafts, Released(d)
    PROVE  pass' \in Passes /\ pass'.todo = pass.todo /\ \A e \in pass'.todo : e.text # 0
<1>1. pass \in Passes /\ \A e \in pass.todo : e.text # 0
  BY Typed
<1> QED
  BY <1>1 DEF Released, Passes

LEMMA InitKeeps == Init => IInv
<1> SUFFICES ASSUME Init PROVE IInv
  OBVIOUS
<1>1. ASSUME NEW d \in Drafts
      PROVE  /\ NoRow \in Rows /\ <<>> \in Seq(Tasks) /\ Closed \in Editors /\ 0 \in Texts
             /\ Sound(NoRow, <<>>, "none", Closed, 0)
  BY TextNumbers DEF NoRow, Rows, Statuses, Closed, Editors, Knowledge, Sound, HaveText, UnderWay, AsWanted,
                   Knows, Requested
<1>2. Resting \in Passes /\ Resting.todo = {}
  BY DEF Resting, Passes
<1>3. TypeOK
  BY <1>1, <1>2 DEF Init, TypeOK, Rows, Tasks, Editors, Passes
<1> QED
  BY <1>1, <1>2, <1>3 DEF Init, IInv

-----------------------------------------------------------------------------
(* The composer and the list of drafts *)

\* A composer that does not know of a write, or is closed, claims nothing.
LEMMA OutdatedEditor ==
    ASSUME NEW ed \in Editors
    PROVE  /\ [ed EXCEPT !.fresh = Outdated(@)] \in Editors
           /\ [ed EXCEPT !.fresh = Outdated(@)].fresh # "current"
           /\ [ed EXCEPT !.fresh = Outdated(@)].open = ed.open
           /\ [ed EXCEPT !.fresh = Outdated(@)].text = ed.text
  BY OutdatedType DEF Editors

LEMMA ClosedEditor ==
    ASSUME NEW d \in Drafts
    PROVE  Closed \in Editors /\ ~Closed.open
  BY TextNumbers DEF Closed, Editors, Knowledge

LEMMA ComposerChanges ==
    ASSUME IInv, up, NEW d \in Drafts, NEW ed \in Editors, editor' = [editor EXCEPT ![d] = ed],
           Sound(row[d], chain[d], stage[d], ed, wanted[d]),
           UNCHANGED <<row, due, chain, stage, online, up, pass, unused, wanted>>
    PROVE  IInv'
<1>1. Becomes(editor', editor, d, Editors, ed)
  BY Typed, ChangesAt
<1>2. /\ Becomes(row', row, d, Rows, row[d]) /\ Becomes(chain', chain, d, Seq(Tasks), chain[d])
      /\ Becomes(stage', stage, d, Stages, stage[d]) /\ Becomes(wanted', wanted, d, Texts, wanted[d])
  BY Typed, StaysAt
<1> QED
  BY <1>1, <1>2, Typed, OneDraftChanges

LEMMA ComposeKeeps ==
    ASSUME IInv, NEW d \in Drafts, Compose(d)
    PROVE  IInv'
<1> DEFINE ed == [Closed EXCEPT !.open = TRUE, !.text = 1]
<1>1. up /\ editor' = [editor EXCEPT ![d] = ed]
      /\ UNCHANGED <<row, due, chain, stage, online, up, pass, unused, wanted>>
  BY DEF Compose, Quiet
<1>2. ed.open /\ ed.text = 1 /\ ed.fresh # "current"
  BY DEF Closed
<1>3. ed \in Editors
  BY ClosedEditor, TextNumbers DEF Editors
<1> HIDE DEF ed
<1>4. Sound(row[d], chain[d], stage[d], ed, wanted[d])
  BY <1>1, <1>2, ADraft DEF Sound, HaveText, Knows
<1> QED
  BY <1>1, <1>3, <1>4, ComposerChanges

LEMMA ReopenKeeps ==
    ASSUME IInv, NEW d \in Drafts, Reopen(d)
    PROVE  IInv'
<1> DEFINE ed == [Closed EXCEPT !.open = TRUE, !.text = row[d].text, !.saved = row[d].text, !.fresh = "current"]
<1>1. up /\ editor' = [editor EXCEPT ![d] = ed] /\ row[d].status # "none"
      /\ UNCHANGED <<row, due, chain, stage, online, up, pass, unused, wanted>>
  BY DEF Reopen, Quiet
<1>2. row[d] \in Rows /\ Sound(row[d], chain[d], stage[d], editor[d], wanted[d])
  BY <1>1, ADraft
<1>3. ed.open /\ ed.text = row[d].text /\ ed.saved = row[d].text
  BY DEF Closed
<1>4. ed \in Editors
  <2>1. Closed \in Editors /\ row[d].text \in Texts /\ "current" \in Knowledge
    BY <1>2, ClosedEditor DEF Rows, Knowledge
  <2> QED
    BY <2>1 DEF Editors
<1> HIDE DEF ed
<1>5. Sound(row[d], chain[d], stage[d], ed, wanted[d])
  BY <1>1, <1>2, <1>3 DEF Sound, HaveText, Knows
<1> QED
  BY <1>1, <1>4, <1>5, ComposerChanges

LEMMA EditKeeps ==
    ASSUME IInv, NEW d \in Drafts, Edit(d)
    PROVE  IInv'
<1> DEFINE ed == [editor[d] EXCEPT !.text = editor[d].text + 1]
<1>1. up /\ editor' = [editor EXCEPT ![d] = ed] /\ editor[d].text < MaxText[d]
      /\ UNCHANGED <<row, due, chain, stage, online, up, pass, unused, wanted>>
  BY DEF Edit, Quiet
<1>2. ed \in Editors /\ Sound(row[d], chain[d], stage[d], ed, wanted[d])
  <2>1. editor[d] \in Editors /\ editor[d].text \in Nat /\ editor[d].text + 1 \in Texts
    BY <1>1, ADraft, TextNumbers DEF Editors
  <2> QED
    BY <1>1, <2>1, ADraft DEF Editors, Sound, HaveText, Knows
<1> HIDE DEF ed
<1> QED
  BY <1>1, <1>2, ComposerChanges

LEMMA ClosingKeeps ==
    ASSUME IInv, NEW d \in Drafts, CloseEditor(d) \/ DiscardUnsaved(d)
    PROVE  IInv'
<1>1. up /\ editor' = [editor EXCEPT ![d] = Closed]
      /\ UNCHANGED <<row, due, chain, stage, online, up, pass, unused, wanted>>
  BY DEF CloseEditor, DiscardUnsaved, Quiet
<1>2. Closed \in Editors /\ Sound(row[d], chain[d], stage[d], Closed, wanted[d])
  BY <1>1, ADraft, TextNumbers DEF Closed, Editors, Knowledge, Sound, HaveText, Knows
<1> QED
  BY <1>1, <1>2, ComposerChanges

\* A task that waits changes nothing yet.
LEMMA TaskWaits ==
    ASSUME NEW r, NEW c \in Seq(Tasks), NEW s \in Stages, NEW ed, NEW w, Sound(r, c, s, ed, w),
           NEW t \in Tasks, t.kind \in WithText => t.text # 0
    PROVE  Append(c, t) \in Seq(Tasks) /\ Sound(r, Append(c, t), s, ed, w)
  BY AppendReturns, AppendCarry DEF Sound, HaveText, UnderWay, AsWanted, Requested, CarryTexts

LEMMA TaskAdded ==
    ASSUME IInv, up, NEW d \in Drafts, NEW t \in Tasks, t.kind \in WithText => t.text # 0,
           chain' = [chain EXCEPT ![d] = Append(@, t)],
           NEW ed \in Editors, Becomes(editor', editor, d, Editors, ed),
           Sound(row[d], chain[d], stage[d], ed, wanted[d]),
           UNCHANGED <<row, due, stage, online, up, unused, wanted>>,
           pass' \in Passes, \A e \in pass'.todo : e.text # 0
    PROVE  IInv'
<1>1. /\ Append(chain[d], t) \in Seq(Tasks)
      /\ Sound(row[d], Append(chain[d], t), stage[d], ed, wanted[d])
  BY ADraft, TaskWaits
<1>2. Becomes(chain', chain, d, Seq(Tasks), Append(chain[d], t))
  BY <1>1, Typed, ChangesAt
<1>3. /\ Becomes(row', row, d, Rows, row[d]) /\ Becomes(stage', stage, d, Stages, stage[d])
      /\ Becomes(wanted', wanted, d, Texts, wanted[d])
  BY Typed, StaysAt
<1> QED
  BY <1>1, <1>2, <1>3, Typed, OneDraftChanges

LEMMA SaveKeeps ==
    ASSUME IInv, NEW d \in Drafts, Save(d)
    PROVE  IInv'
<1> DEFINE t == Task("save", editor[d].text, editor[d].fresh)
<1>1. /\ up /\ editor[d].open /\ chain' = [chain EXCEPT ![d] = Append(@, t)]
      /\ UNCHANGED <<row, due, stage, online, up, pass, editor, unused, wanted>>
  BY DEF Save, Quiet, Enqueued
<1>2. t \in Tasks /\ t.text # 0
  BY <1>1, ADraft DEF Task, Tasks, Editors, UserKinds, Sound, HaveText
<1>3. Becomes(editor', editor, d, Editors, editor[d])
  BY <1>1, Typed, StaysAt
<1> HIDE DEF t
<1> QED
  BY <1>1, <1>2, <1>3, ADraft, Typed, TaskAdded

LEMMA SendKeeps ==
    ASSUME IInv, NEW d \in Drafts, Send(d)
    PROVE  IInv'
<1> DEFINE t == Task("send", editor[d].text, editor[d].fresh)
           ed == [editor[d] EXCEPT !.sending = TRUE]
<1>1. /\ up /\ editor[d].open /\ chain' = [chain EXCEPT ![d] = Append(@, t)]
      /\ editor' = [editor EXCEPT ![d] = ed]
      /\ UNCHANGED <<row, due, stage, online, up, pass, unused, wanted>>
  BY DEF Send, Quiet, Enqueued
<1>2. t \in Tasks /\ t.text # 0
  BY <1>1, ADraft DEF Task, Tasks, Editors, UserKinds, Sound, HaveText
<1>3. ed \in Editors /\ Sound(row[d], chain[d], stage[d], ed, wanted[d])
  BY <1>1, ADraft DEF Editors, Sound, HaveText, Knows
<1> HIDE DEF t, ed
<1>4. Becomes(editor', editor, d, Editors, ed)
  BY <1>1, <1>3, Typed, ChangesAt
<1> QED
  BY <1>1, <1>2, <1>3, <1>4, Typed, TaskAdded

LEMMA CancelKeeps ==
    ASSUME IInv, NEW d \in Drafts, Cancel(d)
    PROVE  IInv'
<1> DEFINE t == Task("cancel", 0, "none")
<1>1. /\ up /\ chain' = [chain EXCEPT ![d] = Append(@, t)]
      /\ UNCHANGED <<row, due, stage, online, up, pass, editor, unused, wanted>>
  BY DEF Cancel, Quiet, Enqueued
<1>2. t \in Tasks /\ t.kind \notin WithText
  BY TextNumbers DEF Task, Tasks, Knowledge, UserKinds, WithText
<1>3. Becomes(editor', editor, d, Editors, editor[d])
  BY <1>1, Typed, StaysAt
<1> HIDE DEF t
<1> QED
  BY <1>1, <1>2, <1>3, ADraft, Typed, TaskAdded

\* A draft is discarded while its tasks go on.
LEMMA DiscardKeeps ==
    ASSUME IInv, NEW d \in Drafts, Discard(d)
    PROVE  IInv'
<1> DEFINE r == [row[d] EXCEPT !.status = "discard-queued"]
           t == Task("discard", 0, "none")
           w == IF Delivering(d) THEN wanted[d] ELSE 0
           old == editor[d]
           outdated == [old EXCEPT !.fresh = Outdated(@)]
<1>1. /\ up /\ row[d].status # "none" /\ row' = [row EXCEPT ![d] = r]
      /\ wanted' = [wanted EXCEPT ![d] = w]
      /\ UNCHANGED <<due, stage, online, up, pass, unused>>
  BY DEF Discard, Quiet, Wrote
<1>2. \/ /\ chain' = [chain EXCEPT ![d] = Aged(Append(chain[d], t))]
         /\ editor' = [editor EXCEPT ![d] = outdated]
      \/ /\ chain' = [chain EXCEPT ![d] = Aged(chain[d])]
         /\ editor' = [editor EXCEPT ![d] = Closed]
  BY DEF Discard, Wrote, EditorOutdated, Aged
<1>3. /\ r \in Rows /\ r.text = row[d].text /\ r.status = "discard-queued" /\ r.text # 0
  BY <1>1, ADraft DEF Rows, Statuses, Sound, HaveText
<1>4. t \in Tasks /\ t.kind \notin WithText
  BY TextNumbers DEF Task, Tasks, Knowledge, UserKinds, WithText
<1>5. /\ outdated \in Editors /\ outdated.fresh # "current" /\ (outdated.open => outdated.text # 0)
  BY <1>1, ADraft, OutdatedEditor DEF Sound, HaveText
<1>6. w \in Texts /\ (Requested(chain[d], stage[d], {"deliver"}) => w = wanted[d])
  BY <1>1, ADraft, TextNumbers DEF Delivering, Awaits, Requested
<1> HIDE DEF r, t, w, outdated
<1>7. Becomes(row', row, d, Rows, r) /\ Becomes(wanted', wanted, d, Texts, w)
      /\ Becomes(stage', stage, d, Stages, stage[d])
  BY <1>1, <1>3, <1>6, Typed, ChangesAt, StaysAt
<1>8. ASSUME NEW c \in Seq(Tasks), CarryTexts(c), NEW ed \in Editors,
             ed.fresh # "current" \/ ~ed.open, ed.open => ed.text # 0,
             c = <<>> => chain[d] = <<>>,
             chain[d] # <<>> => c # <<>> /\ Head(c).kind = Head(chain[d]).kind /\ Head(c).text = Head(chain[d]).text
      PROVE  Sound(r, c, stage[d], ed, w)
  BY <1>1, <1>3, <1>6, <1>8, ADraft DEF Sound, HaveText, UnderWay, AsWanted, Knows, Requested, CarryTexts
<1>9. CASE /\ chain' = [chain EXCEPT ![d] = Aged(Append(chain[d], t))]
           /\ editor' = [editor EXCEPT ![d] = outdated]
  <2> DEFINE c == Aged(Append(chain[d], t))
  <2>1. chain[d] \in Seq(Tasks) /\ CarryTexts(chain[d])
    BY <1>1, ADraft
  <2>2. /\ Append(chain[d], t) \in Seq(Tasks) /\ CarryTexts(Append(chain[d], t)) /\ Append(chain[d], t) # <<>>
        /\ chain[d] # <<>> => Head(Append(chain[d], t)) = Head(chain[d])
    BY <1>4, <2>1, AppendReturns, AppendCarry
  <2>3. /\ c \in Seq(Tasks) /\ CarryTexts(c) /\ c # <<>>
        /\ chain[d] # <<>> => Head(c).kind = Head(chain[d]).kind /\ Head(c).text = Head(chain[d]).text
    BY <2>2, AgedReturns, AgedCarry
  <2>4. chain' = [chain EXCEPT ![d] = c]
    BY <1>9
  <2> HIDE DEF c
  <2>5. /\ Becomes([chain EXCEPT ![d] = c], chain, d, Seq(Tasks), c)
        /\ Becomes([editor EXCEPT ![d] = outdated], editor, d, Editors, outdated)
    BY <1>5, <2>3, Typed, ChangesAt
  <2>6. Sound(r, c, stage[d], outdated, w)
    BY <1>5, <1>8, <2>3
  <2> QED
    BY <1>1, <1>7, <1>9, <2>4, <2>5, <2>6, Typed, OneDraftChanges
<1>10. CASE /\ chain' = [chain EXCEPT ![d] = Aged(chain[d])]
            /\ editor' = [editor EXCEPT ![d] = Closed]
  <2> DEFINE c == Aged(chain[d])
  <2>1. chain[d] \in Seq(Tasks) /\ CarryTexts(chain[d])
    BY <1>1, ADraft
  <2>2. /\ c \in Seq(Tasks) /\ CarryTexts(c) /\ (c = <<>> <=> chain[d] = <<>>)
        /\ chain[d] # <<>> => Head(c).kind = Head(chain[d]).kind /\ Head(c).text = Head(chain[d]).text
    BY <2>1, AgedReturns, AgedCarry
  <2>3. chain' = [chain EXCEPT ![d] = c]
    BY <1>10
  <2> HIDE DEF c
  <2>4. /\ Becomes([chain EXCEPT ![d] = c], chain, d, Seq(Tasks), c)
        /\ Becomes([editor EXCEPT ![d] = Closed], editor, d, Editors, Closed)
    BY <2>2, ClosedEditor, Typed, ChangesAt
  <2>5. Sound(r, c, stage[d], Closed, w)
    BY <1>8, <2>2, ClosedEditor
  <2> QED
    BY <1>1, <1>7, <1>10, <2>3, <2>4, <2>5, Typed, OneDraftChanges
<1> QED
  BY <1>2, <1>9, <1>10

-----------------------------------------------------------------------------
(* The tasks of a draft *)

\* A task ends: nothing of its draft is under way.
LEMMA TaskEnded ==
    ASSUME IInv, up, up' = up, NEW d \in Drafts, chain[d] # <<>>, Ended(d),
           NEW r, NEW ed, NEW w,
           Becomes(row', row, d, Rows, r), Becomes(editor', editor, d, Editors, ed),
           Becomes(wanted', wanted, d, Texts, w),
           \/ chain' = [chain EXCEPT ![d] = Tail(chain[d])]
           \/ chain' = [chain EXCEPT ![d] = Aged(Tail(chain[d]))],
           IF r.status = "none" THEN ~r.remote ELSE r.text # 0, ed.open => ed.text # 0, r.status # "syncing",
           r.status = "send-pending" => w = r.text, Knows(r, ed),
           due' \subseteq Drafts, unused' \subseteq Drafts, online' \in BOOLEAN
    PROVE  IInv'
<1>1. /\ chain[d] \in Seq(Tasks) /\ CarryTexts(chain[d])
      /\ Tail(chain[d]) \in Seq(Tasks) /\ CarryTexts(Tail(chain[d]))
  BY ADraft, TailReturns, TailCarry
<1>2. PICK c \in Seq(Tasks) : CarryTexts(c) /\ Becomes(chain', chain, d, Seq(Tasks), c)
  <2>1. Aged(Tail(chain[d])) \in Seq(Tasks) /\ CarryTexts(Aged(Tail(chain[d])))
    BY <1>1, AgedReturns, AgedCarry
  <2>2. /\ Becomes([chain EXCEPT ![d] = Tail(chain[d])], chain, d, Seq(Tasks), Tail(chain[d]))
        /\ Becomes([chain EXCEPT ![d] = Aged(Tail(chain[d]))], chain, d, Seq(Tasks), Aged(Tail(chain[d])))
    BY <1>1, <2>1, Typed, ChangesAt
  <2> QED
    BY <1>1, <2>1, <2>2
<1>3. Becomes(stage', stage, d, Stages, "none")
  BY Typed DEF Ended, Becomes, Stages
<1>4. Sound(r, c, "none", ed, w)
  BY <1>2 DEF Sound, HaveText, UnderWay, AsWanted, Requested, CarryTexts
<1>5. pass' \in Passes /\ \A e \in pass'.todo : e.text # 0
  BY ReleasedReturns DEF Ended
<1> QED
  BY <1>2, <1>3, <1>4, <1>5, OneDraftChanges

\* The request of the first task is made: its draft is marked, and the composer
\* does not know of the write.
LEMMA TaskStarted ==
    ASSUME IInv, up, up' = up, NEW d \in Drafts, chain[d] # <<>>,
           NEW r, Becomes(row', row, d, Rows, r), EditorOutdated(d),
           chain' = [chain EXCEPT ![d] = Aged(chain[d])], stage' = [stage EXCEPT ![d] = "asked"],
           r.text # 0, r.status \in {"syncing", "discarding"},
           r.status = "syncing" => Head(chain[d]).kind \in {"save", "sync", "deliver"},
           Head(chain[d]).kind \in {"save", "sync"} => r.text = Head(chain[d]).text,
           Head(chain[d]).kind = "deliver" => wanted[d] = r.text,
           wanted' = wanted, pass' = pass,
           due' \subseteq Drafts, unused' \subseteq Drafts, online' \in BOOLEAN
    PROVE  IInv'
<1> DEFINE c == Aged(chain[d])
           old == editor[d]
           ed == [old EXCEPT !.fresh = Outdated(@)]
<1>1. chain[d] \in Seq(Tasks) /\ CarryTexts(chain[d])
  BY ADraft
<1>2. /\ c \in Seq(Tasks) /\ CarryTexts(c) /\ c # <<>>
      /\ Head(c).kind = Head(chain[d]).kind /\ Head(c).text = Head(chain[d]).text
  BY <1>1, AgedReturns, AgedCarry
<1>3. ed \in Editors /\ ed.fresh # "current" /\ (ed.open => ed.text # 0)
  BY ADraft, OutdatedEditor DEF Sound, HaveText
<1>4. chain' = [chain EXCEPT ![d] = c] /\ editor' = [editor EXCEPT ![d] = ed]
  BY DEF EditorOutdated
<1> HIDE DEF c, ed
<1>5. /\ Becomes([chain EXCEPT ![d] = c], chain, d, Seq(Tasks), c)
      /\ Becomes([editor EXCEPT ![d] = ed], editor, d, Editors, ed)
  BY <1>2, <1>3, Typed, ChangesAt
<1>6. Becomes(stage', stage, d, Stages, "asked") /\ Becomes(wanted', wanted, d, Texts, wanted[d])
  BY Typed, StaysAt DEF Becomes, Stages
<1>7. Sound(r, c, "asked", ed, wanted[d])
  BY <1>2, <1>3 DEF Sound, HaveText, UnderWay, AsWanted, Knows, Requested, CarryTexts
<1>8. /\ Becomes(chain', chain, d, Seq(Tasks), c) /\ Becomes(editor', editor, d, Editors, ed)
      /\ pass' \in Passes /\ \A e \in pass'.todo : e.text # 0
  BY <1>4, <1>5, Typed
<1> QED
  BY <1>6, <1>7, <1>8, OneDraftChanges

LEMMA SaveRefusedKeeps ==
    ASSUME IInv, NEW d \in Drafts, SaveRefused(d)
    PROVE  IInv'
<1>1. /\ up /\ chain[d] # <<>> /\ stage[d] = "none" /\ Ended(d)
      /\ chain' = [chain EXCEPT ![d] = Tail(chain[d])]
      /\ UNCHANGED <<row, due, online, up, unused, wanted>>
  BY DEF SaveRefused, Runs, Runnable
<1>2. /\ row[d] \in Rows /\ wanted[d] \in Texts /\ editor[d] \in Editors
      /\ Sound(row[d], chain[d], stage[d], editor[d], wanted[d])
  BY <1>1, ADraft
<1>3. PICK ed \in Editors : /\ Becomes(editor', editor, d, Editors, ed)
                            /\ ed = editor[d] \/ ed = [editor[d] EXCEPT !.sending = FALSE]
  <2>1. [editor[d] EXCEPT !.sending = FALSE] \in Editors
    BY <1>2 DEF Editors
  <2> DEFINE given == [editor[d] EXCEPT !.sending = FALSE]
  <2>2. editor' = editor \/ editor' = [editor EXCEPT ![d] = given]
    BY DEF SaveRefused
  <2> HIDE DEF given
  <2>3. given \in Editors /\ given = [editor[d] EXCEPT !.sending = FALSE]
    BY <2>1 DEF given
  <2>4. /\ Becomes(editor, editor, d, Editors, editor[d])
        /\ Becomes([editor EXCEPT ![d] = given], editor, d, Editors, given)
    BY <2>3, Typed, StaysAt, ChangesAt
  <2> QED
    BY <1>2, <2>2, <2>3, <2>4
<1>4. ed.open = editor[d].open /\ ed.text = editor[d].text /\ ed.fresh = editor[d].fresh /\ ed.saved = editor[d].saved
  BY <1>2, <1>3 DEF Editors
<1>5. Becomes(row', row, d, Rows, row[d]) /\ Becomes(wanted', wanted, d, Texts, wanted[d])
  BY <1>1, Typed, StaysAt
<1>6. /\ IF row[d].status = "none" THEN ~row[d].remote ELSE row[d].text # 0
      /\ ed.open => ed.text # 0
      /\ row[d].status # "syncing"
      /\ row[d].status = "send-pending" => wanted[d] = row[d].text
      /\ Knows(row[d], ed)
  BY <1>1, <1>2, <1>4 DEF Sound, HaveText, UnderWay, AsWanted, Knows, Requested
<1> QED
  BY <1>1, <1>3, <1>5, <1>6, Typed, TaskEnded

LEMMA EditorSavedReturns ==
    ASSUME IInv, up, NEW d \in Drafts, chain[d] # <<>>, NEW succeeded \in BOOLEAN, EditorSaved(d, succeeded)
    PROVE  \E ed \in Editors :
              /\ Becomes(editor', editor, d, Editors, ed)
              /\ ed.open => ed.text # 0
              /\ ed.open /\ ed.fresh = "current" /\ succeeded => ed.saved = Head(chain[d]).text
<1> DEFINE old == editor[d]
           outdated == [old EXCEPT !.fresh = Outdated(old.fresh)]
           knows == [old EXCEPT !.fresh = "current", !.saved = IF succeeded THEN Head(chain[d]).text ELSE old.saved]
           ed == IF ~old.open THEN old ELSE IF Head(chain[d]).kind # "save" THEN outdated ELSE knows
<1>1. old \in Editors /\ (old.open => old.text # 0)
  BY ADraft DEF Sound, HaveText
<1>2. outdated \in Editors /\ outdated.fresh # "current" /\ outdated.text = old.text
  BY <1>1, OutdatedEditor
<1>3. Head(chain[d]).text \in Texts
  BY ADraft, TailReturns DEF Tasks
<1>4. /\ knows \in Editors /\ knows.text = old.text
      /\ succeeded => knows.saved = Head(chain[d]).text
  BY <1>1, <1>3 DEF Editors, Knowledge
<1>5. editor' = [editor EXCEPT ![d] = ed]
  BY DEF EditorSaved
<1> HIDE DEF outdated, knows
<1>6. /\ ed \in Editors /\ (ed.open => ed.text # 0)
      /\ ed.open /\ ed.fresh = "current" /\ succeeded => ed.saved = Head(chain[d]).text
  BY <1>1, <1>2, <1>4
<1> HIDE DEF ed
<1>7. Becomes([editor EXCEPT ![d] = ed], editor, d, Editors, ed)
  BY <1>6, Typed, ChangesAt
<1> QED
  BY <1>5, <1>6, <1>7

\* A task of a kind that carries a text has one.
LEMMA FirstTask ==
    ASSUME IInv, up, NEW d \in Drafts, chain[d] # <<>>
    PROVE  /\ Head(chain[d]).kind \in UserKinds \cup PassKinds /\ Head(chain[d]).text \in Texts
           /\ Head(chain[d]).kind \in WithText => Head(chain[d]).text # 0
  BY ADraft, TailReturns, TailCarry DEF Tasks

LEMMA SaveStartsKeeps ==
    ASSUME IInv, NEW d \in Drafts, SaveStarts(d)
    PROVE  IInv'
<1> DEFINE stored == [row[d] EXCEPT !.text = Head(chain[d]).text]
           r == [stored EXCEPT !.status = IF online THEN "syncing" ELSE "local"]
<1>1. /\ up /\ chain[d] # <<>> /\ Head(chain[d]).kind \in {"save", "sync"}
      /\ UNCHANGED <<due, online, up, wanted>>
      /\ unused' = unused \ {d} /\ row' = [row EXCEPT ![d] = r]
  BY DEF SaveStarts, Runs, Runnable, Wrote
<1>2. IF online
      THEN /\ chain' = [chain EXCEPT ![d] = Aged(chain[d])] /\ stage' = [stage EXCEPT ![d] = "asked"]
           /\ EditorOutdated(d) /\ pass' = pass
      ELSE /\ chain' = [chain EXCEPT ![d] = Aged(Tail(chain[d]))]
           /\ EditorSaved(d, TRUE) /\ Ended(d)
  BY DEF SaveStarts, Wrote, Aged
<1>3. Head(chain[d]).text \in Texts /\ Head(chain[d]).text # 0 /\ row[d] \in Rows
  BY <1>1, FirstTask, ADraft DEF WithText
<1>4. r \in Rows /\ r.text = Head(chain[d]).text /\ r.status = IF online THEN "syncing" ELSE "local"
  BY <1>3 DEF Rows, Statuses
<1> HIDE DEF r
<1>5. Becomes([row EXCEPT ![d] = r], row, d, Rows, r)
  BY <1>4, Typed, ChangesAt
<1>6. CASE online
  BY <1>1, <1>2, <1>3, <1>4, <1>5, <1>6, Typed, TaskStarted
<1>7. CASE ~online
  <2>1. PICK ed \in Editors :
              /\ Becomes(editor', editor, d, Editors, ed)
              /\ ed.open => ed.text # 0
              /\ ed.open /\ ed.fresh = "current" => ed.saved = Head(chain[d]).text
    BY <1>1, <1>2, <1>7, EditorSavedReturns
  <2>2. Knows(r, ed)
    BY <1>4, <2>1 DEF Knows
  <2>3. Becomes(wanted', wanted, d, Texts, wanted[d])
    BY <1>1, Typed, StaysAt
  <2> QED
    BY <1>1, <1>2, <1>3, <1>4, <1>5, <1>7, <2>1, <2>2, <2>3, Typed, TaskEnded
<1> QED
  BY <1>6, <1>7

LEMMA SaveEndsKeeps ==
    ASSUME IInv, NEW d \in Drafts, SaveEnds(d)
    PROVE  IInv'
<1> DEFINE saved == [row[d] EXCEPT !.status = "synced", !.remote = TRUE]
           failed == [row[d] EXCEPT !.status = "failed"]
<1>1. /\ up /\ chain[d] # <<>> /\ stage[d] # "none" /\ Head(chain[d]).kind \in {"save", "sync"} /\ Ended(d)
      /\ chain' = [chain EXCEPT ![d] = Aged(Tail(chain[d]))]
      /\ UNCHANGED <<due, online, up, unused, wanted>>
  BY DEF SaveEnds, Awaits, Wrote, Aged
<1>2. \/ row' = [row EXCEPT ![d] = saved] /\ EditorSaved(d, TRUE)
      \/ row' = [row EXCEPT ![d] = failed] /\ EditorSaved(d, FALSE)
  BY DEF SaveEnds, Wrote
<1>3. row[d] \in Rows /\ row[d].text = Head(chain[d]).text /\ row[d].text # 0
  BY <1>1, ADraft, FirstTask DEF Sound, UnderWay, Requested, WithText
<1>4. /\ saved \in Rows /\ saved.text = row[d].text /\ saved.status = "synced"
      /\ failed \in Rows /\ failed.text = row[d].text /\ failed.status = "failed"
  BY <1>3 DEF Rows, Statuses
<1> HIDE DEF saved, failed
<1>5. /\ Becomes([row EXCEPT ![d] = saved], row, d, Rows, saved)
      /\ Becomes([row EXCEPT ![d] = failed], row, d, Rows, failed)
      /\ Becomes(wanted', wanted, d, Texts, wanted[d])
  BY <1>1, <1>4, Typed, ChangesAt, StaysAt
<1>6. ASSUME NEW succeeded \in BOOLEAN, EditorSaved(d, succeeded)
      PROVE  \E ed \in Editors :
              /\ Becomes(editor', editor, d, Editors, ed)
              /\ ed.open => ed.text # 0
              /\ ed.open /\ ed.fresh = "current" /\ succeeded => ed.saved = Head(chain[d]).text
  BY <1>1, <1>6, EditorSavedReturns
<1>7. CASE row' = [row EXCEPT ![d] = saved] /\ EditorSaved(d, TRUE)
  <2>1. PICK ed \in Editors : /\ Becomes(editor', editor, d, Editors, ed) /\ (ed.open => ed.text # 0)
                              /\ ed.open /\ ed.fresh = "current" => ed.saved = Head(chain[d]).text
    BY <1>6, <1>7
  <2>2. Knows(saved, ed)
    BY <1>3, <1>4, <2>1 DEF Knows
  <2> QED
    BY <1>1, <1>3, <1>4, <1>5, <1>7, <2>1, <2>2, Typed, TaskEnded
<1>8. CASE row' = [row EXCEPT ![d] = failed] /\ EditorSaved(d, FALSE)
  <2>1. PICK ed \in Editors : Becomes(editor', editor, d, Editors, ed) /\ (ed.open => ed.text # 0)
    BY <1>6, <1>8
  <2>2. Knows(failed, ed)
    BY <1>4 DEF Knows
  <2> QED
    BY <1>1, <1>3, <1>4, <1>5, <1>8, <2>1, <2>2, Typed, TaskEnded
<1> QED
  BY <1>2, <1>7, <1>8

LEMMA SendQueuesKeeps ==
    ASSUME IInv, NEW d \in Drafts, SendQueues(d)
    PROVE  IInv'
<1> DEFINE w == Head(chain[d]).text
           r == [row[d] EXCEPT !.status = "send-pending", !.text = w]
<1>1. /\ up /\ chain[d] # <<>> /\ Head(chain[d]).kind = "send" /\ Ended(d)
      /\ row' = [row EXCEPT ![d] = r] /\ chain' = [chain EXCEPT ![d] = Aged(Tail(chain[d]))]
      /\ editor' = [editor EXCEPT ![d] = Closed] /\ wanted' = [wanted EXCEPT ![d] = w]
      /\ due' = due \ {d} /\ unused' = unused \ {d} /\ UNCHANGED <<online, up>>
  BY DEF SendQueues, Runs, Runnable, Wrote, Aged
<1>2. w \in Texts /\ w # 0 /\ row[d] \in Rows
  BY <1>1, ADraft, FirstTask DEF WithText
<1> HIDE DEF w
<1>3. r \in Rows /\ r.text = w /\ r.status = "send-pending"
  BY <1>2 DEF Rows, Statuses
<1> HIDE DEF r
<1>4. /\ Becomes([row EXCEPT ![d] = r], row, d, Rows, r)
      /\ Becomes([editor EXCEPT ![d] = Closed], editor, d, Editors, Closed)
      /\ Becomes([wanted EXCEPT ![d] = w], wanted, d, Texts, w)
  BY <1>2, <1>3, ClosedEditor, Typed, ChangesAt
<1>5. ~Closed.open /\ Knows(r, Closed)
  BY ClosedEditor DEF Knows
<1> QED
  BY <1>1, <1>2, <1>3, <1>4, <1>5, Typed, TaskEnded

\* A write that the composer does not know of.
LEMMA EditorOutdatedReturns ==
    ASSUME IInv, up, NEW d \in Drafts, EditorOutdated(d)
    PROVE  \E ed \in Editors : /\ Becomes(editor', editor, d, Editors, ed)
                               /\ ed.fresh # "current" /\ (ed.open => ed.text # 0)
<1> DEFINE old == editor[d]
           ed == [old EXCEPT !.fresh = Outdated(old.fresh)]
<1>1. ed \in Editors /\ ed.fresh # "current" /\ (ed.open => ed.text # 0)
  BY ADraft, OutdatedEditor DEF Sound, HaveText
<1>2. editor' = [editor EXCEPT ![d] = ed]
  BY DEF EditorOutdated
<1> HIDE DEF ed
<1>3. Becomes([editor EXCEPT ![d] = ed], editor, d, Editors, ed)
  BY <1>1, Typed, ChangesAt
<1> QED
  BY <1>1, <1>2, <1>3

\* The task in turn finds that there is nothing left for it to do.
LEMMA TaskDropped ==
    ASSUME IInv, up, NEW d \in Drafts, chain[d] # <<>>, stage[d] = "none", Ended(d),
           chain' = [chain EXCEPT ![d] = Tail(chain[d])],
           UNCHANGED <<row, editor, wanted, due, online, up, unused>>
    PROVE  IInv'
<1>1. /\ Becomes(row', row, d, Rows, row[d]) /\ Becomes(editor', editor, d, Editors, editor[d])
      /\ Becomes(wanted', wanted, d, Texts, wanted[d])
  BY Typed, StaysAt
<1>2. /\ IF row[d].status = "none" THEN ~row[d].remote ELSE row[d].text # 0
      /\ editor[d].open => editor[d].text # 0
      /\ row[d].status # "syncing"
      /\ row[d].status = "send-pending" => wanted[d] = row[d].text
      /\ Knows(row[d], editor[d])
  BY ADraft DEF Sound, HaveText, UnderWay, AsWanted, Requested
<1> QED
  BY <1>1, <1>2, Typed, TaskEnded

LEMMA CancelRunsKeeps ==
    ASSUME IInv, NEW d \in Drafts, CancelRuns(d)
    PROVE  IInv'
<1> DEFINE r == [row[d] EXCEPT !.status = IF row[d].remote THEN "synced" ELSE "local"]
<1>1. /\ up /\ chain[d] # <<>> /\ stage[d] = "none" /\ Ended(d) /\ UNCHANGED <<due, online, up, unused>>
  BY DEF CancelRuns, Runs, Runnable
<1>2. CASE row[d].status = "send-pending"
  <2>1. /\ row' = [row EXCEPT ![d] = r] /\ chain' = [chain EXCEPT ![d] = Aged(Tail(chain[d]))]
        /\ wanted' = [wanted EXCEPT ![d] = 0] /\ EditorOutdated(d)
    BY <1>2 DEF CancelRuns, Wrote, Aged
  <2>2. row[d] \in Rows /\ row[d].text # 0
    BY <1>1, <1>2, ADraft DEF Sound, HaveText
  <2>3. r \in Rows /\ r.text # 0 /\ r.status \in {"synced", "local"}
    BY <2>2 DEF Rows, Statuses
  <2> HIDE DEF r
  <2>4. PICK ed \in Editors : /\ Becomes(editor', editor, d, Editors, ed)
                              /\ ed.fresh # "current" /\ (ed.open => ed.text # 0)
    BY <1>1, <2>1, EditorOutdatedReturns
  <2>5. /\ Becomes([row EXCEPT ![d] = r], row, d, Rows, r)
        /\ Becomes([wanted EXCEPT ![d] = 0], wanted, d, Texts, 0)
    BY <2>3, TextNumbers, Typed, ChangesAt
  <2>6. Knows(r, ed)
    BY <2>4 DEF Knows
  <2> QED
    BY <1>1, <2>1, <2>3, <2>4, <2>5, <2>6, Typed, TaskEnded
<1>3. CASE row[d].status # "send-pending"
  <2>1. chain' = [chain EXCEPT ![d] = Tail(chain[d])] /\ UNCHANGED <<row, wanted, editor>>
    BY <1>3 DEF CancelRuns
  <2> QED
    BY <1>1, <2>1, TaskDropped
<1> QED
  BY <1>2, <1>3

\* The row of a draft that is gone.
LEMMA RowGone ==
    ASSUME NEW d \in Drafts, NEW ed
    PROVE  NoRow \in Rows /\ NoRow.status = "none" /\ ~NoRow.remote /\ Knows(NoRow, ed)
  BY TextNumbers DEF NoRow, Rows, Statuses, Knows

LEMMA DiscardStartsKeeps ==
    ASSUME IInv, NEW d \in Drafts, DiscardStarts(d)
    PROVE  IInv'
<1> DEFINE r == [row[d] EXCEPT !.status = "discarding"]
<1>1. /\ up /\ chain[d] # <<>> /\ stage[d] = "none" /\ Head(chain[d]).kind \in {"discard", "sweep"}
      /\ UNCHANGED <<due, online, up, unused, wanted>>
  BY DEF DiscardStarts, Runs, Runnable
<1>2. CASE row[d].remote
  <2>1. /\ row' = [row EXCEPT ![d] = r] /\ chain' = [chain EXCEPT ![d] = Aged(chain[d])]
        /\ stage' = [stage EXCEPT ![d] = "asked"] /\ EditorOutdated(d) /\ pass' = pass
    BY <1>2 DEF DiscardStarts, Wrote, Aged
  <2>2. row[d] \in Rows /\ row[d].text # 0
    BY <1>1, <1>2, ADraft DEF Sound, HaveText
  <2>3. r \in Rows /\ r.text # 0 /\ r.status = "discarding"
    BY <2>2 DEF Rows, Statuses
  <2> HIDE DEF r
  <2>4. Becomes([row EXCEPT ![d] = r], row, d, Rows, r)
    BY <2>3, Typed, ChangesAt
  <2> QED
    BY <1>1, <2>1, <2>3, <2>4, Typed, TaskStarted
<1>3. CASE ~row[d].remote
  <2>1. /\ row' = [row EXCEPT ![d] = NoRow] /\ chain' = [chain EXCEPT ![d] = Aged(Tail(chain[d]))]
        /\ editor' = [editor EXCEPT ![d] = Closed] /\ Ended(d)
    BY <1>3 DEF DiscardStarts, Wrote, Aged
  <2>2. /\ Becomes([row EXCEPT ![d] = NoRow], row, d, Rows, NoRow)
        /\ Becomes([editor EXCEPT ![d] = Closed], editor, d, Editors, Closed)
        /\ Becomes(wanted', wanted, d, Texts, wanted[d])
    BY <1>1, RowGone, ClosedEditor, Typed, ChangesAt, StaysAt
  <2> QED
    BY <1>1, <2>1, <2>2, RowGone, ClosedEditor, Typed, TaskEnded
<1> QED
  BY <1>2, <1>3

LEMMA DiscardEndsKeeps ==
    ASSUME IInv, NEW d \in Drafts, DiscardEnds(d)
    PROVE  IInv'
<1> DEFINE failed == [row[d] EXCEPT !.status = "failed"]
<1>1. /\ up /\ chain[d] # <<>> /\ stage[d] # "none" /\ Ended(d)
      /\ UNCHANGED <<due, online, up, unused, wanted>>
      /\ chain' = [chain EXCEPT ![d] = Aged(Tail(chain[d]))]
      /\ editor' = [editor EXCEPT ![d] = Closed]
      /\ row' = [row EXCEPT ![d] = NoRow] \/ row' = [row EXCEPT ![d] = failed]
  BY DEF DiscardEnds, Awaits, Wrote, Aged
<1>2. row[d] \in Rows /\ row[d].text # 0
  BY <1>1, ADraft DEF Sound, HaveText, UnderWay
<1>3. failed \in Rows /\ failed.text # 0 /\ failed.status = "failed"
  BY <1>2 DEF Rows, Statuses
<1> HIDE DEF failed
<1>4. /\ Becomes([row EXCEPT ![d] = NoRow], row, d, Rows, NoRow)
      /\ Becomes([row EXCEPT ![d] = failed], row, d, Rows, failed)
      /\ Becomes([editor EXCEPT ![d] = Closed], editor, d, Editors, Closed)
      /\ Becomes(wanted', wanted, d, Texts, wanted[d])
  BY <1>1, <1>3, RowGone, ClosedEditor, Typed, ChangesAt, StaysAt
<1>5. Knows(failed, Closed) /\ Knows(NoRow, Closed) /\ NoRow.status = "none" /\ ~NoRow.remote /\ ~Closed.open
  BY ClosedEditor, RowGone DEF Knows
<1> QED
  BY <1>1, <1>3, <1>4, <1>5, Typed, TaskEnded

LEMMA DeliveryStartsKeeps ==
    ASSUME IInv, NEW d \in Drafts, DeliveryStarts(d)
    PROVE  IInv'
<1> DEFINE r == [row[d] EXCEPT !.status = "syncing"]
<1>1. /\ up /\ chain[d] # <<>> /\ stage[d] = "none" /\ Head(chain[d]).kind = "deliver"
      /\ UNCHANGED <<due, online, up, unused, wanted>>
  BY DEF DeliveryStarts, Runs, Runnable
<1>2. CASE StillDue(d)
  <2>1. /\ row' = [row EXCEPT ![d] = r] /\ chain' = [chain EXCEPT ![d] = Aged(chain[d])]
        /\ stage' = [stage EXCEPT ![d] = "asked"] /\ EditorOutdated(d) /\ pass' = pass
    BY <1>2 DEF DeliveryStarts, Wrote, Aged
  <2>2. row[d] \in Rows /\ row[d].text # 0 /\ wanted[d] = row[d].text
    BY <1>1, <1>2, ADraft DEF StillDue, Sound, HaveText, AsWanted
  <2>3. r \in Rows /\ r.text = row[d].text /\ r.status = "syncing"
    BY <2>2 DEF Rows, Statuses
  <2> HIDE DEF r
  <2>4. Becomes([row EXCEPT ![d] = r], row, d, Rows, r)
    BY <2>3, Typed, ChangesAt
  <2> QED
    BY <1>1, <2>1, <2>2, <2>3, <2>4, Typed, TaskStarted
<1>3. CASE ~StillDue(d)
  <2>1. chain' = [chain EXCEPT ![d] = Tail(chain[d])] /\ Ended(d) /\ UNCHANGED <<row, editor>>
    BY <1>3 DEF DeliveryStarts
  <2> QED
    BY <1>1, <2>1, TaskDropped
<1> QED
  BY <1>2, <1>3

\* The request of the first task gets further.
LEMMA RequestMoves ==
    ASSUME IInv, up, NEW d \in Drafts, NEW s \in Stages \ {"none", "asked"}, stage[d] # "none",
           stage' = [stage EXCEPT ![d] = s],
           NEW w \in Texts, Becomes(wanted', wanted, d, Texts, w),
           UNCHANGED <<row, due, chain, online, up, pass, editor, unused>>
    PROVE  IInv'
<1>1. /\ Becomes(row', row, d, Rows, row[d]) /\ Becomes(editor', editor, d, Editors, editor[d])
      /\ Becomes(chain', chain, d, Seq(Tasks), chain[d])
      /\ Becomes([stage EXCEPT ![d] = s], stage, d, Stages, s)
  BY Typed, StaysAt, ChangesAt
<1>2. Sound(row[d], chain[d], s, editor[d], w)
  BY ADraft DEF Sound, HaveText, UnderWay, AsWanted, Requested
<1> QED
  BY <1>1, <1>2, Typed, OneDraftChanges

LEMMA ProviderTakesKeeps ==
    ASSUME IInv, NEW d \in Drafts, ProviderTakes(d)
    PROVE  IInv'
<1> DEFINE w == IF Delivering(d) THEN 0 ELSE wanted[d]
<1>1. /\ up /\ stage[d] = "asked" /\ stage' = [stage EXCEPT ![d] = "taken"]
      /\ wanted' = [wanted EXCEPT ![d] = w]
      /\ UNCHANGED <<row, due, chain, online, up, pass, editor, unused>>
  BY DEF ProviderTakes, Awaits
<1>2. w \in Texts
  BY <1>1, ADraft, TextNumbers
<1> HIDE DEF w
<1>3. Becomes([wanted EXCEPT ![d] = w], wanted, d, Texts, w)
  BY <1>2, Typed, ChangesAt
<1> QED
  BY <1>1, <1>2, <1>3, RequestMoves DEF Stages

LEMMA SmtpAnswersKeeps ==
    ASSUME IInv, NEW d \in Drafts, SmtpAnswers(d)
    PROVE  IInv'
<1>1. /\ up /\ stage[d] # "none" /\ stage' = [stage EXCEPT ![d] = "answered"]
      /\ UNCHANGED <<row, due, chain, online, up, pass, editor, unused, wanted>>
  BY DEF SmtpAnswers, Delivering, Awaits
<1>2. Becomes(wanted', wanted, d, Texts, wanted[d]) /\ wanted[d] \in Texts
  BY <1>1, Typed, StaysAt
<1> QED
  BY <1>1, <1>2, RequestMoves DEF Stages

LEMMA DeliveryEndsKeeps ==
    ASSUME IInv, NEW d \in Drafts, DeliveryEnds(d)
    PROVE  IInv'
<1> DEFINE sent == [row[d] EXCEPT !.status = "sent"]
           failed == [row[d] EXCEPT !.status = "failed"]
<1>1. /\ up /\ chain[d] # <<>> /\ stage[d] # "none" /\ Ended(d)
      /\ EditorOutdated(d) /\ UNCHANGED <<due, online, up, unused>>
      /\ chain' = [chain EXCEPT ![d] = Aged(Tail(chain[d]))]
      /\ row' = [row EXCEPT ![d] = sent] \/ row' = [row EXCEPT ![d] = failed]
      /\ wanted' = wanted \/ wanted' = [wanted EXCEPT ![d] = 0]
  BY DEF DeliveryEnds, Delivering, Awaits, Wrote, Aged
<1>2. row[d] \in Rows /\ row[d].text # 0
  BY <1>1, ADraft DEF Sound, HaveText, UnderWay
<1>3. /\ sent \in Rows /\ sent.text # 0 /\ sent.status = "sent"
      /\ failed \in Rows /\ failed.text # 0 /\ failed.status = "failed"
  BY <1>2 DEF Rows, Statuses
<1> HIDE DEF sent, failed
<1>4. PICK r \in Rows : Becomes(row', row, d, Rows, r) /\ r.text # 0 /\ r.status \in {"sent", "failed"}
  <2>1. /\ Becomes([row EXCEPT ![d] = sent], row, d, Rows, sent)
        /\ Becomes([row EXCEPT ![d] = failed], row, d, Rows, failed)
    BY <1>3, Typed, ChangesAt
  <2> QED
    BY <1>1, <1>3, <2>1
<1>5. PICK w \in Texts : Becomes(wanted', wanted, d, Texts, w)
  <2>1. /\ Becomes(wanted, wanted, d, Texts, wanted[d]) /\ wanted[d] \in Texts
        /\ Becomes([wanted EXCEPT ![d] = 0], wanted, d, Texts, 0) /\ 0 \in Texts
    BY TextNumbers, Typed, StaysAt, ChangesAt
  <2> QED
    BY <1>1, <2>1
<1>6. PICK ed \in Editors : /\ Becomes(editor', editor, d, Editors, ed)
                            /\ ed.fresh # "current" /\ (ed.open => ed.text # 0)
  BY <1>1, EditorOutdatedReturns
<1>7. Knows(r, ed)
  BY <1>4 DEF Knows
<1> QED
  BY <1>1, <1>4, <1>5, <1>6, <1>7, Typed, TaskEnded

-----------------------------------------------------------------------------
(* processQueuedDrafts *)

\* What the pass reads are rows with a text.
LEMMA ReadReturns ==
    ASSUME IInv, up, NEW phase \in PassKinds
    PROVE  Read(phase) \in Passes /\ \A e \in Read(phase).todo : e.text # 0
<1>1. \A d \in ListOf(phase) : d \in Drafts /\ row[d].status # "none"
  BY DEF ListOf, QueuedDrafts, PassKinds
<1>2. \A d \in ListOf(phase) : row[d].text \in Texts /\ row[d].text # 0
  BY <1>1, ADraft DEF Rows, Sound, HaveText
<1>3. {[draft |-> d, text |-> row[d].text] : d \in ListOf(phase)} \subseteq [draft : Drafts, text : Texts]
  BY <1>1, <1>2
<1> QED
  BY <1>2, <1>3 DEF Read, Passes

\* Steps that change no draft.
LEMMA DraftsStay ==
    ASSUME IInv, up, up', UNCHANGED <<row, chain, stage, editor, wanted, unused>>,
           due' \subseteq Drafts, online' \in BOOLEAN,
           pass' \in Passes, \A e \in pass'.todo : e.text # 0
    PROVE  IInv'
<1>1. TypeOK'
  BY DEF IInv, TypeOK, Passes
<1> QED
  BY <1>1 DEF IInv

LEMMA PassBeginsKeeps ==
    ASSUME IInv, PassBegins
    PROVE  IInv'
  BY ReadReturns, DraftsStay, Typed DEF PassBegins, Quiet, PassKinds

LEMMA PassMovesOnKeeps ==
    ASSUME IInv, PassMovesOn
    PROVE  IInv'
<1>1. Resting \in Passes /\ \A e \in Resting.todo : e.text # 0
  BY DEF Resting, Passes
<1>2. /\ Read("sync") \in Passes /\ \A e \in Read("sync").todo : e.text # 0
      /\ Read("deliver") \in Passes /\ \A e \in Read("deliver").todo : e.text # 0
  BY ReadReturns DEF PassMovesOn, PassKinds
<1>3. pass.phase \in {"idle"} \cup PassKinds /\ pass.phase # "idle"
  BY Typed DEF PassMovesOn, PassRunnable, Passes
<1>4. pass' = Read("sync") \/ pass' = Read("deliver") \/ pass' = Resting
  BY <1>3 DEF PassMovesOn, PassKinds
<1> QED
  BY <1>1, <1>2, <1>4, DraftsStay, Typed DEF PassMovesOn

LEMMA PassTakesKeeps ==
    ASSUME IInv, NEW e \in pass.todo, PassTakes(e)
    PROVE  IInv'
<1> DEFINE d == e.draft
           t == Task(pass.phase, e.text, "none")
<1>1. /\ up /\ pass.phase # "idle" /\ chain' = [chain EXCEPT ![d] = Append(@, t)]
      /\ pass' = [pass EXCEPT !.todo = @ \ {e}, !.awaited = {d}]
      /\ UNCHANGED <<row, due, stage, online, up, editor, unused, wanted>>
  BY DEF PassTakes, PassRunnable
<1>2. d \in Drafts /\ e.text \in Texts /\ e.text # 0 /\ pass.phase \in PassKinds
  BY <1>1, Typed DEF Passes
<1>3. t \in Tasks /\ t.text # 0
  BY <1>2 DEF Task, Tasks, Knowledge
<1>4. pass' \in Passes /\ \A f \in pass'.todo : f.text # 0
  BY <1>1, <1>2, Typed DEF Passes
<1> HIDE DEF d, t
<1>5. Becomes(editor', editor, d, Editors, editor[d])
  BY <1>1, <1>2, Typed, StaysAt
<1> QED
  BY <1>1, <1>2, <1>3, <1>4, <1>5, ADraft, Typed, TaskAdded

-----------------------------------------------------------------------------
(* Time, the network, crash and restart *)

LEMMA BecomesDueKeeps ==
    ASSUME IInv, NEW d \in Drafts, BecomesDue(d)
    PROVE  IInv'
<1>1. TypeOK'
  BY DEF BecomesDue, IInv, TypeOK
<1> QED
  BY <1>1 DEF BecomesDue, IInv, Down

LEMMA NetworkKeeps ==
    ASSUME IInv, Network
    PROVE  IInv'
  BY DraftsStay, Typed DEF Network, Quiet

LEMMA CrashKeeps ==
    ASSUME IInv, Crash
    PROVE  IInv'
<1>1. /\ up /\ up' = FALSE /\ chain' = [d \in Drafts |-> <<>>] /\ stage' = [d \in Drafts |-> "none"]
      /\ pass' = Resting /\ editor' = [d \in Drafts |-> Closed]
      /\ wanted' = [d \in Drafts |-> IF Delivering(d) THEN 0 ELSE wanted[d]]
      /\ UNCHANGED <<row, due, online, unused>>
  BY DEF Crash
<1>2. \A d \in Drafts : <<>> \in Seq(Tasks) /\ Closed \in Editors /\ wanted'[d] \in Texts
  BY <1>1, ClosedEditor, TextNumbers, Typed
<1>3. Resting \in Passes /\ Resting.todo = {}
  BY DEF Resting, Passes
<1>4. TypeOK'
  BY <1>1, <1>2, <1>3, Typed DEF TypeOK, Rows, Tasks, Stages, Editors, Passes
<1>5. ASSUME NEW d \in Drafts PROVE Down(d)'
  <2>1. Sound(row[d], chain[d], stage[d], editor[d], wanted[d])
    BY <1>1, ADraft
  <2>2. row[d].status = "send-pending" => wanted'[d] = row[d].text
    BY <1>1, <2>1 DEF Sound, UnderWay, AsWanted, Delivering, Awaits
  <2> QED
    BY <1>1, <2>1, <2>2 DEF Down, Sound, HaveText
<1> QED
  BY <1>1, <1>3, <1>4, <1>5 DEF IInv

LEMMA RestartKeeps ==
    ASSUME IInv, Restart
    PROVE  IInv'
<1>1. /\ ~up /\ up' /\ row' = [d \in Drafts |-> Recovered(row[d])]
      /\ UNCHANGED <<due, chain, stage, online, pass, editor, unused, wanted>>
  BY DEF Restart
<1>2. ASSUME NEW d \in Drafts
      PROVE  /\ row'[d] \in Rows /\ row'[d].text = row[d].text /\ row'[d].remote = row[d].remote
             /\ row'[d].status = IF row[d].status = "syncing" THEN "failed" ELSE row[d].status
  <2>1. row[d] \in Rows
    BY Typed
  <2> QED
    BY <1>1, <2>1 DEF Recovered, Rows, Statuses
<1>3. TypeOK'
  BY <1>1, <1>2, Typed DEF TypeOK, Rows, Tasks, Stages, Editors, Passes
<1>4. ASSUME NEW d \in Drafts
      PROVE  Sound(row'[d], chain'[d], stage'[d], editor'[d], wanted'[d])
  <2>1. Down(d)
    BY <1>1 DEF IInv
  <2>2. ~Closed.open
    BY ClosedEditor
  <2> QED
    BY <1>1, <1>2, <2>1, <2>2 DEF Down, Sound, HaveText, UnderWay, AsWanted, Knows, Requested
<1> QED
  BY <1>1, <1>3, <1>4, Typed DEF IInv

LEMMA NextKeeps == IInv /\ [Next]_vars => IInv'
<1> SUFFICES ASSUME IInv, [Next]_vars PROVE IInv'
  OBVIOUS
<1>1. CASE UNCHANGED vars
  BY <1>1 DEF vars, IInv, TypeOK, Down
<1>2. ASSUME NEW d \in Drafts,
             User(d) \/ TaskRuns(d) \/ TaskEnds(d) \/ ProviderTakes(d) \/ SmtpAnswers(d) \/ BecomesDue(d)
      PROVE  IInv'
  <2>1. CASE User(d)
    BY <2>1, ComposeKeeps, ReopenKeeps, EditKeeps, SaveKeeps, SendKeeps, ClosingKeeps, CancelKeeps,
       DiscardKeeps DEF User
  <2>2. CASE TaskRuns(d)
    BY <2>2, SaveRefusedKeeps, SaveStartsKeeps, SendQueuesKeeps, CancelRunsKeeps, DiscardStartsKeeps,
       DeliveryStartsKeeps DEF TaskRuns
  <2>3. CASE TaskEnds(d)
    BY <2>3, SaveEndsKeeps, DiscardEndsKeeps, DeliveryEndsKeeps DEF TaskEnds
  <2> QED
    BY <1>2, <2>1, <2>2, <2>3, ProviderTakesKeeps, SmtpAnswersKeeps, BecomesDueKeeps
<1>3. CASE PassBegins \/ PassRuns
  BY <1>3, PassBeginsKeeps, PassMovesOnKeeps, PassTakesKeeps DEF PassRuns
<1>4. CASE Network \/ Crash \/ Restart
  BY <1>4, NetworkKeeps, CrashKeeps, RestartKeeps
<1> QED
  BY <1>1, <1>2, <1>3, <1>4 DEF Next

LEMMA Invariant == Spec => []IInv
  BY InitKeeps, NextKeeps, PTL DEF Spec

-----------------------------------------------------------------------------
(* What follows from the invariant *)

\* A draft says it is being saved or sent only while that is going on or the
\* worker is down, and a composer that will not be refused shows as saved what
\* the row holds: saveDraft, deliverDraft and recoverInterruptedWork.
THEOREM RowsStayTrue == Spec => []RowsAreTrue
<1>1. ASSUME IInv PROVE SyncingIsAwaited
  <2> SUFFICES ASSUME NEW d \in Drafts, row[d].status = "syncing", up
               PROVE  Awaits(d, {"save", "sync", "deliver"})
    BY DEF SyncingIsAwaited
  <2> QED
    BY <1>1, ADraft DEF Sound, UnderWay, Requested, Awaits
<1>2. ASSUME IInv PROVE EditorKnows
  <2> SUFFICES ASSUME NEW d \in Drafts, editor[d].open, editor[d].fresh = "current",
                      row[d].status \in {"local", "synced"}
               PROVE  editor[d].saved = row[d].text
    BY DEF EditorKnows
  <2>1. up
    BY <1>2, ClosedEditor DEF IInv, Down
  <2> QED
    BY <1>2, <2>1, ADraft DEF Sound, Knows
<1>3. IInv => RowsAreTrue
  BY <1>1, <1>2 DEF RowsAreTrue, IInv
<1> QED
  BY <1>3, Invariant, PTL

\* The provider takes only a message with the text that the user asked to send
\* and has neither taken back nor discarded, once for each Send.
THEOREM OnlyAsAsked == Spec => SentAsAsked
<1>1. IInv /\ [Next]_vars =>
          [\A d \in Drafts :
             (Delivering(d) /\ stage[d] = "asked" /\ stage'[d] = "taken")
                 => wanted[d] # 0 /\ wanted[d] = row[d].text]_vars
  <2> SUFFICES ASSUME IInv, NEW d \in Drafts, Delivering(d), stage[d] = "asked"
               PROVE  wanted[d] # 0 /\ wanted[d] = row[d].text
    OBVIOUS
  <2> QED
    BY ADraft DEF Delivering, Awaits, Sound, AsWanted, Requested
<1> QED
  BY <1>1, Invariant, PTL DEF Spec, SentAsAsked
=============================================================================
