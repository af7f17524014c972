--------------------------- MODULE KeepingProofs ----------------------------
(***************************************************************************)
(* What is kept alike, for any values of the constants: the saved          *)
(* checkpoint of a mailbox misses no change and no message is new twice;   *)
(* what was saved in a note is on its way until its server has it; a watch *)
(* runs out only when no reply was there in time; and no device loses a    *)
(* setting. A hypothesis on a constant names the disturbances that must    *)
(* not happen, each of which breaks the property (see the runs of MailSync *)
(* and ServerNotes and README.md).                                         *)
(***************************************************************************)
EXTENDS MCKeeping, NaturalsInduction, WellFoundedInduction, TLAPS

Texts == {"none", "off", "on"}
Record == [msg : Mail, kind : {"add", "label", "delete"}]
SyncType == [at : {"none", "idle", "list", "download", "history", "fetch", "scope"},
             purpose : {"none", "incremental", "catchUp", "final"}, base : Nat, pos : Nat, page : 0..NMail,
             changed : SUBSET Mail, added : SUBSET Mail, new : SUBSET Mail]
ItemStates == {"none", "pending", "failed", "givenUp", "complete"}
CheckpointType == [history : Nat \cup {Null}, initial : Nat \cup {Null}, token : 0..NMail, complete : BOOLEAN]
TypeOK ==
    /\ remote \in [Mail -> Texts] /\ log \in Seq(Record) /\ floor \in Nat
    /\ cache \in [Mail -> Texts]
    /\ items \in [Mail -> ItemStates]
    /\ checkpoint \in CheckpointType
    /\ sync \in SyncType /\ reported \in [Mail -> Nat]

\* What differs between the cache and the mailbox is in the history after p.
Covered(m, p) == cache[m] = remote[m] \/ \E i \in p + 1 .. Len(log) : log[i].msg = m
Unread(m) == items[m] \in {"pending", "failed", "givenUp"}
Added(m) == \E i \in DOMAIN log : log[i].msg = m /\ log[i].kind = "add"

\* A message arrives once and is deleted for good, and the cache has none that
\* never was in the mailbox.
Mailbox ==
    /\ \A i \in DOMAIN log : /\ log[i].kind = "delete" => Gone(log[i].msg)
                             /\ log[i].kind = "add" => log[i].msg > NFirst
    /\ \A m \in Mail : ~Gone(m) \/ cache[m] # "none" => m <= NFirst \/ Added(m)

\* An inventory lists every message there was when it passed, and what it did
\* not find there came later.
Passed(m) == sync.page # 0 /\ sync.page <= m
Listing ==
    At("list") =>
        /\ ~checkpoint.complete
        /\ \A m \in Mail : items[m] \in {"none", "pending"}
        /\ \A m \in Mail : Passed(m) /\ items[m] = "none" /\ ~Gone(m) =>
               cache[m] = "none" /\ \E i \in sync.base + 1 .. Len(log) : log[i].msg = m

\* Which work goes on with which checkpoint.
Reads == sync.at \in {"history", "fetch"}
Phases ==
    /\ checkpoint.history <= Len(log) /\ checkpoint.initial <= Len(log)
    /\ sync.base <= Len(log) /\ sync.pos <= Len(log)
    /\ checkpoint.complete => checkpoint.initial # Null
    /\ At("download") => checkpoint.complete
    /\ Reads => sync.purpose # "none"
    /\ Reads /\ sync.purpose # "incremental" => checkpoint.complete
    /\ (Reads /\ sync.purpose = "incremental") \/ At("scope") => checkpoint.history # Null
    /\ checkpoint.history = Null /\ ~At("list") /\ ~checkpoint.complete => ~Listed

\* What a complete inventory, or the history read so far, does not account for
\* is still to be read.
Inventoried == checkpoint.complete => \A m \in Mail : Covered(m, checkpoint.initial) \/ Unread(m)
ReadSoFar ==
    /\ Reads => \A m \in Mail :
           m \in sync.changed \/ Covered(m, sync.pos) \/ (sync.purpose # "incremental" /\ Unread(m))
    /\ Reads /\ sync.purpose = "final" => \A m \in Mail : items[m] = "pending" => m \in sync.changed
    /\ At("scope") => \A m \in Mail : Covered(m, sync.pos)

\* What was found to be new stays in the cache as long as it exists.
News ==
    \A m \in Mail :
        /\ m \in sync.added \/ m \in sync.new \/ reported[m] # 0 => Added(m)
        /\ reported[m] <= 1 /\ (m \in sync.new => reported[m] = 0)
        /\ m \in sync.new \/ reported[m] # 0 => cache[m] # "none" \/ Gone(m)

IInv == TypeOK /\ Mailbox /\ Listing /\ Phases /\ CheckpointCovers /\ Inventoried /\ ReadSoFar /\ News

-----------------------------------------------------------------------------
(* The newest of some messages, and what a cache that moves towards the    *)
(* mailbox keeps.                                                          *)

LEMMA Newest ==
    ASSUME NEW S \in SUBSET Mail, S # {}
    PROVE  Max(S) \in S /\ \A m \in S : m <= Max(S)
<1> DEFINE Less == {ss \in Nat \X Nat : ss[1] < ss[2]}
           Up == {NMail - m : m \in S}
<1>1. IsWellFoundedOn(Less, Nat)
  BY NatLessThanWellFounded DEF OpToRel
<1>2. \A m \in S : m \in Nat /\ NMail - m \in Nat
  BY SyncConstants DEF Mail
<1>3. Up \subseteq Nat /\ Up # {}
  BY <1>2
<1>4. PICK up \in Up : \A y \in Up : ~ (<<y, up>> \in Less)
  BY <1>1, <1>3, WFMin, Zenon
<1>5. \E x \in S : \A y \in S : x >= y
  <2>1. PICK x \in S : up = NMail - x
    BY <1>4
  <2>2. ASSUME NEW y \in S PROVE x >= y
    <3>1. NMail - y \in Up
      OBVIOUS
    <3>2. ~ (<<NMail - y, NMail - x>> \in Less)
      BY <1>4, <2>1, <3>1
    <3>3. ~ (NMail - y < NMail - x)
      BY <1>2, <3>2
    <3> QED BY <1>2, <3>3, SyncConstants
  <2> QED BY <2>2
<1>6. Max(S) \in S /\ \A y \in S : Max(S) >= y
  BY <1>5 DEF Max
<1> QED BY <1>6, SyncConstants DEF Mail

CacheMoves ==
    /\ UNCHANGED <<remote, log>>
    /\ \A m \in Mail : cache'[m] = cache[m] \/ cache'[m] = remote[m]

LEMMA MailboxKept ==
    ASSUME TypeOK, Mailbox, CacheMoves
    PROVE  Mailbox'
BY DEF TypeOK, Mailbox, CacheMoves, Gone, Added

LEMMA CheckpointKept ==
    ASSUME CheckpointCovers, CacheMoves, checkpoint'.history \in {checkpoint.history, Null}
    PROVE  CheckpointCovers'
BY DEF CheckpointCovers, CacheMoves

LEMMA InventoriedKept ==
    ASSUME Inventoried, CacheMoves,
           checkpoint'.complete => checkpoint.complete /\ checkpoint'.initial = checkpoint.initial,
           \A m \in Mail : Unread(m) => Unread(m)' \/ cache'[m] = remote[m]
    PROVE  Inventoried'
BY DEF Inventoried, CacheMoves, Covered

\* A message that was found to be new leaves the cache only with the mailbox.
LEMMA NewsKept ==
    ASSUME TypeOK, News, UNCHANGED <<remote, log, reported>>,
           \A m \in Mail : cache'[m] = "none" => cache[m] = "none" \/ Gone(m),
           \A m \in Mail : m \in sync'.added => m \in sync.added \/ Added(m),
           \A m \in Mail : m \in sync'.new => m \in sync.new
    PROVE  News'
BY DEF News, Added, Gone

-----------------------------------------------------------------------------
(* Types.                                                                  *)

LEMMA SyncRecords ==
    /\ Idle \in SyncType
    /\ \A s \in SyncType, at \in {"none", "idle", "list", "download", "history", "fetch", "scope"} :
           [s EXCEPT !.at = at] \in SyncType
    /\ \A s \in SyncType, p \in 0..NMail : [s EXCEPT !.page = p] \in SyncType
<1>1. 0 \in 0..NMail
  BY SyncConstants
<1>2. Idle \in SyncType
  BY <1>1 DEF SyncType, Idle
<1> QED BY <1>2 DEF SyncType

LEMMA LogRecords ==
    ASSUME TypeOK
    PROVE  /\ Len(log) \in Nat /\ DOMAIN log = 1 .. Len(log)
           /\ \A i \in 1 .. Len(log) : /\ log[i] \in Record /\ log[i].msg \in Mail
                                       /\ log[i].kind \in {"add", "label", "delete"}
<1>1. log \in Seq(Record) /\ Len(log) \in Nat /\ DOMAIN log = 1 .. Len(log)
  BY DEF TypeOK
<1>2. \A i \in 1 .. Len(log) : log[i] \in Record
  BY <1>1
<1> QED BY <1>1, <1>2 DEF Record

LEMMA CheckpointRecords ==
    ASSUME NEW c \in CheckpointType
    PROVE  /\ c.token \in 0..NMail /\ c.complete \in BOOLEAN /\ Reset(c) \in CheckpointType
           /\ c.history # Null => c.history \in Nat
           /\ c.initial # Null => c.initial \in Nat
           /\ \A p \in 0..NMail, n \in Nat :
                  /\ [c EXCEPT !.token = p, !.initial = n] \in CheckpointType
                  /\ [c EXCEPT !.token = p, !.initial = n, !.complete = TRUE] \in CheckpointType
           /\ \A n \in Nat, h \in Nat \cup {Null} :
                  /\ [c EXCEPT !.initial = n] \in CheckpointType
                  /\ [c EXCEPT !.history = h] \in CheckpointType
                  /\ [c EXCEPT !.initial = n, !.history = h] \in CheckpointType
           /\ [c EXCEPT !.history = Null, !.initial = Null] \in CheckpointType
<1>1. 0 \in 0..NMail
  BY SyncConstants
<1>2. c.token \in 0..NMail /\ c.complete \in BOOLEAN /\ c.history \in Nat \cup {Null} /\ c.initial \in Nat \cup {Null}
  BY DEF CheckpointType
<1>3. Reset(c) \in CheckpointType
  BY <1>1 DEF CheckpointType, Reset
<1>4. \A p \in 0..NMail, n \in Nat :
          /\ [c EXCEPT !.token = p, !.initial = n] \in CheckpointType
          /\ [c EXCEPT !.token = p, !.initial = n, !.complete = TRUE] \in CheckpointType
  BY DEF CheckpointType
<1>5. \A n \in Nat, h \in Nat \cup {Null} :
          /\ [c EXCEPT !.initial = n] \in CheckpointType
          /\ [c EXCEPT !.history = h] \in CheckpointType
          /\ [c EXCEPT !.initial = n, !.history = h] \in CheckpointType
  BY DEF CheckpointType
<1>6. [c EXCEPT !.history = Null, !.initial = Null] \in CheckpointType
  BY DEF CheckpointType
<1> QED BY <1>2, <1>3, <1>4, <1>5, <1>6

LEMMA InventoryTypes ==
    ASSUME TypeOK, NEW its \in [Mail -> ItemStates], NEW c \in CheckpointType, Inventory(its, c)
    PROVE  checkpoint' \in CheckpointType /\ items' \in [Mail -> ItemStates] /\ sync' \in SyncType
<1> DEFINE known == \E m \in Mail : its[m] # "none"
           at == IF known THEN c ELSE Reset(c)
<1>1. at \in CheckpointType /\ at.token \in 0..NMail
  BY CheckpointRecords
<1>2. /\ checkpoint' = at
      /\ items' = IF at.complete THEN [m \in Mail |-> IF its[m] = "givenUp" THEN "pending" ELSE its[m]] ELSE its
      /\ sync' = [Idle EXCEPT !.at = IF at.complete THEN "download" ELSE "list",
                              !.base = Len(log), !.page = at.token]
  BY DEF Inventory
<1> HIDE DEF at
<1>3. items' \in [Mail -> ItemStates]
  BY <1>2 DEF ItemStates
<1>4. sync' \in SyncType
  BY <1>1, <1>2, LogRecords DEF SyncType, Idle
<1> QED BY <1>1, <1>2, <1>3, <1>4

LEMMA HistoryType ==
    ASSUME NEW purpose \in {"incremental", "catchUp", "final"}, NEW p \in Nat, History(purpose, p)
    PROVE  sync' \in SyncType
<1>1. 0 \in 0..NMail
  BY SyncConstants
<1> QED BY <1>1 DEF History, SyncType, Idle

LEMMA TypeKept ==
    ASSUME IInv, Next
    PROVE  TypeOK'
<1> USE DEF IInv, TypeOK
<1>1. remote' \in [Mail -> Texts] /\ log' \in Seq(Record) /\ floor' \in Nat
  <2>1. ASSUME NEW m \in Mail, Arrive(m) \/ Relabel(m) \/ Delete(m)
        PROVE  remote' \in [Mail -> Texts] /\ log' \in Seq(Record) /\ floor' \in Nat
    <3>1. PICK kind \in {"add", "label", "delete"}, to \in Texts : Changes(m, kind, to)
      BY <2>1 DEF Arrive, Relabel, Delete, Texts
    <3>2. [msg |-> m, kind |-> kind] \in Record
      BY DEF Record
    <3> QED BY <3>1, <3>2 DEF Changes
  <2>2. CASE Expire
    BY <2>2 DEF Expire
  <2>3. CASE UNCHANGED server
    BY <2>3 DEF server
  <2>4. UNCHANGED server \/ Expire \/ \E m \in Mail : Arrive(m) \/ Relabel(m) \/ Delete(m)
    BY DEF Next, SyncSteps, Connect, Starts, ListPage, Downloaded, HistoryExpired, CaughtUp, FullSyncEnds,
       ScopeBegins, IncrementalEnds, Download, Fetch, ScopeDownload, DownloadFails, HistoryPage, Rebuild, Breaks
  <2> QED BY <2>1, <2>2, <2>3, <2>4
<1>2. reported' \in [Mail -> Nat]
  <2>1. Report \/ UNCHANGED reported
    BY DEF Next, SyncSteps, Connect, Starts, ListPage, Downloaded, HistoryExpired, CaughtUp, FullSyncEnds,
       ScopeBegins, IncrementalEnds, Download, Fetch, ScopeDownload, DownloadFails, HistoryPage, Rebuild, Breaks,
       Arrive, Relabel, Delete, Changes, Expire
  <2> QED BY <2>1 DEF Report
<1>3. cache' \in [Mail -> Texts]
  <2>1. ASSUME NEW m \in Mail, Download(m) \/ Fetch(m) \/ ScopeDownload(m) PROVE cache' \in [Mail -> Texts]
    BY <2>1 DEF Download, Fetch, ScopeDownload, Stores, Texts
  <2>2. CASE ListPage
    BY <2>2 DEF ListPage, Texts
  <2>3. ASSUME NEW k, HistoryPage(k) PROVE cache' \in [Mail -> Texts]
    BY <2>3 DEF HistoryPage, Texts
  <2>4. \/ UNCHANGED cache \/ ListPage \/ \E m \in Mail : Download(m) \/ Fetch(m) \/ ScopeDownload(m)
        \/ \E k \in 0 .. MaxChanges : HistoryPage(k)
    BY DEF Next, SyncSteps, Connect, Starts, Downloaded, HistoryExpired, CaughtUp, FullSyncEnds,
       ScopeBegins, IncrementalEnds, DownloadFails, Rebuild, Breaks, Arrive, Relabel, Delete, Changes, Expire, store
  <2> QED BY <2>1, <2>2, <2>3, <2>4
<1>4. NoItems \in [Mail -> ItemStates] /\ Reset(checkpoint) \in CheckpointType
      /\ [Reset(checkpoint) EXCEPT !.history = Null, !.initial = Null] \in CheckpointType
  <2>1. NoItems \in [Mail -> ItemStates]
    BY DEF NoItems, ItemStates
  <2> QED BY <2>1, CheckpointRecords
<1>5. ASSUME Starts \/ HistoryExpired \/ Rebuild
      PROVE  checkpoint' \in CheckpointType /\ items' \in [Mail -> ItemStates] /\ sync' \in SyncType
  <2>1. checkpoint.history # Null => checkpoint.history \in Nat
    BY CheckpointRecords
  <2> QED BY <1>4, <1>5, <2>1, InventoryTypes, HistoryType, SyncRecords
      DEF Starts, HistoryExpired, Rebuild, StartsOver, EndsInError
<1>6. CASE ListPage
  <2>1. ASSUME NEW S \in SUBSET Mail, S # {} PROVE Max(S) \in 0..NMail
    <3>1. Max(S) \in Mail
      BY <2>1, Newest
    <3> QED BY <3>1, SyncConstants DEF Mail
  <2>2. items' \in [Mail -> ItemStates]
    BY <1>6 DEF ListPage, ItemStates
  <2>3. sync.base \in Nat
    BY DEF SyncType
  <2>4. ASSUME NEW p \in 0..NMail
        PROVE  /\ [checkpoint EXCEPT !.token = p, !.initial = sync.base] \in CheckpointType
               /\ [checkpoint EXCEPT !.token = 0, !.initial = sync.base, !.complete = TRUE] \in CheckpointType
    <3>1. 0 \in 0..NMail
      BY SyncConstants
    <3> QED BY <2>3, <3>1, CheckpointRecords
  <2> DEFINE older == {m \in Mail : ~Gone(m) /\ (sync.page = 0 \/ m < sync.page)}
             page == IF older = {} THEN {} ELSE {Max(older)}
  <2>5. /\ older # page => /\ checkpoint' = [checkpoint EXCEPT !.token = Max(older), !.initial = sync.base]
                           /\ sync' = [sync EXCEPT !.page = Max(older)]
        /\ older = page => /\ checkpoint' = [checkpoint EXCEPT !.token = 0, !.initial = sync.base, !.complete = TRUE]
                           /\ sync' = [sync EXCEPT !.at = "download"]
    BY <1>6 DEF ListPage, SinceTheProfile
  <2>6. older \in SUBSET Mail /\ (older # page => older # {})
    OBVIOUS
  <2> HIDE DEF older, page
  <2>7. checkpoint' \in CheckpointType
    <3>1. 0 \in 0..NMail
      BY SyncConstants
    <3>2. CASE older # page
      <4>1. older \in SUBSET Mail /\ older # {}
        BY <2>6, <3>2
      <4>2. Max(older) \in 0..NMail
        BY <2>1, <4>1
      <4> QED BY <2>4, <2>5, <3>2, <4>2
    <3>3. CASE older = page
      BY <2>4, <2>5, <3>1, <3>3
    <3> QED BY <3>2, <3>3
  <2>8. sync' \in SyncType
    BY <2>1, <2>5, <2>6, SyncRecords
  <2> QED BY <1>1, <1>2, <1>3, <2>2, <2>7, <2>8
<1>7. ASSUME NEW m \in Mail, Download(m) \/ DownloadFails(m) \/ ScopeDownload(m)
      PROVE  checkpoint' \in CheckpointType /\ items' \in [Mail -> ItemStates] /\ sync' \in SyncType
  <2>1. items' \in [Mail -> ItemStates] /\ UNCHANGED checkpoint
    BY <1>7 DEF Download, DownloadFails, ScopeDownload, Stores, ItemStates
  <2>2. UNCHANGED sync \/ (At("download") /\ History("catchUp", checkpoint.initial))
    BY <1>7 DEF Download, DownloadFails, ScopeDownload, DownloadNext
  <2>3. At("download") => checkpoint.initial \in Nat
    BY DEF Phases, CheckpointType
  <2> QED BY <2>1, <2>2, <2>3, HistoryType
<1>8. ASSUME NEW m \in Mail, Fetch(m)
      PROVE  checkpoint' \in CheckpointType /\ items' \in [Mail -> ItemStates] /\ sync' \in SyncType
  <2>1. items' \in [Mail -> ItemStates] /\ UNCHANGED checkpoint
    BY <1>8 DEF Fetch, Stores, ItemStates
  <2>2. sync' \in SyncType
    BY <1>8 DEF Fetch, SyncType
  <2> QED BY <2>1, <2>2
<1>9. ASSUME NEW k \in 0 .. MaxChanges, HistoryPage(k)
      PROVE  checkpoint' \in CheckpointType /\ items' \in [Mail -> ItemStates] /\ sync' \in SyncType
  <2>1. items' \in [Mail -> ItemStates] /\ UNCHANGED checkpoint
    BY <1>9 DEF HistoryPage, ItemStates
  <2>2. k \in Nat /\ sync.pos \in Nat /\ k <= Len(log)
    BY <1>9, SyncConstants DEF HistoryPage, SyncType
  <2>3. \A r \in Records(sync.pos, k) : r.msg \in Mail
    BY <2>2, LogRecords DEF Records
  <2>4. sync' \in SyncType
    <3> DEFINE of(kind) == {r.msg : r \in {x \in Records(sync.pos, k) : x.kind = kind}}
    <3>1. \A kind : of(kind) \subseteq Mail
      BY <2>3
    <3>2. sync' = [sync EXCEPT !.pos = k, !.changed = (sync.changed \cup of("add") \cup of("label")) \ of("delete"),
                               !.added = sync.added \cup of("add"), !.at = IF k < Len(log) THEN sync.at ELSE "fetch"]
      BY <1>9 DEF HistoryPage
    <3> HIDE DEF of
    <3> QED BY <2>2, <3>1, <3>2 DEF SyncType
  <2> QED BY <2>1, <2>4
<1>10. CASE CaughtUp \/ FullSyncEnds \/ IncrementalEnds
  <2>1. sync.pos \in Nat
    BY DEF SyncType
  <2>2. checkpoint' \in CheckpointType
    <3>1. checkpoint.history \in Nat \cup {Null}
      BY CheckpointRecords
    <3>2. CASE FullSyncEnds
      <4>1. PICK h \in Nat \cup {Null} : checkpoint' = [checkpoint EXCEPT !.initial = sync.pos, !.history = h]
        BY <2>1, <3>1, <3>2 DEF FullSyncEnds
      <4> QED BY <2>1, <4>1, CheckpointRecords
    <3>3. /\ [checkpoint EXCEPT !.initial = sync.pos] \in CheckpointType
          /\ [checkpoint EXCEPT !.history = sync.pos] \in CheckpointType
      BY <2>1, CheckpointRecords
    <3> QED BY <1>10, <3>2, <3>3 DEF CaughtUp, IncrementalEnds
  <2>3. sync' \in SyncType /\ UNCHANGED items
    BY <1>10, SyncRecords DEF CaughtUp, FullSyncEnds, IncrementalEnds
  <2> QED BY <1>1, <1>2, <1>3, <2>2, <2>3
<1>11. CASE Downloaded
  <2>1. checkpoint.initial \in Nat
    BY <1>11 DEF Downloaded, Phases, CheckpointType
  <2> QED BY <1>1, <1>2, <1>3, <1>11, <2>1, HistoryType DEF Downloaded, store
<1>12. CASE Connect \/ ScopeBegins \/ Breaks
  BY <1>1, <1>2, <1>3, <1>12, SyncRecords DEF Connect, ScopeBegins, Breaks, store
<1>13. ASSUME NEW m \in Mail, Arrive(m) \/ Relabel(m) \/ Delete(m) \/ Expire
       PROVE  UNCHANGED <<checkpoint, items, sync>>
  BY <1>13 DEF Arrive, Relabel, Delete, Changes, Expire, store
<1>14. CASE Expire
  BY <1>1, <1>2, <1>3, <1>14 DEF Expire, store
<1> QED BY <1>1, <1>2, <1>3, <1>5, <1>6, <1>7, <1>8, <1>9, <1>10, <1>11, <1>12, <1>13, <1>14 DEF Next, SyncSteps

-----------------------------------------------------------------------------
(* The steps.                                                              *)

Rest == Mailbox /\ Listing /\ Phases /\ CheckpointCovers /\ Inventoried /\ ReadSoFar /\ News
Unchanging == UNCHANGED <<remote, log>>

\* A change of the mailbox is in the history, after everything that was read.
LEMMA ChangeKeeps ==
    ASSUME IInv, NEW m \in Mail, Arrive(m) \/ Relabel(m) \/ Delete(m)
    PROVE  Rest'
<1> USE DEF IInv
<1> DEFINE n == Len(log) + 1
<1>1. PICK kind \in {"add", "label", "delete"}, to \in Texts :
          /\ Changes(m, kind, to)
          /\ kind = "delete" <=> to = "none"
          /\ kind = "add" <=> Gone(m)
          /\ kind = "add" => m > NFirst /\ \A i \in 1 .. Len(log) : log[i].msg # m
  <2>1. CASE Arrive(m)
    <3>1. m > NFirst /\ Changes(m, "add", "off") /\ \A i \in 1 .. Len(log) : log[i].msg # m
      BY <2>1 DEF Arrive
    <3>2. Gone(m)
      BY <3>1, LogRecords, SyncConstants DEF Mailbox, Added, Mail
    <3> QED BY <3>1, <3>2 DEF Texts
  <2>2. CASE Relabel(m)
    BY <2>2 DEF Relabel, Gone, Texts
  <2>3. CASE Delete(m)
    BY <2>3 DEF Delete, Texts
  <2> QED BY <2>1, <2>2, <2>3
<1>2. /\ UNCHANGED <<cache, items, checkpoint, sync, reported>>
      /\ remote' = [remote EXCEPT ![m] = to] /\ remote'[m] = to
      /\ \A k \in Mail \ {m} : remote'[k] = remote[k]
  BY <1>1 DEF Changes, store, TypeOK
<1>3. /\ n \in Nat /\ Len(log') = n /\ DOMAIN log' = 1 .. n /\ DOMAIN log = 1 .. Len(log)
      /\ \A i \in 1 .. Len(log) : log'[i] = log[i] /\ log[i].msg \in Mail
      /\ log'[n].msg = m /\ log'[n].kind = kind
  BY <1>1, LogRecords DEF Changes, TypeOK
<1>4. \A k \in Mail : Added(k) => Added(k)'
  BY <1>3, LogRecords DEF Added
<1>5. ASSUME NEW p \in Nat, p <= Len(log), NEW k \in Mail,
             cache[k] = remote[k] \/ \E i \in p + 1 .. Len(log) : log[i].msg = k
      PROVE  cache'[k] = remote'[k] \/ \E i \in p + 1 .. Len(log') : log'[i].msg = k
  BY <1>2, <1>3, <1>5, LogRecords
<1>6. Mailbox'
  <2>1. ASSUME NEW i \in 1 .. n
        PROVE  /\ log'[i].kind = "delete" => remote'[log'[i].msg] = "none"
               /\ log'[i].kind = "add" => log'[i].msg > NFirst
    <3>1. CASE i = n
      BY <1>1, <1>2, <1>3, <3>1 DEF Gone
    <3>2. CASE i # n
      <4>1. i \in 1 .. Len(log)
        BY <1>3, <3>2, LogRecords
      <4>2. log[i].msg \in Mail /\ (log[i].kind = "delete" => Gone(log[i].msg)) /\ (log[i].kind = "add" => log[i].msg > NFirst)
        BY <1>3, <4>1 DEF Mailbox
      <4> QED BY <1>1, <1>2, <1>3, <4>1, <4>2 DEF Gone
    <3> QED BY <3>1, <3>2
  <2>2. ASSUME NEW k \in Mail, ~Gone(k)' \/ cache'[k] # "none"
        PROVE  k <= NFirst \/ Added(k)'
    BY <1>1, <1>2, <1>3, <1>4, <2>2, LogRecords DEF Mailbox, Gone, Added
  <2>3. \A i \in DOMAIN log' : /\ log'[i].kind = "delete" => remote'[log'[i].msg] = "none"
                               /\ log'[i].kind = "add" => log'[i].msg > NFirst
    BY <1>3, <2>1
  <2> HIDE DEF n
  <2> QED BY <2>2, <2>3 DEF Mailbox, Gone
<1>7. Listing'
  <2>1. Passed(m)' = Passed(m) /\ \A k \in Mail : Passed(k)' = Passed(k)
    BY <1>2 DEF Passed
  <2>2. sync.base \in Nat /\ sync.base <= Len(log)
    BY DEF TypeOK, SyncType, Phases
  <2>3. ASSUME NEW k \in Mail, At("list"), Passed(k), items[k] = "none", ~Gone(k)'
        PROVE  cache[k] = "none" /\ \E i \in sync.base + 1 .. Len(log') : log'[i].msg = k
    <3>1. CASE k = m
      <4>1. cache[k] = "none"
        <5>1. CASE Gone(m)
          <6>1. ~Added(m) /\ m > NFirst
            BY <1>1, <1>3, <5>1 DEF Added
          <6> QED BY <3>1, <6>1, SyncConstants DEF Mailbox, Mail
        <5>2. CASE ~Gone(m)
          BY <2>3, <3>1, <5>2 DEF Listing
        <5> QED BY <5>1, <5>2
      <4> QED BY <1>3, <2>2, <3>1, <4>1
    <3>2. CASE k # m
      <4>1. ~Gone(k)
        BY <1>2, <2>3, <3>2 DEF Gone
      <4> QED BY <1>3, <2>2, <2>3, <4>1, LogRecords DEF Listing
    <3> QED BY <3>1, <3>2
  <2> QED BY <1>2, <2>1, <2>3 DEF Listing, At
<1>8. Phases'
  <2>1. Len(log) <= Len(log') /\ Len(log) \in Nat /\ checkpoint.history \in Nat \cup {Null}
        /\ checkpoint.initial \in Nat \cup {Null} /\ sync.base \in Nat /\ sync.pos \in Nat
    BY <1>3, LogRecords DEF TypeOK, CheckpointType, SyncType
  <2>2. /\ checkpoint'.history <= Len(log') /\ checkpoint'.initial <= Len(log')
        /\ sync'.base <= Len(log') /\ sync'.pos <= Len(log')
    BY <1>2, <1>3, <2>1 DEF Phases, Null
  <2> QED BY <1>2, <2>2 DEF Phases, At, Listed, Reads
<1>9. CheckpointCovers'
  <2>1. checkpoint.history # Null => checkpoint.history \in Nat /\ checkpoint.history <= Len(log)
    BY CheckpointRecords DEF Phases, TypeOK
  <2> QED BY <1>2, <1>5, <2>1 DEF CheckpointCovers
<1>10. Inventoried'
  <2>1. checkpoint.complete => checkpoint.initial \in Nat /\ checkpoint.initial <= Len(log)
    BY CheckpointRecords DEF Phases, TypeOK
  <2> QED BY <1>2, <1>5, <2>1 DEF Inventoried, Covered, Unread
<1>11. ReadSoFar'
  <2>1. sync.pos \in Nat /\ sync.pos <= Len(log)
    BY DEF TypeOK, SyncType, Phases
  <2> QED BY <1>2, <1>5, <2>1 DEF ReadSoFar, Covered, Unread, Reads, At
<1>12. News'
  <2>1. Gone(m) => ~Added(m)
    BY <1>1, <1>3 DEF Added
  <2>2. ASSUME NEW k \in Mail, k \in sync.new \/ reported[k] # 0
        PROVE  cache[k] # "none" \/ Gone(k)'
    BY <1>1, <1>2, <2>1, <2>2 DEF News, Gone
  <2> QED BY <1>2, <1>4, <2>2 DEF News
<1> QED BY <1>6, <1>7, <1>8, <1>9, <1>10, <1>11, <1>12 DEF Rest

\* An inventory begins, or a complete one goes on.
LEMMA InventoryKeeps ==
    ASSUME IInv, TypeOK', NEW its \in [Mail -> ItemStates], NEW c \in CheckpointType, Inventory(its, c),
           UNCHANGED <<remote, log, cache, reported>>,
           \/ its = items /\ c = checkpoint /\ At("idle") /\ checkpoint.history = Null
           \/ its = NoItems /\ c.history \in {checkpoint.history, Null} /\ c.initial \in {checkpoint.initial, Null}
    PROVE  Rest'
<1> USE DEF IInv
<1> DEFINE known == \E m \in Mail : its[m] # "none"
           at == IF known THEN c ELSE Reset(c)
<1>1. /\ checkpoint' = at
      /\ items' = IF at.complete THEN [m \in Mail |-> IF its[m] = "givenUp" THEN "pending" ELSE its[m]] ELSE its
      /\ sync' = [Idle EXCEPT !.at = IF at.complete THEN "download" ELSE "list",
                              !.base = Len(log), !.page = at.token]
  BY DEF Inventory
<1>2. /\ sync'.at = IF at.complete THEN "download" ELSE "list"
      /\ sync'.base = Len(log) /\ sync'.pos = 0 /\ sync'.page = at.token
      /\ sync'.changed = {} /\ sync'.added = {} /\ sync'.new = {}
  BY <1>1 DEF Idle
<1>3. /\ at.history \in {checkpoint.history, Null} /\ at.initial \in {checkpoint.initial, Null}
      /\ at \in CheckpointType
  BY CheckpointRecords DEF Reset, CheckpointType
<1>4. at.complete => its = items /\ at = checkpoint
  <2>1. its = NoItems => ~known
    BY DEF NoItems
  <2> QED BY <2>1, CheckpointRecords DEF Reset, CheckpointType
<1>5. ~at.complete => at.token = 0 /\ \A m \in Mail : its[m] = "none"
  <2>1. known => at = checkpoint /\ Listed /\ At("idle") /\ checkpoint.history = Null
    BY DEF NoItems, Listed
  <2>2. ~at.complete => ~known
    BY <2>1, CheckpointRecords DEF Phases, At
  <2>3. ~known => at.token = 0
    BY DEF Reset, CheckpointType
  <2> QED BY <2>2, <2>3
<1> HIDE DEF at, known
<1>6. CacheMoves
  BY DEF CacheMoves
<1>7. Mailbox'
  BY <1>6, MailboxKept
<1>8. Listing'
  BY <1>1, <1>2, <1>5 DEF Listing, At, Passed
<1>9. Phases'
  <2>1. Len(log) \in Nat
    BY LogRecords
  <2> QED BY <1>1, <1>2, <1>3, <1>4, <2>1 DEF Phases, At, Reads, Null
<1>10. CheckpointCovers'
  BY <1>1, <1>3, <1>6, CheckpointKept
<1>11. Inventoried'
  <2>1. checkpoint'.complete => \A m \in Mail : Unread(m) => Unread(m)'
    BY <1>1, <1>4 DEF Unread
  <2> QED BY <1>1, <1>4, <1>6, <2>1 DEF Inventoried, CacheMoves, Covered
<1>12. ReadSoFar'
  BY <1>2 DEF ReadSoFar, Reads, At
<1>13. News'
  BY <1>2, NewsKept
<1> QED BY <1>7, <1>8, <1>9, <1>10, <1>11, <1>12, <1>13 DEF Rest

\* A page of the listing, and the end of it.
LEMMA ListKeeps ==
    ASSUME IInv, TypeOK', ListPage
    PROVE  Rest'
<1> USE DEF IInv
<1> DEFINE older == {m \in Mail : ~Gone(m) /\ (sync.page = 0 \/ m < sync.page)}
           page == IF older = {} THEN {} ELSE {Max(older)}
<1>1. /\ At("list") /\ UNCHANGED <<remote, log, reported>>
      /\ items' = [m \in Mail |-> IF m \in page /\ items[m] = "none" THEN "pending" ELSE items[m]]
      /\ older # page =>
           /\ checkpoint' = [checkpoint EXCEPT !.token = Max(older), !.initial = sync.base]
           /\ sync' = [sync EXCEPT !.page = Max(older)] /\ cache' = cache
      /\ older = page =>
           /\ checkpoint' = [checkpoint EXCEPT !.token = 0, !.initial = sync.base, !.complete = TRUE]
           /\ sync' = [sync EXCEPT !.at = "download"]
           /\ cache' = [m \in Mail |-> IF items'[m] = "none" THEN "none" ELSE cache[m]]
  BY DEF ListPage, SinceTheProfile, server
<1>2. page \subseteq older /\ older # page => older # {} /\ Max(older) \in page /\ Max(older) \in Mail /\ \A m \in older : m <= Max(older)
  BY Newest
<1>3. page \subseteq older
  BY Newest
<1>4. \A m \in Mail : ~Gone(m) /\ m \notin older => Passed(m)
  BY SyncConstants DEF Passed, TypeOK, SyncType, Mail
<1>5. /\ checkpoint \in CheckpointType /\ sync \in SyncType /\ sync.base \in Nat /\ sync.base <= Len(log)
      /\ Len(log) \in Nat /\ ~checkpoint.complete /\ checkpoint'.history = checkpoint.history
      /\ checkpoint'.initial = sync.base
  <2>1. checkpoint \in CheckpointType /\ sync \in SyncType /\ sync.base \in Nat /\ sync.base <= Len(log)
        /\ Len(log) \in Nat /\ ~checkpoint.complete
    BY <1>1, LogRecords DEF TypeOK, SyncType, Phases, Listing
  <2> HIDE DEF older, page
  <2>2. checkpoint'.history = checkpoint.history /\ checkpoint'.initial = sync.base
    BY <1>1, <2>1 DEF CheckpointType
  <2> QED BY <2>1, <2>2
<1> HIDE DEF older, page
<1>6. \A m \in Mail : items'[m] \in {"none", "pending"} /\ (items'[m] = "none" => items[m] = "none" /\ m \notin page)
  BY <1>1 DEF Listing
\* What is not listed at the end came meanwhile.
<1>7. ASSUME older = page, NEW m \in Mail, items'[m] = "none", ~Gone(m)
      PROVE  cache[m] = "none" /\ \E i \in sync.base + 1 .. Len(log) : log[i].msg = m
  BY <1>1, <1>4, <1>6, <1>7 DEF Listing
<1>8. \A m \in Mail : cache'[m] = cache[m] \/ (cache'[m] = "none" /\ Gone(m))
  BY <1>1, <1>7 DEF TypeOK
<1>9. CacheMoves
  BY <1>1, <1>8 DEF CacheMoves, Gone
<1>10. Mailbox'
  BY <1>9, MailboxKept
<1>11. Listing'
  <2>1. CASE older = page
    BY <1>1, <1>5, <2>1 DEF Listing, At, SyncType
  <2>2. CASE older # page
    <3>1. /\ sync'.page = Max(older) /\ sync'.base = sync.base /\ cache' = cache
          /\ checkpoint'.complete = checkpoint.complete
      BY <1>1, <1>5, <2>2 DEF SyncType, CheckpointType
    <3>2. ASSUME NEW m \in Mail, Max(older) <= m, items'[m] = "none", ~Gone(m)
          PROVE  cache[m] = "none" /\ \E i \in sync.base + 1 .. Len(log) : log[i].msg = m
      <4>1. m \notin older
        BY <1>2, <1>3, <1>6, <2>2, <3>2, SyncConstants DEF Mail
      <4> QED BY <1>1, <1>4, <1>6, <3>2, <4>1 DEF Listing
    <3>3. UNCHANGED <<remote, log>>
      BY <1>1
    <3> QED BY <1>5, <1>6, <3>1, <3>2, <3>3 DEF Listing, At, Passed, Gone
  <2> QED BY <2>1, <2>2
<1>12. sync'.base = sync.base /\ sync'.pos = sync.pos /\ sync'.purpose = sync.purpose
       /\ sync'.at \in {"list", "download"} /\ sync'.added = sync.added /\ sync'.new = sync.new
       /\ (sync'.at = "list" <=> older # page) /\ (checkpoint'.complete <=> older = page)
  <2>1. /\ sync \in SyncType /\ At("list")
        /\ checkpoint \in CheckpointType /\ ~checkpoint.complete
    BY <1>1, <1>5
  <2>2. older # page => /\ sync' = [sync EXCEPT !.page = Max(older)]
                        /\ checkpoint'.complete = checkpoint.complete
    BY <1>1, <2>1 DEF CheckpointType
  <2>3. older = page => sync' = [sync EXCEPT !.at = "download"] /\ checkpoint'.complete
    BY <1>1, <2>1 DEF CheckpointType
  <2> QED BY <2>1, <2>2, <2>3 DEF SyncType, At
<1>13. Phases'
  BY <1>1, <1>5, <1>12 DEF Phases, At, Reads, Null
<1>14. CheckpointCovers'
  BY <1>5, <1>9, CheckpointKept
<1>15. Inventoried'
  <2>1. ASSUME older = page, NEW m \in Mail
        PROVE  \/ cache'[m] = remote[m] \/ \E i \in sync.base + 1 .. Len(log) : log[i].msg = m
               \/ items'[m] = "pending"
    BY <1>1, <1>6, <1>7, <2>1 DEF Gone
  <2> QED BY <1>1, <1>5, <1>12, <2>1 DEF Inventoried, Covered, Unread
<1>16. ReadSoFar'
  BY <1>12 DEF ReadSoFar, Reads, At
<1>17. News'
  BY <1>1, <1>8, <1>12, NewsKept
<1> QED BY <1>10, <1>11, <1>13, <1>14, <1>15, <1>16, <1>17 DEF Rest

\* A message is stored, or found to be gone, or given up.
LEMMA DownloadKeeps ==
    ASSUME IInv, NEW m \in Mail, Download(m) \/ DownloadFails(m) \/ ScopeDownload(m)
    PROVE  Rest'
<1> USE DEF IInv
<1>1. /\ At("download") \/ At("scope")
      /\ UNCHANGED <<remote, log, checkpoint, reported>>
      /\ \A k \in Mail \ {m} : cache'[k] = cache[k] /\ items'[k] = items[k]
      /\ cache'[m] = remote[m] \/ (cache'[m] = cache[m] /\ (Unread(m) => Unread(m)'))
      /\ items[m] # "none"
  BY DEF Download, DownloadFails, ScopeDownload, Stores, server, Waiting, Unread, TypeOK, Gone
<1>2. \/ UNCHANGED sync
      \/ At("download") /\ sync' = [Idle EXCEPT !.at = "history", !.purpose = "catchUp",
                                                !.base = checkpoint.initial, !.pos = checkpoint.initial]
  BY DEF Download, DownloadFails, ScopeDownload, DownloadNext, History
<1>3. \/ UNCHANGED sync
      \/ /\ At("download") /\ sync'.at = "history" /\ sync'.purpose = "catchUp"
         /\ sync'.base = checkpoint.initial /\ sync'.pos = checkpoint.initial
         /\ sync'.changed = {} /\ sync'.added = {} /\ sync'.new = {}
  BY <1>2 DEF Idle
<1>4. CacheMoves
  BY <1>1 DEF CacheMoves
<1>5. Mailbox'
  BY <1>4, MailboxKept
<1>6. Listing'
  BY <1>1, <1>3 DEF Listing, At
<1>7. Phases'
  <2>1. Listed
    BY <1>1 DEF Listed
  <2>2. At("download") => checkpoint.complete
    BY DEF Phases
  <2>3. checkpoint.history = Null => checkpoint.complete
    BY <1>1, <2>1 DEF Phases, At
  <2>4. CASE UNCHANGED sync
    BY <1>1, <2>3, <2>4 DEF Phases, At, Reads
  <2>5. CASE sync'.at = "history" /\ At("download")
    BY <1>1, <1>3, <2>2, <2>5 DEF Phases, At, Reads
  <2> QED BY <1>3, <2>4, <2>5
<1>8. CheckpointCovers'
  BY <1>1, <1>4, CheckpointKept
<1>9. Inventoried'
  BY <1>1, <1>4, InventoriedKept DEF Unread
<1>10. ReadSoFar'
  <2>1. CASE UNCHANGED sync
    BY <1>1, <1>4, <2>1 DEF ReadSoFar, CacheMoves, Covered, Reads, At
  <2>2. CASE sync'.at = "history" /\ At("download")
    <3>1. checkpoint'.complete /\ checkpoint'.initial = sync'.pos
      BY <1>1, <1>3, <2>2 DEF Phases, At
    <3> QED BY <1>3, <1>9, <2>2, <3>1 DEF ReadSoFar, Inventoried, Covered, Unread, Reads, At
  <2> QED BY <1>3, <2>1, <2>2
<1>11. News'
  BY <1>1, <1>3, NewsKept DEF Gone
<1> QED BY <1>5, <1>6, <1>7, <1>8, <1>9, <1>10, <1>11 DEF Rest

\* The message that the history names is read.
LEMMA FetchKeeps ==
    ASSUME IInv, NEW m \in Mail, Fetch(m)
    PROVE  Rest'
<1> USE DEF IInv
<1>1. /\ At("fetch") /\ UNCHANGED <<remote, log, checkpoint, reported>>
      /\ \A k \in Mail \ {m} : cache'[k] = cache[k] /\ items'[k] = items[k]
      /\ cache'[m] = remote[m] /\ items'[m] # "pending"
  BY DEF Fetch, Stores, server, TypeOK, Gone
<1>2. /\ sync'.at = "fetch" /\ sync'.purpose = sync.purpose /\ sync'.base = sync.base /\ sync'.pos = sync.pos
      /\ sync'.changed = sync.changed \ {m} /\ sync'.added = sync.added
      /\ sync'.new = IF ~Gone(m) /\ IsNew(m) THEN sync.new \cup {m} ELSE sync.new
  BY DEF Fetch, At, TypeOK, SyncType
<1>3. CacheMoves
  BY <1>1 DEF CacheMoves
<1>4. Mailbox'
  BY <1>3, MailboxKept
<1>5. Listing'
  BY <1>2 DEF Listing, At
<1>6. Phases'
  <2>1. Reads /\ Reads'
    BY <1>1, <1>2 DEF Reads, At
  <2>2. checkpoint.history = Null => checkpoint.complete
    BY <2>1 DEF Phases
  <2> QED BY <1>1, <1>2, <2>1, <2>2 DEF Phases, At
<1>7. CheckpointCovers'
  BY <1>1, <1>3, CheckpointKept
<1>8. Inventoried'
  BY <1>1, <1>3, InventoriedKept DEF Unread
<1>9. ReadSoFar'
  BY <1>1, <1>2, <1>3 DEF ReadSoFar, CacheMoves, Covered, Unread, Reads, At
<1>10. News'
  <2>1. ASSUME NEW k \in Mail, k \in sync'.new \/ reported'[k] # 0
        PROVE  cache'[k] # "none" \/ Gone(k)'
    BY <1>1, <1>2, <1>3, <2>1 DEF News, CacheMoves, Gone, IsNew
  <2>2. ASSUME NEW k \in Mail, k \in sync'.new
        PROVE  reported[k] = 0 /\ Added(k)
    BY <1>2, <2>2 DEF News, Gone, IsNew
  <2>3. \A k : Added(k)' <=> Added(k)
    BY <1>1 DEF Added
  <2> QED BY <1>1, <1>2, <2>1, <2>2, <2>3 DEF News
<1> QED BY <1>4, <1>5, <1>6, <1>7, <1>8, <1>9, <1>10 DEF Rest

\* A page of the history.
LEMMA HistoryKeeps ==
    ASSUME IInv, NEW k \in 0 .. MaxChanges, HistoryPage(k)
    PROVE  Rest'
<1> USE DEF IInv
<1> DEFINE of(kind) == {r.msg : r \in {x \in Records(sync.pos, k) : x.kind = kind}}
<1>1. /\ At("history") /\ k \in sync.pos .. Len(log)
      /\ UNCHANGED <<remote, log, checkpoint, reported>>
      /\ \A m \in Mail : /\ m \in of("delete") => cache'[m] = "none" /\ items'[m] = "none"
                         /\ m \notin of("delete") => cache'[m] = cache[m] /\ (items'[m] = items[m] \/ (items'[m] = "pending" /\ m \in sync'.changed))
      /\ sync'.changed = (sync.changed \cup of("add") \cup of("label")) \ of("delete")
      /\ sync'.added = sync.added \cup of("add")
      /\ sync'.pos = k /\ sync'.base = sync.base /\ sync'.purpose = sync.purpose /\ sync'.new = sync.new
      /\ sync'.at \in {"history", "fetch"}
  BY DEF HistoryPage, server, TypeOK, SyncType, At
<1>2. k \in Nat /\ sync.pos \in Nat /\ sync.pos <= k /\ k <= Len(log) /\ Len(log) \in Nat
  BY <1>1, LogRecords, SyncConstants DEF TypeOK, SyncType
<1>3. \A m \in of("delete") : Gone(m)
  BY <1>2, LogRecords DEF Records, Mailbox
<1>4. \A m \in of("add") : Added(m)
  BY <1>2, LogRecords DEF Records, Added
<1>5. \A i \in sync.pos + 1 .. k : log[i].msg \in of("delete") \cup of("add") \cup of("label")
  BY <1>2, LogRecords DEF Records
<1> HIDE DEF of
<1>6. CacheMoves
  BY <1>1, <1>3 DEF CacheMoves, Gone
<1>7. Mailbox'
  BY <1>6, MailboxKept
<1>8. Listing'
  BY <1>1 DEF Listing, At
<1>9. Phases'
  <2>1. Reads /\ Reads'
    BY <1>1 DEF Reads, At
  <2>2. checkpoint.history = Null => checkpoint.complete
    BY <2>1 DEF Phases
  <2> QED BY <1>1, <1>2, <2>1, <2>2 DEF Phases, At
<1>10. CheckpointCovers'
  BY <1>1, <1>6, CheckpointKept
<1>11. \A m \in Mail : Unread(m) => Unread(m)' \/ cache'[m] = remote[m]
  BY <1>1, <1>3 DEF Unread, Gone
<1>12. Inventoried'
  BY <1>1, <1>6, <1>11, InventoriedKept
<1>13. ReadSoFar'
  <2>1. ASSUME NEW m \in Mail
        PROVE  m \in sync'.changed \/ Covered(m, k)' \/ (sync.purpose # "incremental" /\ Unread(m)')
    <3>1. CASE \E i \in sync.pos + 1 .. k : log[i].msg = m
      <4>1. CASE m \in of("delete")
        BY <1>1, <1>3, <4>1 DEF Covered, Gone
      <4> QED BY <1>1, <1>5, <3>1, <4>1
    <3>2. CASE ~ \E i \in sync.pos + 1 .. k : log[i].msg = m
      <4>1. CASE m \in of("delete")
        BY <1>1, <1>3, <4>1 DEF Covered, Gone
      <4>2. CASE m \notin of("delete") /\ Covered(m, sync.pos)
        BY <1>1, <1>2, <3>2, <4>2 DEF Covered
      <4>3. CASE m \notin of("delete") /\ ~Covered(m, sync.pos)
        <5>1. m \in sync.changed \/ (sync.purpose # "incremental" /\ Unread(m))
          BY <1>1, <4>3 DEF ReadSoFar, Reads, At
        <5> QED BY <1>1, <4>3, <5>1 DEF Unread
      <4> QED BY <4>1, <4>2, <4>3
    <3> QED BY <3>1, <3>2
  <2>2. ASSUME sync.purpose = "final", NEW m \in Mail, items'[m] = "pending" PROVE m \in sync'.changed
    BY <1>1, <2>2 DEF ReadSoFar, Reads, At
  <2> QED BY <1>1, <2>1, <2>2 DEF ReadSoFar, Reads, At, Covered, Unread
<1>14. News'
  BY <1>1, <1>3, <1>4, NewsKept
<1> QED BY <1>7, <1>8, <1>9, <1>10, <1>12, <1>13, <1>14 DEF Rest

\* All the history is read: the download goes on, or the synchronization ends
\* and saves how far it read.
LEMMA EndKeeps ==
    ASSUME IInv, TypeOK', CaughtUp \/ FullSyncEnds \/ IncrementalEnds
    PROVE  Rest'
<1> USE DEF IInv
<1>1. /\ UNCHANGED <<remote, log, cache, items>> /\ Report
      /\ sync'.at \in {"download", "idle"} /\ sync'.base = 0 /\ sync'.pos = 0
      /\ sync'.changed = {} /\ sync'.added = {} /\ sync'.new = {}
      /\ sync'.at = "download" => CaughtUp
  BY DEF CaughtUp, FullSyncEnds, IncrementalEnds, server, Idle
<1>2. /\ sync.pos \in Nat /\ sync.pos <= Len(log) /\ Len(log) \in Nat
      /\ checkpoint \in CheckpointType
  BY LogRecords DEF TypeOK, SyncType, Phases
<1>3. /\ checkpoint'.complete = checkpoint.complete
      /\ checkpoint'.history \in {checkpoint.history, sync.pos}
      /\ checkpoint'.initial = IF IncrementalEnds THEN checkpoint.initial ELSE sync.pos
  BY <1>2 DEF CaughtUp, FullSyncEnds, IncrementalEnds, CheckpointType, At
\* What is not given up and not yet read is covered by what was read.
<1>4. \A m \in Mail : Covered(m, sync.pos) \/ (FullSyncEnds /\ Unread(m)) \/ (CaughtUp /\ Unread(m))
  BY DEF CaughtUp, FullSyncEnds, IncrementalEnds, ReadSoFar, Reads, At
<1>5. checkpoint'.history # checkpoint.history => \A m \in Mail : Covered(m, sync.pos)
  <2>1. CASE FullSyncEnds /\ checkpoint'.history # checkpoint.history
    <3>1. ~ \E m \in Mail : items[m] \in {"failed", "givenUp"}
      BY <1>2, <2>1 DEF FullSyncEnds, CheckpointType
    <3>2. \A m \in Mail : items[m] # "pending"
      BY <2>1 DEF FullSyncEnds, ReadSoFar, Reads, At
    <3>3. ~CaughtUp
      BY <2>1 DEF FullSyncEnds, CaughtUp
    <3> QED BY <1>4, <3>1, <3>2, <3>3 DEF Unread
  <2>2. CASE CaughtUp
    BY <1>2, <2>2 DEF CaughtUp, CheckpointType
  <2>3. CASE IncrementalEnds
    BY <2>3 DEF IncrementalEnds, ReadSoFar, At
  <2> QED BY <2>1, <2>2, <2>3
<1>6. CacheMoves
  BY <1>1 DEF CacheMoves
<1>7. Mailbox'
  BY <1>6, MailboxKept
<1>8. Listing'
  BY <1>1 DEF Listing, At
<1>9. Phases'
  <2>1. At("fetch") \/ At("scope")
    BY DEF CaughtUp, FullSyncEnds, IncrementalEnds
  <2>2. checkpoint.history = Null => checkpoint.complete
    BY <2>1 DEF CaughtUp, FullSyncEnds, IncrementalEnds, Phases, Reads, At
  <2>3. CaughtUp => checkpoint.complete
    BY DEF CaughtUp, Phases, Reads, At
  <2>4. IncrementalEnds => checkpoint.history # Null
    BY DEF IncrementalEnds, Phases
  <2>5. checkpoint'.history = Null => checkpoint'.complete
    BY <1>2, <1>3, <2>2 DEF Null
  <2>6. checkpoint'.history <= Len(log) /\ checkpoint'.initial <= Len(log)
        /\ (checkpoint'.complete => checkpoint'.initial # Null)
    BY <1>2, <1>3 DEF Phases, Null
  <2> QED BY <1>1, <1>2, <1>3, <2>3, <2>5, <2>6 DEF Phases, At, Reads
<1>10. CheckpointCovers'
  BY <1>1, <1>3, <1>5 DEF CheckpointCovers, Covered
<1>11. Inventoried'
  <2>1. CASE IncrementalEnds
    BY <1>1, <1>3, <2>1 DEF Inventoried, Covered, Unread
  <2>2. CASE ~IncrementalEnds
    BY <1>1, <1>3, <1>4, <2>2 DEF Inventoried, Covered, Unread
  <2> QED BY <2>1, <2>2
<1>12. ReadSoFar'
  BY <1>1 DEF ReadSoFar, Reads, At
<1>13. News'
  <2>1. \A m \in Mail : reported'[m] = IF m \in sync.new THEN 1 ELSE reported[m]
    BY <1>1 DEF Report, News
  <2>2. \A k : Added(k)' <=> Added(k)
    BY <1>1 DEF Added
  <2> QED BY <1>1, <2>1, <2>2 DEF News, Gone
<1> QED BY <1>7, <1>8, <1>9, <1>10, <1>11, <1>12, <1>13 DEF Rest

\* The last catching up of a full synchronization, or an incremental one, begins.
LEMMA HistoryBegins ==
    ASSUME IInv, UNCHANGED <<remote, log, cache, items, checkpoint, reported>>,
           NEW purpose, NEW p \in {checkpoint.history, checkpoint.initial},
           sync' = [Idle EXCEPT !.at = "history", !.purpose = purpose, !.base = p, !.pos = p],
           \/ purpose = "incremental" /\ p = checkpoint.history /\ checkpoint.history # Null
           \/ purpose = "final" /\ p = checkpoint.initial /\ At("download") /\ Waiting = {}
    PROVE  Rest'
<1> USE DEF IInv
<1>1. /\ sync'.at = "history" /\ sync'.purpose = purpose /\ sync'.base = p /\ sync'.pos = p
      /\ sync'.changed = {} /\ sync'.added = {} /\ sync'.new = {}
  BY DEF Idle
<1>2. CacheMoves
  BY DEF CacheMoves
<1>3. Mailbox' /\ CheckpointCovers' /\ Inventoried'
  BY <1>2, MailboxKept, CheckpointKept, InventoriedKept DEF Unread
<1>4. Listing'
  BY <1>1 DEF Listing, At
<1>5. Phases'
  BY <1>1 DEF Phases, At, Reads, Listed
<1>6. ReadSoFar'
  BY <1>1 DEF ReadSoFar, CheckpointCovers, Inventoried, Phases, Covered, Unread, Waiting, Reads, At
<1>7. News'
  BY <1>1, NewsKept
<1> QED BY <1>3, <1>4, <1>5, <1>6, <1>7 DEF Rest

\* The other steps change at most where the synchronization stands.
LEMMA QuietKeeps ==
    ASSUME IInv, Disturbed \cap {"break", "rebuild"} = {},
           \/ Connect \/ ScopeBegins \/ Breaks \/ Expire \/ UNCHANGED vars
           \/ HistoryExpired /\ sync.purpose # "incremental"
    PROVE  Rest'
<1> USE DEF IInv
<1>1. UNCHANGED <<remote, log, cache, items, checkpoint, reported>>
  BY DEF Connect, ScopeBegins, Breaks, Expire, HistoryExpired, EndsInError, vars, server, store
<1>2. CacheMoves
  BY <1>1 DEF CacheMoves
<1>3. Mailbox' /\ CheckpointCovers' /\ Inventoried'
  BY <1>1, <1>2, MailboxKept, CheckpointKept, InventoriedKept DEF Unread
<1>4. CASE UNCHANGED sync
  <2>1. Listing' /\ Phases' /\ ReadSoFar'
    BY <1>1, <1>4 DEF Listing, Phases, ReadSoFar, At, Passed, Gone, Listed, Reads, Covered, Unread
  <2>2. News'
    BY <1>1, <1>4, NewsKept
  <2> QED BY <1>3, <2>1, <2>2 DEF Rest
<1>5. CASE Connect \/ Breaks \/ (HistoryExpired /\ sync.purpose # "incremental")
  <2>1. /\ sync'.at = "idle" /\ sync'.base = 0 /\ sync'.pos = 0
        /\ sync'.changed = {} /\ sync'.added = {} /\ sync'.new = {}
    BY <1>5 DEF Connect, Breaks, HistoryExpired, EndsInError, Idle
  <2>2. Listing' /\ ReadSoFar'
    BY <2>1 DEF Listing, ReadSoFar, Reads, At
  <2>3. At("list") => ~FirstInventoryRuns
    BY <1>5 DEF Connect, Breaks, HistoryExpired, FirstInventoryRuns, At
  <2>4. Phases'
    BY <1>1, <2>1, <2>3, LogRecords DEF Phases, At, Reads, Listed, FirstInventoryRuns
  <2>5. News'
    BY <1>1, <2>1, NewsKept
  <2> QED BY <1>3, <2>2, <2>4, <2>5 DEF Rest
<1>6. CASE ScopeBegins
  <2>1. /\ At("fetch") /\ sync.changed = {} /\ sync.purpose = "incremental"
        /\ sync'.at = "scope" /\ sync'.base = sync.base /\ sync'.pos = sync.pos
        /\ sync'.added = sync.added /\ sync'.new = sync.new
    BY <1>6 DEF ScopeBegins, At, TypeOK, SyncType
  <2>2. Listing' /\ ReadSoFar'
    BY <1>1, <2>1 DEF Listing, ReadSoFar, Reads, At, Covered
  <2>3. Phases'
    BY <1>1, <2>1 DEF Phases, At, Reads, Listed
  <2>4. News'
    BY <1>1, <2>1, NewsKept
  <2> QED BY <1>3, <2>2, <2>3, <2>4 DEF Rest
<1> QED BY <1>4, <1>5, <1>6 DEF Expire, vars

-----------------------------------------------------------------------------
(* The theorems.                                                           *)

LEMMA InitInv == Init => IInv
<1> SUFFICES ASSUME Init PROVE IInv
  OBVIOUS
<1>1. TypeOK
  <2>1. 0 \in 0..NMail /\ <<>> \in Seq(Record)
    BY SyncConstants
  <2>2. sync \in SyncType
    BY SyncRecords DEF Init
  <2>3. checkpoint \in CheckpointType
    BY <2>1 DEF Init, CheckpointType
  <2> QED BY <2>1, <2>2, <2>3 DEF Init, TypeOK, Texts, ItemStates
<1>2. sync.at = "none" /\ sync.base = 0 /\ sync.pos = 0 /\ sync.added = {} /\ sync.new = {}
  BY DEF Init, Idle
<1>3. Mailbox /\ Listing /\ ReadSoFar /\ News
  BY <1>2 DEF Init, Mailbox, Gone, Listing, ReadSoFar, Reads, News, At
<1>4. Phases
  BY <1>2 DEF Init, Phases, At, Reads, Listed, Null
<1>5. CheckpointCovers /\ Inventoried
  BY DEF Init, CheckpointCovers, Inventoried
<1> QED BY <1>1, <1>3, <1>4, <1>5 DEF IInv

LEMMA StepInv ==
    ASSUME Disturbed \cap {"break", "rebuild"} = {}, IInv, [Next]_vars
    PROVE  IInv'
<1>1. TypeOK'
  <2>1. CASE UNCHANGED vars
    BY <2>1 DEF IInv, TypeOK, vars
  <2> QED BY <2>1, TypeKept
<1>2. Starts \/ HistoryExpired \/ Rebuild => Rest'
  <2>1. /\ checkpoint \in CheckpointType /\ items \in [Mail -> ItemStates] /\ NoItems \in [Mail -> ItemStates]
        /\ Reset(checkpoint) \in CheckpointType
        /\ [Reset(checkpoint) EXCEPT !.history = Null, !.initial = Null] \in CheckpointType
    BY CheckpointRecords DEF IInv, TypeOK, NoItems, ItemStates
  <2>2. Starts => Rest'
    BY <1>1, <2>1, InventoryKeeps, HistoryBegins DEF Starts, History, server, IInv
  <2>3. ASSUME HistoryExpired, StartsOver PROVE Rest'
    BY <1>1, <2>1, <2>3, InventoryKeeps DEF HistoryExpired, StartsOver, server, Reset, CheckpointType
  <2>4. HistoryExpired => StartsOver \/ sync.purpose # "incremental"
    BY DEF HistoryExpired
  <2>5. ASSUME Rebuild PROVE Rest'
    <3>1. Inventory(NoItems, [Reset(checkpoint) EXCEPT !.history = Null, !.initial = Null])
      BY <2>5 DEF Rebuild
    <3> QED BY <1>1, <2>1, <2>5, <3>1, InventoryKeeps DEF Rebuild, server, Reset, CheckpointType
  <2> QED BY <2>2, <2>3, <2>4, <2>5, QuietKeeps
<1>3. Downloaded => Rest'
  BY HistoryBegins DEF Downloaded, History, server, store
<1>4. CASE Next
  <2>1. ASSUME NEW m \in Mail, Arrive(m) \/ Relabel(m) \/ Delete(m) \/ Download(m) \/ DownloadFails(m)
                               \/ ScopeDownload(m) \/ Fetch(m)
        PROVE  Rest'
    BY <2>1, ChangeKeeps, DownloadKeeps, FetchKeeps
  <2>2. ASSUME NEW k \in 0 .. MaxChanges, HistoryPage(k) PROVE Rest'
    BY <2>2, HistoryKeeps
  <2>3. ListPage \/ CaughtUp \/ FullSyncEnds \/ IncrementalEnds => Rest'
    BY <1>1, ListKeeps, EndKeeps
  <2>4. Connect \/ ScopeBegins \/ Breaks \/ Expire => Rest'
    BY QuietKeeps
  <2> QED BY <1>1, <1>2, <1>3, <1>4, <2>1, <2>2, <2>3, <2>4 DEF Next, SyncSteps, Rest, IInv
<1>5. CASE UNCHANGED vars
  BY <1>1, <1>5, QuietKeeps DEF Rest, IInv
<1> QED BY <1>4, <1>5

\* Every variable of the synchronization has its type, as long as no first
\* inventory is broken off and no rebuild comes in the middle of a synchronization.
THEOREM SyncTypeCorrect ==
    Disturbed \cap {"break", "rebuild"} = {} => (Spec => []TypeOK)
<1> SUFFICES ASSUME Disturbed \cap {"break", "rebuild"} = {} PROVE Spec => []TypeOK
  OBVIOUS
<1>1. IInv /\ [Next]_vars => IInv'
  BY StepInv
<1>2. IInv => TypeOK
  BY DEF IInv
<1> QED BY <1>1, <1>2, InitInv, PTL DEF Spec

\* The saved history checkpoint misses no change of the mailbox, and a message
\* is handed to rules and notifications as new at most once.
THEOREM SyncStaysSound ==
    Disturbed \cap {"break", "rebuild"} = {} => (Spec => []SyncIsSound)
<1> SUFFICES ASSUME Disturbed \cap {"break", "rebuild"} = {} PROVE Spec => []SyncIsSound
  OBVIOUS
<1>1. IInv /\ [Next]_vars => IInv'
  BY StepInv
\* Only what arrived was reported, and it arrived after the account was added.
<1>2. IInv => SyncIsSound
  <2> SUFFICES ASSUME IInv PROVE SyncIsSound
    OBVIOUS
  <2>1. ASSUME NEW m \in Mail PROVE reported[m] <= IF m > NFirst THEN 1 ELSE 0
    <3>1. reported[m] \in Nat /\ reported[m] <= 1 /\ (reported[m] # 0 => Added(m))
      BY DEF IInv, TypeOK, News
    <3>2. Added(m) => m > NFirst
      BY DEF IInv, Mailbox, Added
    <3> QED BY <3>1, <3>2
  <2> QED BY <2>1 DEF SyncIsSound, NewOnlyOnce, IInv
<1> QED BY <1>1, <1>2, InitInv, PTL DEF Spec
-----------------------------------------------------------------------------
(* Notes of a CalDAV server: the edits made here, moves, and reviews.      *)

NotesBounds == NNew \in Nat /\ NAddress \in Nat /\ NotesNFirst \in 0 .. NAddress
NotesCopies == {c \in [addr : Nat, text : Nat, rev : Nat] : c = Notes!NoCopy \/ c.addr \in Notes!Address}
NotesChanges == [action : {"none", "create", "update", "delete"}, status : {"none", "queued", "conflict", "failed"}, text : Nat,
                 base : NotesCopies, planned : Nat, server : NotesCopies, gone : BOOLEAN, due : BOOLEAN,
                 source : 0 .. NNew + NAddress]
NotesWorks == [at : {"idle", "flush", "send", "fetch", "pull"}, note : Nat, sent : NotesChanges, todo : SUBSET Notes!Notes, pull : BOOLEAN]
NotesTypeOK ==
    /\ notesServer \in [Notes!Address -> [text : Nat, rev : Nat]] /\ record \in [Notes!Notes -> NotesCopies]
    /\ op \in [Notes!Notes -> NotesChanges] /\ work \in NotesWorks
    /\ moving \in SUBSET Notes!Notes /\ texts \in Nat /\ origin \in [Notes!Address -> Nat] /\ owed \in [Notes!Notes -> Nat]

\* A note made here has an address of its own.
NotesTaken(n) == n \in Notes!New => \E a \in Notes!Address : origin[a] = n

\* A change is whole, and a creation that reached the server owes nothing: its
\* text cannot be replaced before the server is known to have it.
NotesFormed(n) ==
    /\ op[n].action = "none" => op[n] = Notes!NoOp
    /\ op[n].action = "create" => /\ op[n].planned \in Notes!Address /\ origin[op[n].planned] = n
                                  /\ notesServer[op[n].planned].text # 0 => owed[n] = 0
    /\ op[n].action \in {"update", "delete"} => op[n].base # Notes!NoCopy
    /\ op[n] # Notes!NoOp \/ record[n] # Notes!NoCopy => NotesTaken(n)
NotesKept(n) == owed[n] # 0 => op[n].action \in {"create", "update"} /\ op[n].text = owed[n]

\* A note that is being moved has no change, and one copy only.
NotesLed(n) ==
         /\ Notes!BeingMoved(n) => op[n] = Notes!NoOp /\ owed[n] = 0 /\ NotesTaken(n)
         /\ n \in moving => \A m \in Notes!Notes : op[m].source # n
         /\ \A m \in Notes!Notes : op[m].source = op[n].source /\ op[m].source # 0 => m = n

\* The change whose request is awaited is the one in the queue.
NotesSent == Notes!At("send") \/ Notes!At("fetch") => work.note \in Notes!Notes /\ work.sent = op[work.note] /\ Notes!Queued(work.note)
NotesPlaced == \A a \in Notes!Address : notesServer[a].text # 0 => origin[a] # 0

NotesIInv == NotesBounds /\ NotesTypeOK /\ NotesSent /\ NotesPlaced /\ \A n \in Notes!Notes : NotesFormed(n) /\ NotesKept(n) /\ NotesLed(n)

\* Addresses stay with the note they were planned for.
NotesGrows == \A a \in Notes!Address : origin[a] # 0 => origin'[a] = origin[a]

LEMMA NotesFirst ==
    ASSUME NEW S \in SUBSET Nat, S # {}
    PROVE  Notes!Min(S) \in S
<1> DEFINE Less == {ss \in Nat \X Nat : ss[1] < ss[2]}
<1>1. IsWellFoundedOn(Less, Nat)
  BY NatLessThanWellFounded DEF OpToRel
<1>2. PICK x \in S : \A y \in S : ~ (<<y, x>> \in Less)
  BY <1>1, WFMin, Zenon
<1>3. ASSUME NEW y \in S PROVE x <= y
  <2>1. ~ (<<y, x>> \in Less)
    BY <1>2
  <2>2. ~ (y < x)
    BY <2>1
  <2> QED BY <2>2
<1> QED BY <1>3 DEF Notes!Min

LEMMA NotesLiterals ==
    ASSUME NotesBounds
    PROVE  Notes!NoCopy \in NotesCopies /\ Notes!NoOp \in NotesChanges /\ Notes!Idle \in NotesWorks
<1>1. Notes!NoCopy \in NotesCopies
  BY DEF Notes!NoCopy, NotesCopies
<1>2. Notes!NoOp \in NotesChanges
  BY <1>1 DEF Notes!NoOp, NotesChanges, NotesBounds
<1> QED BY <1>1, <1>2 DEF Notes!Idle, NotesWorks

LEMMA NotesIds ==
    ASSUME NotesBounds
    PROVE  /\ Notes!Notes \subseteq Nat \ {0} /\ Notes!New \subseteq Notes!Notes /\ Notes!Address \subseteq Nat \ {0}
           /\ 0 .. NNew + NAddress = {0} \cup Notes!Notes
           /\ \A a \in Notes!Address : Notes!RemoteNoteId(a) \in Notes!Notes \ Notes!New
BY DEF NotesBounds, Notes!Notes, Notes!New, Notes!Address, Notes!RemoteNoteId

LEMMA NotesCopyTyped ==
    ASSUME NotesTypeOK, NotesBounds, NEW a \in Notes!Address
    PROVE  Notes!CopyAt(a) \in NotesCopies
<1>1. notesServer[a].text \in Nat /\ notesServer[a].rev \in Nat /\ a \in Nat
  BY NotesIds DEF NotesTypeOK
<1>2. CASE notesServer[a].text = 0
  BY <1>2, NotesLiterals DEF Notes!CopyAt
<1>3. CASE notesServer[a].text # 0
  <2>1. [addr |-> a, text |-> notesServer[a].text, rev |-> notesServer[a].rev] \in NotesCopies
    BY <1>1 DEF NotesCopies
  <2> QED BY <1>3, <2>1 DEF Notes!CopyAt
<1> QED BY <1>2, <1>3

LEMMA NotesDrawn ==
    ASSUME NotesBounds, NEW text \in Nat, NEW a \in Nat, NEW b \in 0 .. NNew + NAddress
    PROVE  /\ Notes!CreateOp(text, a, b) \in NotesChanges
           /\ Notes!CreateOp(text, a, b).action = "create" /\ Notes!CreateOp(text, a, b).planned = a
           /\ Notes!CreateOp(text, a, b).text = text /\ Notes!CreateOp(text, a, b).source = b
BY NotesLiterals DEF Notes!CreateOp, Notes!NoOp, NotesChanges

LEMMA NotesRedone ==
    ASSUME NEW c \in NotesChanges
    PROVE  /\ \A b \in BOOLEAN : [c EXCEPT !.due = b] \in NotesChanges
           /\ [c EXCEPT !.status = "failed"] \in NotesChanges
           /\ \A t \in Nat : [c EXCEPT !.text = t, !.due = TRUE] \in NotesChanges
           /\ [c EXCEPT !.action = "delete", !.text = 0, !.due = TRUE] \in NotesChanges
           /\ \A x \in NotesCopies, b \in BOOLEAN : [c EXCEPT !.status = "conflict", !.server = x, !.gone = b] \in NotesChanges
BY DEF NotesChanges

LEMMA NotesParts ==
    ASSUME NEW c \in NotesChanges
    PROVE  /\ c.action \in {"none", "create", "update", "delete"} /\ c.text \in Nat /\ c.base \in NotesCopies
           /\ c.planned \in Nat /\ c.server \in NotesCopies /\ c.gone \in BOOLEAN /\ c.source \in 0 .. NNew + NAddress
BY DEF NotesChanges

LEMMA NotesBusyOps ==
    ASSUME NotesIInv, NEW n \in Notes!Notes, op[n].status # "none"
    PROVE  op[n] # Notes!NoOp /\ op[n].action \in {"create", "update", "delete"} /\ ~Notes!BeingMoved(n) /\ NotesTaken(n)
BY NotesParts DEF NotesIInv, NotesTypeOK, NotesFormed, NotesLed, Notes!NoOp

LEMMA NotesMovedOps ==
    ASSUME NotesIInv, NEW n \in Notes!Notes, Notes!BeingMoved(n)
    PROVE  op[n] = Notes!NoOp /\ owed[n] = 0 /\ NotesTaken(n)
BY DEF NotesIInv, NotesLed

LEMMA NotesAwaited ==
    ASSUME NotesIInv, Notes!At("send") \/ Notes!At("fetch")
    PROVE  /\ work.note \in Notes!Notes /\ work.sent = op[work.note] /\ Notes!Queued(work.note)
           /\ op[work.note] # Notes!NoOp /\ op[work.note].action \in {"create", "update", "delete"}
           /\ ~Notes!BeingMoved(work.note) /\ NotesTaken(work.note) /\ Notes!Target \in Notes!Address
<1>1. work.note \in Notes!Notes /\ work.sent = op[work.note] /\ Notes!Queued(work.note)
  BY DEF NotesIInv, NotesSent
<1>2. op[work.note] # Notes!NoOp /\ op[work.note].action \in {"create", "update", "delete"} /\ ~Notes!BeingMoved(work.note) /\ NotesTaken(work.note)
  BY <1>1, NotesBusyOps DEF Notes!Queued
<1>3. Notes!Target \in Notes!Address
  <2>1. NotesFormed(work.note) /\ op[work.note] \in NotesChanges
    BY <1>1 DEF NotesIInv, NotesTypeOK
  <2>2. op[work.note].base \in NotesCopies
    BY <2>1, NotesParts
  <2>3. CASE op[work.note].action = "create"
    BY <2>1, <2>3, <1>1 DEF NotesFormed, Notes!Target
  <2>4. CASE op[work.note].action # "create"
    <3>1. op[work.note].base # Notes!NoCopy
      BY <2>1, <2>4, <1>2 DEF NotesFormed
    <3> QED BY <3>1, <2>2, <2>4, <1>1 DEF Notes!Target, NotesCopies
  <2> QED BY <2>3, <2>4
<1> QED BY <1>1, <1>2, <1>3

\* What the server does to one change.
LEMMA NotesServed ==
    ASSUME NotesIInv, Notes!At("send"), Notes!ServerDoes
    PROVE  /\ notesServer' \in [Notes!Address -> [text : Nat, rev : Nat]] /\ owed' \in [Notes!Notes -> Nat]
           /\ \A n \in Notes!Notes : owed'[n] \in {0, owed[n]}
           /\ \A n \in Notes!Notes \ {work.note} : owed'[n] = owed[n]
           /\ \A n \in Notes!Notes : op[n].action = "create" /\ notesServer'[op[n].planned].text # 0
                                         => notesServer[op[n].planned].text # 0 \/ owed'[n] = 0
           /\ \A a \in Notes!Address : notesServer'[a].text # 0 => origin[a] # 0
           /\ ~Notes!Refuses => owed'[work.note] = 0
<1> DEFINE k == work.note
           o == op[k]
<1>1. /\ k \in Notes!Notes /\ work.sent = o /\ o.action \in {"create", "update", "delete"} /\ Notes!Target \in Notes!Address
  BY NotesAwaited
<1>2. NotesTypeOK /\ NotesPlaced /\ NotesFormed(k) /\ NotesKept(k) /\ NotesBounds
  BY <1>1 DEF NotesIInv
<1>3. o \in NotesChanges /\ notesServer[Notes!Target] \in [text : Nat, rev : Nat]
  BY <1>1, <1>2 DEF NotesTypeOK
<1>4. o.text \in Nat /\ notesServer[Notes!Target].rev + 1 \in Nat
  BY <1>3, NotesParts
<1>5. notesServer' = IF Notes!AsIs THEN notesServer ELSE [notesServer EXCEPT ![Notes!Target] = [text |-> o.text, rev |-> notesServer[Notes!Target].rev + 1]]
  BY <1>1 DEF Notes!ServerDoes
<1>6. notesServer' \in [Notes!Address -> [text : Nat, rev : Nat]]
  <2>1. [text |-> o.text, rev |-> notesServer[Notes!Target].rev + 1] \in [text : Nat, rev : Nat]
    BY <1>4
  <2> QED BY <2>1, <1>2, <1>5 DEF NotesTypeOK
<1>7. owed' = [owed EXCEPT ![k] = IF notesServer'[Notes!Target].text = owed[k] THEN 0 ELSE owed[k]]
  BY DEF Notes!ServerDoes
<1>8. /\ owed' \in [Notes!Notes -> Nat]
      /\ \A n \in Notes!Notes : owed'[n] \in {0, owed[n]}
      /\ \A n \in Notes!Notes \ {k} : owed'[n] = owed[n]
  BY <1>7, <1>2, <1>1 DEF NotesTypeOK
<1>9. \A a \in Notes!Address : a # Notes!Target \/ Notes!AsIs => notesServer'[a] = notesServer[a]
  BY <1>5, <1>2 DEF NotesTypeOK
<1>10. ~Notes!AsIs => notesServer'[Notes!Target].text = o.text
  BY <1>5, <1>2, <1>1 DEF NotesTypeOK
<1>11. o.action = "create" => Notes!Target = o.planned /\ origin[Notes!Target] = k /\ ~Notes!Refuses
  BY <1>1, <1>2 DEF NotesFormed, Notes!Target, Notes!Refuses
<1>12. o.action # "create" /\ ~Notes!AsIs => notesServer[Notes!Target].text # 0
  BY <1>1 DEF Notes!AsIs, Notes!Refuses, Notes!Exists
<1>13. ~Notes!Refuses => owed'[k] = 0
  <2>1. CASE owed[k] = 0
    BY <2>1, <1>8, <1>1
  <2>2. CASE owed[k] # 0
    <3> SUFFICES ASSUME ~Notes!Refuses PROVE owed'[k] = 0
      OBVIOUS
    <3>1. o.action \in {"create", "update"} /\ o.text = owed[k]
      BY <2>2, <1>2 DEF NotesKept
    <3>2. ~Notes!AsIs
      BY <3>1, <2>2, <1>1, <1>2, <1>11 DEF Notes!AsIs, NotesFormed, Notes!Exists
    <3>3. notesServer'[Notes!Target].text = owed[k]
      BY <3>1, <3>2, <1>10
    <3> QED BY <3>3, <1>7, <1>1, <1>2 DEF NotesTypeOK
  <2> QED BY <2>1, <2>2
<1>14. ASSUME NEW a \in Notes!Address, notesServer'[a].text # 0 PROVE notesServer[a].text # 0 \/ (a = Notes!Target /\ o.action = "create")
  BY <1>14, <1>9, <1>12
<1>15. \A a \in Notes!Address : notesServer'[a].text # 0 => origin[a] # 0
  <2> SUFFICES ASSUME NEW a \in Notes!Address, notesServer'[a].text # 0 PROVE origin[a] # 0
    OBVIOUS
  <2>1. notesServer[a].text # 0 \/ (a = Notes!Target /\ o.action = "create")
    BY <1>14
  <2>2. k # 0
    BY <1>1, <1>2, NotesIds
  <2> QED BY <2>1, <2>2, <1>11, <1>2 DEF NotesPlaced
<1>16. ASSUME NEW n \in Notes!Notes, op[n].action = "create", notesServer'[op[n].planned].text # 0
       PROVE  notesServer[op[n].planned].text # 0 \/ owed'[n] = 0
  <2>1. op[n].planned \in Notes!Address /\ origin[op[n].planned] = n
    BY <1>16 DEF NotesIInv, NotesFormed
  <2>2. notesServer[op[n].planned].text # 0 \/ (op[n].planned = Notes!Target /\ o.action = "create")
    BY <2>1, <1>14, <1>16
  <2>3. CASE op[n].planned = Notes!Target /\ o.action = "create"
    BY <2>1, <2>3, <1>11, <1>13
  <2> QED BY <2>2, <2>3
<1> QED BY <1>6, <1>8, <1>13, <1>15, <1>16

\* A note whose change stays the one it was.
LEMMA NotesStays ==
    ASSUME NotesIInv, NotesGrows, NEW n \in Notes!Notes,
           op'[n].action = op[n].action, op'[n].planned = op[n].planned, op'[n].text = op[n].text,
           op[n].base # Notes!NoCopy => op'[n].base # Notes!NoCopy,
           op[n].action = "none" => op'[n] = op[n],
           owed'[n] \in {0, owed[n]},
           op[n].action = "create" /\ notesServer'[op[n].planned].text # 0 => notesServer[op[n].planned].text # 0 \/ owed'[n] = 0,
           record'[n] # Notes!NoCopy => record[n] # Notes!NoCopy \/ op[n] # Notes!NoOp \/ NotesTaken(n)
    PROVE  NotesFormed(n)' /\ NotesKept(n)'
<1>1. NotesFormed(n) /\ NotesKept(n) /\ n # 0
  BY NotesIds DEF NotesIInv
<1>2. NotesTaken(n) => NotesTaken(n)'
  BY <1>1 DEF NotesTaken, NotesGrows
<1>3. op'[n].action = "none" => op'[n] = Notes!NoOp
  BY <1>1 DEF NotesFormed
<1>4. op'[n].action = "create" => /\ op'[n].planned \in Notes!Address /\ origin'[op'[n].planned] = n
                                  /\ notesServer'[op'[n].planned].text # 0 => owed'[n] = 0
  BY <1>1 DEF NotesFormed, NotesGrows
<1>5. op'[n].action \in {"update", "delete"} => op'[n].base # Notes!NoCopy
  BY <1>1 DEF NotesFormed
<1>6. op'[n] # Notes!NoOp => op[n] # Notes!NoOp
  BY DEF Notes!NoOp
<1>7. op'[n] # Notes!NoOp \/ record'[n] # Notes!NoCopy => NotesTaken(n)'
  BY <1>6, <1>2, <1>1 DEF NotesFormed
<1>8. NotesKept(n)'
  BY <1>1 DEF NotesKept
<1> QED BY <1>3, <1>4, <1>5, <1>7, <1>8 DEF NotesFormed

\* A note whose change is over.
LEMMA NotesEnds ==
    ASSUME NotesIInv, NotesGrows, NEW n \in Notes!Notes, op'[n] = Notes!NoOp, owed'[n] = 0,
           record'[n] # Notes!NoCopy => record[n] # Notes!NoCopy \/ op[n] # Notes!NoOp \/ NotesTaken(n)
    PROVE  NotesFormed(n)' /\ NotesKept(n)'
<1>1. NotesFormed(n) /\ n # 0
  BY NotesIds DEF NotesIInv
<1>2. NotesTaken(n) => NotesTaken(n)'
  BY <1>1 DEF NotesTaken, NotesGrows
<1>3. record'[n] # Notes!NoCopy => NotesTaken(n)'
  BY <1>1, <1>2 DEF NotesFormed
<1> QED BY <1>3 DEF NotesFormed, NotesKept, Notes!NoOp

\* A note that is deleted from now on.
LEMMA NotesGoes ==
    ASSUME NotesIInv, NotesGrows, NEW n \in Notes!Notes, op'[n].action = "delete", op'[n].base # Notes!NoCopy, owed'[n] = 0, NotesTaken(n)
    PROVE  NotesFormed(n)' /\ NotesKept(n)'
<1>1. n # 0
  BY NotesIds DEF NotesIInv
<1>2. NotesTaken(n)'
  BY <1>1 DEF NotesTaken, NotesGrows
<1> QED BY <1>2 DEF NotesFormed, NotesKept

\* A note with a new creation.
LEMMA NotesBegins ==
    ASSUME NEW n \in Notes!Notes, NEW a \in Notes!Address, op'[n].action = "create", op'[n].planned = a, origin'[a] = n,
           op'[n].text = owed'[n] \/ owed'[n] = 0, notesServer'[a].text = 0
    PROVE  NotesFormed(n)' /\ NotesKept(n)'
<1>1. NotesTaken(n)'
  BY DEF NotesTaken
<1> QED BY <1>1 DEF NotesFormed, NotesKept

LEMMA NotesLedStep ==
    ASSUME NotesIInv, NotesGrows, moving' \subseteq moving, \A m \in Notes!Notes : op'[m].source \in {0, op[m].source},
           \A n \in Notes!Notes : Notes!BeingMoved(n) /\ Notes!BeingMoved(n)' => op'[n] = Notes!NoOp /\ owed'[n] = 0
    PROVE  \A n \in Notes!Notes : NotesLed(n)'
<1> SUFFICES ASSUME NEW n \in Notes!Notes PROVE NotesLed(n)'
  OBVIOUS
<1>1. NotesLed(n) /\ n # 0
  BY NotesIds DEF NotesIInv
<1>2. Notes!BeingMoved(n)' => Notes!BeingMoved(n)
  BY <1>1 DEF Notes!BeingMoved
<1>3. NotesTaken(n) => NotesTaken(n)'
  BY <1>1 DEF NotesTaken, NotesGrows
<1>4. Notes!BeingMoved(n)' => op'[n] = Notes!NoOp /\ owed'[n] = 0 /\ NotesTaken(n)'
  BY <1>1, <1>2, <1>3 DEF NotesLed
<1>5. n \in moving' => \A m \in Notes!Notes : op'[m].source # n
  BY <1>1 DEF NotesLed
<1>6. \A m \in Notes!Notes : op'[m].source = op'[n].source /\ op'[m].source # 0 => m = n
  BY <1>1 DEF NotesLed
<1> QED BY <1>4, <1>5, <1>6 DEF NotesLed

\* What a new note is made of.
LEMMA NotesFreshNote ==
    ASSUME NotesIInv, Notes!Fresh # {}
    PROVE  /\ Notes!Min(Notes!Fresh) \in Notes!Notes /\ op[Notes!Min(Notes!Fresh)] = Notes!NoOp /\ record[Notes!Min(Notes!Fresh)] = Notes!NoCopy
           /\ ~NotesTaken(Notes!Min(Notes!Fresh)) /\ ~Notes!BeingMoved(Notes!Min(Notes!Fresh)) /\ Notes!Min(Notes!Fresh) # 0
<1>1. Notes!Fresh \in SUBSET Nat /\ Notes!New \subseteq Notes!Notes /\ Notes!Fresh \subseteq Notes!New
  BY NotesIds DEF NotesIInv, Notes!Fresh
<1>2. Notes!Min(Notes!Fresh) \in Notes!Fresh
  BY <1>1, NotesFirst
<1>3. Notes!Min(Notes!Fresh) \in Notes!New /\ op[Notes!Min(Notes!Fresh)] = Notes!NoOp /\ record[Notes!Min(Notes!Fresh)] = Notes!NoCopy /\ \A a \in Notes!Address : origin[a] # Notes!Min(Notes!Fresh)
  BY <1>2 DEF Notes!Fresh
<1>4. ~NotesTaken(Notes!Min(Notes!Fresh))
  BY <1>3 DEF NotesTaken
<1> QED BY <1>1, <1>3, <1>4, NotesMovedOps, NotesIds DEF NotesIInv

LEMMA NotesFreeAddress ==
    ASSUME NotesIInv, Notes!Unplanned # {}
    PROVE  Notes!Min(Notes!Unplanned) \in Notes!Address /\ origin[Notes!Min(Notes!Unplanned)] = 0 /\ notesServer[Notes!Min(Notes!Unplanned)].text = 0
<1>1. Notes!Unplanned \in SUBSET Nat
  BY NotesIds DEF NotesIInv, Notes!Unplanned
<1>2. Notes!Min(Notes!Unplanned) \in Notes!Unplanned
  BY <1>1, NotesFirst
<1> QED BY <1>2 DEF Notes!Unplanned, NotesIInv, NotesPlaced

LEMMA NotesInitInv ==
    ASSUME NotesBounds, Notes!Init
    PROVE  NotesIInv
<1>1. NotesTypeOK
  <2>1. notesServer \in [Notes!Address -> [text : Nat, rev : Nat]]
    BY NotesIds DEF Notes!Init
  <2>2. \A a \in Notes!Address : Notes!CopyAt(a) \in NotesCopies
    <3> SUFFICES ASSUME NEW a \in Notes!Address PROVE Notes!CopyAt(a) \in NotesCopies
      OBVIOUS
    <3>1. notesServer[a].text \in Nat /\ notesServer[a].rev \in Nat /\ a \in Nat
      BY <2>1, NotesIds
    <3> QED BY <3>1, NotesLiterals DEF Notes!CopyAt, NotesCopies
  <2>3. record \in [Notes!Notes -> NotesCopies]
    <3>1. \A n \in Notes!Notes : (\E a \in 1..NotesNFirst : n = Notes!RemoteNoteId(a)) => n - NNew \in Notes!Address
      BY DEF NotesBounds, Notes!Address, Notes!RemoteNoteId
    <3> QED BY <2>2, <3>1, NotesLiterals DEF Notes!Init
  <2>4. op \in [Notes!Notes -> NotesChanges] /\ work \in NotesWorks /\ moving \in SUBSET Notes!Notes /\ texts \in Nat
    BY NotesLiterals DEF Notes!Init, NotesBounds
  <2>5. origin \in [Notes!Address -> Nat] /\ owed \in [Notes!Notes -> Nat]
    BY NotesIds DEF Notes!Init
  <2> QED BY <2>1, <2>3, <2>4, <2>5 DEF NotesTypeOK
<1>2. \A n \in Notes!Notes : op[n] = Notes!NoOp /\ owed[n] = 0 /\ ~Notes!BeingMoved(n)
  BY NotesIds DEF Notes!Init, Notes!BeingMoved, Notes!NoOp
<1>3. \A n \in Notes!Notes : record[n] # Notes!NoCopy => NotesTaken(n)
  BY NotesIds DEF Notes!Init, NotesTaken, NotesBounds, Notes!Address, Notes!RemoteNoteId, Notes!New
<1>4. \A n \in Notes!Notes : NotesFormed(n) /\ NotesKept(n)
  <2>1. Notes!NoOp.action = "none"
    BY DEF Notes!NoOp
  <2> QED BY <2>1, <1>2, <1>3 DEF NotesFormed, NotesKept
<1>5. \A n \in Notes!Notes : NotesLed(n)
  BY <1>2 DEF NotesLed, Notes!BeingMoved, Notes!NoOp
<1>6. NotesSent /\ NotesPlaced
  BY NotesIds DEF Notes!Init, NotesSent, NotesPlaced, Notes!At, Notes!Idle, Notes!Address, NotesBounds
<1> QED BY <1>1, <1>4, <1>5, <1>6 DEF NotesIInv

\* A step of the pass or of the clock that leaves the notes alone.
LEMMA NotesWorkStep ==
    ASSUME NotesIInv, UNCHANGED <<notesServer, record, op, moving, texts, origin, owed>>, work' \in NotesWorks, NotesSent'
    PROVE  NotesIInv'
BY DEF NotesIInv, NotesTypeOK, NotesFormed, NotesKept, NotesLed, NotesTaken, Notes!BeingMoved, NotesPlaced

LEMMA NotesFlushTyped ==
    ASSUME NotesBounds, NEW ops, NEW b \in BOOLEAN
    PROVE  Notes!Flush(ops, b) \in NotesWorks /\ Notes!Flush(ops, b).at = "flush"
<1>1. {n \in Notes!Notes : ops[n].status = "queued"} \in SUBSET Notes!Notes
  OBVIOUS
<1> QED BY <1>1, NotesLiterals DEF Notes!Flush, Notes!Idle, NotesWorks

LEMMA NotesWorkSteady ==
    ASSUME NotesIInv, UNCHANGED <<notesServer, record, op, moving, texts, origin, owed>>,
           \/ Notes!PassBegins(TRUE) \/ Notes!PassBegins(FALSE) \/ \E n \in Notes!Notes : Notes!SendBegins(n)
           \/ Notes!PassEnds \/ Notes!PutOff \/ Notes!PullFails
    PROVE  NotesIInv'
<1>1. work \in NotesWorks /\ op \in [Notes!Notes -> NotesChanges] /\ NotesBounds
  BY DEF NotesIInv, NotesTypeOK
<1>2. ASSUME NEW b \in BOOLEAN, Notes!PassBegins(b) PROVE work' \in NotesWorks /\ NotesSent'
  BY <1>1, <1>2, NotesFlushTyped DEF Notes!PassBegins, NotesSent, Notes!At
<1>3. ASSUME NEW n \in Notes!Notes, Notes!SendBegins(n) PROVE work' \in NotesWorks /\ NotesSent'
  <2>1. op[n] \in NotesChanges /\ n \in Nat /\ work.todo \ {n} \in SUBSET Notes!Notes
    BY <1>1, NotesIds DEF NotesWorks
  <2>2. work' = [work EXCEPT !.at = "send", !.note = n, !.sent = op[n], !.todo = work.todo \ {n}] /\ Notes!Queued(n)
    BY <1>3 DEF Notes!SendBegins, Notes!Sendable
  <2>3. work' \in NotesWorks
    BY <2>1, <2>2, <1>1 DEF NotesWorks
  <2>4. work'.note = n /\ work'.sent = op[n]
    BY <2>2, <1>1 DEF NotesWorks
  <2> QED BY <2>2, <2>3, <2>4 DEF NotesSent, Notes!Queued
<1>4. ASSUME Notes!PassEnds \/ Notes!PutOff \/ Notes!PullFails PROVE work' \in NotesWorks /\ NotesSent'
  <2>1. Notes!AfterPass \in NotesWorks /\ Notes!Idle \in NotesWorks /\ Notes!AfterPass.at \in {"pull", "idle"} /\ Notes!Idle.at = "idle"
    BY <1>1, NotesLiterals DEF Notes!AfterPass, Notes!Idle, NotesWorks
  <2> QED BY <2>1, <1>4 DEF Notes!PassEnds, Notes!PutOff, Notes!PullFails, NotesSent, Notes!At
<1> QED BY <1>2, <1>3, <1>4, NotesWorkStep

\* What the user may do with a note that has no change awaited or in review.
LEMMA NotesCalmNote ==
    ASSUME NotesIInv, NotesDisturbed \subseteq {"twin"}, NEW n \in Notes!Notes, Notes!Calm(n)
    PROVE  work.note # n /\ ~Notes!Unconfirmed(n) /\ ~Notes!BeingMoved(n)
BY DEF Notes!Calm, Notes!InFlight

LEMMA NotesSentStays ==
    ASSUME NotesIInv, UNCHANGED work, Notes!At("send") \/ Notes!At("fetch") => op'[work.note] = op[work.note]
    PROVE  NotesSent'
BY DEF NotesIInv, NotesSent, Notes!At, Notes!Queued

LEMMA NotesCreateStep ==
    ASSUME NotesIInv, Notes!Create
    PROVE  NotesIInv'
<1>1. NotesTypeOK /\ NotesBounds /\ NotesSent /\ NotesPlaced
  BY DEF NotesIInv
<1>2. Notes!Fresh # {} /\ Notes!Unplanned # {} /\ texts' = texts + 1
  BY DEF Notes!Create, Notes!CanWrite
<1>4. UNCHANGED <<notesServer, record, work, moving>>
  BY DEF Notes!Create
<1>5. PICK k \in Notes!Notes : k = Notes!Min(Notes!Fresh) /\ op[k] = Notes!NoOp /\ record[k] = Notes!NoCopy /\ ~NotesTaken(k) /\ ~Notes!BeingMoved(k) /\ k # 0
  BY <1>2, NotesFreshNote
<1>6. PICK h \in Notes!Address : h = Notes!Min(Notes!Unplanned) /\ origin[h] = 0 /\ notesServer[h].text = 0
  BY <1>2, NotesFreeAddress
<1>3. op' = [op EXCEPT ![k] = Notes!CreateOp(texts + 1, h, 0)] /\ origin' = [origin EXCEPT ![h] = k] /\ owed' = [owed EXCEPT ![k] = texts + 1]
  BY <1>5, <1>6 DEF Notes!Create
<1>7. k \in Nat /\ h \in Nat /\ texts + 1 \in Nat /\ 0 \in 0 .. NNew + NAddress
  BY <1>1, <1>5, <1>6, NotesIds DEF NotesTypeOK, NotesBounds
<1>8. PICK r \in NotesChanges : r = Notes!CreateOp(texts + 1, h, 0) /\ r.action = "create" /\ r.planned = h /\ r.text = texts + 1 /\ r.source = 0
  BY <1>1, <1>7, NotesDrawn
<1>9. op' = [op EXCEPT ![k] = r]
  BY <1>3, <1>8
<1>10. op'[k] = r /\ \A n \in Notes!Notes : n # k => op'[n] = op[n]
  BY <1>9, <1>5, <1>1 DEF NotesTypeOK
<1>11. owed'[k] = texts + 1 /\ \A n \in Notes!Notes : n # k => owed'[n] = owed[n]
  BY <1>3, <1>5, <1>1 DEF NotesTypeOK
<1>12. NotesGrows /\ origin'[h] = k
  BY <1>3, <1>6, <1>1 DEF NotesGrows, NotesTypeOK
<1>13. NotesTypeOK'
  BY <1>1, <1>2, <1>3, <1>4, <1>7, <1>8, <1>9 DEF NotesTypeOK
<1>14. NotesFormed(k)' /\ NotesKept(k)'
  BY <1>4, <1>5, <1>6, <1>8, <1>10, <1>11, <1>12, NotesBegins
<1>15. \A n \in Notes!Notes : n # k => NotesFormed(n)' /\ NotesKept(n)'
  BY <1>4, <1>10, <1>11, <1>12, NotesStays
<1>16. \A n \in Notes!Notes : NotesLed(n)'
  <2>1. \A m \in Notes!Notes : op'[m].source \in {0, op[m].source}
    BY <1>8, <1>10
  <2>2. \A n \in Notes!Notes : Notes!BeingMoved(n) => op'[n] = Notes!NoOp /\ owed'[n] = 0
    BY <1>5, <1>10, <1>11, NotesMovedOps
  <2> QED BY <2>1, <2>2, <1>4, <1>12, NotesLedStep
<1>17. NotesSent'
  <2>1. Notes!At("send") \/ Notes!At("fetch") => work.note \in Notes!Notes /\ op[work.note] # Notes!NoOp
    BY NotesAwaited
  <2> QED BY <2>1, <1>4, <1>5, <1>10, NotesSentStays
<1>18. NotesPlaced'
  BY <1>1, <1>3, <1>4, <1>5, <1>6 DEF NotesPlaced, NotesTypeOK
<1> QED BY <1>1, <1>13, <1>14, <1>15, <1>16, <1>17, <1>18 DEF NotesIInv, NotesBounds

LEMMA NotesUpdateStep ==
    ASSUME NotesIInv, NotesDisturbed \subseteq {"twin"}, NEW k \in Notes!Notes, Notes!Update(k)
    PROVE  NotesIInv'
<1> DEFINE r == Notes!Edited(k, texts + 1)
<1>1. NotesTypeOK /\ NotesBounds /\ NotesSent /\ NotesPlaced /\ NotesFormed(k)
  BY DEF NotesIInv
<1>2. Notes!Effective(k) /\ Notes!Settled(k) /\ work.note # k /\ ~Notes!Unconfirmed(k) /\ ~Notes!BeingMoved(k) /\ texts' = texts + 1
  BY NotesCalmNote DEF Notes!Update, Notes!CanWrite
<1>3. op' = [op EXCEPT ![k] = r] /\ owed' = [owed EXCEPT ![k] = texts + 1] /\ UNCHANGED <<notesServer, record, work, moving, origin>>
  BY DEF Notes!Update
<1>4. op[k] \in NotesChanges /\ texts + 1 \in Nat /\ record[k] \in NotesCopies /\ texts + 1 # 0
  BY <1>1 DEF NotesTypeOK
<1>5. Notes!NoOp \in NotesChanges /\ Notes!NoOp.status = "none" /\ Notes!NoOp.text = 0 /\ Notes!NoOp.source = 0 /\ Notes!NoOp.action = "none"
  BY <1>1, NotesLiterals DEF Notes!NoOp
<1>8. /\ r \in NotesChanges /\ r.text = texts + 1 /\ r.action \in {"create", "update"} /\ r.source \in {0, op[k].source} /\ NotesTaken(k)
      /\ r.action = "create" => op[k].action = "create" /\ r.planned = op[k].planned
      /\ r.action = "update" => r.base # Notes!NoCopy
  <2>1. CASE Notes!Queued(k)
    <3>1. r = [op[k] EXCEPT !.text = texts + 1, !.due = TRUE]
      BY <2>1 DEF Notes!Edited
    <3>2. r \in NotesChanges
      BY <3>1, <1>4, NotesRedone
    <3>3. r.action = op[k].action /\ r.planned = op[k].planned /\ r.base = op[k].base /\ r.text = texts + 1 /\ r.source = op[k].source
      BY <3>1, <1>4 DEF NotesChanges
    <3>4. op[k].action \in {"create", "update"} /\ NotesTaken(k)
      BY <1>2, <2>1, NotesBusyOps DEF Notes!Effective, Notes!Queued
    <3> HIDE DEF r
    <3> QED BY <3>2, <3>3, <3>4, <1>1 DEF NotesFormed
  <2>2. CASE ~Notes!Queued(k)
    <3>1. op[k] = Notes!NoOp /\ record[k] # Notes!NoCopy
      BY <1>2, <1>5, <2>2 DEF Notes!Settled, Notes!Effective
    <3>2. r = [Notes!NoOp EXCEPT !.action = "update", !.status = "queued", !.text = texts + 1, !.base = record[k]]
      BY <2>2 DEF Notes!Edited
    <3>3. r \in NotesChanges
      BY <3>2, <1>4, <1>5 DEF NotesChanges
    <3>4. r.action = "update" /\ r.base = record[k] /\ r.text = texts + 1 /\ r.source = 0
      BY <3>2, <1>4, <1>5 DEF NotesChanges
    <3>5. NotesTaken(k)
      BY <3>1, <1>1 DEF NotesFormed
    <3> HIDE DEF r
    <3> QED BY <3>1, <3>3, <3>4, <3>5
  <2> QED BY <2>1, <2>2
<1> HIDE DEF r
<1>9. op'[k] = r /\ \A n \in Notes!Notes : n # k => op'[n] = op[n]
  BY <1>3, <1>1 DEF NotesTypeOK
<1>10. owed'[k] = texts + 1 /\ \A n \in Notes!Notes : n # k => owed'[n] = owed[n]
  BY <1>3, <1>1 DEF NotesTypeOK
<1>11. NotesGrows
  BY <1>3 DEF NotesGrows
<1>12. NotesTypeOK'
  BY <1>1, <1>2, <1>3, <1>4, <1>8 DEF NotesTypeOK
<1>13. NotesFormed(k)' /\ NotesKept(k)'
  <2>1. NotesTaken(k)'
    BY <1>3, <1>8 DEF NotesTaken
  <2>2. op[k].action = "create" => notesServer[op[k].planned].text = 0 /\ op[k].planned \in Notes!Address /\ origin[op[k].planned] = k
    BY <1>1, <1>2 DEF NotesFormed, Notes!Unconfirmed
  <2> QED BY <2>1, <2>2, <1>3, <1>8, <1>9, <1>10 DEF NotesFormed, NotesKept
<1>14. \A n \in Notes!Notes : n # k => NotesFormed(n)' /\ NotesKept(n)'
  BY <1>3, <1>9, <1>10, <1>11, NotesStays
<1>15. \A n \in Notes!Notes : NotesLed(n)'
  <2>1. \A m \in Notes!Notes : op'[m].source \in {0, op[m].source}
    BY <1>8, <1>9
  <2>2. \A n \in Notes!Notes : Notes!BeingMoved(n) => op'[n] = Notes!NoOp /\ owed'[n] = 0
    BY <1>2, <1>9, <1>10, NotesMovedOps
  <2> QED BY <2>1, <2>2, <1>3, <1>11, NotesLedStep
<1>16. NotesSent'
  BY <1>2, <1>3, <1>9, NotesAwaited, NotesSentStays
<1>17. NotesPlaced'
  BY <1>1, <1>3 DEF NotesPlaced
<1> QED BY <1>1, <1>12, <1>13, <1>14, <1>15, <1>16, <1>17 DEF NotesIInv, NotesBounds

\* The deletion of a note that has no change.
LEMMA NotesDeleted ==
    ASSUME NotesIInv, NEW k \in Notes!Notes, op[k] = Notes!NoOp, NEW ops \in [Notes!Notes -> NotesChanges], ops[k] = Notes!NoOp
    PROVE  /\ Notes!QueueDelete(ops, k) \in [Notes!Notes -> NotesChanges]
           /\ \A n \in Notes!Notes : n # k => Notes!QueueDelete(ops, k)[n] = ops[n]
           /\ Notes!QueueDelete(ops, k)[k].source = 0
           /\ \/ Notes!QueueDelete(ops, k)[k] = Notes!NoOp
              \/ Notes!QueueDelete(ops, k)[k].action = "delete" /\ Notes!QueueDelete(ops, k)[k].base # Notes!NoCopy
<1>1. NotesTypeOK /\ NotesBounds
  BY DEF NotesIInv
<1>2. record[k] \in NotesCopies /\ Notes!NoOp \in NotesChanges
  BY <1>1, NotesLiterals DEF NotesTypeOK
<1>3. Notes!NoOp.status = "none" /\ Notes!NoOp.text = 0 /\ Notes!NoOp.source = 0 /\ Notes!NoOp.action = "none"
  BY DEF Notes!NoOp
<1>4. Notes!Settled(k) /\ (Notes!Effective(k) => record[k] # Notes!NoCopy)
  BY <1>3 DEF Notes!Settled, Notes!Effective
<1>5. CASE ~Notes!Effective(k)
  BY <1>3, <1>5 DEF Notes!QueueDelete
<1>6. CASE Notes!Effective(k)
  <2>1. PICK r \in NotesChanges : r = [Notes!NoOp EXCEPT !.action = "delete", !.status = "queued", !.base = record[k]]
    BY <1>2 DEF NotesChanges
  <2>2. r.action = "delete" /\ r.base = record[k] /\ r.source = 0
    BY <2>1, <1>2, <1>3 DEF NotesChanges
  <2>3. Notes!QueueDelete(ops, k) = [ops EXCEPT ![k] = r]
    BY <1>3, <1>4, <1>6, <2>1 DEF Notes!QueueDelete
  <2>4. Notes!QueueDelete(ops, k)[k] = r /\ Notes!QueueDelete(ops, k) \in [Notes!Notes -> NotesChanges] /\ \A n \in Notes!Notes : n # k => Notes!QueueDelete(ops, k)[n] = ops[n]
    BY <2>3
  <2> QED BY <2>2, <2>4, <1>4, <1>6
<1> QED BY <1>5, <1>6

LEMMA NotesRemoveStep ==
    ASSUME NotesIInv, NotesDisturbed \subseteq {"twin"}, NEW k \in Notes!Notes, Notes!Remove(k)
    PROVE  NotesIInv'
<1>1. NotesTypeOK /\ NotesBounds /\ NotesSent /\ NotesPlaced /\ NotesFormed(k)
  BY DEF NotesIInv
<1>2. Notes!Effective(k) /\ Notes!Settled(k) /\ work.note # k /\ ~Notes!Unconfirmed(k) /\ ~Notes!BeingMoved(k)
  BY NotesCalmNote DEF Notes!Remove
<1>3. op' = Notes!QueueDelete(op, k) /\ owed' = [owed EXCEPT ![k] = 0] /\ UNCHANGED <<notesServer, record, work, moving, texts, origin>>
  BY DEF Notes!Remove
<1>4. op \in [Notes!Notes -> NotesChanges] /\ op[k] \in NotesChanges
  BY <1>1 DEF NotesTypeOK
<1>5. Notes!NoOp \in NotesChanges /\ Notes!NoOp.status = "none" /\ Notes!NoOp.text = 0 /\ Notes!NoOp.source = 0 /\ Notes!NoOp.action = "none"
  BY <1>1, NotesLiterals DEF Notes!NoOp
<1>6. /\ op' \in [Notes!Notes -> NotesChanges] /\ \A n \in Notes!Notes : n # k => op'[n] = op[n]
      /\ op'[k].source \in {0, op[k].source}
      /\ op'[k] = Notes!NoOp \/ (op'[k].action = "delete" /\ op'[k].base # Notes!NoCopy /\ NotesTaken(k))
  <2>1. CASE op[k] = Notes!NoOp
    <3>1. NotesTaken(k)
      BY <2>1, <1>1, <1>2, <1>5 DEF Notes!Effective, NotesFormed
    <3> QED BY <2>1, <3>1, <1>3, <1>4, NotesDeleted
  <2>2. CASE op[k] # Notes!NoOp
    <3>1. Notes!Queued(k) /\ op[k].action \in {"create", "update"} /\ NotesTaken(k)
      BY <2>2, <1>2, NotesBusyOps DEF Notes!Settled, Notes!Effective, Notes!Queued
    <3>2. CASE op[k].action = "create"
      <4>1. op' = [op EXCEPT ![k] = Notes!NoOp]
        BY <3>2, <1>2, <1>3 DEF Notes!QueueDelete
      <4>2. op' \in [Notes!Notes -> NotesChanges] /\ op'[k] = Notes!NoOp /\ \A n \in Notes!Notes : n # k => op'[n] = op[n]
        BY <4>1, <1>4, <1>5
      <4> QED BY <4>2, <1>5
    <3>3. CASE op[k].action = "update"
      <4>1. PICK r \in NotesChanges : r = [op[k] EXCEPT !.action = "delete", !.text = 0, !.due = TRUE]
        BY <1>4, NotesRedone
      <4>2. r.action = "delete" /\ r.base = op[k].base /\ r.source = op[k].source
        BY <4>1, <1>4 DEF NotesChanges
      <4>3. op' = [op EXCEPT ![k] = r]
        BY <3>3, <1>2, <1>3, <4>1 DEF Notes!QueueDelete
      <4>4. op' \in [Notes!Notes -> NotesChanges] /\ op'[k] = r /\ \A n \in Notes!Notes : n # k => op'[n] = op[n]
        BY <4>3, <1>4
      <4> QED BY <4>2, <4>4, <3>1, <3>3, <1>1 DEF NotesFormed
    <3> QED BY <3>1, <3>2, <3>3
  <2> QED BY <2>1, <2>2
<1>7. owed' \in [Notes!Notes -> Nat] /\ owed'[k] = 0 /\ \A n \in Notes!Notes : n # k => owed'[n] = owed[n]
  BY <1>3, <1>1 DEF NotesTypeOK
<1>8. NotesGrows
  BY <1>3 DEF NotesGrows
<1>9. NotesTypeOK'
  BY <1>1, <1>3, <1>6, <1>7 DEF NotesTypeOK
<1>10. NotesFormed(k)' /\ NotesKept(k)'
  BY <1>3, <1>6, <1>7, <1>8, NotesEnds, NotesGoes
<1>11. \A n \in Notes!Notes : n # k => NotesFormed(n)' /\ NotesKept(n)'
  BY <1>3, <1>6, <1>7, <1>8, NotesStays
<1>12. \A n \in Notes!Notes : NotesLed(n)'
  <2>1. \A m \in Notes!Notes : op'[m].source \in {0, op[m].source}
    BY <1>6
  <2>2. \A n \in Notes!Notes : Notes!BeingMoved(n) => op'[n] = Notes!NoOp /\ owed'[n] = 0
    BY <1>2, <1>6, <1>7, NotesMovedOps
  <2> QED BY <2>1, <2>2, <1>3, <1>8, NotesLedStep
<1>13. NotesSent'
  BY <1>2, <1>3, <1>6, NotesAwaited, NotesSentStays
<1>14. NotesPlaced'
  BY <1>1, <1>3 DEF NotesPlaced
<1> QED BY <1>1, <1>9, <1>10, <1>11, <1>12, <1>13, <1>14 DEF NotesIInv, NotesBounds

LEMMA NotesLocalSavedStep ==
    ASSUME NotesIInv, NEW k \in Notes!Notes, Notes!LocalSaved(k)
    PROVE  NotesIInv'
<1>1. NotesTypeOK /\ NotesBounds /\ NotesSent /\ NotesPlaced /\ NotesLed(k)
  BY DEF NotesIInv
<1>2. k \in moving /\ Notes!BeingMoved(k) /\ op[k] = Notes!NoOp /\ owed[k] = 0 /\ NotesTaken(k)
  BY NotesMovedOps DEF Notes!LocalSaved, Notes!BeingMoved
<1>3. op' = Notes!QueueDelete(op, k) /\ moving' = moving \ {k} /\ UNCHANGED <<notesServer, record, work, texts, origin, owed>>
  BY DEF Notes!LocalSaved
<1>4. op \in [Notes!Notes -> NotesChanges] /\ moving' \in SUBSET Notes!Notes
  BY <1>1, <1>3 DEF NotesTypeOK
<1>5. Notes!NoOp.source = 0
  BY DEF Notes!NoOp
<1>6. /\ op' \in [Notes!Notes -> NotesChanges] /\ \A n \in Notes!Notes : n # k => op'[n] = op[n]
      /\ op'[k].source = 0
      /\ op'[k] = Notes!NoOp \/ (op'[k].action = "delete" /\ op'[k].base # Notes!NoCopy)
  BY <1>2, <1>3, <1>4, NotesDeleted
<1>8. NotesGrows
  BY <1>3 DEF NotesGrows
<1>9. NotesTypeOK'
  BY <1>1, <1>3, <1>4, <1>6 DEF NotesTypeOK
<1>10. NotesFormed(k)' /\ NotesKept(k)'
  BY <1>2, <1>3, <1>6, <1>8, NotesEnds, NotesGoes
<1>11. \A n \in Notes!Notes : n # k => NotesFormed(n)' /\ NotesKept(n)'
  BY <1>3, <1>6, <1>8, NotesStays
<1>12. \A n \in Notes!Notes : NotesLed(n)'
  <2>1. \A m \in Notes!Notes : op'[m].source \in {0, op[m].source}
    BY <1>6
  <2>2. ~Notes!BeingMoved(k)'
    BY <1>1, <1>2, <1>3, <1>6, NotesIds DEF NotesLed, Notes!BeingMoved
  <2>3. \A n \in Notes!Notes : Notes!BeingMoved(n) /\ Notes!BeingMoved(n)' => op'[n] = Notes!NoOp /\ owed'[n] = 0
    BY <2>2, <1>3, <1>6, NotesMovedOps
  <2> QED BY <2>1, <2>3, <1>3, <1>8, NotesLedStep
<1>13. NotesSent'
  <2>1. Notes!At("send") \/ Notes!At("fetch") => work.note \in Notes!Notes /\ op[work.note] # Notes!NoOp
    BY NotesAwaited
  <2> QED BY <2>1, <1>2, <1>3, <1>6, NotesSentStays
<1>14. NotesPlaced'
  BY <1>1, <1>3 DEF NotesPlaced
<1> QED BY <1>1, <1>9, <1>10, <1>11, <1>12, <1>13, <1>14 DEF NotesIInv, NotesBounds

LEMMA NotesTransferStep ==
    ASSUME NotesIInv, NotesDisturbed \subseteq {"twin"}, NEW k \in Notes!Notes, NEW t \in {"server", "local"}, Notes!Transfer(k, t)
    PROVE  NotesIInv'
<1>1. NotesTypeOK /\ NotesBounds /\ NotesSent /\ NotesPlaced /\ NotesFormed(k)
  BY DEF NotesIInv
<1>2. Notes!Effective(k) /\ op[k] = Notes!NoOp /\ work.note # k /\ ~Notes!BeingMoved(k)
  BY NotesCalmNote DEF Notes!Transfer, Notes!Current
<1>3. Notes!NoOp.source = 0 /\ Notes!NoOp.text = 0 /\ k # 0 /\ k \in Nat /\ k \in 0 .. NNew + NAddress
  BY <1>1, NotesIds DEF Notes!NoOp
<1>4. record[k] # Notes!NoCopy /\ NotesTaken(k)
  BY <1>1, <1>2, <1>3 DEF Notes!Effective, NotesFormed
<1>5. UNCHANGED <<notesServer, record, work, texts>>
  BY DEF Notes!Transfer
<1>6. NotesPlaced' \/ t = "server"
  BY <1>1, <1>5 DEF Notes!Transfer, NotesPlaced
<1>7. Notes!At("send") \/ Notes!At("fetch") => work.note \in Notes!Notes /\ op[work.note] # Notes!NoOp
  BY NotesAwaited
<1>8. CASE t = "local"
  <2>1. moving' = moving \cup {k} /\ owed' = [owed EXCEPT ![k] = 0] /\ UNCHANGED <<op, origin>>
    BY <1>8 DEF Notes!Transfer
  <2>2. owed' \in [Notes!Notes -> Nat] /\ owed'[k] = 0 /\ \A n \in Notes!Notes : n # k => owed'[n] = owed[n]
    BY <2>1, <1>1 DEF NotesTypeOK
  <2>3. NotesTypeOK'
    BY <2>1, <2>2, <1>1, <1>5 DEF NotesTypeOK
  <2>4. NotesGrows
    BY <2>1 DEF NotesGrows
  <2>5. \A n \in Notes!Notes : NotesFormed(n)' /\ NotesKept(n)'
    BY <2>1, <2>2, <2>4, <1>5, NotesStays
  <2>6. ASSUME NEW n \in Notes!Notes PROVE NotesLed(n)'
    <3>1. NotesLed(n) /\ (NotesTaken(n) => NotesTaken(n)')
      BY <2>1 DEF NotesIInv, NotesTaken
    <3>2. n # k /\ Notes!BeingMoved(n)' => Notes!BeingMoved(n)
      BY <2>1 DEF Notes!BeingMoved
    <3>3. Notes!BeingMoved(n)' => op'[n] = Notes!NoOp /\ owed'[n] = 0 /\ NotesTaken(n)'
      BY <3>1, <3>2, <2>1, <2>2, <1>2, <1>4 DEF NotesLed
    <3>4. n \in moving' => \A m \in Notes!Notes : op'[m].source # n
      BY <3>1, <2>1, <1>2 DEF NotesLed, Notes!BeingMoved
    <3>5. \A m \in Notes!Notes : op'[m].source = op'[n].source /\ op'[m].source # 0 => m = n
      BY <3>1, <2>1 DEF NotesLed
    <3> QED BY <3>3, <3>4, <3>5 DEF NotesLed
  <2>7. NotesSent'
    BY <2>1, <1>5, NotesSentStays
  <2> QED BY <2>3, <2>5, <2>6, <2>7, <1>1, <1>6, <1>8 DEF NotesIInv, NotesBounds
<1>9. CASE t = "server"
  <2>1. Notes!Fresh # {} /\ Notes!Unplanned # {}
    BY <1>9 DEF Notes!Transfer
  <2>2. PICK f \in Notes!Notes : f = Notes!Min(Notes!Fresh) /\ op[f] = Notes!NoOp /\ record[f] = Notes!NoCopy /\ ~NotesTaken(f) /\ ~Notes!BeingMoved(f) /\ f # 0
    BY <2>1, NotesFreshNote
  <2>3. PICK h \in Notes!Address : h = Notes!Min(Notes!Unplanned) /\ origin[h] = 0 /\ notesServer[h].text = 0
    BY <2>1, NotesFreeAddress
  <2>4. f # k /\ h \in Nat
    BY <2>2, <1>1, <1>4, NotesIds
  <2>5. PICK x \in Nat : x = Notes!Shown(k)
    BY <1>1 DEF Notes!Shown, NotesTypeOK, NotesChanges, NotesCopies
  <2>6. PICK r \in NotesChanges : r = Notes!CreateOp(x, h, k) /\ r.action = "create" /\ r.planned = h /\ r.text = x /\ r.source = k
    BY <1>1, <1>3, <2>4, NotesDrawn
  <2>7. /\ op' = [op EXCEPT ![f] = r] /\ origin' = [origin EXCEPT ![h] = f]
        /\ owed' = [owed EXCEPT ![f] = x, ![k] = 0] /\ moving' = moving
    BY <1>9, <2>2, <2>3, <2>5, <2>6 DEF Notes!Transfer, Notes!Copied
  <2>8. op'[f] = r /\ \A n \in Notes!Notes : n # f => op'[n] = op[n]
    BY <2>7, <1>1 DEF NotesTypeOK
  <2>9. /\ owed' \in [Notes!Notes -> Nat] /\ owed'[f] = x /\ owed'[k] = 0
        /\ \A n \in Notes!Notes : n # f /\ n # k => owed'[n] = owed[n]
    BY <2>7, <2>4, <1>1 DEF NotesTypeOK
  <2>10. NotesGrows /\ origin'[h] = f
    BY <2>3, <2>7, <1>1 DEF NotesTypeOK, NotesGrows
  <2>11. NotesTypeOK'
    <3>1. op' \in [Notes!Notes -> NotesChanges] /\ moving' \in SUBSET Notes!Notes /\ origin' \in [Notes!Address -> Nat]
      BY <2>7, <1>1, NotesIds DEF NotesTypeOK
    <3> QED BY <3>1, <2>9, <1>1, <1>5 DEF NotesTypeOK
  <2>12. NotesFormed(f)' /\ NotesKept(f)'
    BY <2>3, <2>6, <2>8, <2>9, <2>10, <1>5, NotesBegins
  <2>13. \A n \in Notes!Notes : n # f => NotesFormed(n)' /\ NotesKept(n)'
    BY <2>8, <2>9, <2>10, <1>5, NotesStays
  <2>14. ASSUME NEW n \in Notes!Notes PROVE NotesLed(n)'
    <3>1. NotesLed(n) /\ NotesLed(f) /\ n # 0
      BY <1>1, NotesIds DEF NotesIInv
    <3>2. NotesTaken(n) => NotesTaken(n)'
      BY <3>1, <2>10 DEF NotesTaken, NotesGrows
    <3>3. n # k /\ Notes!BeingMoved(n)' => Notes!BeingMoved(n)
      BY <2>6, <2>7, <2>8 DEF Notes!BeingMoved
    <3>4. n # k /\ Notes!BeingMoved(n)' => op'[n] = Notes!NoOp /\ owed'[n] = 0 /\ NotesTaken(n)'
      BY <3>2, <3>3, <2>2, <2>8, <2>9, NotesMovedOps
    <3>5. n = k => op'[n] = Notes!NoOp /\ owed'[n] = 0 /\ NotesTaken(n)'
      BY <3>2, <1>2, <1>4, <2>4, <2>8, <2>9
    <3>6. n \in moving' => \A m \in Notes!Notes : op'[m].source # n
      BY <3>1, <2>6, <2>7, <2>8, <1>2 DEF NotesLed, Notes!BeingMoved
    <3>7. \A m \in Notes!Notes : op'[m].source = op'[n].source /\ op'[m].source # 0 => m = n
      BY <3>1, <2>6, <2>8, <1>2 DEF NotesLed, Notes!BeingMoved
    <3> QED BY <3>4, <3>5, <3>6, <3>7 DEF NotesLed
  <2>15. NotesSent'
    BY <2>2, <2>8, <1>5, <1>7, NotesSentStays
  <2>16. NotesPlaced'
    BY <1>1, <1>5, <2>2, <2>7 DEF NotesPlaced, NotesTypeOK
  <2> QED BY <2>11, <2>12, <2>13, <2>14, <2>15, <2>16, <1>1 DEF NotesIInv, NotesBounds
<1> QED BY <1>8, <1>9

\* The change in flight is put back, with the request's outcome noted on it.
LEMMA NotesPutBack ==
    ASSUME NotesIInv, Notes!At("send") \/ Notes!At("fetch"), NEW r \in NotesChanges, op' = [op EXCEPT ![work.note] = r],
           r.action = op[work.note].action, r.planned = op[work.note].planned, r.text = op[work.note].text,
           r.base = op[work.note].base, r.source = op[work.note].source,
           notesServer' \in [Notes!Address -> [text : Nat, rev : Nat]], owed' \in [Notes!Notes -> Nat],
           \A n \in Notes!Notes : owed'[n] \in {0, owed[n]},
           \A n \in Notes!Notes : op[n].action = "create" /\ notesServer'[op[n].planned].text # 0
                                      => notesServer[op[n].planned].text # 0 \/ owed'[n] = 0,
           \A a \in Notes!Address : notesServer'[a].text # 0 => origin[a] # 0,
           work' \in NotesWorks, work'.at \in {"flush", "pull", "idle"}, UNCHANGED <<record, moving, texts, origin>>
    PROVE  NotesIInv'
<1>1. NotesTypeOK /\ NotesBounds
  BY DEF NotesIInv
<1>2. PICK k \in Notes!Notes : /\ k = work.note /\ op[k].action # "none" /\ ~Notes!BeingMoved(k)
  BY NotesAwaited
<1>3. op'[k] = r /\ \A n \in Notes!Notes : n # k => op'[n] = op[n]
  BY <1>1, <1>2 DEF NotesTypeOK
<1>4. op' \in [Notes!Notes -> NotesChanges]
  BY <1>1, <1>2 DEF NotesTypeOK
<1>5. NotesTypeOK'
  BY <1>1, <1>4 DEF NotesTypeOK
<1>6. NotesGrows
  BY DEF NotesGrows
<1>7. \A n \in Notes!Notes : NotesFormed(n)' /\ NotesKept(n)'
  <2>1. NotesFormed(k)' /\ NotesKept(k)'
    BY <1>2, <1>3, <1>6, NotesStays
  <2>2. \A n \in Notes!Notes : n # k => NotesFormed(n)' /\ NotesKept(n)'
    BY <1>3, <1>6, NotesStays
  <2> QED BY <2>1, <2>2
<1>8. \A n \in Notes!Notes : NotesLed(n)'
  <2>1. \A m \in Notes!Notes : op'[m].source \in {0, op[m].source}
    BY <1>2, <1>3
  <2>2. \A n \in Notes!Notes : Notes!BeingMoved(n) => op'[n] = Notes!NoOp /\ owed'[n] = 0
    BY <1>2, <1>3, NotesMovedOps
  <2> QED BY <2>1, <2>2, <1>6, NotesLedStep
<1>9. NotesSent' /\ NotesPlaced'
  BY DEF NotesSent, NotesPlaced, Notes!At
<1> QED BY <1>1, <1>5, <1>7, <1>8, <1>9 DEF NotesIInv, NotesBounds

LEMMA NotesWorkTyped ==
    ASSUME NotesIInv
    PROVE  /\ Notes!NextChange \in NotesWorks /\ Notes!NextChange.at = "flush"
           /\ Notes!AfterPass \in NotesWorks /\ Notes!AfterPass.at \in {"pull", "idle"}
           /\ Notes!Idle \in NotesWorks /\ Notes!Idle.at = "idle"
           /\ [work EXCEPT !.at = "fetch"] \in NotesWorks
           /\ [work EXCEPT !.at = "fetch"].at = "fetch" /\ [work EXCEPT !.at = "fetch"].note = work.note
           /\ [work EXCEPT !.at = "fetch"].sent = work.sent
BY NotesLiterals DEF Notes!NextChange, Notes!AfterPass, Notes!Idle, NotesWorks, NotesIInv, NotesTypeOK

LEMMA NotesFailsStep ==
    ASSUME NotesIInv, NEW reached \in BOOLEAN, Notes!Fails(reached)
    PROVE  NotesIInv'
<1>1. Notes!At("send") \/ Notes!At("fetch")
  BY DEF Notes!Fails
<1>2. /\ work.note \in Notes!Notes /\ work.sent = op[work.note] /\ op[work.note] \in NotesChanges
  BY <1>1, NotesAwaited DEF NotesIInv, NotesTypeOK
<1>3. PICK r \in NotesChanges : r = Notes!Postponed
  BY <1>2, NotesRedone DEF Notes!Postponed
<1>4. /\ r.action = op[work.note].action /\ r.planned = op[work.note].planned /\ r.text = op[work.note].text
      /\ r.base = op[work.note].base /\ r.source = op[work.note].source
  BY <1>2, <1>3 DEF Notes!Postponed, NotesChanges
<1>5. op' = [op EXCEPT ![work.note] = r] /\ work' = Notes!AfterPass /\ UNCHANGED <<record, moving, texts, origin>>
  BY <1>3 DEF Notes!Fails
<1>6. work' \in NotesWorks /\ work'.at \in {"flush", "pull", "idle"}
  BY <1>5, NotesWorkTyped
<1>7. /\ notesServer' \in [Notes!Address -> [text : Nat, rev : Nat]] /\ owed' \in [Notes!Notes -> Nat]
      /\ \A n \in Notes!Notes : owed'[n] \in {0, owed[n]}
      /\ \A n \in Notes!Notes : op[n].action = "create" /\ notesServer'[op[n].planned].text # 0
                                    => notesServer[op[n].planned].text # 0 \/ owed'[n] = 0
      /\ \A a \in Notes!Address : notesServer'[a].text # 0 => origin[a] # 0
  <2>1. CASE reached
    <3>1. Notes!At("send") /\ Notes!ServerDoes
      BY <2>1 DEF Notes!Fails, Notes!At
    <3> QED BY <3>1, NotesServed
  <2>2. CASE ~reached
    BY <2>2 DEF Notes!Fails, NotesIInv, NotesTypeOK, NotesPlaced
  <2> QED BY <2>1, <2>2
<1> QED BY <1>1, <1>4, <1>5, <1>6, <1>7, NotesPutBack

LEMMA NotesRejectedStep ==
    ASSUME NotesIInv, Notes!Rejected
    PROVE  NotesIInv'
<1>1. Notes!At("send") \/ Notes!At("fetch")
  BY DEF Notes!Rejected
<1>2. /\ work.note \in Notes!Notes /\ work.sent = op[work.note] /\ op[work.note] \in NotesChanges
  BY <1>1, NotesAwaited DEF NotesIInv, NotesTypeOK
<1>3. PICK r \in NotesChanges : r = [work.sent EXCEPT !.status = "failed"]
  BY <1>2, NotesRedone
<1>4. /\ r.action = op[work.note].action /\ r.planned = op[work.note].planned /\ r.text = op[work.note].text
      /\ r.base = op[work.note].base /\ r.source = op[work.note].source
  BY <1>2, <1>3 DEF NotesChanges
<1>5. op' = [op EXCEPT ![work.note] = r] /\ work' = Notes!NextChange /\ UNCHANGED <<notesServer, owed, record, moving, texts, origin>>
  BY <1>3 DEF Notes!Rejected, Notes!Fail
<1>6. work' \in NotesWorks /\ work'.at \in {"flush", "pull", "idle"}
  BY <1>5, NotesWorkTyped
<1>7. /\ notesServer' \in [Notes!Address -> [text : Nat, rev : Nat]] /\ owed' \in [Notes!Notes -> Nat]
      /\ \A n \in Notes!Notes : owed'[n] \in {0, owed[n]}
      /\ \A n \in Notes!Notes : op[n].action = "create" /\ notesServer'[op[n].planned].text # 0
                                    => notesServer[op[n].planned].text # 0 \/ owed'[n] = 0
      /\ \A a \in Notes!Address : notesServer'[a].text # 0 => origin[a] # 0
  BY <1>5 DEF NotesIInv, NotesTypeOK, NotesPlaced
<1> QED BY <1>1, <1>4, <1>5, <1>6, <1>7, NotesPutBack

\* A deletion of nothing is over, everything else waits for the user.
LEMMA NotesFetchedStep ==
    ASSUME NotesIInv, Notes!Fetched
    PROVE  NotesIInv'
<1>1. Notes!At("send") \/ Notes!At("fetch")
  BY DEF Notes!Fetched
<1>2. /\ work.note \in Notes!Notes /\ work.sent = op[work.note] /\ op[work.note] \in NotesChanges /\ Notes!Target \in Notes!Address
      /\ op[work.note] # Notes!NoOp /\ ~Notes!BeingMoved(work.note)
  BY <1>1, NotesAwaited DEF NotesIInv, NotesTypeOK
<1>3. NotesTypeOK /\ NotesBounds /\ NotesPlaced
  BY DEF NotesIInv
<1>4. work' = Notes!NextChange /\ UNCHANGED <<notesServer, owed, moving, texts, origin>>
  BY DEF Notes!Fetched
<1>5. work' \in NotesWorks /\ work'.at \in {"flush", "pull", "idle"}
  BY <1>4, NotesWorkTyped
<1>6. CASE ~(Notes!CopyAt(Notes!Target) = Notes!NoCopy /\ work.sent.action = "delete")
  <2>1. Notes!CopyAt(Notes!Target) \in NotesCopies /\ (Notes!CopyAt(Notes!Target) = Notes!NoCopy) \in BOOLEAN
    BY <1>2, <1>3, NotesCopyTyped
  <2>2. PICK r \in NotesChanges : r = [work.sent EXCEPT !.status = "conflict", !.server = Notes!CopyAt(Notes!Target), !.gone = Notes!CopyAt(Notes!Target) = Notes!NoCopy]
    BY <1>2, <2>1, NotesRedone
  <2>3. /\ r.action = op[work.note].action /\ r.planned = op[work.note].planned /\ r.text = op[work.note].text
        /\ r.base = op[work.note].base /\ r.source = op[work.note].source
    BY <1>2, <2>2 DEF NotesChanges
  <2>4. op' = [op EXCEPT ![work.note] = r] /\ UNCHANGED record
    BY <2>2, <1>6 DEF Notes!Fetched
  <2>5. /\ notesServer' \in [Notes!Address -> [text : Nat, rev : Nat]] /\ owed' \in [Notes!Notes -> Nat]
        /\ \A n \in Notes!Notes : owed'[n] \in {0, owed[n]}
        /\ \A n \in Notes!Notes : op[n].action = "create" /\ notesServer'[op[n].planned].text # 0
                                      => notesServer[op[n].planned].text # 0 \/ owed'[n] = 0
        /\ \A a \in Notes!Address : notesServer'[a].text # 0 => origin[a] # 0
    BY <1>3, <1>4 DEF NotesTypeOK, NotesPlaced
  <2> QED BY <1>1, <1>4, <1>5, <2>3, <2>4, <2>5, NotesPutBack
<1>7. CASE Notes!CopyAt(Notes!Target) = Notes!NoCopy /\ work.sent.action = "delete"
  <2>1. PICK k \in Notes!Notes : k = work.note
    BY <1>2
  <2>2. record' = [record EXCEPT ![k] = Notes!NoCopy] /\ op' = [op EXCEPT ![k] = Notes!NoOp]
    BY <1>7, <2>1 DEF Notes!Fetched
  <2>3. /\ op'[k] = Notes!NoOp /\ record'[k] = Notes!NoCopy
        /\ \A n \in Notes!Notes : n # k => op'[n] = op[n] /\ record'[n] = record[n]
    BY <2>2, <1>3 DEF NotesTypeOK
  <2>4. owed[k] = 0 /\ owed'[k] = 0
    BY <1>2, <1>4, <1>7, <2>1 DEF NotesIInv, NotesKept
  <2>5. NotesGrows
    BY <1>4 DEF NotesGrows
  <2>6. NotesTypeOK'
    BY <1>3, <1>4, <1>5, <2>2, NotesLiterals DEF NotesTypeOK
  <2>7. NotesFormed(k)' /\ NotesKept(k)'
    BY <2>3, <2>4, <2>5, NotesEnds
  <2>8. \A n \in Notes!Notes : n # k => NotesFormed(n)' /\ NotesKept(n)'
    BY <2>3, <1>4, <2>5, NotesStays
  <2>9. \A n \in Notes!Notes : NotesLed(n)'
    <3>1. \A m \in Notes!Notes : op'[m].source \in {0, op[m].source}
      BY <2>3 DEF Notes!NoOp
    <3>2. \A n \in Notes!Notes : Notes!BeingMoved(n) => op'[n] = Notes!NoOp /\ owed'[n] = 0
      BY <1>2, <2>1, <2>3, <1>4, NotesMovedOps
    <3> QED BY <3>1, <3>2, <1>4, <2>5, NotesLedStep
  <2>10. NotesSent' /\ NotesPlaced'
    BY <1>3, <1>4, <1>5 DEF NotesSent, NotesPlaced, Notes!At
  <2> QED BY <1>3, <2>6, <2>7, <2>8, <2>9, <2>10 DEF NotesIInv, NotesBounds
<1> QED BY <1>6, <1>7

LEMMA NotesAnsweredStep ==
    ASSUME NotesIInv, Notes!Answered
    PROVE  NotesIInv'
<1>1. Notes!At("send") /\ Notes!ServerDoes /\ UNCHANGED <<moving, texts, origin>>
  BY DEF Notes!Answered
<1>2. /\ work.note \in Notes!Notes /\ work.sent = op[work.note] /\ op[work.note] \in NotesChanges /\ Notes!Target \in Notes!Address
      /\ op[work.note] # Notes!NoOp /\ ~Notes!BeingMoved(work.note) /\ NotesTaken(work.note) /\ Notes!Queued(work.note)
  BY <1>1, NotesAwaited DEF NotesIInv, NotesTypeOK
<1>3. NotesTypeOK /\ NotesBounds /\ NotesPlaced
  BY DEF NotesIInv
<1>4. /\ notesServer' \in [Notes!Address -> [text : Nat, rev : Nat]] /\ owed' \in [Notes!Notes -> Nat]
      /\ \A n \in Notes!Notes : owed'[n] \in {0, owed[n]}
      /\ \A n \in Notes!Notes \ {work.note} : owed'[n] = owed[n]
      /\ \A n \in Notes!Notes : op[n].action = "create" /\ notesServer'[op[n].planned].text # 0
                                    => notesServer[op[n].planned].text # 0 \/ owed'[n] = 0
      /\ \A a \in Notes!Address : notesServer'[a].text # 0 => origin[a] # 0
      /\ ~Notes!Refuses => owed'[work.note] = 0
  BY <1>1, NotesServed
<1>5. NotesGrows /\ NotesPlaced'
  BY <1>1, <1>4 DEF NotesGrows, NotesPlaced
<1>6. CASE Notes!Refuses
  <2>1. work' = [work EXCEPT !.at = "fetch"] /\ UNCHANGED <<record, op>>
    BY <1>6 DEF Notes!Answered
  <2>2. work' \in NotesWorks /\ work'.at = "fetch" /\ work'.note = work.note /\ work'.sent = work.sent
    BY <2>1, NotesWorkTyped
  <2>3. NotesTypeOK'
    BY <1>1, <1>3, <1>4, <2>1, <2>2 DEF NotesTypeOK
  <2>4. \A n \in Notes!Notes : NotesFormed(n)' /\ NotesKept(n)'
    BY <1>4, <1>5, <2>1, NotesStays
  <2>5. \A n \in Notes!Notes : NotesLed(n)'
    <3>1. \A n \in Notes!Notes : Notes!BeingMoved(n) => op'[n] = Notes!NoOp /\ owed'[n] = 0
      BY <1>4, <2>1, NotesMovedOps
    <3> QED BY <3>1, <1>1, <1>5, <2>1, NotesLedStep
  <2>6. NotesSent'
    BY <1>2, <2>1, <2>2 DEF NotesSent, Notes!Queued
  <2> QED BY <1>3, <1>5, <2>3, <2>4, <2>5, <2>6 DEF NotesIInv, NotesBounds
<1>7. CASE ~Notes!Refuses /\ work.sent.action # "delete" /\ Notes!Clash
  <2>1. PICK r \in NotesChanges : r = [work.sent EXCEPT !.status = "failed"]
    BY <1>2, NotesRedone
  <2>2. /\ r.action = op[work.note].action /\ r.planned = op[work.note].planned /\ r.text = op[work.note].text
        /\ r.base = op[work.note].base /\ r.source = op[work.note].source
    BY <1>2, <2>1 DEF NotesChanges
  <2>3. op' = [op EXCEPT ![work.note] = r] /\ work' = Notes!NextChange /\ UNCHANGED record
    BY <1>7, <2>1 DEF Notes!Answered, Notes!Fail
  <2>4. work' \in NotesWorks /\ work'.at \in {"flush", "pull", "idle"}
    BY <2>3, NotesWorkTyped
  <2> QED BY <1>1, <1>4, <2>2, <2>3, <2>4, NotesPutBack
<1>8. CASE ~Notes!Refuses /\ (work.sent.action = "delete" \/ ~Notes!Clash)
  <2>1. PICK k \in Notes!Notes : k = work.note
    BY <1>2
  <2>2. PICK s \in 0 .. NNew + NAddress : s = op[k].source
    BY <2>1, <1>2, NotesParts
  <2>3. owed'[k] = 0 /\ work' = Notes!NextChange /\ work' \in NotesWorks /\ work'.at = "flush"
    BY <1>4, <1>8, <2>1, NotesWorkTyped DEF Notes!Answered
  <2>4. PICK c \in NotesCopies : record' = [record EXCEPT ![k] = c]
    <3>1. CASE work.sent.action = "delete"
      BY <3>1, <1>3, <1>8, <2>1, NotesLiterals DEF Notes!Answered
    <3>2. CASE work.sent.action # "delete"
      <4>1. record' = [record EXCEPT ![k] = Notes!Answer]
        BY <3>2, <1>8, <2>1 DEF Notes!Answered
      <4>2. Notes!Target \in Nat /\ notesServer'[Notes!Target].text \in Nat /\ notesServer'[Notes!Target].rev \in Nat
        BY <1>2, <1>3, <1>4, NotesIds
      <4>3. Notes!Answer \in NotesCopies
        BY <4>2, <1>2 DEF Notes!Answer, NotesCopies
      <4> QED BY <4>1, <4>3
    <3> QED BY <3>1, <3>2
  <2>5. PICK done \in [Notes!Notes -> NotesChanges] : done = Notes!Completed /\ done[k] = Notes!NoOp /\ \A n \in Notes!Notes : n # k => done[n] = op[n]
    <3>1. Notes!Completed = [op EXCEPT ![k] = Notes!NoOp]
      BY <2>1 DEF Notes!Completed
    <3>2. Notes!Completed \in [Notes!Notes -> NotesChanges] /\ Notes!Completed[k] = Notes!NoOp /\ \A n \in Notes!Notes : n # k => Notes!Completed[n] = op[n]
      BY <3>1, <1>3, NotesLiterals DEF NotesTypeOK
    <3> QED BY <3>2, Zenon
  <2>6. \/ op' = done
        \/ s # 0 /\ op' = Notes!QueueDelete(done, s)
    BY <1>2, <1>8, <2>1, <2>2, <2>5 DEF Notes!Answered, Notes!SourceLeaves
  <2>7. s # 0 => /\ s \in Notes!Notes /\ op[s] = Notes!NoOp /\ owed[s] = 0 /\ NotesTaken(s) /\ s # k /\ Notes!BeingMoved(s)
    <3> SUFFICES ASSUME s # 0 PROVE s \in Notes!Notes /\ op[s] = Notes!NoOp /\ owed[s] = 0 /\ NotesTaken(s) /\ s # k /\ Notes!BeingMoved(s)
      OBVIOUS
    <3>1. s \in Notes!Notes
      BY <1>3, NotesIds
    <3>2. Notes!BeingMoved(s)
      BY <2>2, <3>1 DEF Notes!BeingMoved
    <3> QED BY <3>1, <3>2, NotesMovedOps, <1>2, <2>1
  <2>8. /\ op' \in [Notes!Notes -> NotesChanges] /\ op'[k] = Notes!NoOp
        /\ \A n \in Notes!Notes : n # k /\ n # s => op'[n] = op[n]
        /\ s # 0 => op'[s].source = 0 /\ (op'[s] = Notes!NoOp \/ (op'[s].action = "delete" /\ op'[s].base # Notes!NoCopy))
    <3>1. CASE op' = done
      BY <3>1, <2>5, <2>7 DEF Notes!NoOp
    <3>2. CASE s # 0 /\ op' = Notes!QueueDelete(done, s)
      <4>1. done[s] = Notes!NoOp /\ op[s] = Notes!NoOp /\ s \in Notes!Notes
        BY <3>2, <2>5, <2>7
      <4>2. /\ op' \in [Notes!Notes -> NotesChanges]
            /\ \A n \in Notes!Notes : n # s => op'[n] = done[n]
            /\ op'[s].source = 0 /\ (op'[s] = Notes!NoOp \/ (op'[s].action = "delete" /\ op'[s].base # Notes!NoCopy))
        BY <4>1, <3>2, NotesDeleted
      <4> QED BY <4>2, <2>5, <2>7, <3>2
    <3> QED BY <2>6, <3>1, <3>2
  <2>9. record' \in [Notes!Notes -> NotesCopies] /\ \A n \in Notes!Notes : n # k => record'[n] = record[n]
    BY <2>4, <1>3 DEF NotesTypeOK
  <2>10. NotesTypeOK'
    BY <1>1, <1>3, <1>4, <2>3, <2>8, <2>9 DEF NotesTypeOK
  <2>11. NotesFormed(k)' /\ NotesKept(k)'
    BY <1>2, <1>5, <2>1, <2>3, <2>8, NotesEnds
  <2>12. \A n \in Notes!Notes : n # k /\ n # s => NotesFormed(n)' /\ NotesKept(n)'
    BY <1>4, <1>5, <2>8, <2>9, NotesStays
  <2>13. s # 0 => NotesFormed(s)' /\ NotesKept(s)'
    <3> SUFFICES ASSUME s # 0 PROVE NotesFormed(s)' /\ NotesKept(s)'
      OBVIOUS
    <3>1. s \in Notes!Notes /\ owed'[s] = 0 /\ NotesTaken(s)
      BY <2>7, <2>1, <1>4
    <3>2. CASE op'[s] = Notes!NoOp
      BY <3>1, <3>2, <1>5, NotesEnds
    <3>3. CASE op'[s].action = "delete" /\ op'[s].base # Notes!NoCopy
      BY <3>1, <3>3, <1>5, NotesGoes
    <3> QED BY <3>2, <3>3, <2>8
  <2>14. \A n \in Notes!Notes : NotesFormed(n)' /\ NotesKept(n)'
    <3> SUFFICES ASSUME NEW n \in Notes!Notes PROVE NotesFormed(n)' /\ NotesKept(n)'
      OBVIOUS
    <3>1. n # 0
      BY <1>3, NotesIds
    <3> QED BY <3>1, <2>11, <2>12, <2>13
  <2>15. \A n \in Notes!Notes : NotesLed(n)'
    <3>1. \A m \in Notes!Notes : op'[m].source \in {0, op[m].source}
      BY <1>3, <2>8, NotesIds DEF Notes!NoOp
    <3>2. s # 0 => ~Notes!BeingMoved(s)'
      <4> SUFFICES ASSUME s # 0 PROVE ~Notes!BeingMoved(s)'
        OBVIOUS
      <4>1. s \in Notes!Notes /\ NotesLed(s) /\ NotesLed(k)
        BY <2>7 DEF NotesIInv
      <4>2. s \notin moving'
        BY <4>1, <2>2, <1>1 DEF NotesLed
      <4>3. \A m \in Notes!Notes : op'[m].source # s
        BY <4>1, <2>2, <2>8, <3>1 DEF NotesLed, Notes!NoOp
      <4> QED BY <4>2, <4>3 DEF Notes!BeingMoved
    <3>3. \A n \in Notes!Notes : Notes!BeingMoved(n) /\ Notes!BeingMoved(n)' => op'[n] = Notes!NoOp /\ owed'[n] = 0
      BY <1>2, <1>4, <2>1, <2>8, <3>2, NotesMovedOps, <1>3, NotesIds
    <3> QED BY <3>1, <3>3, <1>1, <1>5, NotesLedStep
  <2>16. NotesSent'
    BY <2>3 DEF NotesSent, Notes!At
  <2> QED BY <1>3, <1>5, <2>10, <2>14, <2>15, <2>16 DEF NotesIInv, NotesBounds
<1> QED BY <1>6, <1>7, <1>8

LEMMA NotesBecomesDueStep ==
    ASSUME NotesIInv, NEW k \in Notes!Notes, Notes!BecomesDue(k)
    PROVE  NotesIInv'
<1>1. NotesTypeOK /\ NotesBounds /\ NotesPlaced /\ op[k] \in NotesChanges
  BY DEF NotesIInv, NotesTypeOK
<1>2. Notes!At("idle") /\ Notes!Queued(k) /\ UNCHANGED <<notesServer, record, work, moving, texts, origin, owed>>
  BY DEF Notes!BecomesDue
<1>3. PICK r \in NotesChanges : r = [op[k] EXCEPT !.due = TRUE]
  BY <1>1, NotesRedone
<1>4. /\ r.action = op[k].action /\ r.planned = op[k].planned /\ r.text = op[k].text
      /\ r.base = op[k].base /\ r.source = op[k].source
  BY <1>1, <1>3 DEF NotesChanges
<1>5. op' = [op EXCEPT ![k] = r]
  BY <1>3 DEF Notes!BecomesDue
<1>6. op'[k] = r /\ \A n \in Notes!Notes : n # k => op'[n] = op[n]
  BY <1>1, <1>5 DEF NotesTypeOK
<1>7. op[k].action # "none" /\ ~Notes!BeingMoved(k)
  BY <1>2, NotesBusyOps DEF Notes!Queued
<1>8. NotesGrows
  BY <1>2 DEF NotesGrows
<1>9. NotesTypeOK'
  BY <1>1, <1>2, <1>5 DEF NotesTypeOK
<1>10. NotesFormed(k)' /\ NotesKept(k)'
  BY <1>2, <1>4, <1>6, <1>7, <1>8, NotesStays
<1>11. \A n \in Notes!Notes : n # k => NotesFormed(n)' /\ NotesKept(n)'
  BY <1>2, <1>6, <1>8, NotesStays
<1>12. \A n \in Notes!Notes : NotesLed(n)'
  <2>1. \A m \in Notes!Notes : op'[m].source \in {0, op[m].source}
    BY <1>4, <1>6
  <2>2. \A n \in Notes!Notes : Notes!BeingMoved(n) => op'[n] = Notes!NoOp /\ owed'[n] = 0
    BY <1>2, <1>6, <1>7, NotesMovedOps
  <2> QED BY <2>1, <2>2, <1>2, <1>8, NotesLedStep
<1>13. NotesSent' /\ NotesPlaced'
  BY <1>1, <1>2 DEF NotesSent, NotesPlaced, Notes!At
<1> QED BY <1>1, <1>9, <1>10, <1>11, <1>12, <1>13 DEF NotesIInv, NotesBounds

LEMMA NotesPullStep ==
    ASSUME NotesIInv, Notes!Pull
    PROVE  NotesIInv'
<1>1. NotesTypeOK /\ NotesBounds /\ NotesPlaced
  BY DEF NotesIInv
<1>2. work' = Notes!Idle /\ UNCHANGED <<notesServer, moving, texts, origin, owed>>
  BY DEF Notes!Pull
<1>3. ASSUME NEW n \in Notes!Notes
      PROVE  /\ record'[n] \in NotesCopies
             /\ record'[n] # Notes!NoCopy => record[n] # Notes!NoCopy \/ NotesTaken(n)
  <2>1. CASE n \in Notes!Removed
    BY <2>1, NotesLiterals, <1>1 DEF Notes!Pull
  <2>2. CASE n \notin Notes!Removed /\ \E a \in Notes!Changed : Notes!IdOf(a) = n
    <3>1. PICK h \in Notes!Changed : h = CHOOSE a \in Notes!Changed : Notes!IdOf(a) = n
      BY <2>2
    <3>2. Notes!IdOf(h) = n /\ h \in Notes!Address
      BY <3>1, <2>2 DEF Notes!Changed
    <3>3. record'[n] = Notes!CopyAt(h)
      BY <3>1, <2>2 DEF Notes!Pull
    <3>4. Notes!CopyAt(h) \in NotesCopies
      BY <3>2, <1>1, NotesCopyTyped
    <3>5. CASE Notes!KnownAs(h) = {}
      <4>1. n \notin Notes!New
        BY <3>2, <3>5, <1>1, NotesIds DEF Notes!IdOf
      <4> QED BY <4>1, <3>3, <3>4 DEF NotesTaken
    <3>6. CASE Notes!KnownAs(h) # {}
      <4>1. Notes!KnownAs(h) \in SUBSET Nat
        BY <1>1, NotesIds DEF Notes!KnownAs
      <4>2. n \in Notes!KnownAs(h)
        BY <4>1, <3>2, <3>6, NotesFirst DEF Notes!IdOf
      <4>3. record[n].addr # 0
        BY <4>2, <3>2, <1>1, NotesIds DEF Notes!KnownAs
      <4>4. record[n] # Notes!NoCopy
        BY <4>3 DEF Notes!NoCopy
      <4> QED BY <4>4, <3>3, <3>4
    <3> QED BY <3>5, <3>6
  <2>3. CASE n \notin Notes!Removed /\ ~\E a \in Notes!Changed : Notes!IdOf(a) = n
    BY <2>3, <1>1 DEF Notes!Pull, NotesTypeOK
  <2> QED BY <2>1, <2>2, <2>3
<1>4. ASSUME NEW n \in Notes!Notes
      PROVE  op'[n] = op[n] \/ (op'[n] = Notes!NoOp /\ op[n].action = "delete" /\ owed[n] = 0)
  BY DEF Notes!Pull, NotesIInv, NotesKept
<1>5. NotesGrows
  BY <1>2 DEF NotesGrows
<1>6. NotesTypeOK'
  <2>1. record' = [n \in Notes!Notes |-> record'[n]] /\ op' = [n \in Notes!Notes |-> op'[n]]
    BY DEF Notes!Pull
  <2>2. record' \in [Notes!Notes -> NotesCopies]
    BY <2>1, <1>3
  <2>3. op' \in [Notes!Notes -> NotesChanges]
    BY <2>1, <1>4, <1>1, NotesLiterals DEF NotesTypeOK
  <2> QED BY <2>2, <2>3, <1>1, <1>2, NotesLiterals DEF NotesTypeOK
<1>7. \A n \in Notes!Notes : NotesFormed(n)' /\ NotesKept(n)'
  <2> SUFFICES ASSUME NEW n \in Notes!Notes PROVE NotesFormed(n)' /\ NotesKept(n)'
    OBVIOUS
  <2>1. CASE op'[n] = op[n]
    BY <2>1, <1>2, <1>3, <1>5, NotesStays
  <2>2. CASE op'[n] = Notes!NoOp /\ owed[n] = 0
    BY <2>2, <1>2, <1>3, <1>5, NotesEnds
  <2> QED BY <2>1, <2>2, <1>4
<1>8. \A n \in Notes!Notes : NotesLed(n)'
  <2>1. \A m \in Notes!Notes : op'[m].source \in {0, op[m].source}
    BY <1>4 DEF Notes!NoOp
  <2>2. \A n \in Notes!Notes : Notes!BeingMoved(n) => op'[n] = Notes!NoOp /\ owed'[n] = 0
    BY <1>2, <1>4, NotesMovedOps
  <2> QED BY <2>1, <2>2, <1>2, <1>5, NotesLedStep
<1>9. NotesSent' /\ NotesPlaced'
  BY <1>1, <1>2 DEF NotesSent, NotesPlaced, Notes!At, Notes!Idle
<1> QED BY <1>1, <1>6, <1>7, <1>8, <1>9 DEF NotesIInv, NotesBounds

LEMMA NotesOtherStep ==
    ASSUME NotesIInv, NEW h \in Notes!Address, Notes!OtherEdits(h) \/ Notes!OtherDeletes(h)
    PROVE  NotesIInv'
<1>1. NotesTypeOK /\ NotesBounds /\ NotesPlaced /\ notesServer[h] \in [text : Nat, rev : Nat]
  BY DEF NotesIInv, NotesTypeOK
<1>2. PICK t \in Nat : Notes!OtherClient(h, t) /\ texts' \in Nat
  BY <1>1 DEF Notes!OtherEdits, Notes!OtherDeletes, Notes!CanWrite, NotesTypeOK
<1>3. /\ notesServer[h].text # 0 /\ notesServer' = [notesServer EXCEPT ![h] = [text |-> t, rev |-> notesServer[h].rev + 1]]
      /\ UNCHANGED <<record, op, work, moving, origin, owed>>
  BY <1>2 DEF Notes!OtherClient
<1>4. [text |-> t, rev |-> notesServer[h].rev + 1] \in [text : Nat, rev : Nat]
  BY <1>1
<1>5. notesServer' \in [Notes!Address -> [text : Nat, rev : Nat]] /\ \A a \in Notes!Address : a # h => notesServer'[a] = notesServer[a]
  BY <1>1, <1>3, <1>4 DEF NotesTypeOK
<1>6. NotesTypeOK'
  BY <1>1, <1>2, <1>3, <1>5 DEF NotesTypeOK
<1>7. NotesGrows
  BY <1>3 DEF NotesGrows
<1>8. ASSUME NEW n \in Notes!Notes PROVE NotesFormed(n)' /\ NotesKept(n)'
  <2>1. op[n].action = "create" => op[n].planned \in Notes!Address
    BY DEF NotesIInv, NotesFormed
  <2>2. op[n].action = "create" /\ notesServer'[op[n].planned].text # 0 => notesServer[op[n].planned].text # 0
    BY <2>1, <1>3, <1>5
  <2> QED BY <2>2, <1>3, <1>7, NotesStays
<1>9. \A n \in Notes!Notes : NotesLed(n)'
  BY <1>3, <1>7, NotesMovedOps, NotesLedStep
<1>10. NotesSent'
  BY <1>3, NotesSentStays
<1>11. NotesPlaced'
  BY <1>1, <1>3, <1>5 DEF NotesPlaced
<1> QED BY <1>1, <1>6, <1>8, <1>9, <1>10, <1>11 DEF NotesIInv, NotesBounds

LEMMA NotesCrashStep ==
    ASSUME NotesIInv, NEW reached \in BOOLEAN, Notes!Crash(reached)
    PROVE  NotesIInv'
<1>1. NotesTypeOK /\ NotesBounds
  BY DEF NotesIInv
<1>2. work' = Notes!Idle /\ moving' = {} /\ UNCHANGED <<record, op, texts, origin>>
  BY DEF Notes!Crash
<1>3. /\ notesServer' \in [Notes!Address -> [text : Nat, rev : Nat]] /\ owed' \in [Notes!Notes -> Nat]
      /\ \A n \in Notes!Notes : owed'[n] \in {0, owed[n]}
      /\ \A n \in Notes!Notes : op[n].action = "create" /\ notesServer'[op[n].planned].text # 0
                                    => notesServer[op[n].planned].text # 0 \/ owed'[n] = 0
      /\ \A a \in Notes!Address : notesServer'[a].text # 0 => origin[a] # 0
  <2>1. CASE reached
    <3>1. Notes!At("send") /\ Notes!ServerDoes
      BY <2>1 DEF Notes!Crash
    <3> QED BY <3>1, NotesServed
  <2>2. CASE ~reached
    BY <2>2 DEF Notes!Crash, NotesIInv, NotesTypeOK, NotesPlaced
  <2> QED BY <2>1, <2>2
<1>4. NotesGrows
  BY <1>2 DEF NotesGrows
<1>5. NotesTypeOK'
  BY <1>1, <1>2, <1>3, NotesLiterals DEF NotesTypeOK
<1>6. \A n \in Notes!Notes : NotesFormed(n)' /\ NotesKept(n)'
  BY <1>2, <1>3, <1>4, NotesStays
<1>7. \A n \in Notes!Notes : NotesLed(n)'
  <2>1. \A n \in Notes!Notes : Notes!BeingMoved(n) => op'[n] = Notes!NoOp /\ owed'[n] = 0
    BY <1>2, <1>3, NotesMovedOps
  <2> QED BY <2>1, <1>2, <1>4, NotesLedStep
<1>8. NotesSent' /\ NotesPlaced'
  BY <1>2, <1>3 DEF NotesSent, NotesPlaced, Notes!At, Notes!Idle
<1> QED BY <1>1, <1>5, <1>6, <1>7, <1>8 DEF NotesIInv, NotesBounds

\* A review is decided on.
LEMMA NotesAccepted ==
    ASSUME NotesIInv, NEW k \in Notes!Notes
    PROVE  Notes!AcceptServer(k) \in [Notes!Notes -> NotesCopies] /\ \A n \in Notes!Notes : n # k => Notes!AcceptServer(k)[n] = record[n]
<1>1. op[k].server \in NotesCopies /\ record[k] \in NotesCopies /\ Notes!NoCopy \in NotesCopies /\ record \in [Notes!Notes -> NotesCopies]
  BY NotesParts, NotesLiterals DEF NotesIInv, NotesTypeOK
<1>2. PICK c \in NotesCopies : c = IF op[k].gone THEN Notes!NoCopy ELSE IF op[k].server # Notes!NoCopy THEN op[k].server ELSE record[k]
  BY <1>1
<1>3. Notes!AcceptServer(k) = [record EXCEPT ![k] = c]
  BY <1>2 DEF Notes!AcceptServer
<1> QED BY <1>1, <1>3

LEMMA NotesRecreated ==
    ASSUME NEW c \in NotesChanges, NEW h \in Nat, Notes!NoCopy \in NotesCopies
    PROVE  /\ [c EXCEPT !.action = "create", !.base = Notes!NoCopy, !.planned = h] \in NotesChanges
           /\ [c EXCEPT !.action = "create", !.base = Notes!NoCopy, !.planned = h].action = "create"
           /\ [c EXCEPT !.action = "create", !.base = Notes!NoCopy, !.planned = h].planned = h
           /\ [c EXCEPT !.action = "create", !.base = Notes!NoCopy, !.planned = h].text = c.text
           /\ [c EXCEPT !.action = "create", !.base = Notes!NoCopy, !.planned = h].source = c.source
BY DEF NotesChanges

LEMMA NotesAgain_ ==
    ASSUME NotesIInv, NEW k \in Notes!Notes
    PROVE  /\ Notes!Again(k) \in NotesChanges
           /\ Notes!Again(k).action = op[k].action /\ Notes!Again(k).planned = op[k].planned /\ Notes!Again(k).text = op[k].text
           /\ Notes!Again(k).source = op[k].source /\ (op[k].base # Notes!NoCopy => Notes!Again(k).base # Notes!NoCopy)
           /\ \A h \in Notes!Address :
                 /\ [Notes!Again(k) EXCEPT !.action = "create", !.base = Notes!NoCopy, !.planned = h] \in NotesChanges
                 /\ [Notes!Again(k) EXCEPT !.action = "create", !.base = Notes!NoCopy, !.planned = h].action = "create"
                 /\ [Notes!Again(k) EXCEPT !.action = "create", !.base = Notes!NoCopy, !.planned = h].planned = h
                 /\ [Notes!Again(k) EXCEPT !.action = "create", !.base = Notes!NoCopy, !.planned = h].text = op[k].text
                 /\ [Notes!Again(k) EXCEPT !.action = "create", !.base = Notes!NoCopy, !.planned = h].source = op[k].source
<1>1. op[k] \in NotesChanges /\ Notes!NoCopy \in NotesCopies /\ op[k].server \in NotesCopies /\ op[k].base \in NotesCopies /\ Notes!Address \subseteq Nat
  BY NotesParts, NotesLiterals, NotesIds DEF NotesIInv, NotesTypeOK
<1>2. PICK c \in NotesCopies : c = IF op[k].server # Notes!NoCopy THEN op[k].server ELSE op[k].base
  BY <1>1
<1>3. Notes!Again(k) = [op[k] EXCEPT !.status = "queued", !.due = TRUE, !.server = Notes!NoCopy, !.gone = FALSE, !.base = c]
  BY <1>2 DEF Notes!Again
<1>4. PICK z \in NotesChanges : z = op[k]
  BY <1>1
<1>5. PICK y \in NotesChanges : y = [z EXCEPT !.status = "queued", !.due = TRUE, !.server = Notes!NoCopy, !.gone = FALSE, !.base = c]
  <2>1. [z EXCEPT !.status = "queued", !.due = TRUE, !.server = Notes!NoCopy, !.gone = FALSE, !.base = c] \in NotesChanges
    BY <1>1, <1>4 DEF NotesChanges
  <2> QED BY <2>1
<1>6. y = Notes!Again(k)
  BY <1>3, <1>4, <1>5
<1>7. y.action = z.action /\ y.planned = z.planned /\ y.text = z.text /\ y.source = z.source /\ y.base = c
  BY <1>4, <1>5 DEF NotesChanges
<1>8. ASSUME NEW h \in Notes!Address
      PROVE  /\ [y EXCEPT !.action = "create", !.base = Notes!NoCopy, !.planned = h] \in NotesChanges
             /\ [y EXCEPT !.action = "create", !.base = Notes!NoCopy, !.planned = h].action = "create"
             /\ [y EXCEPT !.action = "create", !.base = Notes!NoCopy, !.planned = h].planned = h
             /\ [y EXCEPT !.action = "create", !.base = Notes!NoCopy, !.planned = h].text = y.text
             /\ [y EXCEPT !.action = "create", !.base = Notes!NoCopy, !.planned = h].source = y.source
  <2>1. h \in Nat
    BY <1>1
  <2> QED BY <1>1, <2>1, NotesRecreated
<1>9. op[k].base # Notes!NoCopy => c # Notes!NoCopy
  BY <1>2
<1> QED BY <1>4, <1>6, <1>7, <1>8, <1>9

LEMMA NotesResolveStep ==
    ASSUME NotesIInv, NEW k \in Notes!Notes, Notes!Resolve(k)
    PROVE  NotesIInv'
<1>1. NotesTypeOK /\ NotesBounds /\ NotesPlaced /\ NotesFormed(k) /\ NotesKept(k)
  BY DEF NotesIInv
<1>2. Notes!At("idle") /\ UNCHANGED <<notesServer, moving, texts>> /\ op[k].status \in {"conflict", "failed"}
  BY DEF Notes!Resolve, Notes!Review
<1>3. op[k] # Notes!NoOp /\ op[k].action \in {"create", "update", "delete"} /\ ~Notes!BeingMoved(k) /\ NotesTaken(k)
  BY <1>2, NotesBusyOps
<1>4. Notes!AcceptServer(k) \in [Notes!Notes -> NotesCopies] /\ \A n \in Notes!Notes : n # k => Notes!AcceptServer(k)[n] = record[n]
  BY NotesAccepted
<1>5. Notes!NoOp \in NotesChanges /\ Notes!NoOp.source = 0 /\ Notes!NoCopy \in NotesCopies
  BY <1>1, NotesLiterals DEF Notes!NoOp
<1>6. CASE Notes!KeepServer(k)
  <2>1. record' = Notes!AcceptServer(k) /\ op' = [op EXCEPT ![k] = Notes!NoOp] /\ owed' = [owed EXCEPT ![k] = 0] /\ UNCHANGED <<origin, work>>
    BY <1>6 DEF Notes!KeepServer
  <2>2. op'[k] = Notes!NoOp /\ owed'[k] = 0 /\ \A n \in Notes!Notes : n # k => op'[n] = op[n] /\ owed'[n] = owed[n]
    BY <1>1, <2>1 DEF NotesTypeOK
  <2>3. NotesTypeOK'
    BY <1>1, <1>2, <1>4, <1>5, <2>1 DEF NotesTypeOK
  <2>4. NotesGrows
    BY <2>1 DEF NotesGrows
  <2>5. NotesFormed(k)' /\ NotesKept(k)'
    BY <1>3, <2>2, <2>4, NotesEnds
  <2>6. \A n \in Notes!Notes : n # k => NotesFormed(n)' /\ NotesKept(n)'
    BY <1>2, <1>4, <2>1, <2>2, <2>4, NotesStays
  <2>7. \A n \in Notes!Notes : NotesLed(n)'
    <3>1. \A m \in Notes!Notes : op'[m].source \in {0, op[m].source}
      BY <1>5, <2>2
    <3>2. \A n \in Notes!Notes : Notes!BeingMoved(n) => op'[n] = Notes!NoOp /\ owed'[n] = 0
      BY <1>3, <2>2, NotesMovedOps
    <3> QED BY <3>1, <3>2, <1>2, <2>4, NotesLedStep
  <2>8. NotesSent' /\ NotesPlaced'
    BY <1>1, <1>2, <2>1 DEF NotesSent, NotesPlaced, Notes!At
  <2> QED BY <1>1, <2>3, <2>5, <2>6, <2>7, <2>8 DEF NotesIInv, NotesBounds
<1>7. CASE Notes!KeepBoth(k)
  <2>1. Notes!Fresh # {} /\ Notes!Unplanned # {}
    BY <1>7 DEF Notes!KeepBoth
  <2>2. PICK f \in Notes!Notes : f = Notes!Min(Notes!Fresh) /\ op[f] = Notes!NoOp /\ record[f] = Notes!NoCopy /\ ~NotesTaken(f) /\ ~Notes!BeingMoved(f) /\ f # 0
    BY <2>1, NotesFreshNote
  <2>3. PICK h \in Notes!Address : h = Notes!Min(Notes!Unplanned) /\ origin[h] = 0 /\ notesServer[h].text = 0
    BY <2>1, NotesFreeAddress
  <2>4. f # k /\ h \in Nat /\ 0 \in 0 .. NNew + NAddress
    BY <2>2, <1>1, <1>3, NotesIds
  <2>5. PICK x \in Nat : x = op[k].text
    BY <1>1, NotesParts DEF NotesTypeOK
  <2>6. PICK r \in NotesChanges : r = Notes!CreateOp(x, h, 0) /\ r.action = "create" /\ r.planned = h /\ r.text = x /\ r.source = 0
    BY <1>1, <2>4, NotesDrawn
  <2>7. /\ op' = [op EXCEPT ![k] = Notes!NoOp, ![f] = r] /\ origin' = [origin EXCEPT ![h] = f]
        /\ owed' = [owed EXCEPT ![k] = 0, ![f] = x] /\ record' = Notes!AcceptServer(k) /\ work' = Notes!Flush(op', FALSE)
    BY <1>7, <2>2, <2>3, <2>5, <2>6 DEF Notes!KeepBoth
  <2>8. /\ op' \in [Notes!Notes -> NotesChanges] /\ op'[f] = r /\ op'[k] = Notes!NoOp
        /\ \A n \in Notes!Notes : n # f /\ n # k => op'[n] = op[n]
    BY <2>4, <2>7, <1>1, <1>5 DEF NotesTypeOK
  <2>9. /\ owed' \in [Notes!Notes -> Nat] /\ owed'[f] = x /\ owed'[k] = 0
        /\ \A n \in Notes!Notes : n # f /\ n # k => owed'[n] = owed[n]
    BY <2>7, <2>4, <1>1 DEF NotesTypeOK
  <2>10. NotesGrows /\ origin'[h] = f
    BY <2>3, <2>7, <1>1 DEF NotesTypeOK, NotesGrows
  <2>11. work' \in NotesWorks /\ work'.at = "flush"
    BY <1>1, <2>7, NotesFlushTyped
  <2>12. NotesTypeOK'
    <3>1. origin' \in [Notes!Address -> Nat]
      BY <2>7, <1>1, NotesIds DEF NotesTypeOK
    <3> QED BY <3>1, <1>1, <1>2, <1>4, <2>7, <2>8, <2>9, <2>11 DEF NotesTypeOK
  <2>13. NotesFormed(f)' /\ NotesKept(f)'
    BY <2>3, <2>6, <2>8, <2>9, <2>10, <1>2, NotesBegins
  <2>14. NotesFormed(k)' /\ NotesKept(k)'
    BY <1>3, <2>8, <2>9, <2>10, NotesEnds
  <2>15. \A n \in Notes!Notes : n # f /\ n # k => NotesFormed(n)' /\ NotesKept(n)'
    BY <1>2, <1>4, <2>7, <2>8, <2>9, <2>10, NotesStays
  <2>16. \A n \in Notes!Notes : NotesLed(n)'
    <3>1. \A m \in Notes!Notes : op'[m].source \in {0, op[m].source}
      BY <1>5, <2>6, <2>8
    <3>2. \A n \in Notes!Notes : Notes!BeingMoved(n) => op'[n] = Notes!NoOp /\ owed'[n] = 0
      BY <1>3, <2>2, <2>8, <2>9, NotesMovedOps
    <3> QED BY <3>1, <3>2, <1>2, <2>10, NotesLedStep
  <2>17. NotesSent'
    BY <2>11 DEF NotesSent, Notes!At
  <2>18. NotesPlaced'
    BY <1>1, <1>2, <2>2, <2>7 DEF NotesPlaced, NotesTypeOK
  <2> QED BY <1>1, <2>12, <2>13, <2>14, <2>15, <2>16, <2>17, <2>18 DEF NotesIInv, NotesBounds
<1>8. CASE Notes!KeepMine(k)
  <2>1. work' = Notes!Flush(op', FALSE) /\ owed' = owed
    BY <1>8 DEF Notes!KeepMine
  <2>2. work' \in NotesWorks /\ work'.at = "flush"
    BY <1>1, <2>1, NotesFlushTyped
  <2>3. NotesSent'
    BY <2>2 DEF NotesSent, Notes!At
  <2>4. CASE op[k].gone /\ op[k].action = "delete"
    <3>1. record' = Notes!AcceptServer(k) /\ op' = [op EXCEPT ![k] = Notes!NoOp] /\ origin' = origin
      BY <1>8, <2>4 DEF Notes!KeepMine
    <3>2. op'[k] = Notes!NoOp /\ owed'[k] = 0 /\ \A n \in Notes!Notes : n # k => op'[n] = op[n]
      BY <1>1, <2>1, <2>4, <3>1 DEF NotesTypeOK, NotesKept
    <3>3. NotesTypeOK'
      BY <1>1, <1>2, <1>4, <1>5, <2>1, <2>2, <3>1 DEF NotesTypeOK
    <3>4. NotesGrows
      BY <3>1 DEF NotesGrows
    <3>5. NotesFormed(k)' /\ NotesKept(k)'
      BY <1>3, <3>2, <3>4, NotesEnds
    <3>6. \A n \in Notes!Notes : n # k => NotesFormed(n)' /\ NotesKept(n)'
      BY <1>2, <1>4, <2>1, <3>1, <3>2, <3>4, NotesStays
    <3>7. \A n \in Notes!Notes : NotesLed(n)'
      <4>1. \A m \in Notes!Notes : op'[m].source \in {0, op[m].source}
        BY <1>5, <3>2
      <4>2. \A n \in Notes!Notes : Notes!BeingMoved(n) => op'[n] = Notes!NoOp /\ owed'[n] = 0
        BY <1>3, <2>1, <3>2, NotesMovedOps
      <4> QED BY <4>1, <4>2, <1>2, <3>4, NotesLedStep
    <3>8. NotesPlaced'
      BY <1>1, <1>2, <3>1 DEF NotesPlaced
    <3> QED BY <1>1, <2>3, <3>3, <3>5, <3>6, <3>7, <3>8 DEF NotesIInv, NotesBounds
  <2>5. CASE ~(op[k].gone /\ op[k].action = "delete") /\ (op[k].action = "create" \/ op[k].gone)
    <3>1. Notes!Unplanned # {}
      BY <1>8, <2>5 DEF Notes!KeepMine
    <3>2. PICK h \in Notes!Address : h = Notes!Min(Notes!Unplanned) /\ origin[h] = 0 /\ notesServer[h].text = 0
      BY <3>1, NotesFreeAddress
    <3>3. PICK r \in NotesChanges : /\ r = [Notes!Again(k) EXCEPT !.action = "create", !.base = Notes!NoCopy, !.planned = h]
                                    /\ r.action = "create" /\ r.planned = h /\ r.text = op[k].text /\ r.source = op[k].source
      BY NotesAgain_
    <3>4. op' = [op EXCEPT ![k] = r] /\ origin' = [origin EXCEPT ![h] = k] /\ record' = [record EXCEPT ![k] = Notes!NoCopy]
      BY <1>8, <2>5, <3>2, <3>3 DEF Notes!KeepMine
    <3>5. op'[k] = r /\ \A n \in Notes!Notes : n # k => op'[n] = op[n]
      BY <1>1, <3>4 DEF NotesTypeOK
    <3>6. record'[k] = Notes!NoCopy /\ \A n \in Notes!Notes : n # k => record'[n] = record[n]
      BY <1>1, <3>4 DEF NotesTypeOK
    <3>7. NotesGrows /\ origin'[h] = k
      BY <3>2, <3>4, <1>1 DEF NotesTypeOK, NotesGrows
    <3>8. NotesTypeOK'
      <4>1. origin' \in [Notes!Address -> Nat]
        BY <3>4, <1>1, NotesIds DEF NotesTypeOK
      <4> QED BY <4>1, <1>1, <1>2, <1>5, <2>1, <2>2, <3>4 DEF NotesTypeOK
    <3>9. r.text = owed'[k] \/ owed'[k] = 0
      BY <1>1, <2>1, <3>3 DEF NotesKept
    <3>10. NotesFormed(k)' /\ NotesKept(k)'
      <4>1. op'[k].action = "create" /\ op'[k].planned = h /\ (op'[k].text = owed'[k] \/ owed'[k] = 0)
        BY <3>3, <3>5, <3>9
      <4>2. notesServer'[h].text = 0 /\ origin'[h] = k
        BY <1>2, <3>2, <3>7
      <4> QED BY <4>1, <4>2, NotesBegins
    <3>11. \A n \in Notes!Notes : n # k => NotesFormed(n)' /\ NotesKept(n)'
      BY <1>2, <2>1, <3>5, <3>6, <3>7, NotesStays
    <3>12. \A n \in Notes!Notes : NotesLed(n)'
      <4>1. \A m \in Notes!Notes : op'[m].source \in {0, op[m].source}
        BY <3>3, <3>5
      <4>2. \A n \in Notes!Notes : Notes!BeingMoved(n) => op'[n] = Notes!NoOp /\ owed'[n] = 0
        BY <1>3, <2>1, <3>5, NotesMovedOps
      <4> QED BY <4>1, <4>2, <1>2, <3>7, NotesLedStep
    <3>13. NotesPlaced'
      <4>1. k # 0
        BY <1>1, NotesIds
      <4> QED BY <4>1, <1>1, <1>2, <3>4 DEF NotesPlaced, NotesTypeOK
    <3> QED BY <1>1, <2>3, <3>8, <3>10, <3>11, <3>12, <3>13 DEF NotesIInv, NotesBounds
  <2>6. CASE op[k].action # "create" /\ ~op[k].gone
    <3>1. PICK r \in NotesChanges : /\ r = Notes!Again(k) /\ r.action = op[k].action /\ r.planned = op[k].planned /\ r.text = op[k].text
                                    /\ r.source = op[k].source /\ (op[k].base # Notes!NoCopy => r.base # Notes!NoCopy)
      BY NotesAgain_
    <3>2. record' = Notes!AcceptServer(k) /\ op' = [op EXCEPT ![k] = r] /\ origin' = origin
      BY <1>8, <2>6, <3>1 DEF Notes!KeepMine
    <3>3. op'[k] = r /\ \A n \in Notes!Notes : n # k => op'[n] = op[n]
      BY <1>1, <3>2 DEF NotesTypeOK
    <3>4. NotesTypeOK'
      BY <1>1, <1>2, <1>4, <2>1, <2>2, <3>2 DEF NotesTypeOK
    <3>5. NotesGrows
      BY <3>2 DEF NotesGrows
    <3>6. NotesFormed(k)' /\ NotesKept(k)'
      <4>1. op'[k].action = op[k].action /\ op'[k].planned = op[k].planned /\ op'[k].text = op[k].text
        BY <3>1, <3>3
      <4>2. (op[k].base # Notes!NoCopy => op'[k].base # Notes!NoCopy) /\ op[k].action # "none" /\ owed'[k] = owed[k] /\ notesServer' = notesServer
        BY <1>2, <1>3, <2>1, <3>1, <3>3
      <4>3. op[k].action = "create" /\ notesServer'[op[k].planned].text # 0 => notesServer[op[k].planned].text # 0 \/ owed'[k] = 0
        BY <2>6
      <4>4. record'[k] # Notes!NoCopy => record[k] # Notes!NoCopy \/ op[k] # Notes!NoOp \/ NotesTaken(k)
        BY <1>3
      <4>5. op[k].action = "none" => op'[k] = op[k]
        BY <4>2
      <4>6. owed'[k] \in {0, owed[k]} /\ (op[k].base # Notes!NoCopy => op'[k].base # Notes!NoCopy)
        BY <4>2
      <4> QED BY <3>5, <4>1, <4>3, <4>4, <4>5, <4>6, NotesStays
    <3>7. \A n \in Notes!Notes : n # k => NotesFormed(n)' /\ NotesKept(n)'
      BY <1>2, <1>4, <2>1, <3>2, <3>3, <3>5, NotesStays
    <3>8. \A n \in Notes!Notes : NotesLed(n)'
      <4>1. \A m \in Notes!Notes : op'[m].source \in {0, op[m].source}
        BY <3>1, <3>3
      <4>2. \A n \in Notes!Notes : Notes!BeingMoved(n) => op'[n] = Notes!NoOp /\ owed'[n] = 0
        BY <1>3, <2>1, <3>3, NotesMovedOps
      <4> QED BY <4>1, <4>2, <1>2, <3>5, NotesLedStep
    <3>9. NotesPlaced'
      BY <1>1, <1>2, <3>2 DEF NotesPlaced
    <3> QED BY <1>1, <2>3, <3>4, <3>6, <3>7, <3>8, <3>9 DEF NotesIInv, NotesBounds
  <2> QED BY <2>4, <2>5, <2>6
<1> QED BY <1>6, <1>7, <1>8 DEF Notes!Resolve

LEMMA NotesStepInv ==
    ASSUME NotesDisturbed \subseteq {"twin"}, NotesIInv, [Notes!Next]_notesVars
    PROVE  NotesIInv'
<1>1. CASE UNCHANGED notesVars
  <2>1. UNCHANGED <<notesServer, record, op, moving, texts, origin, owed, work>>
    BY <1>1 DEF notesVars
  <2>2. work' \in NotesWorks /\ NotesSent'
    BY <2>1 DEF NotesIInv, NotesTypeOK, NotesSent, Notes!At, Notes!Queued
  <2> QED BY <2>1, <2>2, NotesWorkStep
<1>2. CASE Notes!Next
  <2>1. CASE \/ Notes!PassBegins(TRUE) \/ Notes!PassBegins(FALSE) \/ \E n \in Notes!Notes : Notes!SendBegins(n)
             \/ Notes!PassEnds \/ Notes!PutOff \/ Notes!PullFails
    <3>1. UNCHANGED <<notesServer, record, op, moving, texts, origin, owed>>
      BY <2>1 DEF Notes!PassBegins, Notes!SendBegins, Notes!PassEnds, Notes!PutOff, Notes!PullFails
    <3> QED BY <2>1, <3>1, NotesWorkSteady
  <2>2. CASE Notes!Answered \/ Notes!Fetched \/ Notes!Pull \/ Notes!Rejected \/ Notes!Create
    BY <2>2, NotesAnsweredStep, NotesFetchedStep, NotesPullStep, NotesRejectedStep, NotesCreateStep
  <2>3. CASE \E n \in Notes!Notes : Notes!BecomesDue(n) \/ Notes!LocalSaved(n) \/ Notes!Resolve(n) \/ Notes!Update(n) \/ Notes!Remove(n)
    BY <2>3, NotesBecomesDueStep, NotesLocalSavedStep, NotesResolveStep, NotesUpdateStep, NotesRemoveStep
  <2>4. CASE \E n \in Notes!Notes, t \in {"server", "local"} : Notes!Transfer(n, t)
    BY <2>4, NotesTransferStep
  <2>5. CASE \E a \in Notes!Address : Notes!OtherEdits(a) \/ Notes!OtherDeletes(a)
    BY <2>5, NotesOtherStep
  <2>6. CASE \E reached \in BOOLEAN : Notes!Fails(reached) \/ Notes!Crash(reached)
    BY <2>6, NotesFailsStep, NotesCrashStep
  <2> QED BY <1>2, <2>1, <2>2, <2>3, <2>4, <2>5, <2>6 DEF Notes!Next, Notes!WorkSteps, Notes!Syncs, Notes!Waits
<1> QED BY <1>1, <1>2

LEMMA NotesSound ==
    ASSUME NotesIInv
    PROVE  Notes!EditsKept
BY DEF NotesIInv, NotesKept, Notes!EditsKept

\* The source of a move is given up only when no copy waits for it any more.
LEMMA NotesSourceStep ==
    ASSUME NotesIInv'
    PROVE  \A n, m \in Notes!Notes : op'[n].action = "delete" /\ op[n].action # "delete" /\ op'[m].source = n => Notes!Remove(n)
BY DEF NotesIInv, NotesLed, Notes!BeingMoved, Notes!NoOp

(* No version is overwritten unseen.                                       *)

\* A copy of a note is no newer than the server, and has its text while it is as new.
NotesOwned(n, c, s, o) == c = Notes!NoCopy \/
    /\ c.rev <= s[c.addr].rev /\ o[c.addr] = n
    /\ c.rev = s[c.addr].rev => c.text = s[c.addr].text

\* A change of a note on the server is based on a copy whose text was seen.
NotesBased(n) ==
    /\ NotesOwned(n, record[n], notesServer, origin) /\ NotesOwned(n, op[n].base, notesServer, origin) /\ NotesOwned(n, op[n].server, notesServer, origin)
    /\ op[n].action \in {"update", "delete"} => op[n].base.text \in seen
    /\ op[n].action = "delete" => op[n].text = 0
    /\ op[n].base # Notes!NoCopy /\ record[n] # Notes!NoCopy => record[n].addr = op[n].base.addr
    /\ op[n].server # Notes!NoCopy => op[n].base # Notes!NoCopy /\ op[n].server.addr = op[n].base.addr
    /\ op[n].gone => op[n].base # Notes!NoCopy /\ notesServer[op[n].base.addr].text = 0

\* A new note has no copy here, and none on the server when its creation is in review.
NotesUnborn(n) == op[n].action = "create" =>
    /\ record[n] = Notes!NoCopy /\ op[n].base = Notes!NoCopy /\ op[n].server = Notes!NoCopy /\ ~op[n].gone
    /\ Notes!Review(n) => notesServer[op[n].planned].text = 0

\* A note that is being moved stays the one the user saw.
NotesSteady(n) == Notes!BeingMoved(n) /\ record[n] # Notes!NoCopy =>
    record[n].text \in seen /\ notesServer[record[n].addr].rev = record[n].rev

\* A note on the server is in the cache, unless its creation is not confirmed.
NotesHas(c, p, a) == c.addr = a \/ (p.action = "create" /\ p.planned = a)
NotesLives(a) == notesServer[a].text # 0 => origin[a] \in Notes!Notes /\ NotesHas(record[origin[a]], op[origin[a]], a)

NotesViewed ==
    /\ \A n \in Notes!Notes : NotesBased(n) /\ NotesUnborn(n) /\ NotesSteady(n)
    /\ \A a \in Notes!Address : NotesLives(a)
    /\ Notes!At("fetch") => work.sent.action # "create"

\* Revisions grow, and only a queued creation fills an empty address.
NotesOnward ==
    /\ seen \subseteq seen'
    /\ \A a \in Notes!Address : notesServer'[a] = notesServer[a] \/ notesServer'[a].rev = notesServer[a].rev + 1
    /\ \A a \in Notes!Address : notesServer[a].text = 0 /\ notesServer'[a].text # 0 =>
          origin[a] \in Notes!Notes /\ op[origin[a]].action = "create" /\ op[origin[a]].planned = a /\ Notes!Queued(origin[a])

LEMMA NotesAddressed ==
    ASSUME NotesBounds, NEW c \in NotesCopies
    PROVE  /\ c.rev \in Nat /\ c.text \in Nat /\ c.addr \in Nat
           /\ c # Notes!NoCopy => c.addr \in Notes!Address /\ c.addr # 0
           /\ c.addr # 0 => c # Notes!NoCopy
           /\ Notes!NoCopy.addr = 0 /\ Notes!NoCopy.text = 0
BY NotesIds DEF NotesCopies, Notes!NoCopy

LEMMA NotesOwnedKept ==
    ASSUME NotesIInv, NotesGrows, NotesOnward, NEW n \in Notes!Notes, NEW c \in NotesCopies, NotesOwned(n, c, notesServer, origin)
    PROVE  NotesOwned(n, c, notesServer', origin')
<1>1. CASE c = Notes!NoCopy
  BY <1>1 DEF NotesOwned
<1>2. CASE c # Notes!NoCopy
  <2>1. c.addr \in Notes!Address /\ c.rev \in Nat /\ n # 0
    BY <1>2, NotesAddressed, NotesIds DEF NotesIInv
  <2>2. origin'[c.addr] = n /\ c.rev <= notesServer[c.addr].rev
    BY <1>2, <2>1 DEF NotesOwned, NotesGrows
  <2>3. CASE notesServer'[c.addr] = notesServer[c.addr]
    BY <2>2, <2>3 DEF NotesOwned
  <2>4. CASE notesServer'[c.addr].rev = notesServer[c.addr].rev + 1
    <3>1. notesServer[c.addr].rev \in Nat
      BY <2>1 DEF NotesIInv, NotesTypeOK
    <3>2. c.rev <= notesServer'[c.addr].rev /\ c.rev # notesServer'[c.addr].rev
      BY <3>1, <2>1, <2>2, <2>4
    <3> QED BY <2>2, <3>2 DEF NotesOwned
  <2> QED BY <2>1, <2>3, <2>4 DEF NotesOnward
<1> QED BY <1>1, <1>2

LEMMA NotesOpParts ==
    ASSUME NotesIInv, NEW n \in Notes!Notes
    PROVE  /\ op[n] \in NotesChanges /\ record[n] \in NotesCopies /\ op[n].base \in NotesCopies /\ op[n].server \in NotesCopies /\ n # 0
           /\ NotesBounds /\ NotesTypeOK /\ Notes!NoCopy \in NotesCopies /\ Notes!NoOp \in NotesChanges
           /\ op[n].action = "create" => op[n].planned \in Notes!Address /\ origin[op[n].planned] = n
BY NotesParts, NotesIds, NotesLiterals DEF NotesIInv, NotesTypeOK, NotesFormed

\* A note whose change stays as it is based.
LEMMA NotesStaysBased ==
    ASSUME NotesIInv, NotesViewed, NotesGrows, NotesOnward, NEW n \in Notes!Notes, record'[n] = record[n],
           op'[n].action = op[n].action, op'[n].base = op[n].base, op'[n].server = op[n].server,
           op'[n].gone = op[n].gone, op'[n].planned = op[n].planned,
           op'[n].action = "delete" => op'[n].text = 0,
           op'[n].action = "create" /\ Notes!Review(n)' => Notes!Review(n) \/ notesServer'[op[n].planned].text = 0
    PROVE  NotesBased(n)' /\ NotesUnborn(n)'
<1>1. op[n].base \in NotesCopies /\ op[n].server \in NotesCopies /\ record[n] \in NotesCopies /\ NotesBounds /\ n # 0
  BY NotesOpParts
<1>2. NotesBased(n) /\ NotesUnborn(n)
  BY DEF NotesViewed
<1>3. op[n].action = "create" => op[n].planned \in Notes!Address /\ origin[op[n].planned] = n
  BY NotesOpParts
<1>4. /\ NotesOwned(n, record[n], notesServer', origin') /\ NotesOwned(n, op[n].base, notesServer', origin')
      /\ NotesOwned(n, op[n].server, notesServer', origin')
  BY <1>1, <1>2, NotesOwnedKept DEF NotesBased
<1>5. op[n].gone => op[n].base # Notes!NoCopy /\ notesServer'[op[n].base.addr].text = 0
  <2> SUFFICES ASSUME op[n].gone PROVE notesServer'[op[n].base.addr].text = 0
    BY <1>2 DEF NotesBased
  <2>1. op[n].base # Notes!NoCopy /\ notesServer[op[n].base.addr].text = 0 /\ op[n].action # "create"
    BY <1>2 DEF NotesBased, NotesUnborn
  <2>2. op[n].base.addr \in Notes!Address /\ origin[op[n].base.addr] = n
    BY <2>1, <1>1, <1>2, NotesAddressed DEF NotesBased, NotesOwned
  <2> QED BY <2>1, <2>2 DEF NotesOnward
<1>6. NotesBased(n)'
  BY <1>2, <1>4, <1>5 DEF NotesBased, NotesOnward
<1>7. op[n].action = "create" /\ Notes!Review(n) => notesServer[op[n].planned].text = 0 /\ ~Notes!Queued(n)
  BY <1>2 DEF NotesUnborn, Notes!Review, Notes!Queued
<1>8. op[n].action = "create" /\ Notes!Review(n) => notesServer'[op[n].planned].text = 0
  BY <1>3, <1>7 DEF NotesOnward
<1>9. NotesUnborn(n)'
  BY <1>2, <1>8 DEF NotesUnborn
<1> QED BY <1>6, <1>9

\* A note without a change.
LEMMA NotesFreeBased ==
    ASSUME NEW n \in Notes!Notes, op'[n] = Notes!NoOp, NotesOwned(n, record'[n], notesServer', origin')
    PROVE  NotesBased(n)' /\ NotesUnborn(n)'
<1>1. Notes!NoOp.action = "none" /\ Notes!NoOp.base = Notes!NoCopy /\ Notes!NoOp.server = Notes!NoCopy /\ ~Notes!NoOp.gone
  BY DEF Notes!NoOp
<1> QED BY <1>1 DEF NotesBased, NotesUnborn, NotesOwned

\* A new creation, and a new change of a note that was seen.
LEMMA NotesBornBased ==
    ASSUME NEW n \in Notes!Notes, record'[n] = Notes!NoCopy, op'[n].action = "create", op'[n].status = "queued",
           op'[n].base = Notes!NoCopy, op'[n].server = Notes!NoCopy, ~op'[n].gone
    PROVE  NotesBased(n)' /\ NotesUnborn(n)'
BY DEF NotesBased, NotesUnborn, NotesOwned, Notes!Review

LEMMA NotesNewBased ==
    ASSUME NEW n \in Notes!Notes, NotesOwned(n, record'[n], notesServer', origin'), NotesOwned(n, op'[n].base, notesServer', origin'),
           op'[n].action \in {"update", "delete"}, op'[n].base.text \in seen', op'[n].action = "delete" => op'[n].text = 0,
           op'[n].base # Notes!NoCopy /\ record'[n] # Notes!NoCopy => record'[n].addr = op'[n].base.addr,
           op'[n].server = Notes!NoCopy, ~op'[n].gone
    PROVE  NotesBased(n)' /\ NotesUnborn(n)'
BY DEF NotesBased, NotesUnborn, NotesOwned

\* A note that is being moved is left alone.
LEMMA NotesStaysSteady ==
    ASSUME NotesViewed, NotesOnward, NEW n \in Notes!Notes,
           Notes!BeingMoved(n)' /\ record'[n] # Notes!NoCopy => /\ Notes!BeingMoved(n) /\ record'[n] = record[n]
                                                                /\ notesServer'[record[n].addr] = notesServer[record[n].addr]
    PROVE  NotesSteady(n)'
<1>1. NotesSteady(n)
  BY DEF NotesViewed
<1> QED BY <1>1 DEF NotesSteady, NotesOnward

LEMMA NotesMovedBefore ==
    ASSUME NotesIInv, moving' \subseteq moving, \A m \in Notes!Notes : op'[m].source \in {0, op[m].source}
    PROVE  \A n \in Notes!Notes : Notes!BeingMoved(n)' => Notes!BeingMoved(n)
BY NotesIds DEF Notes!BeingMoved, NotesIInv

\* What is on the server stays in the cache.
LEMMA NotesStaysAlive ==
    ASSUME NotesViewed, NotesGrows, NotesOnward, NotesBounds,
           \A n \in Notes!Notes, a \in Notes!Address : origin[a] = n /\ notesServer'[a].text # 0 /\ NotesHas(record[n], op[n], a)
                                                          => NotesHas(record'[n], op'[n], a)
    PROVE  \A a \in Notes!Address : NotesLives(a)'
<1> SUFFICES ASSUME NEW a \in Notes!Address, notesServer'[a].text # 0
             PROVE  origin'[a] \in Notes!Notes /\ NotesHas(record'[origin'[a]], op'[origin'[a]], a)
  BY DEF NotesLives
<1>1. origin[a] \in Notes!Notes /\ NotesHas(record[origin[a]], op[origin[a]], a)
  <2>1. CASE notesServer[a].text # 0
    BY <2>1 DEF NotesViewed, NotesLives
  <2>2. CASE notesServer[a].text = 0
    BY <2>2 DEF NotesOnward, NotesHas
  <2> QED BY <2>1, <2>2
<1>2. origin'[a] = origin[a]
  BY <1>1, NotesIds DEF NotesGrows
<1> QED BY <1>1, <1>2

\* A step that leaves the server alone.
LEMMA NotesAtRest ==
    ASSUME notesServer' = notesServer, seen \subseteq seen'
    PROVE  NotesOnward
BY DEF NotesOnward

\* What the pass sends replaces nothing that was not seen.
LEMMA NotesAimed ==
    ASSUME NotesIInv, NotesViewed, Notes!At("send") \/ Notes!At("fetch")
    PROVE  /\ origin[Notes!Target] = work.note
           /\ op[work.note].action = "create" => Notes!Target = op[work.note].planned
           /\ op[work.note].action # "create" => op[work.note].base # Notes!NoCopy /\ Notes!Target = op[work.note].base.addr
<1>1. /\ work.note \in Notes!Notes /\ work.sent = op[work.note]
      /\ op[work.note].action \in {"create", "update", "delete"}
  BY NotesAwaited
<1>2. NotesBased(work.note) /\ NotesFormed(work.note)
  BY <1>1 DEF NotesViewed, NotesIInv
<1> QED BY <1>1, <1>2 DEF Notes!Target, NotesFormed, NotesBased, NotesOwned

LEMMA NotesServedSeen ==
    ASSUME NotesIInv, NotesViewed, Notes!At("send"), Notes!ServerDoes, seen \subseteq seen'
    PROVE  /\ NotesOnward
           /\ \A a \in Notes!Address : notesServer'[a] # notesServer[a] => origin[a] = work.note /\ (notesServer[a].text = 0 \/ notesServer[a].text \in seen)
<1> DEFINE k == work.note
           o == op[k]
<1>1. /\ k \in Notes!Notes /\ work.sent = o /\ o.action \in {"create", "update", "delete"} /\ Notes!Target \in Notes!Address /\ Notes!Queued(k)
  BY NotesAwaited
<1>2. /\ origin[Notes!Target] = k
      /\ o.action = "create" => Notes!Target = o.planned
      /\ o.action # "create" => o.base # Notes!NoCopy /\ Notes!Target = o.base.addr
  BY NotesAimed
<1>3. notesServer' = IF Notes!AsIs THEN notesServer ELSE [notesServer EXCEPT ![Notes!Target] = [text |-> o.text, rev |-> notesServer[Notes!Target].rev + 1]]
  BY <1>1 DEF Notes!ServerDoes
<1>4. NotesTypeOK /\ NotesBased(k)
  BY <1>1 DEF NotesIInv, NotesViewed
<1>5. \A a \in Notes!Address : a # Notes!Target \/ Notes!AsIs => notesServer'[a] = notesServer[a]
  BY <1>3, <1>4 DEF NotesTypeOK
<1>6. ~Notes!AsIs => notesServer'[Notes!Target].rev = notesServer[Notes!Target].rev + 1 /\ notesServer'[Notes!Target].text = o.text
  BY <1>1, <1>3, <1>4 DEF NotesTypeOK
<1>7. ~Notes!AsIs /\ o.action = "create" => notesServer[Notes!Target].text = 0
  BY <1>1 DEF Notes!AsIs, Notes!Exists
<1>8. ~Notes!AsIs /\ o.action # "create" => notesServer[Notes!Target].text # 0 /\ notesServer[Notes!Target].text \in seen
  <2> SUFFICES ASSUME ~Notes!AsIs, o.action # "create" PROVE notesServer[Notes!Target].text # 0 /\ notesServer[Notes!Target].text \in seen
    OBVIOUS
  <2>1. notesServer[Notes!Target].text # 0 /\ notesServer[Notes!Target].rev = o.base.rev
    BY <1>1 DEF Notes!AsIs, Notes!Refuses, Notes!Exists
  <2>2. o.base.text = notesServer[Notes!Target].text /\ o.base.text \in seen
    BY <1>1, <1>2, <1>4, <2>1 DEF NotesBased, NotesOwned
  <2> QED BY <2>1, <2>2
<1>9. \A a \in Notes!Address : notesServer'[a] = notesServer[a] \/ notesServer'[a].rev = notesServer[a].rev + 1
  BY <1>5, <1>6
<1>10. ASSUME NEW a \in Notes!Address, notesServer[a].text = 0, notesServer'[a].text # 0
       PROVE  origin[a] \in Notes!Notes /\ op[origin[a]].action = "create" /\ op[origin[a]].planned = a /\ Notes!Queued(origin[a])
  <2>1. a = Notes!Target /\ ~Notes!AsIs
    BY <1>5, <1>10
  <2>2. o.action = "create"
    BY <2>1, <1>8, <1>10
  <2> QED BY <1>1, <1>2, <2>1, <2>2
<1>11. ASSUME NEW a \in Notes!Address, notesServer'[a] # notesServer[a]
       PROVE  origin[a] = k /\ (notesServer[a].text = 0 \/ notesServer[a].text \in seen)
  <2>1. a = Notes!Target /\ ~Notes!AsIs
    BY <1>5, <1>11
  <2> QED BY <1>2, <1>7, <1>8, <2>1
<1> QED BY <1>9, <1>10, <1>11 DEF NotesOnward

\* What the server did to one address concerns no note that is being moved.
LEMMA NotesServedSteady ==
    ASSUME NotesIInv, NotesViewed, Notes!At("send") \/ Notes!At("fetch"), seen \subseteq seen',
           \/ Notes!At("send") /\ Notes!ServerDoes
           \/ notesServer' = notesServer,
           NEW n \in Notes!Notes, n # work.note, record[n] # Notes!NoCopy
    PROVE  notesServer'[record[n].addr] = notesServer[record[n].addr]
<1>1. record[n].addr \in Notes!Address /\ origin[record[n].addr] = n
  BY NotesOpParts, NotesAddressed DEF NotesViewed, NotesBased, NotesOwned
<1> QED BY <1>1, NotesServedSeen

\* The change in flight is put back, or asked about.
LEMMA NotesPutBackViewed ==
    ASSUME NotesIInv, NotesViewed, Notes!At("send") \/ Notes!At("fetch"), NEW k \in Notes!Notes, k = work.note,
           UNCHANGED <<record, origin, seen>>, moving' \subseteq moving,
           \/ Notes!At("send") /\ Notes!ServerDoes
           \/ notesServer' = notesServer,
           \A n \in Notes!Notes : n # k => op'[n] = op[n],
           op'[k].action = op[k].action, op'[k].base = op[k].base,
           op'[k].server = op[k].server, op'[k].gone = op[k].gone,
           op'[k].planned = op[k].planned, op'[k].text = op[k].text,
           op'[k].source = op[k].source,
           op'[k].action = "create" /\ Notes!Review(k)' => notesServer'[op[k].planned].text = 0,
           Notes!At("fetch")' => Notes!At("send") /\ work'.sent = op[k] /\ op[k].action # "create"
    PROVE  NotesViewed'
<1>1. k = work.note /\ ~Notes!BeingMoved(k)
  BY NotesAwaited
<1>2. NotesOnward
  BY NotesServedSeen, NotesAtRest
<1>3. NotesGrows
  BY DEF NotesGrows
<1>4. NotesBased(k) /\ NotesBounds
  BY DEF NotesViewed, NotesIInv
<1>5. \A n \in Notes!Notes : NotesBased(n)' /\ NotesUnborn(n)'
  <2>1. NotesBased(k)' /\ NotesUnborn(k)'
    BY <1>1, <1>2, <1>3, <1>4, NotesStaysBased DEF NotesBased
  <2>2. ASSUME NEW n \in Notes!Notes, n # k PROVE NotesBased(n)' /\ NotesUnborn(n)'
    <3>1. op'[n] = op[n] /\ record'[n] = record[n] /\ NotesBased(n)
      BY <1>1, <2>2 DEF NotesViewed
    <3>2. Notes!Review(n)' => Notes!Review(n)
      BY <3>1 DEF Notes!Review
    <3> QED BY <1>2, <1>3, <3>1, <3>2, NotesStaysBased DEF NotesBased
  <2> QED BY <2>1, <2>2
<1>6. \A n \in Notes!Notes : Notes!BeingMoved(n)' => Notes!BeingMoved(n)
  <2>1. \A m \in Notes!Notes : op'[m].source \in {0, op[m].source}
    BY <1>1
  <2> QED BY <2>1, NotesMovedBefore
<1>7. \A n \in Notes!Notes : NotesSteady(n)'
  BY <1>1, <1>2, <1>6, NotesServedSteady, NotesStaysSteady
<1>8. \A a \in Notes!Address : NotesLives(a)'
  BY <1>1, <1>2, <1>3, <1>4, NotesStaysAlive DEF NotesHas
<1> QED BY <1>5, <1>7, <1>8 DEF NotesViewed, Notes!At

LEMMA NotesFailsViewed ==
    ASSUME NotesIInv, NotesViewed, NEW reached \in BOOLEAN, Notes!Fails(reached)
    PROVE  NotesViewed'
<1>1. (Notes!At("send") \/ Notes!At("fetch")) /\ ((Notes!At("send") /\ Notes!ServerDoes) \/ notesServer' = notesServer)
  BY DEF Notes!Fails, Notes!At
<1>2. PICK k \in Notes!Notes : k = work.note /\ work.sent = op[k] /\ op[k] \in NotesChanges /\ Notes!Queued(k)
  BY <1>1, NotesAwaited DEF NotesIInv, NotesTypeOK
<1>3. op' = [op EXCEPT ![k] = Notes!Postponed] /\ work' = Notes!AfterPass /\ UNCHANGED <<record, moving, origin, seen>>
  BY <1>2 DEF Notes!Fails
<1>4. op'[k] = [op[k] EXCEPT !.due = FALSE] /\ \A n \in Notes!Notes : n # k => op'[n] = op[n]
  BY <1>2, <1>3 DEF Notes!Postponed, NotesIInv, NotesTypeOK
<1>5. PICK r \in NotesChanges : r = op[k]
  BY <1>2
<1>6. op'[k] = [r EXCEPT !.due = FALSE]
  BY <1>4, <1>5
<1>7. /\ op'[k].action = r.action /\ op'[k].planned = r.planned /\ op'[k].text = r.text
      /\ op'[k].base = r.base /\ op'[k].source = r.source /\ op'[k].server = r.server
      /\ op'[k].gone = r.gone /\ op'[k].status = r.status
  BY <1>5, <1>6 DEF NotesChanges
<1>8. ~Notes!Review(k)'
  BY <1>2, <1>5, <1>7 DEF Notes!Review, Notes!Queued
<1>9. ~Notes!At("fetch")'
  BY <1>3, NotesWorkTyped DEF Notes!At
<1> QED BY <1>1, <1>2, <1>3, <1>4, <1>5, <1>7, <1>8, <1>9, NotesPutBackViewed

\* The source of a move, and a note the user deletes.
NotesGoing(n) == [Notes!NoOp EXCEPT !.action = "delete", !.status = "queued", !.base = record[n]]

LEMMA NotesDeletedAs ==
    ASSUME NotesIInv, NEW k \in Notes!Notes, op[k] = Notes!NoOp, NEW ops \in [Notes!Notes -> NotesChanges], ops[k] = Notes!NoOp
    PROVE  /\ Notes!QueueDelete(ops, k)[k] = Notes!NoOp \/ (Notes!QueueDelete(ops, k)[k] = NotesGoing(k) /\ record[k] # Notes!NoCopy)
           /\ \A n \in Notes!Notes : n # k => Notes!QueueDelete(ops, k)[n] = ops[n]
<1>1. Notes!NoOp.text = 0 /\ Notes!NoOp.action = "none"
  BY DEF Notes!NoOp
<1>2. CASE ~(Notes!Effective(k) /\ Notes!Settled(k))
  BY <1>2 DEF Notes!QueueDelete
<1>3. CASE Notes!Effective(k) /\ Notes!Settled(k)
  <2>1. record[k] # Notes!NoCopy
    BY <1>1, <1>3 DEF Notes!Effective
  <2>2. Notes!QueueDelete(ops, k) = [ops EXCEPT ![k] = NotesGoing(k)]
    BY <1>1, <1>3 DEF Notes!QueueDelete, NotesGoing
  <2> QED BY <2>1, <2>2
<1> QED BY <1>2, <1>3

LEMMA NotesGoingParts ==
    ASSUME NotesIInv, NEW n \in Notes!Notes
    PROVE  /\ NotesGoing(n).action = "delete" /\ NotesGoing(n).text = 0 /\ NotesGoing(n).base = record[n] /\ NotesGoing(n).server = Notes!NoCopy
           /\ ~NotesGoing(n).gone /\ NotesGoing(n).source = 0 /\ NotesGoing(n).status = "queued"
           /\ Notes!NoOp.source = 0 /\ Notes!NoOp.action = "none"
BY DEF NotesGoing, Notes!NoOp

LEMMA NotesDeletedBased ==
    ASSUME NotesIInv, NotesViewed, NotesGrows, NotesOnward, NEW n \in Notes!Notes, op'[n] \in {Notes!NoOp, NotesGoing(n)}, record'[n] = record[n],
           record[n].text \in seen' \/ op'[n] = Notes!NoOp
    PROVE  NotesBased(n)' /\ NotesUnborn(n)'
<1>1. NotesOwned(n, record[n], notesServer', origin')
  BY NotesOpParts, NotesOwnedKept DEF NotesViewed, NotesBased
<1>2. CASE op'[n] = Notes!NoOp
  BY <1>1, <1>2, NotesFreeBased
<1>3. CASE op'[n] = NotesGoing(n) /\ op'[n] # Notes!NoOp
  BY <1>1, <1>3, NotesGoingParts, NotesNewBased
<1> QED BY <1>2, <1>3

\* Only one address can hold what is known of a note that is being sent.
LEMMA NotesOneHome ==
    ASSUME NotesIInv, NotesViewed, Notes!At("send") \/ Notes!At("fetch"), NEW a \in Notes!Address, NotesHas(record[work.note], op[work.note], a)
    PROVE  a = Notes!Target
<1>1. PICK k \in Notes!Notes : k = work.note
  BY NotesAwaited
<1>2. NotesBased(k) /\ NotesUnborn(k) /\ record[k] \in NotesCopies /\ NotesBounds /\ a # 0
  BY NotesOpParts, NotesIds DEF NotesViewed
<1>3. CASE op[k].action = "create"
  BY <1>1, <1>2, <1>3, NotesAimed, NotesAddressed DEF NotesHas, NotesUnborn
<1>4. CASE op[k].action # "create"
  <2>1. record[k].addr = a /\ record[k] # Notes!NoCopy
    BY <1>1, <1>2, <1>4, NotesAddressed DEF NotesHas
  <2> QED BY <2>1, <1>1, <1>2, <1>4, NotesAimed DEF NotesBased
<1> QED BY <1>3, <1>4

\* The change in flight is over.
LEMMA NotesEndsViewed ==
    ASSUME NotesIInv, NotesViewed, Notes!At("send") \/ Notes!At("fetch"), NEW k \in Notes!Notes, k = work.note,
           UNCHANGED <<moving, origin, seen>>, ~Notes!At("fetch")',
           \/ Notes!At("send") /\ Notes!ServerDoes
           \/ notesServer' = notesServer,
           NEW c \in NotesCopies, record' = [record EXCEPT ![k] = c], NotesOwned(k, c, notesServer', origin),
           notesServer'[Notes!Target].text # 0 => c.addr = Notes!Target,
           op'[k] = Notes!NoOp,
           \A n \in Notes!Notes : n # k => op'[n] = op[n] \/ (Notes!BeingMoved(n) /\ op'[n] = NotesGoing(n) /\ record[n] # Notes!NoCopy)
    PROVE  NotesViewed'
<1>1. NotesOnward /\ seen' = seen
  BY NotesServedSeen, NotesAtRest
<1>2. NotesGrows
  BY DEF NotesGrows
<1>3. record'[k] = c /\ \A n \in Notes!Notes : n # k => record'[n] = record[n]
  BY DEF NotesIInv, NotesTypeOK
<1>4. ASSUME NEW n \in Notes!Notes, n # k PROVE NotesBased(n)' /\ NotesUnborn(n)'
  <2>1. record'[n] = record[n] /\ NotesBased(n) /\ NotesSteady(n)
    BY <1>3, <1>4 DEF NotesViewed
  <2>2. CASE op'[n] = op[n]
    <3>1. Notes!Review(n)' => Notes!Review(n)
      BY <2>2 DEF Notes!Review
    <3> QED BY <1>1, <1>2, <2>1, <2>2, <3>1, NotesStaysBased DEF NotesBased
  <2>3. CASE Notes!BeingMoved(n) /\ op'[n] = NotesGoing(n) /\ record[n] # Notes!NoCopy
    <3>1. record[n].text \in seen'
      BY <1>1, <2>1, <2>3 DEF NotesSteady
    <3> QED BY <1>1, <1>2, <2>1, <2>3, <3>1, NotesDeletedBased
  <2> QED BY <1>4, <2>2, <2>3
<1>5. NotesBased(k)' /\ NotesUnborn(k)'
  BY <1>3, NotesFreeBased
<1>6. \A n \in Notes!Notes : Notes!BeingMoved(n)' => Notes!BeingMoved(n)
  <2>1. \A m \in Notes!Notes : op'[m].source \in {0, op[m].source}
    BY NotesGoingParts
  <2> QED BY <2>1, NotesMovedBefore
<1>7. \A n \in Notes!Notes : NotesSteady(n)'
  <2>1. ~Notes!BeingMoved(k)
    BY NotesAwaited
  <2> QED BY <1>1, <1>3, <1>6, <2>1, NotesServedSteady, NotesStaysSteady
<1>8. \A a \in Notes!Address : NotesLives(a)'
  <2> SUFFICES ASSUME NEW n \in Notes!Notes, NEW a \in Notes!Address, origin[a] = n, notesServer'[a].text # 0, NotesHas(record[n], op[n], a)
               PROVE  NotesHas(record'[n], op'[n], a)
    BY <1>1, <1>2, NotesStaysAlive DEF NotesIInv
  <2>1. CASE n = k
    BY <1>3, <2>1, NotesOneHome DEF NotesHas
  <2>2. CASE n # k
    <3>1. op'[n] = op[n] \/ op[n] = Notes!NoOp
      BY <2>2, NotesMovedOps
    <3> QED BY <1>3, <2>2, <3>1, NotesGoingParts DEF NotesHas
  <2> QED BY <2>1, <2>2
<1> QED BY <1>4, <1>5, <1>7, <1>8 DEF NotesViewed

LEMMA NotesCopySame ==
    ASSUME NotesIInv, NEW a \in Notes!Address
    PROVE  /\ Notes!CopyAt(a) = Notes!NoCopy <=> notesServer[a].text = 0
           /\ Notes!CopyAt(a) # Notes!NoCopy => Notes!CopyAt(a).addr = a /\ Notes!CopyAt(a).text = notesServer[a].text /\ Notes!CopyAt(a).rev = notesServer[a].rev
           /\ NotesOwned(origin[a], Notes!CopyAt(a), notesServer, origin)
<1>1. a # 0 /\ notesServer[a].rev \in Nat
  BY NotesIds DEF NotesIInv, NotesTypeOK
<1>2. CASE notesServer[a].text = 0
  BY <1>2 DEF Notes!CopyAt, NotesOwned
<1>3. CASE notesServer[a].text # 0
  <2>1. Notes!CopyAt(a) = [addr |-> a, text |-> notesServer[a].text, rev |-> notesServer[a].rev]
    BY <1>3 DEF Notes!CopyAt
  <2>2. Notes!CopyAt(a).addr = a /\ Notes!CopyAt(a).text = notesServer[a].text /\ Notes!CopyAt(a).rev = notesServer[a].rev
    BY <2>1
  <2> QED BY <1>1, <1>3, <2>2 DEF NotesOwned, Notes!NoCopy
<1> QED BY <1>2, <1>3

LEMMA NotesRejectedViewed ==
    ASSUME NotesDisturbed = {}, NotesIInv, NotesViewed, Notes!Rejected
    PROVE  NotesViewed'
<1>1. Notes!At("send") /\ ~Notes!Unconfirmed(work.note)
  BY DEF Notes!Rejected
<1>2. PICK k \in Notes!Notes : k = work.note /\ work.sent = op[k] /\ op[k] \in NotesChanges
  BY <1>1, NotesAwaited DEF NotesIInv, NotesTypeOK
<1>3. op' = [op EXCEPT ![k] = [op[k] EXCEPT !.status = "failed"]] /\ work' = Notes!NextChange /\ UNCHANGED <<notesServer, record, moving, origin, seen>>
  BY <1>2 DEF Notes!Rejected, Notes!Fail
<1>4. op'[k] = [op[k] EXCEPT !.status = "failed"] /\ \A n \in Notes!Notes : n # k => op'[n] = op[n]
  BY <1>2, <1>3 DEF NotesIInv, NotesTypeOK
<1>5. PICK r \in NotesChanges : r = op[k]
  BY <1>2
<1>6. op'[k] = [r EXCEPT !.status = "failed"]
  BY <1>4, <1>5
<1>7. /\ op'[k].action = r.action /\ op'[k].planned = r.planned /\ op'[k].text = r.text
      /\ op'[k].base = r.base /\ op'[k].source = r.source /\ op'[k].server = r.server
      /\ op'[k].gone = r.gone
  BY <1>5, <1>6 DEF NotesChanges
<1>8. op[k].action = "create" => notesServer'[op[k].planned].text = 0
  BY <1>1, <1>2, <1>3 DEF Notes!Unconfirmed
<1>9. ~Notes!At("fetch")'
  BY <1>3, NotesWorkTyped DEF Notes!At
<1> QED BY <1>1, <1>2, <1>3, <1>4, <1>5, <1>7, <1>8, <1>9, NotesPutBackViewed

LEMMA NotesFetchedViewed ==
    ASSUME NotesIInv, NotesViewed, Notes!Fetched
    PROVE  NotesViewed'
<1>1. Notes!At("fetch") /\ work' = Notes!NextChange /\ UNCHANGED <<notesServer, moving, origin, seen>>
  BY DEF Notes!Fetched
<1>2. PICK k \in Notes!Notes : k = work.note /\ work.sent = op[k] /\ op[k] \in NotesChanges /\ ~Notes!BeingMoved(k)
  BY <1>1, NotesAwaited DEF NotesIInv, NotesTypeOK
<1>3. /\ Notes!Target \in Notes!Address /\ origin[Notes!Target] = k /\ op[k].action # "create"
      /\ op[k].base # Notes!NoCopy /\ Notes!Target = op[k].base.addr
  BY <1>1, <1>2, NotesAwaited, NotesAimed DEF NotesViewed
<1>4. ~Notes!At("fetch")'
  BY <1>1, NotesWorkTyped DEF Notes!At
<1>5. CASE Notes!CopyAt(Notes!Target) = Notes!NoCopy /\ op[k].action = "delete"
  <2>1. record' = [record EXCEPT ![k] = Notes!NoCopy] /\ op' = [op EXCEPT ![k] = Notes!NoOp]
    BY <1>2, <1>5 DEF Notes!Fetched
  <2>2. op'[k] = Notes!NoOp /\ \A n \in Notes!Notes : n # k => op'[n] = op[n]
    BY <2>1 DEF NotesIInv, NotesTypeOK
  <2>3. Notes!NoCopy \in NotesCopies /\ NotesOwned(k, Notes!NoCopy, notesServer', origin) /\ notesServer'[Notes!Target].text = 0
    BY <1>1, <1>3, <1>5, NotesOpParts, NotesCopySame DEF NotesOwned
  <2> QED BY <1>1, <1>2, <1>4, <2>1, <2>2, <2>3, NotesEndsViewed
<1>6. CASE ~(Notes!CopyAt(Notes!Target) = Notes!NoCopy /\ op[k].action = "delete")
  <2>1. PICK c \in NotesCopies : c = Notes!CopyAt(Notes!Target)
    BY <1>3, NotesCopyTyped DEF NotesIInv
  <2>2. PICK g \in BOOLEAN : g = (c = Notes!NoCopy)
    OBVIOUS
  <2>3. op' = [op EXCEPT ![k] = [op[k] EXCEPT !.status = "conflict", !.server = c, !.gone = g]] /\ record' = record
    BY <1>2, <1>6, <2>1, <2>2 DEF Notes!Fetched
  <2>4. op'[k] = [op[k] EXCEPT !.status = "conflict", !.server = c, !.gone = g] /\ \A n \in Notes!Notes : n # k => op'[n] = op[n]
    BY <2>3 DEF NotesIInv, NotesTypeOK
  <2>5. PICK r \in NotesChanges : r = op[k]
    BY <1>2
  <2>6. op'[k] = [r EXCEPT !.status = "conflict", !.server = c, !.gone = g]
    BY <2>4, <2>5
  <2>7. /\ op'[k].action = r.action /\ op'[k].text = r.text /\ op'[k].base = r.base
        /\ op'[k].source = r.source /\ op'[k].server = c /\ op'[k].gone = g
    BY <2>5, <2>6 DEF NotesChanges
  <2>8. NotesOnward /\ NotesGrows
    BY <1>1, NotesAtRest DEF NotesGrows
  <2>9. NotesBased(k)' /\ NotesUnborn(k)'
    <3>1. NotesBased(k) /\ NotesOwned(k, c, notesServer, origin)
      BY <1>3, <2>1, NotesCopySame DEF NotesViewed
    <3>2. c # Notes!NoCopy => c.addr = Notes!Target
      BY <1>3, <2>1, NotesCopySame
    <3>3. g => notesServer[Notes!Target].text = 0
      BY <1>3, <2>1, <2>2, NotesCopySame
    <3> QED BY <1>1, <1>3, <2>3, <2>5, <2>7, <3>1, <3>2, <3>3 DEF NotesBased, NotesUnborn
  <2>10. ASSUME NEW n \in Notes!Notes, n # k PROVE NotesBased(n)' /\ NotesUnborn(n)'
    <3>1. op'[n] = op[n] /\ record'[n] = record[n] /\ NotesBased(n)
      BY <2>3, <2>4, <2>10 DEF NotesViewed
    <3>2. Notes!Review(n)' => Notes!Review(n)
      BY <3>1 DEF Notes!Review
    <3> QED BY <2>8, <3>1, <3>2, NotesStaysBased DEF NotesBased
  <2>11. \A n \in Notes!Notes : Notes!BeingMoved(n)' => Notes!BeingMoved(n)
    <3>1. \A m \in Notes!Notes : op'[m].source \in {0, op[m].source}
      BY <2>4, <2>5, <2>7
    <3> QED BY <1>1, <3>1, NotesMovedBefore
  <2>12. \A n \in Notes!Notes : NotesSteady(n)'
    BY <1>1, <2>3, <2>8, <2>11, NotesStaysSteady
  <2>13. \A a \in Notes!Address : NotesLives(a)'
    <3>1. \A n \in Notes!Notes : op'[n].action = op[n].action /\ (op[n].action = "create" => op'[n] = op[n])
      BY <1>3, <2>4, <2>5, <2>7
    <3> QED BY <2>3, <2>8, <3>1, NotesStaysAlive DEF NotesHas, NotesIInv
  <2> QED BY <1>4, <2>9, <2>10, <2>12, <2>13 DEF NotesViewed
<1> QED BY <1>5, <1>6

LEMMA NotesAnsweredViewed ==
    ASSUME NotesIInv, NotesViewed, Notes!Answered
    PROVE  NotesViewed'
<1>1. Notes!At("send") /\ Notes!ServerDoes /\ UNCHANGED <<moving, origin, seen>>
  BY DEF Notes!Answered
<1>2. PICK k \in Notes!Notes : k = work.note /\ work.sent = op[k] /\ op[k] \in NotesChanges /\ Notes!Queued(k)
  BY <1>1, NotesAwaited DEF NotesIInv, NotesTypeOK
<1>3. Notes!Target \in Notes!Address /\ origin[Notes!Target] = k /\ Notes!Target # 0
  BY <1>1, <1>2, NotesAwaited, NotesAimed, NotesIds DEF NotesIInv
<1>4. CASE Notes!Refuses
  <2>1. UNCHANGED <<record, op>> /\ work' = [work EXCEPT !.at = "fetch"]
    BY <1>4 DEF Notes!Answered
  <2>2. work'.sent = op[k] /\ op[k].action # "create"
    BY <1>2, <1>4, <2>1, NotesWorkTyped DEF Notes!Refuses
  <2>3. ~Notes!Review(k)'
    BY <1>2, <2>1 DEF Notes!Review, Notes!Queued
  <2> QED BY <1>1, <1>2, <2>1, <2>2, <2>3, NotesPutBackViewed
<1>5. ~Notes!Clash
  <2> SUFFICES ASSUME NEW m \in Notes!Notes, m # k, record[m].addr = Notes!Target PROVE FALSE
    BY <1>2 DEF Notes!Clash
  <2>1. record[m] # Notes!NoCopy
    BY <1>3, NotesOpParts, NotesAddressed
  <2> QED BY <1>3, <2>1 DEF NotesViewed, NotesBased, NotesOwned
<1>6. CASE ~Notes!Refuses
  <2>1. work' = Notes!NextChange
    BY <1>6 DEF Notes!Answered
  <2>2. ~Notes!At("fetch")'
    BY <2>1, NotesWorkTyped DEF Notes!At
  <2>3. Notes!Completed = [op EXCEPT ![k] = Notes!NoOp] /\ op \in [Notes!Notes -> NotesChanges] /\ Notes!NoOp \in NotesChanges
    BY <1>2, NotesOpParts DEF Notes!Completed, NotesIInv, NotesTypeOK
  <2>4. PICK done \in [Notes!Notes -> NotesChanges] : done = Notes!Completed /\ done[k] = Notes!NoOp /\ \A n \in Notes!Notes : n # k => done[n] = op[n]
    BY <2>3, Zenon
  <2>5. PICK s \in 0 .. NNew + NAddress : s = op[k].source
    BY <1>2, NotesParts
  <2>6. op' = done \/ (s # 0 /\ op' = Notes!QueueDelete(done, s))
    BY <1>2, <1>5, <1>6, <2>4, <2>5 DEF Notes!Answered, Notes!SourceLeaves
  <2>7. op'[k] = Notes!NoOp /\ \A n \in Notes!Notes : n # k => op'[n] = op[n] \/ (Notes!BeingMoved(n) /\ op'[n] = NotesGoing(n) /\ record[n] # Notes!NoCopy)
    <3>1. CASE op' = done
      BY <2>4, <3>1
    <3>2. CASE s # 0 /\ op' = Notes!QueueDelete(done, s)
      <4>1. s \in Notes!Notes
        BY <3>2, NotesIds DEF NotesIInv
      <4>2. Notes!BeingMoved(s)
        BY <2>5, <4>1 DEF Notes!BeingMoved
      <4>3. op[s] = Notes!NoOp /\ s # k
        BY <4>1, <4>2, <1>1, <1>2, NotesMovedOps, NotesAwaited
      <4>4. done[s] = Notes!NoOp
        BY <2>4, <4>1, <4>3
      <4>5. /\ op'[s] = Notes!NoOp \/ (op'[s] = NotesGoing(s) /\ record[s] # Notes!NoCopy)
            /\ \A n \in Notes!Notes : n # s => op'[n] = done[n]
        BY <3>2, <4>1, <4>3, <4>4, NotesDeletedAs
      <4> QED BY <2>4, <4>1, <4>2, <4>3, <4>5
    <3> QED BY <2>6, <3>1, <3>2
  <2>8. CASE op[k].action = "delete"
    <3>1. record' = [record EXCEPT ![k] = Notes!NoCopy]
      BY <1>2, <1>6, <2>8 DEF Notes!Answered
    <3>2. notesServer'[Notes!Target].text = 0
      <4>1. op[k].text = 0
        BY <2>8 DEF NotesViewed, NotesBased
      <4> QED BY <4>1, <1>1, <1>2, <1>3, <1>6, <2>8 DEF Notes!ServerDoes, Notes!AsIs, Notes!Exists, NotesIInv,
           NotesTypeOK
    <3>3. Notes!NoCopy \in NotesCopies /\ NotesOwned(k, Notes!NoCopy, notesServer', origin)
      BY NotesOpParts DEF NotesOwned
    <3> QED BY <1>1, <1>2, <2>2, <2>7, <3>1, <3>2, <3>3, NotesEndsViewed
  <2>9. CASE op[k].action # "delete"
    <3>1. record' = [record EXCEPT ![k] = Notes!Answer]
      BY <1>2, <1>5, <1>6, <2>9 DEF Notes!Answered
    <3>2. notesServer' \in [Notes!Address -> [text : Nat, rev : Nat]] /\ Notes!Target \in Nat
      BY <1>1, <1>3, NotesServed, NotesIds DEF NotesIInv
    <3>3. PICK c \in NotesCopies : c = Notes!Answer /\ c.addr = Notes!Target /\ c.text = notesServer'[Notes!Target].text /\ c.rev = notesServer'[Notes!Target].rev
      <4>1. Notes!Answer \in NotesCopies
        BY <1>3, <3>2 DEF Notes!Answer, NotesCopies
      <4> QED BY <4>1 DEF Notes!Answer
    <3>4. NotesOwned(k, c, notesServer', origin)
      BY <1>3, <3>2, <3>3 DEF NotesOwned
    <3> QED BY <1>1, <1>2, <2>2, <2>7, <3>1, <3>3, <3>4, NotesEndsViewed
  <2> QED BY <2>8, <2>9
<1> QED BY <1>4, <1>6

LEMMA NotesSameBased ==
    ASSUME NotesIInv, NotesViewed, NotesGrows, NotesOnward, NEW n \in Notes!Notes, op'[n] = op[n], record'[n] = record[n]
    PROVE  NotesBased(n)' /\ NotesUnborn(n)'
<1>1. Notes!Review(n)' => Notes!Review(n)
  BY DEF Notes!Review
<1>2. op[n].action = "delete" => op[n].text = 0
  BY DEF NotesViewed, NotesBased
<1> QED BY <1>1, <1>2, NotesStaysBased

\* A step of the pass or of the clock that leaves the notes alone.
LEMMA NotesWorkViewed ==
    ASSUME NotesIInv, NotesViewed, UNCHANGED <<notesServer, record, op, moving, origin, seen>>,
           Notes!At("fetch")' => Notes!At("fetch") /\ work'.sent = work.sent
    PROVE  NotesViewed'
<1>1. \A n \in Notes!Notes : NotesBased(n)' /\ NotesUnborn(n)' /\ NotesSteady(n)'
  BY DEF NotesViewed, NotesBased, NotesUnborn, NotesSteady, Notes!BeingMoved, Notes!Review
<1>2. \A a \in Notes!Address : NotesLives(a)'
  BY DEF NotesViewed, NotesLives
<1> QED BY <1>1, <1>2 DEF NotesViewed

LEMMA NotesPassViewed ==
    ASSUME NotesIInv, NotesViewed,
           \/ Notes!PassBegins(TRUE) \/ Notes!PassBegins(FALSE) \/ \E n \in Notes!Notes : Notes!SendBegins(n)
           \/ Notes!PassEnds \/ Notes!PutOff \/ Notes!PullFails
    PROVE  NotesViewed'
<1>1. ~Notes!At("fetch")'
  <2>1. ASSUME NEW b \in BOOLEAN, Notes!PassBegins(b) PROVE ~Notes!At("fetch")'
    BY <2>1, NotesFlushTyped DEF Notes!PassBegins, Notes!At, NotesIInv
  <2>2. ASSUME NEW n \in Notes!Notes, Notes!SendBegins(n) PROVE ~Notes!At("fetch")'
    <3>1. work'.at = "send"
      BY <2>2 DEF Notes!SendBegins, NotesIInv, NotesTypeOK, NotesWorks
    <3> QED BY <3>1 DEF Notes!At
  <2>3. ASSUME Notes!PassEnds \/ Notes!PutOff \/ Notes!PullFails PROVE ~Notes!At("fetch")'
    BY <2>3, NotesWorkTyped DEF Notes!PassEnds, Notes!PutOff, Notes!PullFails, Notes!At
  <2> QED BY <2>1, <2>2, <2>3
<1> QED BY <1>1, NotesWorkViewed DEF Notes!PassBegins, Notes!SendBegins, Notes!PassEnds, Notes!PutOff,
     Notes!PullFails

LEMMA NotesBecomesDueViewed ==
    ASSUME NotesIInv, NotesViewed, NEW k \in Notes!Notes, Notes!BecomesDue(k)
    PROVE  NotesViewed'
<1>1. UNCHANGED <<notesServer, record, work, moving, origin, seen>> /\ op \in [Notes!Notes -> NotesChanges] /\ op[k] \in NotesChanges
  BY DEF Notes!BecomesDue, NotesIInv, NotesTypeOK
<1>2. op' = [op EXCEPT ![k] = [op[k] EXCEPT !.due = TRUE]]
  BY DEF Notes!BecomesDue
<1>3. op'[k] = [op[k] EXCEPT !.due = TRUE] /\ \A n \in Notes!Notes : n # k => op'[n] = op[n]
  BY <1>1, <1>2
<1>4. PICK r \in NotesChanges : r = op[k]
  BY <1>1
<1>5. op'[k] = [r EXCEPT !.due = TRUE]
  BY <1>3, <1>4
<1>6. /\ op'[k].action = r.action /\ op'[k].planned = r.planned /\ op'[k].text = r.text
      /\ op'[k].base = r.base /\ op'[k].source = r.source /\ op'[k].server = r.server
      /\ op'[k].gone = r.gone /\ op'[k].status = r.status
  BY <1>4, <1>5 DEF NotesChanges
<1>7. NotesGrows /\ NotesOnward
  BY <1>1, NotesAtRest DEF NotesGrows
<1>8. \A n \in Notes!Notes : NotesBased(n)' /\ NotesUnborn(n)'
  <2>1. Notes!Review(k)' => Notes!Review(k)
    BY <1>4, <1>6 DEF Notes!Review
  <2>2. op[k].action = "delete" => op[k].text = 0
    BY DEF NotesViewed, NotesBased
  <2>3. NotesBased(k)' /\ NotesUnborn(k)'
    BY <1>1, <1>4, <1>6, <1>7, <2>1, <2>2, NotesStaysBased
  <2> QED BY <1>1, <1>3, <1>7, <2>3, NotesSameBased
<1>9. \A n \in Notes!Notes : NotesSteady(n)'
  <2>1. \A m \in Notes!Notes : op'[m].source \in {0, op[m].source}
    BY <1>3, <1>4, <1>6
  <2> QED BY <1>1, <1>7, <2>1, NotesMovedBefore, NotesStaysSteady
<1>10. \A a \in Notes!Address : NotesLives(a)'
  BY <1>1, <1>3, <1>4, <1>6, <1>7, NotesStaysAlive DEF NotesHas, NotesIInv
<1> QED BY <1>1, <1>8, <1>9, <1>10 DEF NotesViewed, Notes!At

LEMMA NotesCrashViewed ==
    ASSUME NotesIInv, NotesViewed, NEW reached \in BOOLEAN, Notes!Crash(reached)
    PROVE  NotesViewed'
<1>1. /\ work' = Notes!Idle /\ moving' = {} /\ UNCHANGED <<record, op, origin, seen>>
      /\ (Notes!At("send") /\ Notes!ServerDoes) \/ notesServer' = notesServer
  BY DEF Notes!Crash
<1>2. ~Notes!At("fetch")'
  BY <1>1 DEF Notes!At, Notes!Idle
<1>3. CASE Notes!At("send") /\ Notes!ServerDoes
  <2>1. PICK k \in Notes!Notes : k = work.note /\ Notes!Queued(k)
    BY <1>3, NotesAwaited
  <2>2. ~Notes!Review(k)'
    BY <1>1, <2>1 DEF Notes!Review, Notes!Queued
  <2> QED BY <1>1, <1>2, <1>3, <2>1, <2>2, NotesPutBackViewed
<1>4. CASE notesServer' = notesServer
  <2>1. NotesGrows /\ NotesOnward
    BY <1>1, <1>4, NotesAtRest DEF NotesGrows
  <2>2. \A n \in Notes!Notes : NotesBased(n)' /\ NotesUnborn(n)'
    BY <1>1, <2>1, NotesSameBased
  <2>3. \A n \in Notes!Notes : NotesSteady(n)'
    <3>1. \A n \in Notes!Notes : Notes!BeingMoved(n)' => Notes!BeingMoved(n)
      BY <1>1 DEF Notes!BeingMoved
    <3> QED BY <1>1, <1>4, <2>1, <3>1, NotesStaysSteady
  <2>4. \A a \in Notes!Address : NotesLives(a)'
    BY <1>1, <1>4, <2>1, NotesStaysAlive DEF NotesIInv
  <2> QED BY <1>2, <2>2, <2>3, <2>4 DEF NotesViewed
<1> QED BY <1>1, <1>3, <1>4

LEMMA NotesOtherViewed ==
    ASSUME NotesDisturbed = {}, NotesIInv, NotesViewed, NEW h \in Notes!Address, Notes!OtherEdits(h) \/ Notes!OtherDeletes(h)
    PROVE  NotesViewed'
<1>1. PICK t \in Nat : Notes!OtherClient(h, t)
  BY DEF Notes!OtherEdits, Notes!OtherDeletes, NotesIInv, NotesTypeOK
<1>2. /\ notesServer[h].text # 0 /\ notesServer' = [notesServer EXCEPT ![h] = [text |-> t, rev |-> notesServer[h].rev + 1]]
      /\ UNCHANGED <<record, op, work, moving, origin, seen>> /\ \A n \in Notes!KnownAs(h) : ~Notes!BeingMoved(n)
  BY <1>1 DEF Notes!OtherClient
<1>3. notesServer'[h].rev = notesServer[h].rev + 1 /\ \A a \in Notes!Address : a # h => notesServer'[a] = notesServer[a]
  BY <1>2 DEF NotesIInv, NotesTypeOK
<1>4. NotesGrows /\ NotesOnward
  BY <1>2, <1>3 DEF NotesGrows, NotesOnward
<1>5. \A n \in Notes!Notes : NotesBased(n)' /\ NotesUnborn(n)'
  BY <1>2, <1>4, NotesSameBased
<1>6. \A n \in Notes!Notes : NotesSteady(n)'
  <2>1. ASSUME NEW n \in Notes!Notes, Notes!BeingMoved(n)', record'[n] # Notes!NoCopy
        PROVE  Notes!BeingMoved(n) /\ record'[n] = record[n] /\ notesServer'[record[n].addr] = notesServer[record[n].addr]
    <3>1. Notes!BeingMoved(n) /\ record'[n] = record[n] /\ record[n].addr \in Notes!Address
      BY <1>2, <2>1, NotesOpParts, NotesAddressed DEF Notes!BeingMoved
    <3>2. record[n].addr # h
      BY <1>2, <3>1 DEF Notes!KnownAs
    <3> QED BY <1>3, <3>1, <3>2
  <2> QED BY <1>4, <2>1, NotesStaysSteady
<1>7. \A a \in Notes!Address : NotesLives(a)'
  BY <1>2, <1>4, NotesStaysAlive DEF NotesIInv
<1> QED BY <1>2, <1>5, <1>6, <1>7 DEF NotesViewed, Notes!At

LEMMA NotesDrawnParts ==
    ASSUME NEW text, NEW a, NEW b
    PROVE  /\ Notes!CreateOp(text, a, b).base = Notes!NoCopy /\ Notes!CreateOp(text, a, b).server = Notes!NoCopy /\ ~Notes!CreateOp(text, a, b).gone
           /\ Notes!CreateOp(text, a, b).status = "queued" /\ Notes!CreateOp(text, a, b).action = "create"
           /\ Notes!CreateOp(text, a, b).source = b
BY DEF Notes!CreateOp, Notes!NoOp

LEMMA NotesCreateViewed ==
    ASSUME NotesIInv, NotesViewed, Notes!Create
    PROVE  NotesViewed'
<1>1. Notes!Fresh # {} /\ Notes!Unplanned # {} /\ UNCHANGED <<notesServer, record, work, moving, seen>>
  BY DEF Notes!Create
<1>2. PICK k \in Notes!Notes : k = Notes!Min(Notes!Fresh) /\ op[k] = Notes!NoOp /\ record[k] = Notes!NoCopy /\ ~Notes!BeingMoved(k)
  BY <1>1, NotesFreshNote
<1>3. PICK h \in Notes!Address : h = Notes!Min(Notes!Unplanned) /\ origin[h] = 0
  BY <1>1, NotesFreeAddress
<1>4. op' = [op EXCEPT ![k] = Notes!CreateOp(texts + 1, h, 0)] /\ origin' = [origin EXCEPT ![h] = k]
  BY <1>2, <1>3 DEF Notes!Create
<1>5. op'[k] = Notes!CreateOp(texts + 1, h, 0) /\ \A n \in Notes!Notes : n # k => op'[n] = op[n]
  BY <1>4 DEF NotesIInv, NotesTypeOK
<1>6. NotesGrows /\ NotesOnward
  BY <1>1, <1>3, <1>4, NotesAtRest DEF NotesGrows, NotesIInv, NotesTypeOK
<1>7. \A n \in Notes!Notes : NotesBased(n)' /\ NotesUnborn(n)'
  <2>1. NotesBased(k)' /\ NotesUnborn(k)'
    BY <1>1, <1>2, <1>5, NotesDrawnParts, NotesBornBased
  <2> QED BY <1>1, <1>5, <1>6, <2>1, NotesSameBased
<1>8. \A n \in Notes!Notes : NotesSteady(n)'
  <2>1. \A m \in Notes!Notes : op'[m].source \in {0, op[m].source}
    BY <1>5, NotesDrawnParts
  <2> QED BY <1>1, <1>6, <2>1, NotesMovedBefore, NotesStaysSteady
<1>9. \A a \in Notes!Address : NotesLives(a)'
  <2> SUFFICES ASSUME NEW n \in Notes!Notes, NEW a \in Notes!Address, NotesHas(record[n], op[n], a) PROVE NotesHas(record'[n], op'[n], a)
    BY <1>6, NotesStaysAlive DEF NotesIInv
  <2>1. n # k
    BY <1>2, NotesIds DEF NotesHas, Notes!NoOp, Notes!NoCopy, NotesIInv
  <2> QED BY <1>1, <1>5, <2>1
<1> QED BY <1>1, <1>7, <1>8, <1>9 DEF NotesViewed, Notes!At

LEMMA NotesUpdateViewed ==
    ASSUME NotesDisturbed = {}, NotesIInv, NotesViewed, NEW k \in Notes!Notes, Notes!Update(k)
    PROVE  NotesViewed'
<1>1. /\ Notes!Effective(k) /\ Notes!Settled(k) /\ ~Notes!BeingMoved(k) /\ seen' = seen \cup {Notes!Shown(k)}
      /\ UNCHANGED <<notesServer, record, work, moving, origin>>
      /\ op' = [op EXCEPT ![k] = Notes!Edited(k, texts + 1)]
  BY NotesCalmNote DEF Notes!Update
<1>2. op'[k] = Notes!Edited(k, texts + 1) /\ \A n \in Notes!Notes : n # k => op'[n] = op[n]
  BY <1>1 DEF NotesIInv, NotesTypeOK
<1>3. NotesGrows /\ NotesOnward
  BY <1>1, NotesAtRest DEF NotesGrows
<1>4. PICK r \in NotesChanges : r = op[k]
  BY NotesOpParts
<1>5. Notes!NoOp.text = 0 /\ Notes!NoOp.server = Notes!NoCopy /\ ~Notes!NoOp.gone /\ Notes!NoOp.source = 0 /\ Notes!NoOp.action = "none"
  BY DEF Notes!NoOp
<1>6. NotesBased(k)' /\ NotesUnborn(k)' /\ op'[k].source \in {0, op[k].source}
      /\ \A a \in Notes!Address : NotesHas(record[k], op[k], a) => NotesHas(record'[k], op'[k], a)
  <2>1. CASE Notes!Queued(k)
    <3>1. op'[k] = [r EXCEPT !.text = texts + 1, !.due = TRUE]
      BY <1>2, <1>4, <2>1 DEF Notes!Edited
    <3>2. /\ op'[k].action = r.action /\ op'[k].planned = r.planned /\ op'[k].base = r.base
          /\ op'[k].source = r.source /\ op'[k].server = r.server /\ op'[k].gone = r.gone /\ op'[k].status = r.status
      BY <1>4, <3>1 DEF NotesChanges
    <3>3. op[k].action # "delete" /\ ~Notes!Review(k)'
      BY <1>1, <1>4, <2>1, <3>2 DEF Notes!Effective, Notes!Queued, Notes!Review
    <3>4. NotesBased(k)' /\ NotesUnborn(k)'
      BY <1>1, <1>3, <1>4, <3>2, <3>3, NotesStaysBased
    <3> QED BY <1>1, <1>4, <3>2, <3>4 DEF NotesHas
  <2>2. CASE ~Notes!Queued(k)
    <3>1. op[k] = Notes!NoOp /\ record[k] # Notes!NoCopy /\ Notes!Shown(k) = record[k].text
      BY <1>1, <1>5, <2>2 DEF Notes!Settled, Notes!Effective, Notes!Shown
    <3>2. op'[k] = [Notes!NoOp EXCEPT !.action = "update", !.status = "queued", !.text = texts + 1, !.base = record[k]]
      BY <1>2, <2>2 DEF Notes!Edited
    <3>3. op'[k].action = "update" /\ op'[k].base = record[k] /\ op'[k].server = Notes!NoCopy /\ ~op'[k].gone /\ op'[k].source = 0
      BY <3>2 DEF Notes!NoOp
    <3>4. NotesOwned(k, record[k], notesServer', origin')
      BY <1>3, NotesOpParts, NotesOwnedKept DEF NotesViewed, NotesBased
    <3>5. NotesBased(k)' /\ NotesUnborn(k)'
      BY <1>1, <3>1, <3>3, <3>4, NotesNewBased
    <3> QED BY <1>1, <1>5, <3>1, <3>3, <3>5 DEF NotesHas
  <2> QED BY <2>1, <2>2
<1>7. \A n \in Notes!Notes : NotesBased(n)' /\ NotesUnborn(n)'
  BY <1>1, <1>2, <1>3, <1>6, NotesSameBased
<1>8. \A n \in Notes!Notes : NotesSteady(n)'
  <2>1. \A m \in Notes!Notes : op'[m].source \in {0, op[m].source}
    BY <1>2, <1>6
  <2> QED BY <1>1, <1>3, <2>1, NotesMovedBefore, NotesStaysSteady
<1>9. \A a \in Notes!Address : NotesLives(a)'
  <2>1. \A n \in Notes!Notes, a \in Notes!Address : NotesHas(record[n], op[n], a) => NotesHas(record'[n], op'[n], a)
    BY <1>1, <1>2, <1>6
  <2> QED BY <1>3, <2>1, NotesStaysAlive DEF NotesIInv
<1> QED BY <1>1, <1>7, <1>8, <1>9 DEF NotesViewed, Notes!At

\* A note that is deleted, by the user or at the end of its move.
LEMMA NotesLeavesViewed ==
    ASSUME NotesIInv, NotesViewed, NEW k \in Notes!Notes, op[k] = Notes!NoOp, op' = Notes!QueueDelete(op, k), seen \subseteq seen',
           record[k] # Notes!NoCopy => record[k].text \in seen', UNCHANGED <<notesServer, record, work, origin>>, moving' \subseteq moving
    PROVE  NotesViewed'
<1>1. /\ op'[k] = Notes!NoOp \/ (op'[k] = NotesGoing(k) /\ record[k] # Notes!NoCopy)
      /\ \A n \in Notes!Notes : n # k => op'[n] = op[n]
  BY NotesDeletedAs DEF NotesIInv, NotesTypeOK
<1>2. NotesGrows /\ NotesOnward
  BY NotesAtRest DEF NotesGrows
<1>3. \A n \in Notes!Notes : NotesBased(n)' /\ NotesUnborn(n)'
  BY <1>1, <1>2, NotesSameBased, NotesDeletedBased
<1>4. \A n \in Notes!Notes : NotesSteady(n)'
  <2>1. \A m \in Notes!Notes : op'[m].source \in {0, op[m].source}
    BY <1>1, NotesGoingParts
  <2> QED BY <1>2, <2>1, NotesMovedBefore, NotesStaysSteady
<1>5. \A a \in Notes!Address : NotesLives(a)'
  <2>1. \A n \in Notes!Notes, a \in Notes!Address : NotesHas(record[n], op[n], a) => NotesHas(record'[n], op'[n], a)
    BY <1>1, NotesGoingParts DEF NotesHas
  <2> QED BY <1>2, <2>1, NotesStaysAlive DEF NotesIInv
<1> QED BY <1>3, <1>4, <1>5 DEF NotesViewed, Notes!At

LEMMA NotesLocalSavedViewed ==
    ASSUME NotesIInv, NotesViewed, NEW k \in Notes!Notes, Notes!LocalSaved(k)
    PROVE  NotesViewed'
<1>1. /\ k \in moving /\ moving' = moving \ {k} /\ op' = Notes!QueueDelete(op, k)
      /\ UNCHANGED <<notesServer, record, work, origin, seen>>
  BY DEF Notes!LocalSaved
<1>2. Notes!BeingMoved(k) /\ op[k] = Notes!NoOp
  BY <1>1, NotesMovedOps DEF Notes!BeingMoved
<1>3. record[k] # Notes!NoCopy => record[k].text \in seen'
  BY <1>1, <1>2 DEF NotesViewed, NotesSteady
<1> QED BY <1>1, <1>2, <1>3, NotesLeavesViewed

LEMMA NotesRemoveViewed ==
    ASSUME NotesDisturbed = {}, NotesIInv, NotesViewed, NEW k \in Notes!Notes, Notes!Remove(k)
    PROVE  NotesViewed'
<1>1. /\ Notes!Effective(k) /\ Notes!Settled(k) /\ ~Notes!BeingMoved(k) /\ ~Notes!Unconfirmed(k)
      /\ op' = Notes!QueueDelete(op, k) /\ seen' = seen \cup {Notes!Shown(k)} /\ UNCHANGED <<notesServer, record, work, moving, origin>>
  BY NotesCalmNote DEF Notes!Remove
<1>2. CASE op[k] = Notes!NoOp
  <2>1. record[k] # Notes!NoCopy => record[k].text \in seen'
    BY <1>1, <1>2 DEF Notes!Shown, Notes!NoOp
  <2> QED BY <1>1, <1>2, <2>1, NotesLeavesViewed
<1>3. CASE op[k] # Notes!NoOp
  <2>1. Notes!Queued(k) /\ op[k].action \in {"create", "update"}
    BY <1>1, <1>3, NotesBusyOps DEF Notes!Settled, Notes!Effective, Notes!Queued
  <2>2. NotesGrows /\ NotesOnward
    BY <1>1, NotesAtRest DEF NotesGrows
  <2>3. PICK r \in NotesChanges : r = op[k]
    BY NotesOpParts
  <2>4. /\ \A n \in Notes!Notes : n # k => op'[n] = op[n]
        /\ NotesBased(k)' /\ NotesUnborn(k)' /\ op'[k].source \in {0, op[k].source}
        /\ \A a \in Notes!Address : notesServer[a].text # 0 /\ NotesHas(record[k], op[k], a) => NotesHas(record'[k], op'[k], a)
    <3>1. CASE op[k].action = "create"
      <4>1. op' = [op EXCEPT ![k] = Notes!NoOp]
        BY <1>1, <3>1 DEF Notes!QueueDelete
      <4>2. op'[k] = Notes!NoOp /\ \A n \in Notes!Notes : n # k => op'[n] = op[n]
        BY <4>1 DEF NotesIInv, NotesTypeOK
      <4>3. NotesOwned(k, record'[k], notesServer', origin')
        BY <1>1, <3>1 DEF NotesViewed, NotesUnborn, NotesOwned
      <4>4. NotesBased(k)' /\ NotesUnborn(k)'
        BY <4>2, <4>3, NotesFreeBased
      <4>5. notesServer[op[k].planned].text = 0
        BY <1>1, <3>1 DEF Notes!Unconfirmed
      <4> QED BY <1>1, <4>2, <4>4, <4>5, NotesGoingParts DEF NotesHas
    <3>2. CASE op[k].action = "update"
      <4>1. op' = [op EXCEPT ![k] = [op[k] EXCEPT !.action = "delete", !.text = 0, !.due = TRUE]]
        BY <1>1, <3>2 DEF Notes!QueueDelete
      <4>2. op'[k] = [op[k] EXCEPT !.action = "delete", !.text = 0, !.due = TRUE] /\ \A n \in Notes!Notes : n # k => op'[n] = op[n]
        BY <4>1 DEF NotesIInv, NotesTypeOK
      <4>3. op'[k] = [r EXCEPT !.action = "delete", !.text = 0, !.due = TRUE]
        BY <2>3, <4>2
      <4>4. /\ op'[k].action = "delete" /\ op'[k].text = 0 /\ op'[k].base = r.base
            /\ op'[k].source = r.source /\ op'[k].server = r.server /\ op'[k].gone = r.gone
        BY <2>3, <4>3 DEF NotesChanges
      <4>5. NotesBased(k)' /\ NotesUnborn(k)'
        <5>1. NotesBased(k)
          BY DEF NotesViewed
        <5> QED BY <1>1, <2>3, <3>2, <4>4, <5>1 DEF NotesBased, NotesUnborn
      <4> QED BY <1>1, <2>3, <3>2, <4>2, <4>4, <4>5 DEF NotesHas
    <3> QED BY <2>1, <3>1, <3>2
  <2>5. \A n \in Notes!Notes : NotesBased(n)' /\ NotesUnborn(n)'
    BY <1>1, <2>2, <2>4, NotesSameBased
  <2>6. \A n \in Notes!Notes : NotesSteady(n)'
    <3>1. \A m \in Notes!Notes : op'[m].source \in {0, op[m].source}
      BY <2>4
    <3> QED BY <1>1, <2>2, <3>1, NotesMovedBefore, NotesStaysSteady
  <2>7. \A a \in Notes!Address : NotesLives(a)'
    <3>1. \A n \in Notes!Notes, a \in Notes!Address : notesServer[a].text # 0 /\ NotesHas(record[n], op[n], a) => NotesHas(record'[n], op'[n], a)
      BY <1>1, <2>4
    <3> QED BY <1>1, <2>2, <3>1, NotesStaysAlive DEF NotesIInv
  <2> QED BY <1>1, <2>5, <2>6, <2>7 DEF NotesViewed, Notes!At
<1> QED BY <1>2, <1>3

LEMMA NotesTransferViewed ==
    ASSUME NotesDisturbed = {}, NotesIInv, NotesViewed, NEW k \in Notes!Notes, NEW t \in {"server", "local"}, Notes!Transfer(k, t)
    PROVE  NotesViewed'
<1>1. /\ Notes!Effective(k) /\ op[k] = Notes!NoOp /\ notesServer[record[k].addr].rev = record[k].rev
      /\ seen' = seen \cup {Notes!Shown(k)} /\ UNCHANGED <<notesServer, record, work>>
  BY DEF Notes!Transfer, Notes!Current
<1>2. Notes!Shown(k) = record[k].text
  BY <1>1 DEF Notes!Shown, Notes!NoOp
<1>3. NotesSteady(k)'
  BY <1>1, <1>2 DEF NotesSteady
<1>4. CASE t = "local"
  <2>1. moving' = moving \cup {k} /\ UNCHANGED <<op, origin>>
    BY <1>4 DEF Notes!Transfer
  <2>2. NotesGrows /\ NotesOnward
    BY <1>1, <2>1, NotesAtRest DEF NotesGrows
  <2>3. \A n \in Notes!Notes : NotesBased(n)' /\ NotesUnborn(n)'
    BY <1>1, <2>1, <2>2, NotesSameBased
  <2>4. ASSUME NEW n \in Notes!Notes, n # k PROVE NotesSteady(n)'
    <3>1. Notes!BeingMoved(n)' => Notes!BeingMoved(n)
      BY <2>1, <2>4 DEF Notes!BeingMoved
    <3> QED BY <1>1, <2>2, <3>1, NotesStaysSteady
  <2>5. \A a \in Notes!Address : NotesLives(a)'
    BY <1>1, <2>1, <2>2, NotesStaysAlive DEF NotesIInv
  <2> QED BY <1>1, <1>3, <2>3, <2>4, <2>5 DEF NotesViewed, Notes!At
<1>5. CASE t = "server"
  <2>1. Notes!Fresh # {} /\ Notes!Unplanned # {} /\ moving' = moving
    BY <1>5 DEF Notes!Transfer
  <2>2. PICK f \in Notes!Notes : f = Notes!Min(Notes!Fresh) /\ op[f] = Notes!NoOp /\ record[f] = Notes!NoCopy
    BY <2>1, NotesFreshNote
  <2>3. PICK h \in Notes!Address : h = Notes!Min(Notes!Unplanned) /\ origin[h] = 0
    BY <2>1, NotesFreeAddress
  <2>4. op' = [op EXCEPT ![f] = Notes!CreateOp(Notes!Shown(k), h, k)] /\ origin' = [origin EXCEPT ![h] = f]
    BY <1>5, <2>2, <2>3 DEF Notes!Transfer, Notes!Copied
  <2>5. op'[f] = Notes!CreateOp(Notes!Shown(k), h, k) /\ \A n \in Notes!Notes : n # f => op'[n] = op[n]
    BY <2>4 DEF NotesIInv, NotesTypeOK
  <2>6. NotesGrows /\ NotesOnward
    BY <1>1, <2>3, <2>4, NotesAtRest DEF NotesGrows, NotesIInv, NotesTypeOK
  <2>7. \A n \in Notes!Notes : NotesBased(n)' /\ NotesUnborn(n)'
    <3>1. NotesBased(f)' /\ NotesUnborn(f)'
      BY <1>1, <2>2, <2>5, NotesDrawnParts, NotesBornBased
    <3> QED BY <1>1, <2>5, <2>6, <3>1, NotesSameBased
  <2>8. ASSUME NEW n \in Notes!Notes, n # k PROVE NotesSteady(n)'
    <3>1. Notes!BeingMoved(n)' => Notes!BeingMoved(n)
      BY <2>1, <2>5, <2>8, NotesDrawnParts DEF Notes!BeingMoved
    <3> QED BY <1>1, <2>6, <3>1, NotesStaysSteady
  <2>9. \A a \in Notes!Address : NotesLives(a)'
    <3> SUFFICES ASSUME NEW n \in Notes!Notes, NEW a \in Notes!Address, NotesHas(record[n], op[n], a) PROVE NotesHas(record'[n], op'[n], a)
      BY <2>6, NotesStaysAlive DEF NotesIInv
    <3>1. n # f
      BY <2>2, NotesIds DEF NotesHas, Notes!NoOp, Notes!NoCopy, NotesIInv
    <3> QED BY <1>1, <2>5, <3>1
  <2> QED BY <1>1, <1>3, <2>7, <2>8, <2>9 DEF NotesViewed, Notes!At
<1> QED BY <1>4, <1>5

\* What a synchronization does to the cache, where every note on the server is in it.
LEMMA NotesPulledAs ==
    ASSUME NotesDisturbed = {}, NotesIInv, NotesViewed, Notes!Pull, NEW n \in Notes!Notes
    PROVE  record'[n] = IF record[n] = Notes!NoCopy THEN Notes!NoCopy ELSE Notes!CopyAt(record[n].addr)
<1>1. ~\E m \in Notes!Notes : Notes!Unconfirmed(m)
  BY DEF Notes!Pull, Notes!Twin
<1>2. ASSUME NEW a \in Notes!Changed
      PROVE  origin[a] \in Notes!Notes /\ record[origin[a]].addr = a /\ Notes!IdOf(a) = origin[a]
  <2>1. a \in Notes!Address /\ notesServer[a].text # 0
    BY DEF Notes!Changed
  <2>2. origin[a] \in Notes!Notes /\ record[origin[a]].addr = a
    BY <1>1, <2>1 DEF NotesViewed, NotesLives, NotesHas, Notes!Unconfirmed
  <2>3. \A m \in Notes!Notes : record[m].addr = a => m = origin[a]
    <3> SUFFICES ASSUME NEW m \in Notes!Notes, record[m].addr = a PROVE m = origin[a]
      OBVIOUS
    <3>1. record[m] # Notes!NoCopy
      BY <2>1, NotesOpParts, NotesAddressed, NotesIds DEF NotesIInv
    <3> QED BY <3>1 DEF NotesViewed, NotesBased, NotesOwned
  <2>4. Notes!KnownAs(a) = {origin[a]} /\ Notes!KnownAs(a) \in SUBSET Nat
    BY <2>2, <2>3, NotesIds DEF Notes!KnownAs, NotesIInv
  <2>5. Notes!Min(Notes!KnownAs(a)) \in Notes!KnownAs(a)
    BY <2>4, NotesFirst
  <2> QED BY <2>2, <2>4, <2>5 DEF Notes!IdOf
<1>3. record[n] \in NotesCopies /\ NotesBounds
  BY NotesOpParts
<1>4. record' = [m \in Notes!Notes |->
          IF m \in Notes!Removed THEN Notes!NoCopy
          ELSE IF \E a \in Notes!Changed : Notes!IdOf(a) = m THEN Notes!CopyAt(CHOOSE a \in Notes!Changed : Notes!IdOf(a) = m)
          ELSE record[m]]
  BY DEF Notes!Pull
<1>5. CASE record[n] = Notes!NoCopy
  <2>1. ~\E a \in Notes!Changed : Notes!IdOf(a) = n
    BY <1>2, <1>3, <1>5, NotesAddressed, NotesIds DEF Notes!Changed
  <2> QED BY <1>4, <1>5, <2>1
<1>6. CASE record[n] # Notes!NoCopy
  <2>1. record[n].addr \in Notes!Address
    BY <1>3, <1>6, NotesAddressed
  <2>2. CASE notesServer[record[n].addr].text = 0
    BY <1>4, <1>6, <2>1, <2>2, NotesCopySame DEF Notes!Removed
  <2>3. CASE notesServer[record[n].addr].text # 0
    <3>1. n \notin Notes!Removed /\ record[n].addr \in Notes!Changed
      BY <2>1, <2>3 DEF Notes!Removed, Notes!Changed
    <3>2. Notes!IdOf(record[n].addr) = n
      BY <1>2, <1>6, <2>1, <3>1 DEF NotesViewed, NotesBased, NotesOwned
    <3>3. \A a \in Notes!Changed : Notes!IdOf(a) = n => a = record[n].addr
      BY <1>2
    <3>4. (CHOOSE a \in Notes!Changed : Notes!IdOf(a) = n) = record[n].addr
      BY <3>1, <3>2, <3>3
    <3> QED BY <1>4, <1>6, <3>1, <3>2, <3>4
  <2> QED BY <2>2, <2>3
<1> QED BY <1>5, <1>6

LEMMA NotesPullViewed ==
    ASSUME NotesDisturbed = {}, NotesIInv, NotesViewed, Notes!Pull
    PROVE  NotesViewed'
<1>1. work' = Notes!Idle /\ UNCHANGED <<notesServer, moving, origin, seen>>
  BY DEF Notes!Pull
<1>2. NotesGrows /\ NotesOnward
  BY <1>1, NotesAtRest DEF NotesGrows
<1>3. ASSUME NEW n \in Notes!Notes
      PROVE  /\ NotesOwned(n, record'[n], notesServer', origin')
             /\ record'[n] # Notes!NoCopy => record[n] # Notes!NoCopy /\ record'[n].addr = record[n].addr /\ record'[n] = Notes!CopyAt(record[n].addr)
             /\ record[n] # Notes!NoCopy => record[n].addr \in Notes!Address /\ origin[record[n].addr] = n
             /\ record[n] # Notes!NoCopy /\ notesServer[record[n].addr].text # 0 => record'[n].addr = record[n].addr
  <2>1. record[n] # Notes!NoCopy => record[n].addr \in Notes!Address /\ origin[record[n].addr] = n
    BY NotesOpParts, NotesAddressed DEF NotesViewed, NotesBased, NotesOwned
  <2>2. record'[n] = IF record[n] = Notes!NoCopy THEN Notes!NoCopy ELSE Notes!CopyAt(record[n].addr)
    BY NotesPulledAs
  <2>3. CASE record[n] = Notes!NoCopy
    BY <2>2, <2>3 DEF NotesOwned
  <2>4. CASE record[n] # Notes!NoCopy
    <3>1. /\ Notes!CopyAt(record[n].addr) = Notes!NoCopy <=> notesServer[record[n].addr].text = 0
          /\ Notes!CopyAt(record[n].addr) # Notes!NoCopy => Notes!CopyAt(record[n].addr).addr = record[n].addr
          /\ NotesOwned(origin[record[n].addr], Notes!CopyAt(record[n].addr), notesServer, origin)
      BY <2>1, <2>4, NotesCopySame
    <3>2. origin[record[n].addr] = n /\ record'[n] = Notes!CopyAt(record[n].addr)
      BY <2>1, <2>2, <2>4
    <3> QED BY <1>1, <2>1, <2>4, <3>1, <3>2
  <2> QED BY <2>3, <2>4
<1>4. ASSUME NEW n \in Notes!Notes PROVE op'[n] = op[n] \/ (op'[n] = Notes!NoOp /\ op[n].action = "delete")
  BY DEF Notes!Pull
<1>5. ASSUME NEW n \in Notes!Notes PROVE NotesBased(n)' /\ NotesUnborn(n)'
  <2>1. NotesBased(n) /\ NotesUnborn(n) /\ (Notes!Review(n)' /\ op'[n] = op[n] => Notes!Review(n))
    BY DEF NotesViewed, Notes!Review
  <2>2. CASE op'[n] = Notes!NoOp
    BY <1>3, <2>2, NotesFreeBased
  <2>3. CASE op'[n] = op[n]
    BY <1>1, <1>3, <2>1, <2>3 DEF NotesBased, NotesUnborn
  <2> QED BY <1>4, <2>2, <2>3
<1>6. \A n \in Notes!Notes : Notes!BeingMoved(n)' => Notes!BeingMoved(n)
  <2>1. \A m \in Notes!Notes : op'[m].source \in {0, op[m].source}
    BY <1>4, NotesGoingParts
  <2> QED BY <1>1, <2>1, NotesMovedBefore
<1>7. ASSUME NEW n \in Notes!Notes PROVE NotesSteady(n)'
  <2> SUFFICES ASSUME Notes!BeingMoved(n)', record'[n] # Notes!NoCopy
               PROVE  record'[n].text \in seen' /\ notesServer'[record'[n].addr].rev = record'[n].rev
    BY DEF NotesSteady
  <2>1. /\ Notes!BeingMoved(n) /\ record[n] # Notes!NoCopy /\ record'[n] = Notes!CopyAt(record[n].addr) /\ record[n].addr \in Notes!Address
        /\ record'[n].addr = record[n].addr
    BY <1>3, <1>6
  <2>2. record[n].text \in seen /\ notesServer[record[n].addr].rev = record[n].rev
    BY <2>1 DEF NotesViewed, NotesSteady
  <2>3. record[n].text = notesServer[record[n].addr].text
    BY <2>1, <2>2 DEF NotesViewed, NotesBased, NotesOwned
  <2>4. record'[n].text = notesServer[record[n].addr].text /\ record'[n].rev = notesServer[record[n].addr].rev
    BY <2>1, NotesCopySame
  <2> QED BY <1>1, <2>1, <2>2, <2>3, <2>4
<1>8. \A a \in Notes!Address : NotesLives(a)'
  <2> SUFFICES ASSUME NEW n \in Notes!Notes, NEW a \in Notes!Address, notesServer'[a].text # 0, NotesHas(record[n], op[n], a)
               PROVE  NotesHas(record'[n], op'[n], a)
    BY <1>2, NotesStaysAlive DEF NotesIInv
  <2>1. CASE record[n].addr = a
    <3>1. record[n] # Notes!NoCopy
      BY <2>1, NotesOpParts, NotesAddressed, NotesIds
    <3> QED BY <1>1, <1>3, <2>1, <3>1 DEF NotesHas
  <2>2. CASE op[n].action = "create" /\ op[n].planned = a
    BY <1>4, <2>2 DEF NotesHas
  <2> QED BY <2>1, <2>2 DEF NotesHas
<1>9. ~Notes!At("fetch")'
  BY <1>1 DEF Notes!At, Notes!Idle
<1> QED BY <1>5, <1>7, <1>8, <1>9 DEF NotesViewed

\* What a note under review becomes when the server's copy is accepted.
LEMMA NotesAcceptedAs ==
    ASSUME NotesIInv, NotesViewed, NEW k \in Notes!Notes
    PROVE  /\ Notes!AcceptServer(k)[k] = IF op[k].gone THEN Notes!NoCopy ELSE IF op[k].server # Notes!NoCopy THEN op[k].server ELSE record[k]
           /\ NotesOwned(k, Notes!AcceptServer(k)[k], notesServer, origin)
           /\ op[k].action = "create" => Notes!AcceptServer(k)[k] = Notes!NoCopy
           /\ op[k].base # Notes!NoCopy /\ Notes!AcceptServer(k)[k] # Notes!NoCopy => Notes!AcceptServer(k)[k].addr = op[k].base.addr
           /\ \A a \in Notes!Address : notesServer[a].text # 0 /\ record[k].addr = a => Notes!AcceptServer(k)[k].addr = a
<1>1. Notes!AcceptServer(k)[k] = IF op[k].gone THEN Notes!NoCopy ELSE IF op[k].server # Notes!NoCopy THEN op[k].server ELSE record[k]
  BY DEF Notes!AcceptServer, NotesIInv, NotesTypeOK
<1>2. NotesBased(k) /\ NotesUnborn(k) /\ record[k] \in NotesCopies /\ NotesBounds
  BY NotesOpParts DEF NotesViewed
<1>3. NotesOwned(k, Notes!AcceptServer(k)[k], notesServer, origin)
  BY <1>1, <1>2 DEF NotesBased, NotesOwned
<1>4. op[k].action = "create" => Notes!AcceptServer(k)[k] = Notes!NoCopy
  BY <1>1, <1>2 DEF NotesUnborn
<1>5. op[k].base # Notes!NoCopy /\ Notes!AcceptServer(k)[k] # Notes!NoCopy => Notes!AcceptServer(k)[k].addr = op[k].base.addr
  BY <1>1, <1>2 DEF NotesBased
<1>6. ASSUME NEW a \in Notes!Address, notesServer[a].text # 0, record[k].addr = a PROVE Notes!AcceptServer(k)[k].addr = a
  <2>1. record[k] # Notes!NoCopy
    BY <1>2, <1>6, NotesAddressed, NotesIds
  <2> QED BY <1>1, <1>2, <1>6, <2>1 DEF NotesBased
<1> QED BY <1>1, <1>3, <1>4, <1>5, <1>6

LEMMA NotesResolvedViewed ==
    ASSUME NotesIInv, NotesViewed, NotesGrows, NEW k \in Notes!Notes, ~Notes!BeingMoved(k), UNCHANGED <<notesServer, moving>>, seen \subseteq seen',
           ~Notes!At("fetch")', \A n \in Notes!Notes : n # k => record'[n] = record[n],
           \A n \in Notes!Notes : n # k =>
              op'[n] = op[n] \/ (op[n] = Notes!NoOp /\ record[n] = Notes!NoCopy /\ NotesBased(n)' /\ NotesUnborn(n)'),
           \A m \in Notes!Notes : op'[m].source \in {0, op[m].source},
           NotesBased(k)', NotesUnborn(k)',
           \A a \in Notes!Address : notesServer[a].text # 0 /\ NotesHas(record[k], op[k], a) => NotesHas(record'[k], op'[k], a)
    PROVE  NotesViewed'
<1>1. NotesOnward
  BY NotesAtRest
<1>2. \A n \in Notes!Notes : NotesBased(n)' /\ NotesUnborn(n)'
  BY <1>1, NotesSameBased
<1>3. \A n \in Notes!Notes : NotesSteady(n)'
  BY <1>1, NotesMovedBefore, NotesStaysSteady
<1>4. \A a \in Notes!Address : NotesLives(a)'
  <2> SUFFICES ASSUME NEW n \in Notes!Notes, NEW a \in Notes!Address, notesServer[a].text # 0, NotesHas(record[n], op[n], a)
               PROVE  NotesHas(record'[n], op'[n], a)
    BY <1>1, NotesStaysAlive DEF NotesIInv
  <2>1. CASE op[n] = Notes!NoOp /\ record[n] = Notes!NoCopy
    BY <2>1, NotesIds DEF NotesHas, Notes!NoOp, Notes!NoCopy, NotesIInv
  <2> QED BY <2>1
<1> QED BY <1>2, <1>3, <1>4 DEF NotesViewed

LEMMA NotesAgainAs ==
    ASSUME NotesIInv, NEW k \in Notes!Notes
    PROVE  /\ Notes!Again(k).status = "queued" /\ Notes!Again(k).server = Notes!NoCopy /\ ~Notes!Again(k).gone
           /\ Notes!Again(k).base = IF op[k].server # Notes!NoCopy THEN op[k].server ELSE op[k].base
           /\ \A h, r : r = [Notes!Again(k) EXCEPT !.action = "create", !.base = Notes!NoCopy, !.planned = h] =>
                 /\ r.action = "create" /\ r.base = Notes!NoCopy /\ r.status = "queued" /\ r.server = Notes!NoCopy /\ ~r.gone
                 /\ r.source = op[k].source
<1>1. PICK c \in NotesCopies : c = IF op[k].server # Notes!NoCopy THEN op[k].server ELSE op[k].base
  BY NotesOpParts
<1>2. PICK z \in NotesChanges : z = op[k]
  BY NotesOpParts
<1>3. Notes!Again(k) = [z EXCEPT !.status = "queued", !.due = TRUE, !.server = Notes!NoCopy, !.gone = FALSE, !.base = c]
  BY <1>1, <1>2 DEF Notes!Again
<1>4. PICK y : y = [z EXCEPT !.status = "queued", !.due = TRUE, !.server = Notes!NoCopy, !.gone = FALSE, !.base = c]
  OBVIOUS
<1>5. /\ y.status = "queued" /\ y.server = Notes!NoCopy /\ ~y.gone /\ y.base = c /\ y.source = z.source
      /\ y \in [{"action", "status", "text", "base", "planned", "server", "gone", "due", "source"} -> {y[x] : x \in {"action", "status", "text", "base", "planned", "server", "gone", "due", "source"}}]
  BY <1>4 DEF NotesChanges
<1>6. y = Notes!Again(k)
  BY <1>3, <1>4
<1>7. ASSUME NEW h, NEW r, r = [y EXCEPT !.action = "create", !.base = Notes!NoCopy, !.planned = h]
      PROVE  /\ r.action = "create" /\ r.base = Notes!NoCopy /\ r.status = "queued" /\ r.server = Notes!NoCopy /\ ~r.gone
             /\ r.source = z.source
  BY <1>5, <1>7
<1> QED BY <1>1, <1>2, <1>5, <1>6, <1>7

LEMMA NotesResolveViewed ==
    ASSUME NotesIInv, NotesViewed, NEW k \in Notes!Notes, Notes!Resolve(k)
    PROVE  NotesViewed'
<1>1. Notes!At("idle") /\ Notes!Review(k) /\ UNCHANGED <<notesServer, moving>> /\ seen' = seen \cup {op[k].server.text}
  BY DEF Notes!Resolve
<1>2. op[k] # Notes!NoOp /\ ~Notes!BeingMoved(k) /\ NotesBased(k) /\ NotesUnborn(k) /\ NotesBounds /\ NotesTypeOK
  BY <1>1, NotesBusyOps DEF Notes!Review, NotesViewed, NotesIInv
<1>3. /\ Notes!AcceptServer(k) \in [Notes!Notes -> NotesCopies] /\ \A n \in Notes!Notes : n # k => Notes!AcceptServer(k)[n] = record[n]
      /\ Notes!NoOp.source = 0 /\ Notes!NoOp.action = "none"
  BY NotesAccepted, NotesGoingParts
<1>4. /\ NotesOwned(k, Notes!AcceptServer(k)[k], notesServer, origin)
      /\ op[k].action = "create" => Notes!AcceptServer(k)[k] = Notes!NoCopy
      /\ op[k].base # Notes!NoCopy /\ Notes!AcceptServer(k)[k] # Notes!NoCopy => Notes!AcceptServer(k)[k].addr = op[k].base.addr
      /\ \A a \in Notes!Address : notesServer[a].text # 0 /\ record[k].addr = a => Notes!AcceptServer(k)[k].addr = a
      /\ Notes!AcceptServer(k)[k] = IF op[k].gone THEN Notes!NoCopy ELSE IF op[k].server # Notes!NoCopy THEN op[k].server ELSE record[k]
  BY NotesAcceptedAs
<1>5. \A a \in Notes!Address : notesServer[a].text # 0 /\ NotesHas(record[k], op[k], a) => Notes!AcceptServer(k)[k].addr = a
  BY <1>1, <1>2, <1>4 DEF NotesHas, NotesUnborn
<1>6. op \in [Notes!Notes -> NotesChanges] /\ Notes!AcceptServer(k)[k] \in NotesCopies
  BY <1>2, <1>3 DEF NotesTypeOK
<1>7. CASE Notes!KeepServer(k)
  <2>1. record' = Notes!AcceptServer(k) /\ op' = [op EXCEPT ![k] = Notes!NoOp] /\ UNCHANGED <<origin, work>>
    BY <1>7 DEF Notes!KeepServer
  <2>2. op'[k] = Notes!NoOp /\ \A n \in Notes!Notes : n # k => op'[n] = op[n]
    BY <1>6, <2>1
  <2>3. NotesBased(k)' /\ NotesUnborn(k)'
    BY <1>1, <1>4, <2>1, <2>2, NotesFreeBased
  <2>4. NotesGrows /\ ~Notes!At("fetch")'
    BY <1>1, <2>1 DEF NotesGrows, Notes!At
  <2>5. \A m \in Notes!Notes : op'[m].source \in {0, op[m].source}
    BY <1>3, <2>2
  <2> QED BY <1>1, <1>2, <1>3, <1>5, <2>1, <2>2, <2>3, <2>4, <2>5, NotesResolvedViewed DEF NotesHas
<1>8. CASE Notes!KeepBoth(k)
  <2>1. Notes!Fresh # {} /\ Notes!Unplanned # {} /\ record' = Notes!AcceptServer(k) /\ work' = Notes!Flush(op', FALSE)
    BY <1>8 DEF Notes!KeepBoth
  <2>2. PICK f \in Notes!Notes : f = Notes!Min(Notes!Fresh) /\ op[f] = Notes!NoOp /\ record[f] = Notes!NoCopy
    BY <2>1, NotesFreshNote
  <2>3. PICK h \in Notes!Address : h = Notes!Min(Notes!Unplanned) /\ origin[h] = 0
    BY <2>1, NotesFreeAddress
  <2>4. /\ op' = [op EXCEPT ![k] = Notes!NoOp, ![f] = Notes!CreateOp(op[k].text, h, 0)] /\ origin' = [origin EXCEPT ![h] = f]
        /\ f # k
    BY <1>2, <1>8, <2>2, <2>3 DEF Notes!KeepBoth
  <2>5. /\ op'[k] = Notes!NoOp /\ op'[f] = Notes!CreateOp(op[k].text, h, 0) /\ \A n \in Notes!Notes : n # k /\ n # f => op'[n] = op[n]
    BY <1>6, <2>4
  <2>6. NotesBased(f)' /\ NotesUnborn(f)'
    <3>1. record'[f] = Notes!NoCopy
      BY <1>3, <2>1, <2>2, <2>4
    <3> QED BY <2>5, <3>1, NotesDrawnParts, NotesBornBased
  <2>7. NotesGrows
    BY <1>2, <2>3, <2>4 DEF NotesGrows, NotesTypeOK
  <2>8. NotesBased(k)' /\ NotesUnborn(k)'
    <3>1. NotesOwned(k, Notes!AcceptServer(k)[k], notesServer', origin')
      <4>1. NotesOnward
        BY <1>1, NotesAtRest
      <4> QED BY <1>4, <1>6, <2>7, <4>1, NotesOwnedKept
    <3> QED BY <2>1, <2>5, <3>1, NotesFreeBased
  <2>9. ~Notes!At("fetch")'
    BY <1>2, <2>1, NotesFlushTyped DEF Notes!At
  <2>10. \A m \in Notes!Notes : op'[m].source \in {0, op[m].source}
    BY <1>3, <2>5, NotesDrawnParts
  <2> QED BY <1>1, <1>2, <1>3, <1>5, <2>1, <2>2, <2>5, <2>6, <2>7, <2>8, <2>9, <2>10, NotesResolvedViewed
       DEF NotesHas
<1>9. CASE Notes!KeepMine(k)
  <2>1. work' = Notes!Flush(op', FALSE)
    BY <1>9 DEF Notes!KeepMine
  <2>2. ~Notes!At("fetch")'
    BY <1>2, <2>1, NotesFlushTyped DEF Notes!At
  <2>3. CASE op[k].gone /\ op[k].action = "delete"
    <3>1. record' = Notes!AcceptServer(k) /\ op' = [op EXCEPT ![k] = Notes!NoOp] /\ origin' = origin
      BY <1>9, <2>3 DEF Notes!KeepMine
    <3>2. op'[k] = Notes!NoOp /\ \A n \in Notes!Notes : n # k => op'[n] = op[n]
      BY <1>6, <3>1
    <3>3. NotesBased(k)' /\ NotesUnborn(k)'
      BY <1>1, <1>4, <3>1, <3>2, NotesFreeBased
    <3>4. NotesGrows
      BY <3>1 DEF NotesGrows
    <3>5. \A m \in Notes!Notes : op'[m].source \in {0, op[m].source}
      BY <1>3, <3>2
    <3> QED BY <1>1, <1>2, <1>3, <1>5, <2>2, <3>1, <3>2, <3>3, <3>4, <3>5, NotesResolvedViewed DEF NotesHas
  <2>4. CASE ~(op[k].gone /\ op[k].action = "delete") /\ (op[k].action = "create" \/ op[k].gone)
    <3>1. Notes!Unplanned # {}
      BY <1>9, <2>4 DEF Notes!KeepMine
    <3>2. PICK h \in Notes!Address : h = Notes!Min(Notes!Unplanned) /\ origin[h] = 0
      BY <3>1, NotesFreeAddress
    <3>3. PICK r \in NotesChanges : r = [Notes!Again(k) EXCEPT !.action = "create", !.base = Notes!NoCopy, !.planned = h]
      BY NotesAgain_
    <3>13. \A x, y : y = [Notes!Again(k) EXCEPT !.action = "create", !.base = Notes!NoCopy, !.planned = x] =>
                 /\ y.action = "create" /\ y.base = Notes!NoCopy /\ y.status = "queued" /\ y.server = Notes!NoCopy /\ ~y.gone
                 /\ y.source = op[k].source
      BY NotesAgainAs
    <3>12. /\ r.action = "create" /\ r.base = Notes!NoCopy /\ r.status = "queued" /\ r.server = Notes!NoCopy /\ ~r.gone
           /\ r.source = op[k].source
      BY <3>3, <3>13
    <3>4. op' = [op EXCEPT ![k] = r] /\ origin' = [origin EXCEPT ![h] = k] /\ record' = [record EXCEPT ![k] = Notes!NoCopy]
      BY <1>9, <2>4, <3>2, <3>3 DEF Notes!KeepMine
    <3>5. op'[k] = r /\ \A n \in Notes!Notes : n # k => op'[n] = op[n]
      BY <1>6, <3>4
    <3>6. record'[k] = Notes!NoCopy /\ \A n \in Notes!Notes : n # k => record'[n] = record[n]
      BY <1>2, <3>4 DEF NotesTypeOK
    <3>7. NotesBased(k)' /\ NotesUnborn(k)'
      BY <3>12, <3>5, <3>6, NotesBornBased
    <3>8. NotesGrows
      BY <1>2, <3>2, <3>4 DEF NotesGrows, NotesTypeOK
    <3>9. \A m \in Notes!Notes : op'[m].source \in {0, op[m].source}
      BY <3>12, <3>5
    <3>10. Notes!AcceptServer(k)[k] = Notes!NoCopy
      BY <1>4, <2>4
    <3>11. \A a \in Notes!Address : notesServer[a].text # 0 => ~NotesHas(record[k], op[k], a)
      BY <1>2, <1>5, <3>10, NotesAddressed, NotesIds, NotesOpParts
    <3> QED BY <1>1, <1>2, <2>2, <3>5, <3>6, <3>7, <3>8, <3>9, <3>11, NotesResolvedViewed
  <2>5. CASE op[k].action # "create" /\ ~op[k].gone
    <3>7. PICK r \in NotesChanges : r = Notes!Again(k) /\ r.action = op[k].action /\ r.text = op[k].text /\ r.source = op[k].source
      BY NotesAgain_
    <3>1. /\ r = Notes!Again(k) /\ r.action = op[k].action /\ r.text = op[k].text /\ r.source = op[k].source
          /\ r.server = Notes!NoCopy /\ ~r.gone
          /\ r.base = IF op[k].server # Notes!NoCopy THEN op[k].server ELSE op[k].base
      BY <3>7, NotesAgainAs
    <3>2. record' = Notes!AcceptServer(k) /\ op' = [op EXCEPT ![k] = r] /\ origin' = origin
      BY <1>9, <2>5, <3>1 DEF Notes!KeepMine
    <3>3. op'[k] = r /\ \A n \in Notes!Notes : n # k => op'[n] = op[n]
      BY <1>6, <3>2
    <3>4. NotesGrows
      BY <3>2 DEF NotesGrows
    <3>5. NotesBased(k)' /\ NotesUnborn(k)'
      <4>1. op[k].action \in {"update", "delete"}
        BY <1>1, <2>5, NotesBusyOps DEF Notes!Review
      <4>2. NotesOwned(k, r.base, notesServer, origin) /\ r.base.text \in seen'
        BY <1>1, <1>2, <3>1, <4>1 DEF NotesBased
      <4>3. r.base # Notes!NoCopy /\ Notes!AcceptServer(k)[k] # Notes!NoCopy => Notes!AcceptServer(k)[k].addr = r.base.addr
        BY <1>2, <1>4, <2>5, <3>1 DEF NotesBased
      <4>4. op[k].action = "delete" => op[k].text = 0
        BY <1>2 DEF NotesBased
      <4> QED BY <1>1, <1>4, <3>1, <3>2, <3>3, <4>1, <4>2, <4>3, <4>4, NotesNewBased
    <3>6. \A m \in Notes!Notes : op'[m].source \in {0, op[m].source}
      BY <3>1, <3>3
    <3> QED BY <1>1, <1>2, <1>3, <1>5, <2>2, <3>2, <3>3, <3>4, <3>5, <3>6, NotesResolvedViewed DEF NotesHas
  <2> QED BY <2>3, <2>4, <2>5
<1> QED BY <1>7, <1>8, <1>9 DEF Notes!Resolve

LEMMA NotesInitViewed ==
    ASSUME NotesBounds, Notes!Init
    PROVE  NotesViewed
<1>1. NotesIInv /\ Notes!NoOp.source = 0 /\ Notes!NoOp.action = "none" /\ Notes!NoOp.base = Notes!NoCopy /\ Notes!NoOp.server = Notes!NoCopy /\ ~Notes!NoOp.gone
  BY NotesInitInv DEF Notes!NoOp
<1>2. /\ op = [n \in Notes!Notes |-> Notes!NoOp] /\ work = Notes!Idle /\ moving = {}
      /\ origin = [a \in Notes!Address |-> IF a <= NotesNFirst THEN Notes!RemoteNoteId(a) ELSE 0]
      /\ notesServer = [a \in Notes!Address |-> IF a <= NotesNFirst THEN [text |-> a, rev |-> 1] ELSE [text |-> 0, rev |-> 0]]
      /\ record = [n \in Notes!Notes |-> IF \E a \in 1..NotesNFirst : n = Notes!RemoteNoteId(a) THEN Notes!CopyAt(n - NNew) ELSE Notes!NoCopy]
  BY DEF Notes!Init
<1>3. ASSUME NEW n \in Notes!Notes PROVE ~Notes!BeingMoved(n)
  BY <1>1, <1>2, NotesIds DEF Notes!BeingMoved
<1>4. ASSUME NEW n \in Notes!Notes PROVE NotesOwned(n, record[n], notesServer, origin)
  <2>1. CASE \E a \in 1..NotesNFirst : n = Notes!RemoteNoteId(a)
    <3>1. PICK a \in Notes!Address : a \in 1..NotesNFirst /\ n = Notes!RemoteNoteId(a)
      BY <2>1 DEF NotesBounds, Notes!Address
    <3>2. n - NNew = a /\ origin[a] = n
      BY <1>2, <3>1 DEF Notes!RemoteNoteId, NotesBounds, Notes!Address
    <3>3. record[n] = Notes!CopyAt(a)
      BY <1>2, <2>1, <3>2
    <3> QED BY <1>1, <3>2, <3>3, NotesCopySame
  <2>2. CASE ~\E a \in 1..NotesNFirst : n = Notes!RemoteNoteId(a)
    BY <1>2, <2>2 DEF NotesOwned
  <2> QED BY <2>1, <2>2
<1>5. \A n \in Notes!Notes : NotesBased(n) /\ NotesUnborn(n) /\ NotesSteady(n)
  BY <1>1, <1>2, <1>3, <1>4 DEF NotesBased, NotesUnborn, NotesSteady, NotesOwned
<1>6. ASSUME NEW a \in Notes!Address PROVE NotesLives(a)
  <2> SUFFICES ASSUME notesServer[a].text # 0 PROVE origin[a] \in Notes!Notes /\ record[origin[a]].addr = a
    BY DEF NotesLives, NotesHas
  <2>1. a <= NotesNFirst /\ a \in 1..NotesNFirst
    BY <1>2 DEF Notes!Address, NotesBounds
  <2>4. Notes!RemoteNoteId(a) - NNew = a
    BY DEF Notes!RemoteNoteId, NotesBounds, Notes!Address
  <2>2. origin[a] = Notes!RemoteNoteId(a) /\ Notes!RemoteNoteId(a) \in Notes!Notes /\ Notes!RemoteNoteId(a) - NNew = a
    BY <1>2, <2>1, <2>4, NotesIds
  <2>3. record[Notes!RemoteNoteId(a)] = Notes!CopyAt(a)
    BY <1>2, <2>1, <2>2
  <2> QED BY <1>1, <2>2, <2>3, NotesCopySame
<1>7. ~Notes!At("fetch")
  BY <1>2 DEF Notes!At, Notes!Idle
<1> QED BY <1>5, <1>6, <1>7 DEF NotesViewed

LEMMA NotesStepViewed ==
    ASSUME NotesDisturbed = {}, NotesIInv, NotesViewed, [Notes!Next]_notesVars
    PROVE  NotesViewed'
<1>1. CASE UNCHANGED notesVars
  <2>1. UNCHANGED <<notesServer, record, op, moving, origin, seen, work>>
    BY <1>1 DEF notesVars
  <2>2. Notes!At("fetch")' => Notes!At("fetch")
    BY <2>1 DEF Notes!At
  <2> QED BY <2>1, <2>2, NotesWorkViewed
<1>2. CASE Notes!Next
  <2>1. CASE \/ Notes!PassBegins(TRUE) \/ Notes!PassBegins(FALSE) \/ \E n \in Notes!Notes : Notes!SendBegins(n)
             \/ Notes!PassEnds \/ Notes!PutOff \/ Notes!PullFails
    BY <2>1, NotesPassViewed
  <2>2. CASE Notes!Answered \/ Notes!Fetched \/ Notes!Pull \/ Notes!Rejected \/ Notes!Create
    BY <2>2, NotesAnsweredViewed, NotesFetchedViewed, NotesPullViewed, NotesRejectedViewed, NotesCreateViewed
  <2>3. CASE \E n \in Notes!Notes : Notes!BecomesDue(n) \/ Notes!LocalSaved(n) \/ Notes!Resolve(n) \/ Notes!Update(n) \/ Notes!Remove(n)
    BY <2>3, NotesBecomesDueViewed, NotesLocalSavedViewed, NotesResolveViewed, NotesUpdateViewed, NotesRemoveViewed
  <2>4. CASE \E n \in Notes!Notes, t \in {"server", "local"} : Notes!Transfer(n, t)
    BY <2>4, NotesTransferViewed
  <2>5. CASE \E a \in Notes!Address : Notes!OtherEdits(a) \/ Notes!OtherDeletes(a)
    BY <2>5, NotesOtherViewed
  <2>6. CASE \E reached \in BOOLEAN : Notes!Fails(reached) \/ Notes!Crash(reached)
    BY <2>6, NotesFailsViewed, NotesCrashViewed
  <2> QED BY <1>2, <2>1, <2>2, <2>3, <2>4, <2>5, <2>6 DEF Notes!Next, Notes!WorkSteps, Notes!Syncs, Notes!Waits
<1> QED BY <1>1, <1>2

\* Only a request changes the server, and its change was seen.
LEMMA NotesBlindStep ==
    ASSUME NotesIInv, NotesViewed, [Notes!Next]_notesVars
    PROVE  \A a \in Notes!Address : Notes!SentFromHere /\ notesServer'[a] # notesServer[a] /\ notesServer[a].text # 0 => notesServer[a].text \in seen
<1> SUFFICES ASSUME NEW a \in Notes!Address, Notes!SentFromHere, notesServer'[a] # notesServer[a], notesServer[a].text # 0 PROVE notesServer[a].text \in seen
  OBVIOUS
<1>1. CASE Notes!At("send") /\ Notes!ServerDoes /\ seen' = seen
  BY <1>1, NotesServedSeen
<1>2. Notes!ServerDoes /\ seen' = seen
  <2>1. work' # work /\ notesServer' # notesServer
    BY DEF Notes!SentFromHere, Notes!At
  <2>2. CASE Notes!Answered
    BY <2>2 DEF Notes!Answered
  <2>3. CASE \E reached \in BOOLEAN : Notes!Fails(reached) \/ Notes!Crash(reached)
    BY <2>1, <2>3 DEF Notes!Fails, Notes!Crash
  <2>4. CASE \E h \in Notes!Address : Notes!OtherEdits(h) \/ Notes!OtherDeletes(h)
    BY <2>1, <2>4 DEF Notes!OtherEdits, Notes!OtherDeletes, Notes!OtherClient
  <2>5. CASE \/ Notes!PassBegins(TRUE) \/ Notes!PassBegins(FALSE) \/ Notes!PassEnds \/ Notes!PutOff \/ Notes!PullFails
             \/ Notes!Fetched \/ Notes!Pull \/ Notes!Rejected \/ Notes!Create
    BY <2>1, <2>5 DEF Notes!PassBegins, Notes!PassEnds, Notes!PutOff, Notes!PullFails, Notes!Fetched,
         Notes!Pull, Notes!Rejected, Notes!Create
  <2>6. CASE \E n \in Notes!Notes : Notes!SendBegins(n) \/ Notes!BecomesDue(n) \/ Notes!LocalSaved(n) \/ Notes!Resolve(n) \/ Notes!Update(n) \/ Notes!Remove(n)
    BY <2>1, <2>6 DEF Notes!SendBegins, Notes!BecomesDue, Notes!LocalSaved, Notes!Resolve, Notes!Update,
         Notes!Remove
  <2>7. CASE \E n \in Notes!Notes, t \in {"server", "local"} : Notes!Transfer(n, t)
    BY <2>1, <2>7 DEF Notes!Transfer
  <2> QED BY <2>1, <2>2, <2>3, <2>4, <2>5, <2>6, <2>7 DEF Notes!Next, Notes!WorkSteps, Notes!Syncs, Notes!Waits,
       notesVars
<1> QED BY <1>1, <1>2 DEF Notes!SentFromHere

LEMMA NotesMoves ==
    ASSUME [AllNext]_allVars
    PROVE  [Notes!Next]_notesVars
BY DEF AllNext, allVars, SyncOnly, NotesOnly, WatchOnly, SettingsOnly

\* What the user saved in a note is on its way to the server until the server
\* has had it; but no note is changed while its request is awaited, before a new
\* note is confirmed, or while it is being moved.
THEOREM EditsStayKept ==
    NotesDisturbed \subseteq {"twin"} => (AllSpec => []EditsKept)
<1> SUFFICES ASSUME NotesDisturbed \subseteq {"twin"} PROVE AllSpec => []EditsKept
  OBVIOUS
<1>1. AllInit => NotesIInv
  BY NotesInitInv, KeepingConstants DEF AllInit, NotesBounds
<1>2. NotesIInv /\ [AllNext]_allVars => NotesIInv'
  BY NotesMoves, NotesStepInv
<1>3. NotesIInv => EditsKept
  BY NotesSound DEF EditsKept
<1> QED BY <1>1, <1>2, <1>3, PTL DEF AllSpec

\* The source of a move is deleted only when no change waits for it any more.
THEOREM SourcesLeaveLast ==
    NotesDisturbed \subseteq {"twin"} =>
        (AllSpec => Notes!SourceLeavesLast)
<1> SUFFICES ASSUME NotesDisturbed \subseteq {"twin"} PROVE AllSpec => Notes!SourceLeavesLast
  OBVIOUS
<1>1. AllInit => NotesIInv
  BY NotesInitInv, KeepingConstants DEF AllInit, NotesBounds
<1>2. NotesIInv /\ [AllNext]_allVars => NotesIInv'
  BY NotesMoves, NotesStepInv
<1>3. NotesIInv /\ NotesIInv' /\ [AllNext]_allVars => [\A n, m \in Notes!Notes :
          (op'[n].action = "delete" /\ op[n].action # "delete" /\ op'[m].source = n) => Notes!Remove(n)]_notesVars
  BY NotesMoves, NotesSourceStep
<1> QED BY <1>1, <1>2, <1>3, PTL DEF AllSpec, Notes!SourceLeavesLast, Notes!vars, notesVars

\* The pass overwrites or deletes no version of a note that the user had not seen,
\* and a move deletes its source last, if a new note is confirmed before the next
\* synchronization and no note is changed while it is sent or moved.
THEOREM ServerStaysKept ==
    NotesDisturbed = {} => (AllSpec => ServerIsKept)
<1> SUFFICES ASSUME NotesDisturbed = {} PROVE AllSpec => ServerIsKept
  OBVIOUS
<1>1. AllInit => NotesIInv /\ NotesViewed
  BY NotesInitInv, NotesInitViewed, KeepingConstants DEF AllInit, NotesBounds
<1>2. NotesIInv /\ NotesViewed /\ [AllNext]_allVars => (NotesIInv /\ NotesViewed)'
  BY NotesMoves, NotesStepInv, NotesStepViewed
<1>3. NotesIInv /\ NotesViewed /\ [AllNext]_allVars => [\A a \in Notes!Address :
          Notes!SentFromHere /\ notesServer'[a] # notesServer[a] /\ notesServer[a].text # 0
              => notesServer[a].text \in seen]_notesVars
  BY NotesMoves, NotesBlindStep
<1>4. AllSpec => Notes!NoBlindWrite
  BY <1>1, <1>2, <1>3, PTL DEF AllSpec, Notes!NoBlindWrite, Notes!vars, notesVars
<1>5. AllSpec => Notes!SourceLeavesLast
  BY SourcesLeaveLast
<1> QED BY <1>4, <1>5 DEF ServerIsKept, Notes!ServerIsKept

-----------------------------------------------------------------------------
(* Watches for replies, which run out some time after their deadline.      *)

WatchBounds == MaxRow \in Nat /\ "none" \notin WatchMail
WatchWatches == [status : {"none", "pending", "watching", "replied", "expired", "cancelled"}, header : BOOLEAN, thread : BOOLEAN,
                 copy : BOOLEAN, scanned : 0 .. MaxRow, backfill : BOOLEAN]
WatchTypeOK ==
    /\ watch \in WatchWatches /\ rows \in [Watch!Rows -> WatchMail \cup {"none"}] /\ watchServer \in SUBSET WatchMail /\ early \in SUBSET WatchMail
    /\ watchSync \in [on : BOOLEAN, left : SUBSET WatchMail, stored : BOOLEAN]
    /\ syncEnabled \in BOOLEAN /\ time \in 0 .. 2 /\ recent \in BOOLEAN /\ (time = 0 => ~recent)

\* What is in the mailbox since before the deadline is stored by the first
\* synchronization that begins after it.
WatchAwaited == early \cap watchServer
WatchSynced ==
    /\ time = 1 /\ watchSync.on => WatchAwaited \subseteq Watch!Stored \cup watchSync.left
    /\ time = 1 /\ recent => WatchAwaited \subseteq Watch!Stored

WatchIInv == WatchBounds /\ WatchTypeOK /\ WatchSynced

\* A watch runs out after such a synchronization.
WatchAnswered ==
    watch.status = "watching" /\ watch'.status = "expired" /\ time = 1 /\ syncEnabled
        => early \cap Watch!Answers \cap watchServer \subseteq Watch!Stored

LEMMA WatchHighest ==
    ASSUME WatchBounds, NEW S \in SUBSET (0 .. MaxRow), S # {}
    PROVE  Watch!Max(S) \in S /\ \A m \in S : m <= Watch!Max(S)
<1> DEFINE Less == {ss \in Nat \X Nat : ss[1] < ss[2]}
           Up == {MaxRow - m : m \in S}
<1>1. IsWellFoundedOn(Less, Nat)
  BY NatLessThanWellFounded DEF OpToRel
<1>2. MaxRow \in Nat /\ \A m \in S : m \in Nat /\ MaxRow - m \in Nat
  BY DEF WatchBounds
<1>3. Up \subseteq Nat /\ Up # {}
  BY <1>2
<1>4. PICK up \in Up : \A y \in Up : ~ (<<y, up>> \in Less)
  BY <1>1, <1>3, WFMin, Zenon
<1>5. \E x \in S : \A y \in S : x >= y
  <2>1. PICK x \in S : up = MaxRow - x
    BY <1>4
  <2>2. ASSUME NEW y \in S PROVE x >= y
    <3>1. MaxRow - y \in Up
      OBVIOUS
    <3>2. ~ (<<MaxRow - y, MaxRow - x>> \in Less)
      BY <1>4, <2>1, <3>1
    <3>3. ~ (MaxRow - y < MaxRow - x)
      BY <1>2, <3>2
    <3> QED BY <1>2, <3>3
  <2> QED BY <2>2
<1>6. Watch!Max(S) \in S /\ \A y \in S : Watch!Max(S) >= y
  BY <1>5 DEF Watch!Max
<1> QED BY <1>2, <1>6

LEMMA WatchRowsUsed ==
    ASSUME WatchBounds
    PROVE  Watch!MaxRowid \in 0 .. MaxRow /\ \A r \in Watch!Rows : r > Watch!MaxRowid => rows[r] = "none"
<1> DEFINE S == {0} \cup {r \in Watch!Rows : rows[r] # "none"}
<1>1. S \in SUBSET (0 .. MaxRow) /\ S # {}
  BY DEF WatchBounds, Watch!Rows
<1>2. Watch!Max(S) \in S /\ \A m \in S : m <= Watch!Max(S)
  BY <1>1, WatchHighest
<1>3. Watch!MaxRowid = Watch!Max(S)
  BY DEF Watch!MaxRowid
<1>4. MaxRow \in Nat
  BY DEF WatchBounds
<1> QED BY <1>1, <1>2, <1>3, <1>4 DEF Watch!Rows

\* One look at the mail, which ends a watch only with a reply.
LEMMA WatchSearched ==
    ASSUME WatchBounds, NEW w \in WatchWatches
    PROVE  Watch!Search(w) \in WatchWatches /\ Watch!Search(w).status \in {w.status, "replied"}
<1> DEFINE adopted == ~w.copy /\ \E r \in Watch!FirstFresh(w) : rows[r] = "copy"
<1>1. PICK h \in 0 .. MaxRow : h = Watch!Max({w.scanned} \cup Watch!FirstFresh(w))
  <2>1. {w.scanned} \cup Watch!FirstFresh(w) \in SUBSET (0 .. MaxRow)
    BY DEF WatchBounds, Watch!Rows, WatchWatches, Watch!FirstFresh, Watch!Fresh
  <2>2. {w.scanned} \cup Watch!FirstFresh(w) # {}
    OBVIOUS
  <2> QED BY <2>1, <2>2, WatchHighest
<1>2. PICK a \in BOOLEAN : a = adopted
  OBVIOUS
<1> DEFINE v == [w EXCEPT !.copy = @ \/ a, !.header = @ \/ a, !.thread = @ \/ a, !.scanned = h, !.backfill = FALSE]
<1>3. v \in WatchWatches /\ v.status = w.status
  BY DEF WatchWatches
<1>4. v = [w EXCEPT !.copy = @ \/ adopted, !.header = @ \/ adopted, !.thread = @ \/ adopted,
                    !.scanned = Watch!Max({@} \cup Watch!FirstFresh(w)), !.backfill = FALSE]
  BY <1>1, <1>2
<1> HIDE DEF v
<1>5. [v EXCEPT !.status = "replied"] \in WatchWatches /\ [v EXCEPT !.status = "replied"].status = "replied"
  BY <1>3 DEF WatchWatches
<1>6. Watch!Search(w) = [v EXCEPT !.status = "replied"] \/ Watch!Search(w) = v
  BY <1>4 DEF Watch!Search
<1> QED BY <1>3, <1>5, <1>6

\* One pass over a watch.
LEMMA WatchProcessed ==
    ASSUME WatchBounds, NEW w \in WatchWatches
    PROVE  /\ Watch!Process(w) \in WatchWatches
           /\ Watch!Process(w).status = "expired" => w.status = "expired" \/ Watch!ExpiryDue(w)
<1>1. CASE w.status # "watching"
  BY <1>1 DEF Watch!Process, WatchWatches
<1>2. CASE w.status = "watching"
  <2>1. PICK v \in WatchWatches : v = Watch!Search(w) /\ v.status \in {"watching", "replied"}
    BY <1>2, WatchSearched
  <2>2. [v EXCEPT !.status = "expired"] \in WatchWatches
    BY DEF WatchWatches
  <2>3. \/ Watch!Process(w) = v
        \/ Watch!Process(w) = [v EXCEPT !.status = "expired"] /\ Watch!ExpiryDue(w)
    BY <1>2, <2>1 DEF Watch!Process, Watch!Scan
  <2> QED BY <2>1, <2>2, <2>3
<1> QED BY <1>1, <1>2

LEMMA WatchInitInv ==
    ASSUME WatchBounds, Watch!Init
    PROVE  WatchIInv
<1>1. watch \in WatchWatches
  BY DEF WatchBounds, Watch!Init, Watch!NoWatch, WatchWatches
<1>2. recent \in BOOLEAN /\ ~recent /\ syncEnabled \in BOOLEAN
  BY Zenon DEF Watch!Init
<1>3. watchSync \in [on : BOOLEAN, left : SUBSET WatchMail, stored : BOOLEAN]
  BY DEF Watch!Init, Watch!NoSync
<1>4. /\ rows \in [Watch!Rows -> WatchMail \cup {"none"}] /\ watchServer \in SUBSET WatchMail /\ early \in SUBSET WatchMail
      /\ time \in 0 .. 2 /\ time = 0
  BY DEF Watch!Init
<1>5. WatchTypeOK
  BY <1>1, <1>2, <1>3, <1>4 DEF WatchTypeOK
<1> QED BY <1>4, <1>5 DEF WatchIInv, WatchSynced

\* Neither the mailbox nor the clock moves: only the draft or the watch does.
LEMMA WatchStillSynced ==
    ASSUME WatchIInv, UNCHANGED <<Watch!mailbox, Watch!clock>>, watch' \in WatchWatches
    PROVE  WatchIInv'
<1>1. WatchTypeOK'
  BY DEF WatchIInv, WatchTypeOK, Watch!mailbox, Watch!clock
<1>2. WatchSynced'
  BY DEF WatchIInv, WatchSynced, WatchAwaited, Watch!Stored, Watch!mailbox, Watch!clock
<1> QED BY <1>1, <1>2 DEF WatchIInv, WatchBounds

LEMMA WatchWatchStep ==
    ASSUME WatchIInv,
           \/ Watch!Pass \/ Watch!CreateForDraft \/ Watch!CreateForMessage \/ Watch!Cancel \/ Watch!CancelSend \/ Watch!Send \/ Watch!Discard(TRUE) \/ Watch!Discard(FALSE)
           \/ Watch!DeliveryBegins \/ Watch!Transmit \/ Watch!DeliveryEnds \/ Watch!DeliveryFails
    PROVE  WatchIInv'
<1>1. WatchBounds /\ watch \in WatchWatches
  BY DEF WatchIInv, WatchTypeOK
<1>2. CASE Watch!Pass
  BY <1>1, <1>2, WatchProcessed, WatchStillSynced DEF Watch!Pass
<1>3. CASE Watch!CreateForDraft \/ Watch!CreateForMessage
  <2>1. watch' \in WatchWatches
    <3>1. [Watch!NoWatch EXCEPT !.status = "pending"] \in WatchWatches
      <4>1. Watch!NoWatch \in WatchWatches
        BY <1>1 DEF Watch!NoWatch, WatchWatches, WatchBounds
      <4> QED BY <4>1 DEF WatchWatches
    <3>2. CASE Watch!CreateForDraft
      BY <3>1, <3>2 DEF Watch!CreateForDraft
    <3>3. CASE Watch!CreateForMessage
      <4>1. \E r \in Watch!Rows : rows[r] = "copy"
        BY <3>3 DEF Watch!CreateForMessage, Watch!Stored
      <4>2. PICK r \in Watch!Rows : r = CHOOSE q \in Watch!Rows : rows[q] = "copy"
        BY <4>1
      <4>3. r \in 0 .. MaxRow
        BY <1>1 DEF Watch!Rows, WatchBounds
      <4>4. Watch!MessageWatch \in WatchWatches
        BY <4>2, <4>3 DEF Watch!MessageWatch, WatchWatches
      <4>5. PICK w \in WatchWatches : w = IF watch.status = "watching" THEN watch ELSE Watch!MessageWatch
        BY <1>1, <4>4
      <4> QED BY <1>1, <3>3, <4>5, WatchSearched DEF Watch!CreateForMessage
    <3> QED BY <1>3, <3>2, <3>3
  <2>2. UNCHANGED Watch!mailbox /\ time' = 0 /\ recent' = FALSE /\ early' = early \cup watchServer
    BY <1>3 DEF Watch!CreateForDraft, Watch!CreateForMessage, Watch!NewDeadline
  <2>3. WatchTypeOK'
    <3>1. recent' \in BOOLEAN /\ ~recent'
      BY <2>2, Zenon
    <3>2. time' \in 0 .. 2 /\ early' \in SUBSET WatchMail
      BY <2>2 DEF WatchIInv, WatchTypeOK
    <3>3. UNCHANGED <<rows, watchServer, watchSync, syncEnabled>>
      BY <2>2 DEF Watch!mailbox
    <3> QED BY <2>1, <3>1, <3>2, <3>3 DEF WatchIInv, WatchTypeOK
  <2>4. WatchSynced'
    BY <2>2 DEF WatchSynced
  <2> QED BY <1>1, <2>3, <2>4 DEF WatchIInv, WatchBounds
<1>4. CASE \/ Watch!Cancel \/ Watch!CancelSend \/ Watch!Send \/ Watch!Discard(TRUE) \/ Watch!Discard(FALSE)
           \/ Watch!DeliveryBegins \/ Watch!Transmit \/ Watch!DeliveryEnds \/ Watch!DeliveryFails
  <2>1. [watch EXCEPT !.status = "cancelled"] \in WatchWatches
    BY <1>1 DEF WatchWatches
  <2>2. Watch!CancelledForDraft \in WatchWatches
    BY <1>1, <2>1 DEF Watch!CancelledForDraft
  <2>3. Watch!Activated \in WatchWatches
    <3>1. Watch!MaxRowid \in 0 .. MaxRow /\ ("header" \in Known) \in BOOLEAN /\ ("thread" \in Known) \in BOOLEAN
      BY <1>1, WatchRowsUsed
    <3> QED BY <1>1, <3>1 DEF Watch!Activated, WatchWatches
  <2>4. watch' \in WatchWatches /\ UNCHANGED <<Watch!mailbox, Watch!clock>>
    BY <1>1, <1>4, <2>1, <2>2, <2>3 DEF Watch!Cancel, Watch!CancelSend, Watch!Send, Watch!Discard,
         Watch!DeliveryBegins, Watch!Transmit, Watch!DeliveryEnds, Watch!DeliveryFails
  <2> QED BY <2>4, WatchStillSynced
<1> QED BY <1>2, <1>3, <1>4

LEMMA WatchMailboxStep ==
    ASSUME WatchIInv, "overlap" \notin WatchDisturbed,
           \/ \E m \in WatchMail : Watch!Arrive(m) \/ Watch!SyncStores(m)
           \/ Watch!SyncBegins \/ Watch!SyncEnds \/ Watch!SyncReports \/ Watch!SwitchSync \/ Watch!Tick \/ Watch!Crash \/ \E r \in Watch!Rows : Watch!Remove(r)
    PROVE  WatchIInv'
<1>1. WatchBounds /\ WatchTypeOK /\ WatchSynced
  BY DEF WatchIInv
<1>2. ASSUME NEW m \in WatchMail, Watch!Arrive(m) PROVE WatchIInv'
  <2>1. UNCHANGED <<watch, rows, watchSync, syncEnabled, time, recent>> /\ watchServer' = watchServer \cup {m} /\ m \notin early
        /\ early' = IF time = 0 THEN early \cup {m} ELSE early
    BY <1>2 DEF Watch!Arrive, Watch!clock, Watch!mailbox
  <2>2. WatchTypeOK'
    BY <1>1, <2>1 DEF WatchTypeOK
  <2>3. WatchSynced'
    BY <1>1, <2>1 DEF WatchSynced, WatchAwaited, Watch!Stored
  <2> QED BY <1>1, <2>2, <2>3 DEF WatchIInv, WatchBounds
<1>3. ASSUME NEW m \in WatchMail, Watch!SyncStores(m) PROVE WatchIInv'
  <2>1. PICK h \in Watch!Rows : h = Watch!MaxRowid + 1 /\ rows[h] = "none"
    <3>1. Watch!MaxRowid \in 0 .. MaxRow /\ Watch!MaxRowid < MaxRow /\ MaxRow \in Nat /\ \A r \in Watch!Rows : r > Watch!MaxRowid => rows[r] = "none"
      BY <1>1, <1>3, WatchRowsUsed DEF Watch!SyncStores, WatchBounds
    <3>2. Watch!MaxRowid + 1 \in Watch!Rows /\ Watch!MaxRowid + 1 > Watch!MaxRowid
      BY <3>1 DEF Watch!Rows
    <3> QED BY <3>1, <3>2
  <2>2. /\ rows' = [rows EXCEPT ![h] = m] /\ watchSync' = [watchSync EXCEPT !.left = watchSync.left \ {m}, !.stored = TRUE]
        /\ UNCHANGED <<watch, watchServer, syncEnabled, time, recent, early>>
    BY <1>3, <2>1 DEF Watch!SyncStores, Watch!clock, Watch!mailbox
  <2>3. rows'[h] = m /\ \A r \in Watch!Rows : r # h => rows'[r] = rows[r]
    BY <1>1, <2>2 DEF WatchTypeOK
  <2>4. Watch!Stored' = Watch!Stored \cup {m}
    BY <1>1, <2>1, <2>3 DEF Watch!Stored, WatchBounds
  <2>5. watchSync'.on = watchSync.on /\ watchSync'.left = watchSync.left \ {m} /\ watchSync' \in [on : BOOLEAN, left : SUBSET WatchMail, stored : BOOLEAN]
    BY <1>1, <2>2 DEF WatchTypeOK
  <2>6. WatchTypeOK'
    BY <1>1, <2>2, <2>5 DEF WatchTypeOK
  <2>7. WatchSynced'
    <3>1. WatchAwaited' = WatchAwaited /\ time' = time /\ recent' = recent
      BY <2>2 DEF WatchAwaited
    <3>2. WatchAwaited \subseteq Watch!Stored => WatchAwaited \subseteq Watch!Stored'
      BY <2>4
    <3>3. WatchAwaited \subseteq Watch!Stored \cup watchSync.left => WatchAwaited \subseteq Watch!Stored' \cup watchSync'.left
      BY <2>4, <2>5
    <3> QED BY <1>1, <2>5, <3>1, <3>2, <3>3 DEF WatchSynced
  <2> QED BY <1>1, <2>6, <2>7 DEF WatchIInv, WatchBounds
<1>4. CASE Watch!SyncBegins
  <2>1. watchSync' = [Watch!NoSync EXCEPT !.on = TRUE, !.left = watchServer \ Watch!Stored] /\ UNCHANGED <<watch, rows, watchServer, syncEnabled, time, recent, early>>
    BY <1>4 DEF Watch!SyncBegins, Watch!clock, Watch!mailbox
  <2>2. watchSync'.left = watchServer \ Watch!Stored /\ watchSync' \in [on : BOOLEAN, left : SUBSET WatchMail, stored : BOOLEAN]
    BY <1>1, <2>1 DEF WatchTypeOK, Watch!NoSync
  <2>3. WatchTypeOK'
    BY <1>1, <2>1, <2>2 DEF WatchTypeOK
  <2>4. WatchSynced'
    <3>1. WatchAwaited' = WatchAwaited /\ Watch!Stored' = Watch!Stored /\ time' = time /\ recent' = recent
      BY <2>1 DEF WatchAwaited, Watch!Stored
    <3>2. WatchAwaited \subseteq Watch!Stored \cup watchSync'.left
      BY <2>2 DEF WatchAwaited
    <3> QED BY <1>1, <3>1, <3>2 DEF WatchSynced
  <2> QED BY <1>1, <2>3, <2>4 DEF WatchIInv, WatchBounds
<1>5. CASE Watch!SyncEnds
  <2>1. /\ watchSync.on /\ watchSync.left = {} /\ watchSync' = [watchSync EXCEPT !.on = FALSE] /\ recent' = (time >= 1)
        /\ UNCHANGED <<watch, rows, watchServer, syncEnabled, time, early>>
    BY <1>5 DEF Watch!SyncEnds, Watch!clock, Watch!mailbox
  <2>2. ~watchSync'.on /\ watchSync' \in [on : BOOLEAN, left : SUBSET WatchMail, stored : BOOLEAN]
    BY <1>1, <2>1 DEF WatchTypeOK
  <2>3. WatchTypeOK'
    BY <1>1, <2>1, <2>2 DEF WatchTypeOK
  <2>4. WatchSynced'
    BY <1>1, <2>1, <2>2 DEF WatchSynced, WatchAwaited, Watch!Stored
  <2> QED BY <1>1, <2>3, <2>4 DEF WatchIInv, WatchBounds
<1>6. CASE Watch!SyncReports
  <2>1. watch' = Watch!Process(watch) /\ watchSync' = Watch!NoSync /\ UNCHANGED <<rows, watchServer, syncEnabled, time, recent, early>>
    BY <1>6 DEF Watch!SyncReports, Watch!clock, Watch!mailbox
  <2>2. watch' \in WatchWatches /\ (watch'.status = "expired" => watch.status = "expired" \/ Watch!ExpiryDue(watch))
    BY <1>1, <2>1, WatchProcessed DEF WatchTypeOK
  <2>3. WatchTypeOK'
    BY <1>1, <2>1, <2>2 DEF WatchTypeOK, Watch!NoSync
  <2>4. WatchSynced'
    BY <1>1, <2>1 DEF WatchSynced, WatchAwaited, Watch!Stored, Watch!NoSync
  <2> QED BY <1>1, <2>3, <2>4 DEF WatchIInv, WatchBounds
<1>7. CASE Watch!Tick
  <2>1. watchSync = Watch!NoSync /\ time < 2 /\ time' = time + 1 /\ UNCHANGED <<watch, rows, watchServer, watchSync, syncEnabled, recent, early>>
    BY <1>7 DEF Watch!Tick, Watch!clock, Watch!mailbox
  <2>2. WatchTypeOK'
    BY <1>1, <2>1 DEF WatchTypeOK
  <2>3. WatchSynced'
    BY <1>1, <2>1 DEF WatchSynced, Watch!NoSync, WatchTypeOK
  <2> QED BY <1>1, <2>2, <2>3 DEF WatchIInv, WatchBounds
<1>8. CASE Watch!Crash
  <2>1. watchSync' = Watch!NoSync /\ UNCHANGED <<watch, rows, watchServer, syncEnabled, time, recent, early>>
    BY <1>8 DEF Watch!Crash, Watch!clock, Watch!mailbox
  <2>2. WatchTypeOK'
    BY <1>1, <2>1 DEF WatchTypeOK, Watch!NoSync
  <2>3. WatchSynced'
    BY <1>1, <2>1 DEF WatchSynced, WatchAwaited, Watch!Stored, Watch!NoSync
  <2> QED BY <1>1, <2>2, <2>3 DEF WatchIInv, WatchBounds
<1>9. ASSUME NEW r \in Watch!Rows, Watch!Remove(r) PROVE WatchIInv'
  <2>1. /\ rows' = [rows EXCEPT ![r] = "none"] /\ watchServer' = watchServer \ {rows[r]}
        /\ UNCHANGED <<watch, watchSync, syncEnabled, time, recent, early>>
    BY <1>9 DEF Watch!Remove, Watch!clock, Watch!mailbox
  <2>2. \A q \in Watch!Rows : q # r => rows'[q] = rows[q]
    BY <1>1, <2>1 DEF WatchTypeOK
  <2>3. Watch!Stored \subseteq Watch!Stored' \cup {rows[r]}
    BY <2>2 DEF Watch!Stored
  <2>4. WatchTypeOK'
    BY <1>1, <2>1 DEF WatchTypeOK
  <2>5. WatchSynced'
    BY <1>1, <2>1, <2>3 DEF WatchSynced, WatchAwaited
  <2> QED BY <1>1, <2>4, <2>5 DEF WatchIInv, WatchBounds
<1>10. CASE Watch!SwitchSync
  <2>1. syncEnabled' \in BOOLEAN /\ UNCHANGED <<watch, rows, watchServer, watchSync, time, recent, early>>
    BY <1>1, <1>10 DEF Watch!SwitchSync, Watch!clock
  <2>2. WatchTypeOK'
    BY <1>1, <2>1 DEF WatchTypeOK
  <2>3. WatchSynced'
    BY <1>1, <2>1 DEF WatchSynced, WatchAwaited, Watch!Stored
  <2> QED BY <1>1, <2>2, <2>3 DEF WatchIInv, WatchBounds
<1> QED BY <1>2, <1>3, <1>4, <1>5, <1>6, <1>7, <1>8, <1>9, <1>10

LEMMA WatchStepInv ==
    ASSUME "overlap" \notin WatchDisturbed, WatchIInv, [Watch!Next]_watchVars
    PROVE  WatchIInv'
<1>1. CASE UNCHANGED watchVars
  <2>1. UNCHANGED <<Watch!mailbox, Watch!clock>> /\ watch' = watch
    BY <1>1 DEF watchVars, Watch!mailbox, Watch!clock
  <2> QED BY <2>1, WatchStillSynced DEF WatchIInv, WatchTypeOK
<1>2. CASE Watch!Next
  <2>1. \A b \in BOOLEAN : Watch!Discard(b) => Watch!Discard(TRUE) \/ Watch!Discard(FALSE)
    BY DEF Watch!Discard
  <2> QED BY <1>2, <2>1, WatchWatchStep, WatchMailboxStep DEF Watch!Next
<1> QED BY <1>1, <1>2

\* Only a pass lets a watch run out, and it heeds the deadline.
LEMMA WatchAnsweredStep ==
    ASSUME WatchIInv, [Watch!Next]_watchVars
    PROVE  WatchAnswered
<1> SUFFICES ASSUME watch.status = "watching", watch'.status = "expired", time = 1, syncEnabled
             PROVE  early \cap Watch!Answers \cap watchServer \subseteq Watch!Stored
  BY DEF WatchAnswered
<1>1. WatchBounds /\ watch \in WatchWatches /\ WatchSynced
  BY DEF WatchIInv, WatchTypeOK
<1>2. Watch!Pass \/ Watch!SyncReports
  <2>1. CASE Watch!CreateForDraft \/ Watch!CreateForMessage
    <3>1. CASE Watch!CreateForDraft
      BY <3>1 DEF Watch!CreateForDraft, Watch!NoWatch
    <3>2. CASE Watch!CreateForMessage
      <4>1. PICK r \in Watch!Rows : rows[r] = "copy" /\ r = CHOOSE q \in Watch!Rows : rows[q] = "copy"
        <5>1. \E r \in Watch!Rows : rows[r] = "copy"
          BY <3>2 DEF Watch!CreateForMessage, Watch!Stored
        <5> QED BY <5>1
      <4>2. Watch!MessageWatch \in WatchWatches /\ Watch!MessageWatch.status = "watching"
        BY <1>1, <4>1 DEF Watch!MessageWatch, WatchWatches, Watch!Rows, WatchBounds
      <4>3. PICK w \in WatchWatches : w.status = "watching" /\ watch' = Watch!Search(w)
        BY <1>1, <3>2, <4>2 DEF Watch!CreateForMessage
      <4> QED BY <1>1, <4>3, WatchSearched
    <3> QED BY <2>1, <3>1, <3>2
  <2>2. CASE \/ Watch!Cancel \/ Watch!CancelSend \/ Watch!Send \/ Watch!Discard(TRUE) \/ Watch!Discard(FALSE) \/ Watch!DeliveryBegins \/ Watch!Transmit
             \/ Watch!DeliveryEnds \/ Watch!DeliveryFails
    <3>1. [watch EXCEPT !.status = "cancelled"].status = "cancelled"
      BY <1>1 DEF WatchWatches
    <3>2. Watch!CancelledForDraft.status \in {"cancelled", watch.status} /\ Watch!Activated.status \in {"watching", watch.status}
      BY <1>1, <3>1 DEF Watch!CancelledForDraft, Watch!Activated, WatchWatches
    <3> QED BY <2>2, <3>1, <3>2 DEF Watch!Cancel, Watch!CancelSend, Watch!Send, Watch!Discard,
         Watch!DeliveryBegins, Watch!Transmit, Watch!DeliveryEnds, Watch!DeliveryFails
  <2>3. CASE \/ Watch!SyncBegins \/ Watch!SyncEnds \/ Watch!SwitchSync \/ Watch!Tick \/ Watch!Crash \/ UNCHANGED watchVars
             \/ \E m \in WatchMail : Watch!Arrive(m) \/ Watch!SyncStores(m)
             \/ \E r \in Watch!Rows : Watch!Remove(r)
    BY <2>3 DEF Watch!SyncBegins, Watch!SyncEnds, Watch!SwitchSync, Watch!Tick, Watch!Crash, Watch!Arrive,
         Watch!SyncStores, Watch!Remove, watchVars
  <2>4. \A b \in BOOLEAN : Watch!Discard(b) => Watch!Discard(TRUE) \/ Watch!Discard(FALSE)
    BY DEF Watch!Discard
  <2> QED BY <2>1, <2>2, <2>3, <2>4 DEF Watch!Next
<1>3. watch' = Watch!Process(watch)
  BY <1>2 DEF Watch!Pass, Watch!SyncReports
<1>4. Watch!ExpiryDue(watch)
  BY <1>1, <1>3, WatchProcessed
<1>5. recent
  BY <1>1, <1>4 DEF Watch!ExpiryDue
<1> QED BY <1>1, <1>5 DEF WatchSynced, WatchAwaited

LEMMA WatchMoves ==
    ASSUME [AllNext]_allVars
    PROVE  [Watch!Next]_watchVars
BY DEF AllNext, allVars, SyncOnly, NotesOnly, WatchOnly, SettingsOnly

\* A watch that runs out less than a day after its deadline, in an account that
\* synchronizes, does so after a synchronization that stored every reply there
\* was in time; but none may run across the deadline.
THEOREM WatchesWaitForReplies ==
    "overlap" \notin WatchDisturbed => (AllSpec => ExpiresUnanswered)
<1> SUFFICES ASSUME "overlap" \notin WatchDisturbed PROVE AllSpec => ExpiresUnanswered
  OBVIOUS
<1>1. AllInit => WatchIInv
  BY WatchInitInv, KeepingConstants DEF AllInit, WatchBounds
<1>2. WatchIInv /\ [AllNext]_allVars => WatchIInv'
  BY WatchMoves, WatchStepInv
<1>3. WatchIInv /\ [AllNext]_allVars => [WatchAnswered]_(Watch!vars)
  BY WatchMoves, WatchAnsweredStep DEF Watch!vars, Watch!mailbox, Watch!clock, watchVars
<1> QED BY <1>1, <1>2, <1>3, PTL DEF AllSpec, WatchAnswered, ExpiresUnanswered, Watch!ExpiresUnanswered

-----------------------------------------------------------------------------
(* Settings of several devices in one file, which they exchange            *)
(* conditionally.                                                          *)

SettingsBundle == [main : SUBSET Nat, sigs : SUBSET Nat]
SettingsDocument == [bundle : SettingsBundle, revision : Nat, at : Nat]
SettingsPlaces == {"idle", "get", "compare", "upload", "put", "import", "sigs", "main", "undo", "save"}
SettingsRun == [at : SettingsPlaces, choice : {"none", "local", "remote"}, interrupted : BOOLEAN, local : SettingsBundle,
                remote : SettingsDocument, cause : {"none", "edited", "disk", "locked"}]
SettingsTypeOK ==
    /\ local \in [Settings!Device -> SettingsBundle] /\ settingsWork \in [Settings!Device -> SettingsRun] /\ file \in SettingsDocument /\ serial \in Nat
    /\ settingsCheckpoint \in [Settings!Device -> [known : BOOLEAN, local : SettingsBundle, remote : SettingsDocument]]
    /\ journal \in [Settings!Device -> BOOLEAN] /\ half \in [Settings!Device -> BOOLEAN]
    /\ author \in Seq(Settings!Device) /\ given \in SUBSET Nat

\* A bundle is in another one, as far as the users did not give it up.
SettingsInside(b, c) == b.main \subseteq c.main /\ b.sigs \subseteq c.sigs
SettingsWithin(b, c, lost) == b.main \subseteq c.main \cup lost /\ b.sigs \subseteq c.sigs \cup lost
SettingsBase(d) == settingsCheckpoint[d].remote.bundle

\* An edit belongs to one part for good.
SettingsFits(b, mains, edits) == b.main \subseteq mains /\ b.sigs \subseteq edits \ mains
SettingsFitting(d, mains, edits) ==
    /\ SettingsFits(local[d], mains, edits) /\ SettingsFits(SettingsBase(d), mains, edits)
    /\ SettingsFits(Settings!Mine(d), mains, edits) /\ SettingsFits(Settings!Theirs(d), mains, edits)
SettingsSorted == \E mains \in SUBSET Settings!Edits :
    SettingsFits(file.bundle, mains, Settings!Edits) /\ \A d \in Settings!Device : SettingsFitting(d, mains, Settings!Edits)

\* A revision names one version of the file.
SettingsDated ==
    /\ file.revision <= serial /\ (file.revision = 0 => file = Settings!NoFile)
    /\ \A d \in Settings!Device :
          /\ settingsWork[d].remote.revision <= serial
          /\ settingsWork[d].remote.revision = 0 => settingsWork[d].remote = Settings!NoFile
          /\ settingsWork[d].remote.revision = file.revision => settingsWork[d].remote = file

\* What a device agreed on with the others is here and in the file.
SettingsSteady == {"get", "compare", "upload", "put", "import", "sigs", "main", "undo"}
SettingsGot == {"compare", "upload", "put", "import", "sigs", "main", "undo", "save"}
SettingsBased(d) ==
    /\ settingsCheckpoint[d].local = SettingsBase(d)
    /\ SettingsWithin(SettingsBase(d), local[d], given) /\ SettingsWithin(SettingsBase(d), file.bundle, given)
    /\ settingsWork[d].at \in SettingsSteady => SettingsWithin(SettingsBase(d), Settings!Mine(d), given)
    /\ settingsWork[d].at \in SettingsGot => SettingsWithin(SettingsBase(d), Settings!Theirs(d), given) /\ SettingsWithin(Settings!Theirs(d), file.bundle, given)

\* What a run captured is still here, and no later edit of the device is elsewhere.
SettingsElsewhere(d, e) ==
    \/ e \in Settings!All(file.bundle) \/ e \in Settings!All(Settings!Theirs(d))
    \/ \E x \in Settings!Device \ {d} : e \in Settings!All(local[x]) \/ e \in Settings!All(Settings!Mine(x)) \/ e \in Settings!All(Settings!Theirs(x))
SettingsCaptured(d) ==
    /\ settingsWork[d].at \in {"get", "compare", "upload", "put", "import", "sigs", "save"} => SettingsInside(Settings!Mine(d), local[d])
    /\ settingsWork[d].at \in {"main", "undo"} => Settings!Theirs(d).sigs \subseteq local[d].sigs /\ Settings!Mine(d).main \subseteq local[d].main
    /\ settingsWork[d].at = "save" => Settings!Mine(d) = Settings!Theirs(d)
    /\ settingsWork[d].at \in SettingsSteady =>
          \A e \in Settings!Edits : author[e] = d /\ SettingsElsewhere(d, e) => e \in Settings!All(Settings!Mine(d)) \cup given

\* An unasked run replaces what is as it was when the device agreed.
SettingsDecided(d) ==
    /\ settingsWork[d].at \in {"import", "sigs", "main"} /\ ~Settings!Chosen(d) => Settings!Mine(d) = SettingsBase(d)
    /\ settingsWork[d].at \in {"upload", "put"} /\ ~Settings!Chosen(d) => Settings!Missing(d) \/ Settings!Theirs(d) = SettingsBase(d)

\* Half an import is flagged until a user chose.
SettingsJournaled(d) ==
    /\ half[d] => journal[d]
    /\ settingsWork[d].at \in {"get", "compare", "upload", "put", "import"} => settingsWork[d].interrupted = journal[d]
    /\ settingsWork[d].at \in {"upload", "put", "import"} /\ ~Settings!Chosen(d) => ~settingsWork[d].interrupted
    /\ settingsWork[d].at \in {"sigs", "main", "undo"} => journal[d]
    /\ settingsWork[d].at = "sigs" /\ half[d] => settingsWork[d].interrupted
    /\ settingsWork[d].at = "save" /\ ~Settings!Chosen(d) => ~half[d]
    /\ settingsWork[d].at = "undo" => \/ settingsWork[d].cause = "locked"
                                      \/ settingsWork[d].cause = "edited" /\ local[d].main # Settings!Mine(d).main
                                      \/ settingsWork[d].cause = "disk" /\ ~settingsWork[d].interrupted

SettingsHolds(d) == SettingsBased(d) /\ SettingsCaptured(d) /\ SettingsDecided(d) /\ SettingsJournaled(d)
SettingsIInv == SettingsTypeOK /\ SettingsDated /\ Settings!KeptHere /\ SettingsSorted /\ \A d \in Settings!Device : SettingsHolds(d)

LEMMA SettingsBlank ==
    /\ Settings!Nothing \in SettingsBundle /\ Settings!NoFile \in SettingsDocument /\ Settings!Idle \in SettingsRun
    /\ Settings!NoCheckpoint \in [known : BOOLEAN, local : SettingsBundle, remote : SettingsDocument]
    /\ Settings!NoFile.bundle = Settings!Nothing /\ Settings!Idle.at = "idle" /\ Settings!Idle.local = Settings!Nothing /\ Settings!Idle.remote = Settings!NoFile
    /\ Settings!NoFile.revision = 0 /\ Settings!NoCheckpoint.local = Settings!Nothing /\ Settings!NoCheckpoint.remote = Settings!NoFile
    /\ Settings!Nothing.main = {} /\ Settings!Nothing.sigs = {}
BY DEF Settings!Nothing, Settings!NoFile, Settings!Idle, Settings!NoCheckpoint, SettingsBundle,
     SettingsDocument, SettingsRun, SettingsPlaces

LEMMA SettingsInitInv == Settings!Init => SettingsIInv
<1> SUFFICES ASSUME Settings!Init PROVE SettingsIInv
  OBVIOUS
<1>1. SettingsTypeOK
  BY SettingsBlank DEF Settings!Init, SettingsTypeOK
<1>2. SettingsDated
  BY SettingsBlank DEF Settings!Init, SettingsDated
<1>3. Settings!Edits = {} /\ Settings!KeptHere
  BY DEF Settings!Init, Settings!Edits, Settings!KeptHere
<1>4. SettingsSorted
  <2>1. SettingsFits(Settings!Nothing, {}, {})
    BY SettingsBlank DEF SettingsFits
  <2>2. \A d \in Settings!Device : local[d] = Settings!Nothing /\ SettingsBase(d) = Settings!Nothing /\ Settings!Mine(d) = Settings!Nothing /\ Settings!Theirs(d) = Settings!Nothing
    BY SettingsBlank DEF Settings!Init, SettingsBase, Settings!Mine, Settings!Theirs
  <2>3. file.bundle = Settings!Nothing
    BY SettingsBlank DEF Settings!Init
  <2> QED BY <1>3, <2>1, <2>2, <2>3 DEF SettingsSorted, SettingsFitting
<1>5. ASSUME NEW d \in Settings!Device PROVE SettingsHolds(d)
  BY SettingsBlank DEF Settings!Init, SettingsHolds, SettingsBased, SettingsCaptured, SettingsDecided,
       SettingsJournaled, SettingsBase, SettingsWithin, SettingsSteady, SettingsGot
<1> QED BY <1>1, <1>2, <1>3, <1>4, <1>5 DEF SettingsIInv

\* A device that does not take part in a step.
SettingsAside(d) == UNCHANGED <<local[d], settingsCheckpoint[d], settingsWork[d], journal[d], half[d]>>
SettingsGrows(d) ==
    /\ given \subseteq given' /\ SettingsWithin(file.bundle, file'.bundle, given')
    /\ \A e \in Settings!Edits' : author'[e] = d =>
          /\ e \in Settings!Edits /\ author[e] = d
          /\ SettingsElsewhere(d, e)' => SettingsElsewhere(d, e)
LEMMA SettingsStays ==
    ASSUME NEW d \in Settings!Device, SettingsHolds(d), SettingsAside(d), SettingsGrows(d), settingsWork[d].remote = settingsWork'[d].remote
    PROVE  SettingsHolds(d)'
<1>1. SettingsBased(d)'
  BY DEF SettingsHolds, SettingsAside, SettingsGrows, SettingsBased, SettingsBase, Settings!Mine,
       Settings!Theirs, SettingsWithin
<1>2. SettingsCaptured(d)'
  BY DEF SettingsHolds, SettingsAside, SettingsGrows, SettingsCaptured, Settings!Mine, Settings!Theirs,
       SettingsInside
<1>3. SettingsDecided(d)'
  BY DEF SettingsHolds, SettingsAside, SettingsDecided, SettingsBase, Settings!Mine, Settings!Theirs,
       Settings!Chosen, Settings!Missing
<1>4. SettingsJournaled(d)'
  BY DEF SettingsHolds, SettingsAside, SettingsJournaled, Settings!Mine, Settings!Chosen
<1> QED BY <1>1, <1>2, <1>3, <1>4 DEF SettingsHolds

\* A step of one device that makes no new edit.
SettingsPool(d, e) == e \in Settings!All(file.bundle) \/ e \in Settings!All(local[d]) \/ e \in Settings!All(Settings!Mine(d)) \/ e \in Settings!All(Settings!Theirs(d))
SettingsDraws(d) == \A e : SettingsPool(d, e)' => SettingsPool(d, e)
LEMMA SettingsActs ==
    ASSUME SettingsIInv, NEW d \in Settings!Device, \A x \in Settings!Device \ {d} : SettingsAside(x), author' = author,
           SettingsTypeOK', SettingsDated', given \subseteq given', SettingsWithin(file.bundle, file'.bundle, given'), SettingsDraws(d),
           \A mains \in SUBSET Settings!Edits : SettingsFits(file.bundle, mains, Settings!Edits) /\ SettingsFitting(d, mains, Settings!Edits)
               => SettingsFits(file'.bundle, mains, Settings!Edits) /\ SettingsFitting(d, mains, Settings!Edits)',
           \A e \in Settings!Edits : author[e] = d => e \in Settings!All(local'[d]) \cup given',
           SettingsHolds(d)'
    PROVE  SettingsIInv'
<1>0. Settings!Edits' = Settings!Edits
  BY DEF Settings!Edits
<1>1. Settings!KeptHere'
  <2> SUFFICES ASSUME NEW e \in Settings!Edits PROVE e \in Settings!All(local'[author[e]]) \cup given'
    BY <1>0 DEF Settings!KeptHere, Settings!All
  <2>1. CASE author[e] = d
    BY <2>1
  <2>2. CASE author[e] # d
    <3>1. author[e] \in Settings!Device
      BY DEF SettingsIInv, SettingsTypeOK, Settings!Edits
    <3>2. local'[author[e]] = local[author[e]] /\ e \in Settings!All(local[author[e]]) \cup given
      BY <2>2, <3>1 DEF SettingsAside, SettingsIInv, Settings!KeptHere
    <3> QED BY <3>2
  <2> QED BY <2>1, <2>2
<1>2. SettingsSorted'
  <2>1. PICK mains \in SUBSET Settings!Edits : SettingsFits(file.bundle, mains, Settings!Edits) /\ \A x \in Settings!Device : SettingsFitting(x, mains, Settings!Edits)
    BY DEF SettingsIInv, SettingsSorted
  <2>2. SettingsFits(file'.bundle, mains, Settings!Edits) /\ SettingsFitting(d, mains, Settings!Edits)'
    BY <2>1
  <2>3. ASSUME NEW x \in Settings!Device, x # d PROVE SettingsFitting(x, mains, Settings!Edits)'
    BY <1>0, <2>1, <2>3 DEF SettingsFitting, SettingsAside, SettingsBase, Settings!Mine, Settings!Theirs
  <2>4. \A x \in Settings!Device : SettingsFitting(x, mains, Settings!Edits)'
    BY <2>2, <2>3
  <2> QED BY <1>0, <2>2, <2>4 DEF SettingsSorted
<1>3. ASSUME NEW x \in Settings!Device, x # d PROVE SettingsHolds(x)'
  <2>1. SettingsHolds(x) /\ SettingsAside(x)
    BY <1>3 DEF SettingsIInv
  <2>2. ASSUME NEW e, SettingsElsewhere(x, e)' PROVE SettingsElsewhere(x, e)
    <3>1. SettingsPool(d, e)' => SettingsElsewhere(x, e)
      BY <1>3 DEF SettingsDraws, SettingsPool, SettingsElsewhere
    <3>2. (e \in Settings!All(Settings!Theirs(x)))' => SettingsElsewhere(x, e)
      BY <2>1 DEF SettingsAside, Settings!Theirs, SettingsElsewhere, Settings!All
    <3>3. ASSUME NEW y \in Settings!Device \ {x}, (e \in Settings!All(local[y]) \/ e \in Settings!All(Settings!Mine(y)) \/ e \in Settings!All(Settings!Theirs(y)))'
          PROVE SettingsElsewhere(x, e)
      <4>1. CASE y = d
        BY <3>1, <3>3, <4>1 DEF SettingsPool
      <4>2. CASE y # d
        <5>1. SettingsAside(y)
          BY <4>2
        <5> QED BY <3>3, <5>1 DEF SettingsAside, SettingsElsewhere, Settings!Mine, Settings!Theirs, Settings!All
      <4> QED BY <4>1, <4>2
    <3> QED BY <2>2, <3>1, <3>2, <3>3 DEF SettingsElsewhere, SettingsPool
  <2>3. SettingsGrows(x)
    BY <1>0, <2>2 DEF SettingsGrows
  <2> QED BY <2>1, <2>3, SettingsStays DEF SettingsAside
<1> QED BY <1>0, <1>1, <1>2, <1>3 DEF SettingsIInv

\* A bundle with another part.
LEMMA SettingsWithPart ==
    ASSUME NEW b \in SettingsBundle, NEW s \in SUBSET Nat
    PROVE  /\ \E c \in SettingsBundle : c = [b EXCEPT !.main = s] /\ c.main = s /\ c.sigs = b.sigs
           /\ \E c \in SettingsBundle : c = [b EXCEPT !.sigs = s] /\ c.main = b.main /\ c.sigs = s
<1> DEFINE x == [b EXCEPT !.main = s]
           y == [b EXCEPT !.sigs = s]
<1>1. x \in SettingsBundle /\ x.main = s /\ x.sigs = b.sigs
  BY DEF SettingsBundle
<1>2. y \in SettingsBundle /\ y.main = b.main /\ y.sigs = s
  BY DEF SettingsBundle
<1>3. \E c \in SettingsBundle : c = x /\ c.main = s /\ c.sigs = b.sigs
  <2> HIDE DEF x
  <2> QED BY <1>1
<1>4. \E c \in SettingsBundle : c = y /\ c.main = b.main /\ c.sigs = s
  <2> HIDE DEF y
  <2> QED BY <1>2
<1> QED BY <1>3, <1>4

\* A step after which only the run of one device is another.
LEMMA SettingsMoved ==
    ASSUME SettingsTypeOK, NEW d \in Settings!Device, NEW w \in SettingsRun, settingsWork' = [settingsWork EXCEPT ![d] = w]
    PROVE  settingsWork' \in [Settings!Device -> SettingsRun] /\ settingsWork'[d] = w /\ \A x \in Settings!Device \ {d} : settingsWork'[x] = settingsWork[x]
BY DEF SettingsTypeOK

LEMMA SettingsGoesTo ==
    ASSUME SettingsTypeOK, NEW d \in Settings!Device, NEW at \in SettingsPlaces
    PROVE  LET w == [settingsWork[d] EXCEPT !.at = at] IN
           /\ [settingsWork EXCEPT ![d].at = at] = [settingsWork EXCEPT ![d] = w]
           /\ w \in SettingsRun /\ w.at = at /\ w.local = settingsWork[d].local /\ w.remote = settingsWork[d].remote
           /\ w.choice = settingsWork[d].choice /\ w.interrupted = settingsWork[d].interrupted /\ w.cause = settingsWork[d].cause
<1>1. settingsWork[d] \in SettingsRun
  BY DEF SettingsTypeOK
<1> QED BY <1>1 DEF SettingsRun

LEMMA SettingsTypes ==
    ASSUME SettingsTypeOK, NEW d \in Settings!Device
    PROVE  /\ settingsWork[d] \in SettingsRun /\ local[d] \in SettingsBundle /\ Settings!Mine(d) \in SettingsBundle /\ Settings!Theirs(d) \in SettingsBundle
           /\ settingsWork[d].remote \in SettingsDocument /\ file.bundle \in SettingsBundle /\ journal[d] \in BOOLEAN /\ half[d] \in BOOLEAN
           /\ settingsCheckpoint[d] \in [known : BOOLEAN, local : SettingsBundle, remote : SettingsDocument]
BY DEF SettingsTypeOK, SettingsRun, SettingsDocument, Settings!Mine, Settings!Theirs

\* A run goes on, or ends, and leaves the settings and the file as they are.
SettingsRests == UNCHANGED <<local, settingsCheckpoint, file, serial, author, given, half>>
LEMMA SettingsWalks ==
    ASSUME SettingsIInv, NEW d \in Settings!Device, NEW w \in SettingsRun, settingsWork' = [settingsWork EXCEPT ![d] = w], SettingsRests,
           w.local = Settings!Mine(d) \/ w.local = Settings!Nothing, w.remote = settingsWork[d].remote \/ w.remote = Settings!NoFile \/ w.remote = file,
           journal' \in [Settings!Device -> BOOLEAN], \A x \in Settings!Device \ {d} : journal'[x] = journal[x],
           SettingsHolds(d)'
    PROVE  SettingsIInv'
<1>0. SettingsTypeOK /\ SettingsDated /\ Settings!KeptHere
  BY DEF SettingsIInv
<1>1. settingsWork' \in [Settings!Device -> SettingsRun] /\ settingsWork'[d] = w /\ \A x \in Settings!Device \ {d} : settingsWork'[x] = settingsWork[x]
  BY <1>0, SettingsMoved
<1>2. SettingsTypeOK'
  BY <1>0, <1>1 DEF SettingsTypeOK, SettingsRests
<1>3. \A x \in Settings!Device \ {d} : SettingsAside(x)
  BY <1>1 DEF SettingsAside, SettingsRests
<1>4. SettingsDated'
  <2>1. ASSUME NEW x \in Settings!Device, x # d
        PROVE  /\ settingsWork'[x].remote.revision <= serial
               /\ settingsWork'[x].remote.revision = 0 => settingsWork'[x].remote = Settings!NoFile
               /\ settingsWork'[x].remote.revision = file.revision => settingsWork'[x].remote = file
    BY <1>0, <1>1, <2>1 DEF SettingsDated
  <2>2. /\ w.remote.revision <= serial
        /\ w.remote.revision = 0 => w.remote = Settings!NoFile
        /\ w.remote.revision = file.revision => w.remote = file
    BY <1>0, SettingsBlank DEF SettingsDated, SettingsTypeOK
  <2> QED BY <1>0, <1>1, <2>1, <2>2 DEF SettingsDated, SettingsRests
<1>5. SettingsDraws(d)
  <2>1. Settings!All(Settings!Nothing) = {} /\ Settings!NoFile.bundle = Settings!Nothing
    BY SettingsBlank DEF Settings!All
  <2>2. Settings!Mine(d)' = w.local /\ Settings!Theirs(d)' = w.remote.bundle
    BY <1>1 DEF Settings!Mine, Settings!Theirs
  <2>3. ASSUME NEW e, SettingsPool(d, e)' PROVE SettingsPool(d, e)
    <3>1. e \in Settings!All(w.local) => SettingsPool(d, e)
      BY <2>1 DEF SettingsPool, Settings!Mine
    <3>2. e \in Settings!All(w.remote.bundle) => SettingsPool(d, e)
      BY <2>1 DEF SettingsPool, Settings!Theirs
    <3>3. e \in Settings!All(file.bundle) \/ e \in Settings!All(local[d]) => SettingsPool(d, e)
      BY DEF SettingsPool
    <3> QED BY <2>2, <2>3, <3>1, <3>2, <3>3 DEF SettingsPool, SettingsRests, Settings!All
  <2> QED BY <2>3 DEF SettingsDraws
<1>6. ASSUME NEW mains \in SUBSET Settings!Edits, SettingsFits(file.bundle, mains, Settings!Edits), SettingsFitting(d, mains, Settings!Edits)
      PROVE  SettingsFits(file'.bundle, mains, Settings!Edits) /\ SettingsFitting(d, mains, Settings!Edits)'
  <2>1. SettingsFits(Settings!Nothing, mains, Settings!Edits) /\ Settings!NoFile.bundle = Settings!Nothing
    BY SettingsBlank DEF SettingsFits
  <2>2. SettingsFits(w.local, mains, Settings!Edits) /\ SettingsFits(w.remote.bundle, mains, Settings!Edits)
    BY <1>6, <2>1 DEF SettingsFitting, Settings!Mine, Settings!Theirs
  <2>3. /\ local'[d] = local[d] /\ file' = file /\ SettingsBase(d)' = SettingsBase(d) /\ Settings!Mine(d)' = w.local
        /\ Settings!Theirs(d)' = w.remote.bundle
    BY <1>1 DEF SettingsRests, SettingsBase, Settings!Mine, Settings!Theirs
  <2>4. SettingsFits(local[d], mains, Settings!Edits) /\ SettingsFits(SettingsBase(d), mains, Settings!Edits)
    BY <1>6 DEF SettingsFitting
  <2>5. Settings!Edits' = Settings!Edits
    BY DEF SettingsRests, Settings!Edits
  <2>6. SettingsFits(local'[d], mains, Settings!Edits) /\ SettingsFits(SettingsBase(d)', mains, Settings!Edits) /\ SettingsFits(Settings!Mine(d)', mains, Settings!Edits) /\ SettingsFits(Settings!Theirs(d)', mains, Settings!Edits)
    BY <2>2, <2>3, <2>4
  <2> QED BY <1>6, <2>3, <2>5, <2>6 DEF SettingsFitting
<1>7. \A e \in Settings!Edits : author[e] = d => e \in Settings!All(local'[d]) \cup given'
  BY <1>0 DEF Settings!KeptHere, SettingsRests
<1>8. SettingsWithin(file.bundle, file'.bundle, given') /\ given \subseteq given' /\ author' = author
  BY DEF SettingsRests, SettingsWithin
<1> QED BY <1>2, <1>3, <1>4, <1>5, <1>6, <1>7, <1>8, SettingsActs

LEMMA SettingsEndsInv ==
    ASSUME SettingsIInv, NEW d \in Settings!Device, settingsWork' = [settingsWork EXCEPT ![d] = Settings!Idle], SettingsRests,
           journal' \in [Settings!Device -> BOOLEAN], \A x \in Settings!Device \ {d} : journal'[x] = journal[x],
           half[d] => journal'[d]
    PROVE  SettingsIInv'
<1>0. SettingsTypeOK /\ SettingsHolds(d)
  BY DEF SettingsIInv
<1>1. settingsWork'[d] = Settings!Idle
  BY <1>0, SettingsMoved, SettingsBlank
<1>2. SettingsBased(d)'
  BY <1>0, <1>1, SettingsBlank DEF SettingsHolds, SettingsBased, SettingsBase, SettingsSteady, SettingsGot,
       SettingsRests
<1>3. SettingsCaptured(d)' /\ SettingsDecided(d)'
  BY <1>1, SettingsBlank DEF SettingsCaptured, SettingsDecided, SettingsSteady
<1>4. SettingsJournaled(d)'
  BY <1>1, SettingsBlank DEF SettingsJournaled, SettingsRests
<1> QED BY <1>2, <1>3, <1>4, SettingsWalks, SettingsBlank DEF SettingsHolds

(* sync                                                                    *)

LEMMA SettingsBeginInv == ASSUME SettingsIInv, NEW d \in Settings!Device, NEW choice \in {"none", "local", "remote"}, Settings!Begin(d, choice) PROVE SettingsIInv'
<1>0. SettingsTypeOK /\ SettingsDated /\ Settings!KeptHere /\ SettingsHolds(d) /\ SettingsRests /\ journal' = journal /\ settingsWork[d].at = "idle"
  BY DEF SettingsIInv, Settings!Begin, Settings!disk, Settings!history, SettingsRests, Settings!At
<1> DEFINE w == [Settings!Idle EXCEPT !.at = "get", !.choice = choice, !.interrupted = journal[d], !.local = local[d]]
<1>1. /\ w \in SettingsRun /\ w.at = "get" /\ w.choice = choice /\ w.interrupted = journal[d] /\ w.local = local[d]
      /\ w.remote = Settings!NoFile /\ settingsWork' = [settingsWork EXCEPT ![d] = w]
  BY <1>0, SettingsTypes DEF Settings!Begin, Settings!Idle, SettingsRun, SettingsPlaces, SettingsDocument,
       Settings!NoFile, Settings!Nothing, SettingsBundle
<1> HIDE DEF w
<1>2. settingsWork' \in [Settings!Device -> SettingsRun] /\ settingsWork'[d] = w /\ \A x \in Settings!Device \ {d} : settingsWork'[x] = settingsWork[x]
  BY <1>0, <1>1, SettingsMoved
<1>3. SettingsTypeOK' /\ \A x \in Settings!Device \ {d} : SettingsAside(x)
  BY <1>0, <1>2 DEF SettingsTypeOK, SettingsRests, SettingsAside
<1>4. SettingsDated'
  <2>1. ASSUME NEW x \in Settings!Device, x # d
        PROVE  /\ settingsWork'[x].remote.revision <= serial
               /\ settingsWork'[x].remote.revision = 0 => settingsWork'[x].remote = Settings!NoFile
               /\ settingsWork'[x].remote.revision = file.revision => settingsWork'[x].remote = file
    BY <1>0, <1>2, <2>1 DEF SettingsDated
  <2>2. /\ w.remote.revision <= serial
        /\ w.remote.revision = 0 => w.remote = Settings!NoFile
        /\ w.remote.revision = file.revision => w.remote = file
    BY <1>0, <1>1, SettingsBlank DEF SettingsDated, SettingsTypeOK
  <2> QED BY <1>0, <1>2, <2>1, <2>2 DEF SettingsDated, SettingsRests
<1>5. Settings!Mine(d)' = local[d] /\ Settings!Theirs(d)' = Settings!Nothing /\ Settings!All(Settings!Nothing) = {} /\ SettingsBase(d)' = SettingsBase(d)
  BY <1>0, <1>1, <1>2, SettingsBlank DEF Settings!Mine, Settings!Theirs, Settings!All, SettingsBase, SettingsRests
<1>6. SettingsDraws(d)
  BY <1>0, <1>5 DEF SettingsDraws, SettingsPool, SettingsRests, Settings!All
<1>7. ASSUME NEW mains \in SUBSET Settings!Edits, SettingsFits(file.bundle, mains, Settings!Edits), SettingsFitting(d, mains, Settings!Edits)
      PROVE  SettingsFits(file'.bundle, mains, Settings!Edits) /\ SettingsFitting(d, mains, Settings!Edits)'
  <2>1. SettingsFits(Settings!Nothing, mains, Settings!Edits)
    BY SettingsBlank DEF SettingsFits
  <2>2. local'[d] = local[d] /\ file' = file
    BY <1>0 DEF SettingsRests
  <2>3. Settings!Edits' = Settings!Edits
    BY <1>0 DEF SettingsRests, Settings!Edits
  <2>4. SettingsFits(local'[d], mains, Settings!Edits) /\ SettingsFits(SettingsBase(d)', mains, Settings!Edits) /\ SettingsFits(Settings!Mine(d)', mains, Settings!Edits) /\ SettingsFits(Settings!Theirs(d)', mains, Settings!Edits)
    BY <1>5, <1>7, <2>1, <2>2 DEF SettingsFitting
  <2> QED BY <1>7, <2>2, <2>3, <2>4 DEF SettingsFitting
<1>8. SettingsHolds(d)'
  <2>1. SettingsBased(d)' /\ SettingsDecided(d)' /\ SettingsJournaled(d)'
    BY <1>0, <1>1, <1>2, <1>5 DEF SettingsHolds, SettingsBased, SettingsDecided, SettingsJournaled,
         SettingsRests, SettingsWithin, SettingsGot
  <2>2. SettingsCaptured(d)'
    <3>1. \A e \in Settings!Edits : author[e] = d => e \in Settings!All(local[d]) \cup given
      BY <1>0 DEF Settings!KeptHere
    <3>2. SettingsInside(local[d], local[d]) /\ Settings!Edits' = Settings!Edits
      BY <1>0 DEF SettingsInside, SettingsRests, Settings!Edits
    <3> QED BY <1>0, <1>1, <1>2, <1>5, <3>1, <3>2 DEF SettingsCaptured, SettingsRests, Settings!All
  <2> QED BY <2>1, <2>2 DEF SettingsHolds
<1>9. /\ \A e \in Settings!Edits : author[e] = d => e \in Settings!All(local'[d]) \cup given'
      /\ SettingsWithin(file.bundle, file'.bundle, given') /\ given \subseteq given' /\ author' = author
  BY <1>0 DEF Settings!KeptHere, SettingsRests, SettingsWithin
<1> QED BY <1>3, <1>4, <1>6, <1>7, <1>8, <1>9, SettingsActs

LEMMA SettingsGetInv == ASSUME SettingsIInv, NEW d \in Settings!Device, Settings!Get(d) PROVE SettingsIInv'
<1>0. SettingsTypeOK /\ SettingsHolds(d) /\ SettingsRests /\ journal' = journal /\ settingsWork[d].at = "get"
  BY DEF SettingsIInv, Settings!Get, Settings!disk, Settings!history, SettingsRests, Settings!At
<1> DEFINE w == [settingsWork[d] EXCEPT !.remote = file, !.at = "compare"]
<1>1. /\ w \in SettingsRun /\ w.at = "compare" /\ w.choice = settingsWork[d].choice /\ w.interrupted = settingsWork[d].interrupted
      /\ w.local = Settings!Mine(d) /\ w.remote = file /\ settingsWork' = [settingsWork EXCEPT ![d] = w]
  BY <1>0, SettingsTypes DEF Settings!Get, SettingsRun, SettingsPlaces, Settings!Mine, SettingsTypeOK
<1> HIDE DEF w
<1>2. settingsWork'[d] = w /\ \A x \in Settings!Device \ {d} : settingsWork'[x] = settingsWork[x]
  BY <1>0, <1>1, SettingsMoved
<1>3. Settings!Mine(d)' = Settings!Mine(d) /\ Settings!Theirs(d)' = file.bundle /\ SettingsBase(d)' = SettingsBase(d)
  BY <1>0, <1>1, <1>2 DEF Settings!Mine, Settings!Theirs, SettingsBase, SettingsRests
<1>4. SettingsBased(d)' /\ SettingsDecided(d)' /\ SettingsJournaled(d)'
  BY <1>0, <1>1, <1>2, <1>3 DEF SettingsHolds, SettingsBased, SettingsDecided, SettingsJournaled, SettingsRests,
       SettingsWithin, SettingsSteady
<1>5. SettingsCaptured(d)'
  <2>1. ASSUME NEW e, SettingsElsewhere(d, e)' PROVE SettingsElsewhere(d, e)
    BY <1>0, <1>2, <1>3, <2>1 DEF SettingsElsewhere, SettingsRests, Settings!Mine, Settings!Theirs, Settings!All
  <2>2. Settings!Edits' = Settings!Edits
    BY <1>0 DEF SettingsRests, Settings!Edits
  <2> QED BY <1>0, <1>1, <1>2, <1>3, <2>1, <2>2 DEF SettingsHolds, SettingsCaptured, SettingsRests,
       SettingsSteady, Settings!All
<1>6. journal' \in [Settings!Device -> BOOLEAN] /\ \A x \in Settings!Device \ {d} : journal'[x] = journal[x]
  BY <1>0 DEF SettingsTypeOK
<1> QED BY <1>0, <1>1, <1>4, <1>5, <1>6, SettingsWalks DEF SettingsHolds

\* The run moves on to its next await.
LEMMA SettingsNextPlace ==
    ASSUME SettingsIInv, NEW d \in Settings!Device, NEW at \in SettingsPlaces, NEW cause \in {"none", "edited", "disk", "locked"}, SettingsRests,
           settingsWork' = [settingsWork EXCEPT ![d] = [settingsWork[d] EXCEPT !.at = at, !.cause = cause]],
           journal' \in [Settings!Device -> BOOLEAN], \A x \in Settings!Device \ {d} : journal'[x] = journal[x],
           settingsWork[d].at \in SettingsGot, at \in SettingsGot \cup {"undo"},
           at \in {"upload", "put", "import", "sigs", "save"} => SettingsInside(Settings!Mine(d), local[d]),
           at = "undo" => settingsWork[d].at = "main",
           at = "save" => Settings!Mine(d) = Settings!Theirs(d) /\ (~Settings!Chosen(d) => ~half[d]),
           at # "save" => settingsWork[d].at # "save",
           at # "compare" /\ at # "main",
           at \in {"import", "sigs"} /\ ~Settings!Chosen(d) => Settings!Mine(d) = SettingsBase(d),
           at \in {"upload", "put"} /\ ~Settings!Chosen(d) => Settings!Missing(d) \/ Settings!Theirs(d) = SettingsBase(d),
           half[d] => journal'[d], at \in {"upload", "put", "import"} => settingsWork[d].interrupted = journal'[d],
           at \in {"upload", "put", "import"} /\ ~Settings!Chosen(d) => ~settingsWork[d].interrupted,
           at \in {"sigs", "undo"} => journal'[d], at = "sigs" /\ half[d] => settingsWork[d].interrupted,
           at = "undo" => \/ cause = "locked"
                          \/ cause = "edited" /\ local[d].main # Settings!Mine(d).main
                          \/ cause = "disk" /\ ~settingsWork[d].interrupted
    PROVE  SettingsIInv'
<1>0. SettingsTypeOK /\ SettingsHolds(d) /\ settingsWork[d] \in SettingsRun
  BY SettingsTypes DEF SettingsIInv
<1> DEFINE w == [settingsWork[d] EXCEPT !.at = at, !.cause = cause]
<1>1. /\ w \in SettingsRun /\ w.at = at /\ w.local = settingsWork[d].local /\ w.remote = settingsWork[d].remote
      /\ w.choice = settingsWork[d].choice /\ w.interrupted = settingsWork[d].interrupted /\ w.cause = cause
  BY <1>0 DEF SettingsRun
<1> HIDE DEF w
<1>2. settingsWork'[d] = w /\ \A x \in Settings!Device \ {d} : settingsWork'[x] = settingsWork[x]
  BY <1>0, <1>1, SettingsMoved DEF w
<1>3. /\ Settings!Mine(d)' = Settings!Mine(d) /\ Settings!Theirs(d)' = Settings!Theirs(d) /\ SettingsBase(d)' = SettingsBase(d) /\ Settings!Chosen(d)' = Settings!Chosen(d) /\ Settings!Missing(d)' = Settings!Missing(d)
      /\ UNCHANGED <<local, file, author, given, half, settingsCheckpoint>> /\ Settings!Edits' = Settings!Edits
  BY <1>1, <1>2 DEF Settings!Mine, Settings!Theirs, SettingsBase, SettingsRests, Settings!Edits,
       Settings!Chosen, Settings!Missing
<1>4. SettingsBased(d)'
  <2>1. SettingsWithin(SettingsBase(d), Settings!Theirs(d), given) /\ SettingsWithin(Settings!Theirs(d), file.bundle, given)
    BY <1>0 DEF SettingsHolds, SettingsBased
  <2>2. at \in SettingsSteady => settingsWork[d].at \in SettingsSteady
    BY DEF SettingsSteady, SettingsGot
  <2> QED BY <1>0, <1>1, <1>2, <1>3, <2>1, <2>2 DEF SettingsHolds, SettingsBased
<1>5. SettingsCaptured(d)'
  <2>1. ASSUME NEW e, SettingsElsewhere(d, e)' PROVE SettingsElsewhere(d, e)
    BY <1>2, <1>3, <2>1 DEF SettingsElsewhere, Settings!Mine, Settings!Theirs, Settings!All
  <2>2. at \in SettingsSteady => \A e \in Settings!Edits : author[e] = d /\ SettingsElsewhere(d, e) => e \in Settings!All(Settings!Mine(d)) \cup given
    BY <1>0 DEF SettingsHolds, SettingsCaptured, SettingsSteady, SettingsGot
  <2>3. at = "undo" => Settings!Theirs(d).sigs \subseteq local[d].sigs /\ Settings!Mine(d).main \subseteq local[d].main
    BY <1>0 DEF SettingsHolds, SettingsCaptured
  <2>4. settingsWork'[d].at \in SettingsSteady => \A e \in Settings!Edits' : author'[e] = d /\ SettingsElsewhere(d, e)' => e \in Settings!All(Settings!Mine(d)') \cup given'
    BY <1>1, <1>2, <1>3, <2>1, <2>2
  <2>5. /\ settingsWork'[d].at \in {"get", "compare", "upload", "put", "import", "sigs", "save"} => SettingsInside(Settings!Mine(d), local[d])
        /\ settingsWork'[d].at \in {"main", "undo"} => Settings!Theirs(d).sigs \subseteq local[d].sigs /\ Settings!Mine(d).main \subseteq local[d].main
        /\ settingsWork'[d].at = "save" => Settings!Mine(d) = Settings!Theirs(d)
    BY <1>1, <1>2, <2>3 DEF SettingsGot
  <2> QED BY <1>3, <2>4, <2>5 DEF SettingsCaptured, Settings!All
<1>6. SettingsDecided(d)' /\ SettingsJournaled(d)'
  <2>1. SettingsDecided(d)'
    BY <1>1, <1>2, <1>3 DEF SettingsDecided
  <2>2. SettingsJournaled(d)'
    BY <1>1, <1>2, <1>3 DEF SettingsJournaled, SettingsGot
  <2> QED BY <2>1, <2>2
<1>7. w.local = Settings!Mine(d)
  BY <1>1 DEF Settings!Mine
<1> QED BY <1>0, <1>1, <1>4, <1>5, <1>6, <1>7, SettingsWalks DEF SettingsHolds, w

LEMMA SettingsSameCause ==
    ASSUME SettingsTypeOK, NEW d \in Settings!Device, NEW at \in SettingsPlaces, Settings!Goes(d, at)
    PROVE  /\ settingsWork' = [settingsWork EXCEPT ![d] = [settingsWork[d] EXCEPT !.at = at, !.cause = settingsWork[d].cause]]
           /\ settingsWork[d].cause \in {"none", "edited", "disk", "locked"}
<1>1. settingsWork[d] \in SettingsRun /\ settingsWork' = [settingsWork EXCEPT ![d] = [settingsWork[d] EXCEPT !.at = at]]
  BY DEF SettingsTypeOK, Settings!Goes
<1>2. [settingsWork[d] EXCEPT !.at = at] = [settingsWork[d] EXCEPT !.at = at, !.cause = settingsWork[d].cause]
  BY <1>1 DEF SettingsRun
<1> QED BY <1>1, <1>2 DEF SettingsRun

\* What a run does when it need not ask.
LEMMA SettingsDecides ==
    ASSUME NEW d \in Settings!Device, SettingsTypeOK, SettingsBased(d), ~Settings!MustAsk(d)
    PROVE  /\ Settings!Decision(d) \in {"upload", "import", "save"} /\ ~Settings!Edited(d) /\ (~Settings!Chosen(d) => ~Settings!Interrupted(d))
           /\ Settings!Decision(d) = "save" => Settings!Mine(d) = Settings!Theirs(d) /\ ~Settings!Chosen(d)
           /\ Settings!Decision(d) = "import" /\ ~Settings!Chosen(d) => Settings!Mine(d) = SettingsBase(d)
           /\ Settings!Decision(d) = "upload" /\ ~Settings!Chosen(d) => Settings!Missing(d) \/ Settings!Theirs(d) = SettingsBase(d)
<1>0. settingsWork[d].choice \in {"none", "local", "remote"} /\ settingsCheckpoint[d].local = SettingsBase(d)
  BY DEF SettingsTypeOK, SettingsRun, SettingsBased
<1>1. ~Settings!Edited(d) /\ (~Settings!Chosen(d) => ~Settings!Interrupted(d)) /\ Settings!Decision(d) # "review"
  BY DEF Settings!MustAsk
<1>2. CASE Settings!Chosen(d)
  BY <1>0, <1>1, <1>2 DEF Settings!Decision, Settings!Chosen
<1>3. CASE ~Settings!Chosen(d)
  BY <1>0, <1>1, <1>3 DEF Settings!Decision, Settings!Chosen, Settings!Takes, SettingsBase
<1> QED BY <1>1, <1>2, <1>3

LEMMA SettingsReviewing == ASSUME NEW d \in Settings!Device, NEW mine, Settings!Reviews(d, mine) PROVE settingsWork' = [settingsWork EXCEPT ![d] = Settings!Idle]
BY DEF Settings!Reviews

LEMMA SettingsAsksInv ==
    ASSUME SettingsIInv, NEW d \in Settings!Device, Settings!Compare(d) \/ Settings!Upload(d) \/ Settings!Import(d)
    PROVE  SettingsIInv'
<1>0. /\ SettingsTypeOK /\ SettingsHolds(d) /\ SettingsBased(d) /\ SettingsCaptured(d) /\ SettingsDecided(d) /\ SettingsJournaled(d) /\ SettingsRests
      /\ journal \in [Settings!Device -> BOOLEAN] /\ settingsWork[d].at \in {"compare", "upload", "import"}
  BY DEF SettingsIInv, Settings!Compare, Settings!Upload, Settings!Import, Settings!history, SettingsRests,
       Settings!At, SettingsHolds, SettingsTypeOK
<1>1. SettingsInside(Settings!Mine(d), local[d]) /\ settingsWork[d].interrupted = journal[d] /\ (half[d] => journal[d])
  BY <1>0 DEF SettingsCaptured, SettingsJournaled
<1>2. ASSUME NEW mine, Settings!Reviews(d, mine), UNCHANGED journal PROVE SettingsIInv'
  BY <1>0, <1>1, <1>2, SettingsReviewing, SettingsEndsInv
<1>3. ASSUME Settings!Compare(d), ~Settings!MustAsk(d) PROVE SettingsIInv'
  <2>1. PICK at \in {"upload", "import", "save"} : at = Settings!Decision(d)
    BY <1>0, <1>3, SettingsDecides
  <2>2. Settings!Goes(d, at) /\ journal' = journal /\ settingsWork[d].at = "compare"
    BY <1>3, <2>1 DEF Settings!Compare, Settings!At
  <2>3. /\ settingsWork' = [settingsWork EXCEPT ![d] = [settingsWork[d] EXCEPT !.at = at, !.cause = settingsWork[d].cause]]
        /\ settingsWork[d].cause \in {"none", "edited", "disk", "locked"} /\ at \in SettingsPlaces
    BY <1>0, <2>2, SettingsSameCause DEF SettingsPlaces
  <2>4. /\ ~Settings!Edited(d) /\ (~Settings!Chosen(d) => ~settingsWork[d].interrupted)
        /\ at = "save" => Settings!Mine(d) = Settings!Theirs(d) /\ ~Settings!Chosen(d)
        /\ at = "import" /\ ~Settings!Chosen(d) => Settings!Mine(d) = SettingsBase(d)
        /\ at = "upload" /\ ~Settings!Chosen(d) => Settings!Missing(d) \/ Settings!Theirs(d) = SettingsBase(d)
    BY <1>0, <1>3, <2>1, SettingsDecides DEF Settings!Interrupted
  <2>5. at = "save" => ~half[d]
    BY <1>1, <2>4
  <2>6. settingsWork[d].at \in SettingsGot /\ at \in SettingsGot \cup {"undo"}
    BY <2>2 DEF SettingsGot
  <2>7. journal' \in [Settings!Device -> BOOLEAN] /\ \A x \in Settings!Device \ {d} : journal'[x] = journal[x]
    BY <1>0, <2>2
  <2>8. /\ half[d] => journal'[d]
        /\ settingsWork[d].interrupted = journal'[d]
    BY <1>1, <2>2
  <2> QED BY <1>0, <1>1, <2>2, <2>3, <2>4, <2>5, <2>6, <2>7, <2>8, SettingsNextPlace
<1>4. ASSUME Settings!Upload(d), ~Settings!Edited(d) PROVE SettingsIInv'
  <2>1. Settings!Goes(d, "put") /\ journal' = journal /\ settingsWork[d].at = "upload"
    BY <1>4 DEF Settings!Upload, Settings!At
  <2>2. /\ settingsWork' = [settingsWork EXCEPT ![d] = [settingsWork[d] EXCEPT !.at = "put", !.cause = settingsWork[d].cause]]
        /\ settingsWork[d].cause \in {"none", "edited", "disk", "locked"} /\ "put" \in SettingsPlaces
    BY <1>0, <2>1, SettingsSameCause DEF SettingsPlaces
  <2>3. settingsWork[d].at \in SettingsGot /\ "put" \in SettingsGot
    BY <2>1 DEF SettingsGot
  <2>4. journal' \in [Settings!Device -> BOOLEAN] /\ \A x \in Settings!Device \ {d} : journal'[x] = journal[x]
    BY <1>0, <2>1
  <2>5. ~Settings!Chosen(d) => (Settings!Missing(d) \/ Settings!Theirs(d) = SettingsBase(d)) /\ ~settingsWork[d].interrupted
    BY <1>0, <2>1 DEF SettingsDecided, SettingsJournaled
  <2> QED BY <1>0, <1>1, <2>1, <2>2, <2>3, <2>4, <2>5, SettingsNextPlace
<1>5. ASSUME Settings!Import(d), ~Settings!Edited(d) PROVE SettingsIInv'
  <2>1. Settings!Goes(d, "sigs") /\ journal' = [journal EXCEPT ![d] = TRUE] /\ settingsWork[d].at = "import"
    BY <1>5 DEF Settings!Import, Settings!At
  <2>2. /\ settingsWork' = [settingsWork EXCEPT ![d] = [settingsWork[d] EXCEPT !.at = "sigs", !.cause = settingsWork[d].cause]]
        /\ settingsWork[d].cause \in {"none", "edited", "disk", "locked"} /\ "sigs" \in SettingsPlaces
    BY <1>0, <2>1, SettingsSameCause DEF SettingsPlaces
  <2>3. settingsWork[d].at \in SettingsGot /\ "sigs" \in SettingsGot
    BY <2>1 DEF SettingsGot
  <2>4. journal' \in [Settings!Device -> BOOLEAN] /\ journal'[d] = TRUE /\ \A x \in Settings!Device \ {d} : journal'[x] = journal[x]
    BY <1>0, <2>1
  <2>5. ~Settings!Chosen(d) => Settings!Mine(d) = SettingsBase(d)
    BY <1>0, <2>1 DEF SettingsDecided
  <2> QED BY <1>0, <1>1, <2>1, <2>2, <2>3, <2>4, <2>5, SettingsNextPlace
<1>6. CASE Settings!Compare(d)
  <2>1. UNCHANGED journal /\ (Settings!MustAsk(d) => Settings!Reviews(d, local[d]))
    BY <1>6 DEF Settings!Compare
  <2> QED BY <1>2, <1>3, <1>6, <2>1
<1>7. CASE Settings!Upload(d)
  <2>1. UNCHANGED journal /\ (Settings!Edited(d) => Settings!Reviews(d, local[d]))
    BY <1>7 DEF Settings!Upload
  <2> QED BY <1>2, <1>4, <1>7, <2>1
<1>8. CASE Settings!Import(d)
  <2>1. Settings!Edited(d) => Settings!Reviews(d, local[d]) /\ UNCHANGED journal
    BY <1>8 DEF Settings!Import
  <2> QED BY <1>2, <1>5, <1>8, <2>1
<1> QED BY <1>6, <1>7, <1>8

\* Of a mixed bundle every part fits.
LEMMA SettingsMixed ==
    ASSUME NEW b, NEW c, NEW e, NEW mains, NEW edits, SettingsFits(b, mains, edits), SettingsFits(c, mains, edits),
           e.main = b.main, e.sigs = c.sigs
    PROVE  SettingsFits(e, mains, edits)
BY DEF SettingsFits

LEMMA SettingsPutInv == ASSUME SettingsIInv, NEW d \in Settings!Device, Settings!Put(d) PROVE SettingsIInv'
<1>0. /\ SettingsTypeOK /\ SettingsDated /\ Settings!KeptHere /\ SettingsHolds(d) /\ SettingsBased(d) /\ SettingsCaptured(d) /\ SettingsDecided(d) /\ SettingsJournaled(d)
      /\ settingsWork[d].at = "put" /\ UNCHANGED <<local, settingsCheckpoint, journal, author, half>>
      /\ settingsWork[d] \in SettingsRun /\ settingsWork[d].remote \in SettingsDocument /\ Settings!Mine(d) \in SettingsBundle
  BY SettingsTypes DEF SettingsIInv, Settings!Put, Settings!At, SettingsHolds
<1>1. CASE ~Settings!Matches(d)
  <2>1. SettingsRests /\ settingsWork' = [settingsWork EXCEPT ![d] = Settings!Idle]
    BY <1>0, <1>1 DEF Settings!Put, SettingsRests, Settings!EndsInError
  <2> QED BY <1>0, <2>1, SettingsEndsInv DEF SettingsTypeOK, SettingsJournaled
<1>2. CASE Settings!Matches(d)
  <2> DEFINE new == [bundle |-> Settings!Mine(d), revision |-> serial + 1, at |-> IF d \in Slow THEN 0 ELSE serial + 1]
             w == [settingsWork[d] EXCEPT !.at = "save", !.remote = new]
  <2>1. /\ file' = new /\ serial' = serial + 1 /\ settingsWork' = [settingsWork EXCEPT ![d] = w]
        /\ given' = IF Settings!Chosen(d) THEN given \cup (Settings!All(file.bundle) \ Settings!All(Settings!Mine(d))) ELSE given
    BY <1>0, <1>2 DEF Settings!Put, SettingsTypeOK
  <2>2. new \in SettingsDocument /\ new.bundle = Settings!Mine(d) /\ new.revision = serial + 1 /\ serial \in Nat
    BY <1>0 DEF SettingsDocument, SettingsTypeOK
  <2>3. /\ w \in SettingsRun /\ w.at = "save" /\ w.choice = settingsWork[d].choice /\ w.interrupted = settingsWork[d].interrupted
        /\ w.local = Settings!Mine(d) /\ w.remote = new
    <3> HIDE DEF new
    <3> QED BY <1>0, <2>2 DEF SettingsRun, SettingsPlaces, Settings!Mine
  <2> HIDE DEF new, w
  <2>4. settingsWork' \in [Settings!Device -> SettingsRun] /\ settingsWork'[d] = w /\ \A x \in Settings!Device \ {d} : settingsWork'[x] = settingsWork[x]
    BY <1>0, <2>1, <2>3, SettingsMoved
  <2>5. given' \in SUBSET Nat /\ given \subseteq given'
    BY <1>0, <2>1 DEF SettingsTypeOK, Settings!All, SettingsDocument, SettingsBundle
  <2>6. SettingsTypeOK' /\ \A x \in Settings!Device \ {d} : SettingsAside(x)
    BY <1>0, <2>1, <2>2, <2>4, <2>5 DEF SettingsTypeOK, SettingsAside
  <2>7. SettingsDated'
    <3>1. ASSUME NEW x \in Settings!Device, x # d
          PROVE  /\ settingsWork'[x].remote.revision <= serial'
                 /\ settingsWork'[x].remote.revision = 0 => settingsWork'[x].remote = Settings!NoFile
                 /\ settingsWork'[x].remote.revision = file'.revision => settingsWork'[x].remote = file'
      <4>1. settingsWork[x].remote.revision \in Nat /\ settingsWork[x].remote.revision <= serial /\ (settingsWork[x].remote.revision = 0 => settingsWork[x].remote = Settings!NoFile)
        BY <1>0 DEF SettingsTypeOK, SettingsRun, SettingsDocument, SettingsDated
      <4> QED BY <2>1, <2>2, <2>4, <3>1, <4>1
    <3>2. file'.revision <= serial' /\ file'.revision # 0
      BY <2>1, <2>2
    <3>3. settingsWork'[d].remote = file'
      BY <2>1, <2>3, <2>4
    <3> QED BY <3>1, <3>2, <3>3 DEF SettingsDated
  <2>8. /\ Settings!Mine(d)' = Settings!Mine(d) /\ Settings!Theirs(d)' = Settings!Mine(d) /\ SettingsBase(d)' = SettingsBase(d) /\ Settings!Chosen(d)' = Settings!Chosen(d) /\ Settings!Edits' = Settings!Edits
        /\ file'.bundle = Settings!Mine(d)
    BY <1>0, <2>1, <2>2, <2>3, <2>4 DEF Settings!Mine, Settings!Theirs, SettingsBase, Settings!Chosen,
         Settings!Edits
  <2>9. SettingsWithin(file.bundle, Settings!Mine(d), given')
    <3>1. settingsWork[d].remote = file
      BY <1>0, <1>2 DEF SettingsDated, Settings!Matches
    <3>2. CASE Settings!Chosen(d)
      <4>1. PICK mains \in SUBSET Settings!Edits : SettingsFits(file.bundle, mains, Settings!Edits) /\ SettingsFitting(d, mains, Settings!Edits)
        BY DEF SettingsIInv, SettingsSorted
      <4>2. given' = given \cup (Settings!All(file.bundle) \ Settings!All(Settings!Mine(d)))
        BY <2>1, <3>2
      <4> QED BY <4>1, <4>2 DEF SettingsWithin, SettingsFitting, SettingsFits, Settings!All
    <3>3. CASE ~Settings!Chosen(d)
      <4>1. file = Settings!NoFile \/ file.bundle = SettingsBase(d)
        BY <1>0, <3>1, <3>3 DEF SettingsDecided, Settings!Missing, Settings!Theirs
      <4>2. SettingsWithin(SettingsBase(d), Settings!Mine(d), given)
        BY <1>0 DEF SettingsBased, SettingsSteady
      <4> QED BY <2>5, <4>1, <4>2, SettingsBlank DEF SettingsWithin
    <3> QED BY <3>2, <3>3
  <2>10. SettingsDraws(d)
    BY <1>0, <2>8 DEF SettingsDraws, SettingsPool, Settings!All
  <2>11. ASSUME NEW mains \in SUBSET Settings!Edits, SettingsFits(file.bundle, mains, Settings!Edits), SettingsFitting(d, mains, Settings!Edits)
         PROVE  SettingsFits(file'.bundle, mains, Settings!Edits) /\ SettingsFitting(d, mains, Settings!Edits)'
    <3>1. SettingsFits(local'[d], mains, Settings!Edits) /\ SettingsFits(SettingsBase(d)', mains, Settings!Edits) /\ SettingsFits(Settings!Mine(d)', mains, Settings!Edits) /\ SettingsFits(Settings!Theirs(d)', mains, Settings!Edits)
      BY <1>0, <2>8, <2>11 DEF SettingsFitting
    <3> QED BY <2>8, <2>11, <3>1 DEF SettingsFitting
  <2>12. SettingsHolds(d)'
    <3>1. SettingsBased(d)'
      <4>1. SettingsWithin(SettingsBase(d), Settings!Mine(d), given') /\ SettingsWithin(SettingsBase(d), local[d], given') /\ SettingsWithin(Settings!Mine(d), Settings!Mine(d), given')
        BY <1>0, <2>5 DEF SettingsBased, SettingsSteady, SettingsWithin
      <4> QED BY <1>0, <2>3, <2>4, <2>8, <4>1 DEF SettingsBased, SettingsSteady
    <3>2. SettingsCaptured(d)'
      BY <1>0, <2>3, <2>4, <2>8 DEF SettingsCaptured, SettingsSteady
    <3>3. SettingsDecided(d)' /\ SettingsJournaled(d)'
      BY <1>0, <2>3, <2>4, <2>8 DEF SettingsDecided, SettingsJournaled
    <3> QED BY <3>1, <3>2, <3>3 DEF SettingsHolds
  <2>13. (\A e \in Settings!Edits : author[e] = d => e \in Settings!All(local'[d]) \cup given') /\ author' = author
    BY <1>0, <2>5 DEF Settings!KeptHere
  <2>14. SettingsWithin(file.bundle, file'.bundle, given')
    BY <2>8, <2>9
  <2> QED BY <2>5, <2>6, <2>7, <2>10, <2>11, <2>12, <2>13, <2>14, SettingsActs
<1> QED BY <1>1, <1>2

\* A step that leaves the file alone: what is left to show of the device that acts.
LEMMA SettingsLocals ==
    ASSUME SettingsIInv, NEW d \in Settings!Device, NEW w \in SettingsRun, settingsWork' = [settingsWork EXCEPT ![d] = w], UNCHANGED <<file, serial, author>>,
           local' \in [Settings!Device -> SettingsBundle], settingsCheckpoint' \in [Settings!Device -> [known : BOOLEAN, local : SettingsBundle, remote : SettingsDocument]],
           journal' \in [Settings!Device -> BOOLEAN], half' \in [Settings!Device -> BOOLEAN], given' \in SUBSET Nat, given \subseteq given',
           \A x \in Settings!Device \ {d} : UNCHANGED <<local[x], settingsCheckpoint[x], journal[x], half[x]>>,
           w.remote = settingsWork[d].remote \/ w.remote = Settings!NoFile,
           NEW b \in {local[d], Settings!Theirs(d), Settings!Mine(d)}, NEW c \in {local[d], Settings!Theirs(d), Settings!Mine(d)},
           local'[d].main = b.main, local'[d].sigs = c.sigs,
           w.local \in {Settings!Mine(d), Settings!Theirs(d), Settings!Nothing}, settingsCheckpoint'[d].remote.bundle \in {SettingsBase(d), Settings!Theirs(d), Settings!Nothing},
           \A e \in Settings!Edits : author[e] = d => e \in Settings!All(local'[d]) \cup given',
           SettingsHolds(d)'
    PROVE  SettingsIInv'
<1>0. SettingsTypeOK /\ SettingsDated
  BY DEF SettingsIInv
<1>1. settingsWork' \in [Settings!Device -> SettingsRun] /\ settingsWork'[d] = w /\ \A x \in Settings!Device \ {d} : settingsWork'[x] = settingsWork[x]
  BY <1>0, SettingsMoved
<1>2. SettingsTypeOK' /\ \A x \in Settings!Device \ {d} : SettingsAside(x)
  BY <1>0, <1>1 DEF SettingsTypeOK, SettingsAside
<1>3. SettingsDated'
  <2>1. ASSUME NEW x \in Settings!Device, x # d
        PROVE  /\ settingsWork'[x].remote.revision <= serial
               /\ settingsWork'[x].remote.revision = 0 => settingsWork'[x].remote = Settings!NoFile
               /\ settingsWork'[x].remote.revision = file.revision => settingsWork'[x].remote = file
    BY <1>0, <1>1, <2>1 DEF SettingsDated
  <2>2. /\ w.remote.revision <= serial
        /\ w.remote.revision = 0 => w.remote = Settings!NoFile
        /\ w.remote.revision = file.revision => w.remote = file
    BY <1>0, SettingsBlank DEF SettingsDated, SettingsTypeOK
  <2> QED BY <1>0, <1>1, <2>1, <2>2 DEF SettingsDated
<1>4. /\ Settings!All(Settings!Nothing) = {} /\ Settings!NoFile.bundle = Settings!Nothing
      /\ Settings!Mine(d)' = w.local /\ Settings!Theirs(d)' = w.remote.bundle /\ SettingsBase(d)' = settingsCheckpoint'[d].remote.bundle
  BY <1>1, SettingsBlank DEF Settings!All, Settings!Mine, Settings!Theirs, SettingsBase
<1>5. SettingsDraws(d)
  <2>1. ASSUME NEW e, SettingsPool(d, e)' PROVE SettingsPool(d, e)
    <3>1. e \in Settings!All(w.local) => SettingsPool(d, e)
      BY <1>4 DEF SettingsPool
    <3>2. e \in Settings!All(w.remote.bundle) => SettingsPool(d, e)
      BY <1>4 DEF SettingsPool, Settings!Theirs
    <3>3. e \in Settings!All(local'[d]) => SettingsPool(d, e)
      BY DEF SettingsPool, Settings!All
    <3> QED BY <1>4, <2>1, <3>1, <3>2, <3>3 DEF SettingsPool, Settings!All
  <2> QED BY <2>1 DEF SettingsDraws
<1>6. ASSUME NEW mains \in SUBSET Settings!Edits, SettingsFits(file.bundle, mains, Settings!Edits), SettingsFitting(d, mains, Settings!Edits)
      PROVE  SettingsFits(file'.bundle, mains, Settings!Edits) /\ SettingsFitting(d, mains, Settings!Edits)'
  <2>1. SettingsFits(Settings!Nothing, mains, Settings!Edits) /\ Settings!Edits' = Settings!Edits
    BY SettingsBlank DEF SettingsFits, Settings!Edits
  <2>2. SettingsFits(local[d], mains, Settings!Edits) /\ SettingsFits(SettingsBase(d), mains, Settings!Edits) /\ SettingsFits(Settings!Mine(d), mains, Settings!Edits) /\ SettingsFits(Settings!Theirs(d), mains, Settings!Edits)
    BY <1>6 DEF SettingsFitting
  <2>3. SettingsFits(b, mains, Settings!Edits) /\ SettingsFits(c, mains, Settings!Edits)
    BY <2>2
  <2>4. SettingsFits(local'[d], mains, Settings!Edits)
    BY <2>3, SettingsMixed
  <2>5. SettingsFits(w.local, mains, Settings!Edits) /\ SettingsFits(SettingsBase(d)', mains, Settings!Edits)
    BY <1>4, <2>1, <2>2
  <2>6. SettingsFits(w.remote.bundle, mains, Settings!Edits)
    BY <1>4, <2>1, <2>2 DEF Settings!Theirs
  <2> QED BY <1>4, <1>6, <2>1, <2>4, <2>5, <2>6 DEF SettingsFitting
<1>7. SettingsWithin(file.bundle, file'.bundle, given')
  BY DEF SettingsWithin
<1> QED BY <1>2, <1>3, <1>5, <1>6, <1>7, SettingsActs

LEMMA SettingsSaveInv == ASSUME SettingsIInv, NEW d \in Settings!Device, Settings!Save(d) PROVE SettingsIInv'
<1>0. /\ SettingsTypeOK /\ Settings!KeptHere /\ SettingsHolds(d) /\ SettingsBased(d) /\ SettingsCaptured(d) /\ SettingsJournaled(d) /\ settingsWork[d].at = "save"
      /\ UNCHANGED <<local, file, serial, author, given>> /\ settingsWork' = [settingsWork EXCEPT ![d] = Settings!Idle]
      /\ Settings!Mine(d) \in SettingsBundle /\ settingsWork[d].remote \in SettingsDocument /\ settingsWork[d] \in SettingsRun
  BY SettingsTypes DEF SettingsIInv, Settings!Save, Settings!At, SettingsHolds
<1> DEFINE new == [known |-> TRUE, local |-> Settings!Mine(d), remote |-> settingsWork[d].remote]
<1>1. /\ settingsCheckpoint' = [settingsCheckpoint EXCEPT ![d] = new] /\ journal' = [journal EXCEPT ![d] = FALSE]
      /\ half' = [half EXCEPT ![d] = half[d] /\ ~Settings!Chosen(d)]
  BY DEF Settings!Save
<1>2. new \in [known : BOOLEAN, local : SettingsBundle, remote : SettingsDocument] /\ new.local = Settings!Mine(d) /\ new.remote = settingsWork[d].remote
  BY <1>0
<1> HIDE DEF new
<1>3. /\ settingsCheckpoint' \in [Settings!Device -> [known : BOOLEAN, local : SettingsBundle, remote : SettingsDocument]] /\ settingsCheckpoint'[d] = new
      /\ \A x \in Settings!Device \ {d} : settingsCheckpoint'[x] = settingsCheckpoint[x]
  BY <1>0, <1>1, <1>2 DEF SettingsTypeOK
<1>4. /\ journal' \in [Settings!Device -> BOOLEAN] /\ half' \in [Settings!Device -> BOOLEAN] /\ half'[d] = FALSE
      /\ \A x \in Settings!Device \ {d} : journal'[x] = journal[x] /\ half'[x] = half[x]
  <2>1. (half[d] /\ ~Settings!Chosen(d)) = FALSE
    <3>1. ~(half[d] /\ ~Settings!Chosen(d))
      BY <1>0 DEF SettingsJournaled
    <3> QED BY <3>1
  <2>2. half' = [half EXCEPT ![d] = FALSE]
    BY <1>1, <2>1
  <2> QED BY <1>0, <1>1, <2>2 DEF SettingsTypeOK
<1>5. settingsWork'[d] = Settings!Idle
  BY <1>0, SettingsMoved, SettingsBlank
<1>6. Settings!Mine(d) = Settings!Theirs(d) /\ SettingsInside(Settings!Mine(d), local[d]) /\ SettingsWithin(Settings!Theirs(d), file.bundle, given)
  BY <1>0 DEF SettingsCaptured, SettingsBased, SettingsGot
<1>7. SettingsBase(d)' = Settings!Theirs(d) /\ settingsCheckpoint'[d].local = Settings!Theirs(d) /\ Settings!Theirs(d) \in {SettingsBase(d), Settings!Theirs(d), Settings!Nothing}
  BY <1>2, <1>3, <1>6 DEF SettingsBase, Settings!Theirs
<1>8. SettingsHolds(d)'
  <2>1. SettingsWithin(Settings!Theirs(d), local[d], given)
    BY <1>6 DEF SettingsInside, SettingsWithin
  <2>2. SettingsBased(d)'
    BY <1>0, <1>5, <1>6, <1>7, <2>1, SettingsBlank DEF SettingsBased, SettingsSteady, SettingsGot
  <2> QED BY <1>4, <1>5, <2>2, SettingsBlank DEF SettingsHolds, SettingsCaptured, SettingsDecided,
       SettingsJournaled, SettingsSteady
<1>9. \A e \in Settings!Edits : author[e] = d => e \in Settings!All(local'[d]) \cup given'
  BY <1>0 DEF Settings!KeptHere
<1>10. /\ local' \in [Settings!Device -> SettingsBundle] /\ given' \in SUBSET Nat /\ given \subseteq given' /\ local'[d].main = local[d].main
       /\ local'[d].sigs = local[d].sigs /\ UNCHANGED <<file, serial, author>>
       /\ \A x \in Settings!Device \ {d} : UNCHANGED <<local[x], settingsCheckpoint[x], journal[x], half[x]>>
  BY <1>0, <1>3, <1>4 DEF SettingsTypeOK
<1>11. settingsCheckpoint'[d].remote.bundle \in {SettingsBase(d), Settings!Theirs(d), Settings!Nothing}
  BY <1>7 DEF SettingsBase
<1> QED BY <1>0, <1>3, <1>4, <1>8, <1>9, <1>10, <1>11, SettingsLocals, SettingsBlank

(* apply                                                                   *)

LEMMA SettingsApplySigsInv == ASSUME SettingsIInv, NEW d \in Settings!Device, Settings!ApplySigs(d) PROVE SettingsIInv'
<1>0. /\ SettingsTypeOK /\ Settings!KeptHere /\ SettingsHolds(d) /\ SettingsBased(d) /\ SettingsCaptured(d) /\ SettingsDecided(d) /\ SettingsJournaled(d) /\ settingsWork[d].at = "sigs"
      /\ UNCHANGED <<settingsCheckpoint, journal, file, serial, author>>
      /\ Settings!Mine(d) \in SettingsBundle /\ Settings!Theirs(d) \in SettingsBundle /\ local[d] \in SettingsBundle /\ settingsWork[d] \in SettingsRun
  BY SettingsTypes DEF SettingsIInv, Settings!ApplySigs, Settings!At, SettingsHolds
<1>1. CASE Settings!Reviews(d, local[d]) /\ UNCHANGED <<local, given, half>>
  <2>1. SettingsRests /\ (half[d] => journal'[d]) /\ journal' = journal
    BY <1>0, <1>1 DEF SettingsRests, SettingsJournaled
  <2> QED BY <1>0, <1>1, <2>1, SettingsReviewing, SettingsEndsInv DEF SettingsTypeOK
<1>2. CASE /\ local[d].sigs = Settings!Mine(d).sigs
           /\ local' = [local EXCEPT ![d].sigs = Settings!Theirs(d).sigs]
           /\ given' = Settings!Loses(d, "sigs") /\ half' = [half EXCEPT ![d] = @ \/ Settings!Theirs(d).sigs # Settings!Mine(d).sigs]
           /\ Settings!Goes(d, "main")
  <2> DEFINE w == [settingsWork[d] EXCEPT !.at = "main"]
             new == [local[d] EXCEPT !.sigs = Settings!Theirs(d).sigs]
  <2>1. /\ settingsWork' = [settingsWork EXCEPT ![d] = w] /\ w \in SettingsRun /\ w.at = "main" /\ w.local = Settings!Mine(d) /\ w.remote = settingsWork[d].remote
        /\ w.choice = settingsWork[d].choice /\ w.interrupted = settingsWork[d].interrupted
    BY <1>0, <1>2, SettingsGoesTo DEF Settings!Goes, SettingsPlaces, Settings!Mine
  <2>2. new \in SettingsBundle /\ new.main = local[d].main /\ new.sigs = Settings!Theirs(d).sigs /\ local' = [local EXCEPT ![d] = new]
    BY <1>0, <1>2 DEF SettingsBundle
  <2> HIDE DEF w, new
  <2>3. local' \in [Settings!Device -> SettingsBundle] /\ local'[d] = new /\ \A x \in Settings!Device \ {d} : local'[x] = local[x]
    BY <1>0, <2>2 DEF SettingsTypeOK
  <2>4. /\ half' \in [Settings!Device -> BOOLEAN] /\ \A x \in Settings!Device \ {d} : half'[x] = half[x]
    BY <1>0, <1>2 DEF SettingsTypeOK
  <2>5. given' = (IF Settings!Chosen(d) THEN given \cup (local[d].sigs \ Settings!Theirs(d).sigs) ELSE given)
    BY <1>2 DEF Settings!Loses
  <2>6. given' \in SUBSET Nat /\ given \subseteq given'
    BY <1>0, <2>5 DEF SettingsTypeOK, SettingsBundle
  <2>7. settingsWork'[d] = w
    BY <1>0, <2>1, SettingsMoved
  <2>8. Settings!Mine(d)' = Settings!Mine(d) /\ Settings!Theirs(d)' = Settings!Theirs(d) /\ SettingsBase(d)' = SettingsBase(d) /\ Settings!Chosen(d)' = Settings!Chosen(d) /\ Settings!Edits' = Settings!Edits
    BY <1>0, <2>1, <2>7 DEF Settings!Mine, Settings!Theirs, SettingsBase, Settings!Chosen, Settings!Edits
  <2>9. /\ SettingsWithin(SettingsBase(d), local[d], given) /\ SettingsWithin(SettingsBase(d), file.bundle, given) /\ SettingsWithin(SettingsBase(d), Settings!Mine(d), given)
        /\ SettingsWithin(SettingsBase(d), Settings!Theirs(d), given) /\ SettingsWithin(Settings!Theirs(d), file.bundle, given) /\ settingsCheckpoint[d].local = SettingsBase(d)
        /\ SettingsInside(Settings!Mine(d), local[d])
    BY <1>0 DEF SettingsBased, SettingsCaptured, SettingsSteady, SettingsGot
  <2>10. SettingsHolds(d)'
    <3>1. SettingsBased(d)'
      <4>1. /\ SettingsWithin(SettingsBase(d), new, given') /\ SettingsWithin(SettingsBase(d), file.bundle, given') /\ SettingsWithin(SettingsBase(d), Settings!Mine(d), given')
            /\ SettingsWithin(SettingsBase(d), Settings!Theirs(d), given') /\ SettingsWithin(Settings!Theirs(d), file.bundle, given')
        BY <2>2, <2>6, <2>9 DEF SettingsWithin
      <4> QED BY <1>0, <2>3, <2>8, <2>9, <4>1 DEF SettingsBased
    <3>2. SettingsCaptured(d)'
      <4>1. ASSUME NEW e, SettingsElsewhere(d, e)' PROVE SettingsElsewhere(d, e)
        <5>1. \A x \in Settings!Device \ {d} : local'[x] = local[x] /\ settingsWork'[x] = settingsWork[x]
          BY <1>0, <2>1, <2>3, SettingsMoved
        <5> QED BY <1>0, <2>8, <4>1, <5>1 DEF SettingsElsewhere, Settings!Mine, Settings!Theirs, Settings!All
      <4>2. \A e \in Settings!Edits : author[e] = d /\ SettingsElsewhere(d, e) => e \in Settings!All(Settings!Mine(d)) \cup given
        BY <1>0 DEF SettingsCaptured, SettingsSteady
      <4>3. Settings!Theirs(d).sigs \subseteq new.sigs /\ Settings!Mine(d).main \subseteq new.main
        BY <2>2, <2>9 DEF SettingsInside
      <4>4. \A e \in Settings!Edits' : author'[e] = d /\ SettingsElsewhere(d, e)' => e \in Settings!All(Settings!Mine(d)') \cup given'
        BY <1>0, <2>6, <2>8, <4>1, <4>2
      <4>5. SettingsCaptured(d)' <=> /\ Settings!Theirs(d).sigs \subseteq new.sigs /\ Settings!Mine(d).main \subseteq new.main
                                     /\ \A e \in Settings!Edits' : author'[e] = d /\ SettingsElsewhere(d, e)' => e \in Settings!All(Settings!Mine(d)') \cup given'
        BY <2>1, <2>3, <2>7, <2>8 DEF SettingsCaptured, SettingsSteady, Settings!All
      <4> QED BY <4>3, <4>4, <4>5
    <3>3. SettingsDecided(d)' /\ SettingsJournaled(d)'
      BY <1>0, <2>1, <2>7, <2>8 DEF SettingsDecided, SettingsJournaled
    <3> QED BY <3>1, <3>2, <3>3 DEF SettingsHolds
  <2>11. ASSUME NEW e \in Settings!Edits, author[e] = d PROVE e \in Settings!All(local'[d]) \cup given'
    <3>1. e \in Settings!All(local[d]) \cup given
      BY <1>0, <2>11 DEF Settings!KeptHere
    <3>2. ~Settings!Chosen(d) => local[d].sigs \subseteq Settings!Theirs(d).sigs \cup given
      BY <1>0, <1>2, <2>9 DEF SettingsDecided, SettingsWithin
    <3> QED BY <2>2, <2>3, <2>5, <3>1, <3>2 DEF Settings!All
  <2>12. /\ local'[d].main = local[d].main /\ local'[d].sigs = Settings!Theirs(d).sigs
         /\ settingsCheckpoint'[d].remote.bundle \in {SettingsBase(d), Settings!Theirs(d), Settings!Nothing}
    BY <1>0, <2>2, <2>3 DEF SettingsBase
  <2>13. /\ settingsCheckpoint' \in [Settings!Device -> [known : BOOLEAN, local : SettingsBundle, remote : SettingsDocument]] /\ journal' \in [Settings!Device -> BOOLEAN]
         /\ \A x \in Settings!Device \ {d} : UNCHANGED <<local[x], settingsCheckpoint[x], journal[x], half[x]>>
    BY <1>0, <2>3, <2>4 DEF SettingsTypeOK
  <2> QED BY <1>0, <2>1, <2>3, <2>4, <2>6, <2>10, <2>11, <2>12, <2>13, SettingsLocals
<1> QED BY <1>1, <1>2 DEF Settings!ApplySigs

LEMMA SettingsUndoesInv ==
    ASSUME SettingsIInv, NEW d \in Settings!Device, settingsWork[d].at = "main", NEW cause \in {"edited", "disk", "locked"}, Settings!Undoes(d, cause),
           SettingsRests, journal' = journal,
           cause = "edited" => local[d].main # Settings!Mine(d).main, cause = "disk" => ~settingsWork[d].interrupted
    PROVE  SettingsIInv'
<1>1. SettingsTypeOK /\ SettingsJournaled(d) /\ journal \in [Settings!Device -> BOOLEAN] /\ settingsWork[d] \in SettingsRun
  BY DEF SettingsIInv, SettingsHolds, SettingsTypeOK
<1>2. settingsWork' = [settingsWork EXCEPT ![d] = [settingsWork[d] EXCEPT !.at = "undo", !.cause = cause]]
  BY <1>1 DEF Settings!Undoes, SettingsTypeOK
<1>3. settingsWork[d].at \in SettingsGot /\ "undo" \in SettingsGot \cup {"undo"} /\ "undo" \in SettingsPlaces
  BY DEF SettingsGot, SettingsPlaces
<1>4. journal[d] /\ (\A x \in Settings!Device \ {d} : journal'[x] = journal[x])
  BY <1>1 DEF SettingsJournaled
<1>5. journal' \in [Settings!Device -> BOOLEAN] /\ journal'[d] /\ (half[d] => journal'[d])
  BY <1>1, <1>4
<1>6. /\ cause \in {"none", "edited", "disk", "locked"}
      /\ \/ cause = "locked"
         \/ cause = "edited" /\ local[d].main # Settings!Mine(d).main
         \/ cause = "disk" /\ ~settingsWork[d].interrupted
  OBVIOUS
<1>7. PICK at \in SettingsPlaces : at = "undo"
  BY <1>3
<1> QED BY <1>2, <1>3, <1>4, <1>5, <1>6, <1>7, SettingsNextPlace

LEMMA SettingsApplyMainInv == ASSUME SettingsIInv, NEW d \in Settings!Device, Settings!ApplyMain(d) PROVE SettingsIInv'
<1>0. /\ SettingsTypeOK /\ Settings!KeptHere /\ SettingsHolds(d) /\ SettingsBased(d) /\ SettingsCaptured(d) /\ SettingsDecided(d) /\ SettingsJournaled(d) /\ settingsWork[d].at = "main"
      /\ UNCHANGED <<settingsCheckpoint, journal, file, serial, author>>
      /\ Settings!Mine(d) \in SettingsBundle /\ Settings!Theirs(d) \in SettingsBundle /\ local[d] \in SettingsBundle /\ settingsWork[d] \in SettingsRun
  BY SettingsTypes DEF SettingsIInv, Settings!ApplyMain, Settings!At, SettingsHolds, Settings!disk
<1>1. CASE local[d].main # Settings!Mine(d).main
  <2>1. SettingsRests /\ Settings!Undoes(d, "edited")
    BY <1>0, <1>1 DEF Settings!ApplyMain, SettingsRests
  <2> QED BY <1>0, <1>1, <2>1, SettingsUndoesInv
<1>2. CASE local[d].main = Settings!Mine(d).main
  <2> DEFINE w == [settingsWork[d] EXCEPT !.at = "save", !.local = Settings!Theirs(d)]
             new == [local[d] EXCEPT !.main = Settings!Theirs(d).main]
  <2>1. /\ settingsWork' = [settingsWork EXCEPT ![d] = w] /\ w \in SettingsRun /\ w.at = "save" /\ w.local = Settings!Theirs(d) /\ w.remote = settingsWork[d].remote
        /\ w.choice = settingsWork[d].choice /\ w.interrupted = settingsWork[d].interrupted
    BY <1>0, <1>2 DEF Settings!ApplyMain, SettingsRun, SettingsPlaces, SettingsTypeOK
  <2>2. new \in SettingsBundle /\ new.main = Settings!Theirs(d).main /\ new.sigs = local[d].sigs /\ local' = [local EXCEPT ![d] = new]
    BY <1>0, <1>2 DEF Settings!ApplyMain, SettingsBundle
  <2>3. given' = Settings!Loses(d, "main") /\ half' = [half EXCEPT ![d] = FALSE]
    BY <1>2 DEF Settings!ApplyMain
  <2> HIDE DEF w, new
  <2>4. local' \in [Settings!Device -> SettingsBundle] /\ local'[d] = new /\ \A x \in Settings!Device \ {d} : local'[x] = local[x]
    BY <1>0, <2>2 DEF SettingsTypeOK
  <2>5. /\ half' \in [Settings!Device -> BOOLEAN] /\ ~half'[d] /\ \A x \in Settings!Device \ {d} : half'[x] = half[x]
    BY <1>0, <2>3 DEF SettingsTypeOK
  <2>6. given' = (IF Settings!Chosen(d) THEN given \cup (local[d].main \ Settings!Theirs(d).main) ELSE given)
    BY <2>3 DEF Settings!Loses
  <2>7. given' \in SUBSET Nat /\ given \subseteq given'
    BY <1>0, <2>6 DEF SettingsTypeOK, SettingsBundle
  <2>8. settingsWork'[d] = w
    BY <1>0, <2>1, SettingsMoved
  <2>9. Settings!Mine(d)' = Settings!Theirs(d) /\ Settings!Theirs(d)' = Settings!Theirs(d) /\ SettingsBase(d)' = SettingsBase(d) /\ Settings!Chosen(d)' = Settings!Chosen(d) /\ Settings!Edits' = Settings!Edits
    BY <1>0, <2>1, <2>8 DEF Settings!Mine, Settings!Theirs, SettingsBase, Settings!Chosen, Settings!Edits
  <2>10. /\ SettingsWithin(SettingsBase(d), local[d], given) /\ SettingsWithin(SettingsBase(d), file.bundle, given)
         /\ SettingsWithin(SettingsBase(d), Settings!Theirs(d), given) /\ SettingsWithin(Settings!Theirs(d), file.bundle, given) /\ settingsCheckpoint[d].local = SettingsBase(d)
         /\ Settings!Theirs(d).sigs \subseteq local[d].sigs
    BY <1>0 DEF SettingsBased, SettingsCaptured, SettingsGot
  <2>11. SettingsHolds(d)'
    <3>1. SettingsBased(d)'
      <4>1. /\ SettingsWithin(SettingsBase(d), new, given') /\ SettingsWithin(SettingsBase(d), file.bundle, given')
            /\ SettingsWithin(SettingsBase(d), Settings!Theirs(d), given') /\ SettingsWithin(Settings!Theirs(d), file.bundle, given')
        BY <2>2, <2>7, <2>10 DEF SettingsWithin
      <4> QED BY <1>0, <2>4, <2>9, <2>10, <4>1 DEF SettingsBased
    <3>2. SettingsCaptured(d)'
      <4>1. SettingsInside(Settings!Theirs(d), new)
        BY <2>2, <2>10 DEF SettingsInside
      <4> QED BY <2>1, <2>4, <2>8, <2>9, <4>1 DEF SettingsCaptured, SettingsSteady
    <3>3. SettingsDecided(d)' /\ SettingsJournaled(d)'
      BY <1>0, <2>1, <2>5, <2>8, <2>9 DEF SettingsDecided, SettingsJournaled
    <3> QED BY <3>1, <3>2, <3>3 DEF SettingsHolds
  <2>12. ASSUME NEW e \in Settings!Edits, author[e] = d PROVE e \in Settings!All(local'[d]) \cup given'
    <3>1. e \in Settings!All(local[d]) \cup given
      BY <1>0, <2>12 DEF Settings!KeptHere
    <3>2. ~Settings!Chosen(d) => local[d].main \subseteq Settings!Theirs(d).main \cup given
      BY <1>0, <1>2, <2>10 DEF SettingsDecided, SettingsWithin
    <3> QED BY <2>2, <2>4, <2>6, <3>1, <3>2 DEF Settings!All
  <2>13. /\ local'[d].main = Settings!Theirs(d).main /\ local'[d].sigs = local[d].sigs
         /\ settingsCheckpoint'[d].remote.bundle \in {SettingsBase(d), Settings!Theirs(d), Settings!Nothing}
    BY <1>0, <2>2, <2>4 DEF SettingsBase
  <2>14. /\ settingsCheckpoint' \in [Settings!Device -> [known : BOOLEAN, local : SettingsBundle, remote : SettingsDocument]] /\ journal' \in [Settings!Device -> BOOLEAN]
         /\ \A x \in Settings!Device \ {d} : UNCHANGED <<local[x], settingsCheckpoint[x], journal[x], half[x]>>
    BY <1>0, <2>4, <2>5 DEF SettingsTypeOK
  <2> QED BY <1>0, <2>1, <2>4, <2>5, <2>7, <2>11, <2>12, <2>13, <2>14, SettingsLocals
<1> QED BY <1>1, <1>2

LEMMA SettingsUndoInv == ASSUME SettingsIInv, NEW d \in Settings!Device, Settings!Undo(d) PROVE SettingsIInv'
<1>0. /\ SettingsTypeOK /\ Settings!KeptHere /\ SettingsHolds(d) /\ SettingsBased(d) /\ SettingsCaptured(d) /\ SettingsJournaled(d) /\ settingsWork[d].at = "undo"
      /\ UNCHANGED <<settingsCheckpoint, file, serial, author, given>> /\ local' = [local EXCEPT ![d] = Settings!Undone(d)]
      /\ settingsWork' = [settingsWork EXCEPT ![d] = Settings!Idle]
      /\ Settings!Mine(d) \in SettingsBundle /\ Settings!Theirs(d) \in SettingsBundle /\ local[d] \in SettingsBundle /\ settingsWork[d] \in SettingsRun
  BY SettingsTypes DEF SettingsIInv, Settings!Undo, Settings!At, SettingsHolds, Settings!Reviews,
       Settings!EndsInError
<1>1. PICK new \in SettingsBundle : new = Settings!Undone(d) /\ new.main = local[d].main /\ (new.sigs = local[d].sigs \/ (local[d].sigs = Settings!Theirs(d).sigs /\ new.sigs = Settings!Mine(d).sigs))
  <2>1. CASE local[d].sigs = Settings!Theirs(d).sigs
    <3>1. PICK b \in SettingsBundle : b = [local[d] EXCEPT !.sigs = Settings!Mine(d).sigs] /\ b.main = local[d].main /\ b.sigs = Settings!Mine(d).sigs
      <4>1. Settings!Mine(d).sigs \in SUBSET Nat
        BY <1>0 DEF SettingsBundle
      <4> QED BY <1>0, <4>1, SettingsWithPart, Zenon
    <3> QED BY <2>1, <3>1 DEF Settings!Undone
  <2>2. CASE local[d].sigs # Settings!Theirs(d).sigs
    BY <1>0, <2>2 DEF Settings!Undone
  <2> QED BY <2>1, <2>2
<1>2. local' \in [Settings!Device -> SettingsBundle] /\ local'[d] = new /\ \A x \in Settings!Device \ {d} : local'[x] = local[x]
  BY <1>0, <1>1 DEF SettingsTypeOK
<1>3. /\ half' \in [Settings!Device -> BOOLEAN] /\ \A x \in Settings!Device \ {d} : half'[x] = half[x]
      /\ half'[d] => half[d] /\ (settingsWork[d].interrupted \/ new.sigs # Settings!Mine(d).sigs)
  <2>1. half' = [half EXCEPT ![d] = half[d] /\ (settingsWork[d].interrupted \/ new.sigs # Settings!Mine(d).sigs)]
    BY <1>1 DEF Settings!Undo, Settings!Interrupted
  <2> QED BY <1>0, <2>1 DEF SettingsTypeOK
<1>4. /\ journal' \in [Settings!Device -> BOOLEAN] /\ \A x \in Settings!Device \ {d} : journal'[x] = journal[x]
      /\ journal'[d] <=> settingsWork[d].cause = "locked" \/ new # Settings!Mine(d)
  <2>1. journal' = [journal EXCEPT ![d] = settingsWork[d].cause = "locked" \/ new # Settings!Mine(d)]
    BY <1>1 DEF Settings!Undo
  <2> QED BY <1>0, <2>1 DEF SettingsTypeOK
<1>5. settingsWork'[d] = Settings!Idle
  BY <1>0, SettingsMoved, SettingsBlank
<1>6. half'[d] => journal'[d]
  BY <1>0, <1>1, <1>3, <1>4 DEF SettingsJournaled
<1>7. SettingsBase(d)' = SettingsBase(d)
  BY <1>0 DEF SettingsBase
<1>8. SettingsHolds(d)'
  <2>1. SettingsWithin(SettingsBase(d), new, given)
    BY <1>0, <1>1 DEF SettingsBased, SettingsWithin, SettingsSteady
  <2>2. SettingsBased(d)'
    BY <1>0, <1>2, <1>5, <1>7, <2>1, SettingsBlank DEF SettingsBased, SettingsSteady, SettingsGot
  <2> QED BY <1>5, <1>6, <2>2, SettingsBlank DEF SettingsHolds, SettingsCaptured, SettingsDecided,
       SettingsJournaled, SettingsSteady
<1>9. ASSUME NEW e \in Settings!Edits, author[e] = d PROVE e \in Settings!All(local'[d]) \cup given'
  <2>1. e \in Settings!All(local[d]) \cup given
    BY <1>0, <1>9 DEF Settings!KeptHere
  <2>2. e \in Settings!Theirs(d).sigs => e \in Settings!All(Settings!Mine(d)) \cup given
    BY <1>0, <1>9 DEF SettingsCaptured, SettingsSteady, SettingsElsewhere, Settings!All
  <2>3. Settings!Mine(d).main \subseteq local[d].main
    BY <1>0 DEF SettingsCaptured
  <2> QED BY <1>0, <1>1, <1>2, <2>1, <2>2, <2>3 DEF Settings!All
<1>10. /\ local'[d].main = local[d].main /\ local'[d].sigs \in {local[d].sigs, Settings!Mine(d).sigs}
       /\ settingsCheckpoint'[d].remote.bundle \in {SettingsBase(d), Settings!Theirs(d), Settings!Nothing}
  BY <1>0, <1>1, <1>2 DEF SettingsBase
<1>11. PICK c \in {local[d], Settings!Theirs(d), Settings!Mine(d)} : local'[d].sigs = c.sigs
  BY <1>10
<1>12. /\ settingsCheckpoint' \in [Settings!Device -> [known : BOOLEAN, local : SettingsBundle, remote : SettingsDocument]]
       /\ \A x \in Settings!Device \ {d} : UNCHANGED <<local[x], settingsCheckpoint[x], journal[x], half[x]>>
       /\ given' \in SUBSET Nat /\ given \subseteq given'
  BY <1>0, <1>2, <1>3, <1>4 DEF SettingsTypeOK
<1> QED BY <1>0, <1>2, <1>3, <1>4, <1>8, <1>9, <1>10, <1>11, <1>12, SettingsLocals, SettingsBlank

(* What else happens.                                                      *)

LEMMA SettingsStopsInv ==
    ASSUME "refused" \notin SettingsDisturbed, SettingsIInv, NEW d \in Settings!Device, Settings!ApplyFails(d) \/ Settings!Fails(d) \/ Settings!Crash(d)
    PROVE  SettingsIInv'
<1>0. SettingsTypeOK /\ SettingsHolds(d) /\ SettingsJournaled(d) /\ SettingsRests /\ journal \in [Settings!Device -> BOOLEAN]
  BY DEF SettingsIInv, SettingsHolds, Settings!ApplyFails, Settings!Fails, Settings!Crash, SettingsRests,
       Settings!history, Settings!disk, SettingsTypeOK
<1>1. CASE Settings!ApplyFails(d)
  <2>1. settingsWork[d].at = "main" /\ journal' = journal
    BY <1>1 DEF Settings!ApplyFails, Settings!At, Settings!disk
  <2>2. Settings!Undoes(d, "locked") \/ (~settingsWork[d].interrupted /\ Settings!Undoes(d, "disk"))
    BY <1>1 DEF Settings!ApplyFails, Settings!First, Settings!Interrupted
  <2> QED BY <1>0, <2>1, <2>2, SettingsUndoesInv
<1>2. CASE Settings!Fails(d)
  <2>1. settingsWork' = [settingsWork EXCEPT ![d] = Settings!Idle]
    BY <1>2 DEF Settings!Fails, Settings!EndsInError
  <2>2. journal' = journal \/ (settingsWork[d].at = "sigs" /\ ~settingsWork[d].interrupted /\ journal' = [journal EXCEPT ![d] = FALSE])
    BY <1>2 DEF Settings!Fails, Settings!At, Settings!First, Settings!Interrupted
  <2>3. journal' \in [Settings!Device -> BOOLEAN] /\ (\A x \in Settings!Device \ {d} : journal'[x] = journal[x]) /\ (half[d] => journal'[d])
    BY <1>0, <2>2 DEF SettingsJournaled
  <2> QED BY <1>0, <2>1, <2>3, SettingsEndsInv
<1>3. CASE Settings!Crash(d)
  <2>1. settingsWork' = [settingsWork EXCEPT ![d] = Settings!Idle] /\ journal' = journal
    BY <1>3 DEF Settings!Crash, Settings!disk
  <2> QED BY <1>0, <2>1, SettingsEndsInv DEF SettingsJournaled
<1> QED BY <1>1, <1>2, <1>3

LEMMA SettingsDisconnectInv == ASSUME SettingsIInv, NEW d \in Settings!Device, Settings!Disconnect(d) PROVE SettingsIInv'
<1>0. /\ SettingsTypeOK /\ Settings!KeptHere /\ SettingsHolds(d) /\ SettingsBased(d) /\ SettingsJournaled(d) /\ settingsWork[d].at = "idle" /\ settingsWork[d] \in SettingsRun
      /\ UNCHANGED <<local, journal, settingsWork, file, serial, author, given, half>>
      /\ settingsCheckpoint' = [settingsCheckpoint EXCEPT ![d] = Settings!NoCheckpoint]
  BY SettingsTypes DEF SettingsIInv, Settings!Disconnect, Settings!At, SettingsHolds, Settings!history
<1>1. /\ settingsCheckpoint' \in [Settings!Device -> [known : BOOLEAN, local : SettingsBundle, remote : SettingsDocument]] /\ settingsCheckpoint'[d] = Settings!NoCheckpoint
      /\ \A x \in Settings!Device \ {d} : settingsCheckpoint'[x] = settingsCheckpoint[x]
  BY <1>0, SettingsBlank DEF SettingsTypeOK
<1>2. SettingsBase(d)' = Settings!Nothing /\ settingsCheckpoint'[d].local = Settings!Nothing
  BY <1>1, SettingsBlank DEF SettingsBase
<1>3. SettingsHolds(d)'
  <2>1. SettingsBased(d)'
    BY <1>0, <1>2, SettingsBlank DEF SettingsBased, SettingsSteady, SettingsGot, SettingsWithin
  <2> QED BY <1>0, <2>1 DEF SettingsHolds, SettingsCaptured, SettingsDecided, SettingsJournaled, SettingsSteady
<1>4. settingsWork' = [settingsWork EXCEPT ![d] = settingsWork[d]] /\ settingsWork[d].local \in {Settings!Mine(d), Settings!Theirs(d), Settings!Nothing}
  BY <1>0 DEF SettingsTypeOK, Settings!Mine
<1>5. /\ \A e \in Settings!Edits : author[e] = d => e \in Settings!All(local'[d]) \cup given'
      /\ settingsCheckpoint'[d].remote.bundle \in {SettingsBase(d), Settings!Theirs(d), Settings!Nothing}
  BY <1>0, <1>2 DEF Settings!KeptHere, SettingsBase
<1>6. /\ local' \in [Settings!Device -> SettingsBundle] /\ journal' \in [Settings!Device -> BOOLEAN] /\ half' \in [Settings!Device -> BOOLEAN]
      /\ given' \in SUBSET Nat /\ given \subseteq given' /\ UNCHANGED <<file, serial, author>>
      /\ \A x \in Settings!Device \ {d} : UNCHANGED <<local[x], settingsCheckpoint[x], journal[x], half[x]>>
      /\ local'[d].main = local[d].main /\ local'[d].sigs = local[d].sigs
  BY <1>0, <1>1 DEF SettingsTypeOK
<1> QED BY <1>0, <1>1, <1>3, <1>4, <1>5, <1>6, SettingsLocals

LEMMA SettingsSameInv ==
    ASSUME SettingsIInv, UNCHANGED <<local, settingsCheckpoint, journal, settingsWork, file, serial, author, given, half>>
    PROVE  SettingsIInv'
<1>1. SettingsTypeOK' /\ SettingsDated' /\ Settings!KeptHere'
  BY DEF SettingsIInv, SettingsTypeOK, SettingsDated, Settings!KeptHere, Settings!Edits, Settings!All
<1>2. Settings!Edits' = Settings!Edits /\ \A d \in Settings!Device : SettingsBase(d)' = SettingsBase(d) /\ Settings!Mine(d)' = Settings!Mine(d) /\ Settings!Theirs(d)' = Settings!Theirs(d)
  BY DEF Settings!Edits, SettingsBase, Settings!Mine, Settings!Theirs
<1>3. SettingsSorted'
  BY <1>2 DEF SettingsIInv, SettingsSorted, SettingsFitting
<1>4. ASSUME NEW d \in Settings!Device PROVE SettingsHolds(d)'
  <2>1. SettingsHolds(d) /\ SettingsAside(d)
    BY DEF SettingsIInv, SettingsAside
  <2>2. ASSUME NEW e, SettingsElsewhere(d, e)' PROVE SettingsElsewhere(d, e)
    BY <1>2, <2>2 DEF SettingsElsewhere, Settings!All
  <2>3. SettingsGrows(d)
    BY <1>2, <2>2 DEF SettingsGrows, SettingsWithin
  <2> QED BY <2>1, <2>3, SettingsStays
<1> QED BY <1>1, <1>3, <1>4 DEF SettingsIInv

LEMMA SettingsRemoveInv == ASSUME "forgotten" \notin SettingsDisturbed, SettingsIInv, Settings!RemoveFile PROVE SettingsIInv'
<1>0. /\ SettingsTypeOK /\ SettingsDated /\ Settings!KeptHere /\ UNCHANGED <<local, settingsCheckpoint, journal, settingsWork, serial, author, half>>
      /\ file' = Settings!NoFile /\ given' = given \cup Settings!All(file.bundle)
  BY DEF SettingsIInv, Settings!RemoveFile, Settings!disk
<1>1. SettingsTypeOK'
  BY <1>0, SettingsBlank DEF SettingsTypeOK, Settings!All, SettingsDocument, SettingsBundle
<1>2. SettingsDated'
  <2>1. \A d \in Settings!Device : settingsWork[d].remote.revision = 0 => settingsWork[d].remote = Settings!NoFile
    BY <1>0 DEF SettingsDated
  <2> QED BY <1>0, <2>1, SettingsBlank DEF SettingsDated, SettingsTypeOK
<1>3. Settings!Edits' = Settings!Edits /\ \A d \in Settings!Device : SettingsBase(d)' = SettingsBase(d) /\ Settings!Mine(d)' = Settings!Mine(d) /\ Settings!Theirs(d)' = Settings!Theirs(d)
  BY <1>0 DEF Settings!Edits, SettingsBase, Settings!Mine, Settings!Theirs
<1>4. Settings!KeptHere'
  BY <1>0, <1>3 DEF Settings!KeptHere, Settings!All
<1>5. SettingsSorted'
  <2>1. PICK mains \in SUBSET Settings!Edits : SettingsFits(file.bundle, mains, Settings!Edits) /\ \A x \in Settings!Device : SettingsFitting(x, mains, Settings!Edits)
    BY DEF SettingsIInv, SettingsSorted
  <2>2. SettingsFits(file'.bundle, mains, Settings!Edits)
    BY <1>0, SettingsBlank DEF SettingsFits
  <2>3. \A x \in Settings!Device : SettingsFitting(x, mains, Settings!Edits)'
    BY <1>0, <1>3, <2>1 DEF SettingsFitting
  <2> QED BY <1>3, <2>2, <2>3 DEF SettingsSorted
<1>6. ASSUME NEW d \in Settings!Device PROVE SettingsHolds(d)'
  <2>1. SettingsHolds(d) /\ SettingsAside(d)
    BY <1>0 DEF SettingsIInv, SettingsAside
  <2>2. ASSUME NEW e, SettingsElsewhere(d, e)' PROVE SettingsElsewhere(d, e)
    <3>1. Settings!All(file'.bundle) = {}
      BY <1>0, SettingsBlank DEF Settings!All
    <3> QED BY <1>0, <1>3, <2>2, <3>1 DEF SettingsElsewhere, Settings!All
  <2>3. SettingsWithin(file.bundle, file'.bundle, given')
    BY <1>0 DEF SettingsWithin, Settings!All
  <2>4. SettingsGrows(d)
    BY <1>0, <1>3, <2>2, <2>3 DEF SettingsGrows
  <2> QED BY <1>0, <2>1, <2>4, SettingsStays
<1> QED BY <1>1, <1>2, <1>4, <1>5, <1>6 DEF SettingsIInv

LEMMA SettingsEditInv == ASSUME SettingsIInv, NEW d \in Settings!Device, NEW part \in {"main", "sigs"}, Settings!Edit(d, part) PROVE SettingsIInv'
<1>0. /\ SettingsTypeOK /\ SettingsDated /\ Settings!KeptHere /\ UNCHANGED <<settingsCheckpoint, journal, settingsWork, file, serial, given, half>>
      /\ author' = Append(author, d) /\ author \in Seq(Settings!Device) /\ local[d] \in SettingsBundle
  BY SettingsTypes DEF SettingsIInv, Settings!Edit, Settings!disk, SettingsTypeOK
<1> DEFINE n == Len(author) + 1
<1>1. /\ n \in Nat /\ n \notin Settings!Edits /\ Settings!Edits' = Settings!Edits \cup {n} /\ author' \in Seq(Settings!Device) /\ author'[n] = d
      /\ \A e \in Settings!Edits : author'[e] = author[e] /\ author[e] \in Settings!Device
  BY <1>0 DEF Settings!Edits
<1>2. PICK new \in SettingsBundle :
          /\ local' = [local EXCEPT ![d] = new]
          /\ \/ part = "main" /\ new.main = local[d].main \cup {n} /\ new.sigs = local[d].sigs
             \/ part = "sigs" /\ new.sigs = local[d].sigs \cup {n} /\ new.main = local[d].main
  <2>0. n \in Nat
    BY <1>1
  <2> HIDE DEF n
  <2>1. CASE part = "main"
    <3>1. PICK b \in SettingsBundle : b = [local[d] EXCEPT !.main = local[d].main \cup {n}] /\ b.main = local[d].main \cup {n} /\ b.sigs = local[d].sigs
      <4>1. local[d].main \cup {n} \in SUBSET Nat
        BY <1>0, <2>0 DEF SettingsBundle
      <4> QED BY <1>0, <4>1, SettingsWithPart, Zenon
    <3>2. local' = [local EXCEPT ![d] = b]
      BY <1>0, <2>1, <3>1 DEF Settings!Edit, n, SettingsTypeOK
    <3> QED BY <2>1, <3>1, <3>2
  <2>2. CASE part = "sigs"
    <3>1. PICK b \in SettingsBundle : b = [local[d] EXCEPT !.sigs = local[d].sigs \cup {n}] /\ b.main = local[d].main /\ b.sigs = local[d].sigs \cup {n}
      <4>1. local[d].sigs \cup {n} \in SUBSET Nat
        BY <1>0, <2>0 DEF SettingsBundle
      <4> QED BY <1>0, <4>1, SettingsWithPart, Zenon
    <3>2. local' = [local EXCEPT ![d] = b]
      BY <1>0, <2>2, <3>1 DEF Settings!Edit, n, SettingsTypeOK
    <3> QED BY <2>2, <3>1, <3>2
  <2> QED BY <2>1, <2>2
<1> HIDE DEF n
<1>3. local' \in [Settings!Device -> SettingsBundle] /\ local'[d] = new /\ \A x \in Settings!Device \ {d} : local'[x] = local[x]
  BY <1>0, <1>2 DEF SettingsTypeOK
<1>4. SettingsInside(local[d], new) /\ Settings!All(new) = Settings!All(local[d]) \cup {n}
  BY <1>2 DEF SettingsInside, Settings!All
<1>5. SettingsTypeOK' /\ SettingsDated'
  BY <1>0, <1>1, <1>3 DEF SettingsTypeOK, SettingsDated
<1>6. Settings!KeptHere'
  <2>1. ASSUME NEW e \in Settings!Edits PROVE e \in Settings!All(local'[author[e]]) \cup given
    BY <1>0, <1>1, <1>3, <1>4 DEF Settings!KeptHere
  <2>2. n \in Settings!All(local'[d])
    BY <1>3, <1>4
  <2> QED BY <1>0, <1>1, <2>1, <2>2 DEF Settings!KeptHere, Settings!All
<1>7. \A x \in Settings!Device : SettingsBase(x)' = SettingsBase(x) /\ Settings!Mine(x)' = Settings!Mine(x) /\ Settings!Theirs(x)' = Settings!Theirs(x)
  BY <1>0 DEF SettingsBase, Settings!Mine, Settings!Theirs
<1>8. PICK mains \in SUBSET Settings!Edits : SettingsFits(file.bundle, mains, Settings!Edits) /\ \A x \in Settings!Device : SettingsFitting(x, mains, Settings!Edits)
  BY DEF SettingsIInv, SettingsSorted
<1>9. SettingsSorted'
  <2>1. PICK more \in SUBSET Settings!Edits' : more = IF part = "main" THEN mains \cup {n} ELSE mains
    BY <1>1
  <2>2. ASSUME NEW b, SettingsFits(b, mains, Settings!Edits) PROVE SettingsFits(b, more, Settings!Edits')
    BY <1>1, <2>1, <2>2 DEF SettingsFits
  <2>3. SettingsFits(new, more, Settings!Edits')
    <3>1. SettingsFits(local[d], mains, Settings!Edits)
      BY <1>8 DEF SettingsFitting
    <3> QED BY <1>1, <1>2, <2>1, <3>1 DEF SettingsFits
  <2>4. ASSUME NEW x \in Settings!Device PROVE SettingsFitting(x, more, Settings!Edits)'
    <3>1. SettingsFits(local'[x], more, Settings!Edits')
      BY <1>3, <1>8, <2>2, <2>3 DEF SettingsFitting
    <3>2. SettingsFits(SettingsBase(x), more, Settings!Edits') /\ SettingsFits(Settings!Mine(x), more, Settings!Edits') /\ SettingsFits(Settings!Theirs(x), more, Settings!Edits')
      BY <1>8, <2>2 DEF SettingsFitting
    <3> QED BY <1>7, <3>1, <3>2 DEF SettingsFitting
  <2>5. SettingsFits(file'.bundle, more, Settings!Edits')
    BY <1>0, <1>8, <2>2
  <2> QED BY <2>4, <2>5 DEF SettingsSorted
<1>10. ASSUME NEW x \in Settings!Device, NEW e PROVE /\ x # d /\ e \in Settings!Edits /\ SettingsElsewhere(x, e)' => SettingsElsewhere(x, e)
                                                     /\ x = d /\ SettingsElsewhere(x, e)' => SettingsElsewhere(x, e) /\ e \in Settings!Edits
  <2>1. ASSUME x = d, SettingsElsewhere(x, e)' PROVE SettingsElsewhere(x, e) /\ e \in Settings!Edits
    <3>1. SettingsElsewhere(x, e)
      BY <1>0, <1>3, <1>7, <2>1 DEF SettingsElsewhere, Settings!All
    <3>2. Settings!All(file.bundle) \subseteq Settings!Edits /\ \A y \in Settings!Device : Settings!All(local[y]) \subseteq Settings!Edits /\ Settings!All(Settings!Mine(y)) \subseteq Settings!Edits /\ Settings!All(Settings!Theirs(y)) \subseteq Settings!Edits
      BY <1>8 DEF SettingsFitting, SettingsFits, Settings!All
    <3> QED BY <3>1, <3>2 DEF SettingsElsewhere
  <2>2. ASSUME x # d, e \in Settings!Edits, SettingsElsewhere(x, e)' PROVE SettingsElsewhere(x, e)
    <3>1. \A y \in Settings!Device \ {x} : e \in Settings!All(local'[y]) => e \in Settings!All(local[y])
      BY <1>1, <1>3, <1>4, <2>2
    <3> QED BY <1>0, <1>7, <2>2, <3>1 DEF SettingsElsewhere, Settings!All
  <2> QED BY <2>1, <2>2
<1>11. ASSUME NEW x \in Settings!Device PROVE SettingsHolds(x)'
  <2>0. SettingsHolds(x) /\ SettingsBased(x) /\ SettingsCaptured(x) /\ SettingsDecided(x) /\ SettingsJournaled(x)
    BY DEF SettingsIInv, SettingsHolds
  <2>1. CASE x # d
    <3>1. SettingsAside(x)
      BY <1>0, <1>3, <2>1 DEF SettingsAside
    <3>2. \A e \in Settings!Edits' : author'[e] = x => e \in Settings!Edits /\ author[e] = x
      BY <1>1, <2>1
    <3>3. SettingsGrows(x)
      BY <1>0, <1>10, <2>1, <3>2 DEF SettingsGrows, SettingsWithin
    <3> QED BY <1>0, <2>0, <3>1, <3>3, SettingsStays
  <2>2. CASE x = d
    <3>1. SettingsBased(x)'
      <4>1. SettingsWithin(SettingsBase(d), new, given)
        BY <1>4, <2>0, <2>2 DEF SettingsBased, SettingsWithin, SettingsInside
      <4> QED BY <1>0, <1>3, <1>7, <2>0, <2>2, <4>1 DEF SettingsBased
    <3>2. SettingsCaptured(x)'
      <4>1. ASSUME NEW e \in Settings!Edits', author'[e] = d, SettingsElsewhere(d, e)' PROVE e \in Settings!Edits /\ author[e] = d /\ SettingsElsewhere(d, e)
        BY <1>1, <1>10, <4>1
      <4>2. settingsWork[d].at \in SettingsSteady => \A e \in Settings!Edits : author[e] = d /\ SettingsElsewhere(d, e) => e \in Settings!All(Settings!Mine(d)) \cup given
        BY <2>0, <2>2 DEF SettingsCaptured
      <4>3. settingsWork[d].at \in SettingsSteady => \A e \in Settings!Edits' : author'[e] = d /\ SettingsElsewhere(d, e)' => e \in Settings!All(Settings!Mine(d)) \cup given
        BY <4>1, <4>2
      <4>4. /\ settingsWork[d].at \in {"get", "compare", "upload", "put", "import", "sigs", "save"} => SettingsInside(Settings!Mine(d), new)
            /\ settingsWork[d].at \in {"main", "undo"} => Settings!Theirs(d).sigs \subseteq new.sigs /\ Settings!Mine(d).main \subseteq new.main
            /\ settingsWork[d].at = "save" => Settings!Mine(d) = Settings!Theirs(d)
        BY <1>4, <2>0, <2>2 DEF SettingsCaptured, SettingsInside
      <4> QED BY <1>0, <1>3, <1>7, <2>2, <4>3, <4>4 DEF SettingsCaptured, Settings!All
    <3>3. SettingsDecided(x)'
      BY <1>0, <1>7, <2>0 DEF SettingsDecided, Settings!Chosen, Settings!Missing
    <3>4. local[d].main # Settings!Mine(d).main => new.main # Settings!Mine(d).main
      <4>1. Settings!Mine(d).main \subseteq Settings!Edits
        BY <1>8 DEF SettingsFitting, SettingsFits
      <4> QED BY <1>1, <1>2, <4>1
    <3>5. SettingsJournaled(x)'
      BY <1>0, <1>3, <1>7, <2>0, <2>2, <3>4 DEF SettingsJournaled, Settings!Chosen
    <3> QED BY <3>1, <3>2, <3>3, <3>5 DEF SettingsHolds
  <2> QED BY <2>1, <2>2
<1> QED BY <1>5, <1>6, <1>9, <1>11 DEF SettingsIInv

LEMMA SettingsStepInv == SettingsDisturbed = {} /\ SettingsIInv /\ [Settings!Next]_settingsVars => SettingsIInv'
<1> SUFFICES ASSUME SettingsDisturbed = {}, SettingsIInv, [Settings!Next]_settingsVars PROVE SettingsIInv'
  OBVIOUS
<1>1. CASE UNCHANGED settingsVars
  BY <1>1, SettingsSameInv DEF settingsVars, Settings!disk, Settings!history
<1>2. ASSUME NEW d \in Settings!Device, Settings!Steps(d) PROVE SettingsIInv'
  BY <1>2, SettingsGetInv, SettingsAsksInv, SettingsPutInv, SettingsSaveInv, SettingsApplySigsInv,
       SettingsApplyMainInv, SettingsUndoInv DEF Settings!Steps
<1>3. ASSUME NEW d \in Settings!Device, Settings!Configure(d) PROVE SettingsIInv'
  BY <1>3, SettingsSameInv DEF Settings!Configure, Settings!history
<1>4. ASSUME NEW d \in Settings!Device,
             \/ Settings!ApplyFails(d) \/ Settings!Fails(d) \/ Settings!Crash(d) \/ Settings!Disconnect(d)
             \/ \E choice \in {"none", "local", "remote"} : Settings!Begin(d, choice)
             \/ \E part \in {"main", "sigs"} : Settings!Edit(d, part)
      PROVE  SettingsIInv'
  BY <1>4, SettingsStopsInv, SettingsDisconnectInv, SettingsBeginInv, SettingsEditInv
<1>5. CASE Settings!RemoveFile
  BY <1>5, SettingsRemoveInv
<1> QED BY <1>1, <1>2, <1>3, <1>4, <1>5 DEF Settings!Next

LEMMA SettingsSound == SettingsIInv => Settings!SettingsKept
<1> SUFFICES ASSUME SettingsIInv PROVE Settings!SettingsKept
  OBVIOUS
<1>1. Settings!KeptThere
  BY DEF SettingsIInv, SettingsHolds, SettingsBased, Settings!KeptThere, SettingsBase, SettingsWithin, Settings!All
<1>2. Settings!HalfIsReviewed
  BY DEF SettingsIInv, SettingsHolds, SettingsJournaled, Settings!HalfIsReviewed, Settings!At
<1> QED BY <1>1, <1>2 DEF SettingsIInv, Settings!SettingsKept

LEMMA SettingsMoves ==
    ASSUME [AllNext]_allVars
    PROVE  [Settings!Next]_settingsVars
BY DEF AllNext, allVars, SyncOnly, NotesOnly, WatchOnly, SettingsOnly

\* No device loses an edit that its user did not give up, and the file none that
\* was in it, for any number of devices and interruptions; but a refused import
\* must not hide one that was cut off.
THEOREM SettingsStayKept ==
    SettingsDisturbed = {} => (AllSpec => []SettingsKept)
<1> SUFFICES ASSUME SettingsDisturbed = {} PROVE AllSpec => []SettingsKept
  OBVIOUS
<1>1. AllInit => SettingsIInv
  BY SettingsInitInv DEF AllInit
<1>2. SettingsIInv /\ [AllNext]_allVars => SettingsIInv'
  BY SettingsMoves, SettingsStepInv
<1>3. SettingsIInv => SettingsKept
  BY SettingsSound DEF SettingsKept
<1> QED BY <1>1, <1>2, <1>3, PTL DEF AllSpec
=============================================================================
