----------------------------- MODULE SettingsSync ------------------------------
(***************************************************************************)
(* Devices that share their settings through one encrypted WebDAV file     *)
(* (electron/settings-sync.ts, settings-sync-data.ts).  A synchronization  *)
(* awaits the server, the mail worker and the encryption; the user goes on *)
(* editing, other devices publish, and an import may stop half way.        *)
(*                                                                         *)
(* A snapshot has a part of the main process (preferences, templates) and  *)
(* one of the mail worker (signatures), each the set of the edits in it: a *)
(* digest tells two sets apart.  Left out: the content, the mappings of    *)
(* accounts a device does not have, and the address of the file, which all *)
(* devices share.  A capture is one step although it reads the parts one   *)
(* after the other: what falls in between is found by the next capture.    *)
(***************************************************************************)
EXTENDS Naturals, Sequences

CONSTANTS
    NDevices,
    Slow,        \* devices whose clock is behind
    MaxEdits,    \* bound: edits of the users
    MaxMishaps,  \* bound: failures, locks, crashes, removed files, reconnections
    MaxEvents,   \* bound: edits and mishaps together
    Disturbed    \* what else may happen: a subset of {"forgotten", "refused"}: who
                 \* deletes the file wants its edits kept, and an import chosen
                 \* after one that stopped half way is refused

VARIABLES
    local,       \* the settings of each device
    checkpoint, journal,  \* checkpoint.enc.json, and whether recovery.enc.json is there
    phase, review,        \* state.json
    work,        \* the running sync() of each device
    file,        \* the shared file
    serial,      \* publications so far: the revision and the date of the next one
    author,      \* history: who made each edit
    given,       \* history: the edits the users chose to give up
    half,        \* history: whether a device may hold half an import
    mishaps

disk == <<checkpoint, journal, phase, review>>
history == <<author, given, half>>
vars == <<local, disk, work, file, serial, history, mishaps>>

Device == 1..NDevices
Edits == DOMAIN author
Nothing == [main |-> {}, sigs |-> {}]
All(bundle) == bundle.main \cup bundle.sigs
NoFile == [bundle |-> Nothing, revision |-> 0, at |-> 0]
NoCheckpoint == [known |-> FALSE, local |-> Nothing, remote |-> NoFile]
NoReview == [known |-> FALSE, local |-> Nothing, remote |-> NoFile]
Idle == [at |-> "idle", choice |-> "none", interrupted |-> FALSE, local |-> Nothing, remote |-> NoFile, cause |-> "none"]
At(d, at) == work[d].at = at
Goes(d, at) == work' = [work EXCEPT ![d].at = at]
Room == Len(author) + mishaps < MaxEvents
Mishap == mishaps < MaxMishaps /\ Room /\ mishaps' = mishaps + 1
Mine(d) == work[d].local
Theirs(d) == work[d].remote.bundle
Chosen(d) == work[d].choice # "none"

Init ==
    /\ local = [d \in Device |-> Nothing] /\ checkpoint = [d \in Device |-> NoCheckpoint]
    /\ journal = [d \in Device |-> FALSE] /\ phase = [d \in Device |-> "idle"]
    /\ review = [d \in Device |-> NoReview] /\ work = [d \in Device |-> Idle]
    /\ file = NoFile /\ serial = 0 /\ author = <<>> /\ given = {}
    /\ half = [d \in Device |-> FALSE] /\ mishaps = 0

-----------------------------------------------------------------------------
(* The end of a synchronization.                                           *)

Reviews(d, mine) ==
    /\ phase' = [phase EXCEPT ![d] = "review"]
    /\ review' = [review EXCEPT ![d] = [known |-> TRUE, local |-> mine, remote |-> work[d].remote]]
    /\ work' = [work EXCEPT ![d] = Idle]
EndsInError(d) == phase' = [phase EXCEPT ![d] = "error"] /\ work' = [work EXCEPT ![d] = Idle] /\ UNCHANGED review

-----------------------------------------------------------------------------
(* sync                                                                    *)

Begin(d, choice) ==
    /\ At(d, "idle") /\ phase[d] # "disabled"
    /\ choice # "none" => review[d].known /\ (choice = "local" \/ review[d].remote # NoFile)
    /\ work' = [work EXCEPT ![d] = [Idle EXCEPT !.at = "get", !.choice = choice, !.interrupted = journal[d], !.local = local[d]]]
    /\ UNCHANGED <<local, disk, file, serial, history, mishaps>>
Scheduled(d) == phase[d] # "review" /\ Begin(d, "none")

Get(d) ==
    /\ At(d, "get")
    /\ work' = [work EXCEPT ![d].remote = file, ![d].at = "compare"]
    /\ UNCHANGED <<local, disk, file, serial, history, mishaps>>

Edited(d) == local[d] # Mine(d)
Interrupted(d) == work[d].interrupted
Stale(d) == review[d] # [known |-> TRUE, local |-> Mine(d), remote |-> work[d].remote]
Older(d) ==
    LET seen == checkpoint[d].remote IN
    work[d].remote.revision # seen.revision /\ work[d].remote.at < seen.at
Missing(d) == work[d].remote = NoFile

\* What one side changed since the checkpoint is taken over, two-sided changes
\* go to the user, and so does a first meeting with another's file.
TakesNothing(d) == "save"
Takes(d) == IF checkpoint[d].remote.bundle = Theirs(d) THEN "upload" ELSE "import"
Decision(d) ==
    LET before == checkpoint[d] IN
    CASE work[d].choice = "local" -> "upload"
      [] work[d].choice = "remote" -> "import"
      [] OTHER -> IF Missing(d) THEN "upload"
                  ELSE IF Mine(d) = Theirs(d) THEN "save"
                  ELSE IF ~before.known \/ (Mine(d) # before.local /\ Theirs(d) # before.remote.bundle) THEN "review"
                  ELSE Takes(d)
MustAsk(d) ==
    \/ Edited(d)
    \/ Chosen(d) /\ Stale(d)
    \/ ~Chosen(d) /\ (Interrupted(d) \/ (IF Missing(d) THEN checkpoint[d].known ELSE Older(d)))
    \/ Decision(d) = "review"
Compare(d) ==
    /\ At(d, "compare")
    /\ IF MustAsk(d) THEN Reviews(d, local[d])
       ELSE Goes(d, Decision(d)) /\ UNCHANGED <<phase, review>>
    /\ UNCHANGED <<local, checkpoint, journal, file, serial, history, mishaps>>

\* The captures after an encryption, before the request and before the import.
Upload(d) ==
    /\ At(d, "upload")
    /\ IF Edited(d) THEN Reviews(d, local[d]) ELSE Goes(d, "put") /\ UNCHANGED <<phase, review>>
    /\ UNCHANGED <<local, checkpoint, journal, file, serial, history, mishaps>>
Import(d) ==
    /\ At(d, "import")
    /\ IF Edited(d) THEN Reviews(d, local[d]) /\ UNCHANGED journal
       ELSE Goes(d, "sigs") /\ journal' = [journal EXCEPT ![d] = TRUE] /\ UNCHANGED <<phase, review>>
    /\ UNCHANGED <<local, checkpoint, file, serial, history, mishaps>>

\* If-Match, or If-None-Match for a file that was missing.
AnyTag(d) == TRUE
Matches(d) == file.revision = work[d].remote.revision
Put(d) ==
    LET new == [bundle |-> Mine(d), revision |-> serial + 1, at |-> IF d \in Slow THEN 0 ELSE serial + 1] IN
    /\ At(d, "put")
    /\ IF Matches(d)
       THEN /\ file' = new /\ serial' = serial + 1
            /\ work' = [work EXCEPT ![d].at = "save", ![d].remote = new]
            /\ given' = IF Chosen(d) THEN given \cup (All(file.bundle) \ All(Mine(d))) ELSE given
            /\ UNCHANGED <<phase, review>>
       ELSE EndsInError(d) /\ UNCHANGED <<file, serial, given>>
    /\ UNCHANGED <<local, checkpoint, journal, author, half, mishaps>>

\* saveCheckpoint, and the end of the journal.
Save(d) ==
    /\ At(d, "save")
    /\ checkpoint' = [checkpoint EXCEPT ![d] = [known |-> TRUE, local |-> Mine(d), remote |-> work[d].remote]]
    /\ journal' = [journal EXCEPT ![d] = FALSE] /\ phase' = [phase EXCEPT ![d] = "idle"]
    /\ review' = [review EXCEPT ![d] = NoReview] /\ work' = [work EXCEPT ![d] = Idle]
    /\ half' = [half EXCEPT ![d] = half[d] /\ ~Chosen(d)]
    /\ UNCHANGED <<local, file, serial, author, given, mishaps>>

-----------------------------------------------------------------------------
(* apply: the signatures in the worker, then the part of the main process. *)

Loses(d, part) == IF Chosen(d) THEN given \cup (local[d][part] \ Theirs(d)[part]) ELSE given

\* The worker compares within its transaction; an edit of the other part may
\* be noticed before the request.
ApplySigs(d) ==
    /\ At(d, "sigs")
    /\ \/ /\ Edited(d) /\ Reviews(d, local[d]) /\ UNCHANGED <<local, given, half>>
       \/ /\ local[d].sigs = Mine(d).sigs
          /\ local' = [local EXCEPT ![d].sigs = Theirs(d).sigs]
          /\ given' = Loses(d, "sigs") /\ half' = [half EXCEPT ![d] = @ \/ Theirs(d).sigs # Mine(d).sigs]
          /\ Goes(d, "main") /\ UNCHANGED <<phase, review>>
    /\ UNCHANGED <<checkpoint, journal, file, serial, author, mishaps>>
Undoes(d, cause) == work' = [work EXCEPT ![d].at = "undo", ![d].cause = cause]
ApplyMain(d) ==
    /\ At(d, "main")
    /\ IF local[d].main = Mine(d).main
       THEN /\ local' = [local EXCEPT ![d].main = Theirs(d).main]
            /\ given' = Loses(d, "main") /\ half' = [half EXCEPT ![d] = FALSE]
            /\ work' = [work EXCEPT ![d].at = "save", ![d].local = Theirs(d)]
       ELSE Undoes(d, "edited") /\ UNCHANGED <<local, given, half>>
    /\ UNCHANGED <<disk, file, serial, author, mishaps>>
First(d) == "refused" \in Disturbed \/ ~Interrupted(d)
ApplyFails(d) ==
    /\ At(d, "main") /\ Mishap
    /\ Undoes(d, "locked") \/ (First(d) /\ Undoes(d, "disk"))
    /\ UNCHANGED <<local, disk, file, serial, history>>

\* The compensation leaves newer signatures alone.  The journal goes when the
\* device is as it was, also when that was half an earlier import, and stays
\* as evidence otherwise.
Undone(d) == IF local[d].sigs = Theirs(d).sigs THEN [local[d] EXCEPT !.sigs = Mine(d).sigs] ELSE local[d]
Undo(d) ==
    /\ At(d, "undo")
    /\ local' = [local EXCEPT ![d] = Undone(d)]
    /\ half' = [half EXCEPT ![d] = half[d] /\ (Interrupted(d) \/ Undone(d).sigs # Mine(d).sigs)]
    /\ journal' = [journal EXCEPT ![d] = work[d].cause = "locked" \/ Undone(d) # Mine(d)]
    /\ IF work[d].cause = "edited" THEN Reviews(d, Undone(d)) ELSE EndsInError(d)
    /\ UNCHANGED <<checkpoint, file, serial, author, given, mishaps>>

-----------------------------------------------------------------------------
(* What else happens.                                                      *)

\* A request that fails or whose answer is lost, a disk, or a lock.  A worker
\* that refuses leaves the device as it was, and then the journal goes.
Fails(d) ==
    /\ work[d].at \notin {"idle", "main", "undo"} /\ Mishap /\ EndsInError(d)
    /\ \/ UNCHANGED journal
       \/ At(d, "sigs") /\ ~Edited(d) /\ First(d) /\ journal' = [journal EXCEPT ![d] = FALSE]
    /\ UNCHANGED <<local, checkpoint, file, serial, history>>
Crash(d) ==
    /\ ~At(d, "idle") /\ Mishap /\ work' = [work EXCEPT ![d] = Idle]
    /\ UNCHANGED <<local, disk, file, serial, history>>

Edit(d, part) ==
    LET e == Len(author) + 1 IN
    /\ e <= MaxEdits /\ Room
    /\ local' = [local EXCEPT ![d][part] = @ \cup {e}] /\ author' = Append(author, d)
    /\ UNCHANGED <<disk, work, file, serial, given, half, mishaps>>

Disconnect(d) ==
    /\ At(d, "idle") /\ ~journal[d] /\ phase[d] # "disabled" /\ Mishap
    /\ phase' = [phase EXCEPT ![d] = "disabled"] /\ review' = [review EXCEPT ![d] = NoReview]
    /\ checkpoint' = [checkpoint EXCEPT ![d] = NoCheckpoint]
    /\ UNCHANGED <<local, journal, work, file, serial, history>>
Configure(d) ==
    /\ At(d, "idle") /\ ~journal[d] /\ phase[d] # "idle" /\ Mishap
    /\ phase' = [phase EXCEPT ![d] = "idle"] /\ review' = [review EXCEPT ![d] = NoReview]
    /\ UNCHANGED <<local, checkpoint, journal, work, file, serial, history>>

\* Whoever deletes the shared file gives up what stood in it.
RemoveFile ==
    /\ file # NoFile /\ Mishap /\ file' = NoFile
    /\ given' = IF "forgotten" \in Disturbed THEN given ELSE given \cup All(file.bundle)
    /\ UNCHANGED <<local, disk, work, serial, author, half>>

Steps(d) ==
    Get(d) \/ Compare(d) \/ Upload(d) \/ Import(d) \/ Put(d) \/ Save(d) \/ ApplySigs(d) \/ ApplyMain(d) \/ Undo(d)
Next ==
    \/ \E d \in Device :
        \/ Steps(d) \/ ApplyFails(d) \/ Fails(d) \/ Crash(d) \/ Disconnect(d) \/ Configure(d)
        \/ \E choice \in {"none", "local", "remote"} : Begin(d, choice)
        \/ \E part \in {"main", "sigs"} : Edit(d, part)
    \/ RemoveFile

Proceeds(d) == Steps(d) \/ Scheduled(d)
Fairness == \A d \in Device : WF_vars(Proceeds(d))
Spec == Init /\ [][Next]_vars
FairSpec == Spec /\ Fairness

-----------------------------------------------------------------------------
KeptHere == \A e \in Edits : e \in All(local[author[e]]) \cup given
KeptThere ==
    \A d \in Device : file # NoFile => All(checkpoint[d].remote.bundle) \subseteq All(file.bundle) \cup given
HalfIsReviewed == \A d \in Device : At(d, "put") /\ ~Chosen(d) => ~half[d]

\* No synchronization of settings takes an edit from the device it was made on
\* or from the shared file unless a user chose so in a review of just these
\* versions, and half an import is not published as if it were the settings.
SettingsKept == KeptHere /\ KeptThere /\ HalfIsReviewed

\* When the users and the network have become quiet, the scheduled runs bring
\* every device to the shared settings or to a review.
Agreed == \A d \in Device : phase[d] \in {"review", "disabled"} \/ (file # NoFile /\ local[d] = file.bundle)
DevicesAgree == <>[]Agreed
=============================================================================
