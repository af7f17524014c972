--------------------------- MODULE DeliveryPermits ---------------------------
(***************************************************************************)
(* What a mail merge promises each recipient, without its database, its    *)
(* runner or its crashes: every wish of the user is one permit, and a      *)
(* submission uses a permit up.  It comes back only from a submission that *)
(* was proven not to be accepted, never from one whose outcome is unknown. *)
(* Several recipients may take a step together.                            *)
(***************************************************************************)
EXTENDS Naturals

CONSTANT Items

VARIABLES
    granted,   \* how often the user wished the item to be sent
    permit,    \* a submission may begin
    open,      \* a submission has begun and may still be accepted
    received   \* how often it was accepted

vars == <<granted, permit, open, received>>

Init ==
    /\ granted = [i \in Items |-> 0] /\ permit = [i \in Items |-> FALSE]
    /\ open = [i \in Items |-> FALSE] /\ received = [i \in Items |-> 0]

Grant(i) ==
    /\ ~permit[i] /\ ~open[i] /\ permit'[i] /\ ~open'[i]
    /\ granted'[i] = granted[i] + 1 /\ received'[i] = received[i]

Uses(i) == granted'[i] = granted[i]

Submit(i) ==
    /\ permit[i] /\ ~permit'[i] /\ open'[i]
    /\ Uses(i) /\ received'[i] = received[i]

Accept(i) ==
    /\ open[i] /\ ~open'[i] /\ permit'[i] = permit[i]
    /\ Uses(i) /\ received'[i] = received[i] + 1

\* Refused, and so to be submitted again.
GiveBack(i) ==
    /\ open[i] /\ ~open'[i] /\ permit'[i]
    /\ Uses(i) /\ received'[i] = received[i]

\* The outcome is final or unknown, or the permit is withdrawn.
GiveUp(i) ==
    /\ (open'[i] => open[i]) /\ (permit'[i] => permit[i])
    /\ Uses(i) /\ received'[i] = received[i]

ItemStep(i) == Grant(i) \/ Submit(i) \/ Accept(i) \/ GiveBack(i) \/ GiveUp(i)

Next == \A i \in Items : ItemStep(i)

Spec == Init /\ [][Next]_vars

\* Every permit is unused, in an open submission, used up or lost: what was
\* received never exceeds what was granted.
Balance ==
    \A i \in Items :
        /\ granted[i] \in Nat /\ received[i] \in Nat
        /\ ~(permit[i] /\ open[i])
        /\ received[i] <= granted[i]
        /\ permit[i] \/ open[i] => received[i] < granted[i]
=============================================================================
