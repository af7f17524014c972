------------------------ MODULE DeliveryPermitsProofs ------------------------
(* The balance of the permits. *)
EXTENDS DeliveryPermits, TLAPS

\* Whatever is submitted, refused or lost, an item is accepted no more often
\* than the user wished.
THEOREM NeverMoreThanGranted == Spec => []Balance
<1>1. Init => Balance
  <2> SUFFICES ASSUME Init, NEW i \in Items
               PROVE  /\ granted[i] \in Nat /\ received[i] \in Nat
                      /\ ~(permit[i] /\ open[i])
                      /\ received[i] <= granted[i]
                      /\ permit[i] \/ open[i] => received[i] < granted[i]
    BY DEF Balance
  <2>1. granted[i] = 0 /\ received[i] = 0
    BY DEF Init
  <2>2. ~permit[i] /\ ~open[i]
    BY Zenon DEF Init
  <2> QED
    BY <2>1, <2>2
<1>2. Balance /\ [Next]_vars => Balance'
  <2> SUFFICES ASSUME Balance, [Next]_vars, NEW i \in Items
               PROVE  /\ granted'[i] \in Nat /\ received'[i] \in Nat
                      /\ ~(permit'[i] /\ open'[i])
                      /\ received'[i] <= granted'[i]
                      /\ permit'[i] \/ open'[i] => received'[i] < granted'[i]
    BY DEF Balance
  <2>1. CASE Next
    BY <2>1 DEF Next, ItemStep, Grant, Submit, Accept, GiveBack, GiveUp, Uses, Balance
  <2>2. CASE UNCHANGED vars
    BY <2>2 DEF vars, Balance
  <2> QED
    BY <2>1, <2>2
<1> QED
  BY <1>1, <1>2, PTL DEF Spec
=============================================================================
