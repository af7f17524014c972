-------------------------- MODULE MCOperationQueue --------------------------
(* Kinds of changes for the instances. *)
EXTENDS OperationQueue

TwoMessages == {"m1", "m2"}
NoKinds == {}
UserKinds == {"archive", "trash"}
DuplicateKinds == {"trash"}
FilingKinds == {"label"}
=============================================================================
