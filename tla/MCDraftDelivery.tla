-------------------------- MODULE MCDraftDelivery --------------------------
(* Drafts for the instances: one that is written once and one that is changed. *)
EXTENDS DraftDelivery, TLC

CONSTANTS plain, edited

TwoDrafts == {plain, edited}
SomeTexts == (plain :> 1) @@ (edited :> 2)
=============================================================================
