-------------------------- MODULE MCMailMergeBackup --------------------------
(* One merge of two recipients, with a daily cap of one. *)
EXTENDS MailMergeBackup

MCCapOne == [j \in Jobs |-> 1]
=============================================================================
