------------------------------ MODULE MCMailbox ------------------------------
(* Two texts to one recipient. *)
EXTENDS Mailbox
CONSTANTS m1, m2
=============================================================================
