------------------------------ MODULE MCReceipts ------------------------------
(***************************************************************************)
(* Receipts on a small instance: see MCReceipts.cfg for the bounds.        *)
(***************************************************************************)
EXTENDS Receipts

=============================================================================
