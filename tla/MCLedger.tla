------------------------------ MODULE MCLedger ------------------------------
(***************************************************************************)
(* Ledger on a small instance: see MCLedger.cfg for the bounds.            *)
(***************************************************************************)
EXTENDS Ledger, TLC

\* A form can submit an amount that rounds to nothing.
MCAmounts == 0 .. MaxAmount

MCSymmetry == Permutations(Screens)

=============================================================================
