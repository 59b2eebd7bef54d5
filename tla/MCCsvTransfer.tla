---------------------------- MODULE MCCsvTransfer ----------------------------
(***************************************************************************)
(* CsvTransfer on a small instance: see the configurations for the bounds. *)
(***************************************************************************)
EXTENDS CsvTransfer

\* A hand-edited file may hold an amount of 0.
MCAmounts == 0 .. MaxAmount

=============================================================================
