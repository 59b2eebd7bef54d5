--------------------------- MODULE MCVoiceExpense ---------------------------
(***************************************************************************)
(* VoiceExpense on a small instance: see the configurations for the bounds. *)
(***************************************************************************)
EXTENDS VoiceExpense

=============================================================================
