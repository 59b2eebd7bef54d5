---------------------------- MODULE MCQuickWidget ----------------------------
(***************************************************************************)
(* QuickWidget on a small instance: see the configurations for the bounds. *)
(***************************************************************************)
EXTENDS QuickWidget

=============================================================================
