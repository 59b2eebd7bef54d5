--------------------------- MODULE MCInstalments ---------------------------
(***************************************************************************)
(* Instalments on a small instance: see the configuration for the bounds.  *)
(***************************************************************************)
EXTENDS Instalments, TLC

MCSymmetry == Permutations(Taps) \cup Permutations(Passes)

=============================================================================
