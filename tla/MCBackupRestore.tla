--------------------------- MODULE MCBackupRestore ---------------------------
(***************************************************************************)
(* BackupRestore on a small instance: see the configurations for the       *)
(* bounds.                                                                 *)
(***************************************************************************)
EXTENDS BackupRestore

MCAmounts == 0 .. MaxAmount

=============================================================================
