---------------------------- MODULE MCRecurring ----------------------------
(***************************************************************************)
(* Recurring on a small instance: see the configurations for the bounds.   *)
(***************************************************************************)
EXTENDS Recurring, TLC

Draft(amount, every, start, end, limit) ==
  [amount |-> amount, every |-> every, start |-> start, end |-> end, limit |-> limit]

\* A daily rule with a limit, one that starts later and has none, and one that
\* is refused.
MCDrafts ==
  {Draft(1, 1, 0, LastDay, 1), Draft(1, 1, 1, LastDay, LastDay + 1),
   Draft(1, 0, 0, LastDay, LastDay + 3)}

MCSymmetry == Permutations(Passes) \cup Permutations(Taps)

=============================================================================
