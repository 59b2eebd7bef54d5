---------------------------- MODULE RunningTotals ----------------------------
(***************************************************************************)
(* The accumulation loop the repositories use wherever they add money up   *)
(* (`for (row in rows) total += row.amountMinor`): a table read in row     *)
(* order, one addition per row.  The rows are v[1] .. v[n]; a row that the  *)
(* loop skips contributes 0.                                               *)
(*                                                                         *)
(* The loop is a recursive function and not a RECURSIVE operator, so that  *)
(* RunningTotalTheorems can prove what it computes.                        *)
(***************************************************************************)
EXTENDS Integers

\* The value of the accumulator after each iteration of the loop.
RunningTotal(v, n) ==
  LET total[i \in 0 .. n] == IF i = 0 THEN 0 ELSE total[i - 1] + v[i]
  IN  total

\* The value of the accumulator when the loop ends.
Total(v, n) == RunningTotal(v, n)[n]

=============================================================================
