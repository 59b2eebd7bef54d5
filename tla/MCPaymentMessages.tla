------------------------- MODULE MCPaymentMessages -------------------------
(***************************************************************************)
(* PaymentMessages on a small instance: two messages about one payment and *)
(* one about another, which is forgotten for the other one's hashes.       *)
(***************************************************************************)
EXTENDS PaymentMessages

CONSTANTS m1, m2, m3, p, q

MCMessages == {m1, m2, m3}
MCPayments == {p, q}
MCTells == [m \in MCMessages |-> IF m = m3 THEN q ELSE p]

=============================================================================
