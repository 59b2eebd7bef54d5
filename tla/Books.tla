-------------------------------- MODULE Books --------------------------------
(***************************************************************************)
(* What the user is promised about the set of transactions, whatever goes  *)
(* on inside: it changes by one row at a time, or by a whole offer of rows *)
(* at once; never by part of an offer; and it is solvent after each change. *)
(***************************************************************************)
EXTENDS FiniteSets, Functions

CONSTANTS
  Places,     \* where a row can be kept
  Nothing,    \* what is kept where no row is
  Solvent(_)  \* the books a user may be left with

VARIABLES
  books,  \* the row kept in each place
  offer   \* the rows on offer: all of them are added, or none

OpenBooks ==
  /\ books = [p \in Places |-> Nothing]
  /\ offer = {}

\* One row is added, replaced or removed.
ChangeOneRow ==
  /\ \E p \in Places : \A q \in Places \ {p} : books'[q] = books[q]
  /\ UNCHANGED offer

\* Every row on offer is added and nothing else changes.
TakeOffer ==
  LET added == {p \in Places : books'[p] # books[p]}
  IN  /\ \A p \in added : books[p] = Nothing
      /\ \E line \in Bijection(added, offer) : \A p \in added :
           books'[p].type = line[p].type /\ books'[p].amount = line[p].amount
      /\ offer' = {}

\* Rows are put on offer, or the offer is withdrawn.
ChangeOffer == UNCHANGED books

KeepBooks == (ChangeOneRow \/ TakeOffer \/ ChangeOffer) /\ Solvent(books')

BooksSpec == OpenBooks /\ [][KeepBooks]_<<books, offer>>

=============================================================================
