------------------------------- MODULE Ledger -------------------------------
(***************************************************************************)
(* The transaction table and the operations of DriftExpenseRepository      *)
(* (src/mobile/lib/features/expenses/data/drift_expense_repository.dart),   *)
(* called by screens that hold copies of rows they read earlier.           *)
(*                                                                         *)
(* Each repository operation runs in one Drift transaction, and Drift runs *)
(* the transactions of a connection one after another: an operation is one *)
(* step, and what interleaves with it is every other screen.  A screen     *)
(* keeps the ExpenseRecord it was opened with; nothing refreshes it.       *)
(*                                                                         *)
(* Money is an integer number of minor units held in a signed machine      *)
(* word, -(MaxInt + 1) .. MaxInt.  Merchant, notes, category, date and     *)
(* payment method play no part in the checks below and are left out.       *)
(***************************************************************************)
EXTENDS RunningTotals

CONSTANTS
  N,          \* bound: how many transaction ids are ever minted
  Amounts,    \* the amounts a form can submit, positive or not
  MaxAmount,  \* the largest of them
  MaxInt,     \* the largest value of a machine word
  Profiles,   \* local profile ids
  Screens     \* screens that can hold a copy of a row at the same time

ASSUME LedgerAssumption ==
  /\ N \in Nat
  /\ MaxAmount \in Nat
  /\ MaxInt \in Nat
  /\ Amounts \subseteq {a \in Int : a <= MaxAmount}

VARIABLES
  table,    \* financial_transactions: the row stored under each id
  minted,   \* ids 1 .. minted have been handed out; an id is never reused
  profile,  \* the local profile id kept in the preferences
  screen,   \* the record each screen was opened with
  last      \* the last operation a user asked for, and its outcome

vars == <<table, minted, profile, screen, last>>

-----------------------------------------------------------------------------

Ids == 1 .. N
Types == {"income", "expense"}
Row == [type : Types, amount : Int, profile : Profiles]

\* No row is stored under this id.
Absent == [type |-> "none"]

\* A screen that was not opened on a row.
Closed == [id |-> 0]
View == [id : Ids, row : Row]

\* The failures of TransactionValidationException.
Overdraft == {"insufficientBalance", "incomeReductionWouldOverdraw"}
Failures == Overdraft \cup {"amountMustBePositive", "notFound"}

\* row is what the operation wanted to store under id (Absent to delete it).
Request == [id : Ids, row : Row \cup {Absent}, outcome : Failures \cup {"ok"}]
NoRequest == [id |-> 0, row |-> Absent, outcome |-> "ok"]

\* The amounts of a profile's rows of one type, row by row.
Column(r, type, p) ==
  [i \in Ids |-> IF r[i].type = type /\ r[i].profile = p THEN r[i].amount ELSE 0]

\* The sum of those amounts as mathematics has it.
Sum(r, type, p) == Total(Column(r, type, p), N)

\* Two's-complement arithmetic: the word that holds x.  Truncating after each
\* addition and truncating the sum give the same word.
Wrap(x) == ((x + MaxInt + 1) % (2 * (MaxInt + 1))) - (MaxInt + 1)

\* Mutant: an update counts the row it replaces.
ExcludingNothing(r, id) == r

\* The rows an operation on id leaves alone.
Excluding(r, id) == [i \in Ids |-> IF i = id THEN Absent ELSE r[i]]

\* The totals a profile would have with one more row of this type and amount
\* do not overdraw its balance.
ProposedBalanceHolds(r, p, type, amount) ==
  LET income   == Wrap(Wrap(Sum(r, "income", p)) + (IF type = "income" THEN amount ELSE 0))
      expenses == Wrap(Wrap(Sum(r, "expense", p)) + (IF type = "expense" THEN amount ELSE 0))
  IN  expenses <= income

-----------------------------------------------------------------------------

Init ==
  /\ table = [i \in Ids |-> Absent]
  /\ minted = 0
  /\ profile \in Profiles
  /\ screen = [s \in Screens |-> Closed]
  /\ last = NoRequest

\* The operation throws before it writes: no row changes.
Reject(id, row, failure) ==
  /\ last' = [id |-> id, row |-> row, outcome |-> failure]
  /\ UNCHANGED <<table, minted, profile, screen>>

\* The operation commits.
Commit(id, row) ==
  /\ table' = [table EXCEPT ![id] = row]
  /\ last' = [id |-> id, row |-> row, outcome |-> "ok"]
  /\ UNCHANGED profile

\* create: a new row under a fresh id, for the profile in the preferences.
Create(row) ==
  LET id == minted + 1 IN
  /\ minted < N
  /\ \/ /\ row.amount <= 0
        /\ Reject(id, row, "amountMustBePositive")
     \/ /\ row.amount > 0
        /\ ~ ProposedBalanceHolds(table, row.profile, row.type, row.amount)
        /\ Reject(id, row, "insufficientBalance")
     \/ /\ row.amount > 0
        /\ ProposedBalanceHolds(table, row.profile, row.type, row.amount)
        /\ Commit(id, row)
        /\ minted' = id
        /\ UNCHANGED screen

\* The add-expense form, the income dialog: a new row.
Add(type, amount) ==
  Create([type |-> type, amount |-> amount, profile |-> profile])

\* A list shows a row of the profile and a screen opens on a copy of it.
Open(s, id) ==
  /\ screen[s] = Closed
  /\ table[id] # Absent
  /\ table[id].profile = profile
  /\ screen' = [screen EXCEPT ![s] = [id |-> id, row |-> table[id]]]
  /\ UNCHANGED <<table, minted, profile, last>>

\* duplicate: a create from the screen's copy of the row.
Duplicate(s) ==
  /\ screen[s] # Closed
  /\ Create(screen[s].row)

\* The screen is popped once its operation succeeded.
Close(s) == screen' = [screen EXCEPT ![s] = Closed]

\* The user leaves the screen.
Leave(s) ==
  /\ screen[s] # Closed
  /\ Close(s)
  /\ UNCHANGED <<table, minted, profile, last>>

\* Mutant: an update writes whether or not its row is still there.
FoundOnScreen(id, p) == id \in Ids

\* The stored row an update looks up: by id, among the profile's rows.
Found(id, p) == table[id] # Absent /\ table[id].profile = p

\* update: the row under the copy's id becomes the copy with a new amount.
Update(s, amount) ==
  LET id  == screen[s].id
      row == [screen[s].row EXCEPT !.amount = amount]
      fits == ProposedBalanceHolds(Excluding(table, id), row.profile, row.type, amount)
  IN
  /\ screen[s] # Closed
  /\ \/ /\ amount <= 0
        /\ Reject(id, row, "amountMustBePositive")
     \/ /\ amount > 0
        /\ ~ Found(id, row.profile)
        /\ Reject(id, row, "notFound")
     \/ /\ amount > 0
        /\ Found(id, row.profile)
        /\ ~ fits
        /\ Reject(id, row, IF table[id].type = "income"
                           THEN "incomeReductionWouldOverdraw"
                           ELSE "insufficientBalance")
     \/ /\ amount > 0
        /\ Found(id, row.profile)
        /\ fits
        /\ Commit(id, row)
        /\ Close(s)
        /\ UNCHANGED minted

\* Mutant: any row may be deleted.
DeleteUnchecked(s) ==
  /\ screen[s] # Closed
  /\ table[screen[s].id] # Absent
  /\ Commit(screen[s].id, Absent)
  /\ Close(s)
  /\ UNCHANGED minted

\* delete: the row under the copy's id goes; only an income is checked.
Delete(s) ==
  LET id == screen[s].id
      fits == ProposedBalanceHolds(Excluding(table, id), table[id].profile, "income", 0)
  IN
  /\ screen[s] # Closed
  /\ \/ /\ table[id] = Absent
        /\ Reject(id, Absent, "notFound")
     \/ /\ table[id].type = "income"
        /\ ~ fits
        /\ Reject(id, Absent, "incomeReductionWouldOverdraw")
     \/ /\ table[id] # Absent
        /\ table[id].type = "income" => fits
        /\ Commit(id, Absent)
        /\ Close(s)
        /\ UNCHANGED minted

Next ==
  \/ \E type \in Types, amount \in Amounts : Add(type, amount)
  \/ \E s \in Screens :
       \/ \E id \in Ids : Open(s, id)
       \/ \E amount \in Amounts : Update(s, amount)
       \/ Delete(s)
       \/ Duplicate(s)
       \/ Leave(s)

Spec == Init /\ [][Next]_vars

-----------------------------------------------------------------------------

\* Type correctness of the ledger, its screens and the last request.
TypeOK ==
  /\ table \in [Ids -> Row \cup {Absent}]
  /\ minted \in 0 .. N
  /\ profile \in Profiles
  /\ screen \in [Screens -> View \cup {Closed}]
  /\ last \in Request \cup {NoRequest}

\* Every stored amount is positive and within the word, and no id is in use
\* that was not handed out.  Screens only ever show amounts of such rows.
RowsWellFormed ==
  /\ \A i \in Ids : table[i] # Absent => table[i].amount \in 1 .. MaxAmount /\ i <= minted
  /\ \A s \in Screens : screen[s] # Closed =>
       screen[s].row.amount \in 1 .. MaxAmount /\ screen[s].id <= minted

Overdrawn(r, p) == Sum(r, "expense", p) > Sum(r, "income", p)

\* "Remaining balance equals total income minus total expenses and can never
\* become negative": whatever sequence of adds, edits, deletions and copies
\* the screens perform, from however old a copy, no profile's expenses exceed
\* its income.
BalanceNeverNegative == \A p \in Profiles : ~ Overdrawn(table, p)

\* A request is refused for the balance only if granting it would overdraw a
\* profile, given the table as it is (not as the screen remembers it); and the
\* failure speaks of income exactly when the row it would touch is an income.
RefusedOnlyToProtectBalance ==
  last.outcome \in Overdraft =>
    /\ \E p \in Profiles : Overdrawn([table EXCEPT ![last.id] = last.row], p)
    /\ (last.outcome = "incomeReductionWouldOverdraw") <=> (table[last.id].type = "income")

\* A row one screen deleted is not brought back by another screen that still
\* shows it.
DeletedStaysDeleted ==
  [][\A i \in Ids : i <= minted /\ table[i] = Absent => table'[i] = Absent]_vars

\* No table of at most N rows adds up to more than a machine word holds.
FitsInWord == (N + 1) * MaxAmount <= MaxInt

=============================================================================
