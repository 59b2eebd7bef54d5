---------------------------- MODULE LedgerProofs ----------------------------
(***************************************************************************)
(* What TLC checks of Ledger, BackupRestore and CsvTransfer on small       *)
(* instances, for every number of ids, every set of amounts, every number  *)
(* of profiles and of screens: the balance of the ledger, and that it      *)
(* survives backups and restores, and imports that are open over many      *)
(* steps, fail and crash.                                                  *)
(***************************************************************************)
EXTENDS CsvTransfer, BackupRestore, RunningTotalTheorems, FiniteSetTheorems

-----------------------------------------------------------------------------
(* Type correctness *)

\* Each step keeps the type invariant.
LEMMA TypeStep ==
  ASSUME TypeOK, [Next]_vars
  PROVE  TypeOK'
<1> USE LedgerAssumption
<1> USE DEF TypeOK, Types, Failures, Overdraft
<1>1. ASSUME NEW row \in Row, Create(row)
      PROVE  TypeOK'
  <2>1. minted + 1 \in Ids
    BY <1>1 DEF Create, Ids
  <2>2. CASE Reject(minted + 1, row, "amountMustBePositive")
    BY <2>1, <2>2 DEF Reject, Request
  <2>3. CASE Reject(minted + 1, row, "insufficientBalance")
    BY <2>1, <2>3 DEF Reject, Request
  <2>4. CASE Commit(minted + 1, row) /\ minted' = minted + 1 /\ UNCHANGED screen
    BY <2>1, <2>4 DEF Commit, Request, Ids
  <2>5. QED
    BY <1>1, <2>2, <2>3, <2>4 DEF Create
<1>2. ASSUME NEW type \in Types, NEW amount \in Amounts, Add(type, amount)
      PROVE  TypeOK'
  <2>1. [type |-> type, amount |-> amount, profile |-> profile] \in Row
    BY DEF Row
  <2>2. QED
    BY <1>1, <1>2, <2>1 DEF Add
<1>3. ASSUME NEW s \in Screens, NEW id \in Ids, Open(s, id)
      PROVE  TypeOK'
  <2>1. [id |-> id, row |-> table[id]] \in View
    BY <1>3 DEF Open, View
  <2>2. QED
    BY <1>3, <2>1 DEF Open
<1>4. ASSUME NEW s \in Screens, screen[s] # Closed
      PROVE  screen[s].id \in Ids /\ screen[s].row \in Row
  BY <1>4 DEF View
<1>5. ASSUME NEW s \in Screens, NEW amount \in Amounts, Update(s, amount)
      PROVE  TypeOK'
  <2> DEFINE id  == screen[s].id
             row == [screen[s].row EXCEPT !.amount = amount]
  <2>1. id \in Ids /\ row \in Row
    BY <1>4, <1>5 DEF Update, Row
  <2>2. ASSUME NEW f \in Failures, Reject(id, row, f)
        PROVE  TypeOK'
    BY <2>1, <2>2 DEF Reject, Request
  <2>3. ASSUME Commit(id, row), Close(s), UNCHANGED minted
        PROVE  TypeOK'
    BY <2>1, <2>3 DEF Commit, Close, Request
  <2> HIDE DEF id, row
  <2>4. QED
    BY <1>5, <2>2, <2>3 DEF Update, id, row
<1>6. ASSUME NEW s \in Screens, Delete(s)
      PROVE  TypeOK'
  <2> DEFINE id == screen[s].id
  <2>1. id \in Ids
    BY <1>4, <1>6 DEF Delete
  <2>2. ASSUME NEW f \in Failures, Reject(id, Absent, f)
        PROVE  TypeOK'
    BY <2>1, <2>2 DEF Reject, Request
  <2>3. ASSUME Commit(id, Absent), Close(s), UNCHANGED minted
        PROVE  TypeOK'
    BY <2>1, <2>3 DEF Commit, Close, Request
  <2>4. QED
    BY <1>6, <2>2, <2>3 DEF Delete
<1>7. ASSUME NEW s \in Screens, Duplicate(s)
      PROVE  TypeOK'
  BY <1>1, <1>4, <1>7 DEF Duplicate
<1>8. ASSUME NEW s \in Screens, Leave(s)
      PROVE  TypeOK'
  BY <1>8 DEF Leave, Close
<1>9. CASE UNCHANGED vars
  BY <1>9 DEF vars
<1>10. QED
  BY <1>2, <1>3, <1>5, <1>6, <1>7, <1>8, <1>9 DEF Next

\* The ledger's variables keep their types, whatever the screens do.
THEOREM TypeCorrect == Spec => []TypeOK
<1>1. Init => TypeOK
  BY LedgerAssumption DEF Init, TypeOK, Request, View, Ids
<1>2. TypeOK /\ [Next]_vars => TypeOK'
  BY TypeStep
<1>3. QED
  BY <1>1, <1>2, PTL DEF Spec

-----------------------------------------------------------------------------
(* Sums over the table *)

\* A table whose amounts are positive and at most MaxAmount.
Table == {r \in [Ids -> Row \cup {Absent}] :
            \A i \in Ids : r[i] # Absent => r[i].amount \in 1 .. MaxAmount}

\* What can be stored under an id, and the table with it stored there.
Cell == Row \cup {Absent}
With(r, id, row) == [r EXCEPT ![id] = row]

\* What one row adds to the sum of a profile's rows of one type.
Share(row, type, p) ==
  IF row.type = type /\ row.profile = p THEN row.amount ELSE 0

\* A word that holds a value holds that value.
LEMMA WrapExact ==
  ASSUME NEW x \in Int, - (MaxInt + 1) <= x, x <= MaxInt
  PROVE  Wrap(x) = x
<1> DEFINE size == 2 * (MaxInt + 1)
           y    == x + MaxInt + 1
<1>1. size \in Nat /\ y \in Nat /\ y < size
  BY LedgerAssumption
<1>2. ASSUME NEW a \in Nat, NEW b \in Nat, a < b
      PROVE  a % b = a
  BY <1>2, SMTT(20)
<1>3. y % size = y
  BY <1>1, <1>2
<1>4. QED
  BY <1>3, LedgerAssumption DEF Wrap

\* The sums of a table lie between 0 and N * MaxAmount.
LEMMA SumBounds ==
  ASSUME NEW r \in Table, NEW type \in Types, NEW p
  PROVE  Sum(r, type, p) \in 0 .. N * MaxAmount
<1>1. Column(r, type, p) \in [1 .. N -> 0 .. MaxAmount]
  BY LedgerAssumption DEF Column, Table, Types, Row, Ids, Absent
<1>2. QED
  BY <1>1, TotalBounds, LedgerAssumption DEF Sum

\* A row of the table adds at most MaxAmount; no row adds nothing.
LEMMA ShareBounds ==
  ASSUME NEW r \in Table, NEW id \in Ids, NEW type \in Types, NEW p
  PROVE  /\ Share(r[id], type, p) \in 0 .. MaxAmount
         /\ Share(Absent, type, p) = 0
<1>1. Share(Absent, type, p) = 0
  BY DEF Share, Absent, Types
<1>2. CASE r[id] = Absent
  BY <1>1, <1>2, LedgerAssumption
<1>3. CASE r[id] # Absent
  <2>1. r[id].amount \in 1 .. MaxAmount
    BY <1>3 DEF Table
  <2>2. QED
    BY <1>1, <2>1, LedgerAssumption DEF Share
<1>4. QED
  BY <1>2, <1>3

\* Storing a row changes a sum by what the new row adds less what the old did.
LEMMA SumReplace ==
  ASSUME NEW r \in Table, NEW id \in Ids, NEW row \in Cell, NEW type \in Types, NEW p
  PROVE  Sum(With(r, id, row), type, p)
           = Sum(r, type, p) - Share(r[id], type, p) + Share(row, type, p)
<1> DEFINE v == Column(r, type, p)
           w == Column(With(r, id, row), type, p)
<1>1. v \in [1 .. N -> Int]
  BY DEF Column, Table, Types, Row, Ids, Absent
<1>2. w \in [1 .. N -> Int]
  BY DEF Column, Table, Types, Row, Ids, Absent, Cell, With
<1>3. \A i \in 1 .. N : i # id => w[i] = v[i]
  BY DEF Column, Table, Ids, With
<1>4. v[id] = Share(r[id], type, p) /\ w[id] = Share(row, type, p)
  BY DEF Column, Table, Share, Ids, With
<1>5. id \in 1 .. N /\ N \in Nat
  BY LedgerAssumption DEF Ids
<1> HIDE DEF v, w
<1>6. Total(w, N) = Total(v, N) - v[id] + w[id]
  BY <1>1, <1>2, <1>3, <1>5, TotalReplace
<1>7. QED
  BY <1>4, <1>6 DEF Sum, v, w

\* In a word that holds the sum of N + 1 rows, the code's check compares the
\* proposed totals themselves.
LEMMA CheckIsExact ==
  ASSUME FitsInWord, NEW r \in Table, NEW p, NEW type \in Types,
         NEW amount \in 0 .. MaxAmount
  PROVE  ProposedBalanceHolds(r, p, type, amount)
           <=> Sum(r, "expense", p) + (IF type = "expense" THEN amount ELSE 0)
                 <= Sum(r, "income", p) + (IF type = "income" THEN amount ELSE 0)
<1> DEFINE full == N * MaxAmount
<1>1. full \in Nat /\ full + MaxAmount <= MaxInt
  BY LedgerAssumption DEF FitsInWord
<1>2. ASSUME NEW t \in Types
      PROVE  Sum(r, t, p) \in 0 .. full
  BY SumBounds
<1>3. ASSUME NEW x \in 0 .. MaxInt
      PROVE  Wrap(x) = x
  BY WrapExact, LedgerAssumption
<1> HIDE DEF full
<1>4. ASSUME NEW t \in Types, NEW a \in 0 .. MaxAmount
      PROVE  Wrap(Wrap(Sum(r, t, p)) + a) = Sum(r, t, p) + a
  <2>1. Sum(r, t, p) \in 0 .. MaxInt /\ Sum(r, t, p) + a \in 0 .. MaxInt
    BY <1>1, <1>2, LedgerAssumption
  <2>2. QED
    BY <1>3, <2>1
<1>5. "income" \in Types /\ "expense" \in Types /\ 0 \in 0 .. MaxAmount
  BY LedgerAssumption DEF Types
<1>6. QED
  BY <1>4, <1>5 DEF ProposedBalanceHolds

-----------------------------------------------------------------------------
(* What the code's check decides *)

\* Storing row under id is a change the code's check lets through.
Allowed(id, row) ==
  IF row = Absent
  THEN table[id].type = "income" =>
         ProposedBalanceHolds(Excluding(table, id), table[id].profile, "income", 0)
  ELSE ProposedBalanceHolds(Excluding(table, id), row.profile, row.type, row.amount)

\* A row an operation may want to store under id: it has a valid amount, and it
\* stays with the profile of the row it replaces.
Replacement(id, row) ==
  row # Absent => /\ row.amount \in 1 .. MaxAmount
                  /\ table[id] # Absent => table[id].profile = row.profile

\* For the profile it is run on, the check compares what the table will be.
LEMMA CheckForesees ==
  ASSUME FitsInWord, NEW r \in Table, NEW id \in Ids, NEW row \in Row \cup {Absent},
         NEW p, NEW type \in Types, NEW amount \in 0 .. MaxAmount,
         row = Absent => amount = 0,
         row # Absent => row.type = type /\ row.amount = amount /\ row.profile = p
  PROVE  ProposedBalanceHolds(Excluding(r, id), p, type, amount)
           <=> ~ Overdrawn([r EXCEPT ![id] = row], p)
<1> DEFINE rest == Excluding(r, id)
           new  == With(r, id, row)
<1>1. rest = With(r, id, Absent) /\ rest \in Table
  BY DEF Excluding, Table, With
<1>2. ASSUME NEW t \in Types
      PROVE  Sum(new, t, p) = Sum(rest, t, p) + (IF type = t THEN amount ELSE 0)
  <2> row \in Cell /\ Absent \in Cell
    BY DEF Cell
  <2>1. Sum(new, t, p) = Sum(r, t, p) - Share(r[id], t, p) + Share(row, t, p)
    BY SumReplace
  <2>2. Sum(rest, t, p) = Sum(r, t, p) - Share(r[id], t, p) + Share(Absent, t, p)
    BY <1>1, SumReplace
  <2>3. Share(Absent, t, p) = 0
    BY ShareBounds
  <2>4. Share(row, t, p) = IF type = t THEN amount ELSE 0
    BY <2>3 DEF Share
  <2>5. Sum(r, t, p) \in Int /\ Share(r[id], t, p) \in Int
    BY SumBounds, ShareBounds, LedgerAssumption
  <2>6. QED
    BY <2>1, <2>2, <2>3, <2>4, <2>5, LedgerAssumption
<1> HIDE DEF rest, new
<1>3. ProposedBalanceHolds(rest, p, type, amount)
        <=> Sum(new, "expense", p) <= Sum(new, "income", p)
  BY <1>1, <1>2, CheckIsExact DEF Types
<1>4. rest \in Table /\ Sum(new, "expense", p) \in Int /\ Sum(new, "income", p) \in Int
  <2>1. Sum(rest, "expense", p) \in Int /\ Sum(rest, "income", p) \in Int
    BY <1>1, SumBounds, LedgerAssumption DEF Types
  <2>2. QED
    BY <1>1, <1>2, <2>1, LedgerAssumption DEF Types
<1>5. QED
  BY <1>3, <1>4 DEF Overdrawn, rest, new, With

\* A profile that neither row belongs to keeps its sums.
LEMMA OthersUntouched ==
  ASSUME NEW r \in Table, NEW id \in Ids, NEW row \in Row \cup {Absent}, NEW q,
         r[id] # Absent => r[id].profile # q,
         row # Absent => row.profile # q
  PROVE  Overdrawn([r EXCEPT ![id] = row], q) <=> Overdrawn(r, q)
<1>1. ASSUME NEW t \in Types
      PROVE  Sum(With(r, id, row), t, q) = Sum(r, t, q)
  <2> row \in Cell
    BY DEF Cell
  <2>1. Share(r[id], t, q) = 0 /\ Share(row, t, q) = 0
    BY DEF Share, Absent, Types, Table
  <2>2. Sum(r, t, q) \in Int
    BY SumBounds, LedgerAssumption
  <2>3. QED
    BY <2>1, <2>2, SumReplace
<1>2. QED
  BY <1>1 DEF Overdrawn, Types, With

\* Deleting an expense, which the code does not check, overdraws nobody.
LEMMA ExpensesMayGo ==
  ASSUME NEW r \in Table, NEW id \in Ids, r[id].type # "income",
         NEW q, ~ Overdrawn(r, q)
  PROVE  ~ Overdrawn([r EXCEPT ![id] = Absent], q)
<1> DEFINE new == With(r, id, Absent)
<1>1. Absent \in Cell /\ "income" \in Types /\ "expense" \in Types
  BY DEF Types, Cell
<1>2. ASSUME NEW t \in Types
      PROVE  Sum(new, t, q) = Sum(r, t, q) - Share(r[id], t, q)
  <2>1. Share(Absent, t, q) = 0
    BY ShareBounds
  <2>2. Sum(r, t, q) \in Int /\ Share(r[id], t, q) \in Int
    BY SumBounds, ShareBounds, LedgerAssumption
  <2>3. Sum(new, t, q) = Sum(r, t, q) - Share(r[id], t, q) + Share(Absent, t, q)
    BY <1>1, SumReplace
  <2>4. QED
    BY <2>1, <2>2, <2>3
<1> HIDE DEF new
<1>3. Share(r[id], "income", q) = 0
  BY DEF Share
<1>4. Share(r[id], "expense", q) \in Nat
  BY <1>1, ShareBounds, LedgerAssumption
<1>5. Sum(r, "income", q) \in Int /\ Sum(r, "expense", q) \in Int
  BY <1>1, SumBounds, LedgerAssumption
<1>6. /\ Sum(new, "income", q) = Sum(r, "income", q)
      /\ Sum(new, "expense", q) = Sum(r, "expense", q) - Share(r[id], "expense", q)
  BY <1>1, <1>2, <1>3, <1>5
<1>7. ~ Overdrawn(new, q)
  BY <1>4, <1>5, <1>6 DEF Overdrawn
<1>8. QED
  BY <1>7 DEF new, With

-----------------------------------------------------------------------------
(* What a step does to the table *)

\* The step stores row under id, which the check let through.
Granted(id, row) ==
  /\ Allowed(id, row)
  /\ Replacement(id, row)
  /\ table' = [table EXCEPT ![id] = row]
  /\ last'.outcome = "ok"

\* The step refuses to store row under id, for the balance only if the check
\* says so.
Refused(id, row) ==
  /\ UNCHANGED table
  /\ last'.id = id /\ last'.row = row
  /\ last'.outcome \in Overdraft =>
       /\ ~ Allowed(id, row)
       /\ Replacement(id, row)
       /\ (last'.outcome = "incomeReductionWouldOverdraw") <=> (table[id].type = "income")

\* Every step grants a request, refuses one, or leaves the table alone.
LEMMA StepShape ==
  ASSUME TypeOK, RowsWellFormed, [Next]_vars
  PROVE  \/ UNCHANGED <<table, last>>
         \/ \E id \in Ids, row \in Row \cup {Absent} : Granted(id, row) \/ Refused(id, row)
<1> USE DEF Overdraft
<1>1. ASSUME NEW row \in Row, row.amount <= MaxAmount, Create(row)
      PROVE  \E id \in Ids, r \in Row \cup {Absent} : Granted(id, r) \/ Refused(id, r)
  <2> DEFINE id == minted + 1
  <2>1. id \in Ids /\ table[id] = Absent /\ row # Absent
    BY <1>1, LedgerAssumption DEF Create, TypeOK, RowsWellFormed, Ids, Row, Absent, Types
  <2>2. Excluding(table, id) = table
    BY <2>1 DEF Excluding, TypeOK
  <2>3. Allowed(id, row) <=> ProposedBalanceHolds(table, row.profile, row.type, row.amount)
    BY <2>1, <2>2 DEF Allowed
  <2>4. row.amount > 0 => Replacement(id, row)
    BY <1>1, <2>1, LedgerAssumption DEF Replacement, Row
  <2>5. table[id].type # "income"
    BY <2>1 DEF Absent
  <2>6. Granted(id, row) \/ Refused(id, row)
    BY <1>1, <2>3, <2>4, <2>5 DEF Create, Granted, Refused, Commit, Reject
  <2>7. QED
    BY <2>1, <2>6
<1>2. ASSUME NEW type \in Types, NEW amount \in Amounts, Add(type, amount)
      PROVE  \E id \in Ids, r \in Row \cup {Absent} : Granted(id, r) \/ Refused(id, r)
  <2> DEFINE row == [type |-> type, amount |-> amount, profile |-> profile]
  <2>1. row \in Row /\ row.amount <= MaxAmount
    BY LedgerAssumption DEF Row, TypeOK
  <2>2. QED
    BY <1>1, <1>2, <2>1 DEF Add
<1>3. ASSUME NEW s \in Screens, screen[s] # Closed
      PROVE  /\ screen[s].id \in Ids
             /\ screen[s].row \in Row
             /\ screen[s].row.amount <= MaxAmount
  BY <1>3, LedgerAssumption DEF TypeOK, View, RowsWellFormed
<1>4. ASSUME NEW s \in Screens, NEW amount \in Amounts, Update(s, amount)
      PROVE  \E id \in Ids, r \in Row \cup {Absent} : Granted(id, r) \/ Refused(id, r)
  <2> DEFINE id  == screen[s].id
             row == [screen[s].row EXCEPT !.amount = amount]
  <2>1. /\ id \in Ids /\ row \in Row /\ row # Absent
        /\ row.amount = amount
        /\ row.profile = screen[s].row.profile /\ row.type = screen[s].row.type
    BY <1>3, <1>4, LedgerAssumption DEF Update, Row, Absent, Types
  <2>2. amount > 0 /\ Found(id, row.profile) => Replacement(id, row)
    BY <2>1, LedgerAssumption DEF Found, Replacement
  <2>3. Allowed(id, row)
          <=> ProposedBalanceHolds(Excluding(table, id), row.profile, row.type, amount)
    BY <2>1 DEF Allowed
  <2> HIDE DEF id, row
  <2>4. Granted(id, row) \/ Refused(id, row)
    BY <1>4, <2>2, <2>3 DEF Update, Granted, Refused, Commit, Reject, id, row
  <2>5. QED
    BY <2>1, <2>4
<1>5. ASSUME NEW s \in Screens, Delete(s)
      PROVE  \E id \in Ids, r \in Row \cup {Absent} : Granted(id, r) \/ Refused(id, r)
  <2> DEFINE id == screen[s].id
  <2>1. id \in Ids /\ Replacement(id, Absent)
    BY <1>3, <1>5 DEF Delete, Replacement
  <2>2. Allowed(id, Absent)
          <=> (table[id].type = "income" =>
                 ProposedBalanceHolds(Excluding(table, id), table[id].profile, "income", 0))
    BY DEF Allowed
  <2>3. Granted(id, Absent) \/ Refused(id, Absent)
    BY <1>5, <2>1, <2>2 DEF Delete, Granted, Refused, Commit, Reject
  <2>4. QED
    BY <2>1, <2>3
<1>6. ASSUME NEW s \in Screens, Duplicate(s)
      PROVE  \E id \in Ids, r \in Row \cup {Absent} : Granted(id, r) \/ Refused(id, r)
  BY <1>1, <1>3, <1>6 DEF Duplicate
<1>7. ASSUME NEW s \in Screens, Leave(s) \/ \E id \in Ids : Open(s, id)
      PROVE  UNCHANGED <<table, last>>
  BY <1>7 DEF Leave, Open
<1>8. CASE UNCHANGED vars
  BY <1>8 DEF vars
<1>9. QED
  BY <1>2, <1>4, <1>5, <1>6, <1>7, <1>8 DEF Next

\* A well-formed ledger's table is a Table.
LEMMA WellFormedTable ==
  ASSUME TypeOK, RowsWellFormed
  PROVE  table \in Table
BY DEF TypeOK, RowsWellFormed, Table

\* Each step keeps the rows and the screens well formed.
LEMMA RowsStep ==
  ASSUME TypeOK, RowsWellFormed, [Next]_vars
  PROVE  RowsWellFormed'
<1> USE LedgerAssumption
<1>1. ASSUME UNCHANGED <<table, minted, screen>>
      PROVE  RowsWellFormed'
  BY <1>1 DEF RowsWellFormed
<1>2. ASSUME NEW row \in Row, row.amount <= MaxAmount, Create(row)
      PROVE  RowsWellFormed'
  <2> DEFINE id == minted + 1
  <2>1. CASE UNCHANGED <<table, minted, screen>>
    BY <1>1, <2>1
  <2>2. CASE row.amount > 0 /\ Commit(id, row) /\ minted' = id /\ UNCHANGED screen
    <3>1. row.amount \in 1 .. MaxAmount
      BY <1>2, <2>2 DEF Row
    <3>2. \A i \in Ids : table'[i] = IF i = id THEN row ELSE table[i]
      BY <2>2 DEF Commit, TypeOK
    <3>3. \A i \in Ids : table'[i] # Absent =>
            table'[i].amount \in 1 .. MaxAmount /\ i <= minted'
      BY <2>2, <3>1, <3>2 DEF RowsWellFormed, TypeOK, Ids
    <3>4. \A s \in Screens : screen'[s] # Closed =>
            screen'[s].row.amount \in 1 .. MaxAmount /\ screen'[s].id <= minted'
      BY <2>2 DEF RowsWellFormed, TypeOK, View, Ids
    <3>5. QED
      BY <3>3, <3>4 DEF RowsWellFormed
  <2>3. QED
    BY <1>2, <2>1, <2>2 DEF Create, Reject
<1>3. ASSUME NEW type \in Types, NEW amount \in Amounts, Add(type, amount)
      PROVE  RowsWellFormed'
  <2> DEFINE row == [type |-> type, amount |-> amount, profile |-> profile]
  <2>1. row \in Row /\ row.amount <= MaxAmount
    BY DEF Row, TypeOK
  <2>2. QED
    BY <1>2, <1>3, <2>1 DEF Add
<1>4. ASSUME NEW s \in Screens, screen[s] # Closed
      PROVE  /\ screen[s].id \in Ids /\ screen[s].id <= minted
             /\ screen[s].row \in Row /\ screen[s].row.amount <= MaxAmount
  BY <1>4 DEF TypeOK, View, RowsWellFormed
<1>5. ASSUME NEW s \in Screens, Duplicate(s)
      PROVE  RowsWellFormed'
  BY <1>2, <1>4, <1>5 DEF Duplicate
<1>6. ASSUME NEW s \in Screens, NEW id \in Ids, Open(s, id)
      PROVE  RowsWellFormed'
  <2>1. \A t \in Screens : screen'[t] = IF t = s THEN [id |-> id, row |-> table[id]]
                                                 ELSE screen[t]
    BY <1>6 DEF Open, TypeOK
  <2>2. table[id].amount \in 1 .. MaxAmount /\ id <= minted
    BY <1>6 DEF Open, RowsWellFormed
  <2>3. QED
    BY <1>6, <2>1, <2>2 DEF Open, RowsWellFormed
<1>7. ASSUME NEW s \in Screens, Close(s)
      PROVE  \A t \in Screens : screen'[t] # Closed => screen'[t] = screen[t]
  BY <1>7 DEF Close, TypeOK
<1>8. ASSUME NEW s \in Screens, screen[s] # Closed,
             NEW row, row # Absent => row.amount \in 1 .. MaxAmount,
             Commit(screen[s].id, row), Close(s), UNCHANGED minted
      PROVE  RowsWellFormed'
  <2>1. \A i \in Ids : table'[i] = IF i = screen[s].id THEN row ELSE table[i]
    BY <1>8 DEF Commit, TypeOK
  <2>2. QED
    BY <1>4, <1>7, <1>8, <2>1 DEF RowsWellFormed
<1>9. ASSUME NEW s \in Screens, NEW amount \in Amounts, Update(s, amount)
      PROVE  RowsWellFormed'
  <2> DEFINE row == [screen[s].row EXCEPT !.amount = amount]
  <2>1. screen[s] # Closed /\ row.amount = amount
    BY <1>4, <1>9 DEF Update, Row
  <2>2. CASE amount > 0 /\ Commit(screen[s].id, row) /\ Close(s) /\ UNCHANGED minted
    <3>1. row.amount \in 1 .. MaxAmount
      BY <2>1, <2>2
    <3> HIDE DEF row
    <3>2. QED
      BY <1>8, <2>1, <2>2, <3>1
  <2>3. CASE UNCHANGED <<table, minted, screen>>
    BY <1>1, <2>3
  <2> HIDE DEF row
  <2>4. QED
    BY <1>9, <2>2, <2>3 DEF Update, Reject, row
<1>10. ASSUME NEW s \in Screens, Delete(s)
       PROVE  RowsWellFormed'
  <2>1. screen[s] # Closed
    BY <1>10 DEF Delete
  <2>2. CASE Commit(screen[s].id, Absent) /\ Close(s) /\ UNCHANGED minted
    BY <1>8, <2>1, <2>2
  <2>3. CASE UNCHANGED <<table, minted, screen>>
    BY <1>1, <2>3
  <2>4. QED
    BY <1>10, <2>2, <2>3 DEF Delete, Reject
<1>11. ASSUME NEW s \in Screens, Leave(s)
       PROVE  RowsWellFormed'
  BY <1>7, <1>11 DEF Leave, RowsWellFormed
<1>12. CASE UNCHANGED vars
  BY <1>1, <1>12 DEF vars
<1>13. QED
  BY <1>3, <1>5, <1>6, <1>9, <1>10, <1>11, <1>12 DEF Next

\* No step stores a row under an id that was handed out and is not in use.
LEMMA AbsentStays ==
  ASSUME TypeOK, [Next]_vars
  PROVE  \A i \in Ids : i <= minted /\ table[i] = Absent => table'[i] = Absent
<1> DEFINE Kept == \A i \in Ids : i <= minted /\ table[i] = Absent => table'[i] = Absent
<1>1. ASSUME NEW row, Create(row)
      PROVE  Kept
  <2>1. CASE UNCHANGED table
    BY <2>1
  <2>2. CASE Commit(minted + 1, row)
    <3>1. \A i \in Ids : i # minted + 1 => table'[i] = table[i]
      BY <2>2 DEF Commit, TypeOK
    <3>2. QED
      BY <3>1 DEF TypeOK, Ids
  <2> HIDE DEF Kept
  <2>3. QED
    BY <1>1, <2>1, <2>2 DEF Create, Reject
<1>2. ASSUME NEW s \in Screens, NEW amount \in Amounts, Update(s, amount)
      PROVE  Kept
  BY <1>2 DEF Update, Found, Commit, Reject, TypeOK
<1>3. ASSUME NEW s \in Screens, Delete(s)
      PROVE  Kept
  <2>1. UNCHANGED table \/ table' = [table EXCEPT ![screen[s].id] = Absent]
    BY <1>3 DEF Delete, Commit, Reject
  <2>2. QED
    BY <2>1 DEF TypeOK
<1>4. ASSUME UNCHANGED table
      PROVE  Kept
  BY <1>4
<1> HIDE DEF Kept
<1>5. Kept
  BY <1>1, <1>2, <1>3, <1>4 DEF Next, vars, Add, Duplicate, Open, Leave
<1>6. QED
  BY <1>5 DEF Kept

\* No step takes an id back or changes the profile.
LEMMA IdsGrow ==
  ASSUME TypeOK, [Next]_vars
  PROVE  minted <= minted' /\ UNCHANGED profile
<1>1. minted \in Int
  BY DEF TypeOK
<1>2. ASSUME NEW row, Create(row) PROVE minted <= minted' /\ UNCHANGED profile
  BY <1>1, <1>2 DEF Create, Reject, Commit
<1>3. ASSUME NEW s \in Screens, NEW amount \in Amounts, Update(s, amount)
      PROVE  minted <= minted' /\ UNCHANGED profile
  BY <1>1, <1>3 DEF Update, Reject, Commit
<1>4. ASSUME NEW s \in Screens, Delete(s)
      PROVE  minted <= minted' /\ UNCHANGED profile
  BY <1>1, <1>4 DEF Delete, Reject, Commit
<1>5. CASE UNCHANGED <<minted, profile>>
  BY <1>1, <1>5
<1>6. QED
  BY <1>2, <1>3, <1>4, <1>5 DEF Next, vars, Add, Duplicate, Open, Leave

\* Every stored amount is positive and every stored id was handed out.
THEOREM RowsAreWellFormed == Spec => []RowsWellFormed
<1>1. Init => TypeOK /\ RowsWellFormed
  BY LedgerAssumption DEF Init, TypeOK, RowsWellFormed, Request, View, Ids
<1>2. TypeOK /\ RowsWellFormed /\ [Next]_vars => (TypeOK /\ RowsWellFormed)'
  BY TypeStep, RowsStep
<1>3. QED
  BY <1>1, <1>2, PTL DEF Spec

-----------------------------------------------------------------------------
(* The balance *)

\* On the ledger's own table, a request the check lets through overdraws nobody
\* and one it does not overdraws somebody.
LEMMA AllowedKeepsBalance ==
  ASSUME FitsInWord, TypeOK, RowsWellFormed, BalanceNeverNegative,
         NEW id \in Ids, NEW row \in Row \cup {Absent}, Replacement(id, row)
  PROVE  Allowed(id, row) <=>
           \A q \in Profiles : ~ Overdrawn([table EXCEPT ![id] = row], q)
<1> DEFINE new == [table EXCEPT ![id] = row]
<1>1. table \in Table
  BY WellFormedTable
<1>2. 0 \in 0 .. MaxAmount /\ "income" \in Types
  BY LedgerAssumption DEF Types
<1>3. CASE row # Absent
  <2>1. row.profile \in Profiles /\ row.type \in Types /\ row.amount \in 0 .. MaxAmount
    BY <1>3, LedgerAssumption DEF Row, Replacement
  <2>2. Allowed(id, row) <=> ~ Overdrawn(new, row.profile)
    BY <1>1, <1>3, <2>1, CheckForesees DEF Allowed
  <2>3. ASSUME NEW q \in Profiles, q # row.profile
        PROVE  ~ Overdrawn(new, q)
    BY <1>1, <1>3, <2>3, OthersUntouched DEF Replacement, BalanceNeverNegative
  <2> HIDE DEF new
  <2>4. QED
    BY <2>1, <2>2, <2>3 DEF new
<1>4. CASE row = Absent /\ table[id].type = "income"
  <2>1. table[id] # Absent /\ table[id].profile \in Profiles
    BY <1>1, <1>4 DEF Table, Absent, Row
  <2>2. Allowed(id, row) <=> ~ Overdrawn(new, table[id].profile)
    BY <1>1, <1>2, <1>4, CheckForesees DEF Allowed
  <2>3. ASSUME NEW q \in Profiles, q # table[id].profile
        PROVE  ~ Overdrawn(new, q)
    BY <1>1, <1>4, <2>3, OthersUntouched DEF BalanceNeverNegative
  <2> HIDE DEF new
  <2>4. QED
    BY <2>1, <2>2, <2>3 DEF new
<1>5. CASE row = Absent /\ table[id].type # "income"
  <2>1. Allowed(id, row)
    BY <1>5 DEF Allowed
  <2>2. \A q \in Profiles : ~ Overdrawn(new, q)
    BY <1>1, <1>5, ExpensesMayGo DEF BalanceNeverNegative
  <2>3. QED
    BY <2>1, <2>2
<1>6. QED
  BY <1>3, <1>4, <1>5

\* So no step of a screen overdraws a profile.
LEMMA BalanceStep ==
  ASSUME FitsInWord, TypeOK, RowsWellFormed, BalanceNeverNegative, [Next]_vars
  PROVE  BalanceNeverNegative'
<1>1. CASE UNCHANGED table
  BY <1>1 DEF BalanceNeverNegative
<1>2. ASSUME NEW id \in Ids, NEW row \in Row \cup {Absent}, Granted(id, row)
      PROVE  BalanceNeverNegative'
  BY <1>2, AllowedKeepsBalance DEF Granted, BalanceNeverNegative
<1>3. ASSUME NEW id \in Ids, NEW row \in Row \cup {Absent}, Refused(id, row)
      PROVE  UNCHANGED table
  BY <1>3 DEF Refused
<1>4. QED
  BY <1>1, <1>2, <1>3, StepShape

\* Together these are kept by every step.
Inv == TypeOK /\ RowsWellFormed /\ BalanceNeverNegative /\ RefusedOnlyToProtectBalance

\* Each step keeps them.
LEMMA InvStep ==
  ASSUME FitsInWord, Inv, [Next]_vars
  PROVE  Inv'
<1> USE DEF Inv
<1>1. TypeOK' /\ RowsWellFormed' /\ BalanceNeverNegative'
  BY TypeStep, RowsStep, BalanceStep
<1>2. CASE UNCHANGED <<table, last>>
  BY <1>1, <1>2 DEF RefusedOnlyToProtectBalance
<1>3. ASSUME NEW id \in Ids, NEW row \in Row \cup {Absent}, Granted(id, row)
      PROVE  Inv'
  BY <1>1, <1>3 DEF Granted, RefusedOnlyToProtectBalance, Overdraft
<1>4. ASSUME NEW id \in Ids, NEW row \in Row \cup {Absent}, Refused(id, row)
      PROVE  Inv'
  <2>1. CASE last'.outcome \in Overdraft
    <3>1. PICK p \in Profiles : Overdrawn([table EXCEPT ![id] = row], p)
      BY <1>4, <2>1, AllowedKeepsBalance DEF Refused
    <3>2. QED
      BY <1>1, <1>4, <2>1, <3>1 DEF Refused, RefusedOnlyToProtectBalance
  <2>2. CASE last'.outcome \notin Overdraft
    BY <1>1, <2>2 DEF RefusedOnlyToProtectBalance
  <2>3. QED
    BY <2>1, <2>2
<1>5. QED
  BY <1>2, <1>3, <1>4, StepShape

\* An empty table overdraws nobody.
LEMMA EmptyTableSolvent == \A p \in Profiles : ~ Overdrawn([i \in Ids |-> Absent], p)
<1> DEFINE r == [i \in Ids |-> Absent]
<1>1. r \in Table /\ "expense" \in Types
  BY DEF Table, Types
<1>2. \A p \in Profiles : Column(r, "expense", p) = Column(r, "income", p)
  BY DEF Column, Absent
<1> HIDE DEF r
<1>3. \A p \in Profiles : Sum(r, "expense", p) \in Int
  BY <1>1, SumBounds, LedgerAssumption
<1>4. \A p \in Profiles : ~ Overdrawn(r, p)
  BY <1>2, <1>3 DEF Overdrawn, Sum
<1>5. QED
  BY <1>4 DEF r

\* An empty ledger satisfies them.
LEMMA InitInv == Init => Inv
<1> SUFFICES ASSUME Init PROVE Inv
  OBVIOUS
<1>1. TypeOK /\ RowsWellFormed
  BY LedgerAssumption DEF Init, TypeOK, RowsWellFormed, Request, View, Ids
<1>2. BalanceNeverNegative
  BY EmptyTableSolvent DEF Init, BalanceNeverNegative
<1>3. RefusedOnlyToProtectBalance
  BY DEF Init, RefusedOnlyToProtectBalance, NoRequest, Overdraft
<1>4. QED
  BY <1>1, <1>2, <1>3 DEF Inv

\* As long as N + 1 amounts fit in a machine word, no sequence of operations, on
\* however old a copy of a row, leaves a profile with more expenses than income.
THEOREM BalanceStaysSafe ==
  ASSUME FitsInWord
  PROVE  Spec => []BalanceNeverNegative
<1>1. Init => Inv
  BY InitInv
<1>2. Inv /\ [Next]_vars => Inv'
  BY InvStep
<1>3. Inv => BalanceNeverNegative
  BY DEF Inv
<1>4. QED
  BY <1>1, <1>2, <1>3, PTL DEF Spec

\* A request is only ever refused for the balance when it would overdraw it.
THEOREM RefusalsAreJustified ==
  ASSUME FitsInWord
  PROVE  Spec => []RefusedOnlyToProtectBalance
<1>1. Init => Inv
  BY InitInv
<1>2. Inv /\ [Next]_vars => Inv'
  BY InvStep
<1>3. Inv => RefusedOnlyToProtectBalance
  BY DEF Inv
<1>4. QED
  BY <1>1, <1>2, <1>3, PTL DEF Spec

\* A deleted row is never written back by a screen that still holds it, whether
\* or not the sums overflow.
THEOREM DeletionsAreFinal == Spec => DeletedStaysDeleted
<1> DEFINE Kept == \A i \in Ids : i <= minted /\ table[i] = Absent => table'[i] = Absent
<1>1. Init => TypeOK /\ RowsWellFormed
  BY LedgerAssumption DEF Init, TypeOK, RowsWellFormed, Request, View, Ids
<1>2. TypeOK /\ RowsWellFormed /\ [Next]_vars => (TypeOK /\ RowsWellFormed)'
  BY TypeStep, RowsStep
<1>3. TypeOK /\ [Next]_vars => Kept
  BY AbsentStays
<1>4. QED
  BY <1>1, <1>2, <1>3, PTL DEF Spec, DeletedStaysDeleted

-----------------------------------------------------------------------------
(***************************************************************************)
(* BackupRestore: the inductive invariant.                                 *)
(***************************************************************************)

\* Rows that may become the table: well formed, and under ids that were handed
\* out.
Storable(r) == r \in Table /\ \A i \in Ids : r[i] # Absent => i <= minted

\* A restore replaces one table after another, and knows what each one held.
RestoreOK ==
  /\ backup.made => Storable(backup.contents.table)
  /\ restore.open =>
       /\ backup.made
       /\ Storable(restore.before.table)
       /\ table = IF "transactions" \in restore.left THEN restore.before.table
                                                     ELSE backup.contents.table
       /\ others = IF "others" \in restore.left THEN restore.before.others
                                                ELSE backup.contents.others

BackupIInv == BackupTypeOK /\ RowsWellFormed /\ RestoreOK

\* The rows a backup or an open restore holds overdraw nobody.
CopiesSolvent ==
  /\ backup.made => \A p \in Profiles : ~ Overdrawn(backup.contents.table, p)
  /\ restore.open => \A p \in Profiles : ~ Overdrawn(restore.before.table, p)

\* The invariant holds when the app starts.
LEMMA BackupInitInv == BackupInit => BackupIInv
<1> SUFFICES ASSUME BackupInit PROVE BackupIInv
  OBVIOUS
<1>1. TypeOK /\ RowsWellFormed
  BY InitInv DEF BackupInit, Inv
<1>2. /\ others = 0 /\ ~ backup.made /\ ~ restore.open
      /\ backup = NoBackup /\ restore = NoRestore /\ resetting = FALSE
  BY DEF BackupInit, NoBackup, NoRestore
<1>3. BackupTypeOK
  <2>1. 0 \in 0 .. MaxChanges
    BY BackupAssumption
  <2>2. QED
    BY <1>1, <1>2, <2>1 DEF BackupTypeOK
<1>4. RestoreOK
  BY <1>2 DEF RestoreOK
<1>5. QED
  BY <1>1, <1>3, <1>4 DEF BackupIInv

\* What an open restore and a made backup are.
LEMMA BackupParts ==
  ASSUME BackupTypeOK
  PROVE  /\ restore.open => restore \in Restore
         /\ backup.made => backup \in Backup
         /\ Current \in Contents
<1>1. restore \in Restore \/ restore = NoRestore
  BY DEF BackupTypeOK
<1>2. backup \in Backup \/ backup = NoBackup
  BY DEF BackupTypeOK
<1>3. (\A r \in Restore : r.open) /\ ~ NoRestore.open
  BY DEF Restore, NoRestore
<1>4. (\A b \in Backup : b.made) /\ ~ NoBackup.made
  BY DEF Backup, NoBackup
<1>5. Current \in Contents
  BY DEF BackupTypeOK, Current, Contents, TypeOK
<1>6. QED
  BY <1>1, <1>2, <1>3, <1>4, <1>5

\* The table of a well-formed ledger may be stored.
LEMMA StorableTable ==
  ASSUME TypeOK, RowsWellFormed
  PROVE  Storable(table)
BY WellFormedTable DEF Storable, RowsWellFormed

\* Rows that may be stored leave the ledger well formed, whatever screens close.
LEMMA StorableRows ==
  ASSUME NEW r, Storable(r), RowsWellFormed, table' = r,
         UNCHANGED minted, \A s \in Screens : screen'[s] \in {screen[s], Closed}
  PROVE  RowsWellFormed'
<1>1. \A i \in Ids : table'[i] # Absent =>
        table'[i].amount \in 1 .. MaxAmount /\ i <= minted'
  BY DEF Storable, Table
<1>2. \A s \in Screens : screen'[s] # Closed =>
        screen'[s].row.amount \in 1 .. MaxAmount /\ screen'[s].id <= minted'
  BY DEF RowsWellFormed
<1>3. QED
  BY <1>1, <1>2 DEF RowsWellFormed

\* More ids do not make rows less storable.
LEMMA StorableKept ==
  ASSUME NEW r, Storable(r), minted \in Int, minted' \in Int, minted <= minted'
  PROVE  r \in Table /\ \A i \in Ids : r[i] # Absent => i <= minted'
BY DEF Storable, Ids

\* A step that leaves the backup and the restore alone and closes no
\* transaction, while none is open.
LEMMA BackupIdle ==
  ASSUME BackupIInv, ~ restore.open, UNCHANGED <<backup, restore>>,
         TypeOK', RowsWellFormed', minted <= minted',
         others' \in 0 .. MaxChanges, resetting' \in BOOLEAN
  PROVE  BackupIInv'
<1>1. BackupTypeOK'
  BY DEF BackupIInv, BackupTypeOK
<1>2. minted \in Int /\ minted' \in Int
  BY DEF BackupIInv, BackupTypeOK, TypeOK
<1>3. ASSUME backup.made' PROVE Storable(backup.contents.table)'
  BY <1>2, <1>3, StorableKept DEF BackupIInv, RestoreOK, Storable
<1>4. RestoreOK'
  BY <1>3 DEF BackupIInv, RestoreOK
<1>5. QED
  BY <1>1, <1>4 DEF BackupIInv

\* The types of the ledger when other rows are put in the table.
LEMMA TableReplaced ==
  ASSUME TypeOK, table' \in [Ids -> Row \cup {Absent}], UNCHANGED minted,
         profile' \in Profiles, last' \in {last, NoRequest},
         screen' = screen \/ screen' = [s \in Screens |-> Closed]
  PROVE  TypeOK' /\ \A s \in Screens : screen'[s] \in {screen[s], Closed}
BY DEF TypeOK

\* Every step keeps the invariant.
LEMMA BackupStep == BackupIInv /\ [BackupNext]_backupVars => BackupIInv'
<1> SUFFICES ASSUME BackupIInv, [BackupNext]_backupVars PROVE BackupIInv'
  OBVIOUS
<1>1. /\ TypeOK /\ RowsWellFormed /\ BackupTypeOK /\ RestoreOK
      /\ others \in 0 .. MaxChanges /\ resetting \in BOOLEAN /\ minted \in Int
      /\ Storable(table) /\ 0 \in 0 .. MaxChanges
  BY StorableTable, BackupAssumption DEF BackupIInv, BackupTypeOK, TypeOK
<1>2. CASE LedgerStep
  <2>1. ~ restore.open /\ Next /\ UNCHANGED <<others, backup, restore, resetting>>
    BY <1>2 DEF LedgerStep
  <2>2. TypeOK' /\ RowsWellFormed' /\ minted <= minted'
    BY <1>1, <2>1, TypeStep, RowsStep, IdsGrow
  <2>3. QED
    BY <1>1, <2>1, <2>2, BackupIdle
<1>3. ASSUME UNCHANGED vars PROVE TypeOK' /\ RowsWellFormed' /\ minted <= minted'
  BY <1>1, <1>3, TypeStep, RowsStep, IdsGrow
<1>4. CASE ChangeOthers
  <2>1. ~ restore.open /\ UNCHANGED <<backup, restore, resetting>> /\ UNCHANGED vars
    BY <1>4 DEF ChangeOthers
  <2>2. others' \in 0 .. MaxChanges
    BY <1>1, <1>4, BackupAssumption DEF ChangeOthers
  <2>3. QED
    BY <1>1, <1>3, <2>1, <2>2, BackupIdle
<1>5. CASE MakeBackup
  <2>1. /\ ~ restore.open /\ UNCHANGED <<others, restore, resetting>> /\ UNCHANGED vars
        /\ backup' = [made |-> TRUE, contents |-> Current, profile |-> profile]
    BY <1>5 DEF MakeBackup
  <2>2. backup' \in Backup
    BY <1>1, <2>1, BackupParts DEF Backup, TypeOK
  <2>3. backup'.contents.table = table
    BY <2>1 DEF Current
  <2>4. Storable(backup.contents.table)'
    BY <1>1, <2>1, <2>3 DEF Storable, vars
  <2>5. BackupTypeOK'
    BY <1>1, <1>3, <2>1, <2>2 DEF BackupTypeOK
  <2>6. RestoreOK'
    BY <2>1, <2>4 DEF RestoreOK
  <2>7. QED
    BY <1>3, <2>1, <2>5, <2>6 DEF BackupIInv
<1>6. CASE BeginRestore
  <2>1. /\ backup.made /\ UNCHANGED <<others, backup, resetting>> /\ UNCHANGED vars
        /\ restore' = [open |-> TRUE, left |-> {"transactions", "others"},
                       before |-> Current]
    BY <1>6 DEF BeginRestore
  <2>2. restore' \in Restore
    BY <1>1, <2>1, BackupParts DEF Restore
  <2>3. /\ restore'.before.table = table /\ restore'.before.others = others
        /\ restore'.left = {"transactions", "others"}
    BY <2>1 DEF Current
  <2>4. UNCHANGED <<table, minted>>
    BY <2>1 DEF vars
  <2>5. BackupTypeOK'
    BY <1>1, <1>3, <2>1, <2>2 DEF BackupTypeOK
  <2>6. RestoreOK'
    BY <1>1, <2>1, <2>3, <2>4 DEF RestoreOK, Storable
  <2>7. QED
    BY <1>3, <2>1, <2>5, <2>6 DEF BackupIInv
<1>7. ASSUME NEW name \in {"transactions", "others"}, RestoreTable(name)
      PROVE  BackupIInv'
  <2>1. /\ restore.open /\ restore' = [restore EXCEPT !.left = @ \ {name}]
        /\ last' = NoRequest /\ UNCHANGED <<minted, profile, screen, backup, resetting>>
    BY <1>7 DEF RestoreTable
  <2>2. restore \in Restore /\ backup \in Backup
    BY <1>1, <2>1, BackupParts DEF RestoreOK
  <2>3. /\ restore' \in Restore /\ restore'.before = restore.before /\ restore'.open
        /\ restore'.left = restore.left \ {name}
    BY <2>1, <2>2 DEF Restore
  <2>4. /\ backup.contents.table \in [Ids -> Row \cup {Absent}]
        /\ backup.contents.others \in 0 .. MaxChanges
    BY <2>2 DEF Backup, Contents
  <2>5. /\ table' \in {table, backup.contents.table}
        /\ others' \in {others, backup.contents.others}
    BY <1>7 DEF RestoreTable
  <2>6. TypeOK' /\ \A s \in Screens : screen'[s] \in {screen[s], Closed}
    BY <1>1, <2>1, <2>4, <2>5, TableReplaced DEF TypeOK
  <2>7. RowsWellFormed'
    BY <1>1, <2>1, <2>5, <2>6, StorableRows DEF RestoreOK
  <2>8. BackupTypeOK'
    BY <1>1, <2>1, <2>3, <2>4, <2>5, <2>6 DEF BackupTypeOK
  <2>9. /\ table' = IF "transactions" \in restore'.left THEN restore.before.table
                                                        ELSE backup.contents.table
        /\ others' = IF "others" \in restore'.left THEN restore.before.others
                                                   ELSE backup.contents.others
    BY <1>1, <1>7, <2>1, <2>3 DEF RestoreTable, RestoreOK
  <2>10. RestoreOK'
    BY <1>1, <2>1, <2>3, <2>9 DEF RestoreOK, Storable
  <2>11. QED
    BY <2>7, <2>8, <2>10 DEF BackupIInv
<1>8. CASE CommitRestore
  <2>1. restore' = NoRestore /\ UNCHANGED <<others, backup, resetting>> /\ UNCHANGED vars
    BY <1>8 DEF CommitRestore
  <2>2. ~ restore'.open
    BY <2>1 DEF NoRestore
  <2>3. RestoreOK'
    BY <1>1, <2>1, <2>2 DEF RestoreOK, Storable, vars
  <2>4. BackupTypeOK'
    BY <1>1, <1>3, <2>1 DEF BackupTypeOK
  <2>5. QED
    BY <1>3, <2>1, <2>3, <2>4 DEF BackupIInv
<1>9. ASSUME IF restore.open THEN UndoRestore ELSE UNCHANGED <<table, others, restore>>,
             UNCHANGED <<minted, profile, backup>>, last' \in {last, NoRequest},
             screen' = screen \/ screen' = [s \in Screens |-> Closed], resetting' \in BOOLEAN
      PROVE  BackupIInv'
  <2>1. CASE restore.open
    <3>1. /\ restore.open /\ table' = restore.before.table /\ others' = restore.before.others
          /\ restore' = NoRestore
      BY <1>9, <2>1 DEF UndoRestore
    <3>2. /\ restore.before.table \in [Ids -> Row \cup {Absent}]
          /\ restore.before.others \in 0 .. MaxChanges
      BY <1>1, <3>1, BackupParts DEF Restore, Contents
    <3>3. TypeOK' /\ \A s \in Screens : screen'[s] \in {screen[s], Closed}
      BY <1>1, <1>9, <3>1, <3>2, TableReplaced DEF TypeOK
    <3>4. RowsWellFormed'
      BY <1>1, <1>9, <3>1, <3>3, StorableRows DEF RestoreOK
    <3>5. BackupTypeOK'
      BY <1>1, <1>9, <3>1, <3>2, <3>3 DEF BackupTypeOK
    <3>6. RestoreOK'
      BY <1>1, <1>9, <3>1 DEF RestoreOK, Storable, NoRestore
    <3>7. QED
      BY <3>4, <3>5, <3>6 DEF BackupIInv
  <2>2. CASE ~ restore.open
    <3>1. ~ restore.open /\ UNCHANGED <<table, others, restore>>
      BY <1>9, <2>2
    <3>2. TypeOK' /\ \A s \in Screens : screen'[s] \in {screen[s], Closed}
      BY <1>1, <1>9, <3>1, TableReplaced DEF TypeOK
    <3>3. RowsWellFormed'
      BY <1>1, <1>9, <3>1, <3>2, StorableRows
    <3>4. QED
      BY <1>1, <1>9, <3>1, <3>2, <3>3, BackupIdle
  <2>3. QED
    BY <2>1, <2>2
<1>10. CASE FailRestore
  BY <1>1, <1>9, <1>10 DEF FailRestore
<1>11. CASE ClearTables
  <2>1. /\ ~ restore.open /\ table' = [i \in Ids |-> Absent] /\ others' = 0
        /\ resetting' = TRUE /\ last' = NoRequest
        /\ UNCHANGED <<minted, profile, screen, backup, restore>>
    BY <1>11 DEF ClearTables
  <2>2. TypeOK' /\ \A s \in Screens : screen'[s] \in {screen[s], Closed}
    BY <1>1, <2>1, TableReplaced DEF TypeOK
  <2>3. Storable(table')
    BY <2>1 DEF Storable, Table
  <2>4. RowsWellFormed'
    BY <1>1, <2>1, <2>2, <2>3, StorableRows
  <2>5. QED
    BY <1>1, <2>1, <2>2, <2>4, BackupIdle
<1>12. CASE ResetPreferences
  <2>1. /\ profile' \in Profiles /\ resetting' = FALSE /\ last' = NoRequest
        /\ screen' = [s \in Screens |-> Closed]
        /\ UNCHANGED <<table, minted, others, backup, restore>>
    BY <1>12 DEF ResetPreferences
  <2>2. TypeOK' /\ \A s \in Screens : screen'[s] \in {screen[s], Closed}
    BY <1>1, <2>1, TableReplaced DEF TypeOK
  <2>3. RowsWellFormed'
    BY <1>1, <2>1, <2>2, StorableRows
  <2>4. BackupTypeOK'
    BY <1>1, <2>1, <2>2 DEF BackupTypeOK
  <2>5. RestoreOK'
    BY <1>1, <2>1 DEF RestoreOK, Storable
  <2>6. QED
    BY <2>3, <2>4, <2>5 DEF BackupIInv
<1>13. CASE EndProcess
  BY <1>1, <1>9, <1>13 DEF EndProcess
<1>14. CASE UNCHANGED backupVars
  <2>1. UNCHANGED <<others, backup, restore, resetting>> /\ UNCHANGED vars
    BY <1>14 DEF backupVars
  <2>2. BackupTypeOK'
    BY <1>1, <1>3, <2>1 DEF BackupTypeOK
  <2>3. RestoreOK'
    BY <1>1, <2>1 DEF RestoreOK, Storable, vars
  <2>4. QED
    BY <1>3, <2>1, <2>2, <2>3 DEF BackupIInv
<1>15. QED
  BY <1>2, <1>4, <1>5, <1>6, <1>7, <1>8, <1>10, <1>11, <1>12, <1>13, <1>14 DEF BackupNext

\* The database, the backup file and the two long operations always have their
\* types.
THEOREM BackupTypeCorrect == BackupSpec => []BackupTypeOK
<1>1. BackupIInv => BackupTypeOK
  BY DEF BackupIInv
<1>2. QED
  BY <1>1, BackupInitInv, BackupStep, PTL DEF BackupSpec

\* When a restore is over, committed, undone or cut off by the end of the
\* process, every table is as in the backup or every table is as it was.
THEOREM RestoreIsAtomic == BackupSpec => RestoresAllOrNothing
<1>1. ASSUME BackupIInv, [BackupNext]_backupVars, Ended
      PROVE  Current' \in {restore.before, backup.contents}
  <2>1. /\ restore.open /\ restore \in Restore /\ RestoreOK /\ backup \in Backup
    BY <1>1, BackupParts DEF Ended, BackupIInv, RestoreOK
  <2>2. \A c \in Contents : c = [table |-> c.table, others |-> c.others]
    BY DEF Contents
  <2>3. restore.before \in Contents /\ backup.contents \in Contents
    BY <2>1 DEF Restore, Backup
  <2>4. CASE CommitRestore
    <3>1. restore.left = {} /\ UNCHANGED <<table, others>>
      BY <2>4 DEF CommitRestore, vars
    <3>2. table' = backup.contents.table /\ others' = backup.contents.others
      BY <2>1, <3>1 DEF RestoreOK
    <3>3. QED
      BY <2>2, <2>3, <3>2 DEF Current
  <2>5. CASE FailRestore \/ EndProcess
    <3>1. table' = restore.before.table /\ others' = restore.before.others
      BY <2>1, <2>5 DEF FailRestore, EndProcess, UndoRestore
    <3>2. QED
      BY <2>2, <2>3, <3>1 DEF Current
  <2>6. ASSUME NEW name \in {"transactions", "others"}, RestoreTable(name)
        PROVE  FALSE
    <3>1. restore' = [restore EXCEPT !.left = @ \ {name}]
      BY <2>6 DEF RestoreTable
    <3>2. restore'.open
      BY <2>1, <3>1 DEF Restore
    <3>3. QED
      BY <1>1, <3>2 DEF Ended
  <2>7. ASSUME \/ LedgerStep \/ ChangeOthers \/ MakeBackup \/ BeginRestore \/ ClearTables
               \/ ResetPreferences \/ UNCHANGED backupVars
        PROVE  FALSE
    BY <1>1, <2>1, <2>7
    DEF Ended, LedgerStep, ChangeOthers, MakeBackup, BeginRestore, ClearTables,
        ResetPreferences, backupVars
  <2>8. QED
    BY <1>1, <2>4, <2>5, <2>6, <2>7 DEF BackupNext
<1>2. BackupIInv /\ [BackupNext]_backupVars
        => (Ended => Current' \in {restore.before, backup.contents})
  BY <1>1
<1>3. QED
  BY <1>2, BackupInitInv, BackupStep, PTL DEF BackupSpec, RestoresAllOrNothing

\* No sequence of operations of the screens, backups, restores, resets and
\* crashes leaves a profile with more expenses than income.
THEOREM BackupKeepsBalance ==
  ASSUME FitsInWord
  PROVE  BackupSpec => []BalanceNeverNegative
<1> DEFINE Safe == BackupIInv /\ BalanceNeverNegative /\ CopiesSolvent
<1>1. BackupInit => Safe
  BY BackupInitInv, InitInv DEF BackupInit, Inv, CopiesSolvent, NoBackup, NoRestore
<1>2. ASSUME Safe, [BackupNext]_backupVars PROVE BalanceNeverNegative' /\ CopiesSolvent'
  <2> USE <1>2
  <2>1. CASE LedgerStep
    <3>1. Next /\ UNCHANGED <<backup, restore>>
      BY <2>1 DEF LedgerStep
    <3>2. BalanceNeverNegative'
      BY <3>1, BalanceStep DEF BackupIInv, BackupTypeOK
    <3>3. QED
      BY <3>1, <3>2 DEF CopiesSolvent
  <2>2. CASE ChangeOthers \/ ResetPreferences \/ CommitRestore \/ UNCHANGED backupVars
    <3>1. UNCHANGED <<table, backup>> /\ (UNCHANGED restore \/ ~ restore'.open)
      BY <2>2 DEF ChangeOthers, ResetPreferences, CommitRestore, backupVars, vars, NoRestore
    <3>2. QED
      BY <3>1 DEF BalanceNeverNegative, CopiesSolvent
  <2>3. CASE MakeBackup
    <3>1. UNCHANGED <<table, restore>> /\ backup'.contents.table = table
      BY <2>3 DEF MakeBackup, vars, Current
    <3>2. QED
      BY <3>1 DEF BalanceNeverNegative, CopiesSolvent
  <2>4. CASE BeginRestore
    <3>1. UNCHANGED <<table, backup>> /\ restore'.before.table = table
      BY <2>4 DEF BeginRestore, vars, Current
    <3>2. QED
      BY <3>1 DEF BalanceNeverNegative, CopiesSolvent
  <2>5. ASSUME NEW name \in {"transactions", "others"}, RestoreTable(name)
        PROVE  BalanceNeverNegative' /\ CopiesSolvent'
    <3>1. /\ restore.open /\ backup.made /\ UNCHANGED backup
          /\ restore' = [restore EXCEPT !.left = @ \ {name}]
          /\ table' \in {table, backup.contents.table}
      BY <2>5 DEF RestoreTable, BackupIInv, RestoreOK
    <3>2. restore'.before = restore.before
      BY <3>1, BackupParts DEF BackupIInv, Restore
    <3>3. QED
      BY <3>1, <3>2 DEF BalanceNeverNegative, CopiesSolvent
  <2>6. CASE FailRestore \/ EndProcess
    <3>1. UNCHANGED backup
      BY <2>6 DEF FailRestore, EndProcess
    <3>2. CASE restore.open
      <4>1. table' = restore.before.table /\ ~ restore'.open
        BY <2>6, <3>2 DEF FailRestore, EndProcess, UndoRestore, NoRestore
      <4>2. QED
        BY <3>1, <3>2, <4>1 DEF BalanceNeverNegative, CopiesSolvent
    <3>3. CASE ~ restore.open
      <4>1. UNCHANGED <<table, restore>>
        BY <2>6, <3>3 DEF FailRestore, EndProcess
      <4>2. QED
        BY <3>1, <4>1 DEF BalanceNeverNegative, CopiesSolvent
    <3>4. QED
      BY <3>2, <3>3
  <2>7. CASE ClearTables
    <3>1. table' = [i \in Ids |-> Absent] /\ UNCHANGED <<backup, restore>>
      BY <2>7 DEF ClearTables
    <3>2. BalanceNeverNegative'
      BY <3>1, EmptyTableSolvent DEF BalanceNeverNegative
    <3>3. QED
      BY <3>1, <3>2 DEF CopiesSolvent
  <2>8. QED
    BY <2>1, <2>2, <2>3, <2>4, <2>5, <2>6, <2>7 DEF BackupNext
<1>3. Safe /\ [BackupNext]_backupVars => Safe'
  BY <1>2, BackupStep
<1>4. Safe => BalanceNeverNegative
  OBVIOUS
<1> HIDE DEF Safe
<1>5. QED
  BY <1>1, <1>3, <1>4, PTL DEF BackupSpec

-----------------------------------------------------------------------------
(***************************************************************************)
(* CsvTransfer: the inductive invariant.                                   *)
(***************************************************************************)

\* The ids that are handed out if the process ends now.
DurableMinted == IF import.open THEN import.minted ELSE minted

FilesOK ==
  /\ IsFiniteSet(file) /\ IsFiniteSet(offer) /\ IsFiniteSet(import.left)
  /\ \A line \in file : line.id <= DurableMinted /\ line.amount <= MaxAmount

\* A line that is offered on a table can be created there: it has a valid
\* amount, and no row is stored under its id nor will be.
Offerable(lines, r, m) ==
  \A line \in lines : line.amount \in 1 .. MaxAmount /\ line.id <= m /\ r[line.id] = Absent

\* The rows and the screens are of the one profile there is; nobody has seen an
\* id that may be taken back.
ProfileOK ==
  /\ \A i \in Ids : table[i] # Absent => table[i].profile = profile
  /\ \A s \in Screens : screen[s] # Closed =>
       screen[s].row.profile = profile /\ screen[s].id <= DurableMinted

OriginOK ==
  /\ \A i \in Ids : i > minted => origin[i] = i
  /\ \A i \in Ids : table[i] # Absent /\ origin[i] # i =>
       origin[i] <= DurableMinted /\ table[origin[i]] = Absent

\* The line an imported row was created from.
LineOf(i) == [id |-> origin[i], type |-> table[i].type, amount |-> table[i].amount]

\* While the transaction is open the table holds what it held, and one row for
\* every line that was created; there are ids left for the others.
ImportOK ==
  import.open =>
    /\ offer = {} /\ import.left \subseteq import.lines
    /\ import.minted <= minted /\ minted + Cardinality(import.left) <= N
    /\ import.table \in Table
    /\ \A i \in Ids : import.table[i] # Absent =>
         i <= import.minted /\ import.table[i].profile = profile
    /\ Offerable(import.lines, import.table, import.minted)
    /\ \A i \in Ids : i <= import.minted => table[i] = import.table[i]
    /\ \A i \in Ids : i > import.minted /\ i <= minted =>
         table[i] # Absent /\ LineOf(i) \in import.lines \ import.left
    /\ \A i, j \in Ids : i > import.minted /\ i <= minted /\ j > import.minted /\ j <= minted
         /\ LineOf(i) = LineOf(j) => i = j
    /\ \A line \in import.lines \ import.left :
         \E i \in Ids : i > import.minted /\ i <= minted /\ LineOf(i) = line

CsvIInv ==
  /\ CsvTypeOK /\ RowsWellFormed /\ FilesOK /\ ProfileOK /\ OriginOK /\ ImportOK
  /\ Offerable(offer, table, minted)

\* What an open transaction is, and what there is without one.
LEMMA ImportParts ==
  ASSUME CsvTypeOK
  PROVE  /\ import.open => import \in Import
         /\ ~ import.open => import = NoImport
<1>1. import \in Import \/ import = NoImport
  BY DEF CsvTypeOK
<1>2. (\A i \in Import : i.open) /\ ~ NoImport.open
  BY DEF Import, NoImport
<1>3. QED
  BY <1>1, <1>2

\* The invariant holds when the app starts.
LEMMA CsvInitInv == CsvInit => CsvIInv
<1> SUFFICES ASSUME CsvInit PROVE CsvIInv
  OBVIOUS
<1>1. TypeOK /\ RowsWellFormed
  BY InitInv DEF CsvInit, Inv
<1>2. /\ file = {} /\ offer = {} /\ import = NoImport /\ notice = "none"
      /\ origin = [i \in Ids |-> i] /\ ~ import.open /\ import.left = {}
  BY DEF CsvInit, NoImport
<1>3. CsvTypeOK
  BY <1>1, <1>2 DEF CsvTypeOK
<1>4. FilesOK /\ Offerable(offer, table, minted)
  BY <1>2, FS_EmptySet DEF FilesOK, Offerable
<1>5. ProfileOK
  BY DEF CsvInit, Init, ProfileOK
<1>6. OriginOK
  BY <1>2 DEF OriginOK
<1>7. ImportOK
  BY <1>2 DEF ImportOK
<1>8. QED
  BY <1>1, <1>3, <1>4, <1>5, <1>6, <1>7 DEF CsvIInv

\* The screens keep to the one profile.
LEMMA ProfileStep ==
  ASSUME TypeOK, Next,
         \A i \in Ids : table[i] # Absent => table[i].profile = profile,
         \A s \in Screens : screen[s] # Closed => screen[s].row.profile = profile
  PROVE  /\ \A i \in Ids : table'[i] # Absent => table'[i].profile = profile'
         /\ \A s \in Screens : screen'[s] # Closed => screen'[s].row.profile = profile'
<1> DEFINE Rows    == \A i \in Ids : table'[i] # Absent => table'[i].profile = profile
           Copies  == \A s \in Screens : screen'[s] # Closed => screen'[s].row.profile = profile
<1>1. UNCHANGED profile
  BY IdsGrow
<1>2. ASSUME NEW id \in Ids, NEW row, row # Absent => row.profile = profile, Commit(id, row)
      PROVE  Rows
  <2>1. \A i \in Ids : table'[i] = IF i = id THEN row ELSE table[i]
    BY <1>2 DEF Commit, TypeOK
  <2>2. QED
    BY <1>2, <2>1
<1>3. ASSUME UNCHANGED table PROVE Rows
  BY <1>3
<1>4. ASSUME UNCHANGED screen PROVE Copies
  BY <1>4
<1>5. ASSUME NEW s \in Screens, Close(s) PROVE Copies
  BY <1>5 DEF Close, TypeOK
<1>6. ASSUME NEW row, row.profile = profile, Create(row) PROVE Rows /\ Copies
  <2>1. UNCHANGED screen
    BY <1>6 DEF Create, Reject
  <2>2. UNCHANGED table \/ (minted + 1 \in Ids /\ Commit(minted + 1, row))
    BY <1>6, LedgerAssumption DEF Create, Reject, Ids, TypeOK
  <2>3. Rows
    BY <1>2, <1>3, <1>6, <2>2
  <2>4. QED
    BY <1>4, <2>1, <2>3
<1>7. ASSUME NEW s \in Screens, screen[s] # Closed
      PROVE  screen[s].id \in Ids /\ screen[s].row \in Row
  BY <1>7 DEF TypeOK, View
<1>8. ASSUME NEW s \in Screens, NEW amount \in Amounts, Update(s, amount)
      PROVE  Rows /\ Copies
  <2> DEFINE row == [screen[s].row EXCEPT !.amount = amount]
  <2>1. screen[s] # Closed
    BY <1>8 DEF Update
  <2>2. row.profile = profile
    BY <1>7, <2>1 DEF Row
  <2>3. UNCHANGED <<table, screen>> \/ (Commit(screen[s].id, row) /\ Close(s))
    BY <1>8 DEF Update, Reject
  <2> HIDE DEF row, Rows, Copies
  <2>4. QED
    BY <1>2, <1>3, <1>4, <1>5, <1>7, <2>1, <2>2, <2>3
<1>9. ASSUME NEW s \in Screens, Delete(s)
      PROVE  Rows /\ Copies
  <2>1. screen[s] # Closed
    BY <1>9 DEF Delete
  <2>2. UNCHANGED <<table, screen>> \/ (Commit(screen[s].id, Absent) /\ Close(s))
    BY <1>9 DEF Delete, Reject
  <2> HIDE DEF Rows, Copies
  <2>3. QED
    BY <1>2, <1>3, <1>4, <1>5, <1>7, <2>1, <2>2
<1>10. ASSUME NEW s \in Screens, NEW id \in Ids, Open(s, id)
       PROVE  Rows /\ Copies
  <2>1. UNCHANGED table
    BY <1>10 DEF Open
  <2>2. Copies
    BY <1>10 DEF Open, TypeOK
  <2>3. QED
    BY <1>3, <2>1, <2>2
<1>11. ASSUME NEW type \in Types, NEW amount \in Amounts, Add(type, amount)
       PROVE  Rows /\ Copies
  BY <1>6, <1>11 DEF Add
<1>12. ASSUME NEW s \in Screens, Duplicate(s)
       PROVE  Rows /\ Copies
  BY <1>6, <1>12 DEF Duplicate
<1>13. ASSUME NEW s \in Screens, Leave(s)
       PROVE  Rows /\ Copies
  BY <1>3, <1>5, <1>13 DEF Leave
<1> HIDE DEF Rows, Copies
<1>14. Rows /\ Copies
  BY <1>8, <1>9, <1>10, <1>11, <1>12, <1>13 DEF Next
<1>15. QED
  BY <1>1, <1>14 DEF Rows, Copies

\* What a screen does while no transaction is open.
LEMMA CsvScreen ==
  ASSUME CsvIInv, ScreenStep
  PROVE  CsvIInv'
<1>1. /\ ~ import.open /\ ~ import'.open /\ Next
      /\ UNCHANGED <<file, offer, import, notice, origin>>
  BY DEF ScreenStep
<1>2. /\ TypeOK /\ RowsWellFormed /\ CsvTypeOK /\ FilesOK /\ ProfileOK /\ OriginOK
      /\ Offerable(offer, table, minted)
  BY DEF CsvIInv, CsvTypeOK
<1>3. /\ TypeOK' /\ RowsWellFormed' /\ minted <= minted' /\ UNCHANGED profile
      /\ minted \in Int /\ minted' \in Int /\ Ids \subseteq Int
      /\ \A i \in Ids : i <= minted => i <= minted'
      /\ DurableMinted = minted /\ DurableMinted' = minted'
  <2>1. TypeOK' /\ RowsWellFormed' /\ minted <= minted' /\ UNCHANGED profile
    BY <1>1, <1>2, TypeStep, RowsStep, IdsGrow
  <2>2. minted \in Int /\ minted' \in Int /\ Ids \subseteq Int
    BY <1>2, <2>1 DEF TypeOK, Ids
  <2>3. \A i \in Ids : i <= minted => i <= minted'
    BY <2>1, <2>2 DEF Ids
  <2>4. QED
    BY <1>1, <2>1, <2>2, <2>3 DEF DurableMinted
<1>4. \A i \in Ids : i <= minted /\ table[i] = Absent => table'[i] = Absent
  BY <1>1, <1>2, AbsentStays
<1>5. CsvTypeOK'
  BY <1>1, <1>2, <1>3 DEF CsvTypeOK
<1>6. (\A line \in file : line.id \in Int) /\ (\A line \in offer : line.id \in Ids)
  BY <1>2, <1>3 DEF CsvTypeOK, Line
<1>7. FilesOK'
  BY <1>1, <1>2, <1>3, <1>6 DEF FilesOK
<1>8. Offerable(offer, table, minted)'
  <2>1. ASSUME NEW line \in offer
        PROVE  line.amount \in 1 .. MaxAmount /\ line.id <= minted' /\ table'[line.id] = Absent
    <3>1. /\ line.id \in Ids /\ line.id <= minted /\ table[line.id] = Absent
          /\ line.amount \in 1 .. MaxAmount
      BY <1>2, <1>6 DEF Offerable
    <3>2. line.id <= minted'
      BY <1>3, <3>1
    <3>3. QED
      BY <1>4, <3>1, <3>2
  <2>2. QED
    BY <1>1, <2>1 DEF Offerable
<1>9. ProfileOK'
  <2>1. /\ \A i \in Ids : table'[i] # Absent => table'[i].profile = profile'
        /\ \A s \in Screens : screen'[s] # Closed => screen'[s].row.profile = profile'
    BY <1>1, <1>2, ProfileStep DEF ProfileOK
  <2>2. \A s \in Screens : screen'[s] # Closed => screen'[s].id <= minted'
    BY <1>3 DEF RowsWellFormed
  <2>3. QED
    BY <1>3, <2>1, <2>2 DEF ProfileOK
<1>10. OriginOK'
  <2>1. \A i \in Ids : i > minted' => origin[i] = i
    BY <1>2, <1>3 DEF OriginOK
  <2>2. ASSUME NEW i \in Ids, table'[i] # Absent, origin[i] # i
        PROVE  origin[i] <= minted' /\ table'[origin[i]] = Absent
    <3>1. i <= minted
      BY <1>2, <1>3, <2>2 DEF OriginOK
    <3>2. table[i] # Absent
      BY <1>4, <2>2, <3>1
    <3>3. origin[i] \in Ids /\ origin[i] <= minted /\ table[origin[i]] = Absent
      BY <1>2, <1>3, <2>2, <3>2 DEF OriginOK, CsvTypeOK
    <3>4. origin[i] <= minted'
      BY <1>3, <3>3
    <3>5. QED
      BY <1>4, <3>3, <3>4
  <2>3. QED
    BY <1>1, <1>3, <2>1, <2>2 DEF OriginOK
<1>11. ImportOK'
  BY <1>1 DEF ImportOK
<1>12. QED
  BY <1>3, <1>5, <1>7, <1>8, <1>9, <1>10, <1>11 DEF CsvIInv

\* What the tools do to the file and to the offer.
LEMMA CsvTools ==
  ASSUME CsvIInv, UNCHANGED <<vars, import, notice, origin>>,
         file' \subseteq Line, offer' \subseteq Line,
         IsFiniteSet(file'), IsFiniteSet(offer'),
         \A line \in file' : line.id <= DurableMinted /\ line.amount <= MaxAmount,
         Offerable(offer', table, minted), import.open => offer' = {}
  PROVE  CsvIInv'
<1>1. UNCHANGED <<table, minted, profile, screen, last>>
  BY DEF vars
<1>2. UNCHANGED DurableMinted
  BY <1>1 DEF DurableMinted
<1>3. CsvTypeOK' /\ RowsWellFormed'
  BY <1>1 DEF CsvIInv, CsvTypeOK, TypeOK, RowsWellFormed
<1>4. FilesOK' /\ Offerable(offer, table, minted)'
  BY <1>1, <1>2 DEF CsvIInv, FilesOK
<1>5. ProfileOK' /\ OriginOK'
  BY <1>1, <1>2 DEF CsvIInv, ProfileOK, OriginOK
<1>6. ImportOK'
  <2>1. \A i : LineOf(i)' = LineOf(i)
    BY <1>1 DEF LineOf
  <2>2. QED
    BY <1>1, <2>1 DEF CsvIInv, ImportOK
<1>7. QED
  BY <1>3, <1>4, <1>5, <1>6 DEF CsvIInv

\* The export, the user's edits, the preview and its dismissal.
LEMMA CsvToolSteps ==
  ASSUME CsvIInv,
         \/ ExportCsv \/ PreviewCsv \/ DeclineImport
         \/ \E line \in file, amount \in Amounts : EditFile(line, amount)
  PROVE  CsvIInv'
<1>1. /\ TypeOK /\ RowsWellFormed /\ CsvTypeOK /\ FilesOK /\ ProfileOK
      /\ Offerable(offer, table, minted)
  BY DEF CsvIInv, CsvTypeOK
<1>2. UNCHANGED <<vars, import, notice, origin>>
  BY DEF ExportCsv, PreviewCsv, DeclineImport, EditFile
<1>3. /\ file \subseteq Line /\ offer \subseteq Line /\ IsFiniteSet(file) /\ IsFiniteSet(offer)
      /\ \A line \in file : line.id <= DurableMinted /\ line.amount <= MaxAmount
      /\ import.open => offer = {}
  BY DEF CsvIInv, CsvTypeOK, FilesOK, ImportOK
<1>4. CASE ExportCsv
  <2> DEFINE stored == {j \in Ids : Found(j, profile)}
             line(i) == [id |-> i, type |-> table[i].type, amount |-> table[i].amount]
  <2>1. ~ import.open /\ offer' = offer /\ file' = {line(i) : i \in stored}
    BY <1>4 DEF ExportCsv, ToolsFree
  <2>2. \A i \in stored : /\ line(i) \in Line /\ i <= minted
                          /\ line(i).id = i /\ line(i).amount <= MaxAmount
    BY <1>1 DEF Found, RowsWellFormed, TypeOK, Row, Line
  <2>3. IsFiniteSet(file')
    <3>1. IsFiniteSet(Ids)
      BY FS_Interval, LedgerAssumption DEF Ids
    <3>2. IsFiniteSet(stored)
      BY <3>1, FS_Subset, stored \subseteq Ids
    <3> DEFINE f == [i \in stored |-> line(i)]
    <3>3. f \in Surjection(stored, file')
      BY <2>1 DEF Surjection
    <3>4. QED
      BY <3>2, <3>3, FS_Surjection
  <2>4. file' \subseteq Line
    BY <2>1, <2>2
  <2>5. \A l \in file' : l.id <= DurableMinted /\ l.amount <= MaxAmount
    BY <2>1, <2>2 DEF DurableMinted
  <2>6. QED
    BY <1>1, <1>2, <1>3, <2>1, <2>3, <2>4, <2>5, CsvTools
<1>5. CASE PreviewCsv
  <2>1. /\ ~ import.open /\ UNCHANGED file
        /\ offer' = {line \in file : ~ Found(line.id, profile) /\ line.amount > 0}
    BY <1>5 DEF PreviewCsv, ToolsFree
  <2>2. offer' \subseteq file /\ IsFiniteSet(offer')
    BY <1>3, <2>1, FS_Subset
  <2>3. ASSUME NEW line \in offer'
        PROVE  line.amount \in 1 .. MaxAmount /\ line.id <= minted /\ table[line.id] = Absent
    <3>1. /\ line.id \in Ids /\ line.id <= minted
          /\ line.amount \in Int /\ line.amount <= MaxAmount
      BY <1>3, <2>1, <2>2 DEF Line, DurableMinted
    <3>2. line.amount > 0 /\ ~ Found(line.id, profile)
      BY <2>1
    <3>3. line.amount \in 1 .. MaxAmount
      BY <3>1, <3>2, LedgerAssumption
    <3>4. table[line.id] = Absent
      BY <1>1, <3>1, <3>2 DEF Found, ProfileOK
    <3>5. QED
      BY <3>1, <3>3, <3>4
  <2>4. Offerable(offer', table, minted)
    BY <2>3 DEF Offerable
  <2>5. QED
    BY <1>2, <1>3, <2>1, <2>2, <2>4, CsvTools
<1>6. CASE DeclineImport
  <2>1. offer' = {} /\ UNCHANGED file
    BY <1>6 DEF DeclineImport
  <2>2. Offerable(offer', table, minted) /\ IsFiniteSet(offer')
    BY <2>1, FS_EmptySet DEF Offerable
  <2>3. QED
    BY <1>2, <1>3, <2>1, <2>2, CsvTools
<1>7. CASE \E line \in file, amount \in Amounts : EditFile(line, amount)
  <2>1. PICK line \in file, amount \in Amounts : EditFile(line, amount)
    BY <1>7
  <2> DEFINE new == [line EXCEPT !.amount = amount]
  <2>2. file' = (file \ {line}) \cup {new} /\ UNCHANGED offer
    BY <2>1 DEF EditFile
  <2>3. amount \in Int /\ amount <= MaxAmount
    BY LedgerAssumption
  <2>4. new \in Line /\ new.id = line.id /\ new.amount = amount
    BY <1>3, <2>3 DEF Line
  <2> HIDE DEF new
  <2>5. IsFiniteSet(file \ {line}) /\ IsFiniteSet(file')
    BY <1>3, <2>2, FS_RemoveElement, FS_AddElement
  <2>6. \A l \in file' : l \in Line /\ l.id <= DurableMinted /\ l.amount <= MaxAmount
    BY <1>3, <2>2, <2>3, <2>4
  <2>7. QED
    BY <1>1, <1>2, <1>3, <2>2, <2>5, <2>6, CsvTools
<1>8. QED
  BY <1>4, <1>5, <1>6, <1>7

\* importCsv begins: nothing is created yet.
LEMMA CsvBegin ==
  ASSUME CsvIInv, BeginImport
  PROVE  CsvIInv'
<1>1. /\ ~ import.open /\ offer' = {} /\ notice' = "none"
      /\ minted + Cardinality(offer) <= N
      /\ import' = [open |-> TRUE, lines |-> offer, left |-> offer,
                    table |-> table, minted |-> minted]
      /\ UNCHANGED <<table, minted, profile, screen, last, file, origin>>
  BY DEF BeginImport, vars
<1>2. /\ import'.open /\ import'.lines = offer /\ import'.left = offer
      /\ import'.table = table /\ import'.minted = minted
  BY <1>1
<1>3. /\ TypeOK /\ RowsWellFormed /\ CsvTypeOK /\ FilesOK /\ ProfileOK /\ OriginOK
      /\ Offerable(offer, table, minted) /\ minted \in Int
  BY DEF CsvIInv, CsvTypeOK, TypeOK
<1>4. TypeOK' /\ RowsWellFormed'
  BY <1>1, <1>3 DEF TypeOK, RowsWellFormed
<1>5. CsvTypeOK'
  <2>1. import' \in Import
    BY <1>1, <1>3 DEF Import, CsvTypeOK, TypeOK
  <2>2. QED
    BY <1>1, <1>3, <1>4, <2>1 DEF CsvTypeOK
<1>6. DurableMinted = minted /\ DurableMinted' = minted
  BY <1>1, <1>2 DEF DurableMinted
<1>7. FilesOK'
  BY <1>1, <1>2, <1>3, <1>6, FS_EmptySet DEF FilesOK
<1>8. ProfileOK' /\ OriginOK'
  BY <1>1, <1>3, <1>6 DEF ProfileOK, OriginOK
<1>9. Offerable(offer, table, minted)'
  BY <1>1 DEF Offerable
<1>10. ImportOK'
  <2>1. table \in Table
    BY <1>3, WellFormedTable
  <2>2. \A i \in Ids : table[i] # Absent => i <= minted /\ table[i].profile = profile
    BY <1>3 DEF RowsWellFormed, ProfileOK
  <2>3. \A i \in Ids : ~ (i > minted /\ i <= minted)
    BY <1>3 DEF Ids
  <2>4. import'.lines \ import'.left = {}
    BY <1>2
  <2>5. QED
    BY <1>1, <1>2, <1>3, <2>1, <2>2, <2>3, <2>4 DEF ImportOK
<1>11. QED
  BY <1>4, <1>5, <1>7, <1>8, <1>9, <1>10 DEF CsvIInv

\* What is known while a transaction is open.
LEMMA ImportFacts ==
  ASSUME CsvIInv, import.open
  PROVE  /\ import \in Import /\ DurableMinted = import.minted
         /\ import.minted \in 0 .. N /\ minted \in 0 .. N /\ import.minted <= minted
         /\ import.left \subseteq import.lines /\ import.lines \subseteq Line
         /\ import.table \in [Ids -> Row \cup {Absent}] /\ import.table \in Table
         /\ offer = {}
<1>1. import \in Import
  BY ImportParts DEF CsvIInv
<1>2. minted \in 0 .. N
  BY DEF CsvIInv, CsvTypeOK, TypeOK
<1>3. /\ import.minted \in 0 .. N /\ import.lines \subseteq Line
      /\ import.table \in [Ids -> Row \cup {Absent}]
  BY <1>1 DEF Import
<1>4. /\ import.minted <= minted /\ import.left \subseteq import.lines
      /\ import.table \in Table /\ offer = {}
  BY DEF CsvIInv, ImportOK
<1>5. QED
  BY <1>1, <1>2, <1>3, <1>4 DEF DurableMinted

\* A line is created as a row under the next id, which nothing has used.
LEMMA CsvCreate ==
  ASSUME CsvIInv, import.open, NEW line \in NextLines, NEW row,
         row = [type |-> line.type, amount |-> line.amount, profile |-> profile],
         table' = [table EXCEPT ![minted + 1] = row],
         minted' = minted + 1,
         origin' = [origin EXCEPT ![minted + 1] = line.id],
         import' = [import EXCEPT !.left = @ \ {line}],
         last' = NoRequest,
         UNCHANGED <<profile, screen, file, offer, notice>>
  PROVE  CsvIInv'
<1> DEFINE id == minted + 1
<1>1. /\ import \in Import /\ DurableMinted = import.minted
      /\ import.minted \in 0 .. N /\ minted \in 0 .. N /\ import.minted <= minted
      /\ import.left \subseteq import.lines /\ import.lines \subseteq Line
      /\ import.table \in [Ids -> Row \cup {Absent}] /\ import.table \in Table
      /\ offer = {}
  BY ImportFacts
<1>2. /\ TypeOK /\ RowsWellFormed /\ CsvTypeOK /\ FilesOK /\ ProfileOK /\ OriginOK
      /\ minted + Cardinality(import.left) <= N
      /\ Offerable(import.lines, import.table, import.minted)
  BY DEF CsvIInv, CsvTypeOK, ImportOK
<1>3. line \in import.left /\ line \in import.lines /\ line \in Line
  BY <1>1 DEF NextLines
<1>4. /\ IsFiniteSet(import.left \ {line})
      /\ Cardinality(import.left \ {line}) = Cardinality(import.left) - 1
      /\ Cardinality(import.left) \in Nat \ {0}
  <2>1. IsFiniteSet(import.left)
    BY <1>2 DEF FilesOK
  <2>2. Cardinality(import.left) \in Nat /\ Cardinality(import.left) # 0
    BY <1>3, <2>1, FS_CardinalityType, FS_EmptySet
  <2>3. QED
    BY <1>3, <2>1, <2>2, FS_RemoveElement
<1>5. id \in Ids /\ id \in Nat /\ minted < id /\ minted' = id /\ minted' \in 0 .. N
  BY <1>1, <1>2, <1>4, LedgerAssumption DEF Ids
<1>6. row \in Row /\ row.amount \in 1 .. MaxAmount /\ row.profile = profile /\ row # Absent
  BY <1>2, <1>3 DEF Row, Line, TypeOK, Offerable, Absent, Types
<1>7. /\ import' \in Import /\ import'.open /\ import'.left = import.left \ {line}
      /\ import'.lines = import.lines /\ import'.table = import.table
      /\ import'.minted = import.minted
  BY <1>1 DEF Import
<1>8. /\ DurableMinted' = import.minted
      /\ \A i \in Ids : i <= import.minted \/ i <= minted => i # id
  BY <1>1, <1>5, <1>7 DEF DurableMinted, Ids
<1>9. /\ table'[id] = row /\ \A i \in Ids : i # id => table'[i] = table[i]
      /\ origin'[id] = line.id /\ \A i \in Ids : i # id => origin'[i] = origin[i]
  BY <1>2, <1>5 DEF TypeOK, CsvTypeOK
<1>10. line.id \in Ids /\ line.id <= import.minted /\ table[line.id] = Absent
  <2>1. line.id \in Ids /\ line.id <= import.minted /\ import.table[line.id] = Absent
    BY <1>2, <1>3 DEF Offerable, Line
  <2>2. table[line.id] = import.table[line.id]
    BY <2>1 DEF CsvIInv, ImportOK
  <2>3. QED
    BY <2>1, <2>2
<1> HIDE DEF id
<1>11. TypeOK'
  BY <1>2, <1>5, <1>6 DEF TypeOK, id
<1>12. RowsWellFormed'
  <2>1. \A i \in Ids : table'[i] # Absent => table'[i].amount \in 1 .. MaxAmount /\ i <= minted'
    BY <1>1, <1>2, <1>5, <1>6, <1>9 DEF RowsWellFormed, Ids
  <2>2. \A s \in Screens : screen[s] # Closed =>
          screen[s].row.amount \in 1 .. MaxAmount /\ screen[s].id <= minted'
    BY <1>1, <1>2, <1>5 DEF RowsWellFormed, TypeOK, View, Ids
  <2>3. QED
    BY <2>1, <2>2 DEF RowsWellFormed
<1>13. CsvTypeOK'
  BY <1>2, <1>7, <1>10, <1>11 DEF CsvTypeOK
<1>14. FilesOK'
  BY <1>1, <1>2, <1>4, <1>7, <1>8 DEF FilesOK
<1>15. ProfileOK'
  BY <1>1, <1>2, <1>6, <1>8, <1>9 DEF ProfileOK
<1>16. OriginOK'
  <2>1. ASSUME NEW i \in Ids, i > minted' PROVE origin'[i] = i
    <3>1. i # id /\ i > minted
      BY <1>1, <1>5, <2>1 DEF Ids
    <3>2. QED
      BY <1>2, <1>9, <3>1 DEF OriginOK
  <2>2. ASSUME NEW i \in Ids, table'[i] # Absent, origin'[i] # i
        PROVE  origin'[i] <= import.minted /\ table'[origin'[i]] = Absent
    <3>1. CASE i = id
      BY <1>8, <1>9, <1>10, <3>1
    <3>2. CASE i # id
      <4>1. table[i] # Absent /\ origin[i] # i /\ origin'[i] = origin[i]
        BY <1>9, <2>2, <3>2
      <4>2. origin[i] \in Ids /\ origin[i] <= import.minted /\ table[origin[i]] = Absent
        BY <1>1, <1>2, <4>1 DEF OriginOK, CsvTypeOK
      <4>3. QED
        BY <1>8, <1>9, <4>1, <4>2
    <3>3. QED
      BY <3>1, <3>2
  <2>3. QED
    BY <1>8, <2>1, <2>2 DEF OriginOK
<1>17. Offerable(offer, table, minted)'
  BY <1>1 DEF Offerable
<1>18. ImportOK'
  <2>1. minted' + Cardinality(import.left \ {line}) <= N
    BY <1>1, <1>2, <1>4, <1>5, LedgerAssumption DEF id
  <2>2. import.minted <= minted' /\ import.left \ {line} \subseteq import.lines
    BY <1>1, <1>5
  <2>3. \A i \in Ids : i <= import.minted => table'[i] = import.table[i]
    BY <1>8, <1>9 DEF CsvIInv, ImportOK
  <2> DEFINE new(i) == [id |-> origin'[i], type |-> table'[i].type, amount |-> table'[i].amount]
             old(i) == LineOf(i)
             done   == import.lines \ import.left
             more   == import.lines \ (import.left \ {line})
  <2>4. new(id) = line
    <3>1. line = [id |-> line.id, type |-> line.type, amount |-> line.amount]
      BY <1>3 DEF Line
    <3>2. row.type = line.type /\ row.amount = line.amount
      OBVIOUS
    <3>3. QED
      BY <1>9, <3>1, <3>2
  <2>5. \A i \in Ids : i # id => new(i) = old(i)
    BY <1>9 DEF LineOf
  <2>6. \A i \in Ids : i > import.minted /\ i <= minted' =>
          i = id \/ (i # id /\ i > import.minted /\ i <= minted)
    BY <1>1, <1>5 DEF Ids, id
  <2>7. /\ \A i \in Ids : i > import.minted /\ i <= minted =>
             table[i] # Absent /\ old(i) \in done
        /\ \A i, j \in Ids : i > import.minted /\ i <= minted /\ j > import.minted
             /\ j <= minted /\ old(i) = old(j) => i = j
        /\ \A l \in done : \E i \in Ids : i > import.minted /\ i <= minted /\ old(i) = l
    BY DEF CsvIInv, ImportOK
  <2> HIDE DEF new, old
  <2>8. ASSUME NEW i \in Ids, i > import.minted, i <= minted'
        PROVE  table'[i] # Absent /\ new(i) \in more /\ (i # id => new(i) # line)
    <3>1. CASE i = id
      BY <1>3, <1>6, <1>9, <2>4, <3>1
    <3>2. CASE i # id
      <4>1. table[i] # Absent /\ old(i) \in done
        BY <2>6, <2>7, <2>8, <3>2
      <4>2. new(i) = old(i) /\ table'[i] = table[i]
        BY <1>9, <2>5, <3>2
      <4>3. QED
        BY <1>3, <4>1, <4>2
    <3>3. QED
      BY <3>1, <3>2
  <2>9. ASSUME NEW i \in Ids, i > import.minted, i <= minted',
               NEW j \in Ids, j > import.minted, j <= minted', new(i) = new(j)
        PROVE  i = j
    <3>1. CASE i = id \/ j = id
      BY <2>4, <2>8, <2>9, <3>1
    <3>2. CASE i # id /\ j # id
      <4>1. old(i) = old(j)
        BY <2>5, <2>9, <3>2
      <4>2. i <= minted /\ j <= minted
        BY <2>6, <2>9, <3>2
      <4>3. QED
        BY <2>7, <2>9, <4>1, <4>2
    <3>3. QED
      BY <3>1, <3>2
  <2>10. ASSUME NEW l \in more
         PROVE  \E i \in Ids : i > import.minted /\ i <= minted' /\ new(i) = l
    <3>1. CASE l = line
      <4>1. id > import.minted /\ id <= minted'
        BY <1>1, <1>5
      <4>2. QED
        BY <1>5, <2>4, <3>1, <4>1
    <3>2. CASE l # line
      <4>1. PICK i \in Ids : i > import.minted /\ i <= minted /\ old(i) = l
        BY <2>7, <2>10, <3>2
      <4>2. i # id /\ i <= minted'
        BY <1>1, <1>5, <1>8, <4>1 DEF Ids
      <4>3. QED
        BY <2>5, <4>1, <4>2
    <3>3. QED
      BY <3>1, <3>2
  <2>11. /\ \A i \in Ids : import.table[i] # Absent =>
              i <= import.minted /\ import.table[i].profile = profile
    BY DEF CsvIInv, ImportOK
  <2>12. QED
    BY <1>1, <1>2, <1>7, <2>1, <2>2, <2>3, <2>8, <2>9, <2>10, <2>11 DEF ImportOK, LineOf, new
<1>19. QED
  BY <1>12, <1>13, <1>14, <1>15, <1>16, <1>17, <1>18 DEF CsvIInv

\* The transaction is undone: what is left is what it found, and nobody has seen
\* the ids it took.
LEMMA CsvUndo ==
  ASSUME CsvIInv, import.open, Rollback, UNCHANGED <<profile, file>>, offer' = {},
         last' \in Request \cup {NoRequest},
         notice' \in {"none", "imported", "refused", "failed"},
         screen' \in [Screens -> View \cup {Closed}],
         \A s \in Screens : screen'[s] # Closed => screen'[s] = screen[s]
  PROVE  CsvIInv'
<1>1. /\ import \in Import /\ DurableMinted = import.minted
      /\ import.minted \in 0 .. N
      /\ import.table \in [Ids -> Row \cup {Absent}] /\ import.table \in Table
  BY ImportFacts
<1>2. /\ TypeOK /\ RowsWellFormed /\ CsvTypeOK /\ FilesOK /\ ProfileOK /\ OriginOK
      /\ origin \in [Ids -> Ids]
  BY DEF CsvIInv, CsvTypeOK
<1>3. /\ \A i \in Ids : import.table[i] # Absent =>
           i <= import.minted /\ import.table[i].profile = profile
      /\ \A i \in Ids : i <= import.minted => table[i] = import.table[i]
  BY DEF CsvIInv, ImportOK
<1>4. /\ table' = import.table /\ minted' = import.minted /\ import' = NoImport
      /\ origin' = [i \in Ids |-> IF i <= import.minted THEN origin[i] ELSE i]
  BY DEF Rollback
<1>5. ~ import'.open /\ import'.left = {} /\ DurableMinted' = import.minted
  BY <1>4 DEF NoImport, DurableMinted
<1>6. TypeOK'
  BY <1>1, <1>2, <1>4 DEF TypeOK
<1>7. RowsWellFormed'
  <2>1. \A i \in Ids : table'[i] # Absent => table'[i].amount \in 1 .. MaxAmount /\ i <= minted'
    BY <1>1, <1>3, <1>4 DEF Table
  <2>2. \A s \in Screens : screen'[s] # Closed =>
          screen'[s].row.amount \in 1 .. MaxAmount /\ screen'[s].id <= minted'
    BY <1>1, <1>2, <1>4 DEF RowsWellFormed, ProfileOK
  <2>3. QED
    BY <2>1, <2>2 DEF RowsWellFormed
<1>8. CsvTypeOK'
  <2>1. origin' \in [Ids -> Ids]
    BY <1>2, <1>4
  <2>2. QED
    BY <1>2, <1>4, <1>6, <2>1 DEF CsvTypeOK
<1>9. FilesOK'
  BY <1>1, <1>2, <1>5, FS_EmptySet DEF FilesOK
<1>10. ProfileOK'
  BY <1>1, <1>2, <1>3, <1>4, <1>5 DEF ProfileOK
<1>11. OriginOK'
  <2>1. ASSUME NEW i \in Ids, i > minted' PROVE origin'[i] = i
    BY <1>1, <1>4, <2>1 DEF Ids
  <2>2. ASSUME NEW i \in Ids, table'[i] # Absent, origin'[i] # i
        PROVE  origin'[i] <= import.minted /\ table'[origin'[i]] = Absent
    <3>1. i <= import.minted /\ table[i] # Absent /\ origin'[i] = origin[i]
      BY <1>3, <1>4, <2>2
    <3>2. origin[i] \in Ids /\ origin[i] <= import.minted /\ table[origin[i]] = Absent
      BY <1>1, <1>2, <2>2, <3>1 DEF OriginOK
    <3>3. QED
      BY <1>3, <1>4, <3>1, <3>2
  <2>3. QED
    BY <1>5, <2>1, <2>2 DEF OriginOK
<1>12. ImportOK' /\ Offerable(offer, table, minted)'
  BY <1>5 DEF ImportOK, Offerable
<1>13. QED
  BY <1>7, <1>8, <1>9, <1>10, <1>11, <1>12 DEF CsvIInv

\* The transaction commits: its ids may be seen from now on.
LEMMA CsvCommit ==
  ASSUME CsvIInv, CommitImport
  PROVE  CsvIInv'
<1>1. /\ import.minted \in 0 .. N /\ minted \in 0 .. N /\ import.minted <= minted
      /\ DurableMinted = import.minted /\ offer = {}
  BY ImportFacts DEF CommitImport
<1>2. /\ import' = NoImport /\ notice' = "imported"
      /\ UNCHANGED <<table, minted, profile, screen, last, file, offer, origin>>
  BY DEF CommitImport, vars
<1>3. ~ import'.open /\ import'.left = {} /\ DurableMinted' = minted
  BY <1>2 DEF NoImport, DurableMinted
<1>4. TypeOK /\ RowsWellFormed /\ CsvTypeOK /\ FilesOK /\ ProfileOK /\ OriginOK
  BY DEF CsvIInv, CsvTypeOK
<1>5. \A i \in Ids : i <= import.minted => i <= minted
  BY <1>1 DEF Ids
<1>6. CsvTypeOK' /\ RowsWellFormed'
  BY <1>2, <1>4 DEF CsvTypeOK, TypeOK, RowsWellFormed
<1>7. FilesOK'
  BY <1>1, <1>2, <1>3, <1>4, <1>5, FS_EmptySet DEF FilesOK, CsvTypeOK, Line
<1>8. ProfileOK'
  BY <1>1, <1>2, <1>3, <1>4, <1>5 DEF ProfileOK, RowsWellFormed
<1>9. OriginOK'
  BY <1>1, <1>2, <1>3, <1>4, <1>5 DEF OriginOK, CsvTypeOK
<1>10. ImportOK' /\ Offerable(offer, table, minted)'
  BY <1>1, <1>2, <1>3 DEF ImportOK, Offerable
<1>11. QED
  BY <1>6, <1>7, <1>8, <1>9, <1>10 DEF CsvIInv

\* A crash outside a transaction closes what was shown.
LEMMA CsvCrash ==
  ASSUME CsvIInv, ~ import.open, Crash
  PROVE  CsvIInv'
<1>1. /\ UNCHANGED <<table, minted, origin, import, profile, file>>
      /\ screen' = [s \in Screens |-> Closed]
      /\ offer' = {} /\ notice' = "none" /\ last' = NoRequest
  BY DEF Crash
<1>2. /\ TypeOK /\ RowsWellFormed /\ CsvTypeOK /\ FilesOK /\ ProfileOK /\ OriginOK
      /\ UNCHANGED DurableMinted
  BY <1>1 DEF CsvIInv, CsvTypeOK, DurableMinted
<1>3. TypeOK' /\ RowsWellFormed'
  BY <1>1, <1>2 DEF TypeOK, RowsWellFormed
<1>4. CsvTypeOK' /\ FilesOK' /\ ProfileOK' /\ OriginOK'
  <2>1. CsvTypeOK'
    BY <1>1, <1>2, <1>3 DEF CsvTypeOK
  <2>2. FilesOK' /\ ProfileOK' /\ OriginOK'
    BY <1>1, <1>2, FS_EmptySet DEF FilesOK, ProfileOK, OriginOK
  <2>3. QED
    BY <2>1, <2>2
<1>5. ImportOK' /\ Offerable(offer, table, minted)'
  BY <1>1 DEF ImportOK, Offerable
<1>6. QED
  BY <1>3, <1>4, <1>5 DEF CsvIInv

\* The row a line is created as.
CreatedRow(line) == [type |-> line.type, amount |-> line.amount, profile |-> profile]

\* The create of the line commits within the open transaction.
Created(line) ==
  /\ import.open /\ line \in NextLines
  /\ ProposedBalanceHolds(table, profile, line.type, line.amount)
  /\ table' = [table EXCEPT ![minted + 1] = CreatedRow(line)]
  /\ minted' = minted + 1
  /\ origin' = [origin EXCEPT ![minted + 1] = line.id]
  /\ import' = [import EXCEPT !.left = @ \ {line}]
  /\ last' = NoRequest
  /\ UNCHANGED <<profile, screen, file, offer, notice>>

\* The open transaction is undone.
Undone ==
  /\ import.open /\ Rollback
  /\ UNCHANGED <<profile, file>> /\ offer' = {}
  /\ last' \in Request \cup {NoRequest}
  /\ notice' \in {"none", "imported", "refused", "failed"}
  /\ screen' \in [Screens -> View \cup {Closed}]
  /\ \A s \in Screens : screen'[s] # Closed => screen'[s] = screen[s]

\* What a step of the app with its import comes to.
CsvCases ==
  \/ ScreenStep \/ BeginImport \/ CommitImport \/ Undone
  \/ ExportCsv \/ PreviewCsv \/ DeclineImport
  \/ \E line \in file, amount \in Amounts : EditFile(line, amount)
  \/ \E line \in NextLines : Created(line)
  \/ ~ import.open /\ Crash
  \/ UNCHANGED csvVars

\* An attempt to create a line creates it or undoes the transaction; so does any
\* failure, and a crash.
LEMMA CsvShape ==
  ASSUME CsvIInv, [CsvNext]_csvVars
  PROVE  CsvCases
<1>1. TypeOK /\ (import.open => offer = {})
  BY DEF CsvIInv, CsvTypeOK, ImportOK
<1>2. ASSUME NEW line \in NextLines, ImportLine(line)
      PROVE  Created(line) \/ Undone
  BY <1>1, <1>2 DEF ImportLine, Created, CreatedRow, Undone, TypeOK
<1>3. FailImport => Undone
  BY <1>1 DEF FailImport, Undone, TypeOK
<1>4. import.open /\ Crash => Undone
  BY <1>1 DEF Crash, Undone
<1>5. QED
  BY <1>2, <1>3, <1>4 DEF CsvNext, CsvCases

\* Each step keeps the invariant.
LEMMA CsvStep ==
  ASSUME CsvIInv, [CsvNext]_csvVars
  PROVE  CsvIInv'
<1>1. ASSUME NEW line \in NextLines, Created(line)
      PROVE  CsvIInv'
  <2>1. CreatedRow(line) = [type |-> line.type, amount |-> line.amount, profile |-> profile]
    BY DEF CreatedRow
  <2>2. QED
    BY <1>1, <2>1, CsvCreate DEF Created
<1>2. Undone => CsvIInv'
  BY CsvUndo DEF Undone
<1>3. ASSUME UNCHANGED csvVars PROVE CsvIInv'
  <2>1. UNCHANGED <<vars, import, notice, origin, file, offer>>
    BY <1>3 DEF csvVars
  <2>2. /\ file \subseteq Line /\ offer \subseteq Line
        /\ IsFiniteSet(file) /\ IsFiniteSet(offer)
        /\ \A line \in file : line.id <= DurableMinted /\ line.amount <= MaxAmount
        /\ import.open => offer = {}
        /\ Offerable(offer, table, minted)
    BY DEF CsvIInv, CsvTypeOK, FilesOK, ImportOK
  <2>3. QED
    BY <2>1, <2>2, CsvTools
<1>4. QED
  BY <1>1, <1>2, <1>3, CsvShape, CsvScreen, CsvBegin, CsvCommit, CsvToolSteps, CsvCrash
     DEF CsvCases

\* The file, the preview and the transaction keep their types, and every line of
\* a file names an id that was handed out.
THEOREM CsvTypeCorrect == CsvSpec => []CsvTypeOK
<1>1. CsvInit => CsvIInv
  BY CsvInitInv
<1>2. CsvIInv /\ [CsvNext]_csvVars => CsvIInv'
  BY CsvStep
<1>3. CsvIInv => CsvTypeOK
  BY DEF CsvIInv
<1>4. QED
  BY <1>1, <1>2, <1>3, PTL DEF CsvSpec

\* No copy is stored beside the row its line was exported from: for any edit of the
\* file, and however often it is imported.  Copies of a row that is gone may be many.
THEOREM OriginalsHaveNoCopy == CsvSpec => []NoCopyBesideOriginal
<1>1. CsvInit => CsvIInv
  BY CsvInitInv
<1>2. CsvIInv /\ [CsvNext]_csvVars => CsvIInv'
  BY CsvStep
<1>3. CsvIInv => NoCopyBesideOriginal
  BY DEF CsvIInv, OriginOK, NoCopyBesideOriginal
<1>4. QED
  BY <1>1, <1>2, <1>3, PTL DEF CsvSpec

-----------------------------------------------------------------------------
(***************************************************************************)
(* CsvTransfer: the balance, and the books that change by whole operations. *)
(***************************************************************************)

\* What an open transaction would be undone to overdraws nobody.
UndoneSolvent == import.open => \A p \in Profiles : ~ Overdrawn(import.table, p)

\* A line is created only if the table it leaves overdraws nobody.
LEMMA CreatedKeepsBalance ==
  ASSUME FitsInWord, CsvIInv, BalanceNeverNegative, NEW line \in NextLines, Created(line)
  PROVE  BalanceNeverNegative'
<1> DEFINE id  == minted + 1
           row == CreatedRow(line)
<1>1. import.open /\ TypeOK /\ RowsWellFormed /\ minted \in 0 .. N /\ profile \in Profiles
  BY DEF Created, CsvIInv, CsvTypeOK, TypeOK
<1>2. line \in import.left /\ import.left \subseteq import.lines /\ import.lines \subseteq Line
  BY <1>1, ImportFacts DEF NextLines
<1>3. line \in Line /\ line.amount \in 1 .. MaxAmount
  BY <1>1, <1>2 DEF CsvIInv, ImportOK, Offerable
<1>4. row \in Row \cup {Absent} /\ row # Absent /\ row.amount = line.amount
      /\ row.type = line.type /\ row.profile = profile
  BY <1>1, <1>3 DEF CreatedRow, Row, Line, Absent, Types
<1>5. id \in Ids /\ table[id] = Absent
  <2>1. minted < N
    <3>1. CreatedRow(line) = [type |-> line.type, amount |-> line.amount, profile |-> profile]
      BY DEF CreatedRow
    <3>2. CsvIInv'
      BY <3>1, CsvCreate DEF Created
    <3>3. minted' \in 0 .. N
      BY <3>2 DEF CsvIInv, CsvTypeOK, TypeOK
    <3>4. QED
      BY <1>1, <3>3, LedgerAssumption DEF Created
  <2>2. QED
    BY <1>1, <2>1, LedgerAssumption DEF Ids, RowsWellFormed
<1>6. Excluding(table, id) = table
  BY <1>1, <1>5 DEF Excluding, TypeOK
<1> HIDE DEF id, row
<1>7. Replacement(id, row) /\ Allowed(id, row)
  BY <1>3, <1>4, <1>5, <1>6 DEF Replacement, Allowed, Created
<1>8. \A q \in Profiles : ~ Overdrawn([table EXCEPT ![id] = row], q)
  BY <1>1, <1>4, <1>5, <1>7, AllowedKeepsBalance
<1>9. QED
  BY <1>8 DEF Created, BalanceNeverNegative, id, row

\* Each step keeps the balance of the table and of what it may be undone to.
LEMMA CsvBalanceStep ==
  ASSUME FitsInWord, CsvIInv, BalanceNeverNegative, UndoneSolvent, [CsvNext]_csvVars
  PROVE  BalanceNeverNegative' /\ UndoneSolvent'
<1> USE DEF UndoneSolvent
<1>1. CASE ScreenStep
  <2>1. Next /\ UNCHANGED import
    BY <1>1 DEF ScreenStep
  <2>2. BalanceNeverNegative'
    BY <2>1, BalanceStep DEF CsvIInv, CsvTypeOK
  <2>3. ~ import'.open
    BY <1>1 DEF ScreenStep
  <2>4. QED
    BY <2>2, <2>3
<1>2. CASE BeginImport
  <2>1. UNCHANGED table /\ import'.table = table
    BY <1>2 DEF BeginImport, vars
  <2>2. QED
    BY <2>1 DEF BalanceNeverNegative
<1>3. CASE CommitImport
  <2>1. UNCHANGED table /\ ~ import'.open
    BY <1>3 DEF CommitImport, vars, NoImport
  <2>2. QED
    BY <2>1 DEF BalanceNeverNegative
<1>4. CASE Undone
  <2>1. import.open /\ table' = import.table /\ ~ import'.open
    BY <1>4 DEF Undone, Rollback, NoImport
  <2>2. QED
    BY <2>1 DEF BalanceNeverNegative
<1>5. ASSUME NEW line \in NextLines, Created(line)
      PROVE  BalanceNeverNegative' /\ UndoneSolvent'
  <2>1. import.open /\ import \in Import /\ import' = [import EXCEPT !.left = @ \ {line}]
    BY <1>5, ImportParts DEF Created, CsvIInv
  <2>2. import'.table = import.table
    BY <2>1 DEF Import
  <2>3. QED
    BY <1>5, <2>1, <2>2, CreatedKeepsBalance
<1>6. ASSUME UNCHANGED <<table, import>>
      PROVE  BalanceNeverNegative' /\ UndoneSolvent'
  BY <1>6 DEF BalanceNeverNegative
<1>7. CASE \/ ExportCsv \/ PreviewCsv \/ DeclineImport \/ UNCHANGED csvVars
           \/ \E line \in file, amount \in Amounts : EditFile(line, amount)
  BY <1>6, <1>7 DEF ExportCsv, PreviewCsv, DeclineImport, EditFile, csvVars, vars
<1>8. CASE ~ import.open /\ Crash
  BY <1>6, <1>8 DEF Crash
<1>9. QED
  BY <1>1, <1>2, <1>3, <1>4, <1>5, <1>7, <1>8, CsvShape DEF CsvCases

\* What the import keeps of the ledger's and of its own invariants.
CsvSafe == CsvIInv /\ BalanceNeverNegative /\ UndoneSolvent

LEMMA CsvSafeHolds ==
  ASSUME FitsInWord
  PROVE  (CsvInit => CsvSafe) /\ (CsvSafe /\ [CsvNext]_csvVars => CsvSafe')
<1>1. CsvInit => CsvSafe
  BY CsvInitInv, InitInv DEF CsvInit, Inv, CsvSafe, UndoneSolvent, NoImport
<1>2. CsvSafe /\ [CsvNext]_csvVars => CsvSafe'
  BY CsvStep, CsvBalanceStep DEF CsvSafe
<1>3. QED
  BY <1>1, <1>2

\* While a transaction creates one row after another, and after it was committed,
\* refused or cut off, no profile has more expenses than income.
THEOREM CsvKeepsBalance ==
  ASSUME FitsInWord
  PROVE  CsvSpec => []BalanceNeverNegative
<1>1. CsvSafe => BalanceNeverNegative
  BY DEF CsvSafe
<1>2. QED
  BY <1>1, CsvSafeHolds, PTL DEF CsvSpec

\* An operation of a screen changes one row of the books.
LEMMA ScreenChangesOneRow ==
  ASSUME CsvIInv, ScreenStep
  PROVE  Promise!ChangeOneRow \/ Promise!ChangeOffer
<1>1. ~ import.open /\ Next /\ UNCHANGED <<import, offer>>
  BY DEF ScreenStep
<1>2. Durable = table /\ Durable' = table'
  BY <1>1 DEF Durable
<1>3. TypeOK /\ RowsWellFormed
  BY DEF CsvIInv, CsvTypeOK
<1>4. CASE UNCHANGED table
  BY <1>2, <1>4 DEF Promise!ChangeOffer
<1>5. ASSUME NEW id \in Ids, NEW row \in Row \cup {Absent}, Granted(id, row)
      PROVE  Promise!ChangeOneRow
  <2>1. \A q \in Ids \ {id} : table'[q] = table[q]
    BY <1>3, <1>5 DEF Granted, TypeOK
  <2>2. \A q \in Ids \ {id} : Durable'[q] = Durable[q]
    BY <1>2, <2>1
  <2>3. QED
    BY <1>1, <2>2 DEF Promise!ChangeOneRow
<1>6. \/ UNCHANGED table
      \/ \E id \in Ids, row \in Row \cup {Absent} : Granted(id, row)
  BY <1>1, <1>3, StepShape DEF Refused
<1>7. QED
  BY <1>4, <1>5, <1>6

\* A commit adds one row to the books for every line that was on offer.
LEMMA CommitTakesOffer ==
  ASSUME CsvIInv, CommitImport
  PROVE  Promise!TakeOffer
<1> DEFINE new   == {i \in Ids : i > import.minted /\ i <= minted}
           added == {i \in Ids : Durable'[i] # Durable[i]}
           line  == [i \in new |-> LineOf(i)]
<1>1. /\ import.open /\ import.left = {} /\ import' = NoImport /\ ~ import'.open
      /\ UNCHANGED table /\ offer' = {}
  <2>1. offer = {}
    BY ImportFacts DEF CommitImport
  <2>2. QED
    BY <2>1 DEF CommitImport, NoImport, vars
<1>2. Durable = import.table /\ Durable' = table
  BY <1>1 DEF Durable
<1>3. /\ \A i \in Ids : import.table[i] # Absent => i <= import.minted
      /\ \A i \in Ids : i <= import.minted => table[i] = import.table[i]
      /\ \A i \in new : table[i] # Absent /\ LineOf(i) \in import.lines
      /\ \A i, j \in new : LineOf(i) = LineOf(j) => i = j
      /\ \A l \in import.lines : \E i \in new : LineOf(i) = l
  BY <1>1 DEF CsvIInv, ImportOK
<1>4. /\ \A i \in Ids : table[i] # Absent => i <= minted
      /\ import.minted \in 0 .. N /\ minted \in 0 .. N
  BY <1>1, ImportFacts DEF CsvIInv, RowsWellFormed
<1>5. \A i \in Ids : i \notin new => table[i] = import.table[i]
  <2>1. ASSUME NEW i \in Ids, i > minted PROVE table[i] = import.table[i]
    BY <1>3, <1>4, <2>1 DEF Ids
  <2>2. \A i \in Ids : i \notin new => i <= import.minted \/ i > minted
    BY <1>4 DEF Ids
  <2>3. QED
    BY <1>3, <2>1, <2>2
<1>6. \A i \in new : import.table[i] = Absent /\ table[i] # Absent
  BY <1>3, <1>4 DEF Ids
<1>7. added = new
  BY <1>2, <1>5, <1>6
<1>8. line \in Promise!Bijection(new, import.lines)
  <2>1. line \in [new -> import.lines]
    BY <1>3
  <2>2. \A i, j \in new : line[i] = line[j] => i = j
    BY <1>3
  <2>3. \A l \in import.lines : \E i \in new : line[i] = l
    BY <1>3
  <2> HIDE DEF new, line
  <2>4. QED
    BY <2>1, <2>2, <2>3
    DEF Promise!Bijection, Promise!Injection, Promise!Surjection, Promise!IsInjective
<1>9. \A i \in new : Durable'[i].type = line[i].type /\ Durable'[i].amount = line[i].amount
  BY <1>2 DEF LineOf
<1>10. \A i \in new : Durable[i] = Absent
  BY <1>2, <1>6
<1>11. (IF import.open THEN import.lines ELSE offer) = import.lines
       /\ (IF import'.open THEN import'.lines ELSE offer') = {}
  BY <1>1
<1> HIDE DEF new, line
<1>12. QED
  BY <1>7, <1>8, <1>9, <1>10, <1>11 DEF Promise!TakeOffer

\* Every step keeps the books: it changes one durable row, takes the whole offer,
\* or changes nothing durable.
LEMMA CsvKeepsBooks ==
  ASSUME FitsInWord, CsvSafe, [CsvNext]_csvVars
  PROVE  [Promise!KeepBooks]_<<Durable, IF import.open THEN import.lines ELSE offer>>
<1>1. CsvIInv /\ CsvCases /\ CsvSafe'
  BY CsvSafeHolds, CsvShape DEF CsvSafe
<1>2. \A p \in Profiles : ~ Overdrawn(Durable', p)
  BY <1>1 DEF CsvSafe, BalanceNeverNegative, UndoneSolvent, Durable
<1>3. CASE ScreenStep
  BY <1>1, <1>2, <1>3, ScreenChangesOneRow DEF Promise!KeepBooks
<1>4. CASE CommitImport
  BY <1>1, <1>2, <1>4, CommitTakesOffer DEF Promise!KeepBooks
<1>5. ASSUME UNCHANGED Durable PROVE Promise!KeepBooks
  BY <1>2, <1>5 DEF Promise!KeepBooks, Promise!ChangeOffer
<1>6. ASSUME UNCHANGED <<table, import>> PROVE UNCHANGED Durable
  BY <1>6 DEF Durable
<1>7. CASE \/ ExportCsv \/ PreviewCsv \/ DeclineImport
           \/ \E line \in file, amount \in Amounts : EditFile(line, amount)
           \/ ~ import.open /\ Crash
  <2>1. UNCHANGED <<table, import>>
    BY <1>7 DEF ExportCsv, PreviewCsv, DeclineImport, EditFile, Crash, vars
  <2>2. QED
    BY <1>5, <1>6, <2>1
<1>8. CASE BeginImport
  <2>1. ~ import.open /\ import'.open /\ import'.table = table
    BY <1>8 DEF BeginImport
  <2>2. QED
    BY <1>5, <2>1 DEF Durable
<1>9. ASSUME NEW line \in NextLines, Created(line) PROVE Promise!KeepBooks
  <2>1. import.open /\ import \in Import /\ import' = [import EXCEPT !.left = @ \ {line}]
    BY <1>1, <1>9, ImportParts DEF Created, CsvIInv
  <2>2. import'.open /\ import'.table = import.table
    BY <2>1 DEF Import
  <2>3. QED
    BY <1>5, <2>1, <2>2 DEF Durable
<1>10. CASE Undone
  <2>1. import.open /\ table' = import.table /\ ~ import'.open
    BY <1>10 DEF Undone, Rollback, NoImport
  <2>2. QED
    BY <1>5, <2>1 DEF Durable
<1>11. CASE UNCHANGED csvVars
  BY <1>11 DEF csvVars, vars, Durable
<1>12. QED
  BY <1>1, <1>3, <1>4, <1>7, <1>8, <1>9, <1>10, <1>11 DEF CsvCases

\* What is durable changes by one row, or by a whole offered file at once, and
\* never overdraws a profile: the import implements the books.
THEOREM ImportsAreWhole ==
  ASSUME FitsInWord
  PROVE  CsvSpec => WholeImportsOnly
<1>1. CsvInit => Promise!OpenBooks
  BY DEF CsvInit, Init, NoImport, Durable, Promise!OpenBooks
<1>2. CsvSafe /\ [CsvNext]_csvVars
        => [Promise!KeepBooks]_<<Durable, IF import.open THEN import.lines ELSE offer>>
  BY CsvKeepsBooks
<1>3. QED
  BY <1>1, <1>2, CsvSafeHolds, PTL DEF CsvSpec, WholeImportsOnly, Promise!BooksSpec

-----------------------------------------------------------------------------
(***************************************************************************)
(* CsvTransfer: what a file of lines adds up to.  The induction is over the *)
(* size of a set of lines, with a least counterexample as in               *)
(* RunningTotalTheorems.                                                   *)
(***************************************************************************)

\* The line a sum over a set of lines takes first, and the sum from there, given
\* the sums g of the smaller sets.
First(s) == CHOOSE line \in s : TRUE
SumFrom(g, s) == IF s = {} THEN 0 ELSE First(s).amount + g[s \ {First(s)}]

\* The sums over the subsets of a finite set can be computed.
LEMMA SumsExist ==
  ASSUME NEW S, IsFiniteSet(S)
  PROVE  \E g : g = [s \in SUBSET S |-> SumFrom(g, s)]
<1> DEFINE Small(n) == {s \in SUBSET S : Cardinality(s) <= n}
           T == {n \in Nat : ~ \E g : g = [s \in Small(n) |-> SumFrom(g, s)]}
<1>1. ASSUME NEW s \in SUBSET S, s # {}
      PROVE  /\ s \ {First(s)} \in SUBSET S /\ First(s) \in s
             /\ Cardinality(s) \in Nat \ {0} /\ Cardinality(s \ {First(s)}) = Cardinality(s) - 1
  <2>1. IsFiniteSet(s)
    BY FS_Subset
  <2>2. First(s) \in s
    BY <1>1 DEF First
  <2>3. Cardinality(s) \in Nat /\ Cardinality(s) # 0
    BY <1>1, <2>1, FS_CardinalityType, FS_EmptySet
  <2>4. Cardinality(s \ {First(s)}) = Cardinality(s) - 1
    BY <2>1, <2>2, FS_RemoveElement
  <2>5. QED
    BY <2>2, <2>3, <2>4
<1>2. ASSUME NEW m \in Nat, NEW g, m # 0 => g = [s \in Small(m - 1) |-> SumFrom(g, s)]
      PROVE  \E h : h = [s \in Small(m) |-> SumFrom(h, s)]
  <2> DEFINE h == [s \in Small(m) |-> SumFrom(g, s)]
  <2>1. ASSUME NEW s \in Small(m) PROVE SumFrom(h, s) = SumFrom(g, s)
    <3>1. CASE s = {}
      BY <3>1 DEF SumFrom
    <3>2. CASE s # {}
      <4> DEFINE u == s \ {First(s)}
      <4>1. u \in SUBSET S /\ Cardinality(u) <= m - 1 /\ m - 1 <= m /\ m # 0
            /\ Cardinality(u) \in Int
        BY <1>1, <3>2
      <4>2. u \in Small(m) /\ u \in Small(m - 1)
        BY <4>1
      <4> HIDE DEF u, Small
      <4>3. h[u] = SumFrom(g, u) /\ g[u] = SumFrom(g, u)
        BY <1>2, <4>1, <4>2
      <4>4. QED
        BY <4>3 DEF SumFrom, u
    <3>3. QED
      BY <3>1, <3>2
  <2> HIDE DEF Small
  <2>2. h = [s \in Small(m) |-> SumFrom(h, s)]
    BY <2>1
  <2>3. QED
    BY <2>2
<1>3. T = {}
  <2> SUFFICES ASSUME T # {} PROVE FALSE
    OBVIOUS
  <2>1. PICK m \in T : \A y \in T : m <= y
    BY LeastNatural, T \subseteq Nat
  <2>2. \E g : m # 0 => g = [s \in Small(m - 1) |-> SumFrom(g, s)]
    <3>1. CASE m # 0
      <4>1. m - 1 \in Nat /\ ~ (m <= m - 1)
        BY <3>1
      <4>2. m - 1 \notin T
        BY <2>1, <4>1
      <4>3. QED
        BY <4>1, <4>2
    <3>2. QED
      BY <3>1
  <2>3. QED
    BY <1>2, <2>2
<1>4. Cardinality(S) \in Nat /\ Small(Cardinality(S)) = SUBSET S
  BY FS_CardinalityType, FS_Subset
<1>5. \E g : g = [s \in Small(Cardinality(S)) |-> SumFrom(g, s)]
  BY <1>3, <1>4
<1>6. QED
  BY <1>4, <1>5

\* What the lines of a set cost or bring.
TotalAmount(S) == MapThenSumSet(LAMBDA line : line.amount, S)

\* It is taken from one of these functions.
LEMMA AmountsAdded ==
  ASSUME NEW S, IsFiniteSet(S)
  PROVE  \E g : g = [s \in SUBSET S |-> SumFrom(g, s)] /\ TotalAmount(S) = g[S]
<1> DEFINE g == CHOOSE g : g = [s \in SUBSET S |-> SumFrom(g, s)]
<1>1. g = [s \in SUBSET S |-> SumFrom(g, s)]
  BY SumsExist
<1>2. TotalAmount(S) = g[S]
  BY DEF TotalAmount, MapThenSumSet, MapThenFoldSet, SumFrom, First
<1>3. QED
  BY <1>1, <1>2

\* No line costs more than all of them, and no lines cost nothing.
LEMMA AmountsBounded ==
  ASSUME NEW S, IsFiniteSet(S), \A line \in S : line.amount \in Nat
  PROVE  /\ TotalAmount(S) \in Nat
         /\ \A line \in S : line.amount <= TotalAmount(S)
         /\ S = {} => TotalAmount(S) = 0
<1>1. PICK g : g = [s \in SUBSET S |-> SumFrom(g, s)] /\ TotalAmount(S) = g[S]
  BY AmountsAdded
<1> DEFINE Good(s) == g[s] \in Nat /\ \A line \in s : line.amount <= g[s]
           T == {n \in Nat : \E s \in SUBSET S : Cardinality(s) = n /\ ~ Good(s)}
<1>2. ASSUME NEW s \in SUBSET S
      PROVE  g[s] = SumFrom(g, s) /\ Cardinality(s) \in Nat /\ IsFiniteSet(s)
  BY <1>1, FS_Subset, FS_CardinalityType
<1>3. T = {}
  <2> SUFFICES ASSUME T # {} PROVE FALSE
    OBVIOUS
  <2>1. PICK m \in T : \A y \in T : m <= y
    BY LeastNatural, T \subseteq Nat
  <2>2. PICK s \in SUBSET S : Cardinality(s) = m /\ ~ Good(s)
    OBVIOUS
  <2>3. CASE s = {}
    <3>1. g[s] = 0
      BY <1>2, <2>3 DEF SumFrom
    <3>2. QED
      BY <2>2, <2>3, <3>1
  <2>4. CASE s # {}
    <3> DEFINE x == First(s)
               u == s \ {x}
    <3>1. x \in s /\ x \in S /\ x.amount \in Nat /\ u \in SUBSET S
      BY <2>4 DEF First
    <3>2. Cardinality(u) = m - 1 /\ Cardinality(u) \in Nat
      BY <1>2, <2>2, <3>1, FS_RemoveElement
    <3>3. m \in Nat /\ ~ (m <= m - 1)
      OBVIOUS
    <3>4. m - 1 \notin T
      BY <2>1, <3>3
    <3>5. Good(u)
      BY <3>1, <3>2, <3>4
    <3>6. g[s] = x.amount + g[u]
      BY <1>2, <2>4 DEF SumFrom
    <3>7. \A line \in s : line \in u \/ line = x
      OBVIOUS
    <3>8. \A line \in u : line.amount \in Nat /\ line.amount <= g[u]
      BY <3>1, <3>5
    <3> HIDE DEF x, u
    <3>9. g[u] \in Nat
      BY <3>5
    <3>10. Good(s)
      BY <3>1, <3>6, <3>7, <3>8, <3>9
    <3>11. QED
      BY <2>2, <3>10
  <2>5. QED
    BY <2>3, <2>4
<1>4. Good(S)
  BY <1>2, <1>3
<1>5. S = {} => g[S] = 0
  BY <1>2 DEF SumFrom
<1>6. QED
  BY <1>1, <1>4, <1>5

\* A create is refused only when the lines that are left cost more than the
\* profile has and they bring.
LEMMA RefusedLine ==
  ASSUME FitsInWord, CsvIInv, BalanceNeverNegative, import.open, NEW line \in NextLines,
         ~ ProposedBalanceHolds(table, profile, line.type, line.amount)
  PROVE  Unaffordable(import.left)
<1> DEFINE left     == import.left
           spending == {l \in left : l.type = "expense"}
           earning  == {l \in left : l.type = "income"}
<1>1. TypeOK /\ RowsWellFormed /\ profile \in Profiles /\ IsFiniteSet(left)
  BY DEF CsvIInv, CsvTypeOK, TypeOK, FilesOK
<1>2. table \in Table
  BY <1>1, WellFormedTable
<1>3. left \subseteq import.lines /\ import.lines \subseteq Line
  BY ImportFacts
<1>4. \A l \in left : l \in Line /\ l.amount \in 1 .. MaxAmount
  BY <1>3 DEF CsvIInv, ImportOK, Offerable
<1>5. line \in left /\ line.type \in Types /\ line.amount \in 1 .. MaxAmount
  BY <1>4 DEF NextLines, Line
<1>6. Sum(table, "expense", profile) \in Int /\ Sum(table, "income", profile) \in Int
  BY <1>2, SumBounds, LedgerAssumption DEF Types
<1>7. Sum(table, "expense", profile) <= Sum(table, "income", profile)
  BY <1>1, <1>6 DEF BalanceNeverNegative, Overdrawn
<1>8. ~ (Sum(table, "expense", profile) + (IF line.type = "expense" THEN line.amount ELSE 0)
           <= Sum(table, "income", profile) + (IF line.type = "income" THEN line.amount ELSE 0))
  <2>1. line.amount \in 0 .. MaxAmount
    BY <1>5
  <2>2. QED
    BY <1>2, <1>5, <2>1, CheckIsExact
<1>9. line.type = "expense"
  BY <1>5, <1>6, <1>7, <1>8, LedgerAssumption DEF Types
<1>10. Sum(table, "expense", profile) + line.amount > Sum(table, "income", profile)
  BY <1>5, <1>6, <1>8, <1>9, LedgerAssumption
<1>11. earning = {}
  BY <1>9 DEF NextLines
<1>12. line \in spending /\ IsFiniteSet(spending) /\ IsFiniteSet(earning)
  BY <1>1, <1>5, <1>9, FS_Subset
<1>13. \A l \in spending : l.amount \in Nat
  BY <1>4, LedgerAssumption
<1> HIDE DEF spending, earning
<1>14. TotalAmount(earning) = 0
  BY <1>11, <1>12, AmountsBounded
<1>15. TotalAmount(spending) \in Nat /\ line.amount <= TotalAmount(spending)
  BY <1>12, <1>13, AmountsBounded
<1>16. /\ Amount(left, "income") = TotalAmount(earning)
       /\ Amount(left, "expense") = TotalAmount(spending)
  BY DEF Amount, TotalAmount, spending, earning
<1>17. Sum(table, "expense", profile) + TotalAmount(spending)
         > Sum(table, "income", profile) + TotalAmount(earning)
  BY <1>5, <1>6, <1>10, <1>14, <1>15
<1>18. QED
  BY <1>16, <1>17 DEF Unaffordable

\* While a transaction is open the user was told nothing about it yet.
NothingToldYet == import.open => notice = "none"

LEMMA NothingToldStep ==
  ASSUME CsvIInv, NothingToldYet, [CsvNext]_csvVars
  PROVE  NothingToldYet'
<1> USE DEF NothingToldYet
<1>1. ASSUME NEW line \in NextLines, Created(line) PROVE NothingToldYet'
  BY <1>1 DEF Created
<1>2. BeginImport => notice' = "none"
  BY DEF BeginImport
<1>3. CommitImport \/ Undone => ~ import'.open
  BY DEF CommitImport, Undone, Rollback, NoImport
<1>4. ASSUME \/ ScreenStep \/ ExportCsv \/ PreviewCsv \/ DeclineImport \/ UNCHANGED csvVars
             \/ \E line \in file, amount \in Amounts : EditFile(line, amount)
      PROVE  UNCHANGED <<import, notice>>
  BY <1>4 DEF ScreenStep, ExportCsv, PreviewCsv, DeclineImport, EditFile, csvVars
<1>5. ~ import.open /\ Crash => UNCHANGED import
  BY DEF Crash
<1>6. QED
  BY <1>1, <1>2, <1>3, <1>4, <1>5, CsvShape DEF CsvCases

\* Whether an import is refused does not depend on the order of its lines: an
\* import that is refused could not be afforded as a whole.
THEOREM RefusalsAreOfTheWhole ==
  ASSUME FitsInWord
  PROVE  CsvSpec => RefusedOnlyAsAWhole
<1>1. CsvInit => CsvSafe /\ NothingToldYet
  BY CsvSafeHolds DEF CsvInit, NoImport, NothingToldYet
<1>2. CsvSafe /\ NothingToldYet /\ [CsvNext]_csvVars => (CsvSafe /\ NothingToldYet)'
  BY CsvSafeHolds, NothingToldStep DEF CsvSafe
<1>3. ASSUME CsvSafe, NothingToldYet, [CsvNext]_csvVars, notice' = "refused", import.open
      PROVE  Unaffordable(import.left)
  <2>1. notice = "none"
    BY <1>3 DEF NothingToldYet
  <2>2. ASSUME NEW line \in NextLines, ImportLine(line)
        PROVE  ~ ProposedBalanceHolds(table, profile, line.type, line.amount)
    BY <1>3, <2>1, <2>2 DEF ImportLine
  <2>3. \E line \in NextLines : ImportLine(line)
    BY <1>3, <2>1
    DEF CsvNext, ScreenStep, ExportCsv, EditFile, PreviewCsv, DeclineImport, BeginImport,
        CommitImport, FailImport, Crash, csvVars
  <2>4. QED
    BY <1>3, <2>2, <2>3, RefusedLine DEF CsvSafe
<1>4. CsvSafe /\ NothingToldYet /\ [CsvNext]_csvVars
        => (notice' = "refused" /\ import.open => Unaffordable(import.left))
  BY <1>3
<1>5. QED
  BY <1>1, <1>2, <1>4, PTL DEF CsvSpec, RefusedOnlyAsAWhole

=============================================================================
