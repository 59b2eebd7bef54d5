------------------------------ MODULE Recurring ------------------------------
(***************************************************************************)
(* Bills and subscriptions                                                 *)
(* (src/mobile/lib/features/planning/data/commitments_repository.dart).    *)
(*                                                                         *)
(* A rule says when a bill recurs; an occurrence is one date of a rule,    *)
(* stored under an id built from both, so that it is stored once.  Saving  *)
(* a rule, and paying an occurrence, are transactions.  A reconciliation   *)
(* stores the occurrences up to a horizon: saveRecurring runs one inside   *)
(* its transaction, but the ones started by the screen and by every resume *)
(* of the app run statement by statement, on the rules as they read them,  *)
(* beside each other and beside the user.                                  *)
(*                                                                         *)
(* Dates are days of a bounded calendar and a rule recurs every so many    *)
(* days (daily and weekly rules).  Names, categories, the price history of *)
(* subscriptions and the columns only written (generatedOccurrences,       *)
(* lastReconciledAt) are left out.                                         *)
(***************************************************************************)
EXTENDS Integers, FiniteSets

CONSTANTS
  Rules,        \* the ids rules may get
  Passes,       \* the reconciliations that can run at a time
  Taps,         \* the calls of the details sheet that can be pending at a time
  Drafts,       \* what the form of a rule produces
  Amounts,      \* what the form of one occurrence produces
  LastDay,      \* bound: the last day of the calendar
  LastToday,    \* bound: the last day the clock reaches
  Horizon,      \* how many days ahead a pass looks
  SaveHorizon,  \* how many days ahead saveRecurring looks
  ToPayday      \* days from today to the payday of safe-to-spend

ASSUME CalendarAssumption ==
  /\ LastDay \in Nat
  /\ LastToday \in Nat
  /\ Horizon \in Nat
  /\ SaveHorizon \in Nat
  /\ ToPayday \in Nat

\* A draft without an end date ends with the calendar; one without a limit has
\* a limit greater than LastDay.
ASSUME DraftAssumption ==
  /\ Drafts \subseteq [amount : Nat, every : Nat, start : 0 .. LastDay,
                       end : 0 .. LastDay, limit : Nat]
  /\ Amounts \subseteq Nat

VARIABLES
  today,    \* the clock
  rules,    \* table recurring_payments
  occs,     \* table recurring_occurrences, by rule and date
  history,  \* rows of recurring_payment_history, by rule and date
  pass,     \* the reconciliations outside a transaction
  tap       \* the pending calls of the details sheet

vars == <<today, rules, occs, history, pass, tap>>

-----------------------------------------------------------------------------

Days == 0 .. LastDay

NoRule == [saved |-> FALSE]
Rule == [saved : {TRUE}, terms : Drafts, active : BOOLEAN, next : Nat]

Absent == [stored |-> FALSE]
Occurrence == [stored : {TRUE}, amount : Nat, status : {"upcoming", "paid"},
               override : BOOLEAN]

Upcoming(o) == o.stored /\ o.status = "upcoming"
Paid(o) == o.stored /\ o.status = "paid"

Active(table) == {r \in Rules : table[r].saved /\ table[r].active}

\* The date of the n-th occurrence under the terms of a rule, counted from zero.
Date(terms, n) == terms.start + n * terms.every

\* Mutant: one occurrence more than the limit.
DueAtLimit(terms, n, horizon) ==
  Date(terms, n) <= horizon /\ Date(terms, n) <= terms.end /\ n <= terms.limit

\* Whether a reconciliation stores the n-th occurrence; it stops at the first
\* one that it does not.
Due(terms, n, horizon) ==
  Date(terms, n) <= horizon /\ Date(terms, n) <= terms.end /\ n < terms.limit

\* The dates a reconciliation stores.
Schedule(terms, horizon) ==
  {d \in Days : \E n \in Days : d = Date(terms, n) /\ Due(terms, n, horizon)}

\* Mutant: an occurrence stored before is replaced.
StoreReplacing(stored, terms, d) ==
  [stored EXCEPT ![d] = [stored |-> TRUE, amount |-> terms.amount,
                         status |-> "upcoming", override |-> FALSE]]

\* An occurrence that is stored already is left as it is.
Store(stored, terms, d) ==
  IF stored[d].stored THEN stored
  ELSE [stored EXCEPT ![d] = [stored |-> TRUE, amount |-> terms.amount,
                              status |-> "upcoming", override |-> FALSE]]

Earliest(stored) ==
  {d \in Days : Upcoming(stored[d]) /\ \A e \in Days : Upcoming(stored[e]) => d <= e}

\* The date written to nextPaymentDate: the earliest upcoming occurrence, else
\* the first date that was not stored.
NextPayment(stored, terms, n) ==
  IF Earliest(stored) = {} THEN Date(terms, n) ELSE CHOOSE d \in Earliest(stored) : TRUE

-----------------------------------------------------------------------------
\* A pass reads the active rules, takes them one by one, stores the occurrences
\* of each by one statement per date, reads the earliest upcoming one and then
\* updates the rule.  It keeps the rules it did not take yet as it read them.

Idle == [at |-> "idle"]
Insert == [at : {"insert"}, horizon : Nat, left : SUBSET (Rules \X Drafts),
           id : Rules, terms : Drafts, n : Nat]
Note == [at : {"note"}, horizon : Nat, left : SUBSET (Rules \X Drafts),
         id : Rules, terms : Drafts, n : Nat, next : Nat]

\* A pass takes a rule of those left, if there is one.
Taking(horizon, left) ==
  IF left = {} THEN {Idle}
  ELSE {[at |-> "insert", horizon |-> horizon, left |-> left \ {e},
         id |-> e[1], terms |-> e[2], n |-> 0] : e \in left}

Free == [op |-> "free"]
Tap == [op : {"pay"}, id : Rules, day : Days]
         \cup [op : {"edit"}, id : Rules, day : Days, amount : Amounts]

RecurringInit ==
  /\ today = 0
  /\ rules = [r \in Rules |-> NoRule]
  /\ occs = [r \in Rules |-> [d \in Days |-> Absent]]
  /\ history = [r \in Rules |-> [d \in Days |-> 0]]
  /\ pass = [p \in Passes |-> Idle]
  /\ tap = [t \in Taps |-> Free]

-----------------------------------------------------------------------------
\* Mutant: an interval of zero is accepted.
AcceptedAny(draft) == draft.amount > 0

\* What saveRecurring accepts.
Accepted(draft) == draft.amount > 0 /\ draft.every > 0

\* The rules with rule r saved under the terms of a draft: it is active again.
Saved(r, draft) ==
  [rules EXCEPT ![r] = [saved |-> TRUE, terms |-> draft, active |-> TRUE, next |-> draft.start]]

\* A reconciliation of a table of rules in one go: the occurrences it leaves,
\* and the rules.
Filled(table, horizon) ==
  [q \in Rules |-> [d \in Days |->
    IF q \in Active(table) /\ d \in Schedule(table[q].terms, horizon)
    THEN Store(occs[q], table[q].terms, d)[d]
    ELSE occs[q][d]]]

Noted(table, stored, horizon) ==
  [q \in Rules |->
    IF q \in Active(table)
    THEN [table[q] EXCEPT !.next =
            NextPayment(stored[q], table[q].terms, Cardinality(Schedule(table[q].terms, horizon)))]
    ELSE table[q]]

\* Save rule r, new or edited, and reconcile every active rule, in one
\* transaction.
SaveRecurring(r) ==
  \E draft \in Drafts :
    /\ Accepted(draft)
    /\ occs' = Filled(Saved(r, draft), today + SaveHorizon)
    /\ rules' = Noted(Saved(r, draft), occs', today + SaveHorizon)
    /\ UNCHANGED <<today, history, pass, tap>>

\* The sheet's stop button; the sheet may show a rule stopped since.
StopRecurring(r) ==
  /\ rules[r].saved
  /\ rules' = [rules EXCEPT ![r].active = FALSE]
  /\ UNCHANGED <<today, occs, history, pass, tap>>

-----------------------------------------------------------------------------
\* Tap pay or edit on an occurrence shown as upcoming; the call stays pending.
TapOccurrence(t) ==
  /\ tap[t] = Free
  /\ \E r \in Rules, d \in Days :
       /\ Upcoming(occs[r][d])
       /\ tap' = [tap EXCEPT ![t] = [op |-> "pay", id |-> r, day |-> d]]
            \/ \E a \in Amounts :
                 tap' = [tap EXCEPT ![t] = [op |-> "edit", id |-> r, day |-> d, amount |-> a]]
  /\ UNCHANGED <<today, rules, occs, history, pass>>

\* Mutant: the status is not read again in the transaction.
PayUnchecked(t) ==
  LET r == tap[t].id
      d == tap[t].day
  IN  /\ tap[t].op = "pay"
      /\ occs' = [occs EXCEPT ![r][d].status = "paid"]
      /\ history' = [history EXCEPT ![r][d] = @ + 1]
      /\ tap' = [tap EXCEPT ![t] = Free]
      /\ UNCHANGED <<today, rules, pass>>

\* The transaction of markOccurrencePaid: nothing to do when it is paid already.
MarkOccurrencePaid(t) ==
  LET r == tap[t].id
      d == tap[t].day
  IN  /\ tap[t].op = "pay"
      /\ IF Paid(occs[r][d])
         THEN UNCHANGED <<occs, history>>
         ELSE /\ occs' = [occs EXCEPT ![r][d].status = "paid"]
              /\ history' = [history EXCEPT ![r][d] = @ + 1]
      /\ tap' = [tap EXCEPT ![t] = Free]
      /\ UNCHANGED <<today, rules, pass>>

\* editOccurrence: one statement, whatever the status is by now.
EditOccurrence(t) ==
  LET r == tap[t].id
      d == tap[t].day
  IN  /\ tap[t].op = "edit"
      /\ occs' = [occs EXCEPT ![r][d].amount = tap[t].amount, ![r][d].override = TRUE]
      /\ tap' = [tap EXCEPT ![t] = Free]
      /\ UNCHANGED <<today, rules, history, pass>>

-----------------------------------------------------------------------------
\* A resume of the app or a rebuild of the list of rules starts a pass.
BeginPass(p) ==
  /\ pass[p] = Idle
  /\ Active(rules) # {}
  /\ \E next \in Taking(today + Horizon, {<<r, rules[r].terms>> : r \in Active(rules)}) :
       pass' = [pass EXCEPT ![p] = next]
  /\ UNCHANGED <<today, rules, occs, history, tap>>

\* Store the next date of the rule.
InsertOccurrence(p) ==
  LET self == pass[p]
  IN  /\ self.at = "insert"
      /\ Due(self.terms, self.n, self.horizon)
      /\ occs' = [occs EXCEPT ![self.id] = Store(@, self.terms, Date(self.terms, self.n))]
      /\ pass' = [pass EXCEPT ![p].n = @ + 1]
      /\ UNCHANGED <<today, rules, history, tap>>

\* No date is left: read the earliest upcoming occurrence.
ReadUpcoming(p) ==
  LET self == pass[p]
  IN  /\ self.at = "insert"
      /\ ~ Due(self.terms, self.n, self.horizon)
      /\ pass' = [pass EXCEPT ![p] =
           [at |-> "note", horizon |-> self.horizon, left |-> self.left, id |-> self.id,
            terms |-> self.terms, n |-> self.n,
            next |-> NextPayment(occs[self.id], self.terms, self.n)]]
      /\ UNCHANGED <<today, rules, occs, history, tap>>

\* Update the row of the rule, whatever happened to it since it was read.
NoteRule(p) ==
  LET self == pass[p]
  IN  /\ self.at = "note"
      /\ rules' = [rules EXCEPT ![self.id].next = self.next]
      /\ \E next \in Taking(self.horizon, self.left) : pass' = [pass EXCEPT ![p] = next]
      /\ UNCHANGED <<today, occs, history, tap>>

PassStep(p) == InsertOccurrence(p) \/ ReadUpcoming(p) \/ NoteRule(p)

-----------------------------------------------------------------------------
Tick ==
  /\ today < LastToday
  /\ today' = today + 1
  /\ UNCHANGED <<rules, occs, history, pass, tap>>

\* The app is killed: what was not committed never happens.
Kill ==
  /\ pass' = [p \in Passes |-> Idle]
  /\ tap' = [t \in Taps |-> Free]
  /\ UNCHANGED <<today, rules, occs, history>>

RecurringNext ==
  \/ \E r \in Rules : SaveRecurring(r) \/ StopRecurring(r)
  \/ \E t \in Taps : TapOccurrence(t) \/ MarkOccurrencePaid(t) \/ EditOccurrence(t)
  \/ \E p \in Passes : BeginPass(p) \/ PassStep(p)
  \/ Tick
  \/ Kill

RecurringSpec == RecurringInit /\ [][RecurringNext]_vars

-----------------------------------------------------------------------------
\* Every table and every pending call has its shape.
RecurringTypeOK ==
  /\ today \in 0 .. LastToday
  /\ rules \in [Rules -> Rule \cup {NoRule}]
  /\ occs \in [Rules -> [Days -> Occurrence \cup {Absent}]]
  /\ history \in [Rules -> [Days -> Nat]]
  /\ pass \in [Passes -> {Idle} \cup Insert \cup Note]
  /\ tap \in [Taps -> {Free} \cup Tap]

\* An occurrence has one row in the payment history when it is paid and none
\* before, however often and however late its pay button's calls are answered
\* (markOccurrencePaid).
PaidOnce ==
  \A r \in Rules, d \in Days :
    history[r][d] = IF Paid(occs[r][d]) THEN 1 ELSE 0

\* A pass that comes to the end of a rule has stored every date the rule
\* schedules up to the horizon, and counted them, whatever other passes, edits
\* and payments came in between (reconcileRecurring).
PassStoresSchedule ==
  \A p \in Passes : pass[p].at = "note" =>
    LET due == Schedule(pass[p].terms, pass[p].horizon)
    IN  /\ \A d \in due : occs[pass[p].id][d].stored
        /\ pass[p].n = Cardinality(due)
        /\ pass[p].n <= pass[p].terms.limit

KeepsOccurrences ==
  \A r \in Rules, d \in Days : occs[r][d].stored =>
    LET new == occs'[r][d]
    IN  /\ new.stored
        /\ Paid(occs[r][d]) => Paid(new)
        /\ occs[r][d].override => new.override
        /\ new.amount # occs[r][d].amount =>
             \E t \in Taps : tap[t] = [op |-> "edit", id |-> r, day |-> d,
                                       amount |-> new.amount]

\* An occurrence, once stored, is never lost, and a payment is never undone;
\* only an edit of this one occurrence changes its amount, so that neither a
\* later reconciliation nor a new amount of the rule touches what was paid or
\* adjusted (insertOrIgnore on a deterministic id).
OccurrencesKept == [][KeepsOccurrences]_vars

\* The loop over the dates of a rule ends: no rule that can be saved keeps a
\* pass inserting beyond the days there are (the interval check of
\* saveRecurring).
PassesEnd == \A p \in Passes : pass[p].at # "idle" => pass[p].n <= LastDay + 1

-----------------------------------------------------------------------------
\* The bills safe-to-spend subtracts: active rules by their nextPaymentDate.
CountedBills ==
  {r \in Active(rules) : today <= rules[r].next /\ rules[r].next <= today + ToPayday}

\* A bill that is upcoming between now and the payday, of a rule that is still
\* active, is subtracted in safe-to-spend (docs: remaining balance minus
\* upcoming bills).  The code looks at the earliest unpaid occurrence only, and
\* skips the rule when that one is overdue.
UpcomingBillsCounted ==
  \A r \in Active(rules) :
    (\E d \in Days : Upcoming(occs[r][d]) /\ today <= d /\ d <= today + ToPayday)
      => r \in CountedBills

=============================================================================
