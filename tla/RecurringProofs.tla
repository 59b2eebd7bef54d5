--------------------------- MODULE RecurringProofs ---------------------------
(***************************************************************************)
(* What TLC checks of Recurring on a small instance, for every calendar,   *)
(* every set of rules and drafts, and every number of passes and taps.     *)
(***************************************************************************)
EXTENDS Recurring, FiniteSetTheorems, TLAPS

-----------------------------------------------------------------------------
(* Dates and occurrences *)

Table == [Days -> Occurrence \cup {Absent}]

\* The dates of a rule are natural numbers.
LEMMA DateType ==
  ASSUME NEW terms \in Drafts, NEW n \in Nat
  PROVE  Date(terms, n) \in Nat
<1>1. terms.start \in Nat /\ terms.every \in Nat
  BY CalendarAssumption, DraftAssumption
<1>2. n * terms.every \in Nat
  BY <1>1
<1>3. QED
  BY <1>1, <1>2 DEF Date

\* A date that is due is on the calendar.
LEMMA DueOnCalendar ==
  ASSUME NEW terms \in Drafts, NEW n \in Nat, NEW horizon, Due(terms, n, horizon)
  PROVE  Date(terms, n) \in Days
<1>1. terms.end \in 0 .. LastDay
  BY DraftAssumption
<1>2. QED
  BY <1>1, DateType, CalendarAssumption DEF Due, Days

\* Storing a date adds an upcoming occurrence or changes nothing.
LEMMA StoreAdds ==
  ASSUME NEW stored \in Table, NEW terms \in Drafts, NEW d \in Days
  PROVE  /\ Store(stored, terms, d) \in Table
         /\ Store(stored, terms, d)[d].stored
         /\ \A e \in Days : stored[e].stored => Store(stored, terms, d)[e] = stored[e]
         /\ \A e \in Days : ~ stored[e].stored => ~ Paid(Store(stored, terms, d)[e])
<1>1. terms.amount \in Nat
  BY DraftAssumption
<1>2. [stored |-> TRUE, amount |-> terms.amount, status |-> "upcoming",
       override |-> FALSE] \in Occurrence
  BY <1>1 DEF Occurrence
<1>3. QED
  BY <1>2 DEF Store, Table, Occurrence, Absent, Paid

\* nextPaymentDate is a date.
LEMMA NextType ==
  ASSUME NEW stored, NEW terms \in Drafts, NEW n \in Nat
  PROVE  NextPayment(stored, terms, n) \in Nat
<1>1. Earliest(stored) \subseteq Nat
  BY CalendarAssumption DEF Earliest, Days
<1>2. CASE Earliest(stored) = {}
  BY <1>2, DateType DEF NextPayment
<1>3. CASE Earliest(stored) # {}
  BY <1>1, <1>3 DEF NextPayment
<1>4. QED
  BY <1>2, <1>3

\* What is due can be counted.
LEMMA ScheduleFinite ==
  ASSUME NEW terms, NEW horizon
  PROVE  /\ IsFiniteSet(Schedule(terms, horizon))
         /\ Cardinality(Schedule(terms, horizon)) \in Nat
<1>1. IsFiniteSet(Days)
  BY FS_Interval, CalendarAssumption DEF Days
<1>2. Schedule(terms, horizon) \in SUBSET Days
  BY DEF Schedule
<1>3. QED
  BY <1>1, <1>2, FS_Subset, FS_CardinalityType

Listing == [Rules -> Rule \cup {NoRule}]

\* An active rule is a rule, on terms a draft may have.
LEMMA ActiveType ==
  ASSUME NEW listing \in Listing, NEW q \in Active(listing)
  PROVE  q \in Rules /\ listing[q] \in Rule /\ listing[q].terms \in Drafts
<1>1. q \in Rules /\ listing[q] \in Rule \cup {NoRule} /\ listing[q].saved
  BY DEF Active, Listing
<1>2. listing[q] \in Rule
  BY <1>1 DEF NoRule
<1>3. QED
  BY <1>1, <1>2 DEF Rule

\* A reconciliation in one go adds upcoming occurrences and changes none.
LEMMA FilledAdds ==
  ASSUME RecurringTypeOK, NEW listing \in Listing, NEW horizon, NEW q \in Rules
  PROVE  /\ Filled(listing, horizon)[q] \in Table
         /\ \A d \in Days : occs[q][d].stored => Filled(listing, horizon)[q][d] = occs[q][d]
         /\ \A d \in Days : ~ occs[q][d].stored => ~ Paid(Filled(listing, horizon)[q][d])
<1> DEFINE filled == Filled(listing, horizon)[q]
<1>1. filled = [d \in Days |->
                 IF q \in Active(listing) /\ d \in Schedule(listing[q].terms, horizon)
                 THEN Store(occs[q], listing[q].terms, d)[d]
                 ELSE occs[q][d]]
  BY DEF Filled
<1>2. occs[q] \in Table
  BY DEF RecurringTypeOK, Table
<1> HIDE DEF filled
<1>3. ASSUME NEW d \in Days
      PROVE  /\ filled[d] \in Occurrence \cup {Absent}
             /\ occs[q][d].stored => filled[d] = occs[q][d]
             /\ ~ occs[q][d].stored => ~ Paid(filled[d])
  <2>1. CASE q \in Active(listing) /\ d \in Schedule(listing[q].terms, horizon)
    <3> DEFINE after == Store(occs[q], listing[q].terms, d)
    <3>1. filled[d] = after[d]
      BY <1>1, <2>1
    <3>2. listing[q].terms \in Drafts
      BY <2>1, ActiveType
    <3>3. /\ after \in Table
          /\ \A e \in Days : occs[q][e].stored => after[e] = occs[q][e]
          /\ \A e \in Days : ~ occs[q][e].stored => ~ Paid(after[e])
      BY <1>2, <3>2, StoreAdds
    <3> HIDE DEF after
    <3>4. QED
      BY <3>1, <3>3 DEF Table
  <2>2. CASE ~ (q \in Active(listing) /\ d \in Schedule(listing[q].terms, horizon))
    BY <1>1, <1>2, <2>2 DEF Table, Paid
  <2>3. QED
    BY <2>1, <2>2
<1>4. filled \in Table
  BY <1>1, <1>3 DEF Table
<1>5. QED
  BY <1>3, <1>4 DEF filled

\* It keeps which rules there are, and their terms.
LEMMA NotedKeeps ==
  ASSUME NEW listing \in Listing, NEW stored, NEW horizon
  PROVE  /\ Noted(listing, stored, horizon) \in Listing
         /\ \A q \in Rules :
              /\ Noted(listing, stored, horizon)[q].saved = listing[q].saved
              /\ listing[q].saved => Noted(listing, stored, horizon)[q].terms = listing[q].terms
<1> DEFINE noted == Noted(listing, stored, horizon)
<1>1. ASSUME NEW q \in Rules
      PROVE  /\ noted[q] \in Rule \cup {NoRule}
             /\ noted[q].saved = listing[q].saved
             /\ listing[q].saved => noted[q].terms = listing[q].terms
  <2> DEFINE next == NextPayment(stored[q], listing[q].terms,
                       Cardinality(Schedule(listing[q].terms, horizon)))
  <2>1. CASE q \in Active(listing)
    <3>1. listing[q] \in Rule /\ listing[q].terms \in Drafts
      BY <2>1, ActiveType
    <3>2. next \in Nat
      BY <3>1, ScheduleFinite, NextType
    <3>3. noted[q] = [listing[q] EXCEPT !.next = next]
      BY <2>1 DEF Noted
    <3> HIDE DEF next, noted
    <3>4. QED
      BY <3>1, <3>2, <3>3 DEF Rule
  <2>2. CASE q \notin Active(listing)
    BY <2>2 DEF Noted, Listing
  <2>3. QED
    BY <2>1, <2>2
<1>2. DOMAIN noted = Rules /\ noted = [q \in Rules |-> noted[q]]
  BY DEF Noted
<1> HIDE DEF noted
<1>3. noted \in Listing
  BY <1>1, <1>2 DEF Listing
<1>4. QED
  BY <1>1, <1>3 DEF noted

\* The saved rule has its draft's terms; the others are as before.
LEMMA SavedType ==
  ASSUME RecurringTypeOK, NEW r \in Rules, NEW draft \in Drafts
  PROVE  /\ Saved(r, draft) \in Listing
         /\ Saved(r, draft)[r].saved /\ Saved(r, draft)[r].terms = draft
         /\ \A q \in Rules \ {r} : Saved(r, draft)[q] = rules[q]
<1>1. draft.start \in Nat
  BY DraftAssumption, CalendarAssumption
<1>2. [saved |-> TRUE, terms |-> draft, active |-> TRUE, next |-> draft.start] \in Rule
  BY <1>1 DEF Rule
<1>3. QED
  BY <1>2 DEF Saved, Listing, RecurringTypeOK

-----------------------------------------------------------------------------
(* The inductive invariant *)

\* No rule that was saved recurs every zero days.
RulesAdvance == \A r \in Rules : rules[r].saved => rules[r].terms.every > 0

\* A pending call is about an occurrence that is stored.
TapsStored == \A t \in Taps : tap[t].op # "free" => occs[tap[t].id][tap[t].day].stored

\* The dates a pass went through were due, and they are stored.
PassStored(p) ==
  pass[p].at # "idle" =>
    /\ pass[p].terms.every > 0
    /\ \A e \in pass[p].left : e[2].every > 0
    /\ \A k \in 0 .. pass[p].n - 1 :
         /\ Due(pass[p].terms, k, pass[p].horizon)
         /\ occs[pass[p].id][Date(pass[p].terms, k)].stored
    /\ pass[p].at = "note" => ~ Due(pass[p].terms, pass[p].n, pass[p].horizon)

RecurringInv ==
  /\ RecurringTypeOK
  /\ PaidOnce
  /\ RulesAdvance
  /\ TapsStored
  /\ \A p \in Passes : PassStored(p)

\* Every occurrence stored stays as it is, and a new one is not paid.
Adds ==
  /\ occs' \in [Rules -> Table]
  /\ \A r \in Rules, d \in Days : occs[r][d].stored => occs'[r][d] = occs[r][d]
  /\ \A r \in Rules, d \in Days : ~ occs[r][d].stored => ~ Paid(occs'[r][d])

-----------------------------------------------------------------------------
(* The shapes of passes and calls *)

\* A pass that takes the next rule takes one of those it read.
LEMMA TakingType ==
  ASSUME NEW horizon \in Nat, NEW left \in SUBSET (Rules \X Drafts),
         NEW next \in Taking(horizon, left), next # Idle
  PROVE  /\ next \in Insert
         /\ next.n = 0 /\ next.left \subseteq left
         /\ \E e \in left : next.terms = e[2]
<1>1. PICK e \in left :
        next = [at |-> "insert", horizon |-> horizon, left |-> left \ {e},
                id |-> e[1], terms |-> e[2], n |-> 0]
  BY DEF Taking
<1>2. e[1] \in Rules /\ e[2] \in Drafts
  OBVIOUS
<1>3. QED
  BY <1>1, <1>2 DEF Insert

\* A pass at work knows its rule, its terms and how far it went.
LEMMA PassType ==
  ASSUME RecurringTypeOK, NEW p \in Passes, pass[p].at # "idle"
  PROVE  /\ pass[p].at = "insert" => pass[p] \in Insert
         /\ pass[p].at = "note" => pass[p] \in Note
         /\ pass[p].at \in {"insert", "note"}
         /\ pass[p].horizon \in Nat /\ pass[p].left \in SUBSET (Rules \X Drafts)
         /\ pass[p].id \in Rules /\ pass[p].terms \in Drafts /\ pass[p].n \in Nat
<1>1. pass[p] \in {Idle} \cup Insert \cup Note
  BY DEF RecurringTypeOK
<1>2. pass[p] # Idle
  BY DEF Idle
<1>3. pass[p] \in Insert \/ pass[p] \in Note
  BY <1>1, <1>2
<1>4. QED
  BY <1>3 DEF Insert, Note

\* A pending call names a rule and a day.
LEMMA TapType ==
  ASSUME RecurringTypeOK, NEW t \in Taps, tap[t].op # "free"
  PROVE  /\ tap[t].id \in Rules /\ tap[t].day \in Days
         /\ tap[t].op = "edit" => /\ tap[t].amount \in Amounts
                                  /\ tap[t] = [op |-> "edit", id |-> tap[t].id, day |-> tap[t].day,
                                               amount |-> tap[t].amount]
<1>1. tap[t] \in Tap
  BY DEF RecurringTypeOK, Free
<1>2. QED
  BY <1>1 DEF Tap

-----------------------------------------------------------------------------
(* What each action does to the occurrences *)

\* Saving a rule and inserting a date add occurrences.
LEMMA SaveAdds ==
  ASSUME RecurringTypeOK, NEW r \in Rules, SaveRecurring(r)
  PROVE  Adds
<1>1. PICK draft \in Drafts : occs' = Filled(Saved(r, draft), today + SaveHorizon)
  BY DEF SaveRecurring
<1>2. Saved(r, draft) \in Listing
  BY SavedType
<1>3. occs' = [q \in Rules |-> occs'[q]]
  BY <1>1 DEF Filled
<1>4. ASSUME NEW q \in Rules
      PROVE  /\ occs'[q] \in Table
             /\ \A d \in Days : occs[q][d].stored => occs'[q][d] = occs[q][d]
             /\ \A d \in Days : ~ occs[q][d].stored => ~ Paid(occs'[q][d])
  BY <1>1, <1>2, FilledAdds
<1>5. occs' \in [Rules -> Table]
  BY <1>3, <1>4
<1>6. QED
  BY <1>4, <1>5 DEF Adds

LEMMA InsertAdds ==
  ASSUME RecurringTypeOK, NEW p \in Passes, InsertOccurrence(p)
  PROVE  /\ Adds
         /\ Date(pass[p].terms, pass[p].n) \in Days
         /\ occs'[pass[p].id][Date(pass[p].terms, pass[p].n)].stored
<1> DEFINE self == pass[p]
           d == Date(self.terms, self.n)
           after == Store(occs[self.id], self.terms, d)
<1>1. self.id \in Rules /\ self.terms \in Drafts /\ self.n \in Nat
  BY PassType DEF InsertOccurrence
<1>2. d \in Days
  BY <1>1, DueOnCalendar DEF InsertOccurrence
<1>3. occs[self.id] \in Table /\ occs \in [Rules -> Table]
  BY <1>1 DEF RecurringTypeOK, Table
<1>4. /\ after \in Table
      /\ after[d].stored
      /\ \A e \in Days : occs[self.id][e].stored => after[e] = occs[self.id][e]
      /\ \A e \in Days : ~ occs[self.id][e].stored => ~ Paid(after[e])
  BY <1>1, <1>2, <1>3, StoreAdds
<1>5. occs' = [occs EXCEPT ![self.id] = after]
  BY DEF InsertOccurrence
<1>6. \A e \in Days, q \in Rules : ~ occs[q][e].stored => ~ Paid(occs[q][e])
  BY DEF Paid
<1> HIDE DEF after, d, self
<1>7. Adds /\ occs'[self.id][d].stored
  BY <1>1, <1>2, <1>3, <1>4, <1>5, <1>6 DEF Adds
<1>8. QED
  BY <1>2, <1>7 DEF d, self

\* Where occurrences are only added, none is lost and the history agrees.
LEMMA AddsKeeps ==
  ASSUME RecurringTypeOK, PaidOnce, Adds, UNCHANGED history
  PROVE  PaidOnce' /\ KeepsOccurrences
<1>1. \A r \in Rules, d \in Days : Paid(occs'[r][d]) <=> Paid(occs[r][d])
  BY DEF Adds, Paid
<1>2. PaidOnce'
  BY <1>1 DEF PaidOnce
<1>3. KeepsOccurrences
  BY DEF Adds, KeepsOccurrences
<1>4. QED
  BY <1>2, <1>3

\* A payment changes one status, and the history with it.
LEMMA PayKeeps ==
  ASSUME RecurringTypeOK, PaidOnce, TapsStored, NEW t \in Taps, MarkOccurrencePaid(t)
  PROVE  /\ occs' \in [Rules -> Table] /\ history' \in [Rules -> [Days -> Nat]]
         /\ PaidOnce' /\ KeepsOccurrences
<1> DEFINE r == tap[t].id
           d == tap[t].day
<1>1. r \in Rules /\ d \in Days /\ occs[r][d].stored
  BY TapType DEF MarkOccurrencePaid, TapsStored
<1>2. occs \in [Rules -> [Days -> Occurrence \cup {Absent}]] /\ history \in [Rules -> [Days -> Nat]]
  BY DEF RecurringTypeOK
<1>3. occs[r][d] \in Occurrence
  BY <1>1, <1>2 DEF Absent
<1>4. CASE Paid(occs[r][d])
  BY <1>2, <1>4 DEF MarkOccurrencePaid, PaidOnce, KeepsOccurrences, Table
<1>5. CASE ~ Paid(occs[r][d])
  <2> DEFINE paid == [occs[r][d] EXCEPT !.status = "paid"]
  <2>1. /\ paid \in Occurrence /\ Paid(paid) /\ paid.stored
        /\ paid.amount = occs[r][d].amount /\ paid.override = occs[r][d].override
    BY <1>3 DEF Occurrence, Paid
  <2>2. /\ occs' = [occs EXCEPT ![r] = [occs[r] EXCEPT ![d] = paid]]
        /\ history' = [history EXCEPT ![r] = [history[r] EXCEPT ![d] = history[r][d] + 1]]
    BY <1>5 DEF MarkOccurrencePaid
  <2>3. history[r][d] = 0
    BY <1>1, <1>5 DEF PaidOnce
  <2> HIDE DEF paid, r, d
  <2>4. occs' \in [Rules -> Table] /\ history' \in [Rules -> [Days -> Nat]]
    BY <1>1, <1>2, <2>1, <2>2 DEF Table
  <2>5. ASSUME NEW q \in Rules, NEW e \in Days
        PROVE  /\ history'[q][e] = IF Paid(occs'[q][e]) THEN 1 ELSE 0
               /\ occs[q][e].stored =>
                    LET new == occs'[q][e]
                    IN  /\ new.stored
                        /\ Paid(occs[q][e]) => Paid(new)
                        /\ occs[q][e].override => new.override
                        /\ new.amount = occs[q][e].amount
    <3>1. CASE q = r /\ e = d
      BY <1>1, <1>2, <2>1, <2>2, <2>3, <3>1
    <3>2. CASE q # r \/ e # d
      <4>1. occs'[q][e] = occs[q][e] /\ history'[q][e] = history[q][e]
        BY <1>1, <1>2, <2>2, <3>2
      <4>2. QED
        BY <4>1 DEF PaidOnce
    <3>3. QED
      BY <3>1, <3>2
  <2>6. QED
    BY <2>4, <2>5 DEF PaidOnce, KeepsOccurrences
<1>6. QED
  BY <1>4, <1>5

\* An edit changes one amount, the one of the pending call.
LEMMA EditKeeps ==
  ASSUME RecurringTypeOK, PaidOnce, TapsStored, NEW t \in Taps, EditOccurrence(t)
  PROVE  occs' \in [Rules -> Table] /\ PaidOnce' /\ KeepsOccurrences
<1> DEFINE r == tap[t].id
           d == tap[t].day
           edited == [[occs[r][d] EXCEPT !.amount = tap[t].amount] EXCEPT !.override = TRUE]
<1>1. r \in Rules /\ d \in Days /\ occs[r][d].stored
  BY TapType DEF EditOccurrence, TapsStored
<1>2. occs \in [Rules -> [Days -> Occurrence \cup {Absent}]]
  BY DEF RecurringTypeOK
<1>3. occs[r][d] \in Occurrence
  BY <1>1, <1>2 DEF Absent
<1>4. tap[t].amount \in Nat /\ tap[t] = [op |-> "edit", id |-> r, day |-> d, amount |-> tap[t].amount]
  BY TapType, DraftAssumption DEF EditOccurrence
<1>5. /\ edited \in Occurrence /\ edited.stored /\ edited.override
      /\ Paid(edited) <=> Paid(occs[r][d])
      /\ edited.amount = tap[t].amount
  BY <1>3, <1>4 DEF Occurrence, Paid
<1>6. occs' = [occs EXCEPT ![r] = [occs[r] EXCEPT ![d] = edited]] /\ history' = history
  BY <1>1, <1>2 DEF EditOccurrence
<1> HIDE DEF edited, r, d
<1>7. occs' \in [Rules -> Table]
  BY <1>1, <1>2, <1>5, <1>6 DEF Table
<1>8. ASSUME NEW q \in Rules, NEW e \in Days
      PROVE  /\ Paid(occs'[q][e]) <=> Paid(occs[q][e])
             /\ occs[q][e].stored =>
                  LET new == occs'[q][e]
                  IN  /\ new.stored
                      /\ occs[q][e].override => new.override
                      /\ new.amount # occs[q][e].amount =>
                           tap[t] = [op |-> "edit", id |-> q, day |-> e, amount |-> new.amount]
  <2>1. CASE q = r /\ e = d
    BY <1>1, <1>2, <1>4, <1>5, <1>6, <2>1
  <2>2. CASE q # r \/ e # d
    BY <1>1, <1>2, <1>6, <2>2
  <2>3. QED
    BY <2>1, <2>2
<1>9. PaidOnce'
  BY <1>6, <1>8 DEF PaidOnce
<1>10. KeepsOccurrences
  BY <1>8 DEF KeepsOccurrences
<1>11. QED
  BY <1>7, <1>9, <1>10

\* Every step keeps what is stored and paid, and the shape of the tables of
\* occurrences and payments.
LEMMA OccurrenceStep ==
  ASSUME RecurringInv, [RecurringNext]_vars
  PROVE  /\ occs' \in [Rules -> Table] /\ history' \in [Rules -> [Days -> Nat]]
         /\ PaidOnce' /\ KeepsOccurrences
<1> USE DEF RecurringInv
<1>1. occs \in [Rules -> Table] /\ history \in [Rules -> [Days -> Nat]]
  BY DEF RecurringTypeOK, Table
<1>2. ASSUME Adds, UNCHANGED history
      PROVE  /\ occs' \in [Rules -> Table] /\ history' \in [Rules -> [Days -> Nat]]
             /\ PaidOnce' /\ KeepsOccurrences
  BY <1>1, <1>2, AddsKeeps DEF Adds
<1>3. ASSUME UNCHANGED <<occs, history>>
      PROVE  Adds /\ UNCHANGED history
  BY <1>1, <1>3 DEF Adds, Paid
<1>4. ASSUME NEW r \in Rules, SaveRecurring(r)
      PROVE  Adds /\ UNCHANGED history
  BY <1>4, SaveAdds DEF SaveRecurring
<1>5. ASSUME NEW p \in Passes, InsertOccurrence(p)
      PROVE  Adds /\ UNCHANGED history
  BY <1>5, InsertAdds DEF InsertOccurrence
<1>6. ASSUME NEW r \in Rules, StopRecurring(r)
      PROVE  UNCHANGED <<occs, history>>
  BY <1>6 DEF StopRecurring
<1>7. ASSUME NEW t \in Taps, TapOccurrence(t)
      PROVE  UNCHANGED <<occs, history>>
  BY <1>7 DEF TapOccurrence
<1>8. ASSUME NEW p \in Passes, BeginPass(p) \/ ReadUpcoming(p) \/ NoteRule(p)
      PROVE  UNCHANGED <<occs, history>>
  BY <1>8 DEF BeginPass, ReadUpcoming, NoteRule
<1>9. ASSUME NEW t \in Taps, MarkOccurrencePaid(t)
      PROVE  /\ occs' \in [Rules -> Table] /\ history' \in [Rules -> [Days -> Nat]]
             /\ PaidOnce' /\ KeepsOccurrences
  BY <1>9, PayKeeps
<1>10. ASSUME NEW t \in Taps, EditOccurrence(t)
       PROVE  /\ occs' \in [Rules -> Table] /\ history' \in [Rules -> [Days -> Nat]]
              /\ PaidOnce' /\ KeepsOccurrences
  <2>1. UNCHANGED history
    BY <1>10 DEF EditOccurrence
  <2>2. QED
    BY <1>1, <1>10, <2>1, EditKeeps
<1>11. ASSUME Tick \/ Kill \/ UNCHANGED vars
       PROVE  UNCHANGED <<occs, history>>
  BY <1>11 DEF Tick, Kill, vars
<1>12. QED
  BY <1>2, <1>3, <1>4, <1>5, <1>6, <1>7, <1>8, <1>9, <1>10, <1>11 DEF RecurringNext, PassStep

-----------------------------------------------------------------------------
(* What each action does to the rules, the passes and the calls *)

\* Rules keep their shape and advance.
LEMMA RuleStep ==
  ASSUME RecurringInv, [RecurringNext]_vars
  PROVE  rules' \in Listing /\ RulesAdvance'
<1> USE DEF RecurringInv
<1>1. rules \in Listing
  BY DEF RecurringTypeOK, Listing
<1>2. ASSUME NEW r \in Rules, SaveRecurring(r)
      PROVE  rules' \in Listing /\ RulesAdvance'
  <2>1. PICK draft \in Drafts :
          /\ Accepted(draft)
          /\ rules' = Noted(Saved(r, draft), occs', today + SaveHorizon)
    BY <1>2 DEF SaveRecurring
  <2>2. /\ Saved(r, draft) \in Listing
        /\ Saved(r, draft)[r].saved /\ Saved(r, draft)[r].terms = draft
        /\ \A q \in Rules \ {r} : Saved(r, draft)[q] = rules[q]
    BY SavedType
  <2>3. \A q \in Rules : Saved(r, draft)[q].saved => Saved(r, draft)[q].terms.every > 0
    BY <2>1, <2>2 DEF RulesAdvance, Accepted
  <2>4. /\ rules' \in Listing
        /\ \A q \in Rules :
             /\ rules'[q].saved = Saved(r, draft)[q].saved
             /\ Saved(r, draft)[q].saved => rules'[q].terms = Saved(r, draft)[q].terms
    BY <2>1, <2>2, NotedKeeps
  <2>5. QED
    BY <2>3, <2>4 DEF RulesAdvance
<1>3. ASSUME NEW r \in Rules, StopRecurring(r)
      PROVE  rules' \in Listing /\ RulesAdvance'
  <2>1. rules[r] \in Rule
    BY <1>1, <1>3 DEF StopRecurring, Listing, NoRule
  <2>2. [rules[r] EXCEPT !.active = FALSE] \in Rule
    BY <2>1 DEF Rule
  <2>3. QED
    BY <1>1, <1>3, <2>1, <2>2 DEF StopRecurring, Listing, Rule, RulesAdvance
<1>4. ASSUME NEW p \in Passes, NoteRule(p)
      PROVE  rules' \in Listing /\ RulesAdvance'
  <2> DEFINE id == pass[p].id
  <2>1. id \in Rules /\ pass[p] \in Note
    BY <1>4, PassType DEF NoteRule
  <2>2. rules' = [rules EXCEPT ![id] = [rules[id] EXCEPT !.next = pass[p].next]]
    BY <1>1, <1>4, <2>1 DEF NoteRule, Listing
  <2>3. rules[id] \in Rule \/ rules[id] = NoRule
    BY <1>1, <2>1 DEF Listing
  <2>4. [rules[id] EXCEPT !.next = pass[p].next] \in Rule \cup {NoRule}
    <3>1. CASE rules[id] \in Rule
      BY <2>1, <3>1 DEF Rule, Note
    <3>2. CASE rules[id] = NoRule
      BY <3>2 DEF NoRule
    <3>3. QED
      BY <2>3, <3>1, <3>2
  <2>5. [rules[id] EXCEPT !.next = pass[p].next].saved = rules[id].saved
        /\ (rules[id].saved => [rules[id] EXCEPT !.next = pass[p].next].terms = rules[id].terms)
    BY <2>3 DEF Rule, NoRule
  <2> HIDE DEF id
  <2>6. QED
    BY <1>1, <2>1, <2>2, <2>4, <2>5 DEF Listing, RulesAdvance
<1>5. ASSUME UNCHANGED rules
      PROVE  rules' \in Listing /\ RulesAdvance'
  BY <1>1, <1>5 DEF RulesAdvance
<1>6. ASSUME NEW t \in Taps, TapOccurrence(t) \/ MarkOccurrencePaid(t) \/ EditOccurrence(t)
      PROVE  UNCHANGED rules
  BY <1>6 DEF TapOccurrence, MarkOccurrencePaid, EditOccurrence
<1>7. ASSUME NEW p \in Passes, BeginPass(p) \/ ReadUpcoming(p) \/ InsertOccurrence(p)
      PROVE  UNCHANGED rules
  BY <1>7 DEF BeginPass, ReadUpcoming, InsertOccurrence
<1>8. ASSUME Tick \/ Kill \/ UNCHANGED vars
      PROVE  UNCHANGED rules
  BY <1>8 DEF Tick, Kill, vars
<1>9. QED
  BY <1>2, <1>3, <1>4, <1>5, <1>6, <1>7, <1>8 DEF RecurringNext, PassStep

\* Pending calls keep their shape, and what they are about stays stored.
LEMMA TapStep ==
  ASSUME RecurringInv, [RecurringNext]_vars
  PROVE  tap' \in [Taps -> {Free} \cup Tap] /\ TapsStored'
<1> USE DEF RecurringInv
<1>1. tap \in [Taps -> {Free} \cup Tap]
  BY DEF RecurringTypeOK
<1>2. \A r \in Rules, d \in Days : occs[r][d].stored => occs'[r][d].stored
  BY OccurrenceStep DEF KeepsOccurrences
<1>3. \A t \in Taps : tap[t].op # "free" => tap[t].id \in Rules /\ tap[t].day \in Days
  BY TapType
<1>4. ASSUME NEW t \in Taps, TapOccurrence(t)
      PROVE  tap' \in [Taps -> {Free} \cup Tap] /\ TapsStored'
  <2>1. PICK r \in Rules, d \in Days, call \in Tap :
          /\ Upcoming(occs[r][d])
          /\ call.id = r /\ call.day = d
          /\ tap' = [tap EXCEPT ![t] = call]
    <3>1. PICK r \in Rules, d \in Days :
            /\ Upcoming(occs[r][d])
            /\ tap' = [tap EXCEPT ![t] = [op |-> "pay", id |-> r, day |-> d]]
                 \/ \E a \in Amounts :
                      tap' = [tap EXCEPT ![t] = [op |-> "edit", id |-> r, day |-> d, amount |-> a]]
      BY <1>4 DEF TapOccurrence
    <3>2. [op |-> "pay", id |-> r, day |-> d] \in Tap
      BY DEF Tap
    <3>3. \A a \in Amounts : [op |-> "edit", id |-> r, day |-> d, amount |-> a] \in Tap
      BY DEF Tap
    <3>4. QED
      BY <3>1, <3>2, <3>3
  <2>2. occs[r][d].stored
    BY <2>1 DEF Upcoming
  <2>3. QED
    BY <1>1, <1>2, <1>3, <2>1, <2>2 DEF TapsStored
<1>5. ASSUME NEW t \in Taps, tap' = [tap EXCEPT ![t] = Free]
      PROVE  tap' \in [Taps -> {Free} \cup Tap] /\ TapsStored'
  <2>1. Free.op = "free"
    BY DEF Free
  <2>2. QED
    BY <1>1, <1>2, <1>3, <1>5, <2>1 DEF TapsStored
<1>6. ASSUME UNCHANGED tap
      PROVE  tap' \in [Taps -> {Free} \cup Tap] /\ TapsStored'
  BY <1>1, <1>2, <1>3, <1>6 DEF TapsStored
<1>7. ASSUME Kill
      PROVE  tap' \in [Taps -> {Free} \cup Tap] /\ TapsStored'
  BY <1>7 DEF Kill, TapsStored, Free
<1>8. ASSUME NEW t \in Taps, MarkOccurrencePaid(t) \/ EditOccurrence(t)
      PROVE  tap' = [tap EXCEPT ![t] = Free]
  BY <1>8 DEF MarkOccurrencePaid, EditOccurrence
<1>9. ASSUME NEW r \in Rules, SaveRecurring(r) \/ StopRecurring(r)
      PROVE  UNCHANGED tap
  BY <1>9 DEF SaveRecurring, StopRecurring
<1>10. ASSUME NEW p \in Passes, BeginPass(p) \/ PassStep(p)
       PROVE  UNCHANGED tap
  BY <1>10 DEF BeginPass, PassStep, InsertOccurrence, ReadUpcoming, NoteRule
<1>11. ASSUME Tick \/ UNCHANGED vars
       PROVE  UNCHANGED tap
  BY <1>11 DEF Tick, vars
<1>12. QED
  BY <1>4, <1>5, <1>6, <1>7, <1>8, <1>9, <1>10, <1>11 DEF RecurringNext

\* A pass that nobody moved still has its dates stored.
LEMMA PassKept ==
  ASSUME RecurringInv, KeepsOccurrences, NEW p \in Passes, pass'[p] = pass[p]
  PROVE  PassStored(p)'
<1>1. CASE pass[p].at = "idle"
  BY <1>1 DEF PassStored
<1>2. CASE pass[p].at # "idle"
  <2>1. pass[p].id \in Rules /\ pass[p].terms \in Drafts /\ pass[p].n \in Nat
    BY <1>2, PassType DEF RecurringInv
  <2>2. ASSUME NEW k \in 0 .. pass[p].n - 1
        PROVE  occs'[pass[p].id][Date(pass[p].terms, k)].stored
    <3>1. /\ Due(pass[p].terms, k, pass[p].horizon)
          /\ occs[pass[p].id][Date(pass[p].terms, k)].stored
      BY <1>2 DEF RecurringInv, PassStored
    <3>2. k \in Nat
      BY <2>1
    <3>3. Date(pass[p].terms, k) \in Days
      BY <2>1, <3>1, <3>2, DueOnCalendar
    <3>4. QED
      BY <2>1, <3>1, <3>3 DEF KeepsOccurrences
  <2>3. PassStored(p)
    BY DEF RecurringInv
  <2> QED
    BY <1>2, <2>2, <2>3 DEF PassStored
<1>3. QED
  BY <1>1, <1>2

\* A pass that takes a rule went through none of its dates yet.
LEMMA TakingStored ==
  ASSUME NEW p \in Passes, NEW horizon \in Nat, NEW left \in SUBSET (Rules \X Drafts),
         \A e \in left : e[2].every > 0,
         pass'[p] \in Taking(horizon, left)
  PROVE  pass'[p] \in {Idle} \cup Insert /\ PassStored(p)'
<1>1. CASE pass'[p] = Idle
  BY <1>1 DEF Idle, PassStored
<1>2. CASE pass'[p] # Idle
  <2>1. /\ pass'[p] \in Insert
        /\ pass'[p].n = 0 /\ pass'[p].left \subseteq left
        /\ \E e \in left : pass'[p].terms = e[2]
    BY <1>2, TakingType
  <2>2. pass'[p].at = "insert"
    BY <2>1 DEF Insert
  <2>3. QED
    BY <2>1, <2>2 DEF PassStored
<1>3. QED
  BY <1>1, <1>2

\* The step of one pass.
LEMMA OwnStep ==
  ASSUME RecurringInv, KeepsOccurrences, NEW p \in Passes, BeginPass(p) \/ PassStep(p)
  PROVE  /\ pass' = [pass EXCEPT ![p] = pass'[p]]
         /\ pass'[p] \in {Idle} \cup Insert \cup Note
         /\ PassStored(p)'
<1> DEFINE self == pass[p]
           Type == pass'[p] \in {Idle} \cup Insert \cup Note
<1>1. pass \in [Passes -> {Idle} \cup Insert \cup Note] /\ today \in Nat /\ rules \in Listing
  BY CalendarAssumption DEF RecurringInv, RecurringTypeOK, Listing
<1>2. CASE BeginPass(p)
  <2> DEFINE left == {<<r, rules[r].terms>> : r \in Active(rules)}
  <2>1. today + Horizon \in Nat
    BY <1>1, CalendarAssumption
  <2>2. left \in SUBSET (Rules \X Drafts)
    BY <1>1, ActiveType
  <2>3. \A e \in left : e[2].every > 0
    BY DEF RecurringInv, RulesAdvance, Active
  <2>4. PICK next \in Taking(today + Horizon, left) : pass' = [pass EXCEPT ![p] = next]
    BY <1>2 DEF BeginPass
  <2>5. pass'[p] = next
    BY <1>1, <2>4
  <2> HIDE DEF left
  <2>6. Type /\ PassStored(p)'
    BY <2>1, <2>2, <2>3, <2>4, <2>5, TakingStored
  <2>7. QED
    BY <1>1, <2>4, <2>5, <2>6
<1>3. CASE InsertOccurrence(p)
  <2>1. self \in Insert /\ self.at = "insert"
    BY <1>3, PassType DEF InsertOccurrence, RecurringInv
  <2>2. pass' = [pass EXCEPT ![p] = [self EXCEPT !.n = self.n + 1]]
    BY <1>3 DEF InsertOccurrence
  <2>3. pass'[p] = [self EXCEPT !.n = self.n + 1]
    BY <1>1, <2>2
  <2>4. /\ pass'[p].at = "insert" /\ pass'[p].n = self.n + 1
        /\ pass'[p].terms = self.terms /\ pass'[p].horizon = self.horizon
        /\ pass'[p].id = self.id /\ pass'[p].left = self.left
    BY <2>1, <2>3 DEF Insert
  <2>5. Type
    BY <2>1, <2>3 DEF Insert
  <2>6. self.id \in Rules /\ self.terms \in Drafts /\ self.n \in Nat
    BY <2>1 DEF Insert
  <2>7. PassStored(p)
    BY DEF RecurringInv
  <2>8. /\ self.terms.every > 0
        /\ \A e \in self.left : e[2].every > 0
        /\ \A k \in 0 .. self.n - 1 :
             Due(self.terms, k, self.horizon) /\ occs[self.id][Date(self.terms, k)].stored
    BY <2>1, <2>7 DEF PassStored
  <2>9. ASSUME NEW k \in 0 .. self.n
        PROVE  Due(self.terms, k, self.horizon) /\ occs'[self.id][Date(self.terms, k)].stored
    <3>1. CASE k = self.n
      BY <1>3, <3>1, InsertAdds DEF InsertOccurrence, RecurringInv
    <3>2. CASE k # self.n
      <4>1. k \in 0 .. self.n - 1 /\ k \in Nat
        BY <2>6, <3>2
      <4>2. Due(self.terms, k, self.horizon) /\ occs[self.id][Date(self.terms, k)].stored
        BY <2>8, <4>1
      <4>3. Date(self.terms, k) \in Days
        BY <2>6, <4>1, <4>2, DueOnCalendar
      <4>4. QED
        BY <2>6, <4>2, <4>3 DEF KeepsOccurrences
    <3>3. QED
      BY <3>1, <3>2
  <2>10. 0 .. pass'[p].n - 1 = 0 .. self.n
    BY <2>4, <2>6
  <2> HIDE DEF self
  <2>11. PassStored(p)'
    BY <2>4, <2>8, <2>9, <2>10 DEF PassStored
  <2>12. QED
    BY <1>1, <2>2, <2>3, <2>5, <2>11
<1>4. CASE ReadUpcoming(p)
  <2> DEFINE next == NextPayment(occs[self.id], self.terms, self.n)
             new == [at |-> "note", horizon |-> self.horizon, left |-> self.left,
                     id |-> self.id, terms |-> self.terms, n |-> self.n, next |-> next]
  <2>1. self \in Insert /\ self.at = "insert"
    BY <1>4, PassType DEF ReadUpcoming, RecurringInv
  <2>2. self.terms \in Drafts /\ self.n \in Nat /\ self.id \in Rules
    BY <2>1 DEF Insert
  <2>3. next \in Nat
    BY <2>2, NextType
  <2>4. pass' = [pass EXCEPT ![p] = new] /\ ~ Due(self.terms, self.n, self.horizon) /\ UNCHANGED occs
    BY <1>4 DEF ReadUpcoming
  <2>5. pass'[p] = new
    BY <1>1, <2>4
  <2> HIDE DEF next
  <2>6. new \in Note
    BY <2>1, <2>3 DEF Insert, Note
  <2>7. PassStored(p)
    BY DEF RecurringInv
  <2>8. PassStored(p)'
    BY <2>1, <2>4, <2>5, <2>7 DEF PassStored
  <2>9. QED
    BY <1>1, <2>4, <2>5, <2>6, <2>8
<1>5. CASE NoteRule(p)
  <2>1. self \in Note /\ self.at = "note"
    BY <1>5, PassType DEF NoteRule, RecurringInv
  <2>2. self.horizon \in Nat /\ self.left \in SUBSET (Rules \X Drafts)
    BY <2>1 DEF Note
  <2>3. \A e \in self.left : e[2].every > 0
    BY <2>1 DEF RecurringInv, PassStored
  <2>4. PICK next \in Taking(self.horizon, self.left) : pass' = [pass EXCEPT ![p] = next]
    BY <1>5 DEF NoteRule
  <2>5. pass'[p] = next
    BY <1>1, <2>4
  <2>6. Type /\ PassStored(p)'
    BY <2>2, <2>3, <2>4, <2>5, TakingStored
  <2>7. QED
    BY <1>1, <2>4, <2>5, <2>6
<1>6. QED
  BY <1>2, <1>3, <1>4, <1>5 DEF PassStep

\* Every step keeps the passes.
LEMMA PassesStep ==
  ASSUME RecurringInv, [RecurringNext]_vars
  PROVE  /\ pass' \in [Passes -> {Idle} \cup Insert \cup Note]
         /\ \A p \in Passes : PassStored(p)'
<1>1. pass \in [Passes -> {Idle} \cup Insert \cup Note]
  BY DEF RecurringInv, RecurringTypeOK
<1>2. KeepsOccurrences
  BY OccurrenceStep
<1>3. ASSUME NEW p \in Passes, BeginPass(p) \/ PassStep(p)
      PROVE  /\ pass' \in [Passes -> {Idle} \cup Insert \cup Note]
             /\ \A q \in Passes : PassStored(q)'
  <2>1. /\ pass' = [pass EXCEPT ![p] = pass'[p]]
        /\ pass'[p] \in {Idle} \cup Insert \cup Note
        /\ PassStored(p)'
    BY <1>2, <1>3, OwnStep
  <2>2. \A q \in Passes \ {p} : pass'[q] = pass[q]
    BY <1>1, <2>1
  <2>3. pass' \in [Passes -> {Idle} \cup Insert \cup Note]
    BY <1>1, <2>1
  <2>4. QED
    BY <1>2, <2>1, <2>2, <2>3, PassKept
<1>4. ASSUME UNCHANGED pass
      PROVE  /\ pass' \in [Passes -> {Idle} \cup Insert \cup Note]
             /\ \A q \in Passes : PassStored(q)'
  BY <1>1, <1>2, <1>4, PassKept
<1>5. ASSUME Kill
      PROVE  /\ pass' \in [Passes -> {Idle} \cup Insert \cup Note]
             /\ \A q \in Passes : PassStored(q)'
  BY <1>5 DEF Kill, PassStored, Idle
<1>6. ASSUME NEW r \in Rules, SaveRecurring(r) \/ StopRecurring(r)
      PROVE  UNCHANGED pass
  BY <1>6 DEF SaveRecurring, StopRecurring
<1>7. ASSUME NEW t \in Taps, TapOccurrence(t) \/ MarkOccurrencePaid(t) \/ EditOccurrence(t)
      PROVE  UNCHANGED pass
  BY <1>7 DEF TapOccurrence, MarkOccurrencePaid, EditOccurrence
<1>8. ASSUME Tick \/ UNCHANGED vars
      PROVE  UNCHANGED pass
  BY <1>8 DEF Tick, vars
<1>9. QED
  BY <1>3, <1>4, <1>5, <1>6, <1>7, <1>8 DEF RecurringNext

-----------------------------------------------------------------------------
(* The invariant is inductive *)

LEMMA RecurringInitial ==
  ASSUME RecurringInit
  PROVE  RecurringInv
<1> USE CalendarAssumption DEF RecurringInit
<1>1. RecurringTypeOK
  BY DEF RecurringTypeOK
<1>2. PaidOnce
  BY DEF PaidOnce, Paid, Absent
<1>3. RulesAdvance
  BY DEF RulesAdvance, NoRule
<1>4. TapsStored
  BY DEF TapsStored, Free
<1>5. \A p \in Passes : PassStored(p)
  BY DEF PassStored, Idle
<1>6. QED
  BY <1>1, <1>2, <1>3, <1>4, <1>5 DEF RecurringInv

LEMMA TodayStep ==
  ASSUME RecurringInv, [RecurringNext]_vars
  PROVE  today' \in 0 .. LastToday
<1>1. today \in 0 .. LastToday
  BY DEF RecurringInv, RecurringTypeOK
<1>2. CASE Tick
  BY <1>1, <1>2, CalendarAssumption DEF Tick
<1>3. CASE Kill \/ UNCHANGED vars
  BY <1>1, <1>3 DEF Kill, vars
<1>4. ASSUME NEW r \in Rules, SaveRecurring(r) \/ StopRecurring(r)
      PROVE  UNCHANGED today
  BY <1>4 DEF SaveRecurring, StopRecurring
<1>5. ASSUME NEW t \in Taps, TapOccurrence(t) \/ MarkOccurrencePaid(t) \/ EditOccurrence(t)
      PROVE  UNCHANGED today
  BY <1>5 DEF TapOccurrence, MarkOccurrencePaid, EditOccurrence
<1>6. ASSUME NEW p \in Passes, BeginPass(p) \/ PassStep(p)
      PROVE  UNCHANGED today
  BY <1>6 DEF BeginPass, PassStep, InsertOccurrence, ReadUpcoming, NoteRule
<1>7. QED
  BY <1>1, <1>2, <1>3, <1>4, <1>5, <1>6 DEF RecurringNext

LEMMA RecurringStep ==
  ASSUME RecurringInv, [RecurringNext]_vars
  PROVE  RecurringInv'
<1>1. /\ occs' \in [Rules -> [Days -> Occurrence \cup {Absent}]]
      /\ history' \in [Rules -> [Days -> Nat]]
      /\ PaidOnce'
  BY OccurrenceStep DEF Table
<1>2. rules' \in [Rules -> Rule \cup {NoRule}] /\ RulesAdvance'
  BY RuleStep DEF Listing
<1>3. RecurringTypeOK'
  BY <1>1, <1>2, TodayStep, TapStep, PassesStep DEF RecurringTypeOK
<1>4. QED
  BY <1>1, <1>2, <1>3, TapStep, PassesStep DEF RecurringInv

-----------------------------------------------------------------------------
(* What the invariant means for a pass *)

\* Dates grow with their number, and are at least that number.
LEMMA DatesGrow ==
  ASSUME NEW terms \in Drafts, terms.every > 0, NEW m \in Nat, NEW n \in Nat
  PROVE  /\ m < n => Date(terms, m) < Date(terms, n)
         /\ m <= Date(terms, m)
<1> DEFINE e == terms.every
<1>1. e \in Nat /\ terms.start \in Nat /\ e >= 1
  BY CalendarAssumption, DraftAssumption
<1>2. m * e \in Nat /\ n * e \in Nat
  BY <1>1
<1>3. m <= m * e
  <2>1. m * e = m + m * (e - 1)
    BY <1>1
  <2>2. m * (e - 1) >= 0
    BY <1>1
  <2>3. QED
    BY <1>1, <1>2, <2>1, <2>2
<1>4. m < n => m * e < n * e
  <2>1. SUFFICES ASSUME m < n PROVE m * e < n * e
    OBVIOUS
  <2>2. PICK k \in Nat : n = m + k /\ k >= 1
    <3>1. n - m \in Nat /\ n = m + (n - m) /\ n - m >= 1
      BY <2>1
    <3>2. QED
      BY <3>1
  <2>3. k * e \in Nat /\ k * e >= 1
    BY <1>1, <2>2
  <2>4. n * e = m * e + k * e
    BY <1>1, <2>2
  <2> HIDE DEF e
  <2>5. QED
    BY <1>2, <2>3, <2>4
<1> HIDE DEF e
<1>5. Date(terms, m) = terms.start + m * e /\ Date(terms, n) = terms.start + n * e
  BY DEF Date, e
<1>6. QED
  BY <1>1, <1>2, <1>3, <1>4, <1>5

\* The number of dates a pass went through fits on the calendar.
LEMMA InvEnds ==
  ASSUME RecurringInv
  PROVE  PassesEnd
<1> SUFFICES ASSUME NEW p \in Passes, pass[p].at # "idle"
             PROVE  pass[p].n <= LastDay + 1
  BY DEF PassesEnd
<1>1. pass[p].n \in Nat /\ pass[p].terms \in Drafts
  BY PassType DEF RecurringInv
<1>2. CASE pass[p].n = 0
  BY <1>2, CalendarAssumption
<1>3. CASE pass[p].n # 0
  <2> DEFINE k == pass[p].n - 1
  <2>1. k \in Nat /\ k \in 0 .. k
    BY <1>1, <1>3
  <2>2. pass[p].terms.every > 0 /\ Due(pass[p].terms, k, pass[p].horizon)
    BY <2>1 DEF RecurringInv, PassStored
  <2>3. Date(pass[p].terms, k) \in Days
    BY <1>1, <2>1, <2>2, DueOnCalendar
  <2>4. k <= Date(pass[p].terms, k)
    BY <1>1, <2>1, <2>2, DatesGrow
  <2>5. QED
    BY <1>1, <2>1, <2>3, <2>4, CalendarAssumption DEF Days
<1>4. QED
  BY <1>2, <1>3

\* A pass at the end of a rule stored its schedule.
LEMMA InvSchedule ==
  ASSUME RecurringInv
  PROVE  PassStoresSchedule
<1> SUFFICES ASSUME NEW p \in Passes, pass[p].at = "note"
             PROVE  LET due == Schedule(pass[p].terms, pass[p].horizon)
                    IN  /\ \A d \in due : occs[pass[p].id][d].stored
                        /\ pass[p].n = Cardinality(due)
                        /\ pass[p].n <= pass[p].terms.limit
  BY DEF PassStoresSchedule
<1> DEFINE terms   == pass[p].terms
           horizon == pass[p].horizon
           n       == pass[p].n
           due     == Schedule(terms, horizon)
<1>1. n \in Nat /\ terms \in Drafts /\ terms.limit \in Nat /\ horizon \in Nat
  BY PassType, DraftAssumption DEF RecurringInv
<1>2. /\ terms.every > 0
      /\ \A k \in 0 .. n - 1 : Due(terms, k, horizon) /\ occs[pass[p].id][Date(terms, k)].stored
      /\ ~ Due(terms, n, horizon)
  BY DEF RecurringInv, PassStored
<1> HIDE DEF terms, horizon, n
<1>3. \A k \in 0 .. n - 1 : k \in Nat /\ k \in Days /\ Date(terms, k) \in Days
  <2> SUFFICES ASSUME NEW k \in 0 .. n - 1
               PROVE  k \in Nat /\ k \in Days /\ Date(terms, k) \in Days
    OBVIOUS
  <2>1. k \in Nat
    BY <1>1
  <2>2. Date(terms, k) \in Days /\ k <= Date(terms, k)
    BY <1>1, <1>2, <2>1, DueOnCalendar, DatesGrow
  <2>3. QED
    BY <2>1, <2>2, CalendarAssumption DEF Days
<1>4. \A k \in Days : Due(terms, k, horizon) => k \in 0 .. n - 1
  <2> SUFFICES ASSUME NEW k \in Days, Due(terms, k, horizon), k >= n
               PROVE  FALSE
    BY <1>1, CalendarAssumption DEF Days
  <2>1. k \in Nat
    BY CalendarAssumption DEF Days
  <2>2. Date(terms, n) <= Date(terms, k) /\ Date(terms, n) \in Nat /\ Date(terms, k) \in Nat
    <3>1. Date(terms, n) \in Nat /\ Date(terms, k) \in Nat
      BY <1>1, <2>1, DateType
    <3>2. CASE n = k
      BY <3>1, <3>2
    <3>3. CASE n < k
      BY <1>1, <1>2, <2>1, <3>1, <3>3, DatesGrow
    <3>4. QED
      BY <1>1, <2>1, <3>1, <3>2, <3>3
  <2>3. terms.end \in Nat
    BY <1>1, CalendarAssumption, DraftAssumption
  <2>4. Due(terms, n, horizon)
    BY <1>1, <2>1, <2>2, <2>3 DEF Due
  <2>5. QED
    BY <1>2, <2>4
<1>5. due = {Date(terms, k) : k \in 0 .. n - 1}
  BY <1>2, <1>3, <1>4 DEF Schedule
<1>6. \A d \in due : occs[pass[p].id][d].stored
  BY <1>2, <1>5
<1>7. n = Cardinality(due)
  <2> DEFINE f == [k \in 0 .. n - 1 |-> Date(terms, k)]
  <2>1. f \in [0 .. n - 1 -> due] /\ \A d \in due : \E k \in 0 .. n - 1 : f[k] = d
    BY <1>5
  <2>2. \A j, k \in 0 .. n - 1 : f[j] = f[k] => j = k
    <3> SUFFICES ASSUME NEW j \in 0 .. n - 1, NEW k \in 0 .. n - 1, Date(terms, j) = Date(terms, k)
                 PROVE  j = k
      OBVIOUS
    <3>1. j \in Nat /\ k \in Nat
      BY <1>3
    <3>2. Date(terms, j) \in Nat /\ (j < k => Date(terms, j) < Date(terms, k))
          /\ (k < j => Date(terms, k) < Date(terms, j))
      BY <1>1, <1>2, <3>1, DateType, DatesGrow
    <3>3. QED
      BY <3>1, <3>2
  <2>3. f \in Bijection(0 .. n - 1, due)
    BY <2>1, <2>2 DEF Bijection, Injection, Surjection, IsInjective
  <2>4. IsFiniteSet(0 .. n - 1) /\ Cardinality(0 .. n - 1) = n
    <3>1. 0 \in Int /\ n - 1 \in Int /\ (0 > n - 1 => n = 0)
      BY <1>1
    <3>2. /\ IsFiniteSet(0 .. n - 1)
          /\ Cardinality(0 .. n - 1) = IF 0 > n - 1 THEN 0 ELSE (n - 1) - 0 + 1
      BY <3>1, FS_Interval
    <3>3. QED
      BY <1>1, <3>1, <3>2
  <2> HIDE DEF due, f
  <2>5. Cardinality(due) = Cardinality(0 .. n - 1)
    BY <2>3, <2>4, FS_Bijection DEF ExistsBijection
  <2>6. QED
    BY <2>4, <2>5
<1>8. n <= terms.limit
  <2>1. CASE n = 0
    BY <1>1, <2>1
  <2>2. CASE n # 0
    <3>1. n - 1 \in 0 .. n - 1
      BY <1>1, <2>2
    <3>2. Due(terms, n - 1, horizon)
      BY <1>2, <3>1
    <3>3. QED
      BY <1>1, <3>2 DEF Due
  <2>3. QED
    BY <2>1, <2>2
<1>9. QED
  BY <1>6, <1>7, <1>8 DEF terms, horizon, n

-----------------------------------------------------------------------------
(* The theorems *)

\* The inductive invariant holds in every reachable state.
THEOREM RecurringInvariant == RecurringSpec => []RecurringInv
<1>1. RecurringInit => RecurringInv
  BY RecurringInitial
<1>2. RecurringInv /\ [RecurringNext]_vars => RecurringInv'
  BY RecurringStep
<1>3. QED
  BY <1>1, <1>2, PTL DEF RecurringSpec

\* The types, for every calendar and every number of rules, passes and calls.
THEOREM RecurringTyped == RecurringSpec => []RecurringTypeOK
<1>1. RecurringInv => RecurringTypeOK
  BY DEF RecurringInv
<1>2. QED
  BY <1>1, RecurringInvariant, PTL

\* An occurrence is paid once, however many calls are pending
\* (markOccurrencePaid).
THEOREM PaymentsAreOnce == RecurringSpec => []PaidOnce
<1>1. RecurringInv => PaidOnce
  BY DEF RecurringInv
<1>2. QED
  BY <1>1, RecurringInvariant, PTL

\* A pass stores the whole schedule of a rule, whatever runs beside it
\* (reconcileRecurring).
THEOREM PassesStoreSchedules == RecurringSpec => []PassStoresSchedule
<1>1. RecurringInv => PassStoresSchedule
  BY InvSchedule
<1>2. QED
  BY <1>1, RecurringInvariant, PTL

\* No pass inserts without end (the check of the interval in saveRecurring).
THEOREM PassesAreBounded == RecurringSpec => []PassesEnd
<1>1. RecurringInv => PassesEnd
  BY InvEnds
<1>2. QED
  BY <1>1, RecurringInvariant, PTL

\* No step loses, unpays or overwrites an occurrence (insertOrIgnore).
THEOREM OccurrencesAreKept == RecurringSpec => OccurrencesKept
<1>1. RecurringInv /\ [RecurringNext]_vars => [KeepsOccurrences]_vars
  BY OccurrenceStep
<1>2. QED
  BY <1>1, RecurringInvariant, PTL DEF RecurringSpec, OccurrencesKept

=============================================================================
