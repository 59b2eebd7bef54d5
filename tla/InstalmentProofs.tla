-------------------------- MODULE InstalmentProofs --------------------------
(***************************************************************************)
(* What TLC checks of Instalments on a small instance, for every number of *)
(* plans, instalments, amounts, pending calls and reschedules.             *)
(***************************************************************************)
EXTENDS Instalments, RunningTotalTheorems

-----------------------------------------------------------------------------
(* Splitting a purchase *)

\* The instalments of a purchase are natural numbers.
LEMMA SplitType ==
  ASSUME NEW amount \in Nat
  PROVE  Split(amount) \in [Index -> Nat]
<1>1. Count \in Nat /\ Count > 0
  BY InstalmentAssumption
<1>2. amount \div Count \in Nat /\ amount % Count \in Nat
  BY <1>1
<1>3. QED
  BY <1>2 DEF Split

\* Whatever the purchase and the number of instalments, they add up to it: the
\* check of saveBnpl refuses nothing that the form produces.
THEOREM SplitAddsUp ==
  ASSUME NEW amount \in Nat
  PROVE  Total(Split(amount), Count) = amount
<1> DEFINE base == amount \div Count
           rest == amount % Count
           a == RunningTotal(Split(amount), Count)
           h == [i \in 0 .. Count |-> IF i = Count THEN amount ELSE i * base]
<1>1. Count \in Nat /\ Count > 0
  BY InstalmentAssumption
<1>2. base \in Nat /\ rest \in Nat
  BY <1>1
<1>3. Count * base + rest = amount
  BY <1>1
<1>4. Split(amount) = [i \in Index |-> base + (IF i = Count THEN rest ELSE 0)]
  BY DEF Split
<1>5. Accumulates(a, Split(amount), Count)
  BY <1>1, SplitType, RunningTotalStep, Split(amount) \in [1 .. Count -> Int] DEF Index
<1> HIDE DEF base, rest, a
<1>6. h[0] = 0
  BY <1>1, <1>2
<1>7. ASSUME NEW i \in 1 .. Count PROVE h[i] = h[i - 1] + Split(amount)[i]
  <2>1. i - 1 \in 0 .. Count /\ i - 1 # Count /\ h[i - 1] = (i - 1) * base
    BY <1>1
  <2>2. Split(amount)[i] = base + (IF i = Count THEN rest ELSE 0)
    BY <1>4 DEF Index
  <2>3. (i - 1) * base + base = i * base /\ (i - 1) * base \in Int
    BY <1>2
  <2>4. CASE i = Count
    BY <1>1, <1>2, <1>3, <2>1, <2>2, <2>3, <2>4
  <2>5. CASE i # Count
    BY <1>1, <1>2, <2>1, <2>2, <2>3, <2>5
  <2>6. QED
    BY <2>4, <2>5
<1>8. Accumulates(h, Split(amount), Count)
  BY <1>6, <1>7 DEF Accumulates
<1>9. h[Count] = amount
  BY <1>1
<1> HIDE DEF h
<1>10. a[Count] = h[Count]
  BY <1>1, <1>5, <1>8, SameTotals
<1>11. QED
  BY <1>9, <1>10 DEF Total, a

-----------------------------------------------------------------------------
(* The inductive invariant *)

\* The reschedule q will come to the instalment, if it is not stopped.
Coming(q, id) ==
  \/ pass[q].at = "read"
  \/ pass[q].at = "next" /\ id \in pass[q].left
  \/ pass[q].at = "remind" /\ (id = pass[q].id \/ id \in pass[q].left)

\* What is owed is unpaid, and has its reminder unless a reschedule is coming
\* to it.
OwedIsUnpaid == owed \subseteq Unpaid
RemindersComing == \A id \in owed : id \in reminders \/ \E q \in Passes : Coming(q, id)

InstalmentsInv ==
  /\ InstalmentsTypeOK
  /\ InstalmentsAddUp
  /\ CompletedMeansPaid
  /\ NoPaymentForgotten
  /\ OwedIsUnpaid
  /\ RemindersComing

\* An id is its plan, its generation and its position.
LEMMA IdParts ==
  /\ \A id \in Id : id.plan \in Plans /\ id.gen \in 1 .. MaxGen /\ id.index \in Index
  /\ \A a, b \in Id : a.plan = b.plan /\ a.gen = b.gen /\ a.index = b.index => a = b
BY DEF Id

\* Nothing that is scheduled or owed is anything but an id.
LEMMA UnpaidIds ==
  /\ Stored \subseteq Id
  /\ PaidIds \subseteq Id
  /\ Unpaid \subseteq Id
BY DEF Stored, PaidIds, Unpaid

\* A pass that reads or schedules, taken apart.
LEMMA PassType ==
  ASSUME InstalmentsTypeOK, NEW q \in Passes
  PROVE  /\ pass[q].at = "next" => pass[q] \in Scheduling
         /\ pass[q].at = "remind" => pass[q] \in Checked
BY DEF InstalmentsTypeOK, Idle, Reading, Scheduling, Checked

\* The initial state.
LEMMA InstalmentsInitial == InstalmentsInit => InstalmentsInv
<1> SUFFICES ASSUME InstalmentsInit PROVE InstalmentsInv
  OBVIOUS
<1>1. \A p \in Plans : ~ plans[p].saved
  BY DEF InstalmentsInit, NoPlan
<1>2. Saved = {} /\ Stored = {} /\ PaidIds = {}
  BY <1>1, IdParts DEF Saved, Stored, PaidIds
<1>3. InstalmentsTypeOK
  BY DEF InstalmentsInit, InstalmentsTypeOK, NoPlan, NoRow, Row
<1>4. QED
  BY <1>2, <1>3 DEF InstalmentsInit, InstalmentsInv, InstalmentsAddUp, CompletedMeansPaid,
     NoPaymentForgotten, OwedIsUnpaid, RemindersComing

-----------------------------------------------------------------------------
(* The tables *)

\* What the steps of the tables promise together.
TablesOK ==
  /\ plans \in [Plans -> Plan \cup {NoPlan}]
  /\ instalments \in [Plans -> [Index -> Row]]
  /\ InstalmentsAddUp
  /\ CompletedMeansPaid

\* A draft leaves a plan that adds up; it is active and has its payments.
LEMMA SavedPlanOK ==
  ASSUME InstalmentsInv, NEW p \in Plans, NEW amount \in Amounts, amount > 0,
         SavePaid(p, amount) \/ SaveUnpaid(p, amount)
  PROVE  /\ TablesOK'
         /\ PaidIds' = PaidIds
         /\ LocksPaidPlans
<1>0. InstalmentsTypeOK /\ amount \in Nat
  BY InstalmentAssumption DEF InstalmentsInv
<1>1. CASE SavePaid(p, amount)
  <2>1. plans[p] \in Plan /\ plans[p].saved
    BY <1>0, <1>1 DEF SavePaid, InstalmentsTypeOK, NoPlan
  <2>2. /\ plans' = [plans EXCEPT ![p] = ActivePlan(amount, plans[p].gen)]
        /\ instalments' = instalments /\ amount = plans[p].amount
    BY <1>1 DEF SavePaid
  <2>3. ActivePlan(amount, plans[p].gen) \in Plan
    BY <1>0, <2>1 DEF ActivePlan, Plan
  <2>4. plans' \in [Plans -> Plan \cup {NoPlan}]
    BY <1>0, <2>2, <2>3 DEF InstalmentsTypeOK
  <2>5. /\ plans'[p].saved /\ plans'[p].amount = amount /\ plans'[p].status = "active"
        /\ plans'[p].gen = plans[p].gen
        /\ \A r \in Plans : r # p => plans'[r] = plans[r]
    BY <1>0, <2>2 DEF InstalmentsTypeOK, ActivePlan
  <2>6. \A r \in Plans : /\ plans'[r].saved = plans[r].saved
                         /\ plans'[r].amount = plans[r].amount
                         /\ plans'[r].gen = plans[r].gen
    BY <2>1, <2>2, <2>5 DEF Plan
  <2>7. Saved' = Saved
    BY <2>6 DEF Saved
  <2>8. PaidIds' = PaidIds
    BY <2>2, <2>6, IdParts DEF PaidIds, Stored
  <2>9. InstalmentsAddUp'
    BY <2>2, <2>6, <2>7 DEF InstalmentsInv, InstalmentsAddUp, Saved
  <2>10. CompletedMeansPaid'
    BY <2>2, <2>5, <2>7 DEF InstalmentsInv, CompletedMeansPaid, Saved
  <2>11. LocksPaidPlans
    BY <2>2, <2>6 DEF LocksPaidPlans, Saved
  <2>12. QED
    BY <1>0, <2>2, <2>4, <2>8, <2>9, <2>10, <2>11 DEF TablesOK, InstalmentsTypeOK
<1>2. CASE SaveUnpaid(p, amount)
  <2> DEFINE gen == IF plans[p].saved THEN plans[p].gen + 1 ELSE 1
             rows == [i \in Index |-> [amount |-> Split(amount)[i], paid |-> FALSE]]
  <2>1. /\ ~ (plans[p].saved /\ SomePaid(p)) /\ gen <= MaxGen
        /\ plans' = [plans EXCEPT ![p] = ActivePlan(amount, gen)]
    BY <1>2 DEF SaveUnpaid
  <2>2. Split(amount) \in [Index -> Nat] /\ DOMAIN Split(amount) = Index
    BY <1>0, SplitType
  <2>3. instalments' = [instalments EXCEPT ![p] = rows]
    BY <1>2, <2>2 DEF SaveUnpaid
  <2>4. rows \in [Index -> Row]
    BY <2>2 DEF Row
  <2>5. plans[p] \in Plan \cup {NoPlan}
    BY <1>0 DEF InstalmentsTypeOK
  <2>6. gen \in 1 .. MaxGen
    <3>1. CASE plans[p].saved
      <4>0. plans[p] \in Plan
        BY <2>5, <3>1 DEF NoPlan
      <4>1. plans[p].gen \in 1 .. MaxGen
        BY <4>0 DEF Plan
      <4>2. gen = plans[p].gen + 1
        BY <3>1
      <4>3. QED
        BY <2>1, <4>1, <4>2, InstalmentAssumption
    <3>2. CASE ~ plans[p].saved
      BY <2>1, <3>2, InstalmentAssumption
    <3>3. QED
      BY <3>1, <3>2
  <2> HIDE DEF gen, rows
  <2>7. ActivePlan(amount, gen) \in Plan
    BY <1>0, <2>6 DEF ActivePlan, Plan
  <2>8. /\ plans' \in [Plans -> Plan \cup {NoPlan}]
        /\ instalments' \in [Plans -> [Index -> Row]]
    BY <1>0, <2>1, <2>3, <2>4, <2>7 DEF InstalmentsTypeOK
  <2>9. /\ plans'[p].saved /\ plans'[p].amount = amount /\ plans'[p].status = "active"
        /\ instalments'[p] = rows
        /\ \A r \in Plans : r # p => plans'[r] = plans[r] /\ instalments'[r] = instalments[r]
    BY <1>0, <2>1, <2>3 DEF InstalmentsTypeOK, ActivePlan
  <2>10. \A i \in Index : rows[i].amount = Split(amount)[i] /\ ~ rows[i].paid
    BY DEF rows
  <2>11. [i \in Index |-> rows[i].amount] = Split(amount)
    BY <2>2, <2>10
  <2>12. ASSUME NEW r \in Saved'
         PROVE  Total([i \in Index |-> instalments'[r][i].amount], Count) = plans'[r].amount
    <3>1. CASE r = p
      BY <1>0, <2>9, <2>11, <3>1, SplitAddsUp
    <3>2. CASE r # p
      <4>1. r \in Saved
        BY <2>9, <3>2 DEF Saved
      <4>2. QED
        BY <2>9, <3>2, <4>1 DEF InstalmentsInv, InstalmentsAddUp, Saved
    <3>3. QED
      BY <3>1, <3>2
  <2>13. ASSUME NEW r \in Saved', plans'[r].status = "completed", NEW i \in Index
         PROVE  instalments'[r][i].paid
    <3>1. r # p
      BY <2>9, <2>13
    <3>2. r \in Saved
      BY <2>9, <2>13, <3>1 DEF Saved
    <3>3. QED
      BY <2>9, <2>13, <3>1, <3>2 DEF InstalmentsInv, CompletedMeansPaid, Saved
  <2>14. ASSUME NEW id \in Id PROVE id \in PaidIds' <=> id \in PaidIds
    <3>1. id.plan \in Plans /\ id.index \in Index
      BY IdParts
    <3>2. CASE id.plan = p
      <4>1. ~ instalments'[id.plan][id.index].paid
        BY <2>9, <2>10, <3>1, <3>2
      <4>2. ~ (plans[id.plan].saved /\ instalments[id.plan][id.index].paid)
        BY <2>1, <3>1, <3>2 DEF SomePaid
      <4>3. QED
        BY <4>1, <4>2 DEF PaidIds, Stored
    <3>3. CASE id.plan # p
      BY <2>9, <3>1, <3>3 DEF PaidIds, Stored
    <3>4. QED
      BY <3>2, <3>3
  <2>15. PaidIds' = PaidIds
    <3>1. PaidIds \subseteq Id /\ PaidIds' \subseteq Id
      BY DEF PaidIds, Stored
    <3>2. QED
      BY <2>14, <3>1
  <2>16. LocksPaidPlans
    <3>1. ASSUME NEW r \in Saved, SomePaid(r) PROVE r # p /\ r \in Plans
      BY <2>1, <3>1 DEF Saved
    <3>2. QED
      BY <2>9, <3>1 DEF LocksPaidPlans
  <2>17. QED
    BY <2>8, <2>12, <2>13, <2>15, <2>16 DEF TablesOK, InstalmentsAddUp, CompletedMeansPaid
<1>3. QED
  BY <1>1, <1>2

\* Marking an instalment keeps the amounts, and records what it marks.
LEMMA MarkedPlanOK ==
  ASSUME InstalmentsInv, NEW t \in Taps, SetInstalmentPaid(t)
  PROVE  /\ TablesOK'
         /\ NoPaymentForgotten'
         /\ recorded' \subseteq Id
         /\ LocksPaidPlans
<1> DEFINE id == tap[t].id
           p == id.plan
           rows == [instalments[p] EXCEPT ![id.index].paid = tap[t].paid]
<1>0. InstalmentsTypeOK
  BY DEF InstalmentsInv
<1>1. tap[t] \in Tap
  BY <1>0 DEF SetInstalmentPaid, InstalmentsTypeOK, Free
<1>2. id \in Id /\ tap[t].paid \in BOOLEAN /\ p \in Plans /\ id.index \in Index
  BY <1>1, IdParts DEF Tap
<1>3. CASE ~ Found(id)
  <2>1. UNCHANGED planVars
    BY <1>3 DEF SetInstalmentPaid
  <2>2. PaidIds' = PaidIds /\ Saved' = Saved
    BY <2>1 DEF planVars, PaidIds, Stored, Saved
  <2>3. QED
    BY <1>0, <2>1, <2>2 DEF planVars, TablesOK, InstalmentsInv, InstalmentsTypeOK, InstalmentsAddUp,
       CompletedMeansPaid, NoPaymentForgotten, LocksPaidPlans
<1>4. CASE Found(id)
  <2>1. /\ instalments' = [instalments EXCEPT ![p] = rows]
        /\ plans' = [plans EXCEPT ![p].status = StatusAfter(p, rows)]
        /\ recorded' = IF tap[t].paid THEN recorded \cup {id} ELSE recorded \ {id}
    BY <1>4 DEF SetInstalmentPaid
  <2>2. id \in Stored /\ plans[p] \in Plan
    BY <1>0, <1>2, <1>4 DEF Found, Stored, InstalmentsTypeOK, NoPlan
  <2>3. instalments[p] \in [Index -> Row]
    BY <1>0, <1>2 DEF InstalmentsTypeOK
  <2>4. /\ rows \in [Index -> Row]
        /\ \A i \in Index : rows[i].amount = instalments[p][i].amount
        /\ rows[id.index].paid = tap[t].paid
        /\ \A i \in Index : i # id.index => rows[i] = instalments[p][i]
    BY <1>2, <2>3 DEF Row
  <2>5. StatusAfter(p, rows) \in {"active", "completed"}
    BY DEF StatusAfter
  <2> HIDE DEF rows, id
  <2>6. [plans[p] EXCEPT !.status = StatusAfter(p, rows)] \in Plan
    BY <2>2, <2>5 DEF Plan
  <2>7. /\ plans' \in [Plans -> Plan \cup {NoPlan}]
        /\ instalments' \in [Plans -> [Index -> Row]]
    BY <1>0, <1>2, <2>1, <2>4, <2>6 DEF InstalmentsTypeOK
  <2>8. /\ plans'[p] = [plans[p] EXCEPT !.status = StatusAfter(p, rows)]
        /\ instalments'[p] = rows
        /\ \A r \in Plans : r # p => plans'[r] = plans[r] /\ instalments'[r] = instalments[r]
    BY <1>0, <1>2, <2>1 DEF InstalmentsTypeOK
  <2>9. \A r \in Plans : /\ plans'[r].saved = plans[r].saved
                         /\ plans'[r].amount = plans[r].amount
                         /\ plans'[r].gen = plans[r].gen
    <3>1. /\ plans'[p].saved = plans[p].saved
          /\ plans'[p].amount = plans[p].amount
          /\ plans'[p].gen = plans[p].gen
      <4> HIDE DEF p
      <4> QED
        BY <2>2, <2>8 DEF Plan
    <3>2. QED
      BY <2>8, <3>1
  <2>10. \A r \in Plans, i \in Index : instalments'[r][i].amount = instalments[r][i].amount
    BY <2>4, <2>8
  <2>11. Saved' = Saved /\ Stored' = Stored
    BY <2>9, IdParts DEF Saved, Stored
  <2>12. InstalmentsAddUp'
    BY <2>9, <2>10, <2>11 DEF InstalmentsInv, InstalmentsAddUp, Saved
  <2>13. ASSUME NEW r \in Saved', plans'[r].status = "completed", NEW i \in Index
         PROVE  instalments'[r][i].paid
    <3>1. r \in Saved /\ r \in Plans
      BY <2>11 DEF Saved
    <3>2. CASE r # p
      BY <2>8, <2>13, <3>1, <3>2 DEF InstalmentsInv, CompletedMeansPaid
    <3>3. CASE r = p
      <4>1. plans'[p].status = StatusAfter(p, rows)
        BY <2>2, <2>8 DEF Plan
      <4>2. QED
        BY <2>8, <2>13, <3>3, <4>1 DEF StatusAfter
    <3>4. QED
      BY <3>2, <3>3
  <2>14. ASSUME NEW x \in Id, x # id PROVE x \in PaidIds' <=> x \in PaidIds
    <3>1. x.plan \in Plans /\ x.index \in Index /\ x.gen \in 1 .. MaxGen
      BY IdParts
    <3>2. ASSUME x \in Stored PROVE instalments'[x.plan][x.index].paid = instalments[x.plan][x.index].paid
      <4>1. CASE x.plan # p
        BY <2>8, <3>1, <4>1
      <4>2. CASE x.plan = p
        <5>1. x.gen = id.gen
          BY <2>2, <3>2, <4>2 DEF Stored
        <5>2. x.index # id.index
          BY <1>2, <2>14, <4>2, <5>1, IdParts
        <5>3. QED
          BY <2>4, <2>8, <3>1, <4>2, <5>2
      <4>3. QED
        BY <4>1, <4>2
    <3>3. QED
      BY <2>11, <3>2 DEF PaidIds
  <2>15. id \in PaidIds' <=> tap[t].paid
    BY <1>2, <2>2, <2>4, <2>8, <2>11 DEF PaidIds
  <2>16. PaidIds \subseteq Id /\ PaidIds' \subseteq Id
    BY DEF PaidIds, Stored
  <2>17. recorded = PaidIds
    BY DEF InstalmentsInv, NoPaymentForgotten
  <2>18. recorded' = PaidIds'
    <3>1. CASE tap[t].paid
      BY <1>2, <2>1, <2>14, <2>15, <2>16, <2>17, <3>1
    <3>2. CASE ~ tap[t].paid
      BY <1>2, <2>1, <2>14, <2>15, <2>16, <2>17, <3>2
    <3>3. QED
      BY <3>1, <3>2
  <2>19. LocksPaidPlans
    BY <2>9, <2>10 DEF LocksPaidPlans, Saved
  <2>20. QED
    BY <2>7, <2>12, <2>13, <2>16, <2>18, <2>19 DEF TablesOK, CompletedMeansPaid, NoPaymentForgotten
<1>5. QED
  BY <1>3, <1>4

-----------------------------------------------------------------------------
(* The steps *)

\* A step of the tables that forgets what it pays keeps the rest of the
\* invariant.
LEMMA OwedStep ==
  ASSUME InstalmentsInv, TablesOK', NoPaymentForgotten', recorded' \subseteq Id,
         tap' \in [Taps -> {Free} \cup Tap], StillOwed, UNCHANGED <<reminders, pass>>
  PROVE  InstalmentsInv'
<1>1. owed' \subseteq owed /\ owed' \subseteq Unpaid'
  BY DEF StillOwed
<1>2. InstalmentsTypeOK'
  BY <1>1 DEF InstalmentsInv, InstalmentsTypeOK, TablesOK
<1>3. RemindersComing'
  BY <1>1 DEF InstalmentsInv, RemindersComing, Coming
<1>4. QED
  BY <1>1, <1>2, <1>3 DEF InstalmentsInv, TablesOK, OwedIsUnpaid

\* A step that leaves the tables and what is owed alone.
LEMMA QuietStep ==
  ASSUME InstalmentsInv, UNCHANGED <<planVars, owed>>, RemindersComing',
         tap' \in [Taps -> {Free} \cup Tap], reminders' \subseteq Id,
         pass' \in [Passes -> {Idle, Reading} \cup Scheduling \cup Checked]
  PROVE  InstalmentsInv'
<1>1. Stored' = Stored /\ PaidIds' = PaidIds /\ Unpaid' = Unpaid /\ Saved' = Saved
  BY DEF planVars, Stored, PaidIds, Unpaid, Saved
<1>2. QED
  BY <1>1 DEF planVars, InstalmentsInv, InstalmentsTypeOK, InstalmentsAddUp, CompletedMeansPaid,
     NoPaymentForgotten, OwedIsUnpaid

\* A step of one pass that loses no instalment on its way: what was coming
\* still is, unless it has its reminder now or is not owed.
LEMMA OnePassStep ==
  ASSUME InstalmentsInv, NEW q \in Passes, NEW next \in {Idle, Reading} \cup Scheduling \cup Checked,
         pass' = [pass EXCEPT ![q] = next], UNCHANGED <<planVars, tap, owed>>,
         reminders \subseteq reminders', reminders' \subseteq Id,
         \A id \in owed : Coming(q, id) => Coming(q, id)' \/ id \in reminders'
  PROVE  InstalmentsInv'
<1>0. InstalmentsTypeOK
  BY DEF InstalmentsInv
<1>1. pass' \in [Passes -> {Idle, Reading} \cup Scheduling \cup Checked]
  BY <1>0 DEF InstalmentsTypeOK
<1>2. \A r \in Passes : r # q => pass'[r] = pass[r]
  BY <1>0 DEF InstalmentsTypeOK
<1>3. ASSUME NEW id \in owed' PROVE id \in reminders' \/ \E r \in Passes : Coming(r, id)'
  <2>1. id \in owed
    BY <1>3
  <2>2. CASE id \in reminders
    BY <2>2
  <2>3. ASSUME NEW r \in Passes, Coming(r, id) PROVE id \in reminders' \/ Coming(r, id)'
    <3>1. CASE r = q
      BY <2>1, <2>3, <3>1
    <3>2. CASE r # q
      BY <1>2, <2>3, <3>2 DEF Coming
    <3>3. QED
      BY <3>1, <3>2
  <2>4. QED
    BY <2>1, <2>2, <2>3 DEF InstalmentsInv, RemindersComing
<1>4. RemindersComing'
  BY <1>3 DEF RemindersComing
<1>5. tap' \in [Taps -> {Free} \cup Tap]
  BY <1>0 DEF InstalmentsTypeOK
<1>6. QED
  BY <1>1, <1>4, <1>5, QuietStep

\* Every step of a pass keeps the invariant.
LEMMA PassKept ==
  ASSUME InstalmentsInv, NEW q \in Passes, PassStep(q)
  PROVE  InstalmentsInv'
<1>0. InstalmentsTypeOK /\ pass[q] \in {Idle, Reading} \cup Scheduling \cup Checked
  BY DEF InstalmentsInv, InstalmentsTypeOK
<1>a. reminders \subseteq Id
  BY <1>0 DEF InstalmentsTypeOK
<1>1. CASE ReadUnpaid(q)
  <2> DEFINE next == [at |-> "next", left |-> Unpaid]
  <2>1. next \in Scheduling
    BY UnpaidIds DEF Scheduling
  <2>2. pass' = [pass EXCEPT ![q] = next] /\ UNCHANGED <<planVars, tap, reminders, owed>>
    BY <1>1 DEF ReadUnpaid
  <2>3. pass'[q] = next
    BY <1>0, <2>2 DEF InstalmentsTypeOK
  <2>4. \A id \in owed : Coming(q, id)'
    BY <2>3 DEF Coming, InstalmentsInv, OwedIsUnpaid
  <2> HIDE DEF next
  <2>5. QED
    BY <1>a, <2>1, <2>2, <2>4, OnePassStep
<1>2. CASE CheckPlan(q)
  <2>1. PICK id \in pass[q].left :
          pass' = [pass EXCEPT ![q] =
            IF plans[id.plan].status = "completed" THEN [at |-> "next", left |-> pass[q].left \ {id}]
            ELSE [at |-> "remind", left |-> pass[q].left \ {id}, id |-> id]]
    BY <1>2 DEF CheckPlan
  <2>2. pass[q].at = "next" /\ UNCHANGED <<planVars, tap, reminders, owed>>
    BY <1>2 DEF CheckPlan
  <2>3. pass[q] \in Scheduling
    BY <1>0, <2>2, PassType
  <2>4. id \in Id /\ pass[q].left \ {id} \in SUBSET Id
    BY <2>3 DEF Scheduling
  <2>5. CASE plans[id.plan].status = "completed"
    <3> DEFINE next == [at |-> "next", left |-> pass[q].left \ {id}]
    <3>1. next \in Scheduling
      BY <2>4 DEF Scheduling
    <3>2. pass' = [pass EXCEPT ![q] = next]
      BY <2>1, <2>5
    <3>3. pass'[q] = next
      BY <1>0, <3>2 DEF InstalmentsTypeOK
    <3>4. id \notin owed
      <4>1. SUFFICES ASSUME id \in Unpaid PROVE FALSE
        BY DEF InstalmentsInv, OwedIsUnpaid
      <4>2. id.plan \in Saved /\ id.index \in Index
        BY <2>4, <4>1, IdParts DEF Unpaid, Stored, Saved
      <4>3. instalments[id.plan][id.index].paid
        BY <2>5, <4>2 DEF InstalmentsInv, CompletedMeansPaid
      <4>4. QED
        BY <4>1, <4>3 DEF Unpaid, PaidIds
    <3>5. \A x \in owed : Coming(q, x) => Coming(q, x)'
      BY <2>2, <3>3, <3>4 DEF Coming
    <3> HIDE DEF next
    <3>6. QED
      BY <1>a, <2>2, <3>1, <3>2, <3>5, OnePassStep
  <2>6. CASE plans[id.plan].status # "completed"
    <3> DEFINE next == [at |-> "remind", left |-> pass[q].left \ {id}, id |-> id]
    <3>1. next \in Checked
      BY <2>4 DEF Checked
    <3>2. pass' = [pass EXCEPT ![q] = next]
      BY <2>1, <2>6
    <3>3. pass'[q] = next
      BY <1>0, <3>2 DEF InstalmentsTypeOK
    <3>4. \A x \in owed : Coming(q, x) => Coming(q, x)'
      BY <2>2, <3>3 DEF Coming
    <3> HIDE DEF next
    <3>5. QED
      BY <1>a, <2>2, <3>1, <3>2, <3>4, OnePassStep
  <2>7. QED
    BY <2>5, <2>6
<1>3. CASE Remind(q)
  <2> DEFINE next == [at |-> "next", left |-> pass[q].left]
  <2>1. pass[q].at = "remind" /\ reminders' = reminders \cup {pass[q].id}
    BY <1>3 DEF Remind
  <2>2. pass' = [pass EXCEPT ![q] = next] /\ UNCHANGED <<planVars, tap, owed>>
    BY <1>3 DEF Remind
  <2>3. pass[q] \in Checked
    BY <1>0, <2>1, PassType
  <2>4. next \in Scheduling /\ pass[q].id \in Id
    BY <2>3 DEF Checked, Scheduling
  <2>5. pass'[q] = next
    BY <1>0, <2>2 DEF InstalmentsTypeOK
  <2>6. \A id \in owed : Coming(q, id) => Coming(q, id)' \/ id \in reminders'
    BY <2>1, <2>5 DEF Coming
  <2> HIDE DEF next
  <2>7. QED
    BY <1>a, <2>1, <2>2, <2>4, <2>6, OnePassStep
<1>4. CASE EndPass(q)
  <2>1. /\ pass[q].at = "next" /\ pass[q].left = {}
        /\ pass' = [pass EXCEPT ![q] = Idle] /\ UNCHANGED <<planVars, tap, reminders, owed>>
    BY <1>4 DEF EndPass
  <2>2. \A id \in owed : ~ Coming(q, id)
    BY <2>1 DEF Coming
  <2>3. QED
    BY <1>a, <2>1, <2>2, OnePassStep
<1>5. CASE FailPass(q)
  <2>1. pass' = [pass EXCEPT ![q] = Idle] /\ owed' = {} /\ UNCHANGED <<planVars, tap, reminders>>
    BY <1>5 DEF FailPass
  <2>2. Stored' = Stored /\ PaidIds' = PaidIds /\ Saved' = Saved
    BY <2>1 DEF planVars, Stored, PaidIds, Saved
  <2>3. InstalmentsTypeOK'
    BY <1>0, <2>1 DEF planVars, InstalmentsTypeOK
  <2>4. QED
    BY <2>1, <2>2, <2>3 DEF planVars, InstalmentsInv, InstalmentsAddUp, CompletedMeansPaid,
       NoPaymentForgotten, OwedIsUnpaid, RemindersComing
<1>6. QED
  BY <1>1, <1>2, <1>3, <1>4, <1>5 DEF PassStep

\* Every step keeps the invariant, and locks the plans that have payments.
LEMMA InstalmentsStep ==
  ASSUME InstalmentsInv, [InstalmentsNext]_vars
  PROVE  InstalmentsInv' /\ [LocksPaidPlans]_vars
<1>0. InstalmentsTypeOK
  BY DEF InstalmentsInv
<1>a. ASSUME UNCHANGED planVars PROVE LocksPaidPlans
  BY <1>a DEF planVars, LocksPaidPlans
<1>1. ASSUME NEW p \in Plans, SaveBnpl(p) PROVE InstalmentsInv' /\ LocksPaidPlans
  <2>1. PICK amount \in Amounts : amount > 0 /\ (SavePaid(p, amount) \/ SaveUnpaid(p, amount))
    BY <1>1 DEF SaveBnpl
  <2>2. StillOwed /\ UNCHANGED <<recorded, tap, reminders, pass>>
    BY <1>1 DEF SaveBnpl
  <2>3. TablesOK' /\ PaidIds' = PaidIds /\ LocksPaidPlans
    BY <2>1, SavedPlanOK
  <2>4. NoPaymentForgotten' /\ recorded' \subseteq Id
    BY <1>0, <2>2, <2>3 DEF InstalmentsInv, NoPaymentForgotten, InstalmentsTypeOK
  <2>5. tap' \in [Taps -> {Free} \cup Tap]
    BY <1>0, <2>2 DEF InstalmentsTypeOK
  <2>6. QED
    BY <2>2, <2>3, <2>4, <2>5, OwedStep
<1>2. ASSUME NEW t \in Taps, TapInstalment(t) PROVE InstalmentsInv' /\ LocksPaidPlans
  <2>1. PICK id \in Stored, paid \in BOOLEAN :
          tap' = [tap EXCEPT ![t] = [op |-> "set", id |-> id, paid |-> paid]]
    BY <1>2 DEF TapInstalment
  <2>2. UNCHANGED <<planVars, reminders, pass, owed>>
    BY <1>2 DEF TapInstalment, passVars
  <2>3. [op |-> "set", id |-> id, paid |-> paid] \in Tap
    BY UnpaidIds DEF Tap
  <2>4. tap' \in [Taps -> {Free} \cup Tap]
    BY <1>0, <2>1, <2>3 DEF InstalmentsTypeOK
  <2>5. RemindersComing'
    BY <2>2 DEF InstalmentsInv, RemindersComing, Coming
  <2>6. InstalmentsInv'
    BY <1>0, <2>2, <2>4, <2>5, QuietStep DEF InstalmentsTypeOK
  <2>7. QED
    BY <1>a, <2>2, <2>6
<1>3. ASSUME NEW t \in Taps, SetInstalmentPaid(t) PROVE InstalmentsInv' /\ LocksPaidPlans
  <2>1. TablesOK' /\ NoPaymentForgotten' /\ recorded' \subseteq Id /\ LocksPaidPlans
    BY <1>3, MarkedPlanOK
  <2>2. tap' \in [Taps -> {Free} \cup Tap]
    BY <1>0, <1>3 DEF SetInstalmentPaid, InstalmentsTypeOK
  <2>3. StillOwed /\ UNCHANGED <<reminders, pass>>
    BY <1>3 DEF SetInstalmentPaid
  <2>4. QED
    BY <2>1, <2>2, <2>3, OwedStep
<1>4. ASSUME NEW q \in Passes, BeginPass(q) PROVE InstalmentsInv' /\ LocksPaidPlans
  <2>1. /\ reminders' = {} /\ pass' = [pass EXCEPT ![q] = Reading]
        /\ owed' = Unpaid /\ UNCHANGED <<planVars, tap>>
    BY <1>4 DEF BeginPass
  <2>2. Stored' = Stored /\ PaidIds' = PaidIds /\ Unpaid' = Unpaid /\ Saved' = Saved
    BY <2>1 DEF planVars, Stored, PaidIds, Unpaid, Saved
  <2>3. pass'[q] = Reading
    BY <1>0, <2>1 DEF InstalmentsTypeOK
  <2>4. RemindersComing'
    BY <2>3 DEF RemindersComing, Coming, Reading
  <2>5. InstalmentsTypeOK'
    BY <1>0, <2>1, UnpaidIds DEF planVars, InstalmentsTypeOK
  <2>6. InstalmentsInv'
    BY <2>1, <2>2, <2>4, <2>5 DEF planVars, InstalmentsInv, InstalmentsAddUp, CompletedMeansPaid,
       NoPaymentForgotten, OwedIsUnpaid
  <2>7. QED
    BY <1>a, <2>1, <2>6
<1>5. ASSUME NEW q \in Passes, PassStep(q) PROVE InstalmentsInv' /\ LocksPaidPlans
  <2>1. UNCHANGED planVars
    BY <1>5 DEF PassStep, ReadUnpaid, CheckPlan, Remind, EndPass, FailPass
  <2>2. QED
    BY <1>5, <1>a, <2>1, PassKept
<1>6. ASSUME Kill PROVE InstalmentsInv' /\ LocksPaidPlans
  <2>1. /\ tap' = [t \in Taps |-> Free] /\ pass' = [q \in Passes |-> Idle]
        /\ owed' = {} /\ UNCHANGED <<planVars, reminders>>
    BY <1>6 DEF Kill
  <2>2. Stored' = Stored /\ PaidIds' = PaidIds /\ Saved' = Saved
    BY <2>1 DEF planVars, Stored, PaidIds, Saved
  <2>3. InstalmentsTypeOK'
    BY <1>0, <2>1 DEF planVars, InstalmentsTypeOK
  <2>4. InstalmentsInv'
    BY <2>1, <2>2, <2>3 DEF planVars, InstalmentsInv, InstalmentsAddUp, CompletedMeansPaid,
       NoPaymentForgotten, OwedIsUnpaid, RemindersComing
  <2>5. QED
    BY <1>a, <2>1, <2>4
<1>7. ASSUME UNCHANGED vars PROVE InstalmentsInv'
  <2>1. UNCHANGED <<planVars, tap, reminders, pass, owed>>
    BY <1>7 DEF vars, passVars
  <2>2. RemindersComing'
    BY <2>1 DEF InstalmentsInv, RemindersComing, Coming
  <2>3. QED
    BY <1>0, <2>1, <2>2, QuietStep DEF InstalmentsTypeOK
<1>8. QED
  BY <1>1, <1>2, <1>3, <1>4, <1>5, <1>6, <1>7 DEF InstalmentsNext

-----------------------------------------------------------------------------
(* The theorems *)

\* The inductive invariant holds in every reachable state.
THEOREM InstalmentsInvariant == InstalmentsSpec => []InstalmentsInv
<1>1. InstalmentsInit => InstalmentsInv
  BY InstalmentsInitial
<1>2. InstalmentsInv /\ [InstalmentsNext]_vars => InstalmentsInv'
  BY InstalmentsStep
<1>3. QED
  BY <1>1, <1>2, PTL DEF InstalmentsSpec

\* The types, for every number of plans, instalments, calls and passes.
THEOREM InstalmentsTyped == InstalmentsSpec => []InstalmentsTypeOK
<1>1. InstalmentsInv => InstalmentsTypeOK
  BY DEF InstalmentsInv
<1>2. QED
  BY <1>1, InstalmentsInvariant, PTL

\* The instalments of every plan add up to its purchase (saveBnpl).
THEOREM PlansAddUp == InstalmentsSpec => []InstalmentsAddUp
<1>1. InstalmentsInv => InstalmentsAddUp
  BY DEF InstalmentsInv
<1>2. QED
  BY <1>1, InstalmentsInvariant, PTL

\* A completed plan is paid (setInstalmentPaid, saveBnpl).
THEOREM CompletedPlansArePaid == InstalmentsSpec => []CompletedMeansPaid
<1>1. InstalmentsInv => CompletedMeansPaid
  BY DEF InstalmentsInv
<1>2. QED
  BY <1>1, InstalmentsInvariant, PTL

\* The payment history and the instalments agree (setInstalmentPaid, saveBnpl).
THEOREM PaymentsAreKept == InstalmentsSpec => []NoPaymentForgotten
<1>1. InstalmentsInv => NoPaymentForgotten
  BY DEF InstalmentsInv
<1>2. QED
  BY <1>1, InstalmentsInvariant, PTL

\* When all reschedules are over, no unpaid instalment lacks its reminder
\* (reschedule).
THEOREM RemindersAreComplete == InstalmentsSpec => []NoReminderMissing
<1>1. InstalmentsInv => NoReminderMissing
  <2>1. SUFFICES ASSUME InstalmentsInv, \A q \in Passes : pass[q] = Idle
                 PROVE  owed \subseteq reminders
    BY DEF NoReminderMissing
  <2>2. \A q \in Passes, id \in owed : ~ Coming(q, id)
    BY <2>1 DEF Coming, Idle
  <2>3. QED
    BY <2>1, <2>2 DEF InstalmentsInv, RemindersComing
<1>2. QED
  BY <1>1, InstalmentsInvariant, PTL

\* No step changes a plan that has a payment (paid_plan_amount_locked).
THEOREM PaidPlansStayLocked == InstalmentsSpec => PaidPlansLocked
<1>1. InstalmentsInv /\ [InstalmentsNext]_vars => [LocksPaidPlans]_vars
  BY InstalmentsStep
<1>2. QED
  BY <1>1, InstalmentsInvariant, PTL DEF InstalmentsSpec, PaidPlansLocked

=============================================================================
