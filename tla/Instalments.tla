----------------------------- MODULE Instalments -----------------------------
(***************************************************************************)
(* Buy-now-pay-later plans                                                 *)
(* (src/mobile/lib/features/planning/data/commitments_repository.dart) and *)
(* the reminders of their instalments                                      *)
(* (src/mobile/lib/features/notifications/local_notification_service.dart).*)
(*                                                                         *)
(* A plan splits a purchase into instalments, which the user marks paid or *)
(* unpaid one by one.  Saving a plan and marking an instalment are         *)
(* transactions.  Every start and every resume of the app cancels all      *)
(* reminders and schedules those of the unpaid instalments again, reading  *)
(* the tables and calling the notification plugin step by step, so that    *)
(* two such passes can overlap each other and the user.                    *)
(*                                                                         *)
(* Left out: provider, merchant, custom name and dates, so that every      *)
(* instalment is due within the year a pass looks ahead; the reminders of  *)
(* bills, which a pass schedules before it reads the instalments; and      *)
(* DriftPlanningRepository, which no screen calls for plans.               *)
(***************************************************************************)
EXTENDS RunningTotals

CONSTANTS
  Plans,    \* the ids plans may get
  Taps,     \* the calls of the details sheet that can be pending at a time
  Passes,   \* the reschedules that can run at a time
  Count,    \* how many instalments the form makes
  Amounts,  \* the purchase amounts the form produces
  MaxGen    \* bound: how often the instalments of a plan are made

ASSUME InstalmentAssumption ==
  /\ Count \in Nat \ {0}
  /\ Amounts \subseteq Nat
  /\ MaxGen \in Nat

VARIABLES
  plans,        \* table bnpl_plans
  instalments,  \* table bnpl_instalments, by plan and position
  recorded,     \* the ids whose newest row of bnpl_payment_history says paid
  tap,          \* the pending calls of the details sheet
  reminders,    \* the ids with a scheduled notification
  pass,         \* the running reschedules
  owed          \* history: the ids unpaid ever since the newest pass began

planVars == <<plans, instalments, recorded>>
passVars == <<reminders, pass, owed>>
vars == <<planVars, tap, passVars>>

-----------------------------------------------------------------------------
Index == 1 .. Count

\* An instalment's id is fresh whenever the instalments of its plan are made.
Id == [plan : Plans, gen : 1 .. MaxGen, index : Index]

NoPlan == [saved |-> FALSE]
Plan == [saved : {TRUE}, amount : Nat, status : {"active", "completed"}, gen : 1 .. MaxGen]

NoRow == [amount |-> 0, paid |-> FALSE]
Row == [amount : Nat, paid : BOOLEAN]

Saved == {p \in Plans : plans[p].saved}
Stored == {id \in Id : plans[id.plan].saved /\ plans[id.plan].gen = id.gen}
PaidIds == {id \in Stored : instalments[id.plan][id.index].paid}
Unpaid == Stored \ PaidIds

\* The form's instalments of a purchase: equal ones, the last with the rest.
Split(amount) ==
  [i \in Index |-> (amount \div Count) + (IF i = Count THEN amount % Count ELSE 0)]

Idle == [at |-> "idle"]
Reading == [at |-> "read"]
Scheduling == [at : {"next"}, left : SUBSET Id]
Checked == [at : {"remind"}, left : SUBSET Id, id : Id]

Free == [op |-> "free"]
Tap == [op : {"set"}, id : Id, paid : BOOLEAN]

InstalmentsInit ==
  /\ plans = [p \in Plans |-> NoPlan]
  /\ instalments = [p \in Plans |-> [i \in Index |-> NoRow]]
  /\ recorded = {}
  /\ tap = [t \in Taps |-> Free]
  /\ reminders = {}
  /\ pass = [q \in Passes |-> Idle]
  /\ owed = {}

\* What stays owed when the tables change: what was and is unpaid.
StillOwed == owed' = owed \cap Unpaid'

-----------------------------------------------------------------------------
SomePaid(p) == \E i \in Index : instalments[p][i].paid

\* The plan's row under a draft: it is active, whatever it was.
ActivePlan(amount, gen) ==
  [saved |-> TRUE, amount |-> amount, status |-> "active", gen |-> gen]

\* Mutant: the amount of a plan with payments can be changed.
SavePaidUnlocked(p, amount) ==
  /\ plans[p].saved /\ SomePaid(p)
  /\ plans' = [plans EXCEPT ![p] = ActivePlan(amount, plans[p].gen)]
  /\ UNCHANGED instalments

\* A plan with a payment keeps its amount and its instalments; a draft with
\* another amount is refused.
SavePaid(p, amount) ==
  /\ plans[p].saved /\ SomePaid(p)
  /\ amount = plans[p].amount
  /\ plans' = [plans EXCEPT ![p] = ActivePlan(amount, plans[p].gen)]
  /\ UNCHANGED instalments

\* Mutant: the instalments are made again although one is paid.
SaveRemaking(p, amount) ==
  LET gen == IF plans[p].saved THEN plans[p].gen + 1 ELSE 1
  IN  /\ gen <= MaxGen
      /\ plans' = [plans EXCEPT ![p] = ActivePlan(amount, gen)]
      /\ instalments' = [instalments EXCEPT ![p] =
           [i \in Index |-> [amount |-> Split(amount)[i], paid |-> FALSE]]]

\* The instalments of a plan without payments are deleted and made anew.
SaveUnpaid(p, amount) ==
  LET gen == IF plans[p].saved THEN plans[p].gen + 1 ELSE 1
  IN  /\ ~ (plans[p].saved /\ SomePaid(p))
      /\ gen <= MaxGen
      /\ plans' = [plans EXCEPT ![p] = ActivePlan(amount, gen)]
      /\ instalments' = [instalments EXCEPT ![p] =
           [i \in DOMAIN Split(amount) |-> [amount |-> Split(amount)[i], paid |-> FALSE]]]

\* Save plan p, new or edited, in one transaction.
SaveBnpl(p) ==
  \E amount \in Amounts :
    /\ amount > 0
    /\ Total(Split(amount), Count) = amount
    /\ SavePaid(p, amount) \/ SaveUnpaid(p, amount)
    /\ StillOwed
    /\ UNCHANGED <<recorded, tap, reminders, pass>>

\* Tap the checkbox of an instalment.  The sheet shows a copy of the plan, so
\* that the tap may ask for what is so already.
TapInstalment(t) ==
  /\ tap[t] = Free
  /\ \E id \in Stored, paid \in BOOLEAN :
       tap' = [tap EXCEPT ![t] = [op |-> "set", id |-> id, paid |-> paid]]
  /\ UNCHANGED <<planVars, passVars>>

\* Mutant: the instalment is found by its position.
FoundByPosition(id) == plans[id.plan].saved

\* Whether the row that is to be marked is there.
Found(id) == id \in Stored

\* Mutant: the unpaid instalments are read before the update.
StatusBefore(p, rows) ==
  IF \A i \in Index : instalments[p][i].paid THEN "completed" ELSE "active"

StatusAfter(p, rows) == IF \A i \in Index : rows[i].paid THEN "completed" ELSE "active"

\* The transaction of setInstalmentPaid; it throws when the instalment is gone.
SetInstalmentPaid(t) ==
  LET id == tap[t].id
      rows == [instalments[id.plan] EXCEPT ![id.index].paid = tap[t].paid]
  IN  /\ tap[t].op = "set"
      /\ IF Found(id)
         THEN /\ instalments' = [instalments EXCEPT ![id.plan] = rows]
              /\ plans' = [plans EXCEPT ![id.plan].status = StatusAfter(id.plan, rows)]
              /\ recorded' = IF tap[t].paid THEN recorded \cup {id} ELSE recorded \ {id}
         ELSE UNCHANGED planVars
      /\ StillOwed
      /\ tap' = [tap EXCEPT ![t] = Free]
      /\ UNCHANGED <<reminders, pass>>

-----------------------------------------------------------------------------
\* A start or a resume of the app: cancel every reminder.
BeginPass(q) ==
  /\ pass[q] = Idle
  /\ reminders' = {}
  /\ pass' = [pass EXCEPT ![q] = Reading]
  /\ owed' = Unpaid
  /\ UNCHANGED <<planVars, tap>>

\* Mutant: a pass leaves the scheduling to another one that is running.
ReadWhenAlone(q) ==
  /\ pass[q].at = "read"
  /\ pass' = [pass EXCEPT ![q] = IF \E r \in Passes \ {q} : pass[r] # Idle THEN Idle
                                 ELSE [at |-> "next", left |-> Unpaid]]
  /\ UNCHANGED <<planVars, tap, reminders, owed>>

\* Read the unpaid instalments.
ReadUnpaid(q) ==
  /\ pass[q].at = "read"
  /\ pass' = [pass EXCEPT ![q] = [at |-> "next", left |-> Unpaid]]
  /\ UNCHANGED <<planVars, tap, reminders, owed>>

\* Take an instalment and read its plan; nothing to do for a completed one.
CheckPlan(q) ==
  /\ pass[q].at = "next"
  /\ \E id \in pass[q].left :
       LET left == pass[q].left \ {id}
       IN  pass' = [pass EXCEPT ![q] =
             IF plans[id.plan].status = "completed" THEN [at |-> "next", left |-> left]
             ELSE [at |-> "remind", left |-> left, id |-> id]]
  /\ UNCHANGED <<planVars, tap, reminders, owed>>

\* Schedule its reminder, whatever happened to it since it was read.
Remind(q) ==
  /\ pass[q].at = "remind"
  /\ reminders' = reminders \cup {pass[q].id}
  /\ pass' = [pass EXCEPT ![q] = [at |-> "next", left |-> @.left]]
  /\ UNCHANGED <<planVars, tap, owed>>

EndPass(q) ==
  /\ pass[q].at = "next" /\ pass[q].left = {}
  /\ pass' = [pass EXCEPT ![q] = Idle]
  /\ UNCHANGED <<planVars, tap, reminders, owed>>

\* The plugin throws: the rest is not scheduled before the next pass.
FailPass(q) ==
  /\ pass[q] # Idle
  /\ pass' = [pass EXCEPT ![q] = Idle]
  /\ owed' = {}
  /\ UNCHANGED <<planVars, tap, reminders>>

\* The app is killed; the scheduled notifications stay.
Kill ==
  /\ tap' = [t \in Taps |-> Free]
  /\ pass' = [q \in Passes |-> Idle]
  /\ owed' = {}
  /\ UNCHANGED <<planVars, reminders>>

PassStep(q) == ReadUnpaid(q) \/ CheckPlan(q) \/ Remind(q) \/ EndPass(q) \/ FailPass(q)

InstalmentsNext ==
  \/ \E p \in Plans : SaveBnpl(p)
  \/ \E t \in Taps : TapInstalment(t) \/ SetInstalmentPaid(t)
  \/ \E q \in Passes : BeginPass(q) \/ PassStep(q)
  \/ Kill

InstalmentsSpec == InstalmentsInit /\ [][InstalmentsNext]_vars

-----------------------------------------------------------------------------
\* Every table, pending call and pass has its shape.
InstalmentsTypeOK ==
  /\ plans \in [Plans -> Plan \cup {NoPlan}]
  /\ instalments \in [Plans -> [Index -> Row]]
  /\ recorded \subseteq Id
  /\ tap \in [Taps -> {Free} \cup Tap]
  /\ reminders \subseteq Id
  /\ pass \in [Passes -> {Idle, Reading} \cup Scheduling \cup Checked]
  /\ owed \subseteq Id

\* The instalments of a plan add up to its purchase, after any edits and
\* payments (docs: the sum of instalments must equal the purchase amount).
InstalmentsAddUp ==
  \A p \in Saved :
    Total([i \in Index |-> instalments[p][i].amount], Count) = plans[p].amount

\* A plan shown as completed has no unpaid instalment: neither an undone
\* payment nor an edit leaves it so (setInstalmentPaid, saveBnpl).
CompletedMeansPaid ==
  \A p \in Saved : plans[p].status = "completed" => \A i \in Index : instalments[p][i].paid

\* The payment history agrees with the instalments: what its newest row calls
\* paid is stored and paid, so that no edit drops a payment and no late call
\* records one for an instalment that is gone.
NoPaymentForgotten == recorded = PaidIds

LocksPaidPlans ==
  \A p \in Saved : SomePaid(p) =>
    /\ plans'[p].amount = plans[p].amount
    /\ plans'[p].gen = plans[p].gen
    /\ \A i \in Index : instalments'[p][i].amount = instalments[p][i].amount

\* While a payment of a plan is recorded, neither its amount nor any of its
\* instalments is replaced (paid_plan_amount_locked in saveBnpl).
PaidPlansLocked == [][LocksPaidPlans]_vars

\* When no reschedule is running, every instalment unpaid ever since the
\* newest one began has its reminder, though overlapping passes cancel each
\* other's (reschedule).
NoReminderMissing == (\A q \in Passes : pass[q] = Idle) => owed \subseteq reminders

=============================================================================
