-------------------------- MODULE PaymentMessages --------------------------
(***************************************************************************)
(* Payment messages (src/mobile/lib/features/sms_detection/): an incoming  *)
(* message that tells of a payment is offered to the user by a system      *)
(* notification, once, however many messages tell of the payment.          *)
(* SmsReceiver.kt and MainActivity.kt hand a message to                    *)
(* processIncomingSms, which remembers the hash of the message and the     *)
(* hash of what it says in the preferences.                                *)
(*                                                                         *)
(* Calls interleave where they await: the two hashes, the two writes of    *)
(* the preferences and the notification.  The preferences of the running   *)
(* app are a cache; each write sends them to the device, which stores them *)
(* in the order they were sent.  The process may be killed at any time and *)
(* reads the device's copy when it starts.                                 *)
(*                                                                         *)
(* A message stands for sender, text and minute, which its raw hash is of, *)
(* and a payment for type, amount, currency, merchant and the three        *)
(* minutes, which the semantic hash is of; hashes do not collide.  What    *)
(* the parser recognises, and the wording of a notification, are left out. *)
(***************************************************************************)
EXTENDS Integers, Sequences

CONSTANTS
  MaxCalls,  \* bound: how many messages ever arrive
  Messages,
  Payments,
  None,
  Tells,     \* the payment each message tells of, None if it is no payment
  Limit,     \* how many hashes are remembered (1000)
  MaxWrites  \* bound: how many writes are under way when the switch is used

Calls == 1 .. MaxCalls  \* of processIncomingSms, one for each message

Hashes == Messages \cup Payments

ASSUME MessageAssumption ==
  /\ Messages \cap Payments = {}
  /\ None \notin Hashes
  /\ Tells \in [Messages -> Payments \cup {None}]
  /\ Limit \in Nat \ {0}
  /\ {MaxCalls, MaxWrites} \subseteq Nat

VARIABLES
  running,   \* whether the app runs
  prefs,     \* its cached preferences: detection enabled, processedSmsHashes
  disk,      \* the preferences on the device
  writes,    \* preferences on their way to the device, and the calls that wait
  at,        \* where each call is
  msg,       \* the message it works on
  marked,    \* history: the calls that have remembered a hash
  beside,    \* history: which calls were looking for duplicates beside it
  forgotten  \* history: the hashes that were dropped for Limit

vars == <<running, prefs, disk, writes, at, msg, marked, beside, forgotten>>

-----------------------------------------------------------------------------

Remembered(p) == {p.hashes[i] : i \in 1 .. Len(p.hashes)}

Preferences == [enabled : BOOLEAN, hashes : Seq(Hashes)]

MessagesInit ==
  /\ running = TRUE
  /\ prefs = [enabled |-> FALSE, hashes |-> <<>>]
  /\ disk = prefs
  /\ writes = <<>>
  /\ at = [c \in Calls |-> "idle"]
  /\ msg = [c \in Calls |-> None]
  /\ marked = {} /\ beside = [c \in Calls |-> {}] /\ forgotten = {}

Goto(c, place) == at' = [at EXCEPT ![c] = place]

\* The cached preferences become p, and are sent to the device for call c.
Set(p, c) ==
  /\ prefs' = p
  /\ writes' = Append(writes, [prefs |-> p, by |-> c])

\* The device stores what it was sent first, and its call goes on.
StorePreferences ==
  /\ writes # <<>>
  /\ disk' = Head(writes).prefs
  /\ writes' = Tail(writes)
  /\ UNCHANGED <<running, prefs, at, msg, marked, beside, forgotten>>

\* Mutant: a call waits until everything is stored.
StoredAll(c) == writes = <<>>

\* What call c has set is stored.
Stored(c) == \A i \in 1 .. Len(writes) : writes[i].by # c

\* Mutant: one hash too many is kept.
NewestAndOne(list) ==
  IF Len(list) > Limit + 1 THEN SubSeq(list, Len(list) - Limit, Len(list))
                           ELSE list

\* The last Limit hashes of a list that may be one too long.
Newest(list) ==
  IF Len(list) > Limit THEN SubSeq(list, Len(list) - Limit + 1, Len(list))
                       ELSE list

(***************************************************************************)
(* markSmsProcessed: a hash that is remembered already is not added again, *)
(* and the oldest ones are dropped beyond Limit.                           *)
(***************************************************************************)
Mark(c, h) ==
  /\ IF h \in Remembered(prefs)
       THEN UNCHANGED <<prefs, writes, forgotten>>
       ELSE LET list == Append(prefs.hashes, h)
            IN  /\ Set([prefs EXCEPT !.hashes = Newest(list)], c)
                /\ forgotten' = forgotten \cup
                     (Remembered(prefs) \ Remembered(prefs'))
  /\ marked' = marked \cup {c}

-----------------------------------------------------------------------------

\* The calls that have not remembered what their message tells.
Looking == {c \in Calls : at[c] \in {"raw", "semantic", "first"}}

(***************************************************************************)
(* A message arrives.  It is lost when the app does not run, and ignored   *)
(* when the detection is not enabled.                                      *)
(***************************************************************************)
Receive(c, m) ==
  /\ at[c] = "idle"
  /\ \A d \in 1 .. c - 1 : at[d] # "idle"
  /\ IF running /\ prefs.enabled
       THEN /\ Goto(c, "raw")
            /\ msg' = [msg EXCEPT ![c] = m]
            /\ beside' = [d \in Calls |->
                 IF d = c THEN Looking
                 ELSE IF d \in Looking THEN beside[d] \cup {c} ELSE beside[d]]
       ELSE Goto(c, "ignored") /\ UNCHANGED <<msg, beside>>
  /\ UNCHANGED <<running, prefs, disk, writes, marked, forgotten>>

\* Mutant: a message is remembered before it is known what it tells.
LookUpMarking(c) ==
  /\ at[c] = "raw"
  /\ IF msg[c] \in Remembered(prefs)
       THEN Goto(c, "duplicate") /\ UNCHANGED <<prefs, writes, forgotten, marked>>
       ELSE /\ Goto(c, IF Tells[msg[c]] = None THEN "ignored" ELSE "semantic")
            /\ Mark(c, msg[c])
  /\ UNCHANGED <<running, disk, msg, beside>>

\* The raw hash is there: the message is dropped when it is remembered, or
\* tells of no payment.
LookUpMessage(c) ==
  /\ at[c] = "raw"
  /\ Goto(c, IF msg[c] \in Remembered(prefs) THEN "duplicate"
             ELSE IF Tells[msg[c]] = None THEN "ignored" ELSE "semantic")
  /\ UNCHANGED <<running, prefs, disk, writes, msg, marked, beside, forgotten>>

\* The semantic hash is there: the message is dropped when its payment is
\* remembered; else the message is remembered ...
LookUpPayment(c) ==
  /\ at[c] = "semantic"
  /\ IF Tells[msg[c]] \in Remembered(prefs)
       THEN Goto(c, "duplicate") /\ UNCHANGED <<prefs, writes, marked, forgotten>>
       ELSE Goto(c, "first") /\ Mark(c, msg[c])
  /\ UNCHANGED <<running, disk, msg, beside>>

\* ... then the payment ...
MarkPayment(c) ==
  /\ at[c] = "first" /\ Stored(c)
  /\ Goto(c, "second") /\ Mark(c, Tells[msg[c]])
  /\ UNCHANGED <<running, disk, msg, beside>>

\* Mutant: the notification does not wait for the second write.
NotifyUnstored(c) ==
  /\ at[c] = "second"
  /\ Goto(c, "showing")
  /\ UNCHANGED <<running, prefs, disk, writes, msg, marked, beside, forgotten>>

\* ... and then the notification is shown,
Notify(c) ==
  /\ at[c] = "second" /\ Stored(c)
  /\ Goto(c, "showing")
  /\ UNCHANGED <<running, prefs, disk, writes, msg, marked, beside, forgotten>>

\* which may fail.
Notified(c) ==
  /\ at[c] = "showing"
  /\ \E place \in {"shown", "failed"} : Goto(c, place)
  /\ UNCHANGED <<running, prefs, disk, writes, msg, marked, beside, forgotten>>

CallStep(c) ==
  LookUpMessage(c) \/ LookUpPayment(c) \/ MarkPayment(c) \/ Notify(c) \/ Notified(c)

-----------------------------------------------------------------------------

SetEnabled ==
  /\ running
  /\ Len(writes) < MaxWrites
  /\ Set([prefs EXCEPT !.enabled = ~ @], 0)
  /\ UNCHANGED <<running, disk, at, msg, marked, beside, forgotten>>

\* Places where a call has not ended.
Open == {"raw", "semantic", "first", "second", "showing"}

\* The process ends; what was not stored is gone.
Kill ==
  /\ running
  /\ running' = FALSE
  /\ prefs' = disk
  /\ writes' = <<>>
  /\ at' = [c \in Calls |-> IF at[c] \in Open THEN "killed" ELSE at[c]]
  /\ UNCHANGED <<disk, msg, marked, beside, forgotten>>

Start ==
  /\ ~ running
  /\ running' = TRUE
  /\ UNCHANGED <<prefs, disk, writes, at, msg, marked, beside, forgotten>>

MessagesNext ==
  \/ \E c \in Calls : (\E m \in Messages : Receive(c, m)) \/ CallStep(c)
  \/ StorePreferences
  \/ SetEnabled
  \/ Kill
  \/ Start

\* Futures of a running app complete, and the device stores preferences.
MessagesSpec ==
  /\ MessagesInit /\ [][MessagesNext]_vars
  /\ WF_vars(StorePreferences)
  /\ \A c \in Calls : WF_vars(CallStep(c))

-----------------------------------------------------------------------------

Places == Open \cup {"idle", "ignored", "duplicate", "shown", "failed", "killed"}

\* Nothing is remembered twice, and at most Limit hashes are, on the device and
\* in the app.
WellFormed(p) ==
  /\ p \in Preferences
  /\ Len(p.hashes) <= Limit
  /\ \A i, j \in 1 .. Len(p.hashes) : p.hashes[i] = p.hashes[j] => i = j

\* The variables have their types, and every copy of the preferences is well
\* formed.
MessagesTypeOK ==
  /\ running \in BOOLEAN
  /\ WellFormed(prefs) /\ WellFormed(disk)
  /\ \A i \in 1 .. Len(writes) :
       WellFormed(writes[i].prefs) /\ writes[i].by \in 0 .. MaxCalls
  /\ at \in [Calls -> Places]
  /\ msg \in [Calls -> Messages \cup {None}]
  /\ marked \subseteq Calls
  /\ beside \in [Calls -> SUBSET Calls]
  /\ forgotten \subseteq Hashes

Payment(c) == Tells[msg[c]]

\* The calls whose notification was asked for, with whatever outcome.
Offered == {c \in Calls : at[c] \in {"showing", "shown", "failed"}}

\* Calls of one payment that were looked up beside c and killed.
KilledBeside(c) ==
  {e \in beside[c] : at[e] = "killed" /\ Payment(e) = Payment(c)}

\* Two messages about one payment are both offered only if they were looked up
\* at the same time, or the payment was dropped for Limit in between, also
\* when the app is killed after the first of them.  (One case is left: a call
\* that finds its payment just remembered by one beside it does not wait until
\* that is stored; when the app is killed right then, it was offered and is
\* not remembered.)
NotifiedOnce ==
  \A c, d \in Offered :
    c # d /\ Payment(c) = Payment(d) =>
      \/ d \in beside[c] \/ Payment(c) \in forgotten
      \/ KilledBeside(c) \cup KilledBeside(d) # {}

\* A message is dropped as a duplicate only for the sake of another one that
\* was found to be new, with the same payment, and that is offered or on its
\* way unless its call was killed.
DroppedOnlyIfNotified ==
  \A c \in Calls : at[c] = "duplicate" =>
    \E d \in marked \ {c} :
      /\ Payment(d) = Payment(c) /\ Payment(c) # None
      /\ at[d] \in {"first", "second", "showing", "shown", "failed", "killed"}

\* Every call ends, so every payment found to be new is offered unless the app
\* is killed.
CallsEnd == \A c \in Calls : at[c] \in Open ~> at[c] \notin Open

=============================================================================
