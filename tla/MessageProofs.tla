---------------------------- MODULE MessageProofs ----------------------------
(***************************************************************************)
(* What TLC checks of PaymentMessages on a small instance, for every       *)
(* number of messages, whatever they tell, every limit on the hashes and   *)
(* any number of kills and restarts.  (That calls end stays with TLC.)     *)
(***************************************************************************)
EXTENDS PaymentMessages, SequenceTheorems, TLAPS

-----------------------------------------------------------------------------
(* The inductive invariant *)

Write == [prefs : Preferences, by : 0 .. MaxCalls]

\* Places of calls that have a message, and those of them that have found out
\* what it tells.
Received == Open \cup {"duplicate", "shown", "failed"}
Told == Received \ {"raw", "duplicate"}

MsgOK ==
  /\ writes \in Seq(Write)
  /\ \A c \in Calls : /\ at[c] \in Received => msg[c] \in Messages
                      /\ at[c] \in Told \/ c \in marked => Payment(c) \in Payments
                      /\ c \in marked => msg[c] \in Messages

\* Places of calls that have remembered their message.
Past == {"first", "second", "showing", "shown", "failed"}

\* The hashes of the calls that found theirs to be new.
Hashed == {msg[d] : d \in marked} \cup {Payment(d) : d \in marked}

\* What is remembered somewhere was remembered by a call that is not dropped.
KnownOK ==
  /\ Remembered(prefs) \subseteq Hashed /\ Remembered(disk) \subseteq Hashed
  /\ \A i \in 1 .. Len(writes) : Remembered(writes[i].prefs) \subseteq Hashed
  /\ \A c \in marked : at[c] \in Past \cup {"killed"}

\* Calls that look for duplicates at the same time know of each other.
BesideOK ==
  /\ \A c, d \in Looking : c # d => d \in beside[c]
  /\ \A c, d \in Calls : d \in beside[c] => /\ c \in beside[d]
                                            /\ at[c] # "idle" /\ at[d] # "idle"

(***************************************************************************)
(* The copies of the preferences from the oldest to the newest: the        *)
(* device's, then those on their way.  The app's is the newest.            *)
(***************************************************************************)
CopyAt(i) == IF i = 0 THEN disk ELSE writes[i].prefs

NewestOK == prefs = CopyAt(Len(writes))

\* A payment is remembered from the i-th copy on.
InFrom(p, i) == \A k \in i .. Len(writes) : p \in Remembered(CopyAt(k))

WrittenBy(p, e) == \E i \in 1 .. Len(writes) : writes[i].by = e /\ InFrom(p, i)

\* It is stored, or it will be when one of the calls of W that tell of it, and
\* wait for that, is not killed.
Supported(p, W) ==
  \/ InFrom(p, 0)
  \/ \E e \in W : at[e] = "second" /\ Payment(e) = p /\ WrittenBy(p, e)

SupportOK ==
  \A c \in Calls :
    /\ at[c] \in Past \ {"first"} =>
         \/ Payment(c) \in forgotten \/ KilledBeside(c) # {}
         \/ Supported(Payment(c), {c} \cup beside[c])
    /\ at[c] = "first" /\ Payment(c) \in Remembered(prefs) =>
         Payment(c) \in forgotten \/ Supported(Payment(c), beside[c])

\* NotifiedOnce, from the moment that a call has looked for duplicates.
OnceOK ==
  \A c, d \in Calls :
    c # d /\ at[c] \in Past /\ at[d] \in Past /\ Payment(c) = Payment(d) =>
      \/ d \in beside[c] \/ Payment(c) \in forgotten
      \/ KilledBeside(c) \cup KilledBeside(d) # {}

\* A dropped message has a marked one of the same payment.
DuplicateOK ==
  \A c \in Calls : at[c] = "duplicate" =>
    \E d \in marked : d # c /\ Payment(d) = Payment(c) /\ Payment(c) \in Payments

MsgIInv ==
  /\ MessagesTypeOK /\ MsgOK /\ KnownOK /\ BesideOK
  /\ NewestOK /\ SupportOK /\ OnceOK /\ DuplicateOK

-----------------------------------------------------------------------------
(* Sequences *)

\* What Append does to a sequence.
LEMMA AppendElements ==
  ASSUME NEW S, NEW q \in Seq(S), NEW e \in S
  PROVE  /\ Append(q, e) \in Seq(S) /\ Len(q) \in Nat
         /\ Len(Append(q, e)) = Len(q) + 1
         /\ \A i \in 1 .. Len(q) : Append(q, e)[i] = q[i]
         /\ Append(q, e)[Len(q) + 1] = e
OBVIOUS

\* What taking the first element does to a sequence.
LEMMA TailElements ==
  ASSUME NEW S, NEW q \in Seq(S), q # <<>>
  PROVE  /\ Head(q) = q[1] /\ Head(q) \in S
         /\ Len(q) \in Nat \ {0}
         /\ Tail(q) \in Seq(S) /\ Len(Tail(q)) = Len(q) - 1
         /\ \A i \in 1 .. Len(q) - 1 : Tail(q)[i] = q[i + 1]
<1>1. Len(q) \in Nat \ {0}
  BY EmptySeq
<1>2. QED
  BY <1>1, HeadTailProperties

\* Newest keeps the last hashes, the very last among them, in their order.
LEMMA NewestElements ==
  ASSUME NEW q \in Seq(Hashes), q # <<>>, Len(q) <= Limit + 1
  PROVE  /\ Newest(q) \in Seq(Hashes) /\ Len(Newest(q)) \in 1 .. Limit
         /\ \E s \in {0, 1} :
              /\ Len(Newest(q)) = Len(q) - s
              /\ \A i \in 1 .. Len(Newest(q)) : Newest(q)[i] = q[i + s]
<1>1. Limit \in Nat \ {0} /\ Len(q) \in Nat \ {0}
  BY EmptySeq, MessageAssumption
<1>2. CASE Len(q) <= Limit
  <2>1. Newest(q) = q
    BY <1>1, <1>2 DEF Newest
  <2>2. QED
    BY <1>1, <1>2, <2>1
<1>3. CASE Len(q) > Limit
  <2>1. Len(q) = Limit + 1 /\ Newest(q) = SubSeq(q, 2, Len(q))
    BY <1>1, <1>3 DEF Newest
  <2>2. Newest(q) = Tail(q)
    BY <2>1, TailIsSubSeq
  <2>3. QED
    BY <1>1, <2>1, <2>2, TailElements
<1>4. QED
  BY <1>1, <1>2, <1>3

\* The preferences with one more hash are well formed; the hash is among what
\* they remember, and all else was remembered before.
LEMMA MarkedPreferences ==
  ASSUME NEW p, WellFormed(p), NEW h \in Hashes, h \notin Remembered(p),
         NEW r, r = [p EXCEPT !.hashes = Newest(Append(p.hashes, h))]
  PROVE  /\ WellFormed(r) /\ h \in Remembered(r)
         /\ Remembered(r) \subseteq Remembered(p) \cup {h}
<1> DEFINE a == Append(p.hashes, h)
           n == Newest(a)
<1>1. /\ p \in Preferences /\ p.hashes \in Seq(Hashes) /\ Len(p.hashes) \in Nat
      /\ Len(p.hashes) <= Limit /\ Limit \in Nat \ {0}
      /\ \A i, j \in 1 .. Len(p.hashes) : p.hashes[i] = p.hashes[j] => i = j
      /\ \A i \in 1 .. Len(p.hashes) : p.hashes[i] # h
  BY MessageAssumption DEF WellFormed, Preferences, Remembered
<1>2. /\ a \in Seq(Hashes) /\ Len(a) = Len(p.hashes) + 1 /\ a # <<>>
      /\ \A i \in 1 .. Len(p.hashes) : a[i] = p.hashes[i]
      /\ a[Len(p.hashes) + 1] = h
  BY <1>1, AppendElements
<1> HIDE DEF a
<1>3. /\ n \in Seq(Hashes) /\ Len(n) \in 1 .. Limit
      /\ \E s \in {0, 1} : /\ Len(n) = Len(a) - s
                           /\ \A i \in 1 .. Len(n) : n[i] = a[i + s]
  BY <1>1, <1>2, NewestElements
<1>4. PICK s \in {0, 1} : /\ Len(n) = Len(a) - s
                          /\ \A i \in 1 .. Len(n) : n[i] = a[i + s]
  BY <1>3
<1> HIDE DEF n
<1>5. \A i, j \in 1 .. Len(a) : a[i] = a[j] => i = j
  <2>1. \A i \in 1 .. Len(a) : i \in 1 .. Len(p.hashes) \/ i = Len(p.hashes) + 1
    BY <1>1, <1>2
  <2>2. QED
    BY <1>1, <1>2, <2>1
<1>6. \A i, j \in 1 .. Len(n) : n[i] = n[j] => i = j
  <2>1. SUFFICES ASSUME NEW i \in 1 .. Len(n), NEW j \in 1 .. Len(n), n[i] = n[j]
                 PROVE  i = j
    OBVIOUS
  <2>2. i + s \in 1 .. Len(a) /\ j + s \in 1 .. Len(a) /\ a[i + s] = a[j + s]
    BY <1>1, <1>2, <1>3, <1>4, <2>1
  <2>3. i + s = j + s
    BY <1>5, <2>2
  <2>4. QED
    BY <1>3, <2>3
<1>7. r = [p EXCEPT !.hashes = n]
  BY DEF a, n
<1>8. r \in Preferences /\ r.hashes = n
  BY <1>1, <1>3, <1>7 DEF Preferences
<1>9. WellFormed(r)
  BY <1>1, <1>3, <1>6, <1>8 DEF WellFormed
<1>10. h \in Remembered(r)
  <2>1. Len(n) \in 1 .. Len(n) /\ n[Len(n)] = h
    BY <1>1, <1>2, <1>3, <1>4
  <2>2. QED
    BY <1>8, <2>1 DEF Remembered
<1>11. Remembered(r) \subseteq Remembered(p) \cup {h}
  <2>1. SUFFICES ASSUME NEW i \in 1 .. Len(n), n[i] # h
                 PROVE  n[i] \in Remembered(p)
    BY <1>8 DEF Remembered
  <2>2. n[i] = a[i + s] /\ i + s \in 1 .. Len(a)
    BY <1>1, <1>2, <1>3, <1>4
  <2>3. i + s \in 1 .. Len(p.hashes)
    BY <1>1, <1>2, <2>1, <2>2
  <2>4. n[i] = p.hashes[i + s]
    BY <1>2, <2>2, <2>3
  <2>5. QED
    BY <2>3, <2>4 DEF Remembered
<1>12. QED
  BY <1>9, <1>10, <1>11

-----------------------------------------------------------------------------
(* Steps *)

\* What is remembered are hashes.
LEMMA RememberedType ==
  ASSUME NEW p, WellFormed(p)
  PROVE  Remembered(p) \subseteq Hashes
<1>1. p.hashes \in Seq(Hashes)
  BY DEF WellFormed, Preferences
<1>2. QED
  BY <1>1, ElementOfSeq DEF Remembered

\* The preferences of the app change and are sent to the device for call c:
\* hashes of H may be new, and none is lost that is not dropped for Limit.
Sends(c, H) ==
  /\ writes' = Append(writes, [prefs |-> prefs', by |-> c])
  /\ disk' = disk
  /\ WellFormed(prefs') /\ c \in 0 .. MaxCalls
  /\ Remembered(prefs') \subseteq Remembered(prefs) \cup H
  /\ Remembered(prefs) \subseteq Remembered(prefs') \cup forgotten'
  /\ forgotten \subseteq forgotten' /\ forgotten' \subseteq Hashes

\* Marking a hash sends it, or it is remembered already.
LEMMA MarkSends ==
  ASSUME MessagesTypeOK, NEW c \in Calls, NEW h \in Hashes, Mark(c, h), disk' = disk
  PROVE  /\ marked' = marked \cup {c}
         /\ \/ UNCHANGED <<prefs, writes, forgotten>> /\ h \in Remembered(prefs)
            \/ Sends(c, {h}) /\ h \in Remembered(prefs')
<1>1. marked' = marked \cup {c}
  BY DEF Mark
<1>2. CASE h \in Remembered(prefs)
  BY <1>1, <1>2 DEF Mark
<1>3. CASE h \notin Remembered(prefs)
  <2>1. /\ prefs' = [prefs EXCEPT !.hashes = Newest(Append(prefs.hashes, h))]
        /\ writes' = Append(writes, [prefs |-> prefs', by |-> c])
        /\ forgotten' = forgotten \cup (Remembered(prefs) \ Remembered(prefs'))
    BY <1>3 DEF Mark, Set
  <2>2. WellFormed(prefs)
    BY DEF MessagesTypeOK
  <2>3. /\ WellFormed(prefs') /\ h \in Remembered(prefs')
        /\ Remembered(prefs') \subseteq Remembered(prefs) \cup {h}
    BY <1>3, <2>1, <2>2, MarkedPreferences
  <2>4. forgotten \subseteq Hashes /\ Remembered(prefs) \subseteq Hashes
    BY <2>2, RememberedType DEF MessagesTypeOK
  <2>5. c \in 0 .. MaxCalls
    BY MessageAssumption DEF Calls
  <2>6. QED
    BY <1>1, <2>1, <2>3, <2>4, <2>5 DEF Sends
<1>4. QED
  BY <1>2, <1>3

\* The switch sends the preferences with the same hashes.
LEMMA SwitchSends ==
  ASSUME MessagesTypeOK, SetEnabled
  PROVE  Sends(0, {})
<1>1. /\ prefs' = [prefs EXCEPT !.enabled = ~ @]
      /\ writes' = Append(writes, [prefs |-> prefs', by |-> 0])
      /\ UNCHANGED <<disk, forgotten>>
  BY DEF SetEnabled, Set
<1>2. WellFormed(prefs) /\ forgotten \subseteq Hashes
  BY DEF MessagesTypeOK
<1>3. prefs' \in Preferences /\ prefs'.hashes = prefs.hashes
  BY <1>1, <1>2 DEF WellFormed, Preferences
<1>4. WellFormed(prefs') /\ Remembered(prefs') = Remembered(prefs)
  BY <1>2, <1>3 DEF WellFormed, Remembered
<1>5. 0 \in 0 .. MaxCalls
  BY MessageAssumption
<1>6. QED
  BY <1>1, <1>2, <1>4, <1>5 DEF Sends

\* What is sent is the newest copy, and the older ones stay.
LEMMA SendsCopies ==
  ASSUME writes \in Seq(Write), NEW c, NEW H, Sends(c, H)
  PROVE  /\ writes' \in Seq(Write) /\ Len(writes) \in Nat
         /\ Len(writes') = Len(writes) + 1
         /\ \A i \in 1 .. Len(writes) : writes'[i] = writes[i]
         /\ writes'[Len(writes')] = [prefs |-> prefs', by |-> c]
<1>1. [prefs |-> prefs', by |-> c] \in Write
  BY DEF Sends, Write, WellFormed
<1>2. QED
  BY <1>1, AppendElements DEF Sends

\* The steps of a message: it is looked up, remembered, or goes on.
LEMMA CallCases ==
  ASSUME MessagesTypeOK, MsgOK, NEW c \in Calls, CallStep(c)
  PROVE  /\ UNCHANGED <<running, disk, msg, beside>>
         /\ at[c] \in Open
         /\ \A d \in Calls \ {c} : at'[d] = at[d]
         /\ \/ /\ UNCHANGED <<prefs, writes, marked, forgotten>>
               /\ \/ at[c] = "raw" /\ at'[c] \in {"duplicate", "ignored", "semantic"}
                  \/ at[c] = "semantic" /\ at'[c] = "duplicate"
                  \/ at[c] = "second" /\ at'[c] = "showing" /\ Stored(c)
                  \/ at[c] = "showing" /\ at'[c] \in {"shown", "failed"}
               /\ at'[c] = "duplicate" =>
                    \/ msg[c] \in Remembered(prefs)
                    \/ at[c] = "semantic" /\ Payment(c) \in Remembered(prefs)
               /\ at'[c] = "semantic" => Payment(c) # None
            \/ /\ at[c] = "semantic" /\ at'[c] = "first"
               /\ Payment(c) \notin Remembered(prefs)
               /\ Mark(c, msg[c])
            \/ /\ at[c] = "first" /\ at'[c] = "second"
               /\ Mark(c, Payment(c))
<1>0. at \in [Calls -> Places]
  BY DEF MessagesTypeOK
<1>1. CASE LookUpMessage(c)
  BY <1>0, <1>1 DEF LookUpMessage, Goto, Open, Payment
<1>2. CASE LookUpPayment(c)
  BY <1>0, <1>2 DEF LookUpPayment, Goto, Open, Payment
<1>3. CASE MarkPayment(c)
  BY <1>0, <1>3 DEF MarkPayment, Goto, Open, Payment
<1>4. CASE Notify(c)
  BY <1>0, <1>4 DEF Notify, Goto, Open
<1>5. CASE Notified(c)
  BY <1>0, <1>5 DEF Notified, Goto, Open
<1>6. QED
  BY <1>1, <1>2, <1>3, <1>4, <1>5 DEF CallStep

\* Marking in a call: a hash is sent or known.
LEMMA CallMarks ==
  ASSUME MessagesTypeOK, MsgOK, NEW c \in Calls, disk' = disk,
         \/ at[c] = "semantic" /\ Mark(c, msg[c])
         \/ at[c] = "first" /\ Mark(c, Payment(c))
  PROVE  /\ marked' = marked \cup {c}
         /\ \E h \in {msg[c], Payment(c)} :
              /\ h \in Remembered(prefs')
              /\ at[c] = "semantic" => h = msg[c]
              /\ at[c] = "first" => h = Payment(c)
              /\ \/ UNCHANGED <<prefs, writes, forgotten>>
                 \/ Sends(c, {h})
<1>1. msg[c] \in Hashes /\ Payment(c) \in Hashes
  BY DEF MsgOK, Received, Told, Open, Hashes
<1>2. CASE at[c] = "semantic" /\ Mark(c, msg[c])
  BY <1>1, <1>2, MarkSends
<1>3. CASE at[c] = "first" /\ Mark(c, Payment(c))
  BY <1>1, <1>3, MarkSends
<1>4. QED
  BY <1>2, <1>3

-----------------------------------------------------------------------------
(* Types *)

\* A change of the preferences keeps the types of the copies.
LEMMA SendsTypes ==
  ASSUME MessagesTypeOK, MsgOK, NEW c, NEW H, Sends(c, H)
  PROVE  /\ WellFormed(prefs') /\ WellFormed(disk') /\ forgotten' \subseteq Hashes
         /\ writes' \in Seq(Write)
         /\ \A i \in 1 .. Len(writes') :
              WellFormed(writes'[i].prefs) /\ writes'[i].by \in 0 .. MaxCalls
<1>1. /\ writes' \in Seq(Write) /\ Len(writes) \in Nat /\ Len(writes') = Len(writes) + 1
      /\ \A i \in 1 .. Len(writes) : writes'[i] = writes[i]
      /\ writes'[Len(writes')] = [prefs |-> prefs', by |-> c]
  BY SendsCopies DEF MsgOK
<1>2. /\ WellFormed(prefs') /\ WellFormed(disk') /\ forgotten' \subseteq Hashes
      /\ c \in 0 .. MaxCalls
  BY DEF Sends, MessagesTypeOK
<1>3. ASSUME NEW i \in 1 .. Len(writes')
      PROVE  WellFormed(writes'[i].prefs) /\ writes'[i].by \in 0 .. MaxCalls
  <2>1. CASE i \in 1 .. Len(writes)
    BY <1>1, <2>1 DEF MessagesTypeOK
  <2>2. CASE i = Len(writes')
    BY <1>1, <1>2, <2>2
  <2>3. QED
    BY <1>1, <2>1, <2>2
<1>4. QED
  BY <1>1, <1>2, <1>3

\* Every step keeps the types.
LEMMA TypeStep == MessagesTypeOK /\ MsgOK /\ MessagesNext => MessagesTypeOK'
<1> SUFFICES ASSUME MessagesTypeOK, MsgOK, MessagesNext PROVE MessagesTypeOK'
  OBVIOUS
<1>1. ASSUME NEW c \in Calls, NEW m \in Messages, Receive(c, m) PROVE MessagesTypeOK'
  <2>1. UNCHANGED <<running, prefs, disk, writes, marked, forgotten>>
    BY <1>1 DEF Receive
  <2>2. at' \in [Calls -> Places]
    BY <1>1 DEF Receive, Goto, MessagesTypeOK, Places, Open
  <2>3. msg' \in [Calls -> Messages \cup {None}]
    BY <1>1 DEF Receive, MessagesTypeOK
  <2>4. beside' \in [Calls -> SUBSET Calls]
    <3>1. Looking \subseteq Calls /\ beside \in [Calls -> SUBSET Calls]
      BY DEF Looking, MessagesTypeOK
    <3>2. QED
      BY <1>1, <3>1 DEF Receive
  <2>5. QED
    BY <2>1, <2>2, <2>3, <2>4 DEF MessagesTypeOK
<1>2. ASSUME NEW c \in Calls, CallStep(c) PROVE MessagesTypeOK'
  <2>1. UNCHANGED <<running, disk, msg, beside>>
    BY <1>2, CallCases
  <2>2. at' \in [Calls -> Places]
    BY <1>2 DEF CallStep, LookUpMessage, LookUpPayment, MarkPayment, Notify, Notified, Goto,
                MessagesTypeOK, Places, Open
  <2>3. CASE UNCHANGED <<prefs, writes, marked, forgotten>>
    BY <2>1, <2>2, <2>3 DEF MessagesTypeOK
  <2>4. CASE \/ at[c] = "semantic" /\ Mark(c, msg[c])
             \/ at[c] = "first" /\ Mark(c, Payment(c))
    <3>1. /\ marked' \subseteq Calls
          /\ \/ UNCHANGED <<prefs, writes, forgotten>>
             \/ \E h \in {msg[c], Payment(c)} : Sends(c, {h})
      BY <2>1, <2>4, CallMarks DEF MessagesTypeOK
    <3>2. CASE UNCHANGED <<prefs, writes, forgotten>>
      BY <2>1, <2>2, <3>1, <3>2 DEF MessagesTypeOK
    <3>3. CASE \E h \in {msg[c], Payment(c)} : Sends(c, {h})
      BY <2>1, <2>2, <3>1, <3>3, SendsTypes DEF MessagesTypeOK
    <3>4. QED
      BY <3>1, <3>2, <3>3
  <2>5. QED
    BY <1>2, <2>3, <2>4, CallCases
<1>3. ASSUME StorePreferences PROVE MessagesTypeOK'
  <2>1. /\ UNCHANGED <<running, prefs, at, msg, marked, beside, forgotten>>
        /\ writes # <<>> /\ disk' = Head(writes).prefs /\ writes' = Tail(writes)
    BY <1>3 DEF StorePreferences
  <2>2. /\ Head(writes) = writes[1] /\ 1 \in 1 .. Len(writes)
        /\ \A i \in 1 .. Len(writes') : writes'[i] = writes[i + 1] /\ i + 1 \in 1 .. Len(writes)
    BY <2>1, TailElements DEF MsgOK
  <2>3. QED
    BY <2>1, <2>2 DEF MessagesTypeOK
<1>4. ASSUME SetEnabled PROVE MessagesTypeOK'
  <2>1. UNCHANGED <<running, at, msg, marked, beside>> /\ Sends(0, {})
    BY <1>4, SwitchSends DEF SetEnabled
  <2>2. QED
    BY <2>1, SendsTypes DEF MessagesTypeOK
<1>5. ASSUME Kill PROVE MessagesTypeOK'
  <2>1. at' \in [Calls -> Places]
    BY <1>5 DEF Kill, MessagesTypeOK, Places
  <2>2. \A i \in 1 .. Len(writes') : FALSE
    BY <1>5, EmptySeq DEF Kill
  <2>3. QED
    BY <1>5, <2>1, <2>2 DEF Kill, MessagesTypeOK
<1>6. ASSUME Start PROVE MessagesTypeOK'
  BY <1>6 DEF Start, MessagesTypeOK
<1>7. QED
  BY <1>1, <1>2, <1>3, <1>4, <1>5, <1>6 DEF MessagesNext

-----------------------------------------------------------------------------
(* Messages, duplicates and calls side by side *)

\* What a received message does to the calls.
LEMMA ReceiveCases ==
  ASSUME MessagesTypeOK, KnownOK, NEW c \in Calls, NEW m \in Messages, Receive(c, m)
  PROVE  /\ UNCHANGED <<running, prefs, disk, writes, marked, forgotten>>
         /\ at[c] = "idle" /\ at'[c] \in {"raw", "ignored"} /\ c \notin marked
         /\ at'[c] = "raw" => msg'[c] = m
         /\ \A d \in Calls \ {c} : at'[d] = at[d] /\ msg'[d] = msg[d]
<1>1. at[c] = "idle" /\ UNCHANGED <<running, prefs, disk, writes, marked, forgotten>>
  BY DEF Receive
<1>2. c \notin marked
  BY <1>1 DEF KnownOK, Past
<1>3. QED
  BY <1>1, <1>2 DEF Receive, Goto, MessagesTypeOK

\* Every step keeps the messages of the calls.
LEMMA MsgStep == MessagesTypeOK /\ MsgOK /\ KnownOK /\ MessagesNext => MsgOK'
<1> SUFFICES ASSUME MessagesTypeOK, MsgOK, KnownOK, MessagesNext PROVE MsgOK'
  OBVIOUS
<1>1. writes' \in Seq(Write)
  <2>1. ASSUME NEW c \in Calls, CallStep(c) PROVE writes' \in Seq(Write)
    <3>1. \/ writes' = writes
          \/ \E h : Sends(c, {h})
      BY <2>1, CallCases, CallMarks
    <3>2. QED
      BY <3>1, SendsCopies DEF MsgOK
  <2>2. ASSUME StorePreferences PROVE writes' \in Seq(Write)
    BY <2>2, TailElements DEF StorePreferences, MsgOK
  <2>3. ASSUME SetEnabled PROVE writes' \in Seq(Write)
    BY <2>3, SwitchSends, SendsCopies DEF MsgOK
  <2>4. ASSUME Kill PROVE writes' \in Seq(Write)
    BY <2>4, EmptySeq DEF Kill
  <2>5. QED
    BY <2>1, <2>2, <2>3, <2>4 DEF MessagesNext, Receive, Start, MsgOK
<1>2. ASSUME NEW c \in Calls, NEW m \in Messages, Receive(c, m) PROVE MsgOK'
  <2>1. \A d \in Calls \ {c} : Payment(d)' = Payment(d)
    BY <1>2, ReceiveCases DEF Payment
  <2>2. QED
    BY <1>1, <1>2, <2>1, ReceiveCases DEF MsgOK, Told, Received, Open
<1>3. ASSUME NEW c \in Calls, CallStep(c) PROVE MsgOK'
  <2>1. /\ msg' = msg /\ \A d \in Calls : Payment(d)' = Payment(d)
        /\ \A d \in Calls \ {c} : at'[d] = at[d] /\ (d \in marked' => d \in marked)
    BY <1>3, CallCases, CallMarks DEF Payment
  <2>2. at[c] \in Open /\ msg[c] \in Messages
    BY <1>3, CallCases DEF MsgOK, Received
  <2>3. at'[c] \in Told \/ c \in marked' => Payment(c) \in Payments
    <3>1. at[c] \in Told \/ c \in marked => Payment(c) \in Payments
      BY DEF MsgOK
    <3>2. CASE at[c] = "raw"
      <4>1. marked' = marked
        BY <1>3, <3>2, CallCases
      <4>2. at'[c] \in Told => Payment(c) # None
        BY <1>3, <3>2, CallCases DEF Told, Received, Open
      <4>3. Payment(c) \in Payments \cup {None}
        BY <2>2, MessageAssumption DEF Payment
      <4>4. QED
        BY <3>1, <4>1, <4>2, <4>3
    <3>3. CASE at[c] # "raw"
      BY <2>2, <3>1, <3>3 DEF Told, Received, Open
    <3>4. QED
      BY <3>2, <3>3
  <2>4. \A d \in Calls :
          /\ at'[d] \in Received => msg'[d] \in Messages
          /\ at'[d] \in Told \/ d \in marked' => Payment(d)' \in Payments
          /\ d \in marked' => msg'[d] \in Messages
    BY <2>1, <2>2, <2>3 DEF MsgOK
  <2>5. QED
    BY <1>1, <2>4 DEF MsgOK
<1>4. ASSUME StorePreferences \/ SetEnabled \/ Start PROVE MsgOK'
  BY <1>1, <1>4 DEF StorePreferences, SetEnabled, Start, MsgOK, Payment
<1>5. ASSUME Kill PROVE MsgOK'
  <2>1. /\ UNCHANGED <<msg, marked>> /\ \A c \in Calls : Payment(c)' = Payment(c)
        /\ \A c \in Calls : at'[c] = at[c] \/ at'[c] = "killed"
    BY <1>5 DEF Kill, Payment
  <2>2. QED
    BY <1>1, <2>1 DEF MsgOK, Told, Received, Open
<1>6. QED
  BY <1>2, <1>3, <1>4, <1>5 DEF MessagesNext

\* Hashes stay known when messages and marked calls stay.
LEMMA HashedKept ==
  ASSUME marked \subseteq marked', \A d \in marked : msg'[d] = msg[d]
  PROVE  Hashed \subseteq Hashed'
BY DEF Hashed, Payment

\* Every step keeps track of who remembered what.
LEMMA KnownStep == MessagesTypeOK /\ MsgOK /\ KnownOK /\ MessagesNext => KnownOK'
<1> SUFFICES ASSUME MessagesTypeOK, MsgOK, KnownOK, MessagesNext PROVE KnownOK'
  OBVIOUS
<1>0. marked \subseteq Calls
  BY DEF MessagesTypeOK
<1>1. ASSUME UNCHANGED <<prefs, disk, writes>>, marked \subseteq marked',
             \A d \in marked : msg'[d] = msg[d],
             \A d \in marked' : at'[d] \in Past \cup {"killed"}
      PROVE  KnownOK'
  BY <1>1, HashedKept DEF KnownOK
<1>2. ASSUME NEW c, NEW H, Sends(c, H), UNCHANGED msg, marked \subseteq marked',
             H \subseteq Hashed',
             \A d \in marked' : at'[d] \in Past \cup {"killed"}
      PROVE  KnownOK'
  <2>1. Hashed \subseteq Hashed'
    BY <1>2, HashedKept
  <2>2. Remembered(prefs') \subseteq Hashed' /\ Remembered(disk') \subseteq Hashed'
    BY <1>2, <2>1 DEF KnownOK, Sends
  <2>3. ASSUME NEW i \in 1 .. Len(writes') PROVE Remembered(writes'[i].prefs) \subseteq Hashed'
    <3>1. /\ Len(writes) \in Nat /\ Len(writes') = Len(writes) + 1
          /\ \A j \in 1 .. Len(writes) : writes'[j] = writes[j]
          /\ writes'[Len(writes')] = [prefs |-> prefs', by |-> c]
      BY <1>2, SendsCopies DEF MsgOK
    <3>2. CASE i \in 1 .. Len(writes)
      BY <2>1, <3>1, <3>2 DEF KnownOK
    <3>3. CASE i = Len(writes')
      BY <2>2, <3>1, <3>3
    <3>4. QED
      BY <3>1, <3>2, <3>3
  <2>4. QED
    BY <1>2, <2>2, <2>3 DEF KnownOK
<1>3. ASSUME NEW c \in Calls, NEW m \in Messages, Receive(c, m) PROVE KnownOK'
  <2>1. \A d \in marked : at'[d] = at[d] /\ msg'[d] = msg[d]
    BY <1>0, <1>3, ReceiveCases
  <2>2. \A d \in marked : at[d] \in Past \cup {"killed"}
    BY DEF KnownOK
  <2>3. QED
    BY <1>1, <1>3, <2>1, <2>2, ReceiveCases
<1>4. ASSUME NEW c \in Calls, CallStep(c) PROVE KnownOK'
  <2>1. /\ UNCHANGED <<disk, msg>> /\ at[c] \in Open
        /\ \A d \in Calls \ {c} : at'[d] = at[d]
    BY <1>4, CallCases
  <2>2. \A d \in marked : at[d] \in Past \cup {"killed"}
    BY DEF KnownOK
  <2>3. CASE UNCHANGED <<prefs, writes, marked, forgotten>>
    <3>1. at[c] \in Past => at'[c] \in Past
      BY <1>4, CallCases DEF Past
    <3>2. at[c] # "killed"
      BY <2>1 DEF Open
    <3>3. \A d \in marked' : at'[d] \in Past \cup {"killed"}
      BY <1>0, <2>1, <2>2, <2>3, <3>1, <3>2
    <3>4. QED
      BY <1>1, <2>1, <2>3, <3>3
  <2>4. CASE ~ UNCHANGED <<prefs, writes, marked, forgotten>>
    <3>1. /\ \/ at[c] = "semantic" /\ Mark(c, msg[c])
             \/ at[c] = "first" /\ Mark(c, Payment(c))
          /\ at'[c] \in Past
      BY <1>4, <2>4, CallCases DEF Past
    <3>2. marked' = marked \cup {c}
      BY <2>1, <3>1, CallMarks
    <3>3. PICK h \in {msg[c], Payment(c)} :
            UNCHANGED <<prefs, writes, forgotten>> \/ Sends(c, {h})
      BY <2>1, <3>1, CallMarks
    <3>4. \A d \in marked' : at'[d] \in Past \cup {"killed"}
      BY <1>0, <2>1, <2>2, <3>1, <3>2
    <3>5. {h} \subseteq Hashed'
      BY <2>1, <3>2 DEF Hashed, Payment
    <3>6. QED
      BY <1>1, <1>2, <2>1, <3>2, <3>3, <3>4, <3>5
  <2>5. QED
    BY <2>3, <2>4
<1>5. ASSUME StorePreferences PROVE KnownOK'
  <2>1. /\ UNCHANGED <<prefs, at, msg, marked>>
        /\ writes # <<>> /\ disk' = Head(writes).prefs /\ writes' = Tail(writes)
    BY <1>5 DEF StorePreferences
  <2>2. /\ Head(writes) = writes[1] /\ 1 \in 1 .. Len(writes)
        /\ \A i \in 1 .. Len(writes') : writes'[i] = writes[i + 1] /\ i + 1 \in 1 .. Len(writes)
    BY <2>1, TailElements DEF MsgOK
  <2>3. Hashed' = Hashed
    BY <2>1 DEF Hashed, Payment
  <2>4. QED
    BY <2>1, <2>2, <2>3 DEF KnownOK
<1>6. ASSUME SetEnabled PROVE KnownOK'
  <2>1. Sends(0, {}) /\ UNCHANGED <<at, msg, marked>>
    BY <1>6, SwitchSends DEF SetEnabled
  <2>2. QED
    BY <1>2, <2>1 DEF KnownOK
<1>7. ASSUME Kill PROVE KnownOK'
  <2>1. /\ UNCHANGED <<disk, msg, marked>> /\ prefs' = disk /\ writes' = <<>>
        /\ \A c \in Calls : at'[c] = IF at[c] \in Open THEN "killed" ELSE at[c]
    BY <1>7 DEF Kill
  <2>2. Hashed' = Hashed
    BY <2>1 DEF Hashed, Payment
  <2>3. \A i \in 1 .. Len(writes') : FALSE
    BY <2>1, EmptySeq
  <2>4. \A c \in marked : at'[c] \in Past \cup {"killed"}
    BY <1>0, <2>1 DEF KnownOK
  <2>5. QED
    BY <2>1, <2>2, <2>3, <2>4 DEF KnownOK
<1>8. ASSUME Start PROVE KnownOK'
  BY <1>1, <1>8 DEF Start, KnownOK
<1>9. QED
  BY <1>3, <1>4, <1>5, <1>6, <1>7, <1>8 DEF MessagesNext

\* Every step keeps track of which calls were looking side by side.
LEMMA BesideStep == MessagesTypeOK /\ MsgOK /\ KnownOK /\ BesideOK /\ MessagesNext => BesideOK'
<1> SUFFICES ASSUME MessagesTypeOK, MsgOK, KnownOK, BesideOK, MessagesNext PROVE BesideOK'
  OBVIOUS
<1>1. ASSUME UNCHANGED beside, Looking' \subseteq Looking,
             \A c \in Calls : at[c] # "idle" => at'[c] # "idle"
      PROVE  BesideOK'
  BY <1>1 DEF BesideOK
<1>2. ASSUME NEW c \in Calls, NEW m \in Messages, Receive(c, m) PROVE BesideOK'
  <2>1. \A d \in Calls : at[d] # "idle" => at'[d] # "idle"
    BY <1>2, ReceiveCases
  <2>2. CASE running /\ prefs.enabled
    <3>1. /\ c \notin Looking /\ Looking \subseteq Calls
          /\ Looking' \subseteq Looking \cup {c}
          /\ at'[c] # "idle" /\ \A d \in Looking : at[d] # "idle"
      BY <1>2, ReceiveCases DEF Looking
    <3>2. \A d \in Calls : beside'[d] = IF d = c THEN Looking
                                        ELSE IF d \in Looking THEN beside[d] \cup {c}
                                        ELSE beside[d]
      BY <1>2, <2>2 DEF Receive
    <3>3. \A d, e \in Looking' : d # e => e \in beside'[d]
      BY <3>1, <3>2 DEF BesideOK
    <3>4. at[c] = "idle"
      BY <1>2, ReceiveCases
    <3>5. \A d \in Calls : c \notin beside[d] /\ d \notin beside[c]
      BY <3>4 DEF BesideOK
    <3>6. \A d, e \in Calls :
            e \in beside'[d] => d \in beside'[e] /\ at'[d] # "idle" /\ at'[e] # "idle"
      <4>1. SUFFICES ASSUME NEW d \in Calls, NEW e \in Calls, e \in beside'[d]
                     PROVE  d \in beside'[e] /\ at'[d] # "idle" /\ at'[e] # "idle"
        OBVIOUS
      <4>2. CASE d = c
        BY <2>1, <3>1, <3>2, <4>1, <4>2
      <4>3. CASE d # c /\ e = c
        BY <2>1, <3>1, <3>2, <3>5, <4>1, <4>3
      <4>4. CASE d # c /\ e # c
        <5>1. e \in beside[d]
          BY <3>2, <4>1, <4>4
        <5>2. d \in beside[e] /\ at[d] # "idle" /\ at[e] # "idle"
          BY <5>1 DEF BesideOK
        <5>3. QED
          BY <2>1, <3>2, <4>4, <5>2
      <4>5. QED
        BY <4>2, <4>3, <4>4
    <3>7. QED
      BY <3>3, <3>6 DEF BesideOK
  <2>3. CASE ~ (running /\ prefs.enabled)
    <3>1. UNCHANGED beside
      BY <1>2, <2>3 DEF Receive
    <3>2. Looking' \subseteq Looking
      BY <1>2, <2>3, ReceiveCases DEF Looking, Receive, Goto, MessagesTypeOK
    <3>3. QED
      BY <1>1, <2>1, <3>1, <3>2
  <2>4. QED
    BY <2>2, <2>3
<1>3. ASSUME NEW c \in Calls, CallStep(c) PROVE BesideOK'
  BY <1>1, <1>3, CallCases DEF Looking
<1>4. ASSUME StorePreferences \/ SetEnabled \/ Start PROVE BesideOK'
  BY <1>1, <1>4 DEF StorePreferences, SetEnabled, Start, Looking
<1>5. ASSUME Kill PROVE BesideOK'
  <2>1. UNCHANGED beside /\ \A c \in Calls : at'[c] = IF at[c] \in Open THEN "killed" ELSE at[c]
    BY <1>5 DEF Kill
  <2>2. Looking' \subseteq Looking
    BY <2>1 DEF Looking
  <2>3. QED
    BY <1>1, <2>1, <2>2
<1>6. QED
  BY <1>2, <1>3, <1>4, <1>5 DEF MessagesNext

-----------------------------------------------------------------------------
(* The copies of the preferences *)

\* What is sent to the device becomes the newest copy; the older ones keep
\* their places.
LEMMA SendsCopyAt ==
  ASSUME MsgOK, NEW c, NEW H, Sends(c, H)
  PROVE  /\ Len(writes) \in Nat /\ Len(writes') = Len(writes) + 1
         /\ \A i \in 0 .. Len(writes) : CopyAt(i)' = CopyAt(i)
         /\ CopyAt(Len(writes))' = prefs'
         /\ \A i \in 1 .. Len(writes) : writes'[i] = writes[i]
         /\ writes'[Len(writes')].by = c
<1>1. /\ Len(writes) \in Nat /\ Len(writes') = Len(writes) + 1
      /\ \A i \in 1 .. Len(writes) : writes'[i] = writes[i]
      /\ writes'[Len(writes')] = [prefs |-> prefs', by |-> c]
  BY SendsCopies DEF MsgOK
<1>2. disk' = disk
  BY DEF Sends
<1>3. \A i \in 0 .. Len(writes) : CopyAt(i)' = CopyAt(i)
  BY <1>1, <1>2 DEF CopyAt
<1>4. CopyAt(Len(writes))' = prefs'
  BY <1>1 DEF CopyAt
<1>5. QED
  BY <1>1, <1>3, <1>4

\* What the device stores leaves the copies, and the others move up.
LEMMA StoreCopyAt ==
  ASSUME MsgOK, StorePreferences
  PROVE  /\ Len(writes) \in Nat \ {0} /\ Len(writes') = Len(writes) - 1
         /\ \A i \in 1 .. Len(writes') : writes'[i] = writes[i + 1]
         /\ \A i \in 0 .. Len(writes') : CopyAt(i)' = CopyAt(i + 1)
<1>1. writes # <<>> /\ disk' = Head(writes).prefs /\ writes' = Tail(writes)
  BY DEF StorePreferences
<1>2. /\ Len(writes) \in Nat \ {0} /\ Len(writes') = Len(writes) - 1
      /\ Head(writes) = writes[1]
      /\ \A i \in 1 .. Len(writes') : writes'[i] = writes[i + 1]
  BY <1>1, TailElements DEF MsgOK
<1>3. \A i \in 0 .. Len(writes') : CopyAt(i)' = CopyAt(i + 1)
  BY <1>1, <1>2 DEF CopyAt
<1>4. QED
  BY <1>2, <1>3

\* A step of a call sends preferences with its hash, or changes no copy.
LEMMA CallSends ==
  ASSUME MessagesTypeOK, MsgOK, NEW c \in Calls, CallStep(c)
  PROVE  /\ at'[c] = "first" =>
              at[c] = "semantic" /\ Payment(c) \notin Remembered(prefs)
         /\ at'[c] = "second" => at[c] = "first"
         /\ \/ /\ UNCHANGED <<prefs, disk, writes, forgotten>>
               /\ at[c] = "first" => Payment(c) \in Remembered(prefs)
            \/ at[c] = "semantic" /\ at'[c] = "first" /\ Sends(c, {msg[c]})
            \/ /\ at[c] = "first" /\ at'[c] = "second" /\ Sends(c, {Payment(c)})
               /\ Payment(c) \in Remembered(prefs')
<1>1. disk' = disk
  BY CallCases
<1>2. CASE UNCHANGED <<prefs, writes, marked, forgotten>> /\ at'[c] \notin {"first", "second"}
  BY <1>1, <1>2, CallCases
<1>3. CASE /\ at[c] = "semantic" /\ at'[c] = "first" /\ Mark(c, msg[c])
           /\ Payment(c) \notin Remembered(prefs)
  BY <1>1, <1>3, CallMarks
<1>4. CASE at[c] = "first" /\ at'[c] = "second" /\ Mark(c, Payment(c))
  BY <1>1, <1>4, CallMarks
<1>5. QED
  BY <1>2, <1>3, <1>4, CallCases

\* Every step keeps the app's preferences the newest copy.
LEMMA NewestStep == MessagesTypeOK /\ MsgOK /\ NewestOK /\ MessagesNext => NewestOK'
<1> SUFFICES ASSUME MessagesTypeOK, MsgOK, NewestOK, MessagesNext PROVE NewestOK'
  OBVIOUS
<1>1. ASSUME UNCHANGED <<prefs, disk, writes>> PROVE NewestOK'
  BY <1>1 DEF NewestOK, CopyAt
<1>2. ASSUME NEW c, NEW H, Sends(c, H) PROVE NewestOK'
  BY <1>2, SendsCopyAt DEF NewestOK
<1>3. ASSUME NEW c \in Calls, CallStep(c) PROVE NewestOK'
  BY <1>1, <1>2, <1>3, CallSends
<1>4. ASSUME StorePreferences PROVE NewestOK'
  <2>1. /\ prefs' = prefs /\ Len(writes) \in Nat \ {0} /\ Len(writes') = Len(writes) - 1
        /\ \A i \in 0 .. Len(writes') : CopyAt(i)' = CopyAt(i + 1)
    BY <1>4, StoreCopyAt DEF StorePreferences
  <2>2. Len(writes') \in 0 .. Len(writes') /\ Len(writes') + 1 = Len(writes)
    BY <2>1
  <2>3. CopyAt(Len(writes))' = CopyAt(Len(writes))
    BY <2>1, <2>2
  <2>4. QED
    BY <2>1, <2>3 DEF NewestOK
<1>5. ASSUME Kill PROVE NewestOK'
  <2>1. prefs' = disk' /\ writes' = <<>>
    BY <1>5 DEF Kill
  <2>2. Len(writes') = 0
    BY <2>1, EmptySeq
  <2>3. QED
    BY <2>1, <2>2 DEF NewestOK, CopyAt
<1>6. QED
  BY <1>1, <1>2, <1>3, <1>4, <1>5, SwitchSends DEF MessagesNext, Receive, Start

-----------------------------------------------------------------------------
(* Payments that are remembered stay so, or will be stored *)

\* What is remembered from a copy on is so when the preferences are sent again,
\* unless it is dropped.
LEMMA SendsInFrom ==
  ASSUME MsgOK, NewestOK, NEW c, NEW H, Sends(c, H), NEW pay, pay \notin forgotten',
         NEW i \in 0 .. Len(writes), InFrom(pay, i)
  PROVE  InFrom(pay, i)'
<1>1. /\ Len(writes) \in Nat /\ Len(writes') = Len(writes) + 1
      /\ \A k \in 0 .. Len(writes) : CopyAt(k)' = CopyAt(k)
      /\ CopyAt(Len(writes))' = prefs'
  BY SendsCopyAt
<1>2. pay \in Remembered(prefs)
  BY <1>1 DEF InFrom, NewestOK
<1>3. pay \in Remembered(prefs')
  BY <1>2 DEF Sends
<1>4. ASSUME NEW k, k = Len(writes') PROVE CopyAt(k)' = prefs'
  BY <1>1, <1>4 DEF CopyAt
<1>5. ASSUME NEW k \in i .. Len(writes') PROVE pay \in Remembered(CopyAt(k))'
  <2>1. CASE k = Len(writes')
    BY <1>3, <1>4, <2>1 DEF Remembered
  <2>2. CASE k # Len(writes')
    <3>1. k \in i .. Len(writes) /\ k \in 0 .. Len(writes)
      BY <1>1, <2>2
    <3>2. pay \in Remembered(CopyAt(k)) /\ CopyAt(k)' = CopyAt(k)
      BY <1>1, <3>1 DEF InFrom
    <3>3. QED
      BY <3>2 DEF Remembered
  <2>3. QED
    BY <2>1, <2>2
<1>6. QED
  BY <1>5 DEF InFrom

\* When the device stores a copy, what is remembered from a later one on is so
\* from one place lower.
LEMMA StoreInFrom ==
  ASSUME MsgOK, StorePreferences, NEW pay, NEW i \in Nat,
         InFrom(pay, i + 1) \/ (i = 0 /\ InFrom(pay, 0))
  PROVE  InFrom(pay, i)'
<1>1. /\ Len(writes) \in Nat \ {0} /\ Len(writes') = Len(writes) - 1
      /\ \A k \in 0 .. Len(writes') : CopyAt(k)' = CopyAt(k + 1)
  BY StoreCopyAt
<1>2. ASSUME NEW k \in i .. Len(writes') PROVE pay \in Remembered(CopyAt(k))'
  <2>1. /\ k + 1 \in i + 1 .. Len(writes) /\ k \in 0 .. Len(writes')
        /\ k + 1 \in 0 .. Len(writes)
    BY <1>1
  <2>2. pay \in Remembered(CopyAt(k + 1)) /\ CopyAt(k)' = CopyAt(k + 1)
    BY <1>1, <2>1 DEF InFrom
  <2>3. QED
    BY <2>2 DEF Remembered
<1>3. QED
  BY <1>2 DEF InFrom

\* A call that sends its payment supports it.
LEMMA SendsWritten ==
  ASSUME MsgOK, NEW c, NEW H, Sends(c, H), NEW pay \in Remembered(prefs')
  PROVE  WrittenBy(pay, c)'
<1>1. /\ Len(writes) \in Nat /\ Len(writes') = Len(writes) + 1
      /\ CopyAt(Len(writes))' = prefs' /\ writes'[Len(writes')].by = c
  BY SendsCopyAt
<1>2. PICK n \in Nat : n = Len(writes')
  BY <1>1
<1>3. CopyAt(n)' = prefs' /\ \A k \in n .. Len(writes') : k = n
  BY <1>1, <1>2 DEF CopyAt
<1>4. InFrom(pay, n)'
  BY <1>3 DEF InFrom, Remembered
<1>5. n \in 1 .. Len(writes') /\ writes'[n].by = c
  BY <1>1, <1>2
<1>6. QED
  BY <1>4, <1>5 DEF WrittenBy

\* What supports a payment goes on to do so, unless the payment is dropped,
\* while the app is not killed.
LEMMA SupportKept ==
  ASSUME MessagesTypeOK, MsgOK, KnownOK, NewestOK, MessagesNext, ~ Kill,
         NEW pay, NEW W \in SUBSET Calls, Supported(pay, W), pay \notin forgotten'
  PROVE  Supported(pay, W)'
<1>1. ASSUME UNCHANGED <<disk, writes>>, NEW i \in Nat, InFrom(pay, i) PROVE InFrom(pay, i)'
  BY <1>1 DEF InFrom, CopyAt, Remembered
<1>2. ASSUME UNCHANGED <<disk, writes>>, NEW e \in W, WrittenBy(pay, e)
      PROVE  WrittenBy(pay, e)'
  BY <1>1, <1>2 DEF WrittenBy
<1>3. ASSUME NEW c, NEW H, Sends(c, H), NEW e \in W, WrittenBy(pay, e)
      PROVE  WrittenBy(pay, e)'
  <2>1. PICK i \in 1 .. Len(writes) : writes[i].by = e /\ InFrom(pay, i)
    BY <1>3 DEF WrittenBy
  <2>2. /\ i \in 0 .. Len(writes) /\ i \in 1 .. Len(writes')
        /\ writes'[i].by = e
    BY <1>3, <2>1, SendsCopyAt
  <2>3. InFrom(pay, i)'
    BY <1>3, <2>1, <2>2, SendsInFrom
  <2>4. QED
    BY <2>2, <2>3 DEF WrittenBy
<1>4. ASSUME NEW c, NEW H, Sends(c, H), InFrom(pay, 0) PROVE InFrom(pay, 0)'
  <2>1. 0 \in 0 .. Len(writes)
    BY <1>4, SendsCopyAt
  <2>2. QED
    BY <1>4, <2>1, SendsInFrom
<1>5. CASE StorePreferences
  <2>1. CASE InFrom(pay, 0)
    BY <1>5, <2>1, StoreInFrom DEF Supported
  <2>2. CASE \E e \in W : at[e] = "second" /\ Payment(e) = pay /\ WrittenBy(pay, e)
    <3>1. PICK e \in W : at[e] = "second" /\ Payment(e) = pay /\ WrittenBy(pay, e)
      BY <2>2
    <3>2. PICK i \in 1 .. Len(writes) : writes[i].by = e /\ InFrom(pay, i)
      BY <3>1 DEF WrittenBy
    <3>3. at'[e] = "second" /\ Payment(e)' = pay
      BY <1>5, <3>1 DEF StorePreferences, Payment
    <3>4. PICK j \in Nat : j + 1 = i
      <4>1. i - 1 \in Nat /\ (i - 1) + 1 = i
        BY <3>2
      <4>2. QED
        BY <4>1
    <3>5. InFrom(pay, j)'
      BY <1>5, <3>2, <3>4, StoreInFrom
    <3>6. CASE i = 1
      BY <3>4, <3>5, <3>6 DEF Supported
    <3>7. CASE i # 1
      <4>1. j \in 1 .. Len(writes') /\ writes'[j].by = e
        BY <1>5, <3>2, <3>4, <3>7, StoreCopyAt
      <4>2. WrittenBy(pay, e)'
        BY <3>5, <4>1 DEF WrittenBy
      <4>3. QED
        BY <3>3, <4>2 DEF Supported
    <3>8. QED
      BY <3>6, <3>7
  <2>3. QED
    BY <2>1, <2>2 DEF Supported
<1>6. CASE ~ StorePreferences
  <2>1. \/ UNCHANGED <<disk, writes>>
        \/ \E c, H : Sends(c, H)
    BY <1>6, CallSends, SwitchSends DEF MessagesNext, Receive, Start
  <2>2. CASE InFrom(pay, 0)
    <3>1. InFrom(pay, 0)'
      BY <1>1, <1>4, <2>1, <2>2
    <3>2. QED
      BY <3>1 DEF Supported
  <2>3. CASE \E e \in W : at[e] = "second" /\ Payment(e) = pay /\ WrittenBy(pay, e)
    <3>1. PICK e \in W : at[e] = "second" /\ Payment(e) = pay /\ WrittenBy(pay, e)
      BY <2>3
    <3>2. WrittenBy(pay, e)'
      BY <1>2, <1>3, <2>1, <3>1
    <3>3. at'[e] = "second" /\ msg'[e] = msg[e]
      <4>1. ~ Stored(e)
        BY <3>1 DEF WrittenBy, Stored
      <4>2. ASSUME NEW c \in Calls, NEW m \in Messages, Receive(c, m)
            PROVE  at'[e] = "second" /\ msg'[e] = msg[e]
        BY <3>1, <4>2, ReceiveCases
      <4>3. ASSUME NEW c \in Calls, CallStep(c)
            PROVE  at'[e] = "second" /\ msg'[e] = msg[e]
        <5>1. CASE c = e
          BY <3>1, <4>1, <4>3, <5>1, CallCases
        <5>2. CASE c # e
          BY <3>1, <4>3, <5>2, CallCases
        <5>3. QED
          BY <5>1, <5>2
      <4>4. ASSUME SetEnabled \/ Start PROVE at'[e] = "second" /\ msg'[e] = msg[e]
        BY <3>1, <4>4 DEF SetEnabled, Start
      <4>5. QED
        BY <1>6, <4>2, <4>3, <4>4 DEF MessagesNext
    <3>4. QED
      BY <3>1, <3>2, <3>3 DEF Supported, Payment
  <2>4. QED
    BY <2>2, <2>3 DEF Supported
<1>7. QED
  BY <1>5, <1>6

\* What is supported is remembered by the app.
LEMMA SupportedRemembered ==
  ASSUME MsgOK, NewestOK, NEW pay, NEW W, Supported(pay, W)
  PROVE  pay \in Remembered(prefs)
<1>1. PICK i \in 0 .. Len(writes) : InFrom(pay, i)
  <2>1. Len(writes) \in Nat
    BY DEF MsgOK
  <2>2. QED
    BY <2>1 DEF Supported, WrittenBy
<1>2. Len(writes) \in i .. Len(writes)
  BY <1>1 DEF MsgOK
<1>3. QED
  BY <1>1, <1>2 DEF InFrom, NewestOK

\* What a step leaves of a call that has come: its message, the calls beside
\* it, that it was killed; and hashes stay forgotten.
LEMMA Kept ==
  ASSUME MessagesTypeOK, MsgOK, KnownOK, BesideOK, MessagesNext,
         NEW c \in Calls, at[c] # "idle"
  PROVE  /\ msg'[c] = msg[c] /\ Payment(c)' = Payment(c) /\ beside[c] \subseteq beside'[c]
         /\ at[c] \notin Open => at'[c] = at[c]
         /\ forgotten \subseteq forgotten' /\ marked \subseteq marked'
         /\ at[c] \in Past /\ ~ Kill => at'[c] \in Past
         /\ at'[c] \in Past => at[c] \in Past \/ (at[c] = "semantic" /\ at'[c] = "first")
<1>1. SUFFICES /\ msg'[c] = msg[c] /\ beside[c] \subseteq beside'[c]
               /\ at[c] \notin Open => at'[c] = at[c]
               /\ forgotten \subseteq forgotten' /\ marked \subseteq marked'
               /\ at[c] \in Past /\ ~ Kill => at'[c] \in Past
               /\ at'[c] \in Past =>
                    at[c] \in Past \/ (at[c] = "semantic" /\ at'[c] = "first")
  BY DEF Payment
<1> DEFINE Goal ==
      /\ msg'[c] = msg[c] /\ beside[c] \subseteq beside'[c]
      /\ at[c] \notin Open => at'[c] = at[c]
      /\ forgotten \subseteq forgotten' /\ marked \subseteq marked'
      /\ at[c] \in Past /\ ~ Kill => at'[c] \in Past
      /\ at'[c] \in Past => at[c] \in Past \/ (at[c] = "semantic" /\ at'[c] = "first")
<1>2. ASSUME NEW d \in Calls, NEW m \in Messages, Receive(d, m) PROVE Goal
  <2>1. /\ msg'[c] = msg[c] /\ at'[c] = at[c] /\ UNCHANGED <<forgotten, marked>> /\ d # c
    BY <1>2, ReceiveCases
  <2>2. beside[c] \subseteq beside'[c]
    BY <1>2, <2>1 DEF Receive
  <2>3. QED
    BY <2>1, <2>2
<1>3. ASSUME NEW d \in Calls, CallStep(d) PROVE Goal
  <2>1. UNCHANGED <<msg, beside>> /\ at[d] \in Open /\ (d # c => at'[c] = at[c])
    BY <1>3, CallCases
  <2>2. forgotten \subseteq forgotten'
    BY <1>3, CallSends DEF Sends
  <2>3. marked \subseteq marked'
    BY <1>3, CallCases, CallMarks
  <2>4. CASE c = d
    <3>1. /\ at[c] \in Past => at'[c] \in Past
          /\ at'[c] \in Past => at[c] \in Past \/ (at[c] = "semantic" /\ at'[c] = "first")
      BY <1>3, <2>4, CallCases DEF Past
    <3>2. QED
      BY <2>1, <2>2, <2>3, <2>4, <3>1
  <2>5. QED
    BY <2>1, <2>2, <2>3, <2>4
<1>4. ASSUME StorePreferences \/ Start PROVE Goal
  BY <1>4 DEF StorePreferences, Start
<1>5. ASSUME SetEnabled PROVE Goal
  BY <1>5 DEF SetEnabled
<1>6. ASSUME Kill PROVE Goal
  <2>1. /\ UNCHANGED <<msg, beside, forgotten, marked>>
        /\ at'[c] = IF at[c] \in Open THEN "killed" ELSE at[c]
    BY <1>6 DEF Kill
  <2>2. QED
    BY <1>6, <2>1 DEF Past
<1>7. QED
  BY <1>2, <1>3, <1>4, <1>5, <1>6 DEF MessagesNext

\* A call that was killed beside another one stays so.
LEMMA KilledKept ==
  ASSUME MessagesTypeOK, MsgOK, KnownOK, BesideOK, MessagesNext,
         NEW c \in Calls, at[c] # "idle"
  PROVE  KilledBeside(c) \subseteq KilledBeside(c)'
<1>1. SUFFICES ASSUME NEW e \in KilledBeside(c) PROVE e \in KilledBeside(c)'
  OBVIOUS
<1>2. e \in beside[c] /\ at[e] = "killed" /\ Payment(e) = Payment(c) /\ e \in Calls
  BY <1>1 DEF KilledBeside, MessagesTypeOK
<1>3. /\ at'[e] = "killed" /\ Payment(e)' = Payment(e)
      /\ Payment(c)' = Payment(c) /\ beside[c] \subseteq beside'[c]
  BY <1>2, Kept DEF Open
<1>4. QED
  BY <1>2, <1>3 DEF KilledBeside

\* When the app is killed, only what the device has is remembered.
LEMMA KillSupport ==
  ASSUME MessagesTypeOK, MsgOK, KnownOK, BesideOK, SupportOK, Kill, NEW c \in Calls,
         at'[c] \in Past
  PROVE  \/ Payment(c)' \in forgotten' \/ KilledBeside(c)' # {}
         \/ InFrom(Payment(c), 0)'
<1>1. /\ UNCHANGED <<disk, msg, beside, forgotten>> /\ prefs' = disk /\ writes' = <<>>
      /\ \A d \in Calls : at'[d] = IF at[d] \in Open THEN "killed" ELSE at[d]
  BY DEF Kill
<1>2. MessagesNext /\ at[c] \in {"shown", "failed"} /\ at[c] # "idle"
  BY <1>1 DEF MessagesNext, Open, Past
<1>3. CASE Payment(c) \in forgotten
  BY <1>1, <1>3 DEF Payment
<1>4. CASE KilledBeside(c) # {}
  BY <1>2, <1>4, KilledKept
<1>5. CASE InFrom(Payment(c), 0)
  <2>1. Len(writes) \in Nat /\ Len(writes') = 0
    BY <1>1, EmptySeq DEF MsgOK
  <2>2. Payment(c) \in Remembered(disk)
    BY <1>5, <2>1 DEF InFrom, CopyAt
  <2>3. \A k \in 0 .. Len(writes') : Payment(c)' \in Remembered(CopyAt(k))'
    BY <1>1, <2>1, <2>2 DEF CopyAt, Payment, Remembered
  <2>4. QED
    BY <2>3 DEF InFrom
<1>6. CASE \E e \in {c} \cup beside[c] :
             at[e] = "second" /\ Payment(e) = Payment(c) /\ WrittenBy(Payment(c), e)
  <2>1. PICK e \in {c} \cup beside[c] : at[e] = "second" /\ Payment(e) = Payment(c)
    BY <1>6
  <2>2. e \in beside[c] /\ e \in Calls
    BY <1>2, <2>1 DEF MessagesTypeOK
  <2>3. at'[e] = "killed"
    BY <1>1, <2>1, <2>2 DEF Open
  <2>4. e \in KilledBeside(c)'
    BY <1>1, <2>1, <2>2, <2>3 DEF KilledBeside, Payment
  <2>5. QED
    BY <2>4
<1>7. QED
  BY <1>2, <1>3, <1>4, <1>5, <1>6 DEF SupportOK, Supported, Past

\* Every step keeps the payments of the calls supported.
LEMMA SupportStep ==
  /\ MessagesTypeOK /\ MsgOK /\ KnownOK /\ BesideOK /\ NewestOK /\ SupportOK
  /\ MessagesNext
  => SupportOK'
<1> SUFFICES ASSUME MessagesTypeOK, MsgOK, KnownOK, BesideOK, NewestOK, SupportOK,
                    MessagesNext, NEW c \in Calls, at'[c] \in Past
             PROVE  /\ at'[c] # "first" =>
                         \/ Payment(c)' \in forgotten' \/ KilledBeside(c)' # {}
                         \/ Supported(Payment(c), {c} \cup beside[c])'
                    /\ at'[c] = "first" /\ Payment(c)' \in Remembered(prefs)' =>
                         Payment(c)' \in forgotten' \/ Supported(Payment(c), beside[c])'
  BY DEF SupportOK, Past
<1>1. CASE Kill
  <2>1. at'[c] # "first"
    BY <1>1 DEF Kill, Open
  <2>2. QED
    BY <1>1, <2>1, KillSupport DEF Supported
<1>2. CASE ~ Kill
  <2>1. /\ at[c] # "idle"
        /\ at[c] \in Past \/ (at[c] = "semantic" /\ at'[c] = "first")
    <3>1. CASE at[c] = "idle"
      <4>1. at'[c] \in {"idle", "raw", "ignored"}
        <5>1. ASSUME NEW d \in Calls, NEW m \in Messages, Receive(d, m)
              PROVE  at'[c] \in {"idle", "raw", "ignored"}
          BY <3>1, <5>1, ReceiveCases
        <5>2. ASSUME NEW d \in Calls, CallStep(d) PROVE at'[c] \in {"idle", "raw", "ignored"}
          BY <3>1, <5>2, CallCases DEF Open
        <5>3. QED
          BY <1>2, <3>1, <5>1, <5>2
             DEF MessagesNext, StorePreferences, SetEnabled, Start
      <4>2. QED
        BY <4>1 DEF Past
    <3>2. QED
      BY <3>1, Kept
  <2>2. PICK pay : pay = Payment(c) /\ pay = Payment(c)'
    BY <2>1, Kept
  <2>3. PICK B : B = beside'[c]
    OBVIOUS
  <2>4. /\ beside[c] \subseteq B /\ forgotten \subseteq forgotten'
        /\ beside[c] \subseteq Calls
    BY <2>1, <2>3, Kept DEF MessagesTypeOK
  <2>5. ASSUME NEW W \in SUBSET Calls, NEW V, W \subseteq V, Supported(pay, W),
               pay \notin forgotten'
        PROVE  Supported(pay, V)'
    <3>1. Supported(pay, W)'
      BY <1>2, <2>5, SupportKept
    <3>2. QED
      BY <2>5, <3>1 DEF Supported
  <2>6. CASE at'[c] # "first"
    <3>1. SUFFICES ASSUME pay \notin forgotten', KilledBeside(c)' = {}
                   PROVE  Supported(pay, {c} \cup B)'
      BY <2>2, <2>6, <2>3 DEF Supported
    <3>2. pay \notin forgotten /\ KilledBeside(c) = {} /\ at[c] \in Past
      BY <2>1, <2>4, <2>6, <3>1, KilledKept
    <3>3. CASE at[c] # "first"
      <4>1. Supported(pay, {c} \cup beside[c])
        BY <2>2, <3>2, <3>3 DEF SupportOK
      <4>2. QED
        BY <2>4, <2>5, <3>1, <4>1
    <3>4. CASE at[c] = "first" /\ pay \in Remembered(prefs)
      <4>1. Supported(pay, beside[c])
        BY <2>2, <3>2, <3>4 DEF SupportOK
      <4>2. QED
        BY <2>4, <2>5, <3>1, <4>1
    <3>5. CASE at[c] = "first" /\ pay \notin Remembered(prefs)
      <4>1. CallStep(c)
        <5>1. ASSUME NEW d \in Calls, NEW m \in Messages, Receive(d, m) PROVE FALSE
          BY <2>6, <3>5, <5>1, ReceiveCases
        <5>2. ASSUME NEW d \in Calls, CallStep(d) PROVE CallStep(c)
          BY <2>6, <3>5, <5>2, CallCases
        <5>3. QED
          BY <1>2, <2>6, <3>5, <5>1, <5>2
             DEF MessagesNext, StorePreferences, SetEnabled, Start
      <4>2. at'[c] = "second" /\ Sends(c, {pay}) /\ pay \in Remembered(prefs')
        BY <2>2, <3>5, <4>1, CallSends
      <4>3. WrittenBy(pay, c)'
        BY <4>2, SendsWritten
      <4>4. QED
        BY <2>2, <4>2, <4>3 DEF Supported
    <3>6. QED
      BY <3>3, <3>4, <3>5
  <2>7. CASE at'[c] = "first"
    <3>1. SUFFICES ASSUME pay \notin forgotten', pay \in Remembered(prefs')
                   PROVE  Supported(pay, B)'
      BY <2>2, <2>7, <2>3 DEF Supported, Remembered
    <3>2. pay \notin forgotten /\ pay \in Payments
      BY <2>1, <2>2, <2>4, <3>1 DEF MsgOK, Told, Received, Past, Open
    <3>3. CASE at[c] = "first" /\ pay \in Remembered(prefs)
      <4>1. Supported(pay, beside[c])
        BY <2>2, <3>2, <3>3 DEF SupportOK
      <4>2. QED
        BY <2>4, <2>5, <3>1, <4>1
    <3>4. CASE at[c] # "first" \/ pay \notin Remembered(prefs)
      <4>1. PICK d \in Calls : CallStep(d)
        <5>1. ASSUME NEW d \in Calls, NEW m \in Messages, Receive(d, m) PROVE FALSE
          <6>1. c # d
            BY <2>7, <5>1, ReceiveCases
          <6>2. QED
            BY <2>7, <3>1, <3>4, <5>1, <6>1, ReceiveCases
        <5>2. ASSUME SetEnabled PROVE FALSE
          <6>1. Sends(0, {}) /\ at' = at
            BY <5>2, SwitchSends DEF SetEnabled
          <6>2. QED
            BY <2>7, <3>1, <3>4, <6>1 DEF Sends
        <5>3. ASSUME StorePreferences \/ Start PROVE FALSE
          BY <2>7, <3>1, <3>4, <5>3 DEF StorePreferences, Start
        <5>4. QED
          BY <1>2, <5>1, <5>2, <5>3 DEF MessagesNext
      <4>2. pay \notin Remembered(prefs)
        BY <2>2, <2>7, <3>4, <4>1, CallCases, CallSends
      <4>3. at[d] \in Open /\ UNCHANGED <<msg, beside>> /\ (c # d => at'[c] = at[c])
        BY <4>1, CallCases
      <4>4. msg[d] \in Messages /\ Messages \cap Payments = {}
        BY <4>3, MessageAssumption DEF MsgOK, Received
      <4>5. /\ at[d] = "first" /\ at'[d] = "second"
            /\ Sends(d, {Payment(d)}) /\ Payment(d) = pay
        BY <3>1, <3>2, <4>1, <4>2, <4>4, CallSends DEF Sends
      <4>6. at[c] = "first" /\ c # d
        BY <2>7, <4>3, <4>5
      <4>7. d \in beside[c]
        BY <4>5, <4>6 DEF BesideOK, Looking
      <4>8. WrittenBy(pay, d)'
        BY <3>1, <4>5, SendsWritten
      <4>9. QED
        BY <2>4, <4>3, <4>5, <4>7, <4>8 DEF Supported, Payment
    <3>5. QED
      BY <3>3, <3>4
  <2>8. QED
    BY <2>6, <2>7
<1>3. QED
  BY <1>1, <1>2

-----------------------------------------------------------------------------
(* Offered once, and dropped only for another one *)

\* A call that finds its payment to be new has no earlier one of the payment but
\* those that NotifiedOnce excepts.
LEMMA EnterOnce ==
  ASSUME MessagesTypeOK, MsgOK, KnownOK, BesideOK, NewestOK, SupportOK,
         NEW x \in Calls, NEW y \in Calls, x # y, CallStep(x), at'[x] = "first",
         at[y] \in Past, Payment(x) = Payment(y)
  PROVE  \/ y \in beside[x] /\ x \in beside[y]
         \/ Payment(x) \in forgotten
         \/ KilledBeside(y) # {}
<1>1. at[x] = "semantic" /\ Payment(x) \notin Remembered(prefs)
  BY CallSends
<1>2. CASE at[y] = "first"
  BY <1>1, <1>2 DEF BesideOK, Looking
<1>3. CASE at[y] # "first"
  <2>1. ~ Supported(Payment(y), {y} \cup beside[y])
    BY <1>1, SupportedRemembered
  <2>2. QED
    BY <1>3, <2>1 DEF SupportOK
<1>4. QED
  BY <1>2, <1>3

\* Every step keeps that a payment is found to be new once, but for what
\* NotifiedOnce excepts.
LEMMA OnceStep ==
  /\ MessagesTypeOK /\ MsgOK /\ KnownOK /\ BesideOK /\ NewestOK /\ SupportOK /\ OnceOK
  /\ MessagesNext
  => OnceOK'
<1> SUFFICES ASSUME MessagesTypeOK, MsgOK, KnownOK, BesideOK, NewestOK, SupportOK, OnceOK,
                    MessagesNext, NEW c \in Calls, NEW d \in Calls, c # d,
                    at'[c] \in Past, at'[d] \in Past, Payment(c)' = Payment(d)'
             PROVE  \/ d \in beside'[c] \/ Payment(c)' \in forgotten'
                    \/ KilledBeside(c)' \cup KilledBeside(d)' # {}
  BY DEF OnceOK
<1>1. ASSUME NEW x \in Calls, at'[x] \in Past
      PROVE  /\ at[x] # "idle"
             /\ at[x] \in Past \/ (CallStep(x) /\ at'[x] = "first")
  <2>1. CASE at[x] \in Past
    BY <2>1 DEF Past
  <2>2. CASE at[x] \notin Past
    <3>1. at'[x] # at[x]
      BY <1>1, <2>2
    <3>2. ASSUME NEW y \in Calls, NEW m \in Messages, Receive(y, m) PROVE FALSE
      <4>1. at'[y] \in {"raw", "ignored"} /\ (x # y => at'[x] = at[x])
        BY <3>2, ReceiveCases
      <4>2. QED
        BY <1>1, <3>1, <4>1 DEF Past
    <3>3. ASSUME Kill PROVE FALSE
      BY <1>1, <3>1, <3>3 DEF Kill, Past
    <3>4. CallStep(x)
      <4>1. ASSUME NEW y \in Calls, CallStep(y) PROVE CallStep(x)
        BY <3>1, <4>1, CallCases
      <4>2. QED
        BY <3>1, <3>2, <3>3, <4>1 DEF MessagesNext, StorePreferences, SetEnabled, Start
    <3>5. at'[x] = "first" /\ at[x] # "idle"
      BY <1>1, <2>2, <3>4, CallCases DEF Past, Open
    <3>6. QED
      BY <3>4, <3>5
  <2>3. QED
    BY <2>1, <2>2
<1>2. /\ Payment(c)' = Payment(c) /\ Payment(d)' = Payment(d)
      /\ beside[c] \subseteq beside'[c] /\ forgotten \subseteq forgotten'
  BY <1>1, Kept
<1>3. /\ KilledBeside(c) \subseteq KilledBeside(c)'
      /\ KilledBeside(d) \subseteq KilledBeside(d)'
  BY <1>1, KilledKept
<1>4. CASE at[c] \in Past /\ at[d] \in Past
  <2>1. \/ d \in beside[c] \/ Payment(c) \in forgotten
        \/ KilledBeside(c) \cup KilledBeside(d) # {}
    BY <1>2, <1>4 DEF OnceOK
  <2>2. QED
    BY <1>2, <1>3, <2>1
<1>5. CASE at[c] \notin Past
  <2>1. CallStep(c) /\ at'[c] = "first"
    BY <1>1, <1>5
  <2>2. at[d] \in Past
    BY <2>1, CallCases
  <2>3. d \in beside[c] \/ Payment(c) \in forgotten \/ KilledBeside(d) # {}
    BY <1>2, <2>1, <2>2, EnterOnce
  <2>4. QED
    BY <1>2, <1>3, <2>3
<1>6. CASE at[d] \notin Past
  <2>1. CallStep(d) /\ at'[d] = "first"
    BY <1>1, <1>6
  <2>2. at[c] \in Past
    BY <2>1, CallCases
  <2>3. d \in beside[c] \/ Payment(d) \in forgotten \/ KilledBeside(c) # {}
    BY <1>2, <2>1, <2>2, EnterOnce
  <2>4. QED
    BY <1>2, <1>3, <2>3
<1>7. QED
  BY <1>4, <1>5, <1>6

\* What is remembered of a message that is looked up was remembered for a
\* message of the same payment.
LEMMA FoundMarked ==
  ASSUME MessagesTypeOK, MsgOK, KnownOK, NEW c \in Calls, at[c] \in {"raw", "semantic"},
         \/ msg[c] \in Remembered(prefs)
         \/ at[c] = "semantic" /\ Payment(c) \in Remembered(prefs)
  PROVE  \E d \in marked : d # c /\ Payment(d) = Payment(c) /\ Payment(c) \in Payments
<1>1. c \notin marked
  BY DEF KnownOK, Past
<1>2. \A d \in marked : msg[d] \in Messages /\ Payment(d) \in Payments /\ d \in Calls
  BY DEF MsgOK, MessagesTypeOK
<1>3. Messages \cap Payments = {} /\ Remembered(prefs) \subseteq Hashed
  BY MessageAssumption DEF KnownOK
<1>4. CASE msg[c] \in Remembered(prefs)
  <2>1. msg[c] \in Messages
    BY DEF MsgOK, Received, Open
  <2>2. PICK d \in marked : msg[d] = msg[c]
    BY <1>2, <1>3, <1>4, <2>1 DEF Hashed
  <2>3. QED
    BY <1>1, <1>2, <2>2 DEF Payment
<1>5. CASE at[c] = "semantic" /\ Payment(c) \in Remembered(prefs)
  <2>1. Payment(c) \in Payments
    BY <1>5 DEF MsgOK, Told, Received, Open
  <2>2. PICK d \in marked : Payment(d) = Payment(c)
    BY <1>2, <1>3, <1>5, <2>1 DEF Hashed
  <2>3. QED
    BY <1>1, <2>1, <2>2
<1>6. QED
  BY <1>4, <1>5

\* Every step keeps a marked message for each dropped one.
LEMMA DuplicateStep ==
  /\ MessagesTypeOK /\ MsgOK /\ KnownOK /\ BesideOK /\ DuplicateOK /\ MessagesNext
  => DuplicateOK'
<1> SUFFICES ASSUME MessagesTypeOK, MsgOK, KnownOK, BesideOK, DuplicateOK, MessagesNext,
                    NEW c \in Calls, at'[c] = "duplicate"
             PROVE  \E d \in marked' : /\ d # c /\ Payment(d)' = Payment(c)'
                                       /\ Payment(c)' \in Payments
  BY DEF DuplicateOK
<1>1. /\ at[c] # "idle"
      /\ \E d \in marked : d # c /\ Payment(d) = Payment(c) /\ Payment(c) \in Payments
  <2>1. CASE at[c] = "duplicate"
    BY <2>1 DEF DuplicateOK
  <2>2. CASE at[c] # "duplicate"
    <3>1. ASSUME NEW x \in Calls, NEW m \in Messages, Receive(x, m) PROVE FALSE
      <4>1. at'[x] \in {"raw", "ignored"} /\ (x # c => at'[c] = at[c])
        BY <3>1, ReceiveCases
      <4>2. QED
        BY <2>2, <4>1
    <3>2. CallStep(c)
      <4>1. ASSUME NEW x \in Calls, CallStep(x) PROVE CallStep(c)
        BY <2>2, <4>1, CallCases
      <4>2. ASSUME Kill PROVE FALSE
        BY <2>2, <4>2 DEF Kill
      <4>3. QED
        BY <2>2, <3>1, <4>1, <4>2 DEF MessagesNext, StorePreferences, SetEnabled, Start
    <3>3. /\ at[c] \in {"raw", "semantic"}
          /\ \/ msg[c] \in Remembered(prefs)
             \/ at[c] = "semantic" /\ Payment(c) \in Remembered(prefs)
      BY <3>2, CallCases
    <3>4. QED
      BY <3>3, FoundMarked
  <2>3. QED
    BY <2>1, <2>2
<1>2. PICK d \in marked : d # c /\ Payment(d) = Payment(c) /\ Payment(c) \in Payments
  BY <1>1
<1>3. d \in Calls /\ at[d] # "idle"
  BY <1>2 DEF MessagesTypeOK, KnownOK, Past
<1>4. Payment(c)' = Payment(c) /\ Payment(d)' = Payment(d) /\ d \in marked'
  BY <1>1, <1>2, <1>3, Kept
<1>5. QED
  BY <1>2, <1>4

-----------------------------------------------------------------------------
(* The invariant holds, and what follows from it *)

\* At the start nothing is remembered, and no message has come.
LEMMA MessagesInitial == MessagesInit => MsgIInv
<1> SUFFICES ASSUME MessagesInit PROVE MsgIInv
  OBVIOUS
<1>1. /\ prefs = [enabled |-> FALSE, hashes |-> <<>>] /\ disk = prefs /\ writes = <<>>
      /\ \A c \in Calls : at[c] = "idle" /\ beside[c] = {}
      /\ at \in [Calls -> {"idle"}] /\ msg \in [Calls -> {None}]
      /\ beside \in [Calls -> {{}}]
      /\ marked = {} /\ forgotten = {} /\ running = TRUE
  BY DEF MessagesInit
<1>2. prefs.hashes = <<>> /\ Len(prefs.hashes) = 0 /\ prefs \in Preferences /\ Len(writes) = 0
  BY <1>1, EmptySeq DEF Preferences
<1>3. WellFormed(prefs) /\ WellFormed(disk) /\ Remembered(prefs) = {}
  BY <1>1, <1>2, MessageAssumption DEF WellFormed, Remembered
<1>4. MessagesTypeOK
  BY <1>1, <1>2, <1>3 DEF MessagesTypeOK, Places
<1>5. MsgOK /\ KnownOK /\ DuplicateOK
  BY <1>1, <1>2, <1>3, EmptySeq
     DEF MsgOK, KnownOK, DuplicateOK, Received, Told, Open
<1>6. BesideOK /\ SupportOK /\ OnceOK
  BY <1>1 DEF BesideOK, Looking, SupportOK, OnceOK, Past
<1>7. NewestOK
  BY <1>1, <1>2 DEF NewestOK, CopyAt
<1>8. QED
  BY <1>4, <1>5, <1>6, <1>7 DEF MsgIInv

\* Every step keeps the invariant.
LEMMA MessagesInductive == MsgIInv /\ [MessagesNext]_vars => MsgIInv'
<1> SUFFICES ASSUME MsgIInv, [MessagesNext]_vars PROVE MsgIInv'
  OBVIOUS
<1>1. CASE MessagesNext
  BY <1>1, TypeStep, MsgStep, KnownStep, BesideStep, NewestStep, SupportStep, OnceStep,
     DuplicateStep DEF MsgIInv
<1>2. CASE UNCHANGED vars
  <2>1. /\ UNCHANGED <<running, prefs, disk, writes, at, msg, marked, beside, forgotten>>
        /\ \A c \in Calls : Payment(c)' = Payment(c)
    BY <1>2 DEF vars, Payment
  <2>2. MessagesTypeOK' /\ MsgOK' /\ KnownOK'
    BY <2>1 DEF MsgIInv, MessagesTypeOK, MsgOK, KnownOK, Hashed, Payment
  <2>3. BesideOK' /\ NewestOK' /\ DuplicateOK'
    <3>1. BesideOK'
      BY <2>1 DEF MsgIInv, BesideOK, Looking
    <3>2. NewestOK'
      BY <2>1 DEF MsgIInv, NewestOK, CopyAt
    <3>3. DuplicateOK'
      BY <2>1 DEF MsgIInv, DuplicateOK, Payment
    <3>4. QED
      BY <3>1, <3>2, <3>3
  <2>4. \A c \in Calls : KilledBeside(c)' = KilledBeside(c)
    BY <2>1 DEF KilledBeside, Payment
  <2>5. OnceOK'
    BY <2>1, <2>4 DEF MsgIInv, OnceOK
  <2>6. ASSUME NEW pay, NEW W, Supported(pay, W) PROVE Supported(pay, W)'
    BY <2>1, <2>6 DEF Supported, WrittenBy, InFrom, CopyAt, Remembered, Payment
  <2>7. SupportOK'
    <3>1. SUFFICES ASSUME NEW c \in Calls
                   PROVE  /\ at[c] \in Past \ {"first"} =>
                               \/ Payment(c) \in forgotten \/ KilledBeside(c) # {}
                               \/ Supported(Payment(c), {c} \cup beside[c])'
                          /\ at[c] = "first" /\ Payment(c) \in Remembered(prefs) =>
                               \/ Payment(c) \in forgotten
                               \/ Supported(Payment(c), beside[c])'
      BY <2>1, <2>4 DEF SupportOK, Remembered
    <3>2. /\ Supported(Payment(c), {c} \cup beside[c]) =>
               Supported(Payment(c), {c} \cup beside[c])'
          /\ Supported(Payment(c), beside[c]) => Supported(Payment(c), beside[c])'
      BY <2>1, <2>6 DEF Supported, WrittenBy, InFrom, CopyAt, Remembered, Payment
    <3>3. QED
      BY <3>2 DEF MsgIInv, SupportOK
  <2>8. QED
    BY <2>2, <2>3, <2>5, <2>7 DEF MsgIInv
<1>3. QED
  BY <1>1, <1>2

\* The invariant holds always.
LEMMA MessagesInvariant == MessagesSpec => []MsgIInv
BY MessagesInitial, MessagesInductive, PTL DEF MessagesSpec

\* The preferences are well formed wherever there is a copy of them: no hash is
\* remembered twice, and no more than Limit are.
THEOREM MessagesTypeCorrect == MessagesSpec => []MessagesTypeOK
<1>1. MsgIInv => MessagesTypeOK
  BY DEF MsgIInv
<1>2. QED
  BY <1>1, MessagesInvariant, PTL

\* However messages, writes, kills and restarts interleave, two messages about
\* one payment are both offered only in the cases NotifiedOnce names.
THEOREM PaymentNotifiedOnce == MessagesSpec => []NotifiedOnce
<1>1. MsgIInv => NotifiedOnce
  BY DEF MsgIInv, NotifiedOnce, OnceOK, Offered, Past
<1>2. QED
  BY <1>1, MessagesInvariant, PTL

\* No payment goes unnoticed because of a message that is itself dropped.
THEOREM PaymentDroppedOnlyIfNotified == MessagesSpec => []DroppedOnlyIfNotified
<1>1. MsgIInv => DroppedOnlyIfNotified
  <2>1. SUFFICES ASSUME MsgIInv, NEW c \in Calls, at[c] = "duplicate"
                 PROVE  \E d \in marked \ {c} :
                          /\ Payment(d) = Payment(c) /\ Payment(c) # None
                          /\ at[d] \in Past \cup {"killed"}
    BY DEF DroppedOnlyIfNotified, Past
  <2>2. PICK d \in marked : d # c /\ Payment(d) = Payment(c) /\ Payment(c) \in Payments
    BY <2>1 DEF MsgIInv, DuplicateOK
  <2>3. at[d] \in Past \cup {"killed"} /\ None \notin Payments
    BY <2>1, <2>2, MessageAssumption DEF MsgIInv, KnownOK, Hashes
  <2>4. QED
    BY <2>2, <2>3
<1>2. QED
  BY <1>1, MessagesInvariant, PTL

=============================================================================
