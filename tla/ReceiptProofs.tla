---------------------------- MODULE ReceiptProofs ----------------------------
(***************************************************************************)
(* What TLC checks of Receipts on small instances, for any number of       *)
(* transactions, images and forms, with and without crashes.  (That saves  *)
(* end stays with TLC.)                                                    *)
(***************************************************************************)
EXTENDS Receipts, TLAPS

-----------------------------------------------------------------------------
(* The inductive invariant *)

FormStates ==
  [open : BOOLEAN, id : Txs \cup {0}, link : ReceiptIds \cup {0}, loaded : BOOLEAN,
   shown : ReceiptIds \cup {0}, pending : BOOLEAN, save : SaveSteps,
   target : Txs \cup {0}, new : ReceiptIds \cup {0}, old : ReceiptIds \cup {0},
   removal : RemovalSteps, removing : ReceiptIds \cup {0}]

\* A form has written an image that has no row yet; its transaction is open; it
\* has found a receipt to remove.
Writing(s) == s.save \in {"imaged", "written", "replacing", "purged", "undone"}
InTransaction(s) == s.save \in {"replacing", "purged"}
Removing(s) == s.removal \in {"found", "unlinked"}

\* Receipts have been given their ids one after another, and at most one row
\* each.
RowsOK ==
  /\ \A t \in Txs : row[t] \in 0 .. minted
  /\ \A t, u \in Txs : row[t] = row[u] /\ row[t] # 0 => t = u
  /\ images \subseteq 1 .. minted
  /\ thumbs \subseteq 1 .. minted

\* A form works on a transaction, and removes a receipt that no other
\* transaction has.
FormsOK ==
  \A f \in Forms :
    /\ form[f].shown # 0 => form[f].id \in Txs
    /\ form[f].save # "idle" => form[f].target \in Txs
    /\ Removing(form[f]) =>
         /\ form[f].id \in Txs
         /\ form[f].removing \in 1 .. minted
         /\ \A t \in Txs : row[t] = form[f].removing => t = form[f].id
    /\ form[f].removal = "unlinked" => \A t \in Txs : row[t] # form[f].removing

\* A new image belongs to the form that has written it alone.
NewOK ==
  \A f \in Forms : Writing(form[f]) =>
    /\ form[f].new \in 1 .. minted /\ form[f].new \in images
    /\ form[f].new \notin clearing.listed
    /\ \A t \in Txs : row[t] # form[f].new
    /\ \A g \in Forms : /\ Writing(form[g]) /\ g # f => form[g].new # form[f].new
                        /\ Removing(form[g]) => form[g].removing # form[f].new

\* The row that is replaced stays as it was found until the replacement
\* commits, only its files go.
ReplacedOK ==
  \A f \in Forms : InTransaction(form[f]) =>
    /\ form[f].old = row[form[f].target]
    /\ form[f].save = "purged" => form[f].old \notin images \cup thumbs

\* A clearing has listed receipts, and has deleted their rows before their files.
ClearingOK ==
  /\ clearing.listed \subseteq 1 .. minted
  /\ clearing.at = "idle" => clearing.listed = {}
  /\ clearing.at = "cleared" => \A t \in Txs : row[t] \notin clearing.listed

ReceiptsIInv ==
  /\ ReceiptsTypeOK /\ RowsOK /\ FormsOK /\ NewOK /\ ReplacedOK /\ ClearingOK
  /\ StoredReceiptHasFile /\ NoFileForgotten

-----------------------------------------------------------------------------
(* Forms *)

\* The types, of the forms in particular.
LEMMA FormTypes ==
  ASSUME ReceiptsTypeOK
  PROVE  /\ form \in [Forms -> FormStates] /\ minted \in Nat /\ 1 .. minted \subseteq ReceiptIds
         /\ \A f \in Forms : InTransaction(form[f]) <=> holder = f
BY ReceiptsAssumption DEF ReceiptsTypeOK, FormStates, ReceiptIds, InTransaction

\* One form changes.
LEMMA FormChange ==
  ASSUME ReceiptsTypeOK, NEW f \in Forms, NEW s \in FormStates, form' = [form EXCEPT ![f] = s]
  PROVE  /\ form' \in [Forms -> FormStates] /\ form'[f] = s
         /\ \A g \in Forms : g # f => form'[g] = form[g]
BY FormTypes

\* A form that settles is in the state given, or gone when it is at nothing.
LEMMA FormSettles ==
  ASSUME ReceiptsTypeOK, NEW f \in Forms, NEW s \in FormStates, Settle(f, s)
  PROVE  /\ form' \in [Forms -> FormStates]
         /\ \A g \in Forms : g # f => form'[g] = form[g]
         /\ \/ form'[f] = s
            \/ form'[f] = ClosedForm /\ s.save = "idle" /\ s.removal = "idle"
<1>1. ClosedForm \in FormStates
  BY DEF ClosedForm, FormStates, SaveSteps, RemovalSteps
<1>2. CASE ~ s.open /\ s.save = "idle" /\ s.removal = "idle"
  BY <1>1, <1>2, FormChange DEF Settle
<1>3. CASE ~ (~ s.open /\ s.save = "idle" /\ s.removal = "idle")
  BY <1>3, FormChange DEF Settle
<1>4. QED
  BY <1>2, <1>3

\* What a form that is gone is at.
LEMMA ClosedIdle ==
  /\ ClosedForm.save = "idle" /\ ClosedForm.removal = "idle" /\ ClosedForm.shown = 0
  /\ ClosedForm \in FormStates
BY DEF ClosedForm, FormStates, SaveSteps, RemovalSteps

(***************************************************************************)
(* A form goes from state s to state r without touching an image, its row  *)
(* or its work on it, except that it may give a removal up.                *)
(***************************************************************************)
SameWork(s, r) ==
  /\ r.shown # 0 => r.id \in Txs
  /\ r.save # "idle" => r.target \in Txs
  /\ Writing(r) <=> Writing(s)
  /\ Writing(s) => r.new = s.new
  /\ InTransaction(r) <=> InTransaction(s)
  /\ InTransaction(s) => r.save = s.save /\ r.old = s.old /\ r.target = s.target
  /\ Removing(r) =>
       /\ Removing(s)
       /\ r.removal = s.removal /\ r.removing = s.removing /\ r.id = s.id
  /\ s.removal = "unlinked" => r.removal = "unlinked" /\ r.removing = s.removing

Calm(f) ==
  /\ UNCHANGED <<row, images, thumbs, minted, holder, clearing, leaked, lost>>
  /\ status' \in [Txs -> {"unused", "stored", "deleted"}]
  /\ link' \in [Txs -> ReceiptIds \cup {0}]
  /\ form' \in [Forms -> FormStates]
  /\ \A g \in Forms : g # f => form'[g] = form[g]
  /\ SameWork(form[f], form'[f])

\* A change of a form that leaves its work alone is calm.
LEMMA CalmChange ==
  ASSUME ReceiptsTypeOK, NEW f \in Forms, NEW s \in FormStates, SameWork(form[f], s),
         \/ form' = [form EXCEPT ![f] = s]
         \/ Settle(f, s),
         UNCHANGED <<row, images, thumbs, minted, holder, clearing, leaked, lost>>,
         status' \in [Txs -> {"unused", "stored", "deleted"}],
         link' \in [Txs -> ReceiptIds \cup {0}]
  PROVE  Calm(f)
<1>1. CASE form' = [form EXCEPT ![f] = s]
  BY <1>1, FormChange DEF Calm
<1>2. CASE Settle(f, s)
  <2>1. CASE form'[f] = s
    BY <1>2, <2>1, FormSettles DEF Calm
  <2>2. CASE form'[f] = ClosedForm /\ s.save = "idle" /\ s.removal = "idle"
    <3>1. SameWork(form[f], ClosedForm)
      BY <2>2, ClosedIdle DEF SameWork, Writing, InTransaction, Removing
    <3>2. QED
      BY <1>2, <2>2, <3>1, FormSettles DEF Calm
  <2>3. QED
    BY <1>2, <2>1, <2>2, FormSettles
<1>3. QED
  BY <1>1, <1>2

\* These steps of a form are calm.
LEMMA CalmSteps ==
  ASSUME ReceiptsTypeOK, FormsOK, NEW f \in Forms,
         \/ \E id \in Txs \cup {0} : OpenForm(f, id)
         \/ LoadReceipt(f) \/ PickImage(f) \/ Leave(f) \/ DeleteTransaction(f)
         \/ \E t \in Txs : StoreNew(f, t)
         \/ StoreEdited(f) \/ DropPicked(f)
         \/ BeginRemove(f) /\ row[form[f].id] = 0
         \/ SaveWithoutReceipt(f) \/ AttachRefused(f) \/ ConfirmAttach(f)
         \/ UnlinkFails(f)
  PROVE  Calm(f)
<1> DEFINE s == form[f]
<1>1. /\ s \in FormStates
      /\ s.shown # 0 => s.id \in Txs
      /\ s.save # "idle" => s.target \in Txs
      /\ status \in [Txs -> {"unused", "stored", "deleted"}]
      /\ link \in [Txs -> ReceiptIds \cup {0}] /\ row \in [Txs -> ReceiptIds \cup {0}]
  BY FormTypes DEF FormsOK, ReceiptsTypeOK
<1>2. ASSUME NEW id \in Txs \cup {0}, OpenForm(f, id) PROVE Calm(f)
  <2> DEFINE r == [ClosedForm EXCEPT !.open = TRUE, !.id = id,
                                     !.link = IF id = 0 THEN 0 ELSE link[id]]
  <2>1. r \in FormStates
    <3>1. (IF id = 0 THEN 0 ELSE link[id]) \in ReceiptIds \cup {0}
      BY <1>1
    <3>2. ASSUME NEW l \in ReceiptIds \cup {0}
          PROVE  [ClosedForm EXCEPT !.open = TRUE, !.id = id, !.link = l] \in FormStates
      BY DEF ClosedForm, FormStates, SaveSteps, RemovalSteps
    <3>3. QED
      BY <3>1, <3>2
  <2>2. s = ClosedForm
    BY <1>2 DEF OpenForm
  <2>3. SameWork(s, r)
    BY <2>2 DEF SameWork, Writing, InTransaction, Removing, ClosedForm
  <2>4. QED
    BY <1>1, <1>2, <2>1, <2>3, CalmChange DEF OpenForm, store, files
<1>3. ASSUME LoadReceipt(f) PROVE Calm(f)
  <2> DEFINE r == [s EXCEPT !.loaded = TRUE, !.shown = row[s.id]]
  <2>1. s.id \in Txs /\ row[s.id] \in ReceiptIds \cup {0}
    BY <1>1, <1>3 DEF LoadReceipt, FormStates
  <2>2. r \in FormStates /\ SameWork(s, r)
    BY <1>1, <2>1 DEF FormStates, SameWork, Writing, InTransaction, Removing
  <2>3. form' = [form EXCEPT ![f] = r]
    BY <1>3 DEF LoadReceipt
  <2>4. QED
    BY <1>1, <1>3, <2>2, <2>3, CalmChange DEF LoadReceipt, store, files
<1>4. ASSUME PickImage(f) PROVE Calm(f)
  <2> DEFINE r == [s EXCEPT !.pending = TRUE]
  <2>1. r \in FormStates /\ SameWork(s, r)
    BY <1>1 DEF FormStates, SameWork, Writing, InTransaction, Removing
  <2>2. QED
    BY <1>1, <1>4, <2>1, CalmChange DEF PickImage, store, files
<1>5. ASSUME Leave(f) \/ DeleteTransaction(f) PROVE Calm(f)
  <2> DEFINE r == [s EXCEPT !.open = FALSE]
  <2>1. r \in FormStates /\ SameWork(s, r)
    BY <1>1 DEF FormStates, SameWork, Writing, InTransaction, Removing
  <2>2. Settle(f, r) /\ UNCHANGED <<link, row, images, thumbs, minted, holder, clearing, leaked, lost>>
    BY <1>5 DEF Leave, DeleteTransaction, store, files
  <2>3. status' \in [Txs -> {"unused", "stored", "deleted"}]
    BY <1>1, <1>5 DEF Leave, DeleteTransaction, store, files
  <2>4. QED
    BY <1>1, <2>1, <2>2, <2>3, CalmChange
<1>6. ASSUME NEW t \in Txs, StoreNew(f, t) \/ (StoreEdited(f) /\ t = s.id) PROVE Calm(f)
  <2> DEFINE r == [s EXCEPT !.save = "stored", !.target = t]
  <2>1. s.save = "idle" /\ form' = [form EXCEPT ![f].save = "stored", ![f].target = t]
    BY <1>6 DEF StoreNew, StoreEdited
  <2>2. r \in FormStates /\ SameWork(s, r)
    BY <1>1, <2>1 DEF FormStates, SaveSteps, SameWork, Writing, InTransaction, Removing
  <2>3. form' = [form EXCEPT ![f] = r]
    BY <2>1
  <2>4. /\ status' \in [Txs -> {"unused", "stored", "deleted"}]
        /\ link' \in [Txs -> ReceiptIds \cup {0}]
    BY <1>1, <1>6 DEF StoreNew, StoreEdited, FormStates
  <2>5. UNCHANGED <<row, images, thumbs, minted, holder, clearing, leaked, lost>>
    BY <1>6 DEF StoreNew, StoreEdited, files
  <2>6. QED
    BY <2>2, <2>3, <2>4, <2>5, CalmChange
<1>7. ASSUME StoreEdited(f) PROVE Calm(f)
  <2>1. s.id \in Txs
    BY <1>1, <1>7 DEF StoreEdited, FormStates
  <2>2. QED
    BY <1>6, <1>7, <2>1
<1>8. ASSUME DropPicked(f) \/ (BeginRemove(f) /\ row[s.id] = 0) PROVE Calm(f)
  <2> DEFINE r == [s EXCEPT !.removal = "idle", !.removing = 0, !.pending = FALSE, !.shown = 0]
  <2>1. s.removal = "idle" /\ Settle(f, r)
        /\ UNCHANGED <<store, images, thumbs, minted, holder, clearing, leaked, lost>>
    BY <1>8 DEF DropPicked, BeginRemove, ForgetReceipt, files
  <2>2. r \in FormStates /\ SameWork(s, r)
    BY <1>1, <2>1 DEF FormStates, RemovalSteps, SameWork, Writing, InTransaction, Removing
  <2>3. QED
    BY <1>1, <2>1, <2>2, CalmChange DEF store, files
<1>9. ASSUME SaveWithoutReceipt(f) \/ AttachRefused(f) \/ ConfirmAttach(f) PROVE Calm(f)
  <2> DEFINE r == [s EXCEPT !.save = "idle", !.target = 0, !.open = FALSE]
             q == [s EXCEPT !.save = "idle", !.target = 0, !.new = 0, !.old = 0]
  <2>1. /\ s.save \in {"stored", "attached"} /\ (Settle(f, r) \/ Settle(f, q))
        /\ UNCHANGED <<store, images, thumbs, minted, holder, clearing, leaked, lost>>
    BY <1>9 DEF SaveWithoutReceipt, AttachRefused, ConfirmAttach, SaveSucceeds, SaveFails, files
  <2>2. r \in FormStates /\ SameWork(s, r)
    <3>1. r \in FormStates
      BY <1>1 DEF FormStates, SaveSteps
    <3>2. SameWork(s, r)
      BY <1>1, <2>1 DEF FormStates, SameWork, Writing, InTransaction, Removing
    <3>3. QED
      BY <3>1, <3>2
  <2>3. q \in FormStates /\ SameWork(s, q)
    BY <1>1, <2>1 DEF FormStates, SaveSteps, SameWork, Writing, InTransaction, Removing
  <2>4. QED
    BY <1>1, <2>1, <2>2, <2>3, CalmChange DEF store, files
<1>10. ASSUME UnlinkFails(f) PROVE Calm(f)
  <2> DEFINE r == [s EXCEPT !.removal = "idle", !.removing = 0]
  <2>1. s.removal = "found" /\ Settle(f, r)
        /\ UNCHANGED <<store, images, thumbs, minted, holder, clearing, leaked, lost>>
    BY <1>10 DEF UnlinkFails, files
  <2>2. r \in FormStates /\ SameWork(s, r)
    BY <1>1, <2>1 DEF FormStates, RemovalSteps, SameWork, Writing, InTransaction, Removing
  <2>3. QED
    BY <1>1, <2>1, <2>2, CalmChange DEF store
<1>11. QED
  BY <1>2, <1>3, <1>4, <1>5, <1>6, <1>7, <1>8, <1>9, <1>10

\* A calm step keeps the invariant.
LEMMA CalmKeeps ==
  ASSUME ReceiptsIInv, NEW f \in Forms, Calm(f)
  PROVE  ReceiptsIInv'
<1>1. /\ UNCHANGED <<row, images, thumbs, minted, holder, clearing, leaked, lost>>
      /\ form' \in [Forms -> FormStates]
      /\ \A g \in Forms : SameWork(form[g], form'[g])
  <2>1. ASSUME NEW g \in Forms PROVE SameWork(form[g], form[g])
    BY DEF ReceiptsIInv, FormsOK, SameWork
  <2>2. QED
    BY <2>1 DEF Calm
<1>2. ReceiptsTypeOK'
  <2>1. \A g \in Forms : InTransaction(form'[g]) <=> holder' = g
    BY <1>1, FormTypes DEF ReceiptsIInv, SameWork
  <2>2. QED
    BY <1>1, <2>1 DEF Calm, ReceiptsIInv, ReceiptsTypeOK, FormStates, InTransaction
<1>3. RowsOK' /\ ClearingOK'
  BY <1>1 DEF ReceiptsIInv, RowsOK, ClearingOK
<1>4. FormsOK'
  BY <1>1 DEF ReceiptsIInv, FormsOK, SameWork, Removing
<1>5. NewOK'
  BY <1>1 DEF ReceiptsIInv, NewOK, SameWork
<1>6. ReplacedOK'
  BY <1>1 DEF ReceiptsIInv, ReplacedOK, SameWork
<1>7. StoredReceiptHasFile'
  <2>1. \A g \in Forms : form[g].save = "purged" =>
          form'[g].save = "purged" /\ form'[g].old = form[g].old
    BY <1>1 DEF SameWork, InTransaction
  <2>2. \A r : BeingReplaced(r) => BeingReplaced(r)'
    BY <2>1 DEF BeingReplaced
  <2>3. QED
    BY <1>1, <2>2 DEF ReceiptsIInv, StoredReceiptHasFile
<1>8. NoFileForgotten'
  <2>1. InHand \subseteq InHand'
    BY <1>1 DEF InHand, SameWork, Writing, Removing
  <2>2. RowsStored' = RowsStored
    BY <1>1 DEF RowsStored
  <2>3. QED
    BY <1>1, <2>1, <2>2 DEF ReceiptsIInv, NoFileForgotten
<1>9. QED
  BY <1>2, <1>3, <1>4, <1>5, <1>6, <1>7, <1>8 DEF ReceiptsIInv

-----------------------------------------------------------------------------
(* Saving *)

\* Without an open transaction no form is in one.
LEMMA NobodyInTransaction ==
  ASSUME ReceiptsTypeOK, Idle
  PROVE  \A f \in Forms : ~ InTransaction(form[f])
BY FormTypes, ReceiptsAssumption DEF Idle

\* Writing the full image.
LEMMA WriteImageKeeps ==
  ASSUME ReceiptsIInv, NEW f \in Forms, WriteImage(f)
  PROVE  ReceiptsIInv'
<1> DEFINE s == form[f]
           k == minted + 1
           r == [s EXCEPT !.save = "imaged", !.new = k]
<1>1. /\ s \in FormStates /\ s.save = "stored" /\ minted \in Nat /\ minted < MaxReceipt
      /\ minted' = k /\ images' = images \cup {k}
      /\ UNCHANGED <<status, link, row, thumbs, holder, clearing, leaked, lost>>
      /\ form' = [form EXCEPT ![f] = r]
  BY FormTypes DEF ReceiptsIInv, WriteImage, store
<1>2. /\ k \in ReceiptIds /\ k \notin 1 .. minted /\ k # 0 /\ k \in 1 .. minted'
      /\ 1 .. minted \subseteq 1 .. minted' /\ 0 .. minted \subseteq 0 .. minted'
      /\ minted' \in 0 .. MaxReceipt
  BY <1>1, ReceiptsAssumption DEF ReceiptIds
<1> HIDE DEF k
<1>3. r \in FormStates
  BY <1>1, <1>2 DEF FormStates, SaveSteps
<1>4. /\ form' \in [Forms -> FormStates]
      /\ \A g \in Forms : g # f => form'[g] = form[g]
      /\ form'[f].save = "imaged" /\ form'[f].new = k
      /\ form'[f].id = s.id /\ form'[f].target = s.target /\ form'[f].shown = s.shown
      /\ form'[f].removal = s.removal /\ form'[f].removing = s.removing
  BY <1>1, <1>3, FormChange DEF ReceiptsIInv, FormStates
<1> HIDE DEF r
<1>5. ReceiptsTypeOK'
  <2>1. \A g \in Forms : InTransaction(form'[g]) <=> holder' = g
    BY <1>1, <1>4, FormTypes DEF ReceiptsIInv, InTransaction
  <2>2. QED
    BY <1>1, <1>2, <1>4, <2>1 DEF ReceiptsIInv, ReceiptsTypeOK, FormStates, InTransaction
<1>6. RowsOK' /\ ClearingOK'
  BY <1>1, <1>2 DEF ReceiptsIInv, RowsOK, ClearingOK
<1>7. FormsOK'
  BY <1>1, <1>2, <1>4 DEF ReceiptsIInv, FormsOK, Removing
<1>8. NewOK'
  <2>1. /\ \A g \in Forms : Removing(form'[g]) =>
             Removing(form[g]) /\ form'[g].removing = form[g].removing
        /\ \A g \in Forms : Removing(form[g]) => form[g].removing # k
    BY <1>2, <1>4 DEF ReceiptsIInv, FormsOK, Removing
  <2>2. \A t \in Txs : row[t] # k
    BY <1>2 DEF ReceiptsIInv, RowsOK, k
  <2>3. k \notin clearing.listed
    BY <1>2 DEF ReceiptsIInv, ClearingOK
  <2>4. \A g \in Forms : Writing(form[g]) => form[g].new # k
    BY <1>2 DEF ReceiptsIInv, NewOK
  <2>5. QED
    BY <1>1, <1>2, <1>4, <2>1, <2>2, <2>3, <2>4 DEF ReceiptsIInv, NewOK, Writing
<1>9. ReplacedOK'
  <2>1. ~ InTransaction(form'[f])
    BY <1>4 DEF InTransaction
  <2>2. \A g \in Forms : InTransaction(form[g]) => form[g].old # k
    <3>1. SUFFICES ASSUME NEW g \in Forms, InTransaction(form[g]) PROVE form[g].old # k
      OBVIOUS
    <3>2. form[g].target \in Txs /\ form[g].old = row[form[g].target]
      BY <3>1 DEF ReceiptsIInv, FormsOK, ReplacedOK, InTransaction
    <3>3. form[g].old \in 0 .. minted
      BY <3>2 DEF ReceiptsIInv, RowsOK
    <3>4. QED
      BY <1>1, <3>3 DEF k
  <2>3. QED
    BY <1>1, <1>4, <2>1, <2>2 DEF ReceiptsIInv, ReplacedOK
<1>10. StoredReceiptHasFile'
  <2>1. \A x : BeingReplaced(x) => BeingReplaced(x)'
    BY <1>1, <1>4 DEF BeingReplaced
  <2>2. QED
    BY <1>1, <2>1 DEF ReceiptsIInv, StoredReceiptHasFile
<1>11. NoFileForgotten'
  <2>1. InHand \subseteq InHand' /\ k \in InHand'
    BY <1>1, <1>4 DEF InHand
  <2>2. RowsStored' = RowsStored
    BY <1>1 DEF RowsStored
  <2>3. QED
    BY <1>1, <2>1, <2>2 DEF ReceiptsIInv, NoFileForgotten
<1>12. QED
  BY <1>5, <1>6, <1>7, <1>8, <1>9, <1>10, <1>11 DEF ReceiptsIInv

\* Writing the thumbnail.
LEMMA WriteThumbnailKeeps ==
  ASSUME ReceiptsIInv, NEW f \in Forms, WriteThumbnail(f)
  PROVE  ReceiptsIInv'
<1> DEFINE s == form[f]
           r == [s EXCEPT !.save = "written"]
<1>1. /\ s \in FormStates /\ s.save = "imaged" /\ s.target \in Txs
      /\ s.new \in 1 .. minted /\ s.new \in ReceiptIds
      /\ \A t \in Txs : row[t] # s.new
      /\ thumbs' = thumbs \cup {s.new}
      /\ UNCHANGED <<status, link, row, images, minted, holder, clearing, leaked, lost>>
      /\ form' = [form EXCEPT ![f] = r]
  BY FormTypes DEF ReceiptsIInv, FormsOK, NewOK, Writing, WriteThumbnail, store
<1>2. r \in FormStates
  BY <1>1 DEF FormStates, SaveSteps
<1>3. /\ form' \in [Forms -> FormStates]
      /\ \A g \in Forms : g # f => form'[g] = form[g]
      /\ form'[f].save = "written" /\ form'[f].new = s.new /\ form'[f].old = s.old
      /\ form'[f].id = s.id /\ form'[f].target = s.target /\ form'[f].shown = s.shown
      /\ form'[f].removal = s.removal /\ form'[f].removing = s.removing
  BY <1>1, <1>2, FormChange DEF ReceiptsIInv, FormStates
<1> HIDE DEF r
<1>4. \A g \in Forms : /\ Writing(form'[g]) <=> Writing(form[g])
                       /\ form'[g].new = form[g].new
                       /\ form'[g].removal = form[g].removal
                       /\ form'[g].removing = form[g].removing
                       /\ form'[g].id = form[g].id /\ form'[g].shown = form[g].shown
                       /\ InTransaction(form'[g]) <=> InTransaction(form[g])
                       /\ InTransaction(form[g]) => form'[g] = form[g]
                       /\ form'[g].target = form[g].target
                       /\ form'[g].save = "purged" <=> form[g].save = "purged"
                       /\ form'[g].old = form[g].old
                       /\ form'[g].save # "idle" => form[g].save # "idle"
  BY <1>1, <1>3 DEF Writing, InTransaction
<1>5. ReceiptsTypeOK'
  <2>1. \A g \in Forms : InTransaction(form'[g]) <=> holder' = g
    BY <1>1, <1>4, FormTypes DEF ReceiptsIInv
  <2>2. QED
    BY <1>1, <1>3, <2>1 DEF ReceiptsIInv, ReceiptsTypeOK, FormStates, InTransaction
<1>6. RowsOK' /\ ClearingOK'
  BY <1>1 DEF ReceiptsIInv, RowsOK, ClearingOK
<1>7. FormsOK'
  BY <1>1, <1>4 DEF ReceiptsIInv, FormsOK, Removing
<1>8. NewOK'
  BY <1>1, <1>4 DEF ReceiptsIInv, NewOK, Removing
<1>9. ReplacedOK'
  <2>1. \A g \in Forms : InTransaction(form[g]) => form[g].old # s.new
    BY <1>1 DEF ReceiptsIInv, FormsOK, ReplacedOK, InTransaction
  <2>2. QED
    BY <1>1, <1>4, <2>1 DEF ReceiptsIInv, ReplacedOK
<1>10. StoredReceiptHasFile'
  BY <1>1, <1>4 DEF ReceiptsIInv, StoredReceiptHasFile, BeingReplaced
<1>11. NoFileForgotten'
  <2>1. InHand \subseteq InHand' /\ s.new \in InHand'
    BY <1>1, <1>3, <1>4 DEF InHand, Writing
  <2>2. RowsStored' = RowsStored
    BY <1>1 DEF RowsStored
  <2>3. QED
    BY <1>1, <2>1, <2>2 DEF ReceiptsIInv, NoFileForgotten
<1>12. QED
  BY <1>5, <1>6, <1>7, <1>8, <1>9, <1>10, <1>11 DEF ReceiptsIInv

\* Beginning the replacement.
LEMMA BeginAttachKeeps ==
  ASSUME ReceiptsIInv, NEW f \in Forms, BeginAttach(f)
  PROVE  ReceiptsIInv'
<1> DEFINE s == form[f]
           r == [s EXCEPT !.save = "replacing", !.old = row[s.target]]
<1>1. /\ s \in FormStates /\ s.save = "written" /\ s.target \in Txs /\ Idle
      /\ row[s.target] \in ReceiptIds \cup {0} /\ holder' = f
      /\ UNCHANGED <<status, link, row, images, thumbs, minted, clearing, leaked, lost>>
      /\ form' = [form EXCEPT ![f] = r]
  BY FormTypes DEF ReceiptsIInv, FormsOK, ReceiptsTypeOK, BeginAttach, store, files
<1>2. \A g \in Forms : ~ InTransaction(form[g])
  BY <1>1, NobodyInTransaction DEF ReceiptsIInv
<1>3. r \in FormStates
  BY <1>1 DEF FormStates, SaveSteps
<1>4. /\ form' \in [Forms -> FormStates]
      /\ \A g \in Forms : g # f => form'[g] = form[g]
      /\ form'[f].save = "replacing" /\ form'[f].new = s.new /\ form'[f].old = row[s.target]
      /\ form'[f].id = s.id /\ form'[f].target = s.target /\ form'[f].shown = s.shown
      /\ form'[f].removal = s.removal /\ form'[f].removing = s.removing
  BY <1>1, <1>3, FormChange DEF ReceiptsIInv, FormStates
<1> HIDE DEF r
<1>5. ReceiptsTypeOK'
  <2>1. \A g \in Forms : InTransaction(form'[g]) <=> holder' = g
    BY <1>1, <1>2, <1>4 DEF InTransaction
  <2>2. QED
    BY <1>1, <1>4, <2>1 DEF ReceiptsIInv, ReceiptsTypeOK, FormStates, InTransaction
<1>6. RowsOK' /\ ClearingOK'
  BY <1>1 DEF ReceiptsIInv, RowsOK, ClearingOK
<1>7. FormsOK'
  BY <1>1, <1>4 DEF ReceiptsIInv, FormsOK, Removing
<1>8. NewOK'
  <2>1. \A g \in Forms : /\ Writing(form'[g]) <=> Writing(form[g])
                         /\ form'[g].new = form[g].new
                         /\ Removing(form'[g]) <=> Removing(form[g])
                         /\ form'[g].removing = form[g].removing
    BY <1>1, <1>4 DEF Writing, Removing
  <2>2. QED
    BY <1>1, <2>1 DEF ReceiptsIInv, NewOK
<1>9. ReplacedOK'
  BY <1>1, <1>2, <1>4 DEF ReplacedOK, InTransaction
<1>10. StoredReceiptHasFile'
  <2>1. \A x : ~ BeingReplaced(x)
    BY <1>2 DEF BeingReplaced, InTransaction
  <2>2. QED
    BY <1>1, <2>1 DEF ReceiptsIInv, StoredReceiptHasFile
<1>11. NoFileForgotten'
  <2>1. InHand \subseteq InHand'
    BY <1>1, <1>4 DEF InHand
  <2>2. RowsStored' = RowsStored
    BY <1>1 DEF RowsStored
  <2>3. QED
    BY <1>1, <2>1, <2>2 DEF ReceiptsIInv, NoFileForgotten
<1>12. QED
  BY <1>5, <1>6, <1>7, <1>8, <1>9, <1>10, <1>11 DEF ReceiptsIInv

\* Deleting the replaced files.
LEMMA PurgeReplacedKeeps ==
  ASSUME ReceiptsIInv, NEW f \in Forms, PurgeReplaced(f)
  PROVE  ReceiptsIInv'
<1> DEFINE s == form[f]
           r == [s EXCEPT !.save = "purged"]
<1>1. /\ s \in FormStates /\ s.save = "replacing" /\ s.target \in Txs
      /\ images' = images \ {s.old} /\ thumbs' = thumbs \ {s.old} /\ s.old = row[s.target]
      /\ UNCHANGED <<status, link, row, minted, holder, clearing, leaked, lost>>
      /\ form' = [form EXCEPT ![f] = r]
  BY FormTypes DEF ReceiptsIInv, FormsOK, ReplacedOK, InTransaction, PurgeReplaced, store
<1>2. r \in FormStates
  BY <1>1 DEF FormStates, SaveSteps
<1>3. /\ form' \in [Forms -> FormStates]
      /\ \A g \in Forms : g # f => form'[g] = form[g]
      /\ form'[f].save = "purged" /\ form'[f].new = s.new /\ form'[f].old = s.old
      /\ form'[f].id = s.id /\ form'[f].target = s.target /\ form'[f].shown = s.shown
      /\ form'[f].removal = s.removal /\ form'[f].removing = s.removing
  BY <1>1, <1>2, FormChange DEF ReceiptsIInv, FormStates
<1> HIDE DEF r
<1>4. \A g \in Forms : /\ Writing(form'[g]) <=> Writing(form[g])
                       /\ form'[g].new = form[g].new
                       /\ Removing(form'[g]) <=> Removing(form[g])
                       /\ form'[g].removal = form[g].removal
                       /\ form'[g].removing = form[g].removing
                       /\ InTransaction(form'[g]) <=> InTransaction(form[g])
                       /\ form'[g].old = form[g].old /\ form'[g].target = form[g].target
  BY <1>1, <1>3 DEF Writing, Removing, InTransaction
<1>5. ReceiptsTypeOK'
  <2>1. \A g \in Forms : InTransaction(form'[g]) <=> holder' = g
    BY <1>1, <1>4, FormTypes DEF ReceiptsIInv
  <2>2. QED
    BY <1>1, <1>3, <2>1 DEF ReceiptsIInv, ReceiptsTypeOK, FormStates, InTransaction
<1>6. RowsOK' /\ ClearingOK'
  BY <1>1 DEF ReceiptsIInv, RowsOK, ClearingOK
<1>7. FormsOK'
  BY <1>1, <1>3 DEF ReceiptsIInv, FormsOK, Removing
<1>8. NewOK'
  <2>1. \A g \in Forms : Writing(form[g]) => form[g].new \in images'
    BY <1>1 DEF ReceiptsIInv, NewOK
  <2>2. QED
    BY <1>1, <1>4, <2>1 DEF ReceiptsIInv, NewOK
<1>9. ReplacedOK'
  BY <1>1, <1>3, <1>4 DEF ReceiptsIInv, ReplacedOK
<1>10. StoredReceiptHasFile'
  <2>1. ASSUME NEW t \in Txs, row[t] # 0
        PROVE  \/ row[t] \in images' \cup lost
               \/ \E g \in Forms : form'[g].save = "purged" /\ form'[g].old = row[t]
    <3>1. CASE row[t] = s.old
      BY <1>3, <3>1
    <3>2. CASE row[t] # s.old
      <4>1. row[t] \in images \cup lost \/ BeingReplaced(row[t])
        BY <2>1 DEF ReceiptsIInv, StoredReceiptHasFile
      <4>2. BeingReplaced(row[t]) =>
              \E g \in Forms : form'[g].save = "purged" /\ form'[g].old = row[t]
        BY <1>1, <1>3 DEF BeingReplaced
      <4>3. QED
        BY <1>1, <3>2, <4>1, <4>2
    <3>3. QED
      BY <3>1, <3>2
  <2>2. QED
    BY <1>1, <2>1 DEF StoredReceiptHasFile, BeingReplaced
<1>11. NoFileForgotten'
  <2>1. InHand \subseteq InHand'
    BY <1>1, <1>4 DEF InHand, Writing, Removing
  <2>2. RowsStored' = RowsStored
    BY <1>1 DEF RowsStored
  <2>3. QED
    BY <1>1, <2>1, <2>2 DEF ReceiptsIInv, NoFileForgotten
<1>12. QED
  BY <1>5, <1>6, <1>7, <1>8, <1>9, <1>10, <1>11 DEF ReceiptsIInv

\* Committing the replacement.
LEMMA CommitAttachKeeps ==
  ASSUME ReceiptsIInv, NEW f \in Forms, CommitAttach(f)
  PROVE  ReceiptsIInv'
<1> DEFINE s == form[f]
           t == s.target
           r == [s EXCEPT !.save = "attached", !.new = 0, !.old = 0]
<1>1. /\ s \in FormStates /\ s.save = "purged" /\ t \in Txs
      /\ s.old = row[t] /\ s.old \notin images \cup thumbs
      /\ s.new \in 1 .. minted /\ s.new \in images /\ s.new \notin clearing.listed
      /\ s.new # 0 /\ s.new \in ReceiptIds
      /\ \A u \in Txs : row[u] # s.new
      /\ \A g \in Forms : /\ Writing(form[g]) /\ g # f => form[g].new # s.new
                          /\ Removing(form[g]) => form[g].removing # s.new
      /\ holder' = Nobody
      /\ row \in [Txs -> ReceiptIds \cup {0}]
      /\ UNCHANGED <<status, images, thumbs, minted, clearing, leaked, lost>>
  BY FormTypes DEF ReceiptsIInv, ReceiptsTypeOK, FormsOK, NewOK, ReplacedOK, Writing,
                   InTransaction, CommitAttach, files
<1>2. row' = [row EXCEPT ![t] = s.new] /\ form' = [form EXCEPT ![f] = r]
  BY DEF CommitAttach
<1>3. /\ row' \in [Txs -> ReceiptIds \cup {0}] /\ row'[t] = s.new
      /\ \A u \in Txs : u # t => row'[u] = row[u]
  BY <1>1, <1>2
<1>4. link' \in [Txs -> ReceiptIds \cup {0}]
  BY <1>1 DEF CommitAttach, ReceiptsIInv, ReceiptsTypeOK
<1>5. r \in FormStates
  BY <1>1 DEF FormStates, SaveSteps
<1>6. /\ form' \in [Forms -> FormStates]
      /\ \A g \in Forms : g # f => form'[g] = form[g]
      /\ form'[f].save = "attached"
      /\ form'[f].id = s.id /\ form'[f].target = t /\ form'[f].shown = s.shown
      /\ form'[f].removal = s.removal /\ form'[f].removing = s.removing
  BY <1>1, <1>2, <1>5, FormChange DEF ReceiptsIInv, FormStates
<1> HIDE DEF r
<1>7. \A g \in Forms : ~ InTransaction(form'[g]) /\ (g # f => ~ InTransaction(form[g]))
  <2>1. holder = f
    BY <1>1, FormTypes DEF ReceiptsIInv, InTransaction
  <2>2. QED
    BY <1>6, <2>1, FormTypes DEF ReceiptsIInv, InTransaction
<1>8. ReceiptsTypeOK'
  <2>1. \A g \in Forms : InTransaction(form'[g]) <=> holder' = g
    BY <1>1, <1>7, ReceiptsAssumption
  <2>2. QED
    BY <1>1, <1>3, <1>4, <1>6, <2>1 DEF ReceiptsIInv, ReceiptsTypeOK, FormStates, InTransaction
<1>9. RowsOK'
  <2>1. s.new \in 0 .. minted
    BY <1>1
  <2>2. QED
    BY <1>1, <1>3, <2>1 DEF ReceiptsIInv, RowsOK
<1>10. FormsOK'
  <2>1. ASSUME NEW g \in Forms
        PROVE  /\ form'[g].id = form[g].id /\ form'[g].removing = form[g].removing
               /\ form'[g].removal = form[g].removal /\ form'[g].shown = form[g].shown
               /\ form'[g].target = form[g].target
               /\ form[g].save # "idle" <=> form'[g].save # "idle"
    BY <1>1, <1>6
  <2>2. ASSUME NEW g \in Forms, Removing(form[g]), NEW u \in Txs,
               row'[u] = form[g].removing
        PROVE  row[u] = form[g].removing
    BY <1>1, <1>3, <2>2
  <2>3. QED
    BY <1>1, <2>1, <2>2 DEF ReceiptsIInv, FormsOK, Removing
<1>11. NewOK'
  <2>1. ~ Writing(form'[f])
    BY <1>6 DEF Writing
  <2>2. ASSUME NEW g \in Forms, g # f, Writing(form[g]), NEW u \in Txs
        PROVE  row'[u] # form[g].new
    BY <1>1, <1>3, <2>2 DEF ReceiptsIInv, NewOK
  <2>3. \A g \in Forms : /\ form'[g].removing = form[g].removing
                         /\ Removing(form'[g]) <=> Removing(form[g])
    BY <1>6 DEF Removing
  <2>4. QED
    BY <1>1, <1>6, <2>1, <2>2, <2>3 DEF ReceiptsIInv, NewOK
<1>12. ReplacedOK'
  BY <1>7 DEF ReplacedOK
<1>13. ClearingOK'
  BY <1>1, <1>3 DEF ReceiptsIInv, ClearingOK
<1>14. StoredReceiptHasFile'
  <2>1. ASSUME NEW u \in Txs, row'[u] # 0 PROVE row'[u] \in images \cup lost
    <3>1. CASE u = t
      BY <1>1, <1>3, <3>1
    <3>2. CASE u # t
      <4>1. row'[u] = row[u] /\ (row[u] \in images \cup lost \/ BeingReplaced(row[u]))
        BY <1>3, <2>1, <3>2 DEF ReceiptsIInv, StoredReceiptHasFile
      <4>2. ~ BeingReplaced(row[u])
        <5>1. row[u] # s.old
          BY <1>1, <2>1, <3>2, <4>1 DEF ReceiptsIInv, RowsOK
        <5>2. QED
          BY <1>7, <5>1 DEF BeingReplaced, InTransaction
      <4>3. QED
        BY <4>1, <4>2
    <3>3. QED
      BY <3>1, <3>2
  <2>2. QED
    BY <1>1, <2>1 DEF StoredReceiptHasFile
<1>15. NoFileForgotten'
  <2>1. SUFFICES ASSUME NEW x \in images \cup thumbs, x \notin leaked
                 PROVE  x \in RowsStored' \cup InHand'
    BY <1>1 DEF NoFileForgotten
  <2>2. x \in RowsStored \/ x \in InHand
    BY <2>1 DEF ReceiptsIInv, NoFileForgotten
  <2>3. CASE x \in RowsStored
    <3>1. PICK u \in Txs : x = row[u] /\ x # 0
      BY <2>3 DEF RowsStored
    <3>2. u # t
      BY <1>1, <2>1, <3>1
    <3>3. QED
      BY <1>3, <3>1, <3>2 DEF RowsStored
  <2>4. CASE x \in InHand
    <3>1. CASE x = s.new
      BY <1>1, <1>3, <3>1 DEF RowsStored
    <3>2. CASE x # s.new
      BY <1>1, <1>6, <2>4, <3>2 DEF InHand
    <3>3. QED
      BY <3>1, <3>2
  <2>5. QED
    BY <2>2, <2>3, <2>4
<1>16. QED
  BY <1>8, <1>9, <1>10, <1>11, <1>12, <1>13, <1>14, <1>15 DEF ReceiptsIInv

\* A replacement that fails, perhaps while it deletes the files it replaces.
LEMMA UndoneKeeps ==
  ASSUME ReceiptsIInv, NEW f \in Forms, AttachFails(f) \/ PurgeFails(f)
  PROVE  ReceiptsIInv'
<1> DEFINE s == form[f]
           r == [s EXCEPT !.save = "undone"]
<1>1. /\ s \in FormStates /\ InTransaction(s) /\ s.target \in Txs
      /\ s.old = row[s.target] /\ s.old \in ReceiptIds \cup {0}
      /\ s.save = "purged" => s.old \notin images
      /\ s.new \in images /\ \A u \in Txs : row[u] # s.new
      /\ holder' = Nobody /\ form' = [form EXCEPT ![f] = r]
      /\ UNCHANGED <<status, link, row, thumbs, minted, clearing, leaked>>
  BY FormTypes DEF ReceiptsIInv, FormsOK, NewOK, ReplacedOK, Writing, InTransaction, FormStates,
                   AttachFails, PurgeFails, store, files
<1>2. /\ images' \in {images, images \ {s.old}}
      /\ lost' \in {lost, lost \cup ({s.old} \ {0})}
      /\ s.old # 0 /\ (s.save = "purged" \/ images' # images) => s.old \in lost'
  BY <1>1 DEF AttachFails, PurgeFails, files, InTransaction
<1>3. r \in FormStates
  BY <1>1 DEF FormStates, SaveSteps
<1>4. /\ form' \in [Forms -> FormStates]
      /\ \A g \in Forms : g # f => form'[g] = form[g]
      /\ form'[f].save = "undone" /\ form'[f].new = s.new
      /\ form'[f].id = s.id /\ form'[f].target = s.target /\ form'[f].shown = s.shown
      /\ form'[f].removal = s.removal /\ form'[f].removing = s.removing
  BY <1>1, <1>3, FormChange DEF ReceiptsIInv, FormStates
<1> HIDE DEF r
<1>5. \A g \in Forms : /\ Writing(form'[g]) <=> Writing(form[g])
                       /\ form'[g].new = form[g].new
                       /\ form'[g].removal = form[g].removal
                       /\ form'[g].removing = form[g].removing
                       /\ form'[g].id = form[g].id /\ form'[g].shown = form[g].shown
                       /\ form'[g].target = form[g].target
                       /\ form'[g].save # "idle" => form[g].save # "idle"
  BY <1>1, <1>4 DEF Writing, InTransaction
<1>6. \A g \in Forms : ~ InTransaction(form'[g]) /\ (g # f => ~ InTransaction(form[g]))
  <2>1. holder = f
    BY <1>1, FormTypes DEF ReceiptsIInv
  <2>2. QED
    BY <1>4, <2>1, FormTypes DEF ReceiptsIInv, InTransaction
<1>7. ReceiptsTypeOK'
  <2>1. \A g \in Forms : InTransaction(form'[g]) <=> holder' = g
    BY <1>1, <1>6, ReceiptsAssumption
  <2>2. QED
    BY <1>1, <1>2, <1>4, <2>1 DEF ReceiptsIInv, ReceiptsTypeOK, FormStates, InTransaction
<1>8. RowsOK' /\ ClearingOK'
  BY <1>1, <1>2 DEF ReceiptsIInv, RowsOK, ClearingOK
<1>9. FormsOK'
  BY <1>1, <1>5 DEF ReceiptsIInv, FormsOK, Removing
<1>10. NewOK'
  <2>1. \A g \in Forms : Writing(form[g]) => form[g].new \in images'
    BY <1>1, <1>2 DEF ReceiptsIInv, NewOK
  <2>2. QED
    BY <1>1, <1>5, <2>1 DEF ReceiptsIInv, NewOK, Removing
<1>11. ReplacedOK'
  BY <1>6 DEF ReplacedOK
<1>12. StoredReceiptHasFile'
  <2>1. ASSUME NEW u \in Txs, row[u] # 0 PROVE row[u] \in images' \cup lost'
    <3>1. row[u] \in images \cup lost \/ BeingReplaced(row[u])
      BY <2>1 DEF ReceiptsIInv, StoredReceiptHasFile
    <3>2. BeingReplaced(row[u]) => s.save = "purged" /\ s.old = row[u]
      BY <1>6 DEF BeingReplaced, InTransaction
    <3>3. QED
      BY <1>2, <2>1, <3>1, <3>2
  <2>2. QED
    BY <1>1, <2>1 DEF StoredReceiptHasFile
<1>13. NoFileForgotten'
  <2>1. InHand \subseteq InHand'
    BY <1>1, <1>5 DEF InHand, Writing
  <2>2. RowsStored' = RowsStored
    BY <1>1 DEF RowsStored
  <2>3. QED
    BY <1>1, <1>2, <2>1, <2>2 DEF ReceiptsIInv, NoFileForgotten
<1>14. QED
  BY <1>7, <1>8, <1>9, <1>10, <1>11, <1>12, <1>13 DEF ReceiptsIInv

\* A save that ends without a row for the image it has written: it deletes the
\* files again, or leaves some of them.
LEMMA GivenUpKeeps ==
  ASSUME ReceiptsIInv, NEW f \in Forms, WriteFails(f) \/ DiscardNew(f) \/ DiscardFails(f)
  PROVE  ReceiptsIInv'
<1> DEFINE s == form[f]
           r == [s EXCEPT !.save = "idle", !.target = 0, !.new = 0, !.old = 0]
<1>1. /\ s \in FormStates /\ s.save \in {"imaged", "undone"}
      /\ s.new \in ReceiptIds /\ s.new \in 1 .. minted
      /\ \A u \in Txs : row[u] # s.new
      /\ \A g \in Forms : Writing(form[g]) /\ g # f => form[g].new # s.new
      /\ Settle(f, r)
      /\ UNCHANGED <<status, link, row, minted, holder, clearing, lost>>
  BY FormTypes DEF ReceiptsIInv, NewOK, Writing, WriteFails, DiscardNew, DiscardFails,
                   SaveFails, store
<1>2. /\ images' \in {images, images \ {s.new}}
      /\ thumbs' \in {thumbs, thumbs \cup {s.new}, thumbs \ {s.new}}
      /\ leaked' \in {leaked, leaked \cup {s.new}}
      /\ s.new \in images' \cup thumbs' => s.new \in leaked'
  BY DEF WriteFails, DiscardNew, DiscardFails, files
<1>3. r \in FormStates /\ r.save = "idle"
  BY <1>1 DEF FormStates, SaveSteps
<1>4. /\ form' \in [Forms -> FormStates]
      /\ \A g \in Forms : g # f => form'[g] = form[g]
      /\ form'[f] = r \/ (form'[f] = ClosedForm /\ r.removal = "idle")
  BY <1>1, <1>3, FormSettles DEF ReceiptsIInv
<1>5. /\ form'[f].save = "idle" /\ form'[f].removal = s.removal
      /\ Removing(s) => form'[f].id = s.id /\ form'[f].removing = s.removing
      /\ form'[f].shown # 0 => form'[f].shown = s.shown /\ form'[f].id = s.id
  BY <1>1, <1>4, ClosedIdle DEF FormStates, Removing
<1> HIDE DEF r
<1>6. /\ ~ Writing(form'[f]) /\ ~ InTransaction(form'[f]) /\ ~ InTransaction(s)
      /\ \A g \in Forms : form[g].save = "purged" => g # f
  BY <1>1, <1>5 DEF Writing, InTransaction
<1>7. ReceiptsTypeOK'
  <2>1. \A g \in Forms : InTransaction(form'[g]) <=> holder' = g
    BY <1>1, <1>4, <1>6, FormTypes DEF ReceiptsIInv
  <2>2. QED
    BY <1>1, <1>2, <1>4, <2>1 DEF ReceiptsIInv, ReceiptsTypeOK, FormStates, InTransaction
<1>8. RowsOK' /\ ClearingOK'
  BY <1>1, <1>2 DEF ReceiptsIInv, RowsOK, ClearingOK
<1>9. FormsOK'
  BY <1>1, <1>4, <1>5 DEF ReceiptsIInv, FormsOK, Removing
<1>10. NewOK'
  <2>1. \A g \in Forms : Removing(form'[g]) =>
          Removing(form[g]) /\ form'[g].removing = form[g].removing
    BY <1>4, <1>5 DEF Removing
  <2>2. QED
    BY <1>1, <1>2, <1>4, <1>6, <2>1 DEF ReceiptsIInv, NewOK
<1>11. ReplacedOK'
  <2>1. \A g \in Forms : InTransaction(form'[g]) =>
          g # f /\ InTransaction(form[g]) /\ form'[g] = form[g]
    BY <1>4, <1>6
  <2>2. \A g \in Forms : InTransaction(form[g]) => form[g].old # s.new
    BY <1>1 DEF ReceiptsIInv, FormsOK, ReplacedOK, InTransaction
  <2>3. QED
    BY <1>1, <1>2, <2>1, <2>2 DEF ReceiptsIInv, ReplacedOK
<1>12. StoredReceiptHasFile'
  <2>1. \A x : BeingReplaced(x) => BeingReplaced(x)'
    BY <1>4, <1>6 DEF BeingReplaced
  <2>2. QED
    BY <1>1, <1>2, <2>1 DEF ReceiptsIInv, StoredReceiptHasFile
<1>13. NoFileForgotten'
  <2>1. SUFFICES ASSUME NEW x \in images \cup thumbs, x # s.new, x \in InHand PROVE x \in InHand'
    <3>1. RowsStored' = RowsStored
      BY <1>1 DEF RowsStored
    <3>2. QED
      BY <1>1, <1>2, <2>1, <3>1 DEF ReceiptsIInv, NoFileForgotten
  <2>2. QED
    BY <1>1, <1>4, <1>5, <2>1 DEF InHand, Removing
<1>14. QED
  BY <1>7, <1>8, <1>9, <1>10, <1>11, <1>12, <1>13 DEF ReceiptsIInv

-----------------------------------------------------------------------------
(* Removing *)

\* A receipt to remove is found.
LEMMA BeginRemoveKeeps ==
  ASSUME ReceiptsIInv, NEW f \in Forms, BeginRemove(f), row[form[f].id] # 0
  PROVE  ReceiptsIInv'
<1> DEFINE s == form[f]
           k == row[s.id]
           r == [s EXCEPT !.removal = "found", !.removing = k]
<1>1. /\ s \in FormStates /\ s.id \in Txs /\ s.removal = "idle"
      /\ k \in ReceiptIds /\ k \in 1 .. minted
      /\ \A t \in Txs : row[t] = k => t = s.id
      /\ UNCHANGED <<status, link, row, images, thumbs, minted, holder, clearing, leaked, lost>>
      /\ form' = [form EXCEPT ![f] = r]
  <2>1. /\ s \in FormStates /\ s.id \in Txs /\ s.removal = "idle" /\ k # 0
        /\ minted \in Nat
    BY FormTypes DEF ReceiptsIInv, FormsOK, BeginRemove
  <2>2. /\ k \in ReceiptIds /\ k \in 0 .. minted
        /\ \A t \in Txs : row[t] = k => t = s.id
    BY <2>1 DEF ReceiptsIInv, RowsOK, ReceiptsTypeOK
  <2>3. k \in 1 .. minted
    BY <2>1, <2>2
  <2>4. /\ UNCHANGED <<status, link, row, images, thumbs, minted, holder, clearing, leaked, lost>>
        /\ form' = [form EXCEPT ![f] = r]
    BY DEF BeginRemove, store, files
  <2>5. QED
    BY <2>1, <2>2, <2>3, <2>4
<1>2. \A g \in Forms : Writing(form[g]) => form[g].new # k
  BY <1>1 DEF ReceiptsIInv, NewOK
<1>3. r \in FormStates
  BY <1>1 DEF FormStates, RemovalSteps
<1>4. /\ form' \in [Forms -> FormStates]
      /\ \A g \in Forms : g # f => form'[g] = form[g]
      /\ form'[f].save = s.save /\ form'[f].new = s.new /\ form'[f].old = s.old
      /\ form'[f].id = s.id /\ form'[f].target = s.target /\ form'[f].shown = s.shown
      /\ form'[f].removal = "found" /\ form'[f].removing = k
  BY <1>1, <1>3, FormChange DEF ReceiptsIInv, FormStates
<1> HIDE DEF r, k
<1>5. \A g \in Forms : /\ form'[g].save = form[g].save /\ form'[g].new = form[g].new
                       /\ form'[g].old = form[g].old /\ form'[g].target = form[g].target
  BY <1>4
<1>6. ReceiptsTypeOK'
  BY <1>1, <1>4, <1>5 DEF ReceiptsIInv, ReceiptsTypeOK, FormStates
<1>7. RowsOK' /\ ClearingOK'
  BY <1>1 DEF ReceiptsIInv, RowsOK, ClearingOK
<1>8. FormsOK'
  BY <1>1, <1>4 DEF ReceiptsIInv, FormsOK, Removing
<1>9. NewOK'
  BY <1>1, <1>2, <1>4, <1>5 DEF ReceiptsIInv, NewOK, Writing, Removing
<1>10. ReplacedOK'
  BY <1>1, <1>5 DEF ReceiptsIInv, ReplacedOK, InTransaction
<1>11. StoredReceiptHasFile'
  BY <1>1, <1>5 DEF ReceiptsIInv, StoredReceiptHasFile, BeingReplaced
<1>12. NoFileForgotten'
  <2>1. InHand \subseteq InHand'
    BY <1>1, <1>4, <1>5 DEF InHand
  <2>2. RowsStored' = RowsStored
    BY <1>1 DEF RowsStored
  <2>3. QED
    BY <1>1, <2>1, <2>2 DEF ReceiptsIInv, NoFileForgotten
<1>13. QED
  BY <1>6, <1>7, <1>8, <1>9, <1>10, <1>11, <1>12 DEF ReceiptsIInv

\* Its row is deleted.
LEMMA UnlinkKeeps ==
  ASSUME ReceiptsIInv, NEW f \in Forms, Unlink(f)
  PROVE  ReceiptsIInv'
<1> DEFINE s == form[f]
           r == [s EXCEPT !.removal = "unlinked"]
<1>1. /\ s \in FormStates /\ s.id \in Txs /\ s.removal = "found" /\ Idle
      /\ s.removing # 0
      /\ \A t \in Txs : row[t] = s.removing => t = s.id
      /\ row' = IF row[s.id] = s.removing THEN [row EXCEPT ![s.id] = 0] ELSE row
      /\ row \in [Txs -> ReceiptIds \cup {0}]
      /\ UNCHANGED <<status, images, thumbs, minted, holder, clearing, leaked, lost>>
      /\ form' = [form EXCEPT ![f] = r]
  BY FormTypes DEF ReceiptsIInv, FormsOK, Removing, ReceiptsTypeOK, Unlink, files
<1>2. /\ row' \in [Txs -> ReceiptIds \cup {0}]
      /\ \A t \in Txs : row'[t] # s.removing
      /\ \A t \in Txs : row'[t] = row[t] \/ (row'[t] = 0 /\ row[t] = s.removing)
  BY <1>1
<1>3. link' \in [Txs -> ReceiptIds \cup {0}]
  BY <1>1 DEF Unlink, ReceiptsIInv, ReceiptsTypeOK
<1>4. \A g \in Forms : ~ InTransaction(form[g])
  BY <1>1, NobodyInTransaction DEF ReceiptsIInv
<1>5. r \in FormStates
  BY <1>1 DEF FormStates, RemovalSteps
<1>6. /\ form' \in [Forms -> FormStates]
      /\ \A g \in Forms : g # f => form'[g] = form[g]
      /\ form'[f].save = s.save /\ form'[f].new = s.new /\ form'[f].old = s.old
      /\ form'[f].id = s.id /\ form'[f].target = s.target /\ form'[f].shown = s.shown
      /\ form'[f].removal = "unlinked" /\ form'[f].removing = s.removing
  BY <1>1, <1>5, FormChange DEF ReceiptsIInv, FormStates
<1> HIDE DEF r
<1>7. \A g \in Forms : /\ form'[g].save = form[g].save /\ form'[g].new = form[g].new
                       /\ form'[g].old = form[g].old /\ form'[g].target = form[g].target
                       /\ form'[g].shown = form[g].shown /\ form'[g].id = form[g].id
                       /\ form'[g].removing = form[g].removing
                       /\ Removing(form'[g]) <=> Removing(form[g])
  BY <1>1, <1>6 DEF Removing
<1>8. ReceiptsTypeOK'
  BY <1>1, <1>2, <1>3, <1>6, <1>7 DEF ReceiptsIInv, ReceiptsTypeOK, FormStates
<1>9. RowsOK'
  <2>1. \A t \in Txs : row'[t] \in 0 .. minted
    BY <1>2, FormTypes DEF ReceiptsIInv, RowsOK
  <2>2. \A t, u \in Txs : row'[t] = row'[u] /\ row'[t] # 0 => t = u
    BY <1>2 DEF ReceiptsIInv, RowsOK
  <2>3. QED
    BY <1>1, <2>1, <2>2 DEF ReceiptsIInv, RowsOK
<1>10. ClearingOK'
  <2>1. 0 \notin clearing.listed
    BY FormTypes DEF ReceiptsIInv, ClearingOK
  <2>2. QED
    BY <1>1, <1>2, <2>1 DEF ReceiptsIInv, ClearingOK
<1>11. FormsOK'
  <2>1. ASSUME NEW g \in Forms, Removing(form[g]), NEW t \in Txs
        PROVE  row'[t] = form[g].removing => row[t] = form[g].removing
    <3>1. form[g].removing \in 1 .. minted
      BY <2>1 DEF ReceiptsIInv, FormsOK
    <3>2. form[g].removing # 0
      BY <3>1, FormTypes DEF ReceiptsIInv
    <3>3. QED
      BY <1>2, <3>2
  <2>2. \A g \in Forms : form'[g].removal = "unlinked" =>
          g = f \/ (form[g].removal = "unlinked" /\ Removing(form[g]))
    BY <1>6 DEF Removing
  <2>3. \A g \in Forms : form'[g].removal = "unlinked" =>
          \A t \in Txs : row'[t] # form'[g].removing
    BY <1>2, <1>7, <2>1, <2>2 DEF ReceiptsIInv, FormsOK
  <2>4. QED
    BY <1>1, <1>7, <2>1, <2>3 DEF ReceiptsIInv, FormsOK
<1>12. NewOK'
  <2>1. \A g \in Forms : Writing(form'[g]) <=> Writing(form[g])
    BY <1>7 DEF Writing
  <2>2. ASSUME NEW g \in Forms, Writing(form[g]), NEW t \in Txs PROVE row'[t] # form[g].new
    <3>1. row[t] # form[g].new /\ form[g].new \in 1 .. minted
      BY <2>2 DEF ReceiptsIInv, NewOK
    <3>2. form[g].new # 0
      BY <3>1, FormTypes DEF ReceiptsIInv
    <3>3. QED
      BY <1>2, <3>1, <3>2
  <2>3. QED
    BY <1>1, <1>7, <2>1, <2>2 DEF ReceiptsIInv, NewOK
<1>13. ReplacedOK'
  BY <1>4, <1>7 DEF ReplacedOK, InTransaction
<1>14. StoredReceiptHasFile'
  <2>1. \A x : ~ BeingReplaced(x)
    BY <1>4 DEF BeingReplaced, InTransaction
  <2>2. QED
    BY <1>1, <1>2, <2>1 DEF ReceiptsIInv, StoredReceiptHasFile
<1>15. NoFileForgotten'
  <2>1. SUFFICES ASSUME NEW x \in images \cup thumbs, x \notin leaked, x # s.removing
                 PROVE  x \in RowsStored' \cup InHand'
    <3>1. s.removing \in InHand'
      BY <1>6 DEF InHand
    <3>2. QED
      BY <1>1, <2>1, <3>1 DEF NoFileForgotten
  <2>2. x \in RowsStored => x \in RowsStored'
    BY <1>2, <2>1 DEF RowsStored
  <2>3. x \in InHand => x \in InHand'
    BY <1>1, <1>6, <1>7 DEF InHand, Removing
  <2>4. QED
    BY <2>1, <2>2, <2>3 DEF ReceiptsIInv, NoFileForgotten
<1>16. QED
  BY <1>8, <1>9, <1>10, <1>11, <1>12, <1>13, <1>14, <1>15 DEF ReceiptsIInv

\* Its files are deleted, or some are left.
LEMMA RemoveFilesKeeps ==
  ASSUME ReceiptsIInv, NEW f \in Forms, RemoveFiles(f) \/ RemoveFilesFails(f)
  PROVE  ReceiptsIInv'
<1> DEFINE s == form[f]
           r == [s EXCEPT !.removal = "idle", !.removing = 0, !.pending = FALSE, !.shown = 0]
           q == [s EXCEPT !.removal = "idle", !.removing = 0]
<1>1. /\ s \in FormStates /\ s.removal = "unlinked" /\ Removing(s)
      /\ \A t \in Txs : row[t] # s.removing
      /\ \A g \in Forms : Writing(form[g]) => form[g].new # s.removing
      /\ s.removing \in ReceiptIds
      /\ Settle(f, r) \/ Settle(f, q)
      /\ UNCHANGED <<status, link, row, minted, holder, clearing, lost>>
  BY FormTypes DEF ReceiptsIInv, FormsOK, NewOK, Removing, RemoveFiles, RemoveFilesFails,
                   ForgetReceipt, store
<1>2. /\ images' \in {images, images \ {s.removing}}
      /\ thumbs' \in {thumbs, thumbs \ {s.removing}}
      /\ leaked' \in {leaked, leaked \cup {s.removing}}
      /\ s.removing \in images' \cup thumbs' => s.removing \in leaked'
  BY DEF RemoveFiles, RemoveFilesFails
<1>3. /\ form' \in [Forms -> FormStates]
      /\ \A g \in Forms : g # f => form'[g] = form[g]
      /\ \/ form'[f] = r \/ form'[f] = q
         \/ form'[f] = ClosedForm /\ s.save = "idle"
  <2>1. r \in FormStates /\ r.save = s.save /\ q \in FormStates /\ q.save = s.save
    BY <1>1 DEF FormStates, RemovalSteps
  <2>2. QED
    BY <1>1, <2>1, FormSettles DEF ReceiptsIInv
<1>4. /\ form'[f].save = s.save /\ form'[f].removal = "idle"
      /\ form'[f].shown # 0 => form'[f].shown = s.shown /\ form'[f].id = s.id
      /\ s.save # "idle" => /\ form'[f].new = s.new /\ form'[f].old = s.old
                            /\ form'[f].target = s.target
  <2>1. CASE form'[f] = r
    BY <1>1, <2>1 DEF FormStates
  <2>2. CASE form'[f] = q
    BY <1>1, <2>2 DEF FormStates
  <2>3. CASE form'[f] = ClosedForm /\ s.save = "idle"
    BY <2>3, ClosedIdle
  <2>4. QED
    BY <1>3, <2>1, <2>2, <2>3
<1> HIDE DEF r, q
<1>5. \A g \in Forms : /\ form'[g].save = form[g].save
                       /\ form[g].save # "idle" =>
                            /\ form'[g].new = form[g].new /\ form'[g].old = form[g].old
                            /\ form'[g].target = form[g].target
                       /\ Removing(form'[g]) => g # f /\ form'[g] = form[g]
  BY <1>3, <1>4 DEF Removing
<1>6. ReceiptsTypeOK'
  BY <1>1, <1>2, <1>3, <1>5 DEF ReceiptsIInv, ReceiptsTypeOK, FormStates
<1>7. RowsOK' /\ ClearingOK'
  BY <1>1, <1>2 DEF ReceiptsIInv, RowsOK, ClearingOK
<1>8. FormsOK'
  BY <1>1, <1>3, <1>4, <1>5 DEF ReceiptsIInv, FormsOK, Removing
<1>9. NewOK'
  BY <1>1, <1>2, <1>5 DEF ReceiptsIInv, NewOK, Writing
<1>10. ReplacedOK'
  BY <1>1, <1>2, <1>5 DEF ReceiptsIInv, ReplacedOK, InTransaction
<1>11. StoredReceiptHasFile'
  <2>1. \A x : BeingReplaced(x) => BeingReplaced(x)'
    BY <1>5 DEF BeingReplaced
  <2>2. QED
    BY <1>1, <1>2, <2>1 DEF ReceiptsIInv, StoredReceiptHasFile
<1>12. NoFileForgotten'
  <2>1. SUFFICES ASSUME NEW x \in images \cup thumbs, x # s.removing, x \in InHand
                 PROVE  x \in InHand'
    <3>1. RowsStored' = RowsStored
      BY <1>1 DEF RowsStored
    <3>2. QED
      BY <1>1, <1>2, <2>1, <3>1 DEF ReceiptsIInv, NoFileForgotten
  <2>2. QED
    BY <1>1, <1>3, <1>5, <2>1 DEF InHand, Removing
<1>13. QED
  BY <1>6, <1>7, <1>8, <1>9, <1>10, <1>11, <1>12 DEF ReceiptsIInv

-----------------------------------------------------------------------------
(* Clearing and crashing *)

\* A clearing lists the receipts that have rows.
LEMMA ListReceiptsKeeps ==
  ASSUME ReceiptsIInv, ListReceipts
  PROVE  ReceiptsIInv'
<1>1. /\ UNCHANGED <<status, link, row, images, thumbs, minted, holder, form, leaked, lost>>
      /\ clearing.at = "idle" /\ clearing' = [at |-> "listed", listed |-> RowsStored]
      /\ clearing'.at = "listed" /\ clearing'.listed = RowsStored
  BY DEF ListReceipts, store, files
<1>2. RowsStored \subseteq 1 .. minted /\ 1 .. minted \subseteq ReceiptIds
  <2>1. minted \in Nat /\ 1 .. minted \subseteq ReceiptIds
    BY FormTypes DEF ReceiptsIInv
  <2>2. \A t \in Txs : row[t] \in 0 .. minted
    BY DEF ReceiptsIInv, RowsOK
  <2>3. QED
    BY <2>1, <2>2 DEF RowsStored
<1>3. ReceiptsTypeOK'
  BY <1>1, <1>2 DEF ReceiptsIInv, ReceiptsTypeOK
<1>4. RowsOK' /\ FormsOK' /\ ReplacedOK' /\ ClearingOK'
  BY <1>1, <1>2 DEF ReceiptsIInv, RowsOK, FormsOK, ReplacedOK, ClearingOK
<1>5. NewOK'
  <2>1. \A f \in Forms : Writing(form[f]) => form[f].new \notin RowsStored
    BY DEF ReceiptsIInv, NewOK, RowsStored
  <2>2. QED
    BY <1>1, <2>1 DEF ReceiptsIInv, NewOK
<1>6. StoredReceiptHasFile'
  BY <1>1 DEF ReceiptsIInv, StoredReceiptHasFile, BeingReplaced
<1>7. NoFileForgotten'
  <2>1. InHand \subseteq InHand'
    BY <1>1 DEF ReceiptsIInv, ClearingOK, InHand
  <2>2. RowsStored' = RowsStored
    BY <1>1 DEF RowsStored
  <2>3. QED
    BY <1>1, <2>1, <2>2 DEF ReceiptsIInv, NoFileForgotten
<1>8. QED
  BY <1>3, <1>4, <1>5, <1>6, <1>7 DEF ReceiptsIInv

\* It fails to delete them.
LEMMA ClearRowsFailsKeeps ==
  ASSUME ReceiptsIInv, ClearRowsFails
  PROVE  ReceiptsIInv'
<1>1. /\ UNCHANGED <<status, link, row, images, thumbs, minted, holder, form, leaked, lost>>
      /\ clearing.at = "listed" /\ clearing' = NotClearing
      /\ clearing'.at = "idle" /\ clearing'.listed = {}
  BY DEF ClearRowsFails, store, files, NotClearing
<1>2. ReceiptsTypeOK'
  BY <1>1 DEF ReceiptsIInv, ReceiptsTypeOK, NotClearing
<1>3. RowsOK' /\ FormsOK' /\ ReplacedOK' /\ ClearingOK'
  BY <1>1 DEF ReceiptsIInv, RowsOK, FormsOK, ReplacedOK, ClearingOK
<1>4. NewOK'
  BY <1>1 DEF ReceiptsIInv, NewOK
<1>5. StoredReceiptHasFile'
  BY <1>1 DEF ReceiptsIInv, StoredReceiptHasFile, BeingReplaced
<1>6. NoFileForgotten'
  <2>1. InHand \subseteq InHand' /\ RowsStored' = RowsStored
    BY <1>1 DEF InHand, RowsStored
  <2>2. QED
    BY <1>1, <2>1 DEF ReceiptsIInv, NoFileForgotten
<1>7. QED
  BY <1>2, <1>3, <1>4, <1>5, <1>6 DEF ReceiptsIInv

\* It deletes every row.
LEMMA ClearRowsKeeps ==
  ASSUME ReceiptsIInv, ClearRows
  PROVE  ReceiptsIInv'
<1>1. /\ UNCHANGED <<status, images, thumbs, minted, holder, form, lost>> /\ Idle
      /\ row' = [t \in Txs |-> 0]
      /\ leaked' = leaked \cup (RowsStored \ clearing.listed)
      /\ clearing' \in [at : {"cleared"}, listed : {clearing.listed}]
      /\ clearing'.at = "cleared" /\ clearing'.listed = clearing.listed
      /\ clearing.listed \subseteq ReceiptIds
  BY DEF ClearRows, ReceiptsIInv, ReceiptsTypeOK, files
<1>2. /\ row' \in [Txs -> ReceiptIds \cup {0}] /\ \A t \in Txs : row'[t] = 0
      /\ RowsStored \subseteq ReceiptIds
  BY <1>1 DEF RowsStored, ReceiptsIInv, ReceiptsTypeOK
<1>3. \A f \in Forms : ~ InTransaction(form[f])
  BY <1>1, NobodyInTransaction DEF ReceiptsIInv
<1>4. link' \in [Txs -> ReceiptIds \cup {0}]
  BY DEF ClearRows, ReceiptsIInv, ReceiptsTypeOK
<1>5. ReceiptsTypeOK'
  BY <1>1, <1>2, <1>4 DEF ReceiptsIInv, ReceiptsTypeOK
<1>6. minted \in Nat /\ 0 \in 0 .. minted /\ 0 \notin 1 .. minted
  BY FormTypes DEF ReceiptsIInv
<1>7. RowsOK' /\ ClearingOK'
  BY <1>1, <1>2, <1>6 DEF ReceiptsIInv, RowsOK, ClearingOK
<1>8. FormsOK'
  <2>1. \A f \in Forms : Removing(form[f]) => form[f].removing # 0
    BY <1>6 DEF ReceiptsIInv, FormsOK
  <2>2. QED
    BY <1>1, <1>2, <2>1 DEF ReceiptsIInv, FormsOK, Removing
<1>9. NewOK'
  <2>1. \A f \in Forms : Writing(form[f]) => form[f].new # 0
    BY <1>6 DEF ReceiptsIInv, NewOK
  <2>2. QED
    BY <1>1, <1>2, <2>1 DEF ReceiptsIInv, NewOK
<1>10. ReplacedOK'
  BY <1>1, <1>3 DEF ReplacedOK
<1>11. StoredReceiptHasFile'
  BY <1>2 DEF StoredReceiptHasFile
<1>12. NoFileForgotten'
  <2>1. clearing.listed \subseteq InHand' /\ InHand \subseteq InHand'
    BY <1>1 DEF InHand
  <2>2. QED
    BY <1>1, <2>1 DEF ReceiptsIInv, NoFileForgotten
<1>13. QED
  BY <1>5, <1>7, <1>8, <1>9, <1>10, <1>11, <1>12 DEF ReceiptsIInv

\* It deletes the files of a receipt it has listed, or fails and ends.
LEMMA ClearFilesKeeps ==
  ASSUME ReceiptsIInv, NEW r \in ReceiptIds, ClearFiles(r) \/ ClearFilesFails(r)
  PROVE  ReceiptsIInv'
<1>1. /\ UNCHANGED <<status, link, row, minted, holder, form, lost>>
      /\ clearing.at = "cleared" /\ r \in clearing.listed
      /\ images' \in {images, images \ {r}} /\ thumbs' \in {thumbs, thumbs \ {r}}
      /\ clearing \in [at : {"idle", "listed", "cleared"}, listed : SUBSET ReceiptIds]
  BY DEF ClearFiles, ClearFilesFails, store, ReceiptsIInv, ReceiptsTypeOK
<1>2. /\ clearing' \in [at : {"idle", "listed", "cleared"}, listed : SUBSET ReceiptIds]
      /\ clearing'.listed \subseteq clearing.listed \ {r}
      /\ clearing'.at = "idle" => clearing'.listed = {}
      /\ clearing'.at = "idle" \/ clearing'.at = "cleared"
      /\ leaked \subseteq leaked' /\ leaked' \subseteq ReceiptIds
      /\ \A x \in clearing.listed :
           \/ x \in clearing'.listed /\ clearing'.at = "cleared"
           \/ x \in leaked'
           \/ x = r /\ r \notin images' \cup thumbs'
  <2>1. CASE ClearFiles(r)
    BY <1>1, <2>1 DEF ClearFiles, NotClearing, ReceiptsIInv, ReceiptsTypeOK
  <2>2. CASE ClearFilesFails(r)
    BY <1>1, <2>2 DEF ClearFilesFails, NotClearing, ReceiptsIInv, ReceiptsTypeOK
  <2>3. QED
    BY <2>1, <2>2
<1>3. ReceiptsTypeOK'
  BY <1>1, <1>2 DEF ReceiptsIInv, ReceiptsTypeOK
<1>4. RowsOK' /\ FormsOK' /\ ReplacedOK'
  BY <1>1, <1>2 DEF ReceiptsIInv, RowsOK, FormsOK, ReplacedOK
<1>5. ClearingOK'
  BY <1>1, <1>2 DEF ReceiptsIInv, ClearingOK
<1>6. NewOK'
  BY <1>1, <1>2 DEF ReceiptsIInv, NewOK
<1>7. StoredReceiptHasFile'
  <2>1. \A t \in Txs : row[t] # r
    BY <1>1 DEF ReceiptsIInv, ClearingOK
  <2>2. QED
    BY <1>1, <2>1 DEF ReceiptsIInv, StoredReceiptHasFile, BeingReplaced
<1>8. NoFileForgotten'
  <2>1. \A x \in images' \cup thumbs' : x \in InHand => x \in InHand' \cup leaked'
    BY <1>1, <1>2 DEF InHand
  <2>2. RowsStored' = RowsStored
    BY <1>1 DEF RowsStored
  <2>3. QED
    BY <1>1, <1>2, <2>1, <2>2 DEF ReceiptsIInv, NoFileForgotten
<1>9. QED
  BY <1>3, <1>4, <1>5, <1>6, <1>7, <1>8 DEF ReceiptsIInv

\* The process ends.
LEMMA CrashKeeps ==
  ASSUME ReceiptsIInv, Crash
  PROVE  ReceiptsIInv'
<1>1. /\ UNCHANGED <<status, link, row, images, thumbs, minted>>
      /\ holder' = Nobody /\ clearing' = NotClearing
      /\ form' \in [Forms -> FormStates] /\ \A f \in Forms : form'[f] = ClosedForm
      /\ leaked' = leaked \cup (((images \cup thumbs) \cap InHand) \ RowsStored)
      /\ lost' = lost \cup ({form[f].old : f \in {g \in Forms : form[g].save = "purged"}} \ {0})
  BY ClosedIdle DEF Crash, store, files
<1>2. \A f \in Forms : /\ ~ Writing(form'[f]) /\ ~ Removing(form'[f])
                       /\ ~ InTransaction(form'[f]) /\ form'[f].shown = 0
                       /\ form'[f].save = "idle" /\ form'[f].removal = "idle"
  BY <1>1, ClosedIdle DEF Writing, Removing, InTransaction
<1>3. clearing'.at = "idle" /\ clearing'.listed = {}
      /\ clearing' \in [at : {"idle", "listed", "cleared"}, listed : SUBSET ReceiptIds]
  BY <1>1 DEF NotClearing
<1>4. ReceiptsTypeOK'
  <2>1. leaked' \subseteq ReceiptIds
    BY <1>1 DEF ReceiptsIInv, ReceiptsTypeOK
  <2>2. lost' \subseteq ReceiptIds
    <3>1. \A f \in Forms : form[f].old \in ReceiptIds \cup {0}
      BY FormTypes DEF ReceiptsIInv, FormStates
    <3>2. QED
      BY <1>1, <3>1 DEF ReceiptsIInv, ReceiptsTypeOK
  <2>3. \A f \in Forms : InTransaction(form'[f]) <=> holder' = f
    BY <1>1, <1>2, ReceiptsAssumption
  <2>4. QED
    BY <1>1, <1>3, <2>1, <2>2, <2>3 DEF ReceiptsIInv, ReceiptsTypeOK, FormStates, InTransaction
<1>5. RowsOK' /\ ClearingOK'
  BY <1>1, <1>3 DEF ReceiptsIInv, RowsOK, ClearingOK
<1>6. FormsOK' /\ NewOK' /\ ReplacedOK'
  BY <1>2 DEF FormsOK, NewOK, ReplacedOK
<1>7. StoredReceiptHasFile'
  <2>1. ASSUME NEW t \in Txs, row[t] # 0 PROVE row[t] \in images \cup lost'
    BY <1>1, <2>1 DEF ReceiptsIInv, StoredReceiptHasFile, BeingReplaced
  <2>2. QED
    BY <1>1, <2>1 DEF StoredReceiptHasFile
<1>8. NoFileForgotten'
  <2>1. RowsStored' = RowsStored
    BY <1>1 DEF RowsStored
  <2>2. QED
    BY <1>1, <2>1 DEF ReceiptsIInv, NoFileForgotten
<1>9. QED
  BY <1>4, <1>5, <1>6, <1>7, <1>8 DEF ReceiptsIInv

-----------------------------------------------------------------------------
(* The invariant holds, and what follows from it *)

\* At the start there are no receipts and no forms.
LEMMA ReceiptsInitial == ReceiptsInit => ReceiptsIInv
<1> SUFFICES ASSUME ReceiptsInit PROVE ReceiptsIInv
  OBVIOUS
<1>1. /\ status = [t \in Txs |-> "unused"] /\ link = [t \in Txs |-> 0]
      /\ row = [t \in Txs |-> 0] /\ images = {} /\ thumbs = {} /\ minted = 0 /\ holder = Nobody
      /\ form \in [Forms -> FormStates] /\ \A f \in Forms : form[f] = ClosedForm
      /\ clearing \in [at : {"idle"}, listed : {{}}] /\ leaked = {} /\ lost = {}
  BY ClosedIdle DEF ReceiptsInit, NotClearing
<1>2. \A f \in Forms : /\ ~ Writing(form[f]) /\ ~ Removing(form[f])
                       /\ ~ InTransaction(form[f]) /\ form[f].shown = 0
                       /\ form[f].save = "idle" /\ form[f].removal = "idle"
  BY <1>1, ClosedIdle DEF Writing, Removing, InTransaction
<1>3. ReceiptsTypeOK
  <2>1. \A f \in Forms : InTransaction(form[f]) <=> holder = f
    BY <1>1, <1>2, ReceiptsAssumption
  <2>2. minted \in 0 .. MaxReceipt
    BY <1>1, ReceiptsAssumption
  <2>3. QED
    BY <1>1, <2>1, <2>2 DEF ReceiptsTypeOK, FormStates, InTransaction
<1>4. RowsOK /\ ClearingOK
  BY <1>1 DEF RowsOK, ClearingOK
<1>5. FormsOK /\ NewOK /\ ReplacedOK
  BY <1>2 DEF FormsOK, NewOK, ReplacedOK
<1>6. StoredReceiptHasFile /\ NoFileForgotten
  BY <1>1 DEF StoredReceiptHasFile, NoFileForgotten
<1>7. QED
  BY <1>3, <1>4, <1>5, <1>6 DEF ReceiptsIInv

\* Every step keeps the invariant.
LEMMA ReceiptsInductive == ReceiptsIInv /\ [ReceiptsNext]_vars => ReceiptsIInv'
<1> SUFFICES ASSUME ReceiptsIInv, [ReceiptsNext]_vars PROVE ReceiptsIInv'
  OBVIOUS
<1>1. ASSUME NEW f \in Forms, Ask(f) PROVE ReceiptsIInv'
  <2>1. CASE BeginRemove(f) /\ row[form[f].id] # 0
    BY <2>1, BeginRemoveKeeps
  <2>2. CASE ~ (BeginRemove(f) /\ row[form[f].id] # 0)
    <3>1. Calm(f)
      BY <1>1, <2>2, CalmSteps DEF Ask, ReceiptsIInv
    <3>2. QED
      BY <3>1, CalmKeeps
  <2>3. QED
    BY <2>1, <2>2
<1>2. ASSUME NEW f \in Forms, SaveProceeds(f) \/ RemovalProceeds(f) PROVE ReceiptsIInv'
  <2>1. CASE SaveWithoutReceipt(f) \/ AttachRefused(f) \/ ConfirmAttach(f) \/ UnlinkFails(f)
    <3>1. Calm(f)
      BY <2>1, CalmSteps DEF ReceiptsIInv
    <3>2. QED
      BY <3>1, CalmKeeps
  <2>2. QED
    BY <1>2, <2>1, WriteImageKeeps, WriteThumbnailKeeps, BeginAttachKeeps, PurgeReplacedKeeps,
       CommitAttachKeeps, UndoneKeeps, GivenUpKeeps, UnlinkKeeps, RemoveFilesKeeps
       DEF SaveProceeds, RemovalProceeds
<1>3. ASSUME UNCHANGED vars PROVE ReceiptsIInv'
  BY <1>3 DEF vars, store, files, ReceiptsIInv, ReceiptsTypeOK, RowsOK, FormsOK, NewOK, ReplacedOK,
              ClearingOK, StoredReceiptHasFile, NoFileForgotten, BeingReplaced, RowsStored,
              InHand
<1>4. QED
  BY <1>1, <1>2, <1>3, ListReceiptsKeeps, ClearRowsKeeps, ClearRowsFailsKeeps, ClearFilesKeeps, CrashKeeps
     DEF ReceiptsNext, ClearProceeds

\* The invariant holds always.
LEMMA ReceiptsInvariant == ReceiptsSpec => []ReceiptsIInv
BY ReceiptsInitial, ReceiptsInductive, PTL DEF ReceiptsSpec

\* The receipts and the operations in progress have their types, and the
\* database is held by the form whose transaction is open and by no other.
THEOREM ReceiptsTypeCorrect == ReceiptsSpec => []ReceiptsTypeOK
<1>1. ReceiptsIInv => ReceiptsTypeOK
  BY DEF ReceiptsIInv
<1>2. QED
  BY <1>1, ReceiptsInvariant, PTL

\* However saves, removals, clearings and crashes interleave, a stored receipt
\* keeps its file, but for a replacement that deletes it and does not commit.
THEOREM ReceiptsKeepFiles == ReceiptsSpec => []StoredReceiptHasFile
<1>1. ReceiptsIInv => StoredReceiptHasFile
  BY DEF ReceiptsIInv
<1>2. QED
  BY <1>1, ReceiptsInvariant, PTL

\* No image and no thumbnail stays without a row and without an operation that
\* has it in hand, but for those of a receipt whose write or deletion failed, which
\* a crash cut short, or which a clearing had not listed when it deleted its row.
THEOREM ReceiptsForgetNoFile == ReceiptsSpec => []NoFileForgotten
<1>1. ReceiptsIInv => NoFileForgotten
  BY DEF ReceiptsIInv
<1>2. QED
  BY <1>1, ReceiptsInvariant, PTL

=============================================================================
