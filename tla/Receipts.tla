------------------------------ MODULE Receipts ------------------------------
(***************************************************************************)
(* Receipt images: the rows of receipt_attachments, the link a transaction *)
(* keeps to its row, and the image files beside the database               *)
(* (src/mobile/lib/features/receipts/receipt_repository.dart), used by the *)
(* expense form (src/mobile/lib/features/capture/capture_screen.dart) and  *)
(* the receipt storage screen.                                             *)
(*                                                                         *)
(* Files are outside the database's transactions, so each operation is a   *)
(* sequence of steps, and each step on a file may fail.  A file that could *)
(* not be written whole counts as written.  A form that the user leaves    *)
(* finishes the operation it is in, but does not start on the image it had *)
(* still to attach.                                                        *)
(* Only one database transaction is open at a time and everything else     *)
(* that needs the database waits for it; what a transaction writes is put  *)
(* into the variables when it commits.  Whether a row may be stored at all *)
(* is the business of Ledger: here a create or an update may just fail.    *)
(***************************************************************************)
EXTENDS Integers

CONSTANTS
  MaxTx,       \* bound: how many transactions are ever created
  MaxReceipt,  \* bound: how many images are ever written
  Forms,       \* expense forms that can be at work at the same time
  Crashes,     \* whether the process may end
  Nobody       \* not a form

ASSUME ReceiptsAssumption ==
  /\ MaxTx \in Nat
  /\ MaxReceipt \in Nat
  /\ Nobody \notin Forms
  /\ Crashes \in BOOLEAN

VARIABLES
  status,    \* of each transaction id: "unused", "stored" or "deleted"
  link,      \* receiptAttachmentId of each transaction, 0 for null
  row,       \* the receipt row stored for each transaction, 0 for none
  images,    \* the receipts whose full image is a file
  thumbs,    \* the receipts whose thumbnail is a file
  minted,    \* receipts 1 .. minted have been given an id
  holder,    \* the form whose database transaction is open, or Nobody
  form,      \* the state of each expense form
  clearing,  \* clearAll: where it is, and the receipts it listed
  leaked,    \* history: receipts that were left to a crash, a failed write or a
             \* failed deletion, or that a clearing had not listed
  lost       \* history: receipts whose image was deleted by a transaction that
             \* did not commit

store == <<status, link, row>>
files == <<images, thumbs>>
vars == <<status, link, row, files, minted, holder, form, clearing, leaked, lost>>

-----------------------------------------------------------------------------

Txs == 1 .. MaxTx
ReceiptIds == 1 .. MaxReceipt

(***************************************************************************)
(* A form.  id and link are those of the record it was opened with (0 when *)
(* it adds one); shown is the stored receipt it shows and pending whether  *)
(* an image was picked.  save and removal say where _save and              *)
(* _removeReceipt are: neither disables the other.  target is the          *)
(* transaction _save has stored, new the receipt it attaches and old the   *)
(* one it replaces; removing is the one _removeReceipt found.              *)
(***************************************************************************)
ClosedForm ==
  [open |-> FALSE, id |-> 0, link |-> 0, loaded |-> FALSE, shown |-> 0, pending |-> FALSE,
   save |-> "idle", target |-> 0, new |-> 0, old |-> 0,
   removal |-> "idle", removing |-> 0]

SaveSteps ==
  {"idle", "stored", "imaged", "written", "replacing", "purged", "undone", "attached"}
RemovalSteps == {"idle", "found", "unlinked"}

NotClearing == [at |-> "idle", listed |-> {}]

Idle == holder = Nobody

\* The form finished what it did.  If the user left it, it is gone.
Settle(f, state) ==
  form' = [form EXCEPT ![f] =
             IF ~ state.open /\ state.save = "idle" /\ state.removal = "idle"
             THEN ClosedForm ELSE state]

ReceiptsInit ==
  /\ status = [t \in Txs |-> "unused"]
  /\ link = [t \in Txs |-> 0]
  /\ row = [t \in Txs |-> 0]
  /\ images = {}
  /\ thumbs = {}
  /\ minted = 0
  /\ holder = Nobody
  /\ form = [f \in Forms |-> ClosedForm]
  /\ clearing = NotClearing
  /\ leaked = {}
  /\ lost = {}

-----------------------------------------------------------------------------
(* The expense form *)

\* An adding form is opened only while an id is left for it.
OpenForm(f, id) ==
  /\ form[f] = ClosedForm
  /\ IF id = 0 THEN \E t \in Txs : status[t] = "unused" ELSE status[id] = "stored"
  /\ form' = [form EXCEPT ![f] = [ClosedForm EXCEPT
                !.open = TRUE, !.id = id, !.link = IF id = 0 THEN 0 ELSE link[id]]]
  /\ UNCHANGED <<store, files, minted, holder, clearing, leaked, lost>>

\* initState: an editing form looks up the stored receipt when it gets to it.
LoadReceipt(f) ==
  /\ Idle
  /\ form[f].open /\ form[f].id # 0 /\ ~ form[f].loaded
  /\ form' = [form EXCEPT ![f].loaded = TRUE, ![f].shown = row[form[f].id]]
  /\ UNCHANGED <<store, files, minted, holder, clearing, leaked, lost>>

\* An image is chosen.
PickImage(f) ==
  /\ form[f].open
  /\ form' = [form EXCEPT ![f].pending = TRUE]
  /\ UNCHANGED <<store, files, minted, holder, clearing, leaked, lost>>

\* The user leaves the form.
Leave(f) ==
  /\ form[f].open
  /\ Settle(f, [form[f] EXCEPT !.open = FALSE])
  /\ UNCHANGED <<store, files, minted, holder, clearing, leaked, lost>>

\* _delete, which a save in progress does not disable: the transaction goes, its
\* receipt row and files stay.
DeleteTransaction(f) ==
  LET id == form[f].id IN
  /\ Idle
  /\ form[f].open /\ id # 0
  /\ status[id] = "stored"
  /\ status' = [status EXCEPT ![id] = "deleted"]
  /\ Settle(f, [form[f] EXCEPT !.open = FALSE])
  /\ UNCHANGED <<link, row, files, minted, holder, clearing, leaked, lost>>

-----------------------------------------------------------------------------
(* _save and attach *)

\* _save ends with an error message, and the form stays open.  One that fails
\* before it stored anything (refused by Ledger, say) changes nothing at all.
SaveFails(f) ==
  Settle(f, [form[f] EXCEPT !.save = "idle", !.target = 0, !.new = 0, !.old = 0])

\* _save ends and pops the form.
SaveSucceeds(f) ==
  Settle(f, [form[f] EXCEPT !.save = "idle", !.target = 0, !.open = FALSE])

\* The create of an adding form.
StoreNew(f, t) ==
  /\ Idle
  /\ form[f].open /\ form[f].save = "idle" /\ form[f].id = 0
  /\ status[t] = "unused"
  /\ \A u \in Txs : u < t => status[u] # "unused"
  /\ status' = [status EXCEPT ![t] = "stored"]
  /\ form' = [form EXCEPT ![f].save = "stored", ![f].target = t]
  /\ UNCHANGED <<link, row, files, minted, holder, clearing, leaked, lost>>

\* The update of an editing form: the link is written back from its record.
StoreEdited(f) ==
  LET id == form[f].id IN
  /\ Idle
  /\ form[f].open /\ form[f].save = "idle" /\ id # 0
  /\ status[id] = "stored"
  /\ link' = [link EXCEPT ![id] = form[f].link]
  /\ form' = [form EXCEPT ![f].save = "stored", ![f].target = id]
  /\ UNCHANGED <<status, row, files, minted, holder, clearing, leaked, lost>>

\* Nothing to attach: the form closes.
SaveWithoutReceipt(f) ==
  /\ form[f].save = "stored"
  /\ ~ form[f].pending
  /\ SaveSucceeds(f)
  /\ UNCHANGED <<store, files, minted, holder, clearing, leaked, lost>>

\* The image cannot be read or decoded, no file can be made for it, or the form is
\* gone and with it the ref that attach is reached by.
AttachRefused(f) ==
  /\ form[f].save = "stored"
  /\ form[f].pending
  /\ SaveFails(f)
  /\ UNCHANGED <<store, files, minted, holder, clearing, leaked, lost>>

\* attach: the full image is written under a new id.
WriteImage(f) ==
  /\ form[f].open
  /\ form[f].save = "stored"
  /\ form[f].pending
  /\ minted < MaxReceipt
  /\ minted' = minted + 1
  /\ images' = images \cup {minted'}
  /\ form' = [form EXCEPT ![f].save = "imaged", ![f].new = minted']
  /\ UNCHANGED <<store, thumbs, holder, clearing, leaked, lost>>

\* Then its thumbnail.
WriteThumbnail(f) ==
  /\ form[f].save = "imaged"
  /\ thumbs' = thumbs \cup {form[f].new}
  /\ form' = [form EXCEPT ![f].save = "written"]
  /\ UNCHANGED <<store, images, minted, holder, clearing, leaked, lost>>

\* Either write fails.  attach has not come to its try, so that what was written
\* so far stays.
WriteFails(f) ==
  /\ form[f].save = "imaged"
  /\ thumbs' \in {thumbs, thumbs \cup {form[f].new}}
  /\ leaked' = leaked \cup {form[f].new}
  /\ SaveFails(f)
  /\ UNCHANGED <<store, images, minted, holder, clearing, lost>>

\* The transaction begins and finds the row it will replace.
BeginAttach(f) ==
  /\ Idle
  /\ form[f].save = "written"
  /\ holder' = f
  /\ form' = [form EXCEPT ![f].save = "replacing", ![f].old = row[form[f].target]]
  /\ UNCHANGED <<store, files, minted, clearing, leaked, lost>>

\* Still inside the transaction: the replaced files are deleted.
PurgeReplaced(f) ==
  /\ form[f].save = "replacing"
  /\ images' = images \ {form[f].old}
  /\ thumbs' = thumbs \ {form[f].old}
  /\ form' = [form EXCEPT ![f].save = "purged"]
  /\ UNCHANGED <<store, minted, holder, clearing, leaked, lost>>

\* The new row and the link to it become durable.
CommitAttach(f) ==
  LET t == form[f].target IN
  /\ form[f].save = "purged"
  /\ row' = [row EXCEPT ![t] = form[f].new]
  /\ link' = IF status[t] = "stored" THEN [link EXCEPT ![t] = form[f].new] ELSE link
  /\ holder' = Nobody
  /\ form' = [form EXCEPT ![f].save = "attached", ![f].new = 0, ![f].old = 0]
  /\ UNCHANGED <<status, files, minted, clearing, leaked, lost>>

\* The image goes, but its thumbnail cannot be deleted: the transaction is undone.
PurgeFails(f) ==
  /\ form[f].save = "replacing"
  /\ images' = images \ {form[f].old}
  /\ lost' = lost \cup ({form[f].old} \ {0})
  /\ holder' = Nobody
  /\ form' = [form EXCEPT ![f].save = "undone"]
  /\ UNCHANGED <<store, thumbs, minted, clearing, leaked>>

\* Mutant: a failed transaction leaves the new files behind.
AttachFailsKeeping(f) ==
  /\ form[f].save \in {"replacing", "purged"}
  /\ holder' = Nobody
  /\ lost' = IF form[f].save = "purged" THEN lost \cup ({form[f].old} \ {0}) ELSE lost
  /\ SaveFails(f)
  /\ UNCHANGED <<store, files, minted, clearing, leaked>>

\* The transaction fails and is undone.
AttachFails(f) ==
  /\ form[f].save \in {"replacing", "purged"}
  /\ holder' = Nobody
  /\ lost' = IF form[f].save = "purged" THEN lost \cup ({form[f].old} \ {0}) ELSE lost
  /\ form' = [form EXCEPT ![f].save = "undone"]
  /\ UNCHANGED <<store, files, minted, clearing, leaked>>

\* Then the new files are deleted again.
DiscardNew(f) ==
  /\ form[f].save = "undone"
  /\ images' = images \ {form[f].new}
  /\ thumbs' = thumbs \ {form[f].new}
  /\ SaveFails(f)
  /\ UNCHANGED <<store, minted, holder, clearing, leaked, lost>>

\* One of them cannot be deleted.
DiscardFails(f) ==
  /\ form[f].save = "undone"
  /\ images' \in {images, images \ {form[f].new}}
  /\ leaked' = leaked \cup {form[f].new}
  /\ SaveFails(f)
  /\ UNCHANGED <<store, thumbs, minted, holder, clearing, lost>>

\* Mutant: attach waits for its row instead.
ConfirmWhenStored(f) ==
  /\ Idle
  /\ form[f].save = "attached"
  /\ row[form[f].target] # 0
  /\ SaveSucceeds(f)
  /\ UNCHANGED <<store, files, minted, holder, clearing, leaked, lost>>

\* attach reads the row it stored back, and throws if it is not there.
ConfirmAttach(f) ==
  /\ Idle
  /\ form[f].save = "attached"
  /\ IF row[form[f].target] = 0
     THEN SaveFails(f)
     ELSE SaveSucceeds(f)
  /\ UNCHANGED <<store, files, minted, holder, clearing, leaked, lost>>

-----------------------------------------------------------------------------
(* _removeReceipt and removeForTransaction *)

\* The form forgets the receipt it shows and the image that was picked.
ForgetReceipt(f) ==
  Settle(f, [form[f] EXCEPT !.removal = "idle", !.removing = 0,
                            !.pending = FALSE, !.shown = 0])

\* Nothing is stored: only the picked image is dropped.
DropPicked(f) ==
  /\ form[f].open /\ form[f].removal = "idle"
  /\ form[f].shown = 0 /\ form[f].pending
  /\ ForgetReceipt(f)
  /\ UNCHANGED <<store, files, minted, holder, clearing, leaked, lost>>

\* The stored row is looked up.
BeginRemove(f) ==
  LET found == row[form[f].id] IN
  /\ Idle
  /\ form[f].open /\ form[f].removal = "idle"
  /\ form[f].shown # 0
  /\ IF found = 0 THEN ForgetReceipt(f)
                  ELSE form' = [form EXCEPT ![f].removal = "found", ![f].removing = found]
  /\ UNCHANGED <<store, files, minted, holder, clearing, leaked, lost>>

\* Mutant: only the link is cleared.
UnlinkOnly(f) ==
  LET t == form[f].id IN
  /\ Idle
  /\ form[f].removal = "found"
  /\ link' = IF status[t] = "stored" THEN [link EXCEPT ![t] = 0] ELSE link
  /\ form' = [form EXCEPT ![f].removal = "unlinked"]
  /\ UNCHANGED <<status, row, files, minted, holder, clearing, leaked, lost>>

\* The link is cleared, and the row deleted if it is still the one found.
Unlink(f) ==
  LET t == form[f].id IN
  /\ Idle
  /\ form[f].removal = "found"
  /\ link' = IF status[t] = "stored" THEN [link EXCEPT ![t] = 0] ELSE link
  /\ row' = IF row[t] = form[f].removing THEN [row EXCEPT ![t] = 0] ELSE row
  /\ form' = [form EXCEPT ![f].removal = "unlinked"]
  /\ UNCHANGED <<status, files, minted, holder, clearing, leaked, lost>>

\* The database refuses: nothing is removed and the form still shows the receipt.
UnlinkFails(f) ==
  /\ form[f].removal = "found"
  /\ Settle(f, [form[f] EXCEPT !.removal = "idle", !.removing = 0])
  /\ UNCHANGED <<store, files, minted, holder, clearing, leaked, lost>>

\* The files of the row that was found are deleted.
RemoveFiles(f) ==
  /\ form[f].removal = "unlinked"
  /\ images' = images \ {form[f].removing}
  /\ thumbs' = thumbs \ {form[f].removing}
  /\ ForgetReceipt(f)
  /\ UNCHANGED <<store, minted, holder, clearing, leaked, lost>>

\* One of them cannot be deleted, and the form still shows the receipt.
RemoveFilesFails(f) ==
  /\ form[f].removal = "unlinked"
  /\ images' \in {images, images \ {form[f].removing}}
  /\ leaked' = leaked \cup {form[f].removing}
  /\ Settle(f, [form[f] EXCEPT !.removal = "idle", !.removing = 0])
  /\ UNCHANGED <<store, thumbs, minted, holder, clearing, lost>>

-----------------------------------------------------------------------------
(* clearAll *)

RowsStored == {row[t] : t \in Txs} \ {0}

\* The rows whose files will be deleted are read.
ListReceipts ==
  /\ Idle
  /\ clearing.at = "idle"
  /\ RowsStored # {}
  /\ clearing' = [at |-> "listed", listed |-> RowsStored]
  /\ UNCHANGED <<store, files, minted, holder, form, leaked, lost>>

\* Every link is cleared and every row deleted, those not listed as well.
ClearRows ==
  /\ Idle
  /\ clearing.at = "listed"
  /\ link' = [t \in Txs |-> IF status[t] = "stored" THEN 0 ELSE link[t]]
  /\ row' = [t \in Txs |-> 0]
  /\ leaked' = leaked \cup (RowsStored \ clearing.listed)
  /\ clearing' = [clearing EXCEPT !.at = "cleared"]
  /\ UNCHANGED <<status, files, minted, holder, form, lost>>

\* The database refuses, and nothing is cleared.
ClearRowsFails ==
  /\ clearing.at = "listed"
  /\ clearing' = NotClearing
  /\ UNCHANGED <<store, files, minted, holder, form, leaked, lost>>

\* The files of the listed rows are deleted, one row after another.
ClearFiles(r) ==
  /\ clearing.at = "cleared"
  /\ r \in clearing.listed
  /\ images' = images \ {r}
  /\ thumbs' = thumbs \ {r}
  /\ clearing' = IF clearing.listed = {r} THEN NotClearing
                 ELSE [clearing EXCEPT !.listed = @ \ {r}]
  /\ UNCHANGED <<store, minted, holder, form, leaked, lost>>

\* One of them cannot be deleted: the loop ends, and those still to come stay.
ClearFilesFails(r) ==
  /\ clearing.at = "cleared"
  /\ r \in clearing.listed
  /\ images' \in {images, images \ {r}}
  /\ leaked' = leaked \cup clearing.listed
  /\ clearing' = NotClearing
  /\ UNCHANGED <<store, thumbs, minted, holder, form, lost>>

-----------------------------------------------------------------------------

\* Receipts whose files some operation will still delete or give a row.
InHand ==
  {form[f].new : f \in {g \in Forms :
      form[g].save \in {"imaged", "written", "replacing", "purged", "undone"}}}
    \cup {form[f].removing : f \in {g \in Forms : form[g].removal = "unlinked"}}
    \cup {r \in clearing.listed : clearing.at = "cleared"}

\* The process ends: the open transaction is undone, files stay as they are.
Crash ==
  /\ Crashes
  /\ leaked' = leaked \cup (((images \cup thumbs) \cap InHand) \ RowsStored)
  /\ lost' = lost \cup ({form[f].old : f \in {g \in Forms : form[g].save = "purged"}} \ {0})
  /\ holder' = Nobody
  /\ form' = [f \in Forms |-> ClosedForm]
  /\ clearing' = NotClearing
  /\ UNCHANGED <<store, files, minted>>

\* What a save does by itself once the user has asked for it, and a removal.
SaveProceeds(f) ==
  \/ SaveWithoutReceipt(f) \/ AttachRefused(f)
  \/ WriteImage(f) \/ WriteThumbnail(f) \/ WriteFails(f)
  \/ BeginAttach(f) \/ PurgeReplaced(f) \/ PurgeFails(f) \/ CommitAttach(f) \/ AttachFails(f)
  \/ DiscardNew(f) \/ DiscardFails(f)
  \/ ConfirmAttach(f)

RemovalProceeds(f) ==
  Unlink(f) \/ UnlinkFails(f) \/ RemoveFiles(f) \/ RemoveFilesFails(f)

\* What the user asks of a form.
Ask(f) ==
  \/ \E id \in Txs \cup {0} : OpenForm(f, id)
  \/ LoadReceipt(f) \/ PickImage(f) \/ Leave(f) \/ DeleteTransaction(f)
  \/ \E t \in Txs : StoreNew(f, t)
  \/ StoreEdited(f)
  \/ DropPicked(f) \/ BeginRemove(f)

ClearProceeds ==
  ClearRows \/ ClearRowsFails \/ \E r \in ReceiptIds : ClearFiles(r) \/ ClearFilesFails(r)

ReceiptsNext ==
  \/ \E f \in Forms : Ask(f) \/ SaveProceeds(f) \/ RemovalProceeds(f)
  \/ ListReceipts \/ ClearProceeds
  \/ Crash

\* Pending futures are completed: the event loop leaves none behind, and Drift
\* serves those that wait for the database in turn.
ReceiptsFairness ==
  \A f \in Forms : SF_vars(SaveProceeds(f)) /\ SF_vars(RemovalProceeds(f))

ReceiptsSpec == ReceiptsInit /\ [][ReceiptsNext]_vars /\ ReceiptsFairness

-----------------------------------------------------------------------------

\* Type correctness of the receipts and of the operations in progress, and who
\* holds the database.
ReceiptsTypeOK ==
  /\ status \in [Txs -> {"unused", "stored", "deleted"}]
  /\ link \in [Txs -> ReceiptIds \cup {0}]
  /\ row \in [Txs -> ReceiptIds \cup {0}]
  /\ images \subseteq ReceiptIds
  /\ thumbs \subseteq ReceiptIds
  /\ minted \in 0 .. MaxReceipt
  /\ holder \in Forms \cup {Nobody}
  /\ \A f \in Forms : form[f].save \in {"replacing", "purged"} <=> holder = f
  /\ form \in [Forms ->
       [open : BOOLEAN, id : Txs \cup {0}, link : ReceiptIds \cup {0}, loaded : BOOLEAN,
        shown : ReceiptIds \cup {0}, pending : BOOLEAN, save : SaveSteps,
        target : Txs \cup {0}, new : ReceiptIds \cup {0}, old : ReceiptIds \cup {0},
        removal : RemovalSteps, removing : ReceiptIds \cup {0}]]
  /\ clearing \in [at : {"idle", "listed", "cleared"}, listed : SUBSET ReceiptIds]
  /\ leaked \subseteq ReceiptIds
  /\ lost \subseteq ReceiptIds

\* The replacement whose transaction is open may have deleted this file.
BeingReplaced(r) == \E f \in Forms : form[f].save = "purged" /\ form[f].old = r

\* A receipt that has a row can be shown: no other form, removal, clearing or
\* failure deletes its image, however they interleave; only a replacement that
\* deletes the old image and then does not commit does.
StoredReceiptHasFile ==
  \A t \in Txs : row[t] # 0 => row[t] \in images \cup lost \/ BeingReplaced(row[t])

\* "This permanently removes all saved receipt images": no image and no thumbnail
\* is left behind without a row to find it by or an operation that has it in hand,
\* but for those of a receipt whose write or whose deletion failed half way, which
\* a crash cut short, or which was attached after a clearing had made its list.
NoFileForgotten == images \cup thumbs \subseteq RowsStored \cup InHand \cup leaked

\* Every save comes to an end: it closes the form or says that it failed, and
\* it hands the database on.
SavesEnd == \A f \in Forms : form[f].save # "idle" ~> form[f].save = "idle"

=============================================================================
