---------------------------- MODULE BackupRestore ----------------------------
(***************************************************************************)
(* Backup, restore and reset beside the screens of Ledger                  *)
(* (src/mobile/lib/features/data_tools/data_export_service.dart,            *)
(* src/mobile/lib/features/settings/settings_screen.dart).                 *)
(*                                                                         *)
(* The tables of the database other than the transactions are one value,   *)
(* others, that any other feature may change.  A backup is the database    *)
(* file: every row of every profile, and not the preferences, which hold   *)
(* the profile whose rows are shown.  A restore replaces table after table *)
(* in one transaction.  A reset empties the tables in one transaction and  *)
(* then, in a step of its own, clears the preferences; the next start from *)
(* clear preferences makes up a new profile.                               *)
(***************************************************************************)
EXTENDS Ledger

CONSTANT MaxChanges  \* bound: how often the other tables change

ASSUME BackupAssumption == MaxChanges \in Nat

VARIABLES
  others,    \* what the other tables hold: the number of their last change
  backup,    \* the backup file the user keeps, and the profile shown then
  restore,   \* the open transaction of restoreDecrypted
  resetting  \* the tables were emptied and the preferences were not

backupVars == <<vars, others, backup, restore, resetting>>

-----------------------------------------------------------------------------

Contents == [table : [Ids -> Row \cup {Absent}], others : 0 .. MaxChanges]

Current == [table |-> table, others |-> others]

NoBackup == [made |-> FALSE]
Backup == [made : {TRUE}, contents : Contents, profile : Profiles]

\* The transaction: the tables still to replace, and what the database returns
\* to if it does not commit.
NoRestore == [open |-> FALSE]
Restore == [open : {TRUE}, left : SUBSET {"transactions", "others"}, before : Contents]

BackupInit ==
  /\ Init
  /\ others = 0
  /\ backup = NoBackup
  /\ restore = NoRestore
  /\ resetting = FALSE

\* An operation of a screen: it waits while a transaction is open.
LedgerStep ==
  /\ ~ restore.open
  /\ Next
  /\ UNCHANGED <<others, backup, restore, resetting>>

\* Another feature changes a table of its own.
ChangeOthers ==
  /\ ~ restore.open
  /\ others < MaxChanges
  /\ others' = others + 1
  /\ UNCHANGED <<vars, backup, restore, resetting>>

\* encryptedBackup: the write-ahead log is folded into the file, which is read.
MakeBackup ==
  /\ ~ restore.open
  /\ backup' = [made |-> TRUE, contents |-> Current, profile |-> profile]
  /\ UNCHANGED <<vars, others, restore, resetting>>

\* restoreDecrypted, once the password opened the file and quick_check passed.
BeginRestore ==
  /\ ~ restore.open
  /\ ~ resetting
  /\ backup.made
  /\ restore' = [open |-> TRUE, left |-> {"transactions", "others"}, before |-> Current]
  /\ UNCHANGED <<vars, others, backup, resetting>>

\* Mutant: the backup's rows are inserted beside the table's own.
MergeTable(name) ==
  /\ restore.open
  /\ name \in restore.left
  /\ restore' = [restore EXCEPT !.left = @ \ {name}]
  /\ IF name = "transactions"
     THEN /\ table' = [i \in Ids |-> IF table[i] = Absent THEN backup.contents.table[i]
                                                           ELSE table[i]]
          /\ UNCHANGED others
     ELSE others' = backup.contents.others /\ UNCHANGED table
  /\ last' = NoRequest
  /\ UNCHANGED <<minted, profile, screen, backup, resetting>>

\* DELETE FROM and INSERT INTO one table.  No screen is open on a row: the data
\* tools screen was reached from the settings.
RestoreTable(name) ==
  /\ restore.open
  /\ name \in restore.left
  /\ restore' = [restore EXCEPT !.left = @ \ {name}]
  /\ IF name = "transactions"
     THEN table' = backup.contents.table /\ UNCHANGED others
     ELSE others' = backup.contents.others /\ UNCHANGED table
  /\ last' = NoRequest
  /\ UNCHANGED <<minted, profile, screen, backup, resetting>>

CommitRestore ==
  /\ restore.open
  /\ restore.left = {}
  /\ restore' = NoRestore
  /\ UNCHANGED <<vars, others, backup, resetting>>

\* Mutant: only the transactions are replaced inside a transaction.
UndoRestoreRows ==
  /\ table' = restore.before.table
  /\ UNCHANGED others
  /\ restore' = NoRestore

\* The transaction is undone.
UndoRestore ==
  /\ table' = restore.before.table
  /\ others' = restore.before.others
  /\ restore' = NoRestore

\* A statement fails: the backup's table has other columns, say.
FailRestore ==
  /\ restore.open
  /\ UndoRestore
  /\ UNCHANGED <<minted, profile, screen, last, backup, resetting>>

\* clearAllFinancialData.
ClearTables ==
  /\ ~ restore.open
  /\ ~ resetting
  /\ table' = [i \in Ids |-> Absent]
  /\ others' = 0
  /\ resetting' = TRUE
  /\ last' = NoRequest
  /\ UNCHANGED <<minted, profile, screen, backup, restore>>

\* resetPreferences: the profile id goes and the provider makes up another, one
\* that no row has; the first onboarding screen replaces every other.
ResetPreferences ==
  /\ resetting
  /\ profile' \in {p \in Profiles :
       /\ p # profile
       /\ \A i \in Ids : table[i] # Absent => table[i].profile # p
       /\ backup.made => \A i \in Ids :
            backup.contents.table[i] # Absent => backup.contents.table[i].profile # p}
  /\ screen' = [s \in Screens |-> Closed]
  /\ resetting' = FALSE
  /\ last' = NoRequest
  /\ UNCHANGED <<table, minted, others, backup, restore>>

\* The process ends; on the next start SQLite undoes what was not committed, and
\* nothing resumes a reset.
EndProcess ==
  /\ IF restore.open THEN UndoRestore ELSE UNCHANGED <<table, others, restore>>
  /\ screen' = [s \in Screens |-> Closed]
  /\ resetting' = FALSE
  /\ last' = NoRequest
  /\ UNCHANGED <<minted, profile, backup>>

BackupNext ==
  \/ LedgerStep \/ ChangeOthers \/ MakeBackup
  \/ BeginRestore \/ CommitRestore \/ FailRestore
  \/ \E name \in {"transactions", "others"} : RestoreTable(name)
  \/ ClearTables \/ ResetPreferences \/ EndProcess

BackupSpec == BackupInit /\ [][BackupNext]_backupVars

-----------------------------------------------------------------------------

\* Type correctness of the backup and of the two long operations.
BackupTypeOK ==
  /\ TypeOK
  /\ others \in 0 .. MaxChanges
  /\ backup \in Backup \cup {NoBackup}
  /\ restore \in Restore \cup {NoRestore}
  /\ resetting \in BOOLEAN

\* A restore ends.
Ended == restore.open /\ ~ restore'.open

\* "Restoring replaces all current local financial data.  If validation fails,
\* your existing data will remain unchanged": when a restore is over, however
\* it ended, every table is as in the backup or every table is as it was.
RestoresAllOrNothing ==
  [][Ended => Current' \in {restore.before, backup.contents}]_backupVars

=============================================================================
