----------------------------- MODULE CsvTransfer -----------------------------
(***************************************************************************)
(* CSV export, preview and import                                          *)
(* (src/mobile/lib/features/data_tools/data_export_service.dart, driven by *)
(* src/mobile/lib/features/settings/data_tools_screen.dart) beside the     *)
(* screens of Ledger.                                                      *)
(*                                                                         *)
(* An import is one Drift transaction that creates the previewed rows one  *)
(* after another, each with the check of a create: the transaction is open *)
(* over several steps, and no other operation runs on the database while   *)
(* it is.  A row that is refused, any other failure and a crash roll it    *)
(* back.  The file lies outside the app: it may be edited, and it may be   *)
(* imported after the rows it lists were edited or deleted.                *)
(***************************************************************************)
EXTENDS Ledger, FiniteSetsExt

VARIABLES
  file,    \* the lines of the CSV file the user keeps
  offer,   \* the lines the preview dialog shows as importable
  import,  \* the open transaction of importCsv
  notice,  \* what the user was last told of an import
  origin   \* the file id an imported row was read from; its own id otherwise

csvVars == <<vars, file, offer, import, notice, origin>>

-----------------------------------------------------------------------------

Line == [id : Ids, type : Types, amount : Int]

\* The transaction: the lines it imports, those still to create, and what the
\* database returns to if it does not commit.
NoImport == [open |-> FALSE, left |-> {}]
Import == [open : {TRUE}, lines : SUBSET Line, left : SUBSET Line,
           table : [Ids -> Row \cup {Absent}], minted : 0 .. N]

CsvInit ==
  /\ Init
  /\ file = {}
  /\ offer = {}
  /\ import = NoImport
  /\ notice = "none"
  /\ origin = [i \in Ids |-> i]

\* An operation of a screen: it waits while a transaction is open.
ScreenStep ==
  /\ ~ import.open
  /\ Next
  /\ UNCHANGED <<file, offer, import, notice, origin>>

\* The data tools screen shows no dialog and waits for nothing.
ToolsFree == ~ import.open /\ offer = {}

\* exportCsv: the profile's rows, in place of what the file held.
ExportCsv ==
  /\ ToolsFree
  /\ file' = {[id |-> i, type |-> table[i].type, amount |-> table[i].amount] :
                i \in {j \in Ids : Found(j, profile)}}
  /\ UNCHANGED <<vars, offer, import, notice, origin>>

\* The user changes an amount in the file.
EditFile(line, amount) ==
  /\ file' = (file \ {line}) \cup {[line EXCEPT !.amount = amount]}
  /\ UNCHANGED <<vars, offer, import, notice, origin>>

\* Mutant: nothing counts as a duplicate.
PreviewEveryLine ==
  /\ ToolsFree
  /\ offer' = {line \in file : line.amount > 0}
  /\ offer' # {}
  /\ UNCHANGED <<vars, file, import, notice, origin>>

\* previewCsv: lines whose id the profile stores are duplicates, lines without
\* a positive amount are invalid, and the rest is offered.
PreviewCsv ==
  /\ ToolsFree
  /\ offer' = {line \in file : ~ Found(line.id, profile) /\ line.amount > 0}
  /\ offer' # {}
  /\ UNCHANGED <<vars, file, import, notice, origin>>

\* The dialog is dismissed.
DeclineImport ==
  /\ offer # {}
  /\ offer' = {}
  /\ UNCHANGED <<vars, file, import, notice, origin>>

\* importCsv: the transaction begins, if there are ids left for its rows.
BeginImport ==
  /\ ~ import.open
  /\ offer # {}
  /\ minted + Cardinality(offer) <= N
  /\ import' = [open |-> TRUE, lines |-> offer, left |-> offer,
                table |-> table, minted |-> minted]
  /\ offer' = {}
  /\ notice' = "none"
  /\ UNCHANGED <<vars, file, origin>>

\* Mutant: each create commits by itself.
RollbackNothing ==
  /\ import' = NoImport
  /\ UNCHANGED <<table, minted, origin>>

\* The transaction is undone.  Its ids were seen by nobody.
Rollback ==
  /\ table' = import.table
  /\ minted' = import.minted
  /\ origin' = [i \in Ids |-> IF i <= import.minted THEN origin[i] ELSE i]
  /\ import' = NoImport

\* Mutant: the lines are created as the file has them.
LinesInFileOrder == import.left

\* The order importCsv sorts the lines into: no expense before an income.
NextLines == {line \in import.left :
                line.type = "income" \/ \A other \in import.left : other.type = "expense"}

\* Mutant: the rows are inserted past the repository's check.
InsertLine(line) ==
  /\ import.open
  /\ line \in NextLines
  /\ table' = [table EXCEPT ![minted + 1] =
                 [type |-> line.type, amount |-> line.amount, profile |-> profile]]
  /\ minted' = minted + 1
  /\ origin' = [origin EXCEPT ![minted + 1] = line.id]
  /\ import' = [import EXCEPT !.left = @ \ {line}]
  /\ last' = NoRequest
  /\ UNCHANGED <<profile, screen, file, offer, notice>>

\* One create of the import: it takes a fresh id, not the line's.
ImportLine(line) ==
  LET id  == minted + 1
      row == [type |-> line.type, amount |-> line.amount, profile |-> profile]
  IN
  /\ import.open
  /\ line \in NextLines
  /\ \/ /\ ProposedBalanceHolds(table, profile, row.type, row.amount)
        /\ table' = [table EXCEPT ![id] = row]
        /\ minted' = id
        /\ origin' = [origin EXCEPT ![id] = line.id]
        /\ import' = [import EXCEPT !.left = @ \ {line}]
        /\ UNCHANGED notice
     \/ /\ ~ ProposedBalanceHolds(table, profile, row.type, row.amount)
        /\ Rollback
        /\ notice' = "refused"
  /\ last' = NoRequest
  /\ UNCHANGED <<profile, screen, file, offer>>

\* Mutant: what the transaction would have undone is kept.
CommitKeepingUndo ==
  /\ import.open
  /\ import.left = {}
  /\ import' = [import EXCEPT !.open = FALSE]
  /\ notice' = "imported"
  /\ UNCHANGED <<vars, file, offer, origin>>

\* Every line was created: the transaction commits.
CommitImport ==
  /\ import.open
  /\ import.left = {}
  /\ import' = NoImport
  /\ notice' = "imported"
  /\ UNCHANGED <<vars, file, offer, origin>>

\* A statement fails for a reason of its own: _working tells the user.
FailImport ==
  /\ import.open
  /\ Rollback
  /\ notice' = "failed"
  /\ UNCHANGED <<profile, screen, last, file, offer>>

\* The process ends; on the next start SQLite undoes what was not committed.
Crash ==
  /\ IF import.open THEN Rollback ELSE UNCHANGED <<table, minted, origin, import>>
  /\ screen' = [s \in Screens |-> Closed]
  /\ offer' = {}
  /\ notice' = "none"
  /\ last' = NoRequest
  /\ UNCHANGED <<profile, file>>

CsvNext ==
  \/ ScreenStep
  \/ ExportCsv
  \/ \E line \in file, amount \in Amounts : EditFile(line, amount)
  \/ PreviewCsv \/ DeclineImport \/ BeginImport
  \/ \E line \in NextLines : ImportLine(line)
  \/ CommitImport \/ FailImport \/ Crash

CsvSpec == CsvInit /\ [][CsvNext]_csvVars

-----------------------------------------------------------------------------

\* Type correctness of the file, the preview and the transaction.
CsvTypeOK ==
  /\ TypeOK
  /\ file \subseteq Line
  /\ offer \subseteq Line
  /\ import \in Import \cup {NoImport}
  /\ notice \in {"none", "imported", "refused", "failed"}
  /\ origin \in [Ids -> Ids]

Amount(lines, type) ==
  MapThenSumSet(LAMBDA line : line.amount, {line \in lines : line.type = type})

\* The lines together cost more than the profile has and they bring.
Unaffordable(lines) ==
  Sum(table, "expense", profile) + Amount(lines, "expense")
    > Sum(table, "income", profile) + Amount(lines, "income")

\* Whether an import is refused depends on what it adds up to, not on the order
\* of the lines in the file: it is refused only if, as a whole, it would
\* overdraw the profile.
RefusedOnlyAsAWhole ==
  [][notice' = "refused" /\ import.open => Unaffordable(import.left)]_csvVars

\* An import stores no copy beside the row its line was exported from, however
\* long the preview was open and whatever happened meanwhile.  No more than that
\* is handled of duplicates: the row a line was stored as has an id of its own,
\* so a line without a stored row of its id is stored by every import again.
NoCopyBesideOriginal ==
  \A i \in Ids : table[i] # Absent /\ origin[i] # i => table[origin[i]] = Absent

\* What is durable: the database as it is if the process ended now.
Durable == IF import.open THEN import.table ELSE table

Promise == INSTANCE Books WITH
  Places <- Ids,
  Nothing <- Absent,
  Solvent <- LAMBDA r : \A p \in Profiles : ~ Overdrawn(r, p),
  books <- Durable,
  offer <- IF import.open THEN import.lines ELSE offer

\* "A rejected operation cannot partially modify the financial state": what is
\* durable changes by whole operations only, an import being one.
WholeImportsOnly == Promise!BooksSpec

=============================================================================
