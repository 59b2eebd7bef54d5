# A verification of DinarWise

DinarWise is a personal finance app: a Flutter client that keeps everything in
one SQLite database on the device (through Drift), with native Android code for
speech, SMS and widgets. This directory holds TLA+ specifications translated
from its source, the TLC configurations that check them on small instances, and
proofs that TLAPS checks for every instance. Paths below are relative to
`src/mobile/lib/` unless they start with `src/`.

## The system

| Component | State it keeps | Operations | Calls |
|---|---|---|---|
| Transactions (`features/expenses`) | table `financial_transactions` | create, update, delete, duplicate, search, summary | called by the expense form, the history, the income dialog and the CSV import |
| CSV tools (`features/data_tools`, `features/settings/data_tools_screen.dart`) | a file outside the app; an open import | export, preview, import | one create per line, in one transaction |
| Backup, restore, reset (same, `settings_screen.dart`) | an encrypted copy of the database file; the profile id in the preferences | back up, restore, clear tables, clear preferences | every table of the database |
| Receipts (`features/receipts`, `features/capture`) | table `receipt_attachments`, the link in the transaction's row, image files | attach, remove, clear all | the form saves the transaction first and attaches afterwards |
| Recurring payments (`features/planning/data/commitments_repository.dart`) | rules, their occurrences, payment history | save, stop, reconcile, pay, edit one | reconciled by the list of rules and on every resume; safe-to-spend and reminders read them |
| BNPL plans (same) | plans, instalments, payment history | save, mark an instalment | safe-to-spend and reminders read them |
| Budgets and goals (`advanced_planning_repository.dart`) | budgets, goals with a stored sum, contributions | save, contribute, delete | read the transactions |
| Categories, payment methods | names, defaults | create, rename, delete, reassign | rows of transactions, budgets and rules refer to them |
| SMS detection (`features/sms_detection`) | hashes of handled messages: the app's cached preferences and the device's copy | check, mark, notify, switch on and off | called by the native receiver of messages; calls the notifications |
| Voice expense (`features/voice_expense`; `VoiceExpenseBridge.kt`, `VoiceRecorder.kt`, `WhisperBridge.kt`, `jni.c`) | the sheet's coordinator; the native recorder and its threads; the loaded model and the queue of transcriptions | start, stop, transcribe, cancel, reset, close | a method channel between Dart and the native main thread; the speech engine |
| Speech engine (whisper.cpp and ggml under `src/mobile/android/app/src/main/cpp`) | the model, and for each graph a pool of threads | compute a graph | called by the transcription worker through `jni.c` |
| App lock | locked flag, time of backgrounding, PIN hash | lock, unlock, change options | lifecycle callbacks |
| Widgets, quick actions, shared receipts | one queued action on either side of a method channel | enqueue, consume | onboarding state, router |
| Notifications | scheduled reminders | cancel all, schedule | occurrences and instalments |
| Onboarding, routing | preferences | language, privacy, currency, reset | decides where the app starts |

What is hard about it: Dart runs one event loop, so code interleaves only where
it awaits, but it awaits everywhere. Drift runs the transactions of a
connection one after another, so what is inside `transaction(...)` is atomic for
the database and nothing else is: screens hold copies of rows, files and
preferences are written beside the database, and the process may end at any
await. Below Dart there are real threads: the native main thread, a recorder
thread for each recording, one transcription worker, and the threads of the
speech engine. `PROJECT.json` lists these hazards line by line.

## Modules

| Module | What it is |
|---|---|
| `RunningTotals` | the sum of a sequence as a recursive function, as `_summaryForRows` accumulates it |
| `Ledger` | the transaction table, `DriftExpenseRepository`, and screens with copies of rows |
| `CsvTransfer` | extends `Ledger`: export, preview, import, failure, crash |
| `Books` | abstract: what a user is promised about a set of rows, and about an offer of rows |
| `BackupRestore` | extends `Ledger`: backup, restore table by table, the two steps of a reset, crash |
| `Receipts` | receipts, their files, the expense form and the clearing of all receipts |
| `Recurring` | rules, occurrences, reconciliations that are no transaction, the calls of the details sheet |
| `Instalments` | BNPL plans, their instalments and payments, and the reminders that overlapping reschedules cancel and schedule |
| `QuickWidget` | taps on the home-screen widget: the activity, the channel and its buffer, the queue of one, the screens |
| `VoiceExpense` | the voice sheet, its coordinator, the channel, the recorder's threads and the transcription worker |
| `PaymentMessages` | overlapping calls of the SMS detection, the preferences' cache and what the device has stored |
| `ComputePool` | the threads that compute a graph for the speech engine: polling, sleeping, barrier, chunks, abort, freeing |
| `NodeByNode` | abstract: the parts of a graph's nodes are computed in the order of the nodes, each once |
| `RunningTotalTheorems`, `LedgerProofs` | lemmas about sums; the theorems about `Ledger`, `CsvTransfer` and `BackupRestore` |
| `RecurringProofs`, `InstalmentProofs`, `ReceiptProofs`, `MessageProofs`, `ComputePoolProofs` | the theorems about `Recurring`, `Instalments`, `Receipts`, `PaymentMessages` and `ComputePool` |
| `ChannelProofs` | lemmas about queues of messages; the theorems about `VoiceExpense` and `QuickWidget` |
| `MC...` | small instances for TLC |

Definitions whose comment starts with "Mutant:" are deliberately wrong versions
of the definition after them. They are part of no specification; they document
which mistake each property would catch.

### Ledger

`table` maps an id to its row or to `Absent`; ids are random UUIDs in the code
and are handed out in order here (`minted`), since all that matters is that they
are not reused. `screen[s]` is the `ExpenseRecord` a screen was opened with. A
repository operation is one step: its body is one Drift transaction. What
interleaves is every other screen, and the copies are what make it interesting:
`Update` and `Delete` act on ids that may be gone and `Duplicate` creates from a
row that may have changed. `ProposedBalanceHolds` is `_validateProposedBalance`
over the rows as stored, with the arithmetic of a 64-bit word (`Wrap`). An
edit dialog that is dismissed is `Leave`. `last` records the request and its
outcome, which the code reports by an exception.

Left out: text, category, date and payment method of a row; the queries, which
only decide what screens can be opened on (`Open`).

### CsvTransfer and Books

`importCsv` is one transaction with a create per line, so it is several steps:
`BeginImport`, `ImportLine` (incomes before expenses, as the code sorts them;
the order within a type is the sort's and left open), then `CommitImport`,
`FailImport`, or the refusal of a line. While it is open no other operation
runs on the database, but the process may end. The preview's lines stay as they
were when the dialog opened. The file is outside the app, so `EditFile` can
change it at any time; it can also be imported long after it was exported.

`Books` knows nothing of transactions in progress. Its steps change one row,
take a whole offer, or change the offer. `WholeImportsOnly` says that
`CsvTransfer` implements it: the books are what would survive a crash now, and
the offer is what is previewed or being imported.

### BackupRestore

The other tables are one number, `others`, so that a restore that mixes tables
of two times is visible. `restoreDecrypted` replaces the tables in whatever order
`sqlite_master` lists them. A reset is `ClearTables` and then
`ResetPreferences`, which makes the next start invent a profile nobody has.
Encryption and the envelope are left out: a wrong password or a damaged file is
a restore that does not begin.

### Receipts

The one component whose operations are not transactions. `attach` writes the
files, opens a transaction, deletes the replaced row's files inside it, commits
and reads its row back; `removeForTransaction` looks a row up, deletes it in a
transaction and then deletes its files; `clearAll` lists rows, deletes all rows
in a transaction and then deletes the files of the listed ones. Each await is a
step of its own. `holder` is the form whose transaction is open: everything that
needs the database waits for it. A transaction's writes appear when it commits.
Of a save, `_save` is modelled from the store to the message; whether the ledger
accepts the row is `Ledger`'s business, and a refusal changes nothing here.
A form that is left (`Leave`) finishes an attach it has begun, but cannot begin
one: its `ref` is gone.

The image is written before its thumbnail, both before the `try` of `attach`
(`WriteImage`, `WriteThumbnail`), so that a write that fails leaves what was written
(`WriteFails`). Deletions fail as well: of a replaced receipt, which undoes the
transaction that deletes it (`PurgeFails`), of the files of an undone attach
(`DiscardFails`), of a removed receipt (`RemoveFilesFails`) and in the middle of a
clearing (`ClearFilesFails`).

`leaked` and `lost` are history: receipts of which files stayed behind when a write
or a deletion failed, when the app crashed, or when a clearing missed them; and
receipts whose image was deleted by a replacement that did not commit. The
invariants say that nothing else goes astray.

### Recurring

`rules` and `occs` are the tables; an occurrence is keyed by rule and date, as
its id is built from both. `history` counts the payment rows per occurrence.

A reconciliation has two forms in the code and in the model. `saveRecurring` runs
it inside its transaction, so it is part of `SaveRecurring` (`Filled`, `Noted`).
The list of rules and every resume of the app run it statement by statement:
`BeginPass` reads the active rules; `InsertOccurrence`, one step per date, stores
what is not stored yet; `ReadUpcoming` reads the earliest unpaid one; `NoteRule`
writes it to the rule and takes the next rule. A pass works on the terms as it
read them, whatever becomes of the rule, and two passes can overlap.

A tap on pay or edit (`TapOccurrence`) needs an occurrence that is shown as
upcoming; its statement comes later (`MarkOccurrencePaid`, `EditOccurrence`), by
when the occurrence may be paid, and another tap may be pending. `Kill` ends all
passes and pending calls, as the end of the process does.

Days are counted from 0, and a rule recurs every `every` days: daily and weekly
rules. Monthly and yearly ones differ in the date arithmetic only, which is
planned as a module of its own. A draft without an end date ends with the
calendar, one without a limit has a limit above `LastDay`; the two are then not
told apart by the code either. Names, categories, the price history and the
columns that are only written are left out. `CountedBills` is the part of
`safeToSpend` that reads the rules. Times within a day are left out there: the
code compares with the time of the call, so a bill of today may be missed too.

### Instalments

A plan's instalments are deleted and made together or not at all, so the table
holds one generation of them per plan: `plans[p].gen` numbers it and
`instalments[p]` has its rows by position. An id is plan, generation and
position, which stands for the fresh UUID; a call that comes with the id of an
earlier generation finds nothing, and the code throws (`Found`). `Split` is the
form's division of the purchase, with `Count` in place of its 4, and `SaveBnpl`
makes the repository's checks on it: a plan with a payment keeps amount and
instalments (`SavePaid`), any other gets new ones (`SaveUnpaid`).

`TapInstalment` leaves open which state the checkbox asks for: the sheet shows a
copy of the plan. `recorded` is what `bnpl_payment_history` says by its newest
row per instalment; that a double tap adds a second equal row is not told apart.

A start or resume runs `reschedule`: `BeginPass` cancels every reminder,
`ReadUnpaid` reads the instalments, `CheckPlan` reads the plan of one and
`Remind` calls the plugin. Anything may come between, another pass included. The
plugin may throw (`FailPass`) and the app may be killed; both leave reminders
missing until the next start or resume, which is how the code is meant to
recover, so `owed` (a history variable: what was unpaid all the time since the
newest pass began) is emptied there. `NoReminderMissing` is about all other
endings. A reminder of an instalment paid meanwhile may stay, as it may in the code.

### QuickWidget

A tap is a number. One that starts the app, or comes before the engine is
configured, is kept by the activity in `pendingWidgetAction`, which holds one;
later ones are sent to Dart (`HandleWidgetIntent`). `messages` is in order, with the
answer to `consumeInitialAction` among the messages. Until `QuickWidgetLifecycle` is
built the channel of the framework buffers one message (`buffer`); this is
external, as is the time at which the router's navigator is built. In Dart,
`Process` is `_processQueuedAction`, with what its callers change beforehand as
parameters: it waits for the onboarding, tries again after a frame while there is
no navigator, or takes the action to the next frame (`posted`), where `Execute`
opens its screen. `FinishAction` closes the screen, or is the action's failure.

`Destroy` ends activity, engine and tree. Android may keep the task, and with it the
intent it was started with (`root`), as it was: the activity sets the action of its
own copy to null. When the task is opened again (`Start`, or `Restore`, if Android also
restores the fragment of the engine, which configures it before `onCreate` looks at the
intent) that intent is handled like a new one. `executed`, `born` and `initial` are
history: what this start has executed, how many taps were before it, and which action
Dart has asked for.

Left out: what the four actions open, and the branch for a navigator that is gone by
the next frame, since its key is global and it stays as long as the tree does. The
action for the search goes to the history screen and is over at once: of it
`OneScreenAtATime` says nothing while that screen is shown.

### VoiceExpense

Dart and the native main thread talk over two FIFO queues, `toNative` and
`toDart`. A coordinator's method is cut where it awaits an answer: `Deliver`
runs the rest of it, even if the sheet it was started from is closed by then.
Sheets are opened, also over each other, and popped (`closing` until the framework
unmounts them). The first makes a coordinator and the last takes it with it
(`gen` counts them); answers to an older coordinator still arrive.

The main thread handles one call at a time (`MainThread`). `startRecording`
makes a recorder thread and blocks the main thread (`waiting`) until the thread
is ready or 1.5 seconds are over (`StartTimesOut`), after which the thread is
`dropped`: the recorder forgets it and nobody tells it to stop. The transcription
worker takes one job at a time from `jobs` and loads the model before the first.
The permission dialog is answered by the user, in either way or not at all.

The user may act at any moment, also while a permission query is under way. The query
of a sheet that is closed meanwhile goes on to record: `startListening` does not look
whether its coordinator is disposed. Such a recording is marked as nobody's (`Living`,
and 0 in `by`), since its coordinator's cancel was sent before it; the invariants name
it as an exception and say that there is no other.

Left out: the words, the parser, the timer of the display, the choice of model
and language, and the methods that no screen calls (`retranscribeLastAudio`,
`runConsecutive3xTest`, `release`).

### PaymentMessages

Each arriving message is a call of `processIncomingSms`. Calls interleave at the
awaits: two hashes, up to two writes of the preferences, the notification. The
preferences of the running app are a cache (`prefs`); a write changes it at once
and sends it to the device (`writes`), which stores the copies in order
(`disk`). `Kill` ends all calls and loses what is not stored; `Start` reads the
device's copy. `Limit` is the 1000 newest hashes the code keeps. A message
that arrives while the app does not run, or while detection is off, is ignored, as
the native receiver and the first check do.

`marked`, `beside` and `forgotten` are history: which calls have remembered a
hash, which calls were looking for duplicates beside each other, and which
hashes were dropped for `Limit`. Hashes do not collide.

### ComputePool and NodeByNode

`ggml_graph_compute` makes a pool for each graph, wakes its workers, computes
with them node by node, and frees the pool. A worker polls for a while and then
locks the mutex, sleeps and is woken (or wakes by itself). The barrier between
two nodes is five steps (read the count passed, arrive, reset and release if last,
or spin). A matrix multiplication fills a work buffer, passes a barrier of its own
and takes chunks from a shared counter; other nodes have a part for each thread.
The abort callback is asked after each node by thread 0. The engine is built
without OpenMP, and the app gives it no pool of its own, so pools are neither
paused nor shared between graphs.

Sections under the mutex are one step; atomic operations take effect in one
order. `NodeByNode` knows nothing of threads: a step computes one part that is
left of the first node that is not complete.

## Runs

| Run | Instance | Shows |
|---|---|---|
| `ledger` | 3 ids, amounts 0..2, 2 screens (symmetric), 1 profile | balances, refusals and deletions under stale copies |
| `csv_transfer` | 4 ids, amounts 0..1, 1 screen | imports are whole, refused only as a whole, and store no copy beside the row a line came from |
| `backup_restore` | 2 ids, amounts 0..2, 2 profiles, 1 screen, 1 change of other tables | restores are whole, also across resets and crashes |
| `receipts` | 2 transactions, 2 images, 1 form, crashes, failing writes and deletions | files and rows stay together, but for what failed half way; saves end |
| `recurring` | 1 rule, 2 passes, 2 pending calls (both symmetric), 2 days | occurrences stored once, paid once and kept under overlapping passes, edits and kills |
| `instalments` | 1 plan of 2 instalments, made twice, 2 pending calls, 2 reschedules (both symmetric) | sums, locks, history and reminders under late calls, edits, overlaps, failures and kills |
| `quick_widget` | 4 taps | no start executes a tap twice, nor one of an earlier start but the task's own, the newest kept and executed, one screen at a time |
| `upcoming_bills` | 1 rule, 1 pass, 1 call, 3 days | **violated:** an overdue bill hides the next one from safe-to-spend |
| `voice_expense` | 2 sheets, 2 recordings, 2 starts | recordings can be reached and end with the last sheet, drafts are not of an earlier coordinator, processing ends |
| `voice_slow_start` | same | **violated:** a slow recorder is given up but records on |
| `compute_pool` | 4 threads, 4 nodes, two of them with chunks, an abort after the second | parts are computed in order, once and completely, the work buffer is stable, nobody is stuck, everybody leaves |
| `payment_messages` | 3 calls, 3 messages about 2 payments, 2 hashes kept, kills | a payment is offered once and dropped only for one that is offered; calls end |

The bounds. `N` bounds the ids that are ever handed out, so a run includes every
sequence of operations that creates at most `N` rows, with any number of updates
and deletions between. Three rows are the fewest where an update that forgets to
exclude its own row, a deletion and a third row interact; two amounts above 0
make incomes that pay for one expense and not for two. The import needs four:
two rows of each kind, or two exported and two imported. Two screens
are what a stale copy takes. Two receipts are what a replacement takes. The run of
`Receipts` has one form beside the clearing of all receipts, with crashes; what
several forms do to each other's receipts is proved, for any number of them.
`MaxInt` is above every
sum in the instances, so that wrapping does not occur in them: see "Proofs".
In `recurring`
both horizons end today, so that the second day brings a date for the passes to
store; the drafts are a rule with a limit of one, one that starts later and has
no limit, and one that recurs every zero days and is refused. Saving one over the
other edits all terms of the rule, also while a pass works on the old ones. Rules
do not touch each other's rows, so the run has one; two passes and two calls are
what an overlap takes. The theorems below are for any number of each.
In `instalments` two instalments are enough for one to be paid and one not, and
two generations for a call to come too late; the amounts divide evenly, leave a
rest, and are refused.
In `quick_widget` the app can be started, killed and restarted any number of
times; four taps are enough for one to be executed, one to be kept, one to be
queued and one to come to a newer start.
In `voice_expense` two sheets and two recordings are enough for an answer to
come to a newer sheet, for a recorder to be given up and followed by another, and for
a recording that a closed sheet started to meet a start of the next one.
In `compute_pool` one node hands out more chunks than there are threads, so that
some thread takes several, and one hands out fewer, so that some thread finds
none; four threads are the fewest where two wait at a barrier while one has left
it and one has not come.
In `payment_messages` two of the messages tell of the same payment and the third
of another, whose hashes push the first one's out of the two that are kept.
`MaxWrites` is 1: the switch is used only while no write is under way, which keeps
the queue of writes short. The theorems are for any of these bounds.
Deadlock is not checked: with every id handed out and every screen closed the
app just waits, and a bounded model stops where the app would not.

Symmetry is used only in runs without liveness properties.

Fairness. `ReceiptsSpec`: each form's own next step (not what the user may ask
of it) is strongly fair. The steps are completions of Dart futures, which the
event loop never drops, and requests to Drift, which serves them in the order
they were made; strong fairness stands for that queue, since a waiting step is
disabled whenever somebody else's transaction is open.
`VoiceSpec`: the framework's unmounting, the delivery of answers, the reading of
the records for a draft, the native main thread, the transcription worker and the
initialisation of a recorder thread are weakly fair: each is a loop or thread
that goes on as long as it has work. What the user does, how the permission
dialog is answered and whether the microphone fails are not.
`MessagesSpec`: the device stores what was sent to it and each call goes on, both
weakly fair; messages, kills and the switch are not.
`PoolSpec`: each thread's step is weakly fair, as the operating system schedules
every thread; that a sleeping worker wakes by itself is not, so `GraphEnds` shows
that no wake-up is missed.
`WidgetSpec`: the engine is configured, the tree is built, messages are delivered
and answered, and frames are drawn, all weakly fair: the framework goes on with each
as long as the app lives. Nobody has to close a screen, to get through the
onboarding or to tap.
The other specifications state none, and claim only safety.

Every property of a passing run has a mutant in `PROJECT.json`: a mistake in the
mapped code that violates it under the run's own configuration.

## Findings

* Safe-to-spend looks at the earliest unpaid occurrence of a rule only: while one
  bill is overdue, the rule's next bill is not subtracted (`upcoming_bills`).

* A recorder that takes longer than 1.5 seconds to start is reported as failed and
  forgotten without being told to stop: it records on, and no later stop or cancel
  reaches it (`voice_slow_start`).

The traces are what TLC prints for these runs. Their properties state what a
document or a comment says, quoted in `PROJECT.json`.

### Observations

Seen while modelling, and no runs of their own:

* A file imported again stores its lines again, unless the rows it was exported from
  are still there: the duplicate check compares ids that imports do not keep
  (`data_export_service.dart:104`, `:139`). The guide claims "duplicate handling"
  (`src/mobile/docs/DINARWISE_FUNCTIONALITY_AND_PUBLISHING_GUIDE.md:167`);
  `NoCopyBesideOriginal` says how much of it holds, and a property that no two stored
  rows come from one line would be violated.
* A widget action runs a second time when its task was started by it, the process was
  killed and the task is opened again: `onCreate` handles the intent of the task
  whatever was done with it (`MainActivity.kt:31`), as the activity has cleared its own
  copy only (`:271`). A comment says "consumed exactly once"
  (`core/quick_widget_lifecycle.dart:34`). `ExecutedOnce` names that exception; without
  it TLC finds it violated.
* `attach` writes image and thumbnail before its `try`: when the thumbnail cannot be
  written, the image stays, with no row (`receipt_repository.dart:85`). A deletion that
  fails leaves its files as well, and ends a clearing (`:181`). "This permanently
  removes all saved receipt images" is then not so; `NoFileForgotten` names these.
* A backup does not hold the profile id, so rows restored after a reset or on
  another device belong to a profile that is not shown (`data_export_service.dart:320`).
* Saving an edited transaction writes back the receipt id its form was opened
  with, also after the receipt was removed (`capture_screen.dart:236`).
* A save whose attachment fails says that nothing was saved, and a second try
  stores the expense twice (`capture_screen.dart:253`).
* The action that started the app, or came before its engine was configured, is
  queued when Dart gets the answer to its question, even if a newer tap was queued
  before: with onboarding not over, or the navigator not built yet, the newer one is
  lost (`quick_widget_lifecycle.dart:77`). `NewestKept` and `NewestExecuted` name
  that exception; without it TLC finds both violated.
* Deleting a contribution clears the completion of a goal even when what is left
  still reaches the target (`advanced_planning_repository.dart:456`), and an edit of
  a goal that overlaps a contribution can leave it completed below its target
  (`:349`).
* A sheet closed before the permission query is answered sends its cancel before its
  start: the recording then belongs to no sheet and runs until another sheet stops or
  cancels it (`voice_expense_coordinator.dart:178` has no look at `mounted`). A sheet
  opened meanwhile can stop it and shows its words. `MicrophoneReleased` and `OwnWords`
  name that recording as an exception; without it TLC finds both violated.
* After a start that timed out the next one makes a second thread beside the first
  (`VoiceRecorder.kt:49`), so two recordings run that nobody told to stop.
  `RecordingInReach` is about those the recorder still knows.
* An `Error` thrown while the native library is loaded is not an `Exception` and
  would leave the sheet processing for ever; read errors of the recorder are not
  told to Dart.
* A call that finds its payment just marked by one beside it does not wait for the
  mark to be stored; killed right then, the payment can be offered again. A call
  killed between mark and notification never offers its payment. The exceptions in
  `NotifiedOnce` name the former.
* With a node other than a matrix multiplication in `AbortNodes`, `GraphEnds` fails:
  thread 0 can set the abort flag before another thread has begun the node, which
  then leaves without coming to the barrier where the others wait; `NobodyStuck`
  says nothing of a graph aborted there. The app sets no abort callback.

## Proofs

`LedgerProofs` proves, for every `N`, every set of amounts, screens and profiles:

| Theorem | Property |
|---|---|
| `TypeCorrect` | `TypeOK` |
| `RowsAreWellFormed` | `RowsWellFormed`: amounts stored or shown are in `1 .. MaxAmount` |
| `BalanceStaysSafe` | `BalanceNeverNegative` |
| `RefusalsAreJustified` | `RefusedOnlyToProtectBalance` |
| `DeletionsAreFinal` | `DeletedStaysDeleted` |

The argument. `BalanceNeverNegative` is not inductive: the check of an operation
compares wrapped sums, and a negative stored amount would make a deletion of an
expense unsafe. The inductive invariant adds `TypeOK` and `RowsWellFormed`. From
them every sum lies in `0 .. N * MaxAmount` (`SumBounds`), one more amount keeps
it within the word under the assumption `FitsInWord` (`WrapExact`,
`CheckIsExact`), replacing one row changes one sum by the difference
(`SumReplace`), so the check foresees the balance after the step
(`CheckForesees`), other profiles' sums do not change (`OthersUntouched`), and an
expense can always be deleted (`ExpensesMayGo`). `AllowedKeepsBalance` puts this
together for any step that stores an allowed row.

The assumptions are `LedgerAssumption` in `Ledger` (the constants are what their
names say) and, for the two theorems about balances, `FitsInWord`: no table of at
most `N` rows adds up to more than a word holds. The code makes no such check;
with 64-bit words it takes about nine quintillion minor units to break it.

`RunningTotalTheorems` proves what the sums need: a recursive function's defining
equation, bounds, and the effect of changing one summand. Each induction is
carried out with a least counterexample.

`LedgerProofs` also proves, for every `N`, every file and every backup:

| Theorem | Property | Assuming |
|---|---|---|
| `CsvTypeCorrect` | `CsvTypeOK` | |
| `OriginalsHaveNoCopy` | `NoCopyBesideOriginal` | |
| `CsvKeepsBalance` | `BalanceNeverNegative` for `CsvTransfer` | `FitsInWord` |
| `RefusalsAreOfTheWhole` | `RefusedOnlyAsAWhole` | `FitsInWord` |
| `ImportsAreWhole` | `WholeImportsOnly`: `CsvTransfer` implements `Books` | `FitsInWord` |
| `BackupTypeCorrect` | `BackupTypeOK` | |
| `RestoreIsAtomic` | `RestoresAllOrNothing` | |
| `BackupKeepsBalance` | `BalanceNeverNegative` for `BackupRestore` | `FitsInWord` |

The argument for the import. None of its properties is inductive, as each depends
on what an open transaction can still be undone to. `CsvIInv` says what that is
(`ImportOK`): up to the id the transaction began with, the table is as it was; every
later row is one of the lines that were created, each line once; and there are ids
for the others. `DurableMinted` is the last id that survives an end of the process:
nothing that outlives it, a screen or a file, has seen a later one (`FilesOK`,
`ProfileOK`), which is why an undone import leaves nothing behind. A line stays
importable between preview and import because an id that is empty stays empty
(`Offerable`, and `AbsentStays` from the ledger); hence no row is stored beside the
row it came from (`OriginOK`). A step is then one of a few kinds (`CsvShape`): an
attempt at a line creates it (`Created`) or, like a failure or a crash, undoes
everything (`Undone`). For the refinement, `CommitTakesOffer` gives the one-to-one
correspondence of the new rows and the lines of the offer; a screen's operation
changes one row, and every other step changes nothing durable. That refusals do not
depend on the order of the lines needs the sum over a set of lines: `AmountsBounded`
says that no line costs more than all of them, by induction over the size of the
set. The incomes come first, so a refused line is an expense with only expenses left.

The argument for the backup. `BackupIInv` says that the backup and what an open
restore began with are tables the app could have (`Storable`), and that a table the
restore has done is the backup's and one it has not is as before (`RestoreOK`). That
the balance holds in between needs that it holds in both (`CopiesSolvent`): the
transactions are one table, which is one or the other. The assumption is
`BackupAssumption`: the bound on changes of the other tables is a number.

`RecurringProofs` proves, for every calendar, every set of drafts and any number of
rules, passes and calls:

| Theorem | Property |
|---|---|
| `RecurringTyped` | `RecurringTypeOK` |
| `PaymentsAreOnce` | `PaidOnce` |
| `PassesStoreSchedules` | `PassStoresSchedule` |
| `PassesAreBounded` | `PassesEnd` |
| `OccurrencesAreKept` | `OccurrencesKept` |

The argument. Every step that touches the occurrences adds some (`Adds...`), pays
one or edits one (`OccurrenceStep`): none removes any. So what a pass has stored
stays stored, and `PassStored(p)` can say that the first `n` dates of its rule
are, and that all of these were due. A rule that could be saved recurs every day
or less often (`RulesAdvance`, the check of `Accepted`), so its dates grow
(`DatesGrow`): there are at most as many as days, which is `PassesEnd`, and the
number of inserts is the number of dates, which is `PassStoresSchedule`. That a
pending call's occurrence is still stored (`TapsStored`) is what lets `PaidOnce`
compare its status with the history. `RecurringInv` is the conjunction of these,
the types and `PaidOnce`. The assumptions are `CalendarAssumption` and
`DraftAssumption` in `Recurring`: the constants are what their names say.

`InstalmentProofs` proves, for any number of plans, instalments, calls, passes and
any amounts:

| Theorem | Property |
|---|---|
| `SplitAddsUp` | the form's instalments of a purchase add up to it |
| `InstalmentsTyped` | `InstalmentsTypeOK` |
| `PlansAddUp` | `InstalmentsAddUp` |
| `CompletedPlansArePaid` | `CompletedMeansPaid` |
| `PaymentsAreKept` | `NoPaymentForgotten` |
| `PaidPlansStayLocked` | `PaidPlansLocked` |
| `RemindersAreComplete` | `NoReminderMissing` |

The argument. `SplitAddsUp` names the values of the accumulator and uses that the
loop has only one run (`SameTotals`). The properties of the tables are inductive
together with the types. For the reminders, the invariant says that whatever is
owed is unpaid (`OwedIsUnpaid`) and has its reminder or a reschedule on its way to
it (`RemindersComing`). A pass skips an instalment only when its plan is
completed; by `CompletedMeansPaid` it is then paid, and not owed. Beginning a pass
cancels all reminders, but that pass is then on its way to every instalment. The
assumption is `InstalmentAssumption`: the constants are what their names say, and
the form makes at least one instalment.

`ReceiptProofs` proves, for any number of transactions, images and forms, with or
without crashes:

| Theorem | Property |
|---|---|
| `ReceiptsTypeCorrect` | `ReceiptsTypeOK` |
| `ReceiptsKeepFiles` | `StoredReceiptHasFile` |
| `ReceiptsForgetNoFile` | `NoFileForgotten` |

The argument. No receipt has two rows, and ids are new (`RowsOK`); a new image
belongs to the form that wrote it and to nobody else (`NewOK`); the row that an
open transaction replaces stays as it was found, since everybody else waits for the
database (`ReplacedOK`); what a clearing has listed and unlinked is linked by no row
again (`ClearingOK`). `ReceiptsIInv` is these with the types and the
properties. Most steps touch neither rows nor files; they are treated together
(`Calm`). The assumption is `ReceiptsAssumption`.

`ChannelProofs` proves, for any number of sheets, recordings and starts:

| Theorem | Property |
|---|---|
| `VoiceTypeCorrect` | `VoiceTypeOK` |
| `VoiceRecordingInReach` | `RecordingInReach` |
| `VoiceReleasesMicrophone` | `MicrophoneReleased` |
| `VoiceOwnWords` | `OwnWords` |

The argument. The recorder knows the only thread that listens and was not given
up (`RecorderOK`). The other two properties follow from what stands between a
recording and whoever might stop it (`OnlyOwn`): in the queue of calls, behind a start
of a coordinator's and before a stop of another one's, and before the end of the queue
if the coordinator is not the one alive, there is a cancel. This holds of every start
under way and of the recording that runs (`RecordingsOwn`), since a coordinator that
is disposed sends a cancel then, and what it starts later counts as nobody's. So once
no sheet is open and the queue is empty, no recording with an owner runs; and whatever
is transcribed, answered and parsed was said to the coordinator that stopped it, or to
nobody (`TranscriptsOwn`). `OwnIInv` is these, with when a coordinator is alive
(`AliveOK`). The lemmas about queues say what appending and taking the first element
do to it. The theorems assume nothing but `VoiceAssumption`, that the bounds are
numbers.

And, for any number of taps on the widget:

| Theorem | Property |
|---|---|
| `WidgetTypeCorrect` | `WidgetTypeOK` |
| `WidgetExecutesOnce` | `ExecutedOnce` |
| `WidgetKeepsNewest` | `NewestKept` |
| `WidgetOneScreen` | `OneScreenAtATime` |

The argument. No tap is at two places (`NoTapTwice`), be it kept by the activity, in
a message, in the channel's buffer, queued, posted to the next frame or executed. Every
place holds a tap of this start or that of the task (`Places`, `Given`): a start begins
with all of them empty (`StartOK`), and a step fills one from another or from a new
tap. The kept action is asked for once per start, after the tree is built (`StartOK`),
and the newest tap is the last action that is sent (`NewestLast`); so nothing but that
one answer can come after it and take its place in the queue (`NewestHeld`).
`WidgetIInv` is these with the types.

`MessageProofs` proves, for any number of messages and calls and any limit:

| Theorem | Property |
|---|---|
| `MessagesTypeCorrect` | `MessagesTypeOK` |
| `PaymentNotifiedOnce` | `NotifiedOnce` |
| `PaymentDroppedOnlyIfNotified` | `DroppedOnlyIfNotified` |

The argument. The app's preferences are the newest of the copies: the last write
under way, or the device's (`NewestOK`). Once a call has marked its payment, the
payment is in every copy from the device's on, or from a write on for which a call
that tells of it still waits; or it was forgotten, or a call beside it was killed
(`SupportOK`). So a later call of the same payment finds it, however often
the app was killed between. The assumption is `MessageAssumption`.

`ComputePoolProofs` proves, for any number of threads, nodes and chunks:

| Theorem | Property |
|---|---|
| `PoolTypeCorrect` | `PoolTypeOK` |
| `PoolKeepsWorkBuffer` | `WorkBufferStable` |
| `PoolComputesAll` | `FreedMeansComputed` |
| `PoolNeverStuck` | `NobodyStuck` |
| `PoolComputesInOrder` | `ComputedInOrder`: `ComputePool` implements `NodeByNode` |

The argument. A thread that still spins at a barrier that was released counts as
past it; then all threads are in the same half of the same node, and the
barrier's count is the number of the threads that have arrived. Of the parts
handed out so far, each is done or is being computed by exactly one thread, so
that parts are computed once, and all of them when the last thread arrives. The
refinement maps `done` to itself: a step that computes a part of a node is a step
of `NodeByNode`, and every other step a stutter. The assumption is
`PoolAssumption`.

`PoolNeverStuck` is the part of `GraphEnds` that needs no fairness: until the pool
is freed, some thread can go on without being woken by chance. It has an invariant
of its own on top (`AwakeIInv`): a worker sleeps only after it has seen that there is
nothing new (`RestOK`), what it could have missed is set by thread 0 alone and in
order (`RolesOK`), a barrier without a thread that opens it lacks one (`LastOpens`),
and after an abort no thread is in a half of a node that another has left
(`AbortOK`, which needs that the callback aborts only after nodes with two halves).
Then, if thread 0 waits at a barrier, a worker that does not wait there sleeps, so
it has left the graph, and not all threads can be in the same half; and if it
waits for its workers, the flag is set and the one that has not ended is held by a
barrier that thread 0 has left. That the conditions of `CanGoOn` are those under
which a step of the thread is enabled, TLC has confirmed on the run's instance
with three threads (`ENABLED` is beyond the prover). What is left to TLC of `GraphEnds`
is that the steps that are always possible lead to the end.

The type invariants of `Ledger`, `BackupRestore`, `Recurring`, `Instalments`,
`Receipts`, `VoiceExpense` and `ComputePool`, and `RowsWellFormed`, are proved and
not repeated in the runs.

Every safety and action property of the passing runs is proved, both refinements
among them. Only model-checked is liveness (`SavesEnd`, `ProcessingEnds`,
`GraphEnds`, `CallsEnd`, `NewestExecuted`), which is beyond the prover, as `ENABLED`
and fairness are. What a recursive definition computes is proved where a property
needs it: with least counterexamples (`RunningTotalTheorems`, `AmountsBounded`), as
the library's induction theorems take an operator as a parameter.

## Plan

Done so far: the ledger, the data tools, receipts, recurring payments, BNPL plans
and their reminders, payment messages, voice expenses, the quick widget and
the speech engine's threads. What is left, in this order:

1. `Goals`: the stored sum beside the contributions it sums, and `saveGoal`, which
   reads the sum and writes the completion outside a transaction.
2. `Categories`: uses that are counted before a deletion, outside a transaction.
3. `AppLock`: the lock flag and the time of backgrounding under lifecycle callbacks.
4. `MonthlyDates` as a pure function against a reference definition.

## Not modelled

Goals, budgets, categories and payment methods, the app lock, quick actions and shared
receipts, onboarding: single-row writes with a check before them, flags set by
lifecycle callbacks, and further queues of one; the plan above takes up most
of them. Text recognition, parsing of
messages and transcripts, smart search, charts, calculators, PDF export, analytics
and the tutorial are read-only or pure text and arithmetic; the optional backend is
stateless services.

Nearly all C and C++ in the repository, and with it most of its lines, is the
third-party speech engine. Of it only the thread pool of `ggml.c` and the glue
`jni.c` are modelled: they are the parts with state that interleaves. Its kernels,
quantisation, file formats, decoder and the back ends the app does not build
(CUDA, SYCL, Vulkan, CANN and others) are numerical code, for which a state machine
says nothing.

SQLite itself is taken at its word: transactions are atomic and durable, so the
page-level race of reading the database file after a checkpoint is listed as a
hazard and not modelled.
