---------------------------- MODULE VoiceExpense ----------------------------
(***************************************************************************)
(* Adding an expense by voice: the sheet and its coordinator in Dart       *)
(* (src/mobile/lib/features/voice_expense/), the method channel, and the   *)
(* native recorder and transcriber (VoiceExpenseBridge.kt,                 *)
(* VoiceRecorder.kt, WhisperBridge.kt and, under them, cpp/jni.c).         *)
(*                                                                         *)
(* Dart and the native main thread talk over two FIFO queues.  A method of *)
(* the coordinator is cut where it awaits an answer: the rest of it runs   *)
(* when the answer is delivered, even if the sheet it was started from is  *)
(* gone.  The native main thread handles one call at a time and blocks     *)
(* until a new recorder thread is ready; recorder threads and the one      *)
(* transcription worker run beside it.                                     *)
(*                                                                         *)
(* Left out: what was said, the parser, the timer of the display, the      *)
(* choice of model and language, and the methods no screen calls           *)
(* (retranscribeLastAudio, runConsecutive3xTest, release).                 *)
(***************************************************************************)
EXTENDS Integers, Sequences

CONSTANTS
  MaxOpens,    \* bound: how many sheets are ever opened
  MaxThreads,  \* bound: how many recordings are ever started
  MaxStarts    \* bound: how often the user starts to listen

ASSUME VoiceAssumption == {MaxOpens, MaxThreads, MaxStarts} \subseteq Nat

VARIABLES
  opens,       \* how many sheets were opened
  sheets,      \* the number of open sheets
  closing,     \* the number of popped sheets that are not unmounted yet
  gen,         \* the number of coordinators made; gen is the newest
  alive,       \* whether the newest coordinator is not disposed
  status,      \* its state.status
  draft,       \* the coordinator whose recording the shown draft is of, or 0
  parsing,     \* transcripts whose parsing waits for the database's records
  starts,      \* how often startListening was called
  toNative,    \* calls on the channel that the native side has not handled
  toDart,      \* answers that have not been delivered
  granted,     \* whether the app has the microphone permission
  asking,      \* the coordinator that waits for the permission dialog, or 0
  isRecording, \* VoiceRecorder.isRecording
  recorder,    \* VoiceRecorder.recordThread, 0 for null
  waiting,     \* the thread whose latch the native main thread waits for, or 0
  thread,      \* the recorder threads
  jobs,        \* the queue of the transcription worker
  loaded       \* whether WhisperBridge.contextPtr holds a model

sheetVars == <<opens, sheets, closing, gen, alive, status, draft, parsing, starts>>
recorderVars == <<isRecording, recorder, waiting, thread>>
workerVars == <<jobs, loaded>>
vars == <<sheetVars, toNative, toDart, granted, asking, recorderVars, workerVars>>

-----------------------------------------------------------------------------

Threads == 1 .. MaxThreads

(***************************************************************************)
(* A recorder thread: where it is, whether stopRecording was called on it, *)
(* whether the main thread gave up waiting for it, whether it has read any *)
(* sample, and the coordinator it was started for, 0 when that one had     *)
(* been disposed before it asked for the recording.                        *)
(***************************************************************************)
NoThread == [at |-> "none", quit |-> FALSE, dropped |-> FALSE,
             heard |-> FALSE, by |-> 0]

Call(op, g) == [op |-> op, by |-> g]

(***************************************************************************)
(* An answer to a call.  ok is the Boolean or success of it; of says whose *)
(* recording an answered transcript is of.                                 *)
(***************************************************************************)
Answer(c, ok, of) == [op |-> c.op, by |-> c.by, ok |-> ok, of |-> of]

Send(op, g) == toNative' = Append(toNative, Call(op, g))
Reply(c, ok, of) == toDart' = Append(toDart, Answer(c, ok, of))

VoiceInit ==
  /\ opens = 0 /\ sheets = 0 /\ closing = 0
  /\ gen = 0 /\ alive = FALSE /\ status = "ready" /\ draft = 0
  /\ parsing = {} /\ starts = 0
  /\ toNative = <<>> /\ toDart = <<>>
  /\ granted \in BOOLEAN /\ asking = 0
  /\ isRecording = FALSE /\ recorder = 0 /\ waiting = 0
  /\ thread = [i \in Threads |-> NoThread]
  /\ jobs = <<>> /\ loaded = FALSE

-----------------------------------------------------------------------------
(***************************************************************************)
(* The user, who may act while a call of the coordinator is under way      *)
(***************************************************************************)

(***************************************************************************)
(* A sheet is opened, from the dashboard or, over another one, from the    *)
(* widget.  The first one makes a coordinator.  With autoStart it starts   *)
(* to listen in the next frame.                                            *)
(***************************************************************************)
OpenSheet(autoStart) ==
  /\ opens < MaxOpens
  /\ opens' = opens + 1
  /\ sheets' = sheets + 1
  /\ IF alive
       THEN UNCHANGED <<gen, alive, status, draft>>
       ELSE /\ gen' = gen + 1
            /\ alive' = TRUE /\ status' = "ready" /\ draft' = 0
  /\ IF autoStart
       THEN /\ starts < MaxStarts
            /\ starts' = starts + 1
            /\ Send("hasPermission", gen')
       ELSE UNCHANGED <<starts, toNative>>
  /\ UNCHANGED <<closing, toDart, granted, asking, parsing, recorderVars,
                 workerVars>>

(***************************************************************************)
(* The start button, and the retry button of the error state.              *)
(***************************************************************************)
StartListening ==
  /\ sheets > 0 /\ alive /\ status \in {"ready", "error"}
  /\ starts < MaxStarts
  /\ starts' = starts + 1
  /\ Send("hasPermission", gen)
  /\ UNCHANGED <<opens, sheets, closing, gen, alive, status, draft, toDart, granted,
                 asking, parsing, recorderVars, workerVars>>

StopAndProcess ==
  /\ sheets > 0 /\ alive /\ status = "listening"
  /\ status' = "processing"
  /\ Send("stopAndTranscribe", gen)
  /\ UNCHANGED <<opens, sheets, closing, gen, alive, draft, starts, toDart, granted,
                 asking, parsing, recorderVars, workerVars>>

(***************************************************************************)
(* A sheet is popped by a button, a gesture or the back key, from any      *)
(* state: cancel() asks the native side to stop.  (The buttons call it     *)
(* twice in a row, the second time without effect; Review calls reset()    *)
(* before.)                                                                *)
(***************************************************************************)
CloseSheet(review) ==
  /\ sheets > 0
  /\ sheets' = sheets - 1
  /\ closing' = closing + 1
  /\ review => alive /\ status = "result"
  /\ status' = IF review THEN "ready" ELSE status
  /\ draft' = IF review THEN 0 ELSE draft
  /\ Send("cancelRecording", gen)
  /\ UNCHANGED <<opens, gen, alive, starts, toDart, granted, asking, parsing, recorderVars,
                 workerVars>>

\* Mutant: only the pop cancels, and not the disposal.
UnmountQuietly ==
  /\ closing > 0
  /\ closing' = closing - 1
  /\ status' = "ready" /\ draft' = 0
  /\ alive' = (sheets + closing' > 0)
  /\ UNCHANGED <<opens, sheets, gen, starts, toNative, toDart, granted, asking, parsing,
                 recorderVars, workerVars>>

(***************************************************************************)
(* The popped sheet is unmounted: its post-frame callback resets the       *)
(* coordinator, and the last sheet takes the coordinator with it.          *)
(***************************************************************************)
UnmountSheet ==
  /\ closing > 0
  /\ closing' = closing - 1
  /\ status' = "ready" /\ draft' = 0
  /\ alive' = (sheets + closing' > 0)
  /\ Send("cancelRecording", gen)
  /\ UNCHANGED <<opens, sheets, gen, starts, toDart, granted, asking, parsing, recorderVars,
                 workerVars>>

-----------------------------------------------------------------------------
(***************************************************************************)
(* The coordinator after an answer.  The state of a disposed coordinator   *)
(* is shown by nobody (and setting it throws in a debug build), but what   *)
(* the method does before that has been done.  startListening does not     *)
(* look whether it was disposed while the permission was asked for.        *)
(***************************************************************************)

\* Coordinator g, or 0 when it is disposed.
Living(g) == IF alive /\ g = gen THEN g ELSE 0

\* Mutant: one coordinator serves all sheets, one after the other.
SetStatusOfAnySheet(g, s, d) ==
  IF alive THEN status' = s /\ draft' = d ELSE UNCHANGED <<status, draft>>

\* An assignment to state.status by the method of coordinator g.
SetStatus(g, s, d) ==
  IF alive /\ g = gen
    THEN status' = s /\ draft' = d
    ELSE UNCHANGED <<status, draft>>

AfterHasPermission(a) ==
  /\ IF a.ok THEN Send("startRecording", Living(a.by)) ELSE Send("requestPermission", a.by)
  /\ UNCHANGED <<status, draft, parsing>>

AfterRequestPermission(a) ==
  /\ IF a.ok THEN Send("startRecording", Living(a.by)) /\ UNCHANGED <<status, draft>>
             ELSE SetStatus(a.by, "error", draft) /\ UNCHANGED toNative
  /\ UNCHANGED parsing

AfterStart(a) ==
  /\ IF a.ok THEN SetStatus(a.by, "listening", 0)
             ELSE SetStatus(a.by, "error", draft)
  /\ UNCHANGED <<toNative, parsing>>

\* A transcript has to wait for the categories and payment methods.
AfterStop(a) ==
  /\ IF a.ok THEN /\ parsing' = parsing \cup {[by |-> a.by, of |-> a.of]}
                  /\ UNCHANGED <<status, draft>>
             ELSE SetStatus(a.by, "error", draft) /\ UNCHANGED parsing
  /\ UNCHANGED toNative

\* cancel() sets the state when it is answered, reset() and dispose() do not
\* wait; the answers of all three are delivered here.
AfterCancel(a) ==
  /\ SetStatus(a.by, "ready", 0) \/ UNCHANGED <<status, draft>>
  /\ UNCHANGED <<toNative, parsing>>

Deliver ==
  /\ toDart # <<>>
  /\ toDart' = Tail(toDart)
  /\ LET a == Head(toDart)
     IN  CASE a.op = "hasPermission" -> AfterHasPermission(a)
           [] a.op = "requestPermission" -> AfterRequestPermission(a)
           [] a.op = "startRecording" -> AfterStart(a)
           [] a.op = "stopAndTranscribe" -> AfterStop(a)
           [] a.op = "cancelRecording" -> AfterCancel(a)
  /\ UNCHANGED <<opens, sheets, closing, gen, alive, starts, granted, asking,
                 recorderVars, workerVars>>

\* The records are there and the transcript is parsed, or something throws.
ShowDraft ==
  /\ \E p \in parsing :
       /\ parsing' = parsing \ {p}
       /\ SetStatus(p.by, "result", p.of) \/ SetStatus(p.by, "error", draft)
  /\ UNCHANGED <<opens, sheets, closing, gen, alive, starts, toNative, toDart,
                 granted, asking, recorderVars, workerVars>>

-----------------------------------------------------------------------------
(***************************************************************************)
(* The native main thread                                                  *)
(***************************************************************************)

\* The main thread takes the first call for op, unless it is blocked.
Takes(op) ==
  /\ waiting = 0
  /\ toNative # <<>>
  /\ Head(toNative).op = op
  /\ toNative' = Tail(toNative)

HandleHasPermission ==
  /\ Takes("hasPermission")
  /\ Reply(Head(toNative), granted, 0)
  /\ UNCHANGED <<sheetVars, granted, asking, recorderVars, workerVars>>

(***************************************************************************)
(* The dialog is shown, and the one pendingPermissionResult is replaced: a *)
(* coordinator that was waiting for it is never answered.  While a dialog  *)
(* is shown Android refuses a second one at once, which answers the new    *)
(* request with false and leaves nobody for the answer of the dialog.      *)
(***************************************************************************)
HandleRequestPermission ==
  /\ Takes("requestPermission")
  /\ IF granted \/ asking # 0
       THEN Reply(Head(toNative), granted, 0) /\ UNCHANGED asking
       ELSE asking' = Head(toNative).by /\ UNCHANGED toDart
  /\ UNCHANGED <<sheetVars, granted, recorderVars, workerVars>>

HandlePermissionResult(grant) ==
  /\ asking # 0 /\ waiting = 0
  /\ granted' = grant
  /\ asking' = 0
  /\ Reply(Call("requestPermission", asking), grant, 0)
  /\ UNCHANGED <<sheetVars, toNative, recorderVars, workerVars>>

FreshThread == CHOOSE i \in Threads : thread[i].at = "none"

\* Mutant: startRecording does not look whether it is recording.
HandleStartAgain ==
  /\ Takes("startRecording")
  /\ granted
  /\ \E i \in Threads : thread[i].at = "none"
  /\ isRecording' = TRUE
  /\ recorder' = FreshThread
  /\ waiting' = FreshThread
  /\ thread' = [thread EXCEPT ![FreshThread] =
                  [NoThread EXCEPT !.at = "starting", !.by = Head(toNative).by]]
  /\ UNCHANGED <<sheetVars, toDart, granted, asking, workerVars>>

(***************************************************************************)
(* startRecording: true when already recording, else a new thread is       *)
(* started and the main thread blocks on its latch.  Without permission,   *)
(* or with the activity on its way out, the answer is false.               *)
(***************************************************************************)
HandleStartRecording ==
  /\ Takes("startRecording")
  /\ LET c == Head(toNative)
     IN  \/ /\ ~ isRecording \/ ~ granted
            /\ Reply(c, FALSE, 0)
            /\ UNCHANGED recorderVars
         \/ /\ granted /\ isRecording
            /\ Reply(c, TRUE, 0)
            /\ UNCHANGED recorderVars
         \/ /\ granted /\ ~ isRecording
            /\ \E i \in Threads : thread[i].at = "none"
            /\ isRecording' = TRUE
            /\ recorder' = FreshThread
            /\ waiting' = FreshThread
            /\ thread' = [thread EXCEPT ![FreshThread] =
                            [NoThread EXCEPT !.at = "starting", !.by = c.by]]
            /\ UNCHANGED toDart
  /\ UNCHANGED <<sheetVars, granted, asking, workerVars>>

\* The main thread goes on, and the start is answered with ok.
AnswerStart(ok) ==
  /\ isRecording' = ok
  /\ recorder' = IF ok THEN waiting ELSE 0
  /\ Reply(Call("startRecording", thread[waiting].by), ok, 0)
  /\ waiting' = 0
  /\ UNCHANGED <<sheetVars, toNative, granted, asking, workerVars>>

\* The latch was counted down, by the first recording or by an error.
StartAnswered ==
  /\ waiting # 0
  /\ thread[waiting].at # "starting"
  /\ AnswerStart(thread[waiting].at = "recording")
  /\ UNCHANGED thread

\* The latch was not counted down within 1.5 seconds: the start is answered
\* with false, and the thread goes on without having been told to quit.
StartTimesOut ==
  /\ waiting # 0
  /\ thread[waiting].at = "starting"
  /\ AnswerStart(FALSE)
  /\ thread' = [thread EXCEPT ![waiting].dropped = TRUE]

(***************************************************************************)
(* stopAndTranscribe: the thread is told to quit and waited for, at most   *)
(* two seconds, so it may or may not have ended; what it has read goes to  *)
(* the worker.  An empty recording is an error.                            *)
(***************************************************************************)
HandleStop ==
  /\ Takes("stopAndTranscribe")
  /\ IF isRecording /\ recorder # 0
       THEN /\ thread' = [thread EXCEPT ![recorder].quit = TRUE]
            /\ recorder' = 0
            /\ IF thread[recorder].heard
                 THEN /\ jobs' = Append(jobs, [call |-> Head(toNative),
                                               of |-> thread[recorder].by])
                      /\ UNCHANGED toDart
                 ELSE Reply(Head(toNative), FALSE, 0) /\ UNCHANGED jobs
       ELSE /\ Reply(Head(toNative), FALSE, 0)
            /\ UNCHANGED <<thread, recorder, jobs>>
  /\ isRecording' = FALSE
  /\ UNCHANGED <<sheetVars, granted, asking, waiting, loaded>>

HandleCancel ==
  /\ Takes("cancelRecording")
  /\ IF isRecording /\ recorder # 0
       THEN /\ thread' = [thread EXCEPT ![recorder].quit = TRUE]
            /\ recorder' = 0
       ELSE UNCHANGED <<thread, recorder>>
  /\ isRecording' = FALSE
  /\ Reply(Head(toNative), TRUE, 0)
  /\ UNCHANGED <<sheetVars, granted, asking, waiting, workerVars>>

-----------------------------------------------------------------------------
(***************************************************************************)
(* The recorder threads                                                    *)
(***************************************************************************)

ThreadStep(i, at, heard) ==
  /\ thread' = [thread EXCEPT ![i].at = at, ![i].heard = heard]
  /\ UNCHANGED <<sheetVars, toNative, toDart, granted, asking, isRecording,
                 recorder, waiting, workerVars>>

\* AudioRecord is made and started, or an exception ends the thread.
Initialize(i) ==
  /\ thread[i].at = "starting"
  /\ \E at \in {"recording", "ended"} : ThreadStep(i, at, FALSE)

Read(i) ==
  /\ thread[i].at = "recording" /\ ~ thread[i].heard
  /\ ThreadStep(i, "recording", TRUE)

\* The loop sees quit, or read reports an error; the microphone is released.
\* Nobody tells the coordinator about the error.
End(i) ==
  /\ thread[i].at = "recording"
  /\ ThreadStep(i, "ended", thread[i].heard)

-----------------------------------------------------------------------------
(***************************************************************************)
(* The transcription worker                                                *)
(***************************************************************************)

Finish(ok) ==
  /\ jobs' = Tail(jobs)
  /\ Reply(Head(jobs).call, ok, IF ok THEN Head(jobs).of ELSE 0)

\* initContext: the model is loaded once; a failure leaves the null pointer.
LoadModel(ok) ==
  /\ jobs # <<>> /\ ~ loaded
  /\ loaded' = ok
  /\ IF ok THEN UNCHANGED <<jobs, toDart>> ELSE Finish(FALSE)
  /\ UNCHANGED <<sheetVars, toNative, granted, asking, recorderVars>>

\* Mutant: a failed transcription is not answered.
TranscribeOrNot(ok) ==
  /\ jobs # <<>> /\ loaded
  /\ IF ok THEN Finish(TRUE) ELSE jobs' = Tail(jobs) /\ UNCHANGED toDart
  /\ UNCHANGED <<sheetVars, toNative, granted, asking, recorderVars, loaded>>

\* fullTranscribe and the texts of its segments: a return code other than 0
\* is an error, and a transcript that is empty without its tags is none.
Transcribe(ok) ==
  /\ jobs # <<>> /\ loaded
  /\ Finish(ok)
  /\ UNCHANGED <<sheetVars, toNative, granted, asking, recorderVars, loaded>>

-----------------------------------------------------------------------------

UserAction ==
  \/ \E autoStart \in BOOLEAN : OpenSheet(autoStart)
  \/ StartListening
  \/ StopAndProcess
  \/ \E review \in BOOLEAN : CloseSheet(review)

MainThread ==
  \/ HandleHasPermission
  \/ HandleRequestPermission
  \/ HandleStartRecording
  \/ StartAnswered
  \/ StartTimesOut
  \/ HandleStop
  \/ HandleCancel

Worker == \E ok \in BOOLEAN : LoadModel(ok) \/ Transcribe(ok)

VoiceNext ==
  \/ UserAction
  \/ UnmountSheet
  \/ Deliver
  \/ ShowDraft
  \/ MainThread
  \/ \E grant \in BOOLEAN : HandlePermissionResult(grant)
  \/ \E i \in Threads : Initialize(i) \/ Read(i) \/ End(i)
  \/ Worker

(***************************************************************************)
(* The threads and the frames of the app run; the user, the permission     *)
(* dialog and a microphone error need never come.                          *)
(***************************************************************************)
VoiceSpec ==
  /\ VoiceInit /\ [][VoiceNext]_vars
  /\ WF_vars(UnmountSheet) /\ WF_vars(Deliver) /\ WF_vars(ShowDraft)
  /\ WF_vars(MainThread) /\ WF_vars(Worker)
  /\ \A i \in Threads : WF_vars(Initialize(i))

-----------------------------------------------------------------------------

VoiceTypeOK ==
  /\ {opens, sheets, closing} \subseteq 0 .. MaxOpens
  /\ gen \in 0 .. opens /\ alive \in BOOLEAN /\ starts \in 0 .. MaxStarts
  /\ status \in {"ready", "listening", "processing", "result", "error"}
  /\ draft \in 0 .. MaxOpens
  /\ parsing \subseteq [by : 0 .. MaxOpens, of : 0 .. MaxOpens]
  /\ granted \in BOOLEAN /\ asking \in 0 .. MaxOpens
  /\ isRecording \in BOOLEAN
  /\ recorder \in 0 .. MaxThreads /\ waiting \in 0 .. MaxThreads
  /\ thread \in [Threads -> [at : {"none", "starting", "recording", "ended"},
                             quit : BOOLEAN, dropped : BOOLEAN,
                             heard : BOOLEAN, by : 0 .. MaxOpens]]
  /\ loaded \in BOOLEAN

\* Threads that hold the microphone, or will, and have not been told to quit.
Listening ==
  {i \in Threads : thread[i].at \in {"starting", "recording"} /\ ~ thread[i].quit}

Dropped == {i \in Threads : thread[i].dropped}

\* All calls are handled and all their answers delivered.
ChannelQuiet == toNative = <<>> /\ toDart = <<>> /\ waiting = 0 /\ asking = 0

\* A recording that was not told to stop is the one the recorder holds, so that
\* the next stop or cancel reaches it, whoever sends it, and there is no second
\* one.  (Those the main thread gave up waiting for are out of its reach and are
\* the subject of NoStrayRecording.)
RecordingInReach ==
  \A i \in Listening \ Dropped : isRecording /\ recorder = i

\* Once the last sheet is gone and the channel is quiet no recording goes on,
\* wherever its start, its stop and the closing of the sheet met, with two
\* exceptions: one whose start timed out, and one that a coordinator asked for
\* when it was disposed, the permission having been answered after the closing.
MicrophoneReleased ==
  sheets + closing = 0 /\ ChannelQuiet =>
    \A i \in Listening \ Dropped : thread[i].by = 0

\* A draft that is shown comes from a recording started for the coordinator that
\* shows it, never for an earlier one that was still recorded or transcribed.  (Or
\* from one that nobody had any more when it was started, as above: the next
\* coordinator takes it over.)
OwnWords == alive /\ status = "result" => draft \in {gen, 0}

\* A start that was answered with false, so that the sheet says the recording
\* could not be initialized, leaves no thread recording.
NoStrayRecording ==
  \A i \in Dropped : thread[i].at = "recording" => thread[i].quit

\* A coordinator does not stay in the processing state.
ProcessingEnds == (alive /\ status = "processing") ~>
                  ~ (alive /\ status = "processing")

=============================================================================
