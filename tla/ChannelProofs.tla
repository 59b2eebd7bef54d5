---------------------------- MODULE ChannelProofs ----------------------------
(***************************************************************************)
(* What TLC checks of the two components that talk over a method channel,  *)
(* for every value of their constants.                                     *)
(*                                                                         *)
(* VoiceExpense: the recorder reaches every recording it did not give up, *)
(* none that a sheet asked for outlives the last sheet, and a sheet shows  *)
(* no words spoken to an earlier one.                                      *)
(*                                                                         *)
(* QuickWidget: no start of the app executes a tap twice, and none one of  *)
(* an earlier start but that of its task; no action opens its screen over  *)
(* that of another, and the newest tap is not lost.                        *)
(***************************************************************************)
EXTENDS VoiceExpense, QuickWidget, SequenceTheorems, TLAPS

-----------------------------------------------------------------------------
(* Queues *)

\* What Append does to a queue.
LEMMA AppendElements ==
  ASSUME NEW S, NEW q \in Seq(S), NEW e \in S
  PROVE  /\ Append(q, e) \in Seq(S) /\ Len(q) \in Nat
         /\ Len(Append(q, e)) = Len(q) + 1
         /\ \A i \in 1 .. Len(q) : Append(q, e)[i] = q[i]
         /\ Append(q, e)[Len(q) + 1] = e
OBVIOUS

\* What taking the first element does to a queue.
LEMMA TailElements ==
  ASSUME NEW S, NEW q \in Seq(S), q # <<>>
  PROVE  /\ Head(q) = q[1] /\ Head(q) \in S
         /\ Len(q) \in Nat \ {0}
         /\ Tail(q) \in Seq(S) /\ Len(Tail(q)) = Len(q) - 1
         /\ \A i \in 1 .. Len(q) - 1 : Tail(q)[i] = q[i + 1]
<1>1. Len(q) \in Nat \ {0}
  BY EmptySeq
<1>2. QED
  BY <1>1, HeadTailProperties

-----------------------------------------------------------------------------
(***************************************************************************)
(* VoiceExpense: the inductive invariant.                                  *)
(***************************************************************************)

Ops == {"hasPermission", "requestPermission", "startRecording",
        "stopAndTranscribe", "cancelRecording"}

Coordinators == 0 .. MaxOpens

CallSet == [op : Ops, by : Coordinators]
AnswerSet == [op : Ops, by : Coordinators, ok : BOOLEAN, of : Coordinators]
JobSet == [call : [op : {"stopAndTranscribe"}, by : Coordinators], of : Coordinators]

\* The types of the queues, which VoiceTypeOK leaves to TLC to enumerate.
QueuesOK ==
  /\ toNative \in Seq(CallSet)
  /\ toDart \in Seq(AnswerSet)
  /\ jobs \in Seq(JobSet)
  /\ sheets + closing <= opens

\* The recorder knows the only thread that listens, and the main thread waits
\* for no other.
RecorderOK ==
  /\ waiting # 0 => isRecording /\ recorder = waiting
  /\ \A i \in Listening \ Dropped : isRecording /\ recorder = i

-----------------------------------------------------------------------------
(* Types *)

Thread == [at : {"none", "starting", "recording", "ended"}, quit : BOOLEAN,
           dropped : BOOLEAN, heard : BOOLEAN, by : Coordinators]

\* The types of the call and of the answer that a step adds to a queue.
LEMMA CallType ==
  ASSUME NEW op \in Ops, NEW g \in Coordinators
  PROVE  Call(op, g) \in CallSet
BY DEF Call, CallSet

\* A sent call keeps the type of its queue.
LEMMA SendType ==
  ASSUME toNative \in Seq(CallSet), NEW op \in Ops, NEW g \in Coordinators, Send(op, g)
  PROVE  toNative' \in Seq(CallSet)
BY CallType, AppendElements DEF Send

\* An answer keeps the type of its queue.
LEMMA ReplyType ==
  ASSUME toDart \in Seq(AnswerSet), NEW c \in CallSet, NEW ok \in BOOLEAN,
         NEW of \in Coordinators, Reply(c, ok, of)
  PROVE  toDart' \in Seq(AnswerSet)
<1>1. Answer(c, ok, of) \in AnswerSet
  BY DEF Answer, AnswerSet, CallSet
<1>2. QED
  BY <1>1, AppendElements DEF Reply

\* A call that is taken has its type, and keeps the type of its queue.
LEMMA TakenType ==
  ASSUME toNative \in Seq(CallSet), NEW op, Takes(op)
  PROVE  Head(toNative) \in CallSet /\ toNative' \in Seq(CallSet)
BY TailElements DEF Takes

\* An assignment to the state keeps its types.
LEMMA StatusType ==
  ASSUME VoiceTypeOK, NEW g, NEW d \in 0 .. MaxOpens,
         NEW s \in {"ready", "listening", "processing", "result", "error"},
         SetStatus(g, s, d)
  PROVE  /\ status' \in {"ready", "listening", "processing", "result", "error"}
         /\ draft' \in 0 .. MaxOpens
BY DEF SetStatus, VoiceTypeOK

\* The app starts with the types.
LEMMA TypesInit == VoiceInit => VoiceTypeOK /\ QueuesOK
<1> SUFFICES ASSUME VoiceInit PROVE VoiceTypeOK /\ QueuesOK
  OBVIOUS
<1>1. {MaxOpens, MaxThreads, MaxStarts} \subseteq Nat
  BY VoiceAssumption
<1>2. NoThread \in Thread
  BY <1>1 DEF NoThread, Thread, Coordinators
<1>3. thread \in [Threads -> Thread]
  BY <1>2 DEF VoiceInit
<1>4. VoiceTypeOK
  <2>1. /\ 0 \in 0 .. MaxOpens /\ 0 \in 0 .. MaxStarts /\ 0 \in 0 .. MaxThreads
        /\ 0 \in 0 .. opens
    BY <1>1 DEF VoiceInit
  <2>2. QED
    BY <1>3, <2>1 DEF VoiceInit, VoiceTypeOK, Thread, Coordinators
<1>5. QueuesOK
  BY EmptySeq DEF VoiceInit, QueuesOK
<1>6. QED
  BY <1>4, <1>5

\* What the user does keeps the types.
LEMMA UserTypes ==
  ASSUME VoiceTypeOK, QueuesOK, UserAction \/ UnmountSheet
  PROVE  VoiceTypeOK' /\ QueuesOK'
<1>1. /\ MaxOpens \in Nat /\ MaxStarts \in Nat
      /\ opens \in Nat /\ sheets \in Nat /\ closing \in Nat /\ gen \in Nat /\ starts \in Nat
      /\ opens <= MaxOpens /\ gen <= opens /\ starts <= MaxStarts
      /\ sheets + closing <= opens /\ gen \in Coordinators
  BY VoiceAssumption DEF VoiceTypeOK, QueuesOK, Coordinators
<1>2. {"hasPermission", "stopAndTranscribe", "cancelRecording"} \subseteq Ops
  BY DEF Ops
<1>3. ASSUME NEW autoStart \in BOOLEAN, OpenSheet(autoStart)
      PROVE  VoiceTypeOK' /\ QueuesOK'
  <2>1. /\ opens' = opens + 1 /\ opens' <= MaxOpens /\ sheets' = sheets + 1
        /\ UNCHANGED <<closing, toDart, granted, asking, parsing>>
        /\ UNCHANGED <<isRecording, recorder, waiting, thread, jobs, loaded>>
    BY <1>1, <1>3 DEF OpenSheet, recorderVars, workerVars
  <2>2. gen' \in 0 .. opens'
    BY <1>1, <1>3 DEF OpenSheet
  <2>3. /\ alive' \in BOOLEAN /\ draft' \in 0 .. MaxOpens
        /\ status' \in {"ready", "listening", "processing", "result", "error"}
    <3>1. 0 \in 0 .. MaxOpens
      BY <1>1
    <3>2. CASE alive
      BY <1>3, <3>2 DEF OpenSheet, VoiceTypeOK
    <3>3. CASE ~ alive
      BY <1>3, <3>1, <3>3 DEF OpenSheet
    <3>4. QED
      BY <3>2, <3>3
  <2>4. starts' \in 0 .. MaxStarts
    BY <1>1, <1>3 DEF OpenSheet
  <2>5. gen' \in Coordinators
    BY <1>1, <2>1, <2>2 DEF Coordinators
  <2>6. toNative' \in Seq(CallSet)
    BY <1>2, <1>3, <2>5, SendType DEF OpenSheet, QueuesOK
  <2>7. sheets' + closing' <= opens' /\ {opens', sheets', closing'} \subseteq 0 .. MaxOpens
    BY <1>1, <2>1
  <2>8. VoiceTypeOK'
    BY <2>1, <2>2, <2>3, <2>4, <2>7 DEF VoiceTypeOK
  <2>9. QED
    BY <2>1, <2>6, <2>7, <2>8 DEF QueuesOK
<1>4. ASSUME StartListening PROVE VoiceTypeOK' /\ QueuesOK'
  <2>1. /\ UNCHANGED <<opens, sheets, closing, gen, alive, status, draft, toDart,
                       granted, asking, parsing>>
        /\ UNCHANGED <<isRecording, recorder, waiting, thread, jobs, loaded>>
    BY <1>4 DEF StartListening, recorderVars, workerVars
  <2>2. starts' \in 0 .. MaxStarts
    BY <1>1, <1>4 DEF StartListening
  <2>3. toNative' \in Seq(CallSet)
    BY <1>1, <1>2, <1>4, SendType DEF StartListening, QueuesOK
  <2>4. QED
    BY <2>1, <2>2, <2>3 DEF VoiceTypeOK, QueuesOK
<1>5. ASSUME StopAndProcess PROVE VoiceTypeOK' /\ QueuesOK'
  <2>1. /\ UNCHANGED <<opens, sheets, closing, gen, alive, draft, starts, toDart,
                       granted, asking, parsing>>
        /\ UNCHANGED <<isRecording, recorder, waiting, thread, jobs, loaded>>
        /\ status' = "processing"
    BY <1>5 DEF StopAndProcess, recorderVars, workerVars
  <2>2. toNative' \in Seq(CallSet)
    BY <1>1, <1>2, <1>5, SendType DEF StopAndProcess, QueuesOK
  <2>3. QED
    BY <2>1, <2>2 DEF VoiceTypeOK, QueuesOK
<1>6. ASSUME UnmountSheet \/ \E review \in BOOLEAN : CloseSheet(review)
      PROVE  VoiceTypeOK' /\ QueuesOK'
  <2>1. /\ UNCHANGED <<opens, gen, starts, toDart, granted, asking, parsing>>
        /\ UNCHANGED <<isRecording, recorder, waiting, thread, jobs, loaded>>
    BY <1>6 DEF UnmountSheet, CloseSheet, recorderVars, workerVars
  <2>2. sheets' \in Nat /\ closing' \in Nat /\ sheets' + closing' <= opens
    BY <1>1, <1>6 DEF UnmountSheet, CloseSheet
  <2>3. /\ alive' \in BOOLEAN /\ draft' \in 0 .. MaxOpens
        /\ status' \in {"ready", "listening", "processing", "result", "error"}
    <3>1. 0 \in 0 .. MaxOpens
      BY <1>1
    <3>2. CASE UnmountSheet
      BY <3>1, <3>2 DEF UnmountSheet
    <3>3. CASE \E review \in BOOLEAN : CloseSheet(review)
      BY <3>1, <3>3 DEF CloseSheet, VoiceTypeOK
    <3>4. QED
      BY <1>6, <3>2, <3>3
  <2>4. toNative' \in Seq(CallSet)
    BY <1>1, <1>2, <1>6, SendType DEF UnmountSheet, CloseSheet, QueuesOK
  <2>5. sheets' \in 0 .. MaxOpens /\ closing' \in 0 .. MaxOpens
    <3>1. \A x, y \in Nat : x + y <= opens => x \in 0 .. MaxOpens /\ y \in 0 .. MaxOpens
      BY <1>1
    <3>2. QED
      BY <2>2, <3>1
  <2>6. QED
    BY <2>1, <2>2, <2>3, <2>4, <2>5 DEF VoiceTypeOK, QueuesOK
<1>7. QED
  BY <1>3, <1>4, <1>5, <1>6 DEF UserAction

\* What the coordinator does with an answer or a transcript keeps the types.
LEMMA DartTypes ==
  ASSUME VoiceTypeOK, QueuesOK, Deliver \/ ShowDraft
  PROVE  VoiceTypeOK' /\ QueuesOK'
<1>1. /\ UNCHANGED <<opens, sheets, closing, gen, alive, starts, granted, asking>>
      /\ UNCHANGED <<isRecording, recorder, waiting, thread, jobs, loaded>>
  BY DEF Deliver, ShowDraft, recorderVars, workerVars
<1>2. MaxOpens \in Nat
  BY VoiceAssumption
<1>3. CASE ShowDraft
  <2>1. PICK p \in parsing :
          /\ parsing' = parsing \ {p}
          /\ SetStatus(p.by, "result", p.of) \/ SetStatus(p.by, "error", draft)
    BY <1>3 DEF ShowDraft
  <2>2. p.of \in 0 .. MaxOpens /\ draft \in 0 .. MaxOpens
    BY <2>1 DEF VoiceTypeOK
  <2>3. /\ status' \in {"ready", "listening", "processing", "result", "error"}
        /\ draft' \in 0 .. MaxOpens
    BY <2>1, <2>2, StatusType
  <2>4. UNCHANGED <<toNative, toDart>>
    BY <1>3 DEF ShowDraft
  <2>5. QED
    BY <1>1, <2>1, <2>3, <2>4 DEF VoiceTypeOK, QueuesOK
<1>4. CASE Deliver
  <2> DEFINE a == Head(toDart)
  <2>1. a \in AnswerSet /\ toDart' \in Seq(AnswerSet)
    BY <1>4, TailElements DEF Deliver, QueuesOK
  <2>2. /\ a.op \in Ops /\ a.by \in Coordinators /\ a.of \in Coordinators
        /\ a.ok \in BOOLEAN /\ {"startRecording", "requestPermission"} \subseteq Ops
    BY <2>1 DEF AnswerSet, Ops
  <2>3. \/ AfterHasPermission(a) \/ AfterRequestPermission(a) \/ AfterStart(a)
        \/ AfterStop(a) \/ AfterCancel(a)
    BY <1>4, <2>2 DEF Deliver, Ops
  <2>4. toNative' \in Seq(CallSet)
    <3>1. \/ toNative' = toNative
          \/ Send("startRecording", Living(a.by)) \/ Send("requestPermission", a.by)
      BY <2>3 DEF AfterHasPermission, AfterRequestPermission, AfterStart, AfterStop,
                  AfterCancel
    <3>2. Living(a.by) \in Coordinators
      BY <1>2, <2>2 DEF Living, Coordinators
    <3>3. QED
      BY <2>2, <3>1, <3>2, SendType DEF QueuesOK
  <2>5. parsing' \subseteq [by : 0 .. MaxOpens, of : 0 .. MaxOpens]
    <3>1. parsing' = parsing \/ parsing' = parsing \cup {[by |-> a.by, of |-> a.of]}
      BY <2>3 DEF AfterHasPermission, AfterRequestPermission, AfterStart, AfterStop,
                  AfterCancel
    <3>2. QED
      BY <2>2, <3>1 DEF VoiceTypeOK, Coordinators
  <2>6. /\ status' \in {"ready", "listening", "processing", "result", "error"}
        /\ draft' \in 0 .. MaxOpens
    <3>1. \/ UNCHANGED <<status, draft>>
          \/ \E s \in {"ready", "listening", "error"}, d \in {0, draft} :
               SetStatus(a.by, s, d)
      BY <2>3 DEF AfterHasPermission, AfterRequestPermission, AfterStart, AfterStop,
                  AfterCancel
    <3>2. {0, draft} \subseteq 0 .. MaxOpens
      BY <1>2 DEF VoiceTypeOK
    <3>3. CASE UNCHANGED <<status, draft>>
      BY <3>3 DEF VoiceTypeOK
    <3>4. CASE \E s \in {"ready", "listening", "error"}, d \in {0, draft} :
                 SetStatus(a.by, s, d)
      BY <3>2, <3>4, StatusType
    <3>5. QED
      BY <3>1, <3>3, <3>4
  <2> HIDE DEF a
  <2>7. QED
    BY <1>1, <2>1, <2>4, <2>5, <2>6 DEF VoiceTypeOK, QueuesOK
<1>5. QED
  BY <1>3, <1>4

\* The parts of the types a native step can disturb.
LEMMA NativeTypes ==
  ASSUME VoiceTypeOK, QueuesOK, UNCHANGED sheetVars,
         granted' \in BOOLEAN, asking' \in Coordinators, isRecording' \in BOOLEAN,
         recorder' \in 0 .. MaxThreads, waiting' \in 0 .. MaxThreads,
         thread' \in [Threads -> Thread], loaded' \in BOOLEAN,
         toNative' \in Seq(CallSet), toDart' \in Seq(AnswerSet), jobs' \in Seq(JobSet)
  PROVE  VoiceTypeOK' /\ QueuesOK'
BY DEF VoiceTypeOK, QueuesOK, sheetVars, Thread, Coordinators

\* What those parts are before the step.
LEMMA NativeTypesNow ==
  ASSUME VoiceTypeOK, QueuesOK
  PROVE  /\ granted \in BOOLEAN /\ asking \in Coordinators /\ isRecording \in BOOLEAN
         /\ recorder \in 0 .. MaxThreads /\ waiting \in 0 .. MaxThreads
         /\ thread \in [Threads -> Thread] /\ loaded \in BOOLEAN
         /\ toNative \in Seq(CallSet) /\ toDart \in Seq(AnswerSet) /\ jobs \in Seq(JobSet)
         /\ 0 \in Coordinators /\ 0 \in 0 .. MaxThreads
         /\ \A i \in 0 .. MaxThreads : i # 0 => i \in Threads
<1>1. MaxOpens \in Nat /\ MaxThreads \in Nat
  BY VoiceAssumption
<1>2. QED
  BY <1>1 DEF VoiceTypeOK, QueuesOK, Thread, Coordinators, Threads

\* A mark set on a recorder thread keeps the type of the threads.
LEMMA MarkType ==
  ASSUME thread \in [Threads -> Thread], NEW i \in Threads
  PROVE  /\ [thread EXCEPT ![i].quit = TRUE] \in [Threads -> Thread]
         /\ [thread EXCEPT ![i].dropped = TRUE] \in [Threads -> Thread]
<1>1. thread[i] \in Thread
  OBVIOUS
<1>2. [thread[i] EXCEPT !.quit = TRUE] \in Thread
  BY <1>1 DEF Thread
<1>3. [thread[i] EXCEPT !.dropped = TRUE] \in Thread
  BY <1>1 DEF Thread
<1>4. QED
  BY <1>2, <1>3

\* The main thread, the permission dialog, the recorder threads and the worker
\* keep the types.
LEMMA NativeStepTypes ==
  ASSUME VoiceTypeOK, QueuesOK, RecorderOK,
         \/ MainThread \/ Worker
         \/ \E grant \in BOOLEAN : HandlePermissionResult(grant)
         \/ \E i \in Threads : Initialize(i) \/ Read(i) \/ End(i)
  PROVE  VoiceTypeOK' /\ QueuesOK'
<1> USE NativeTypesNow
<1>1. ASSUME HandleHasPermission PROVE VoiceTypeOK' /\ QueuesOK'
  <2>1. toNative' \in Seq(CallSet) /\ toDart' \in Seq(AnswerSet)
    BY <1>1, TakenType, ReplyType DEF HandleHasPermission
  <2>2. QED
    BY <1>1, <2>1, NativeTypes DEF HandleHasPermission, recorderVars, workerVars
<1>2. ASSUME HandleRequestPermission PROVE VoiceTypeOK' /\ QueuesOK'
  <2>1. Head(toNative) \in CallSet /\ toNative' \in Seq(CallSet)
    BY <1>2, TakenType DEF HandleRequestPermission
  <2>2. toDart' \in Seq(AnswerSet)
    BY <1>2, <2>1, ReplyType DEF HandleRequestPermission
  <2>3. asking' \in Coordinators
    BY <1>2, <2>1 DEF HandleRequestPermission, CallSet
  <2>4. QED
    BY <1>2, <2>1, <2>2, <2>3, NativeTypes
    DEF HandleRequestPermission, recorderVars, workerVars
<1>3. ASSUME NEW grant \in BOOLEAN, HandlePermissionResult(grant)
      PROVE  VoiceTypeOK' /\ QueuesOK'
  <2>1. Call("requestPermission", asking) \in CallSet
    BY CallType DEF Ops
  <2>2. toDart' \in Seq(AnswerSet)
    BY <1>3, <2>1, ReplyType DEF HandlePermissionResult
  <2>3. QED
    BY <1>3, <2>2, NativeTypes DEF HandlePermissionResult, recorderVars, workerVars
<1>4. ASSUME HandleStartRecording PROVE VoiceTypeOK' /\ QueuesOK'
  <2>1. Head(toNative) \in CallSet /\ toNative' \in Seq(CallSet)
    BY <1>4, TakenType DEF HandleStartRecording
  <2>2. CASE UNCHANGED recorderVars
    <3>1. toDart' \in Seq(AnswerSet)
      BY <1>4, <2>1, <2>2, ReplyType, \A i \in Threads : i > 0
      DEF HandleStartRecording, recorderVars, Threads
    <3>2. QED
      BY <1>4, <2>1, <2>2, <3>1, NativeTypes
      DEF HandleStartRecording, recorderVars, workerVars
  <2>3. CASE ~ UNCHANGED recorderVars
    <3>1. /\ \E i \in Threads : thread[i].at = "none"
          /\ isRecording' = TRUE /\ recorder' = FreshThread /\ waiting' = FreshThread
          /\ thread' = [thread EXCEPT ![FreshThread] =
                          [NoThread EXCEPT !.at = "starting", !.by = Head(toNative).by]]
          /\ toDart' = toDart
      BY <1>4, <2>3 DEF HandleStartRecording
    <3>2. FreshThread \in Threads
      BY <3>1 DEF FreshThread
    <3>3. FreshThread \in 0 .. MaxThreads
      BY <3>2, VoiceAssumption DEF Threads
    <3>4. [NoThread EXCEPT !.at = "starting", !.by = Head(toNative).by] \in Thread
      BY <2>1 DEF NoThread, Thread, CallSet
    <3>5. thread' \in [Threads -> Thread]
      BY <3>1, <3>2, <3>4
    <3>6. QED
      BY <1>4, <2>1, <3>1, <3>3, <3>5, NativeTypes DEF HandleStartRecording, workerVars
  <2>4. QED
    BY <2>2, <2>3
<1>5. ASSUME StartAnswered \/ StartTimesOut PROVE VoiceTypeOK' /\ QueuesOK'
  <2>1. waiting \in Threads /\ \E ok \in BOOLEAN : AnswerStart(ok)
    BY <1>5 DEF StartAnswered, StartTimesOut
  <2>2. PICK ok \in BOOLEAN : AnswerStart(ok)
    BY <2>1
  <2>3. Call("startRecording", thread[waiting].by) \in CallSet
    BY <2>1, CallType DEF Ops, Thread
  <2>4. toDart' \in Seq(AnswerSet)
    BY <2>2, <2>3, ReplyType DEF AnswerStart
  <2>5. thread' \in [Threads -> Thread]
    BY <1>5, <2>1, MarkType DEF StartAnswered, StartTimesOut
  <2>6. QED
    BY <2>2, <2>4, <2>5, NativeTypes DEF AnswerStart, workerVars
<1>6. ASSUME HandleStop PROVE VoiceTypeOK' /\ QueuesOK'
  <2>1. Head(toNative) \in CallSet /\ toNative' \in Seq(CallSet)
    BY <1>6, TakenType DEF HandleStop
  <2>2. CASE isRecording /\ recorder # 0
    <3>1. recorder \in Threads
      BY <2>2
    <3>2. thread' \in [Threads -> Thread]
      BY <1>6, <2>2, <3>1, MarkType DEF HandleStop
    <3>3. [call |-> Head(toNative), of |-> thread[recorder].by] \in JobSet
      <4>1. Head(toNative) \in [op : {"stopAndTranscribe"}, by : Coordinators]
        BY <1>6, <2>1 DEF HandleStop, Takes, CallSet
      <4>2. QED
        BY <3>1, <4>1 DEF JobSet, Thread
    <3>4. jobs' \in Seq(JobSet)
      <4>1. \/ jobs' = jobs
            \/ jobs' = Append(jobs, [call |-> Head(toNative), of |-> thread[recorder].by])
        BY <1>6, <2>2 DEF HandleStop
      <4>2. jobs \in Seq(JobSet)
        OBVIOUS
      <4>3. \A e \in JobSet : Append(jobs, e) \in Seq(JobSet)
        BY <4>2, AppendElements
      <4>4. QED
        BY <3>3, <4>1, <4>2, <4>3
    <3>5. toDart' \in Seq(AnswerSet)
      BY <1>6, <2>1, <2>2, ReplyType DEF HandleStop
    <3>6. QED
      BY <1>6, <2>1, <2>2, <3>2, <3>4, <3>5, NativeTypes DEF HandleStop
  <2>3. CASE ~ (isRecording /\ recorder # 0)
    <3>1. toDart' \in Seq(AnswerSet)
      BY <1>6, <2>1, <2>3, ReplyType DEF HandleStop
    <3>2. QED
      BY <1>6, <2>1, <2>3, <3>1, NativeTypes DEF HandleStop
  <2>4. QED
    BY <2>2, <2>3
<1>7. ASSUME HandleCancel PROVE VoiceTypeOK' /\ QueuesOK'
  <2>1. Head(toNative) \in CallSet /\ toNative' \in Seq(CallSet)
    BY <1>7, TakenType DEF HandleCancel
  <2>2. toDart' \in Seq(AnswerSet)
    BY <1>7, <2>1, ReplyType DEF HandleCancel
  <2>3. thread' \in [Threads -> Thread] /\ recorder' \in 0 .. MaxThreads
    BY <1>7, MarkType DEF HandleCancel
  <2>4. QED
    BY <1>7, <2>1, <2>2, <2>3, NativeTypes DEF HandleCancel, workerVars
<1>8. ASSUME NEW i \in Threads, Initialize(i) \/ Read(i) \/ End(i)
      PROVE  VoiceTypeOK' /\ QueuesOK'
  <2>1. PICK at \in {"recording", "ended"}, heard \in BOOLEAN : ThreadStep(i, at, heard)
    <3>1. thread[i].heard \in BOOLEAN
      BY DEF Thread
    <3>2. QED
      BY <1>8, <3>1 DEF Initialize, Read, End
  <2>2. thread' \in [Threads -> Thread]
    BY <2>1 DEF ThreadStep, Thread
  <2>3. QED
    BY <2>1, <2>2, NativeTypes DEF ThreadStep, workerVars
<1>9. ASSUME Worker PROVE VoiceTypeOK' /\ QueuesOK'
  <2>1. /\ jobs # <<>>
        /\ \/ jobs' = jobs /\ toDart' = toDart
           \/ \E ok \in BOOLEAN : Finish(ok)
        /\ loaded' \in BOOLEAN
    BY <1>9 DEF Worker, LoadModel, Transcribe
  <2>2. Head(jobs) \in JobSet /\ Tail(jobs) \in Seq(JobSet)
    BY <2>1, TailElements
  <2>3. Head(jobs).call \in CallSet /\ Head(jobs).of \in Coordinators
    BY <2>2 DEF JobSet, CallSet, Ops
  <2>4. jobs' \in Seq(JobSet) /\ toDart' \in Seq(AnswerSet)
    <3>1. ASSUME NEW ok \in BOOLEAN, Finish(ok) PROVE toDart' \in Seq(AnswerSet)
      <4>1. (IF ok THEN Head(jobs).of ELSE 0) \in Coordinators
        BY <2>3
      <4>2. QED
        BY <2>3, <3>1, <4>1, ReplyType DEF Finish
    <3>2. QED
      BY <2>1, <2>2, <3>1 DEF Finish
  <2>5. /\ UNCHANGED <<toNative, granted, asking, isRecording, recorder, waiting, thread>>
        /\ UNCHANGED sheetVars
    BY <1>9 DEF Worker, LoadModel, Transcribe, recorderVars
  <2>6. QED
    BY <2>1, <2>4, <2>5, NativeTypes
<1>10. QED
  BY <1>1, <1>2, <1>3, <1>4, <1>5, <1>6, <1>7, <1>8, <1>9 DEF MainThread

-----------------------------------------------------------------------------
(* The recorder *)

\* Only the native main thread and the recorder threads touch the recorder.
LEMMA RecorderStep == VoiceTypeOK /\ QueuesOK /\ RecorderOK /\ VoiceNext => RecorderOK'
<1> SUFFICES ASSUME VoiceTypeOK, QueuesOK, RecorderOK, VoiceNext
             PROVE  RecorderOK'
  OBVIOUS
<1>0. /\ thread \in [Threads -> Thread]
      /\ \A i \in Threads : i # 0
      /\ \A i \in 0 .. MaxThreads : i # 0 => i \in Threads
      /\ recorder \in 0 .. MaxThreads /\ waiting \in 0 .. MaxThreads
  BY NativeTypesNow DEF Threads
<1>1. ASSUME UNCHANGED recorderVars PROVE RecorderOK'
  BY <1>1 DEF RecorderOK, recorderVars, Listening, Dropped
<1>2. ASSUME HandleStartRecording, ~ UNCHANGED recorderVars PROVE RecorderOK'
  <2>1. /\ ~ isRecording /\ \E i \in Threads : thread[i].at = "none"
        /\ isRecording' = TRUE /\ recorder' = FreshThread /\ waiting' = FreshThread
        /\ thread' = [thread EXCEPT ![FreshThread] =
                        [NoThread EXCEPT !.at = "starting", !.by = Head(toNative).by]]
    BY <1>2 DEF HandleStartRecording
  <2>2. \A i \in Threads \ {FreshThread} : thread'[i] = thread[i]
    BY <1>0, <2>1
  <2>3. Listening \ Dropped = {}
    BY <2>1 DEF RecorderOK
  <2>4. \A i \in (Listening \ Dropped)' : i = FreshThread
    BY <2>2, <2>3 DEF Listening, Dropped
  <2>5. QED
    BY <2>1, <2>4 DEF RecorderOK
<1>3. ASSUME StartAnswered PROVE RecorderOK'
  <2>1. /\ waiting # 0 /\ waiting' = 0 /\ thread' = thread
        /\ isRecording' = (thread[waiting].at = "recording")
        /\ recorder' = IF isRecording' THEN waiting ELSE 0
        /\ thread[waiting].at # "starting"
    BY <1>3 DEF StartAnswered, AnswerStart
  <2>2. \A i \in Listening \ Dropped : i = waiting /\ thread[i].at = "recording"
    BY <2>1 DEF RecorderOK, Listening
  <2>3. QED
    BY <2>1, <2>2 DEF RecorderOK, Listening, Dropped
<1>4. ASSUME StartTimesOut PROVE RecorderOK'
  <2>1. /\ waiting # 0 /\ waiting' = 0 /\ waiting \in Threads
        /\ thread' = [thread EXCEPT ![waiting].dropped = TRUE]
    BY <1>0, <1>4 DEF StartTimesOut, AnswerStart
  <2>2. \A i \in Listening \ Dropped : i = waiting
    BY <2>1 DEF RecorderOK
  <2>3. thread'[waiting].dropped /\ \A i \in Threads \ {waiting} : thread'[i] = thread[i]
    BY <1>0, <2>1 DEF Thread
  <2>4. (Listening \ Dropped)' = {}
    BY <2>1, <2>2, <2>3 DEF Listening, Dropped
  <2>5. QED
    BY <2>1, <2>4 DEF RecorderOK
<1>5. ASSUME HandleStop \/ HandleCancel PROVE RecorderOK'
  <2>1. /\ waiting = 0 /\ waiting' = 0 /\ isRecording' = FALSE
        /\ IF isRecording /\ recorder # 0
             THEN thread' = [thread EXCEPT ![recorder].quit = TRUE]
             ELSE thread' = thread
    BY <1>5 DEF HandleStop, HandleCancel, Takes
  <2>2. (Listening \ Dropped)' = {}
    <3>1. CASE isRecording /\ recorder # 0
      <4>1. recorder \in Threads
        BY <1>0, <3>1
      <4>2. thread'[recorder].quit /\ \A i \in Threads \ {recorder} : thread'[i] = thread[i]
        BY <1>0, <2>1, <3>1, <4>1 DEF Thread
      <4>3. QED
        BY <4>2 DEF RecorderOK, Listening, Dropped
    <3>2. CASE ~ (isRecording /\ recorder # 0)
      <4>1. Listening \ Dropped = {}
        BY <1>0, <3>2 DEF RecorderOK, Listening
      <4>2. QED
        BY <2>1, <3>2, <4>1 DEF Listening, Dropped
    <3>3. QED
      BY <3>1, <3>2
  <2>3. QED
    BY <2>1, <2>2 DEF RecorderOK
<1>6. ASSUME NEW i \in Threads, Initialize(i) \/ Read(i) \/ End(i)
      PROVE  RecorderOK'
  <2>1. /\ UNCHANGED <<isRecording, recorder, waiting>>
        /\ thread[i].at \in {"starting", "recording"}
        /\ \E at, heard : thread' = [thread EXCEPT ![i].at = at, ![i].heard = heard]
    BY <1>6 DEF Initialize, Read, End, ThreadStep
  <2>2. /\ \A j \in Threads \ {i} : thread'[j] = thread[j]
        /\ thread'[i].quit = thread[i].quit /\ thread'[i].dropped = thread[i].dropped
    BY <1>0, <2>1 DEF Thread
  <2>3. (Listening \ Dropped)' \subseteq Listening \ Dropped
    BY <2>1, <2>2 DEF Listening, Dropped
  <2>4. QED
    BY <2>1, <2>3 DEF RecorderOK
<1>7. \/ UNCHANGED recorderVars
      \/ HandleStartRecording \/ StartAnswered \/ StartTimesOut \/ HandleStop \/ HandleCancel
      \/ \E i \in Threads : Initialize(i) \/ Read(i) \/ End(i)
  BY DEF VoiceNext, UserAction, OpenSheet, StartListening, StopAndProcess, CloseSheet,
         UnmountSheet, Deliver, ShowDraft, MainThread, HandleHasPermission,
         HandleRequestPermission, HandlePermissionResult, Worker, LoadModel, Transcribe
<1>8. QED
  BY <1>1, <1>2, <1>3, <1>4, <1>5, <1>6, <1>7

-----------------------------------------------------------------------------
(* The theorems *)

VoiceIInv == VoiceTypeOK /\ QueuesOK /\ RecorderOK

\* The invariant holds when the app starts.
LEMMA VoiceIInvInit == VoiceInit => VoiceIInv
<1>1. VoiceInit => RecorderOK
  BY DEF VoiceInit, RecorderOK, Listening, Dropped, NoThread
<1>2. QED
  BY <1>1, TypesInit DEF VoiceIInv

\* Every step keeps the invariant.
LEMMA VoiceIInvStep == VoiceIInv /\ [VoiceNext]_vars => VoiceIInv'
<1>1. ASSUME VoiceIInv, VoiceNext PROVE VoiceIInv'
  <2>1. VoiceTypeOK' /\ QueuesOK'
    BY <1>1, UserTypes, DartTypes, NativeStepTypes DEF VoiceIInv, VoiceNext
  <2>2. QED
    BY <1>1, <2>1, RecorderStep DEF VoiceIInv
<1>2. ASSUME VoiceIInv, UNCHANGED vars PROVE VoiceIInv'
  <2>1. /\ UNCHANGED sheetVars
        /\ UNCHANGED <<toNative, toDart, granted, asking>>
        /\ UNCHANGED <<isRecording, recorder, waiting, thread>> /\ UNCHANGED <<jobs, loaded>>
    BY <1>2 DEF vars, recorderVars, workerVars
  <2>2. VoiceTypeOK' /\ QueuesOK'
    BY <1>2, <2>1, NativeTypes, NativeTypesNow DEF VoiceIInv
  <2>3. RecorderOK'
    BY <1>2, <2>1 DEF VoiceIInv, RecorderOK, Listening, Dropped
  <2>4. QED
    BY <2>2, <2>3 DEF VoiceIInv
<1>3. QED
  BY <1>1, <1>2

\* The state of the sheet, the channel, the recorder and the worker always has
\* its types.
THEOREM VoiceTypeCorrect == VoiceSpec => []VoiceTypeOK
<1>1. VoiceIInv => VoiceTypeOK
  BY DEF VoiceIInv
<1>2. QED
  BY <1>1, VoiceIInvInit, VoiceIInvStep, PTL DEF VoiceSpec

\* A recording that was not told to stop, and whose start the main thread did not
\* give up, is the one that the next stop or cancel reaches: VoiceRecorder's
\* recordThread, with isRecording set.
THEOREM VoiceRecordingInReach == VoiceSpec => []RecordingInReach
<1>1. VoiceIInv => RecordingInReach
  BY DEF VoiceIInv, RecorderOK, RecordingInReach
<1>2. QED
  BY <1>1, VoiceIInvInit, VoiceIInvStep, PTL DEF VoiceSpec

-----------------------------------------------------------------------------
(***************************************************************************)
(* VoiceExpense: whose recording it is.                                    *)
(*                                                                         *)
(* Who has the microphone is the Owner, the newest coordinator or, after   *)
(* the last sheet, nobody.  A recording asked for by a coordinator that    *)
(* lived then has an owner; one asked for later carries 0, and nothing is  *)
(* claimed of it.                                                          *)
(***************************************************************************)

CancelBetween(q, i, j) == \E k \in i + 1 .. j - 1 : q[k].op = "cancelRecording"

\* A recording of coordinator h that starts at place i of the calls (at 0 if it
\* goes on already) is cancelled before another coordinator stops it, and before
\* anybody but g has the microphone.
OnlyOwn(q, i, h, g) ==
  /\ \A j \in i + 1 .. Len(q) :
       q[j].op = "stopAndTranscribe" /\ q[j].by # h => CancelBetween(q, i, j)
  /\ h # g => CancelBetween(q, i, Len(q) + 1)

StartsOwn(q, g) ==
  \A i \in 1 .. Len(q) :
    q[i].op = "startRecording" /\ q[i].by # 0 => OnlyOwn(q, i, q[i].by, g)

HeldOwn(q, g) ==
  isRecording /\ recorder # 0 /\ thread[recorder].by # 0
    => OnlyOwn(q, 0, thread[recorder].by, g)

Owner == Living(gen)

RecordingsOwn == StartsOwn(toNative, Owner) /\ HeldOwn(toNative, Owner)

JobsOwn(q) == \A i \in 1 .. Len(q) : q[i].of \in {q[i].call.by, 0}

AnswersOwn(q) ==
  \A i \in 1 .. Len(q) :
    q[i].op = "stopAndTranscribe" /\ q[i].ok => q[i].of \in {q[i].by, 0}

\* What is transcribed, answered and parsed was said to the coordinator that
\* has stopped the recording, or the recording had no owner.
TranscriptsOwn ==
  /\ JobsOwn(jobs) /\ AnswersOwn(toDart)
  /\ \A p \in parsing : p.of \in {p.by, 0}

\* The newest coordinator lives as long as there is a sheet.
AliveOK == alive = (sheets + closing > 0)

OwnIInv == AliveOK /\ RecordingsOwn /\ TranscriptsOwn /\ OwnWords

-----------------------------------------------------------------------------
(* Recordings and calls in the queues *)

\* A call sent behind the others leaves what is before it apart, if it does not
\* stop the recording of another and starts one only for who has the microphone.
LEMMA OwnAppend ==
  ASSUME NEW S, NEW q \in Seq(S), NEW e \in S, NEW g,
         e.op = "stopAndTranscribe" => e.by = g,
         e.op = "startRecording" => e.by \in {g, 0}
  PROVE  /\ \A i \in 0 .. Len(q) : \A h :
               OnlyOwn(q, i, h, g) => OnlyOwn(Append(q, e), i, h, g)
         /\ StartsOwn(q, g) => StartsOwn(Append(q, e), g)
<1> DEFINE r == Append(q, e)
<1>1. /\ Len(q) \in Nat /\ Len(r) = Len(q) + 1 /\ r[Len(q) + 1] = e
      /\ \A i \in 1 .. Len(q) : r[i] = q[i]
  BY AppendElements
<1> HIDE DEF r
<1>2. ASSUME NEW i \in 0 .. Len(q), NEW j \in 0 .. Len(q) + 1, CancelBetween(q, i, j)
      PROVE  CancelBetween(r, i, j)
  <2>1. PICK k \in i + 1 .. j - 1 : q[k].op = "cancelRecording"
    BY <1>2 DEF CancelBetween
  <2>2. k \in 1 .. Len(q)
    BY <1>1, <1>2, <2>1
  <2>3. QED
    BY <1>1, <2>1, <2>2 DEF CancelBetween
<1>3. ASSUME NEW i \in 0 .. Len(q), NEW h, OnlyOwn(q, i, h, g)
      PROVE  OnlyOwn(r, i, h, g)
  <2>1. ASSUME NEW j \in i + 1 .. Len(r), r[j].op = "stopAndTranscribe", r[j].by # h
        PROVE  CancelBetween(r, i, j)
    <3>1. CASE j = Len(q) + 1
      <4>1. h # g
        BY <1>1, <2>1, <3>1
      <4>2. CancelBetween(q, i, j)
        BY <1>3, <3>1, <4>1 DEF OnlyOwn
      <4>3. QED
        BY <1>1, <1>2, <3>1, <4>2
    <3>2. CASE j # Len(q) + 1
      <4>1. j \in i + 1 .. Len(q) /\ j \in 1 .. Len(q) /\ j \in 0 .. Len(q) + 1
        BY <1>1, <1>3, <2>1, <3>2
      <4>2. CancelBetween(q, i, j)
        BY <1>1, <1>3, <2>1, <4>1 DEF OnlyOwn
      <4>3. QED
        BY <1>2, <4>1, <4>2
    <3>3. QED
      BY <3>1, <3>2
  <2>2. ASSUME h # g PROVE CancelBetween(r, i, Len(r) + 1)
    <3>1. CancelBetween(q, i, Len(q) + 1) /\ Len(q) + 1 \in 0 .. Len(q) + 1
      BY <1>1, <1>3, <2>2 DEF OnlyOwn
    <3>2. PICK k \in i + 1 .. Len(q) + 1 - 1 : r[k].op = "cancelRecording"
      BY <1>2, <3>1 DEF CancelBetween
    <3>3. k \in i + 1 .. Len(r) + 1 - 1
      BY <1>1, <3>2
    <3>4. QED
      BY <3>2, <3>3 DEF CancelBetween
  <2>3. QED
    BY <2>1, <2>2 DEF OnlyOwn
<1>4. ASSUME StartsOwn(q, g) PROVE StartsOwn(r, g)
  <2>1. SUFFICES ASSUME NEW i \in 1 .. Len(r), r[i].op = "startRecording", r[i].by # 0
                 PROVE  OnlyOwn(r, i, r[i].by, g)
    BY DEF StartsOwn
  <2>2. CASE i = Len(q) + 1
    <3>1. r[i].by = g
      BY <1>1, <2>1, <2>2
    <3>2. \A j \in i + 1 .. Len(r) : FALSE
      BY <1>1, <2>2
    <3>3. QED
      BY <3>1, <3>2 DEF OnlyOwn
  <2>3. CASE i # Len(q) + 1
    <3>1. i \in 1 .. Len(q) /\ i \in 0 .. Len(q) /\ r[i] = q[i]
      BY <1>1, <2>1, <2>3
    <3>2. OnlyOwn(q, i, q[i].by, g)
      BY <1>4, <2>1, <3>1 DEF StartsOwn
    <3>3. QED
      BY <1>3, <3>1, <3>2
  <2>4. QED
    BY <2>2, <2>3
<1>5. QED
  BY <1>3, <1>4 DEF r

\* When the first call is taken it does not stop the recording of another
\* coordinator, and what starts behind it stays apart.
LEMMA OwnTail ==
  ASSUME NEW S, NEW q \in Seq(S), q # <<>>, NEW g
  PROVE  /\ StartsOwn(q, g) => StartsOwn(Tail(q), g)
         /\ StartsOwn(q, g) /\ Head(q).op = "startRecording" /\ Head(q).by # 0
              => OnlyOwn(Tail(q), 0, Head(q).by, g)
         /\ \A h : OnlyOwn(q, 0, h, g) =>
              /\ Head(q).op # "cancelRecording" => OnlyOwn(Tail(q), 0, h, g)
              /\ Head(q).op = "stopAndTranscribe" => Head(q).by = h
<1> DEFINE r == Tail(q)
<1>1. /\ Head(q) = q[1] /\ Len(q) \in Nat \ {0} /\ Len(r) = Len(q) - 1
      /\ \A i \in 1 .. Len(q) - 1 : r[i] = q[i + 1]
  BY TailElements
<1> HIDE DEF r
<1>2. ASSUME NEW i \in 0 .. Len(r), NEW j \in 0 .. Len(r) + 1, CancelBetween(q, i + 1, j + 1)
      PROVE  CancelBetween(r, i, j)
  <2>1. PICK k \in i + 1 + 1 .. j + 1 - 1 : q[k].op = "cancelRecording"
    BY <1>2 DEF CancelBetween
  <2>2. k - 1 \in i + 1 .. j - 1 /\ k - 1 \in 1 .. Len(q) - 1 /\ (k - 1) + 1 = k
    BY <1>1, <1>2, <2>1
  <2>3. QED
    BY <1>1, <2>1, <2>2 DEF CancelBetween
<1>3. ASSUME NEW i \in 0 .. Len(r), NEW h, OnlyOwn(q, i + 1, h, g)
      PROVE  OnlyOwn(r, i, h, g)
  <2>1. ASSUME NEW j \in i + 1 .. Len(r), r[j].op = "stopAndTranscribe", r[j].by # h
        PROVE  CancelBetween(r, i, j)
    <3>1. /\ j + 1 \in i + 1 + 1 .. Len(q) /\ j \in 1 .. Len(q) - 1 /\ j \in 0 .. Len(r) + 1
          /\ r[j] = q[j + 1]
      BY <1>1, <1>3, <2>1
    <3>2. CancelBetween(q, i + 1, j + 1)
      BY <1>3, <2>1, <3>1 DEF OnlyOwn
    <3>3. QED
      BY <1>2, <3>1, <3>2
  <2>2. ASSUME h # g PROVE CancelBetween(r, i, Len(r) + 1)
    <3>1. Len(r) + 1 + 1 = Len(q) + 1 /\ Len(r) + 1 \in 0 .. Len(r) + 1
      BY <1>1
    <3>2. CancelBetween(q, i + 1, Len(r) + 1 + 1)
      BY <1>3, <2>2, <3>1 DEF OnlyOwn
    <3>3. QED
      BY <1>2, <3>1, <3>2
  <2>3. QED
    BY <2>1, <2>2 DEF OnlyOwn
<1>4. ASSUME StartsOwn(q, g) PROVE StartsOwn(r, g)
  <2>1. SUFFICES ASSUME NEW i \in 1 .. Len(r), r[i].op = "startRecording", r[i].by # 0
                 PROVE  OnlyOwn(r, i, r[i].by, g)
    BY DEF StartsOwn
  <2>2. i + 1 \in 1 .. Len(q) /\ i \in 0 .. Len(r) /\ r[i] = q[i + 1]
    BY <1>1, <2>1
  <2>3. OnlyOwn(q, i + 1, q[i + 1].by, g)
    BY <1>4, <2>1, <2>2 DEF StartsOwn
  <2>4. QED
    BY <1>3, <2>2, <2>3
<1>5. ASSUME StartsOwn(q, g), Head(q).op = "startRecording", Head(q).by # 0
      PROVE  OnlyOwn(r, 0, Head(q).by, g)
  <2>1. 1 \in 1 .. Len(q) /\ 0 \in 0 .. Len(r) /\ 0 + 1 = 1
    BY <1>1
  <2>2. OnlyOwn(q, 0 + 1, Head(q).by, g)
    BY <1>1, <1>5, <2>1 DEF StartsOwn
  <2>3. QED
    BY <1>3, <2>1, <2>2
<1>6. ASSUME NEW h, OnlyOwn(q, 0, h, g), Head(q).op # "cancelRecording"
      PROVE  OnlyOwn(r, 0, h, g)
  <2>1. ASSUME NEW j \in 1 .. Len(q) + 1, CancelBetween(q, 0, j)
        PROVE  CancelBetween(q, 0 + 1, j)
    <3>1. PICK k \in 0 + 1 .. j - 1 : q[k].op = "cancelRecording"
      BY <2>1 DEF CancelBetween
    <3>2. k # 1
      BY <1>1, <1>6, <3>1
    <3>3. k \in 0 + 1 + 1 .. j - 1
      BY <3>1, <3>2
    <3>4. QED
      BY <3>1, <3>3 DEF CancelBetween
  <2>2. OnlyOwn(q, 0 + 1, h, g)
    <3>1. \A j \in 0 + 1 + 1 .. Len(q) : j \in 0 + 1 .. Len(q) /\ j \in 1 .. Len(q) + 1
      BY <1>1
    <3>2. Len(q) + 1 \in 1 .. Len(q) + 1
      BY <1>1
    <3>3. QED
      BY <1>6, <2>1, <3>1, <3>2 DEF OnlyOwn
  <2>3. QED
    BY <1>1, <1>3, <2>2
<1>7. ASSUME NEW h, OnlyOwn(q, 0, h, g), Head(q).op = "stopAndTranscribe"
      PROVE  Head(q).by = h
  <2>1. 1 \in 0 + 1 .. Len(q) /\ ~ CancelBetween(q, 0, 1)
    BY <1>1 DEF CancelBetween
  <2>2. QED
    BY <1>1, <1>7, <2>1 DEF OnlyOwn
<1>8. QED
  BY <1>4, <1>5, <1>6, <1>7 DEF r

\* After the last sheet all that is owned is cancelled, so anybody can follow.
LEMMA OwnNext ==
  ASSUME NEW S, NEW q \in Seq(S), NEW g
  PROVE  /\ \A h : h # 0 /\ OnlyOwn(q, 0, h, 0) => OnlyOwn(q, 0, h, g)
         /\ StartsOwn(q, 0) => StartsOwn(q, g)
<1>1. \A i, h : h # 0 /\ OnlyOwn(q, i, h, 0) => OnlyOwn(q, i, h, g)
  BY DEF OnlyOwn
<1>2. QED
  BY <1>1 DEF StartsOwn

\* Behind a cancel that was sent last anybody can follow, and nobody.
LEMMA OwnCancelled ==
  ASSUME NEW S, NEW q \in Seq(S), NEW e \in S, NEW g, NEW g2, e.op = "cancelRecording"
  PROVE  /\ \A h : OnlyOwn(q, 0, h, g) => OnlyOwn(Append(q, e), 0, h, g2)
         /\ StartsOwn(q, g) => StartsOwn(Append(q, e), g2)
<1> DEFINE r == Append(q, e)
<1>1. Len(q) \in Nat /\ Len(r) = Len(q) + 1 /\ r[Len(q) + 1] = e
  BY AppendElements
<1>2. /\ \A i \in 0 .. Len(q) : \A h : OnlyOwn(q, i, h, g) => OnlyOwn(r, i, h, g)
      /\ StartsOwn(q, g) => StartsOwn(r, g)
  BY OwnAppend
<1> HIDE DEF r
<1>3. ASSUME NEW i \in 0 .. Len(q), NEW h, OnlyOwn(r, i, h, g)
      PROVE  OnlyOwn(r, i, h, g2)
  <2>1. Len(q) + 1 \in i + 1 .. Len(r) + 1 - 1
    BY <1>1
  <2>2. CancelBetween(r, i, Len(r) + 1)
    BY <1>1, <2>1 DEF CancelBetween
  <2>3. QED
    BY <1>3, <2>2 DEF OnlyOwn
<1>4. ASSUME StartsOwn(r, g) PROVE StartsOwn(r, g2)
  <2>1. SUFFICES ASSUME NEW i \in 1 .. Len(r), r[i].op = "startRecording", r[i].by # 0
                 PROVE  OnlyOwn(r, i, r[i].by, g2)
    BY DEF StartsOwn
  <2>2. i # Len(q) + 1
    BY <1>1, <2>1
  <2>3. i \in 0 .. Len(q)
    BY <1>1, <2>1, <2>2
  <2>4. QED
    BY <1>3, <1>4, <2>1, <2>3 DEF StartsOwn
<1>5. 0 \in 0 .. Len(q)
  BY <1>1
<1>6. QED
  BY <1>2, <1>3, <1>4, <1>5 DEF r

\* Jobs that are appended and taken keep whose they are.
LEMMA JobsKept ==
  ASSUME NEW S, NEW q \in Seq(S), JobsOwn(q)
  PROVE  /\ \A e \in S : e.of \in {e.call.by, 0} => JobsOwn(Append(q, e))
         /\ q # <<>> => JobsOwn(Tail(q)) /\ Head(q).of \in {Head(q).call.by, 0}
<1>1. ASSUME NEW e \in S, e.of \in {e.call.by, 0} PROVE JobsOwn(Append(q, e))
  <2>1. SUFFICES ASSUME NEW i \in 1 .. Len(Append(q, e))
                 PROVE  Append(q, e)[i].of \in {Append(q, e)[i].call.by, 0}
    BY DEF JobsOwn
  <2>2. i = Len(q) + 1 \/ (i \in 1 .. Len(q) /\ Append(q, e)[i] = q[i])
    BY <2>1, AppendElements
  <2>3. QED
    BY <1>1, <2>2, AppendElements DEF JobsOwn
<1>2. ASSUME q # <<>> PROVE JobsOwn(Tail(q)) /\ Head(q).of \in {Head(q).call.by, 0}
  <2>1. \A i \in 1 .. Len(Tail(q)) : i + 1 \in 1 .. Len(q) /\ Tail(q)[i] = q[i + 1]
    BY <1>2, TailElements
  <2>2. 1 \in 1 .. Len(q) /\ Head(q) = q[1]
    BY <1>2, TailElements
  <2>3. QED
    BY <2>1, <2>2 DEF JobsOwn
<1>3. QED
  BY <1>1, <1>2

\* So do the answers.
LEMMA AnswersKept ==
  ASSUME NEW S, NEW q \in Seq(S), AnswersOwn(q)
  PROVE  /\ \A e \in S : (e.op = "stopAndTranscribe" /\ e.ok => e.of \in {e.by, 0})
              => AnswersOwn(Append(q, e))
         /\ q # <<>> =>
              /\ AnswersOwn(Tail(q))
              /\ Head(q).op = "stopAndTranscribe" /\ Head(q).ok
                   => Head(q).of \in {Head(q).by, 0}
<1>1. ASSUME NEW e \in S, e.op = "stopAndTranscribe" /\ e.ok => e.of \in {e.by, 0}
      PROVE  AnswersOwn(Append(q, e))
  <2>1. SUFFICES ASSUME NEW i \in 1 .. Len(Append(q, e)),
                        Append(q, e)[i].op = "stopAndTranscribe", Append(q, e)[i].ok
                 PROVE  Append(q, e)[i].of \in {Append(q, e)[i].by, 0}
    BY DEF AnswersOwn
  <2>2. i = Len(q) + 1 \/ (i \in 1 .. Len(q) /\ Append(q, e)[i] = q[i])
    BY <2>1, AppendElements
  <2>3. CASE i = Len(q) + 1
    BY <1>1, <2>1, <2>3, AppendElements
  <2>4. CASE i \in 1 .. Len(q) /\ Append(q, e)[i] = q[i]
    BY <2>1, <2>4 DEF AnswersOwn
  <2>5. QED
    BY <2>2, <2>3, <2>4
<1>2. ASSUME q # <<>>
      PROVE  /\ AnswersOwn(Tail(q))
             /\ Head(q).op = "stopAndTranscribe" /\ Head(q).ok => Head(q).of \in {Head(q).by, 0}
  <2>1. \A i \in 1 .. Len(Tail(q)) : i + 1 \in 1 .. Len(q) /\ Tail(q)[i] = q[i + 1]
    BY <1>2, TailElements
  <2>2. 1 \in 1 .. Len(q) /\ Head(q) = q[1]
    BY <1>2, TailElements
  <2>3. QED
    BY <2>1, <2>2 DEF AnswersOwn
<1>3. QED
  BY <1>1, <1>2

-----------------------------------------------------------------------------
(* The steps *)

\* A call is sent, or none, when g has the microphone and keeps it.
LEMMA OwnSend ==
  ASSUME toNative \in Seq(CallSet), NEW g \in Coordinators, Owner' = g,
         StartsOwn(toNative, g), HeldOwn(toNative, g),
         \/ toNative' = toNative
         \/ \E op \in Ops, h \in Coordinators :
              /\ Send(op, h)
              /\ op = "stopAndTranscribe" => h = g
              /\ op = "startRecording" => h \in {g, 0},
         UNCHANGED <<isRecording, recorder, thread>>
  PROVE  RecordingsOwn'
<1>1. CASE toNative' = toNative
  BY <1>1 DEF RecordingsOwn, HeldOwn
<1>2. ASSUME NEW op \in Ops, NEW h \in Coordinators, Send(op, h),
             op = "stopAndTranscribe" => h = g, op = "startRecording" => h \in {g, 0}
      PROVE  RecordingsOwn'
  <2>1. /\ Call(op, h) \in CallSet /\ Call(op, h).by = h /\ Call(op, h).op = op
        /\ toNative' = Append(toNative, Call(op, h)) /\ 0 \in 0 .. Len(toNative)
    BY <1>2, CallType DEF Send, Call
  <2>2. /\ StartsOwn(toNative', g)
        /\ \A k : OnlyOwn(toNative, 0, k, g) => OnlyOwn(toNative', 0, k, g)
    BY <1>2, <2>1, OwnAppend
  <2>3. QED
    BY <2>2 DEF RecordingsOwn, HeldOwn
<1>3. QED
  BY <1>1, <1>2

\* What the user does and the unmounting of sheets.
LEMMA OwnUser ==
  ASSUME VoiceTypeOK, QueuesOK, OwnIInv, UserAction \/ UnmountSheet, gen' \in Coordinators
  PROVE  OwnIInv'
<1>1. /\ toNative \in Seq(CallSet) /\ sheets \in Nat /\ closing \in Nat
      /\ gen \in Coordinators /\ 0 \in Coordinators /\ alive \in BOOLEAN
      /\ {"hasPermission", "stopAndTranscribe", "cancelRecording"} \subseteq Ops
  BY VoiceAssumption DEF VoiceTypeOK, QueuesOK, Coordinators, Ops
<1>2. UNCHANGED <<toDart, isRecording, recorder, thread, jobs, parsing>>
  BY DEF UserAction, OpenSheet, StartListening, StopAndProcess, CloseSheet, UnmountSheet,
         recorderVars, workerVars
<1>3. TranscriptsOwn'
  BY <1>2 DEF OwnIInv, TranscriptsOwn
<1>4. /\ AliveOK /\ OwnWords
      /\ StartsOwn(toNative, Owner) /\ HeldOwn(toNative, Owner)
  BY DEF OwnIInv, RecordingsOwn
<1>5. ASSUME NEW autoStart \in BOOLEAN, OpenSheet(autoStart) PROVE OwnIInv'
  <2>1. /\ alive' /\ sheets' + closing' > 0
        /\ toNative' = toNative \/ Send("hasPermission", gen')
    BY <1>1, <1>5 DEF OpenSheet
  <2>2. Owner' = gen'
    BY <2>1 DEF Owner, Living
  <2>3. StartsOwn(toNative, gen') /\ HeldOwn(toNative, gen')
    <3>1. CASE alive
      BY <1>4, <1>5, <3>1 DEF OpenSheet, Owner, Living
    <3>2. CASE ~ alive
      <4>1. Owner = 0
        BY <3>2 DEF Owner, Living
      <4>2. QED
        BY <1>1, <1>4, <4>1, OwnNext DEF HeldOwn
    <3>3. QED
      BY <3>1, <3>2
  <2>4. RecordingsOwn'
    BY <1>1, <1>2, <2>1, <2>2, <2>3, OwnSend
  <2>5. OwnWords'
    BY <1>4, <1>5 DEF OpenSheet, OwnWords
  <2>6. AliveOK'
    <3>1. alive' \in BOOLEAN
      BY <1>1, <1>5 DEF OpenSheet
    <3>2. QED
      BY <2>1, <3>1 DEF AliveOK
  <2>7. QED
    BY <1>3, <2>4, <2>5, <2>6 DEF OwnIInv
<1>6. ASSUME StartListening \/ StopAndProcess PROVE OwnIInv'
  <2>1. /\ alive /\ UNCHANGED <<sheets, closing, gen, alive>>
        /\ Send("hasPermission", gen) \/ Send("stopAndTranscribe", gen)
    BY <1>6 DEF StartListening, StopAndProcess
  <2>2. Owner = gen /\ Owner' = gen
    BY <2>1 DEF Owner, Living
  <2>3. RecordingsOwn'
    BY <1>1, <1>2, <1>4, <2>1, <2>2, OwnSend
  <2>4. AliveOK' /\ OwnWords'
    BY <1>4, <1>6 DEF StartListening, StopAndProcess, AliveOK, OwnWords
  <2>5. QED
    BY <1>3, <2>3, <2>4 DEF OwnIInv
<1>7. ASSUME NEW review \in BOOLEAN, CloseSheet(review) PROVE OwnIInv'
  <2>1. /\ UNCHANGED <<gen, alive>> /\ Send("cancelRecording", gen)
        /\ sheets' + closing' = sheets + closing
    BY <1>1, <1>7 DEF CloseSheet
  <2>2. Owner' = Owner /\ Owner \in Coordinators
    BY <1>1, <2>1 DEF Owner, Living
  <2>3. RecordingsOwn'
    BY <1>1, <1>2, <1>4, <2>1, <2>2, OwnSend
  <2>4. OwnWords'
    BY <1>4, <1>7 DEF CloseSheet, OwnWords
  <2>5. QED
    BY <1>3, <1>4, <2>1, <2>3, <2>4 DEF OwnIInv, AliveOK
<1>8. ASSUME UnmountSheet PROVE OwnIInv'
  <2>1. /\ Call("cancelRecording", gen) \in CallSet
        /\ Call("cancelRecording", gen).op = "cancelRecording"
        /\ toNative' = Append(toNative, Call("cancelRecording", gen))
    BY <1>1, <1>8, CallType DEF UnmountSheet, Send, Call
  <2>2. RecordingsOwn'
    <3>1. \A g2 : /\ StartsOwn(toNative', g2)
                  /\ \A h : OnlyOwn(toNative, 0, h, Owner) => OnlyOwn(toNative', 0, h, g2)
      BY <1>1, <1>4, <2>1, OwnCancelled
    <3>2. QED
      BY <1>2, <1>4, <3>1 DEF RecordingsOwn, HeldOwn
  <2>3. AliveOK' /\ OwnWords'
    BY <1>8 DEF UnmountSheet, AliveOK, OwnWords
  <2>4. QED
    BY <1>3, <2>2, <2>3 DEF OwnIInv
<1>9. QED
  BY <1>5, <1>6, <1>7, <1>8 DEF UserAction

\* An assignment to the state shows no draft but an own one or one without owner.
LEMMA StatusOwn ==
  ASSUME OwnWords, UNCHANGED <<gen, alive>>, NEW g, NEW s, NEW d,
         SetStatus(g, s, d), s # "result" \/ d \in {g, 0}
  PROVE  OwnWords'
BY DEF SetStatus, OwnWords

\* What the coordinator does with an answer or a transcript.
LEMMA OwnDart ==
  ASSUME VoiceTypeOK, QueuesOK, OwnIInv, Deliver \/ ShowDraft
  PROVE  OwnIInv'
<1>1. /\ toNative \in Seq(CallSet) /\ toDart \in Seq(AnswerSet)
      /\ gen \in Coordinators /\ 0 \in Coordinators /\ alive \in BOOLEAN
  BY VoiceAssumption DEF VoiceTypeOK, QueuesOK, Coordinators
<1>2. UNCHANGED <<sheets, closing, gen, alive, isRecording, recorder, thread, jobs>>
  BY DEF Deliver, ShowDraft, recorderVars, workerVars
<1>3. /\ AliveOK /\ OwnWords
      /\ StartsOwn(toNative, Owner) /\ HeldOwn(toNative, Owner)
      /\ JobsOwn(jobs) /\ AnswersOwn(toDart)
      /\ \A p \in parsing : p.of \in {p.by, 0}
  BY DEF OwnIInv, RecordingsOwn, TranscriptsOwn
<1>4. Owner' = Owner /\ Owner \in Coordinators
  BY <1>1, <1>2 DEF Owner, Living
<1>5. AliveOK'
  BY <1>2, <1>3 DEF AliveOK
<1>6. ASSUME ShowDraft PROVE OwnIInv'
  <2>1. PICK p \in parsing :
          /\ parsing' = parsing \ {p}
          /\ SetStatus(p.by, "result", p.of) \/ SetStatus(p.by, "error", draft)
    BY <1>6 DEF ShowDraft
  <2>2. OwnWords'
    BY <1>2, <1>3, <2>1, StatusOwn
  <2>3. UNCHANGED <<toNative, toDart>>
    BY <1>6 DEF ShowDraft
  <2>4. TranscriptsOwn'
    BY <1>2, <1>3, <2>1, <2>3 DEF TranscriptsOwn
  <2>5. RecordingsOwn'
    BY <1>2, <1>3, <1>4, <2>3 DEF RecordingsOwn, HeldOwn
  <2>6. QED
    BY <1>5, <2>2, <2>4, <2>5 DEF OwnIInv
<1>7. ASSUME Deliver PROVE OwnIInv'
  <2> DEFINE a == Head(toDart)
  <2>1. toDart # <<>> /\ toDart' = Tail(toDart)
    BY <1>7 DEF Deliver
  <2>2. a \in AnswerSet
    BY <1>1, <2>1, TailElements
  <2>3. AnswersOwn(toDart') /\ (a.op = "stopAndTranscribe" /\ a.ok => a.of \in {a.by, 0})
    BY <1>1, <1>3, <2>1, AnswersKept
  <2>4. \/ a.op = "hasPermission" /\ AfterHasPermission(a)
        \/ a.op = "requestPermission" /\ AfterRequestPermission(a)
        \/ a.op = "startRecording" /\ AfterStart(a)
        \/ a.op = "stopAndTranscribe" /\ AfterStop(a)
        \/ a.op = "cancelRecording" /\ AfterCancel(a)
    BY <1>7, <2>2 DEF Deliver, AnswerSet, Ops
  <2>5. a.by \in Coordinators
    BY <2>2 DEF AnswerSet
  <2> HIDE DEF a
  <2>6. RecordingsOwn'
    <3>1. \/ toNative' = toNative
          \/ Send("startRecording", Living(a.by)) \/ Send("requestPermission", a.by)
      BY <2>4 DEF AfterHasPermission, AfterRequestPermission, AfterStart, AfterStop,
                  AfterCancel
    <3>2. Living(a.by) \in {Owner, 0} /\ Living(a.by) \in Coordinators
      BY <1>1, <2>5 DEF Owner, Living
    <3>3. {"startRecording", "requestPermission"} \subseteq Ops
      BY DEF Ops
    <3>4. \/ toNative' = toNative
          \/ \E op \in Ops, h \in Coordinators :
               /\ Send(op, h)
               /\ op = "stopAndTranscribe" => h = Owner
               /\ op = "startRecording" => h \in {Owner, 0}
      BY <2>5, <3>1, <3>2, <3>3
    <3>5. QED
      BY <1>1, <1>2, <1>3, <1>4, <3>4, OwnSend
  <2>7. \A p \in parsing' : p.of \in {p.by, 0}
    <3>1. \/ parsing' = parsing
          \/ a.of \in {a.by, 0} /\ parsing' = parsing \cup {[by |-> a.by, of |-> a.of]}
      BY <2>3, <2>4 DEF AfterHasPermission, AfterRequestPermission, AfterStart, AfterStop,
                        AfterCancel
    <3>2. QED
      BY <1>3, <3>1
  <2>8. OwnWords'
    <3>1. \/ UNCHANGED <<status, draft>>
          \/ \E s \in {"ready", "listening", "error"}, d \in {0, draft} :
               SetStatus(a.by, s, d)
      BY <2>4 DEF AfterHasPermission, AfterRequestPermission, AfterStart, AfterStop,
                  AfterCancel
    <3>2. CASE UNCHANGED <<status, draft>>
      BY <1>2, <1>3, <3>2 DEF OwnWords
    <3>3. CASE \E s \in {"ready", "listening", "error"}, d \in {0, draft} :
                 SetStatus(a.by, s, d)
      BY <1>2, <1>3, <3>3, StatusOwn
    <3>4. QED
      BY <3>1, <3>2, <3>3
  <2>9. TranscriptsOwn'
    BY <1>2, <1>3, <2>3, <2>7 DEF TranscriptsOwn
  <2>10. QED
    BY <1>5, <2>6, <2>8, <2>9 DEF OwnIInv
<1>8. QED
  BY <1>6, <1>7

\* The parts a native step can disturb.
LEMMA OwnNativeParts ==
  ASSUME OwnIInv, UNCHANGED sheetVars, StartsOwn(toNative', Owner), HeldOwn(toNative, Owner)',
         JobsOwn(jobs'), AnswersOwn(toDart')
  PROVE  OwnIInv'
<1>1. UNCHANGED <<sheets, closing, gen, alive, status, draft, parsing>> /\ Owner' = Owner
  BY DEF sheetVars, Owner, Living
<1>2. AliveOK' /\ OwnWords'
  BY <1>1 DEF OwnIInv, AliveOK, OwnWords
<1>3. TranscriptsOwn'
  BY <1>1 DEF OwnIInv, TranscriptsOwn
<1>4. RecordingsOwn'
  BY <1>1 DEF RecordingsOwn
<1>5. QED
  BY <1>2, <1>3, <1>4 DEF OwnIInv

\* An answer keeps whose the answers are.
LEMMA OwnReply ==
  ASSUME toDart \in Seq(AnswerSet), AnswersOwn(toDart),
         NEW c \in CallSet, NEW ok \in BOOLEAN, NEW of \in Coordinators, Reply(c, ok, of),
         c.op = "stopAndTranscribe" /\ ok => of \in {c.by, 0}
  PROVE  AnswersOwn(toDart')
<1> DEFINE e == Answer(c, ok, of)
<1>1. e \in AnswerSet /\ e.op = c.op /\ e.by = c.by /\ e.ok = ok /\ e.of = of
  BY DEF Answer, AnswerSet, CallSet
<1>2. toDart' = Append(toDart, e)
  BY DEF Reply
<1> HIDE DEF e
<1>3. QED
  BY <1>1, <1>2, AnswersKept

\* What the main thread finds when it takes a call.
LEMMA OwnTaken ==
  ASSUME QueuesOK, OwnIInv, NEW op, Takes(op)
  PROVE  /\ Head(toNative) \in CallSet /\ Head(toNative).op = op
         /\ StartsOwn(toNative', Owner)
         /\ op = "startRecording" /\ Head(toNative).by # 0
              => OnlyOwn(toNative', 0, Head(toNative).by, Owner)
         /\ op # "cancelRecording" => HeldOwn(toNative', Owner)
         /\ op = "stopAndTranscribe" /\ isRecording /\ recorder # 0
              => thread[recorder].by \in {Head(toNative).by, 0}
<1>1. /\ toNative \in Seq(CallSet) /\ toNative # <<>>
      /\ Head(toNative).op = op /\ toNative' = Tail(toNative)
  BY DEF QueuesOK, Takes
<1>2. StartsOwn(toNative, Owner) /\ HeldOwn(toNative, Owner)
  BY DEF OwnIInv, RecordingsOwn
<1>3. Head(toNative) \in CallSet
  BY <1>1, TailElements
<1>4. /\ StartsOwn(toNative', Owner)
      /\ op = "startRecording" /\ Head(toNative).by # 0
           => OnlyOwn(toNative', 0, Head(toNative).by, Owner)
  BY <1>1, <1>2, OwnTail
<1>5. \A h : OnlyOwn(toNative, 0, h, Owner) =>
        /\ op # "cancelRecording" => OnlyOwn(toNative', 0, h, Owner)
        /\ op = "stopAndTranscribe" => Head(toNative).by = h
  BY <1>1, OwnTail
<1>6. op # "cancelRecording" => HeldOwn(toNative', Owner)
  BY <1>2, <1>5 DEF HeldOwn
<1>7. op = "stopAndTranscribe" /\ isRecording /\ recorder # 0
        => thread[recorder].by \in {Head(toNative).by, 0}
  BY <1>2, <1>5 DEF HeldOwn
<1>8. QED
  BY <1>1, <1>3, <1>4, <1>6, <1>7

\* What the native side does.
LEMMA OwnNative ==
  ASSUME VoiceTypeOK, QueuesOK, RecorderOK, OwnIInv,
         \/ MainThread \/ Worker
         \/ \E grant \in BOOLEAN : HandlePermissionResult(grant)
         \/ \E i \in Threads : Initialize(i) \/ Read(i) \/ End(i)
  PROVE  OwnIInv'
<1> USE NativeTypesNow
<1>0. UNCHANGED sheetVars /\ Owner' = Owner
  <2>1. UNCHANGED sheetVars
    BY DEF MainThread, HandleHasPermission, HandleRequestPermission, HandlePermissionResult,
           HandleStartRecording, StartAnswered, StartTimesOut, AnswerStart, HandleStop,
           HandleCancel, Worker, LoadModel, Transcribe, Initialize, Read, End, ThreadStep
  <2>2. QED
    BY <2>1 DEF sheetVars, Owner, Living
<1>00. /\ StartsOwn(toNative, Owner) /\ HeldOwn(toNative, Owner)
       /\ JobsOwn(jobs) /\ AnswersOwn(toDart)
  BY DEF OwnIInv, RecordingsOwn, TranscriptsOwn
<1>1. ASSUME HandleHasPermission \/ HandleRequestPermission PROVE OwnIInv'
  <2>1. PICK op \in {"hasPermission", "requestPermission"} : Takes(op)
    BY <1>1 DEF HandleHasPermission, HandleRequestPermission
  <2>2. /\ Head(toNative) \in CallSet /\ Head(toNative).op = op
        /\ StartsOwn(toNative', Owner) /\ HeldOwn(toNative', Owner)
    BY <2>1, OwnTaken
  <2>3. UNCHANGED <<isRecording, recorder, thread, jobs>>
    BY <1>1 DEF HandleHasPermission, HandleRequestPermission, recorderVars, workerVars
  <2>4. HeldOwn(toNative, Owner)'
    BY <1>0, <2>2, <2>3 DEF HeldOwn
  <2>5. toDart' = toDart \/ \E ok \in BOOLEAN : Reply(Head(toNative), ok, 0)
    BY <1>1 DEF HandleHasPermission, HandleRequestPermission
  <2>6. AnswersOwn(toDart')
    BY <1>00, <2>2, <2>5, OwnReply
  <2>7. QED
    BY <1>0, <1>00, <2>2, <2>3, <2>4, <2>6, OwnNativeParts
<1>2. ASSUME NEW grant \in BOOLEAN, HandlePermissionResult(grant) PROVE OwnIInv'
  <2>1. /\ Reply(Call("requestPermission", asking), grant, 0)
        /\ UNCHANGED <<toNative, isRecording, recorder, thread, jobs>>
    BY <1>2 DEF HandlePermissionResult, recorderVars, workerVars
  <2>2. /\ Call("requestPermission", asking) \in CallSet
        /\ Call("requestPermission", asking).op = "requestPermission"
    BY CallType DEF Call, Ops
  <2>3. AnswersOwn(toDart')
    BY <1>00, <2>1, <2>2, OwnReply
  <2>4. HeldOwn(toNative, Owner)'
    BY <1>0, <1>00, <2>1 DEF HeldOwn
  <2>5. QED
    BY <1>0, <1>00, <2>1, <2>3, <2>4, OwnNativeParts
<1>3. ASSUME HandleStartRecording PROVE OwnIInv'
  <2>1. Takes("startRecording") /\ UNCHANGED jobs
    BY <1>3 DEF HandleStartRecording, workerVars
  <2>2. /\ Head(toNative) \in CallSet /\ Head(toNative).op = "startRecording"
        /\ StartsOwn(toNative', Owner) /\ HeldOwn(toNative', Owner)
        /\ Head(toNative).by # 0 => OnlyOwn(toNative', 0, Head(toNative).by, Owner)
    BY <2>1, OwnTaken
  <2>3. toDart' = toDart \/ \E ok \in BOOLEAN : Reply(Head(toNative), ok, 0)
    BY <1>3 DEF HandleStartRecording
  <2>4. AnswersOwn(toDart')
    BY <1>00, <2>2, <2>3, OwnReply
  <2>5. HeldOwn(toNative, Owner)'
    <3>1. CASE UNCHANGED recorderVars
      <4>1. UNCHANGED <<isRecording, recorder, thread>>
        BY <3>1 DEF recorderVars
      <4>2. QED
        BY <1>0, <2>2, <4>1 DEF HeldOwn
    <3>2. CASE ~ UNCHANGED recorderVars
      <4>1. /\ \E i \in Threads : thread[i].at = "none"
            /\ recorder' = FreshThread
            /\ thread' = [thread EXCEPT ![FreshThread] =
                            [NoThread EXCEPT !.at = "starting", !.by = Head(toNative).by]]
        BY <1>3, <3>2 DEF HandleStartRecording
      <4>2. FreshThread \in Threads
        BY <4>1 DEF FreshThread
      <4>3. [NoThread EXCEPT !.at = "starting", !.by = Head(toNative).by].by = Head(toNative).by
        BY DEF NoThread
      <4>4. thread'[recorder'].by = Head(toNative).by
        BY <4>1, <4>2, <4>3
      <4>5. QED
        BY <1>0, <2>2, <4>4 DEF HeldOwn
    <3>3. QED
      BY <3>1, <3>2
  <2>6. QED
    BY <1>0, <1>00, <2>1, <2>2, <2>4, <2>5, OwnNativeParts
<1>4. ASSUME StartAnswered \/ StartTimesOut PROVE OwnIInv'
  <2>1. waiting # 0 /\ waiting \in Threads /\ \E ok \in BOOLEAN : AnswerStart(ok)
    BY <1>4 DEF StartAnswered, StartTimesOut
  <2>2. PICK ok \in BOOLEAN : AnswerStart(ok)
    BY <2>1
  <2>3. /\ isRecording' = ok /\ (ok => recorder' = waiting)
        /\ Reply(Call("startRecording", thread[waiting].by), ok, 0)
        /\ UNCHANGED <<toNative, jobs>>
    BY <2>2 DEF AnswerStart, workerVars
  <2>4. /\ Call("startRecording", thread[waiting].by) \in CallSet
        /\ Call("startRecording", thread[waiting].by).op = "startRecording"
    BY <2>1, CallType DEF Ops, Thread, Call
  <2>5. AnswersOwn(toDart')
    BY <1>00, <2>3, <2>4, OwnReply
  <2>6. thread'[waiting].by = thread[waiting].by
    BY <1>4, <2>1 DEF StartAnswered, StartTimesOut, Thread
  <2>7. isRecording /\ recorder = waiting
    BY <2>1 DEF RecorderOK
  <2>8. thread[waiting].by # 0 => OnlyOwn(toNative, 0, thread[waiting].by, Owner)
    BY <1>00, <2>1, <2>7 DEF HeldOwn
  <2>9. HeldOwn(toNative, Owner)'
    BY <1>0, <2>3, <2>6, <2>8 DEF HeldOwn
  <2>10. QED
    BY <1>0, <1>00, <2>3, <2>5, <2>9, OwnNativeParts
<1>5. ASSUME HandleStop PROVE OwnIInv'
  <2>1. Takes("stopAndTranscribe") /\ isRecording' = FALSE
    BY <1>5 DEF HandleStop
  <2>2. /\ Head(toNative) \in CallSet /\ Head(toNative).op = "stopAndTranscribe"
        /\ StartsOwn(toNative', Owner)
        /\ isRecording /\ recorder # 0 => thread[recorder].by \in {Head(toNative).by, 0}
    BY <2>1, OwnTaken
  <2>3. HeldOwn(toNative, Owner)'
    BY <2>1 DEF HeldOwn
  <2>4. toDart' = toDart \/ Reply(Head(toNative), FALSE, 0)
    BY <1>5 DEF HandleStop
  <2>5. AnswersOwn(toDart')
    BY <1>00, <2>2, <2>4, OwnReply
  <2>6. JobsOwn(jobs')
    <3> DEFINE e == [call |-> Head(toNative), of |-> thread[recorder].by]
    <3>1. jobs' = jobs \/ (isRecording /\ recorder # 0 /\ jobs' = Append(jobs, e))
      BY <1>5 DEF HandleStop
    <3>2. ASSUME isRecording, recorder # 0, jobs' = Append(jobs, e)
          PROVE  JobsOwn(jobs')
      <4>1. e.of \in {e.call.by, 0}
        BY <2>2, <3>2
      <4>2. e \in JobSet
        <5>1. Head(toNative) \in [op : {"stopAndTranscribe"}, by : Coordinators]
          BY <2>2 DEF CallSet
        <5>2. thread[recorder].by \in Coordinators
          BY <3>2 DEF Thread
        <5>3. QED
          BY <5>1, <5>2 DEF JobSet
      <4> HIDE DEF e
      <4>3. QED
        BY <1>00, <3>2, <4>1, <4>2, JobsKept
    <3>3. QED
      BY <1>00, <3>1, <3>2
  <2>7. QED
    BY <1>0, <2>2, <2>3, <2>5, <2>6, OwnNativeParts
<1>6. ASSUME HandleCancel PROVE OwnIInv'
  <2>1. /\ Takes("cancelRecording") /\ UNCHANGED jobs /\ isRecording' = FALSE
        /\ Reply(Head(toNative), TRUE, 0)
    BY <1>6 DEF HandleCancel, workerVars
  <2>2. /\ Head(toNative) \in CallSet /\ Head(toNative).op = "cancelRecording"
        /\ StartsOwn(toNative', Owner)
    BY <2>1, OwnTaken
  <2>3. HeldOwn(toNative, Owner)'
    BY <2>1 DEF HeldOwn
  <2>4. AnswersOwn(toDart')
    BY <1>00, <2>1, <2>2, OwnReply
  <2>5. QED
    BY <1>0, <1>00, <2>1, <2>2, <2>3, <2>4, OwnNativeParts
<1>7. ASSUME NEW i \in Threads, Initialize(i) \/ Read(i) \/ End(i) PROVE OwnIInv'
  <2>1. PICK at \in {"recording", "ended"}, heard \in BOOLEAN : ThreadStep(i, at, heard)
    <3>1. thread[i].heard \in BOOLEAN
      BY DEF Thread
    <3>2. QED
      BY <1>7, <3>1 DEF Initialize, Read, End
  <2>2. /\ UNCHANGED <<toNative, toDart, isRecording, recorder>> /\ UNCHANGED jobs
        /\ thread' = [thread EXCEPT ![i].at = at, ![i].heard = heard]
    BY <2>1 DEF ThreadStep, workerVars
  <2>3. \A j \in Threads : thread'[j].by = thread[j].by
    BY <2>2 DEF Thread
  <2>4. HeldOwn(toNative, Owner)'
    BY <1>0, <1>00, <2>2, <2>3 DEF HeldOwn
  <2>5. QED
    BY <1>0, <1>00, <2>2, <2>4, OwnNativeParts
<1>8. ASSUME Worker PROVE OwnIInv'
  <2>1. /\ UNCHANGED <<toNative, isRecording, recorder, thread>> /\ jobs # <<>>
        /\ \/ jobs' = jobs /\ toDart' = toDart
           \/ \E ok \in BOOLEAN : Finish(ok)
    BY <1>8 DEF Worker, LoadModel, Transcribe, recorderVars
  <2>2. JobsOwn(Tail(jobs)) /\ Head(jobs).of \in {Head(jobs).call.by, 0}
    BY <1>00, <2>1, JobsKept
  <2>3. Head(jobs).call \in CallSet /\ Head(jobs).of \in Coordinators
    <3>1. Head(jobs) \in JobSet
      BY <2>1, TailElements
    <3>2. QED
      BY <3>1 DEF JobSet, CallSet, Ops
  <2>4. ASSUME NEW ok \in BOOLEAN, Finish(ok) PROVE JobsOwn(jobs') /\ AnswersOwn(toDart')
    <3>1. jobs' = Tail(jobs) /\ Reply(Head(jobs).call, ok, IF ok THEN Head(jobs).of ELSE 0)
      BY <2>4 DEF Finish
    <3>2. (IF ok THEN Head(jobs).of ELSE 0) \in Coordinators
      BY <2>3
    <3>3. AnswersOwn(toDart')
      BY <1>00, <2>2, <2>3, <3>1, <3>2, OwnReply
    <3>4. QED
      BY <2>2, <3>1, <3>3
  <2>5. JobsOwn(jobs') /\ AnswersOwn(toDart')
    BY <1>00, <2>1, <2>4
  <2>6. HeldOwn(toNative, Owner)'
    BY <1>0, <1>00, <2>1 DEF HeldOwn
  <2>7. QED
    BY <1>0, <1>00, <2>1, <2>5, <2>6, OwnNativeParts
<1>9. QED
  BY <1>1, <1>2, <1>3, <1>4, <1>5, <1>6, <1>7, <1>8 DEF MainThread

-----------------------------------------------------------------------------
(* The theorems *)

\* The invariant holds when the app starts.
LEMMA OwnInit == VoiceInit => OwnIInv
<1> SUFFICES ASSUME VoiceInit PROVE OwnIInv
  OBVIOUS
<1>1. /\ sheets = 0 /\ closing = 0 /\ alive = FALSE /\ isRecording = FALSE /\ parsing = {}
      /\ toNative = <<>> /\ toDart = <<>> /\ jobs = <<>>
  BY DEF VoiceInit
<1>2. \A i \in 1 .. Len(<<>>) : FALSE
  BY EmptySeq
<1>3. RecordingsOwn
  BY <1>1, <1>2 DEF RecordingsOwn, StartsOwn, HeldOwn
<1>4. TranscriptsOwn
  BY <1>1, <1>2 DEF TranscriptsOwn, JobsOwn, AnswersOwn
<1>5. AliveOK
  <2>1. (sheets + closing > 0) = FALSE
    BY <1>1
  <2>2. QED
    BY <1>1, <2>1 DEF AliveOK
<1>6. OwnWords
  BY <1>1 DEF OwnWords
<1>7. QED
  BY <1>3, <1>4, <1>5, <1>6 DEF OwnIInv

\* Every step keeps the invariant.
LEMMA OwnStep == VoiceIInv /\ VoiceIInv' /\ OwnIInv /\ [VoiceNext]_vars => OwnIInv'
<1>1. ASSUME VoiceIInv, VoiceIInv', OwnIInv, VoiceNext PROVE OwnIInv'
  <2>1. gen' \in Coordinators
    BY <1>1, VoiceAssumption DEF VoiceIInv, VoiceTypeOK, Coordinators
  <2>2. QED
    BY <1>1, <2>1, OwnUser, OwnDart, OwnNative DEF VoiceIInv, VoiceNext
<1>2. ASSUME OwnIInv, UNCHANGED vars PROVE OwnIInv'
  <2>1. /\ UNCHANGED <<sheets, closing, gen, alive, status, draft, parsing>>
        /\ UNCHANGED <<toNative, toDart, isRecording, recorder, thread, jobs>>
    BY <1>2 DEF vars, sheetVars, recorderVars, workerVars
  <2>2. Owner' = Owner
    BY <2>1 DEF Owner, Living
  <2>3. AliveOK' /\ OwnWords' /\ TranscriptsOwn'
    BY <1>2, <2>1 DEF OwnIInv, AliveOK, OwnWords, TranscriptsOwn
  <2>4. RecordingsOwn'
    BY <1>2, <2>1, <2>2 DEF OwnIInv, RecordingsOwn, HeldOwn
  <2>5. QED
    BY <2>3, <2>4 DEF OwnIInv
<1>3. QED
  BY <1>1, <1>2

\* Once the last sheet is gone and the channel is quiet no recording goes on that
\* a living coordinator asked for and whose start did not time out, wherever the
\* calls of startListening, stopAndProcess, cancel and dispose met.
THEOREM VoiceReleasesMicrophone == VoiceSpec => []MicrophoneReleased
<1>1. VoiceIInv /\ OwnIInv => MicrophoneReleased
  <2>1. SUFFICES ASSUME VoiceIInv, OwnIInv, sheets + closing = 0, ChannelQuiet,
                        NEW i \in Listening \ Dropped
                 PROVE  thread[i].by = 0
    BY DEF MicrophoneReleased
  <2>2. isRecording /\ recorder = i /\ i # 0
    BY <2>1 DEF VoiceIInv, RecorderOK, Listening, Threads
  <2>3. Owner = 0
    <3>1. ~ (sheets + closing > 0)
      BY <2>1
    <3>2. ~ alive
      BY <2>1, <3>1 DEF OwnIInv, AliveOK
    <3>3. QED
      BY <3>2 DEF Owner, Living
  <2>4. ~ CancelBetween(toNative, 0, Len(toNative) + 1)
    <3>1. Len(toNative) = 0
      BY <2>1 DEF ChannelQuiet
    <3>2. QED
      BY <3>1 DEF CancelBetween
  <2>5. HeldOwn(toNative, 0)
    BY <2>1, <2>3 DEF OwnIInv, RecordingsOwn
  <2>6. QED
    BY <2>2, <2>4, <2>5 DEF HeldOwn, OnlyOwn
<1>2. QED
  BY <1>1, OwnInit, OwnStep, VoiceIInvInit, VoiceIInvStep, PTL DEF VoiceSpec

\* The draft that a coordinator shows comes from a recording it asked for, or from
\* one that no coordinator owned, never from one of an earlier coordinator.
THEOREM VoiceOwnWords == VoiceSpec => []OwnWords
<1>1. OwnIInv => OwnWords
  BY DEF OwnIInv
<1>2. QED
  BY <1>1, OwnInit, OwnStep, VoiceIInvInit, VoiceIInvStep, PTL DEF VoiceSpec

-----------------------------------------------------------------------------
(***************************************************************************)
(* QuickWidget: the inductive invariant.                                   *)
(***************************************************************************)

WidgetMessages == [op : {"action", "initial"}, tap : Taps]

\* The taps of the messages in a queue, and no tap being in it twice.
TapsIn(q) == {q[i].tap : i \in 1 .. Len(q)}
TapsOnce(q) == \A i, j \in 1 .. Len(q) : q[i].tap # 0 /\ q[i].tap = q[j].tap => i = j

Without(op, q) == \A i \in 1 .. Len(q) : q[i].op # op

\* Only the answer to the question for a kept action may be that there is none.
ActionsAreTaps(q) == \A i \in 1 .. Len(q) : q[i].op = "action" => q[i].tap # 0

\* Every action is a tap that has been.
NumbersOK ==
  /\ taps \in Taps
  /\ {pendingWidgetAction, root, buffer, queuedAction, posted, shown, born, initial}
       \subseteq 0 .. taps
  /\ Executed \subseteq 0 .. taps /\ TapsIn(messages) \subseteq 0 .. taps

\* An action waits for its frame only when no screen of another one is open.
FlagsOK ==
  /\ activity \in {"none", "created", "configured"}
  /\ consuming \in BOOLEAN /\ built \in BOOLEAN
  /\ navigator \in BOOLEAN /\ dashboard \in BOOLEAN /\ retry \in BOOLEAN
  /\ isExecuting = (posted # 0 \/ shown # 0)
  /\ posted # 0 => shown = 0

SequencesOK ==
  /\ messages \in Seq(WidgetMessages) /\ ActionsAreTaps(messages)
  /\ executed \in Seq(Taps)

WidgetTypes == NumbersOK /\ FlagsOK /\ SequencesOK

Apart(a, b) == a # 0 => a # b

\* No tap is at two places.
NoTapTwice ==
  /\ Apart(pendingWidgetAction, buffer) /\ Apart(pendingWidgetAction, queuedAction)
  /\ Apart(pendingWidgetAction, posted)
  /\ Apart(buffer, queuedAction) /\ Apart(buffer, posted) /\ Apart(queuedAction, posted)
  /\ \A t \in {pendingWidgetAction, buffer, queuedAction, posted} \ {0} :
       t \notin TapsIn(messages) /\ t \notin Executed
  /\ \A t \in TapsIn(messages) \ {0} : t \notin Executed
  /\ 0 \notin Executed
  /\ TapsOnce(messages)

\* This start has executed nothing twice.
ExecutedApart == \A i, j \in 1 .. Len(executed) : executed[i] = executed[j] => i = j

\* The taps on their way or executed, and those this start was given: the ones
\* since then, and that of its task.
Places ==
  {pendingWidgetAction, buffer, queuedAction, posted} \cup TapsIn(messages) \cup Executed

Given == {0, root} \cup (born + 1 .. taps)

\* When there are messages, and when the kept action is asked for: once, when
\* the tree is built.
StartOK ==
  /\ activity = "none" => /\ {pendingWidgetAction, buffer, posted} = {0}
                          /\ executed = <<>>
  /\ activity # "configured" => messages = <<>> /\ ~ built
  /\ built => buffer = 0
  /\ ~ built \/ consuming => Without("initial", messages) /\ initial = 0
  /\ ~ built => ~ consuming /\ queuedAction = 0
  /\ \A i \in 1 .. Len(messages) : messages[i].op = "initial" => messages[i].tap = initial

Newest == Message("action", taps)

\* The newest tap is the last action that is sent.
NewestLast(q, t) ==
  \A i \in 1 .. Len(q) : q[i].op = "action" =>
    \E j \in i .. Len(q) : q[j] = Message("action", t)

NewestSent == \E i \in 1 .. Len(messages) : messages[i] = Newest

\* Where the newest tap is: executed or about to be, on its way, or kept with no
\* other action on its way; or the action that was kept and asked for has come
\* after it.
NewestHeld ==
  \/ taps = posted \/ taps \in Executed
  \/ NewestSent
  \/ /\ Without("action", messages)
     /\ taps \in {pendingWidgetAction, buffer, queuedAction} \cup TapsIn(messages)
  \/ initial \notin {0, taps} /\ initial \in {queuedAction, posted} \cup Executed

NewestOK == taps > born => NewestLast(messages, taps) /\ NewestHeld

WidgetIInv ==
  /\ WidgetTypes /\ NoTapTwice /\ ExecutedApart
  /\ Places \subseteq Given
  /\ StartOK /\ NewestOK

-----------------------------------------------------------------------------
(* Taps in the queue of messages *)

\* What sending a message does to the taps in the queue.
LEMMA TapsAppend ==
  ASSUME NEW S, NEW q \in Seq(S), NEW e \in S
  PROVE  /\ TapsIn(Append(q, e)) = TapsIn(q) \cup {e.tap}
         /\ TapsOnce(q) /\ (e.tap = 0 \/ e.tap \notin TapsIn(q)) => TapsOnce(Append(q, e))
         /\ \A op : Without(op, Append(q, e)) <=> Without(op, q) /\ e.op # op
         /\ ActionsAreTaps(q) /\ (e.op = "action" => e.tap # 0) => ActionsAreTaps(Append(q, e))
<1> DEFINE r == Append(q, e)
<1>1. /\ Len(q) \in Nat /\ Len(r) = Len(q) + 1 /\ r[Len(q) + 1] = e
      /\ \A i \in 1 .. Len(q) : r[i] = q[i]
  BY AppendElements
<1>2. \A i \in 1 .. Len(r) : i \in 1 .. Len(q) \/ i = Len(q) + 1
  BY <1>1
<1>3. \A i \in 1 .. Len(q) : i \in 1 .. Len(r)
  BY <1>1
<1>4. Len(q) + 1 \in 1 .. Len(r)
  BY <1>1
<1> HIDE DEF r
<1>5. TapsIn(r) = TapsIn(q) \cup {e.tap}
  BY <1>1, <1>2, <1>3, <1>4 DEF TapsIn
<1>6. ASSUME TapsOnce(q), e.tap = 0 \/ e.tap \notin TapsIn(q) PROVE TapsOnce(r)
  <2>1. \A i \in 1 .. Len(q) : q[i].tap \in TapsIn(q)
    BY DEF TapsIn
  <2>2. QED
    BY <1>1, <1>2, <1>6, <2>1 DEF TapsOnce
<1>7. \A op : Without(op, r) <=> Without(op, q) /\ e.op # op
  BY <1>1, <1>2, <1>3, <1>4 DEF Without
<1>8. ActionsAreTaps(q) /\ (e.op = "action" => e.tap # 0) => ActionsAreTaps(r)
  BY <1>1, <1>2 DEF ActionsAreTaps
<1>9. QED
  BY <1>5, <1>6, <1>7, <1>8 DEF r

\* What delivering the first message does to them.
LEMMA TapsTail ==
  ASSUME NEW S, NEW q \in Seq(S), q # <<>>
  PROVE  /\ TapsIn(Tail(q)) \subseteq TapsIn(q)
         /\ Head(q).tap \in TapsIn(q)
         /\ TapsIn(q) \subseteq {Head(q).tap} \cup TapsIn(Tail(q))
         /\ TapsOnce(q) => /\ TapsOnce(Tail(q))
                           /\ Head(q).tap # 0 => Head(q).tap \notin TapsIn(Tail(q))
         /\ \A op : Without(op, q) => Without(op, Tail(q)) /\ Head(q).op # op
         /\ ActionsAreTaps(q) => /\ ActionsAreTaps(Tail(q))
                                 /\ Head(q).op = "action" => Head(q).tap # 0
<1> DEFINE r == Tail(q)
<1>1. /\ Head(q) = q[1] /\ Len(q) \in Nat \ {0} /\ Len(r) = Len(q) - 1
      /\ \A i \in 1 .. Len(q) - 1 : r[i] = q[i + 1]
  BY TailElements
<1>2. \A i \in 1 .. Len(r) : i + 1 \in 1 .. Len(q) /\ r[i] = q[i + 1] /\ i + 1 # 1
  BY <1>1
<1>3. 1 \in 1 .. Len(q)
  BY <1>1
<1>4. ASSUME NEW i \in 1 .. Len(q), i # 1
      PROVE  i - 1 \in 1 .. Len(r) /\ r[i - 1] = q[i]
  <2>1. i - 1 \in 1 .. Len(q) - 1 /\ (i - 1) + 1 = i
    BY <1>1, <1>4
  <2>2. r[i - 1] = q[(i - 1) + 1]
    BY <1>1, <2>1
  <2>3. QED
    BY <1>1, <2>1, <2>2
<1> HIDE DEF r
<1>5. TapsIn(r) \subseteq TapsIn(q) /\ Head(q).tap \in TapsIn(q)
  BY <1>1, <1>2, <1>3 DEF TapsIn
<1>6. TapsIn(q) \subseteq {Head(q).tap} \cup TapsIn(r)
  BY <1>1, <1>4 DEF TapsIn
<1>7. ASSUME TapsOnce(q) PROVE TapsOnce(r) /\ (Head(q).tap # 0 => Head(q).tap \notin TapsIn(r))
  <2>1. TapsOnce(r)
    <3>1. SUFFICES ASSUME NEW i \in 1 .. Len(r), NEW j \in 1 .. Len(r),
                          r[i].tap # 0, r[i].tap = r[j].tap
                   PROVE  i = j
      BY DEF TapsOnce
    <3>2. /\ i + 1 \in 1 .. Len(q) /\ j + 1 \in 1 .. Len(q)
          /\ q[i + 1].tap # 0 /\ q[i + 1].tap = q[j + 1].tap
      BY <1>2, <3>1
    <3>3. i + 1 = j + 1
      BY <1>7, <3>2 DEF TapsOnce
    <3>4. QED
      BY <3>3
  <2>2. ASSUME Head(q).tap # 0, NEW i \in 1 .. Len(r), r[i].tap = Head(q).tap PROVE FALSE
    BY <1>1, <1>2, <1>3, <1>7, <2>2 DEF TapsOnce
  <2>3. QED
    BY <2>1, <2>2 DEF TapsIn
<1>8. ASSUME NEW op, Without(op, q) PROVE Without(op, r) /\ Head(q).op # op
  BY <1>1, <1>2, <1>3, <1>8 DEF Without
<1>9. ASSUME ActionsAreTaps(q)
      PROVE  ActionsAreTaps(r) /\ (Head(q).op = "action" => Head(q).tap # 0)
  BY <1>1, <1>2, <1>3, <1>9 DEF ActionsAreTaps
<1>10. QED
  BY <1>5, <1>6, <1>7, <1>8, <1>9 DEF r

\* What is known of a queue with one message.
LEMMA OneMessage ==
  ASSUME NEW e
  PROVE  /\ TapsIn(<<e>>) = {e.tap} /\ TapsOnce(<<e>>)
         /\ \A op : Without(op, <<e>>) <=> e.op # op
         /\ ActionsAreTaps(<<e>>) <=> (e.op = "action" => e.tap # 0)
<1> DEFINE r == <<e>>
<1>1. Len(r) = 1 /\ r[1] = e
  OBVIOUS
<1> HIDE DEF r
<1>2. 1 .. Len(r) = {1}
  BY <1>1
<1>3. TapsIn(r) = {e.tap} /\ TapsOnce(r)
  BY <1>1, <1>2 DEF TapsIn, TapsOnce
<1>4. /\ \A op : Without(op, r) <=> e.op # op
      /\ ActionsAreTaps(r) <=> (e.op = "action" => e.tap # 0)
  BY <1>1, <1>2 DEF Without, ActionsAreTaps
<1>5. QED
  BY <1>3, <1>4 DEF r

\* Of an empty one.
LEMMA NoMessage ==
  /\ TapsIn(<<>>) = {} /\ TapsOnce(<<>>) /\ ActionsAreTaps(<<>>)
  /\ \A op : Without(op, <<>>)
  /\ \A t : NewestLast(<<>>, t)
BY EmptySeq DEF TapsIn, TapsOnce, ActionsAreTaps, Without, NewestLast

\* What executing an action adds to the history.
LEMMA ExecutedAppend ==
  ASSUME NEW t \in Taps, executed \in Seq(Taps), executed' = Append(executed, t)
  PROVE  /\ executed' \in Seq(Taps)
         /\ Executed' = Executed \cup {t}
         /\ ExecutedApart /\ t \notin Executed => ExecutedApart'
<1>1. /\ executed' \in Seq(Taps)
      /\ Len(executed) \in Nat /\ Len(executed') = Len(executed) + 1
      /\ executed'[Len(executed) + 1] = t
      /\ \A i \in 1 .. Len(executed) : executed'[i] = executed[i]
  BY AppendElements
<1>2. /\ \A i \in 1 .. Len(executed') : i \in 1 .. Len(executed) \/ i = Len(executed) + 1
      /\ \A i \in 1 .. Len(executed) : i \in 1 .. Len(executed')
      /\ Len(executed) + 1 \in 1 .. Len(executed')
  BY <1>1
<1>3. Executed' = Executed \cup {t}
  BY <1>1, <1>2 DEF Executed
<1>4. ASSUME ExecutedApart, t \notin Executed PROVE ExecutedApart'
  <2>1. \A i \in 1 .. Len(executed) : executed[i] # t
    BY <1>4 DEF Executed
  <2>2. QED
    BY <1>1, <1>2, <1>4, <2>1 DEF ExecutedApart
<1>5. QED
  BY <1>1, <1>3, <1>4

\* The newest tap is behind the other actions when it has just been sent.
LEMMA NewestAppended ==
  ASSUME NEW S, NEW q \in Seq(S), NEW t, Message("action", t) \in S
  PROVE  NewestLast(Append(q, Message("action", t)), t)
<1> DEFINE r == Append(q, Message("action", t))
<1>1. Len(q) \in Nat /\ Len(r) = Len(q) + 1 /\ r[Len(q) + 1] = Message("action", t)
  BY AppendElements
<1>2. \A i \in 1 .. Len(r) : Len(q) + 1 \in i .. Len(r)
  BY <1>1
<1> HIDE DEF r
<1>3. NewestLast(r, t)
  BY <1>1, <1>2 DEF NewestLast
<1>4. QED
  BY <1>3 DEF r

\* It stays there when the answer with the kept action is sent.
LEMMA NewestBeforeAnswer ==
  ASSUME NEW S, NEW q \in Seq(S), NEW e \in S, e.op # "action", NEW t, NewestLast(q, t)
  PROVE  NewestLast(Append(q, e), t)
<1> DEFINE r == Append(q, e)
<1>1. /\ Len(q) \in Nat /\ Len(r) = Len(q) + 1 /\ r[Len(q) + 1] = e
      /\ \A i \in 1 .. Len(q) : r[i] = q[i]
  BY AppendElements
<1> HIDE DEF r
<1>2. SUFFICES ASSUME NEW i \in 1 .. Len(r), r[i].op = "action"
               PROVE  \E j \in i .. Len(r) : r[j] = Message("action", t)
  BY DEF NewestLast, r
<1>3. i \in 1 .. Len(q)
  BY <1>1, <1>2
<1>4. PICK j \in i .. Len(q) : q[j] = Message("action", t)
  BY <1>1, <1>2, <1>3 DEF NewestLast
<1>5. j \in i .. Len(r) /\ j \in 1 .. Len(q)
  BY <1>1, <1>3, <1>4
<1>6. QED
  BY <1>1, <1>4, <1>5

\* When the first message is delivered, an action behind which no other comes
\* was the newest tap.
LEMMA NewestTail ==
  ASSUME NEW S, NEW q \in Seq(S), q # <<>>, NEW t, NewestLast(q, t)
  PROVE  /\ NewestLast(Tail(q), t)
         /\ Head(q).op = "action" =>
              \/ \E i \in 1 .. Len(Tail(q)) : Tail(q)[i] = Message("action", t)
              \/ Head(q).tap = t /\ Without("action", Tail(q))
         /\ Head(q).op # "action" =>
              \A i \in 1 .. Len(q) : q[i] = Message("action", t) =>
                \E j \in 1 .. Len(Tail(q)) : Tail(q)[j] = Message("action", t)
<1> DEFINE r == Tail(q)
<1>1. /\ Head(q) = q[1] /\ Len(q) \in Nat \ {0} /\ Len(r) = Len(q) - 1
      /\ \A i \in 1 .. Len(q) - 1 : r[i] = q[i + 1]
  BY TailElements
<1> HIDE DEF r
<1>2. NewestLast(r, t)
  <2>1. SUFFICES ASSUME NEW i \in 1 .. Len(r), r[i].op = "action"
                 PROVE  \E j \in i .. Len(r) : r[j] = Message("action", t)
    BY DEF NewestLast
  <2>2. i + 1 \in 1 .. Len(q) /\ q[i + 1].op = "action"
    BY <1>1, <2>1
  <2>3. PICK j \in i + 1 .. Len(q) : q[j] = Message("action", t)
    BY <2>2 DEF NewestLast
  <2>4. j - 1 \in i .. Len(r) /\ j - 1 \in 1 .. Len(q) - 1 /\ (j - 1) + 1 = j
    BY <1>1, <2>1, <2>3
  <2>5. r[j - 1] = q[j]
    BY <1>1, <2>4
  <2>6. QED
    BY <2>3, <2>4, <2>5
<1>3. ASSUME Head(q).op = "action", ~ \E i \in 1 .. Len(r) : r[i] = Message("action", t)
      PROVE  Head(q).tap = t /\ Without("action", r)
  <2>1. Without("action", r)
    BY <1>1, <1>2, <1>3 DEF NewestLast, Without
  <2>2. PICK j \in 1 .. Len(q) : q[j] = Message("action", t)
    BY <1>1, <1>3 DEF NewestLast
  <2>3. j = 1
    <3>1. SUFFICES ASSUME j # 1 PROVE FALSE
      OBVIOUS
    <3>2. j - 1 \in 1 .. Len(r) /\ j - 1 \in 1 .. Len(q) - 1 /\ (j - 1) + 1 = j
      BY <1>1, <3>1
    <3>3. QED
      BY <1>1, <1>3, <2>2, <3>2
  <2>4. QED
    BY <1>1, <2>1, <2>2, <2>3 DEF Message
<1>4. ASSUME Head(q).op # "action", NEW i \in 1 .. Len(q), q[i] = Message("action", t)
      PROVE  \E j \in 1 .. Len(r) : r[j] = Message("action", t)
  <2>1. i # 1
    BY <1>1, <1>4 DEF Message
  <2>2. i - 1 \in 1 .. Len(r) /\ i - 1 \in 1 .. Len(q) - 1 /\ (i - 1) + 1 = i
    BY <1>1, <2>1
  <2>3. QED
    BY <1>1, <1>4, <2>2
<1>5. QED
  BY <1>2, <1>3, <1>4 DEF r

-----------------------------------------------------------------------------
(* What the steps do to the places *)

\* The action is kept in the queue, or taken to the next frame when no other
\* one is being executed.
Moves(action, executing) ==
  \/ queuedAction' = action /\ posted' = posted /\ isExecuting' = executing
  \/ /\ action # 0 /\ ~ executing
     /\ queuedAction' = 0 /\ posted' = action /\ isExecuting' = TRUE

\* _processQueuedAction does no more than that.
LEMMA ProcessMoves ==
  ASSUME NEW action, NEW executing, NEW ready, NEW again \in BOOLEAN,
         Process(action, executing, ready, again)
  PROVE  Moves(action, executing) /\ retry' \in BOOLEAN
BY DEF Process, Moves, Keep, Take, Waits

\* The variables then have their types.
LEMMA WidgetTypesSuffice == WidgetTypes => WidgetTypeOK
<1> SUFFICES ASSUME WidgetTypes PROVE WidgetTypeOK
  OBVIOUS
<1>1. 0 .. taps \subseteq Taps /\ taps \in 0 .. taps
  BY WidgetAssumption DEF WidgetTypes, NumbersOK, Taps
<1>2. \A i \in 1 .. Len(messages) : messages[i] \in WidgetMessages
  BY DEF WidgetTypes, SequencesOK
<1>3. {consuming, built, navigator, dashboard, retry} \subseteq BOOLEAN
  BY DEF WidgetTypes, FlagsOK
<1>4. {pendingWidgetAction, root, buffer, queuedAction, posted, shown, taps, born, initial}
        \subseteq Taps
  BY <1>1 DEF WidgetTypes, NumbersOK
<1>5. QED
  BY <1>2, <1>3, <1>4 DEF WidgetTypes, FlagsOK, WidgetTypeOK, WidgetMessages

\* Numbers of taps that have been are numbers of taps.
LEMMA TapNumbers ==
  ASSUME NumbersOK
  PROVE  /\ taps \in Nat /\ 0 \in 0 .. taps /\ taps \in 0 .. taps
         /\ 0 .. taps \subseteq Taps
BY WidgetAssumption DEF NumbersOK, Taps

\* What sending or delivering a message does to the types.
LEMMA MessageTypes ==
  ASSUME SequencesOK, TapsIn(messages) \subseteq 0 .. taps, taps \in Nat, taps' \in Nat,
         taps <= taps',
         \/ messages' = messages \/ messages' = <<>>
         \/ messages # <<>> /\ messages' = Tail(messages)
         \/ \E e \in WidgetMessages : /\ messages' \in {Append(messages, e), <<e>>}
                                      /\ e.tap \in 0 .. taps'
                                      /\ e.op = "action" => e.tap # 0
  PROVE  /\ messages' \in Seq(WidgetMessages) /\ ActionsAreTaps(messages')
         /\ TapsIn(messages') \subseteq 0 .. taps'
<1>1. 0 .. taps \subseteq 0 .. taps' /\ messages \in Seq(WidgetMessages)
  BY DEF SequencesOK
<1>2. CASE messages' = messages
  BY <1>1, <1>2 DEF SequencesOK
<1>3. CASE messages' = <<>>
  BY <1>3, EmptySeq DEF TapsIn, ActionsAreTaps
<1>4. CASE messages # <<>> /\ messages' = Tail(messages)
  <2>1. messages' \in Seq(WidgetMessages)
    BY <1>1, <1>4, TailElements
  <2>2. TapsIn(messages') \subseteq TapsIn(messages) /\ ActionsAreTaps(messages')
    BY <1>1, <1>4, TapsTail DEF SequencesOK
  <2>3. QED
    BY <1>1, <2>1, <2>2
<1>5. ASSUME NEW e \in WidgetMessages, messages' = <<e>>,
             e.tap \in 0 .. taps', e.op = "action" => e.tap # 0
      PROVE  /\ messages' \in Seq(WidgetMessages) /\ ActionsAreTaps(messages')
             /\ TapsIn(messages') \subseteq 0 .. taps'
  BY <1>5, OneMessage
<1>6. ASSUME NEW e \in WidgetMessages, messages' = Append(messages, e),
             e.tap \in 0 .. taps', e.op = "action" => e.tap # 0
      PROVE  /\ messages' \in Seq(WidgetMessages) /\ ActionsAreTaps(messages')
             /\ TapsIn(messages') \subseteq 0 .. taps'
  <2>1. messages' \in Seq(WidgetMessages)
    BY <1>1, <1>6, AppendElements
  <2>2. TapsIn(messages') = TapsIn(messages) \cup {e.tap} /\ ActionsAreTaps(messages')
    BY <1>1, <1>6, TapsAppend DEF SequencesOK
  <2>3. QED
    BY <1>1, <1>6, <2>1, <2>2
<1>7. QED
  BY <1>2, <1>3, <1>4, <1>5, <1>6

\* What sending and executing do, step by step.
LEMMA SequenceSteps ==
  ASSUME WidgetTypes, WidgetNext
  PROVE  /\ SequencesOK' /\ TapsIn(messages') \subseteq 0 .. taps'
         /\ Executed' \subseteq 0 .. taps' /\ taps' \in Taps /\ taps <= taps'
<1> USE DEF channelVars, tapVars, nativeVars, treeVars, queueVars
<1>0. /\ NumbersOK /\ SequencesOK /\ taps \in Taps /\ taps \in Nat
      /\ MaxTaps \in Nat /\ 0 .. taps \subseteq Taps
      /\ Executed \subseteq 0 .. taps /\ TapsIn(messages) \subseteq 0 .. taps
      /\ {pendingWidgetAction, root, posted} \subseteq 0 .. taps
  BY TapNumbers, WidgetAssumption DEF WidgetTypes, NumbersOK
<1>1. taps' \in Taps /\ taps <= taps'
  <2>1. taps' = taps \/ (taps < MaxTaps /\ taps' = taps + 1)
    BY DEF WidgetNext, StartByTap, Start, Restore, Configure, Tap, ConsumeInitialAction,
           Destroy, BuildLifecycle, BuildNavigator, DeliverMessage, ChangeOnboarding,
           RetryAfterFrame, Execute, FinishAction
  <2>2. QED
    BY <1>0, <2>1 DEF Taps
<1>2. \/ messages' = messages \/ messages' = <<>>
      \/ messages # <<>> /\ messages' = Tail(messages)
      \/ \E e \in WidgetMessages : /\ messages' \in {Append(messages, e), <<e>>}
                                   /\ e.tap \in 0 .. taps'
                                   /\ e.op = "action" => e.tap # 0
  <2>1. CASE Tap
    <3>1. Message("action", taps') \in WidgetMessages /\ taps' # 0 /\ taps' \in 0 .. taps'
      BY <1>0, <1>1, <2>1 DEF Message, WidgetMessages, Tap
    <3>2. QED
      BY <2>1, <3>1 DEF Tap, HandleWidgetIntent, Message
  <2>2. CASE ConsumeInitialAction
    <3>1. Message("initial", pendingWidgetAction) \in WidgetMessages
      BY <1>0 DEF Message, WidgetMessages
    <3>2. QED
      BY <1>0, <2>2, <3>1 DEF ConsumeInitialAction, Message
  <2>3. CASE Restore
    <3>1. Message("action", root) \in WidgetMessages /\ root \in 0 .. taps'
      BY <1>0, <1>1 DEF Message, WidgetMessages, Taps
    <3>2. QED
      BY <2>3, <3>1 DEF Restore, Message
  <2>4. CASE ~ Tap /\ ~ ConsumeInitialAction /\ ~ Restore
    BY <2>4 DEF WidgetNext, StartByTap, Start, Create, Configure, Destroy,
           BuildLifecycle, BuildNavigator, DeliverMessage, ChangeOnboarding,
           RetryAfterFrame, Execute, FinishAction
  <2>5. QED
    BY <2>1, <2>2, <2>3, <2>4
<1>3. /\ messages' \in Seq(WidgetMessages) /\ ActionsAreTaps(messages')
      /\ TapsIn(messages') \subseteq 0 .. taps'
  BY <1>0, <1>1, <1>2, MessageTypes DEF Taps
<1>4. executed' \in Seq(Taps) /\ Executed' \subseteq 0 .. taps'
  <2>1. CASE Execute
    <3>1. posted \in Taps /\ executed' = Append(executed, posted) /\ taps' = taps
      BY <1>0, <2>1 DEF Execute
    <3>2. executed' \in Seq(Taps) /\ Executed' = Executed \cup {posted}
      BY <1>0, <3>1, ExecutedAppend DEF SequencesOK
    <3>3. QED
      BY <1>0, <3>1, <3>2
  <2>2. CASE executed' = executed
    <3>1. Executed' = Executed /\ 0 .. taps \subseteq 0 .. taps'
      BY <1>0, <1>1, <2>2 DEF Executed, Taps
    <3>2. QED
      BY <1>0, <2>2, <3>1 DEF SequencesOK
  <2>3. CASE Destroy
    BY <2>3, EmptySeq DEF Destroy, Executed
  <2>4. QED
    BY <2>1, <2>2, <2>3 DEF WidgetNext, StartByTap, Start, Restore, Create, Configure, Tap,
           ConsumeInitialAction, BuildLifecycle, BuildNavigator, DeliverMessage,
           ChangeOnboarding, RetryAfterFrame, FinishAction
<1>5. QED
  BY <1>1, <1>3, <1>4 DEF SequencesOK

\* Where the numbers of the places come from.
LEMMA NumberSteps ==
  ASSUME WidgetTypes, WidgetNext
  PROVE  {pendingWidgetAction', root', buffer', queuedAction', posted', shown', born', initial'}
           \subseteq 0 .. taps'
<1> USE DEF channelVars, tapVars, nativeVars, treeVars, queueVars
<1>0. /\ {pendingWidgetAction, root, buffer, queuedAction, posted, shown, born, initial, taps, 0}
           \subseteq 0 .. taps'
      /\ taps' \in 0 .. taps'
  <2>1. taps \in Nat /\ taps' \in Nat /\ taps <= taps'
    BY TapNumbers, SequenceSteps, WidgetAssumption DEF WidgetTypes, Taps
  <2>2. {pendingWidgetAction, root, buffer, queuedAction, posted, shown, born, initial}
          \subseteq 0 .. taps
    BY DEF WidgetTypes, NumbersOK
  <2>3. QED
    BY <2>1, <2>2
<1>1. ASSUME NEW action \in 0 .. taps', NEW executing, Moves(action, executing)
      PROVE  {queuedAction', posted'} \subseteq 0 .. taps'
  BY <1>0, <1>1 DEF Moves
<1>2. ASSUME NEW tap \in 0 .. taps', Create(tap)
      PROVE  {pendingWidgetAction', buffer', queuedAction', posted', shown', born', initial'}
               \subseteq 0 .. taps'
  BY <1>0, <1>2 DEF Create
<1>3. CASE Start \/ StartByTap \/ Restore
  BY <1>0, <1>2, <1>3 DEF Start, StartByTap, Restore
<1>4. CASE Configure \/ Destroy \/ BuildNavigator \/ ConsumeInitialAction \/ Execute
  BY <1>0, <1>4 DEF Configure, Destroy, BuildNavigator, ConsumeInitialAction, Execute
<1>5. CASE Tap
  BY <1>0, <1>5 DEF Tap, HandleWidgetIntent
<1>6. CASE BuildLifecycle
  <2>1. {queuedAction', posted'} \subseteq 0 .. taps'
    BY <1>0, <1>1, <1>6, ProcessMoves DEF BuildLifecycle, Enqueue, WidgetTypes, FlagsOK
  <2>2. QED
    BY <1>0, <1>6, <2>1 DEF BuildLifecycle
<1>7. CASE DeliverMessage
  <2>1. Head(messages).tap \in 0 .. taps'
    <3>1. messages \in Seq(WidgetMessages) /\ messages # <<>>
      BY <1>7 DEF DeliverMessage, WidgetTypes, SequencesOK
    <3>2. Head(messages).tap \in TapsIn(messages)
      BY <3>1, TapsTail
    <3>3. QED
      BY <3>2, SequenceSteps, TapNumbers, WidgetAssumption DEF WidgetTypes, NumbersOK, Taps
  <2>2. {queuedAction', posted', buffer'} \subseteq 0 .. taps'
    BY <1>0, <1>1, <1>7, <2>1, ProcessMoves
    DEF DeliverMessage, Enqueue, WidgetTypes, FlagsOK
  <2>3. QED
    BY <1>0, <1>7, <2>2 DEF DeliverMessage
<1>8. CASE ChangeOnboarding \/ RetryAfterFrame \/ FinishAction
  <2>1. Moves(queuedAction, isExecuting) \/ Moves(queuedAction, FALSE)
    BY <1>8, ProcessMoves DEF ChangeOnboarding, RetryAfterFrame, FinishAction,
                              WidgetTypes, FlagsOK
  <2>2. {queuedAction', posted'} \subseteq 0 .. taps'
    BY <1>0, <1>1, <2>1
  <2>3. QED
    BY <1>0, <1>8, <2>2 DEF ChangeOnboarding, RetryAfterFrame, FinishAction
<1>9. QED
  BY <1>3, <1>4, <1>5, <1>6, <1>7, <1>8 DEF WidgetNext

\* An action is being executed from the frame it waits for until its screen is
\* closed.
LEMMA FlagSteps ==
  ASSUME FlagsOK, WidgetNext
  PROVE  FlagsOK'
<1> USE DEF channelVars, tapVars, nativeVars, treeVars, queueVars, FlagsOK
<1>1. ASSUME NEW action, NEW executing, Moves(action, executing), shown' \in {shown, 0},
             executing = (posted # 0 \/ shown' # 0)
      PROVE  /\ isExecuting' = (posted' # 0 \/ shown' # 0)
             /\ posted' # 0 => shown' = 0
  BY <1>1 DEF Moves
<1>2. CASE \/ StartByTap \/ Start \/ Restore
           \/ Configure \/ Tap \/ ConsumeInitialAction
  BY <1>2 DEF StartByTap, Start, Restore, Create, Configure, Tap, ConsumeInitialAction
<1>3. CASE Destroy
  BY <1>3 DEF Destroy
<1>4. CASE BuildLifecycle
  <2>1. CASE buffer # 0
    <3>1. Moves(buffer, isExecuting) /\ retry' \in BOOLEAN
      BY <1>4, <2>1, ProcessMoves DEF BuildLifecycle, Enqueue
    <3>2. QED
      BY <1>1, <1>4, <3>1 DEF BuildLifecycle
  <2>2. CASE buffer = 0
    BY <1>4, <2>2 DEF BuildLifecycle
  <2>3. QED
    BY <2>1, <2>2
<1>5. CASE BuildNavigator
  BY <1>5 DEF BuildNavigator
<1>6. CASE DeliverMessage
  <2>1. CASE UNCHANGED queueVars
    BY <1>6, <2>1 DEF DeliverMessage
  <2>2. CASE Enqueue(Head(messages).tap)
    <3>1. Moves(Head(messages).tap, isExecuting) /\ retry' \in BOOLEAN
      BY <2>2, ProcessMoves DEF Enqueue
    <3>2. QED
      BY <1>1, <1>6, <3>1 DEF DeliverMessage
  <2>3. QED
    BY <1>6, <2>1, <2>2 DEF DeliverMessage
<1>7. CASE ChangeOnboarding \/ RetryAfterFrame
  <2>1. Moves(queuedAction, isExecuting) /\ retry' \in BOOLEAN
    BY <1>7, ProcessMoves DEF ChangeOnboarding, RetryAfterFrame
  <2>2. QED
    BY <1>1, <1>7, <2>1 DEF ChangeOnboarding, RetryAfterFrame
<1>8. CASE Execute
  BY <1>8 DEF Execute
<1>9. CASE FinishAction
  <2>1. Moves(queuedAction, FALSE) /\ retry' \in BOOLEAN /\ posted = 0
    BY <1>9, ProcessMoves DEF FinishAction
  <2>2. QED
    BY <1>1, <1>9, <2>1 DEF FinishAction
<1>10. QED
  BY <1>2, <1>3, <1>4, <1>5, <1>6, <1>7, <1>8, <1>9 DEF WidgetNext

\* Every step keeps the types.
LEMMA WidgetTypeStep == WidgetTypes /\ WidgetNext => WidgetTypes'
<1> SUFFICES ASSUME WidgetTypes, WidgetNext PROVE WidgetTypes'
  OBVIOUS
<1>1. NumbersOK'
  BY SequenceSteps, NumberSteps DEF NumbersOK
<1>2. FlagsOK'
  BY FlagSteps DEF WidgetTypes
<1>3. QED
  BY <1>1, <1>2, SequenceSteps DEF WidgetTypes

-----------------------------------------------------------------------------
(* No tap at two places *)

\* Every step keeps the taps apart: what it puts at one place it has taken from
\* another, or is new, or it comes to an app that holds nothing yet.
LEMMA ApartStep ==
  ASSUME WidgetTypes, NoTapTwice, ExecutedApart, StartOK, WidgetNext
  PROVE  NoTapTwice' /\ ExecutedApart'
<1> USE DEF channelVars, tapVars, nativeVars, treeVars, queueVars
<1>0. /\ messages \in Seq(WidgetMessages) /\ taps \in Nat
      /\ {pendingWidgetAction, buffer, queuedAction, posted} \subseteq 0 .. taps
      /\ Executed \subseteq 0 .. taps /\ TapsIn(messages) \subseteq 0 .. taps
  BY TapNumbers DEF WidgetTypes, NumbersOK, SequencesOK
<1>1. ASSUME executed' = executed
      PROVE  Executed' = Executed /\ ExecutedApart'
  BY <1>1 DEF Executed, ExecutedApart
<1>2. ASSUME activity = "none"
      PROVE  /\ {pendingWidgetAction, buffer, queuedAction, posted} = {0}
             /\ messages = <<>> /\ Executed = {}
  BY <1>2, EmptySeq DEF StartOK, Executed
<1>3. CASE StartByTap \/ Start \/ Restore
  <2>1. CASE Restore
    <3>1. TapsIn(messages') \subseteq {root} /\ TapsOnce(messages')
      BY <2>1, NoMessage, OneMessage DEF Restore, Message
    <3>2. QED
      BY <1>1, <1>2, <2>1, <3>1 DEF Restore, NoTapTwice, Apart
  <2>2. CASE StartByTap \/ Start
    <3>1. PICK tap : Create(tap)
      BY <2>2 DEF StartByTap, Start
    <3>2. QED
      BY <1>1, <1>2, <3>1, NoMessage DEF Create, NoTapTwice, Apart
  <2>3. QED
    BY <1>3, <2>1, <2>2
<1>4. CASE Configure \/ BuildNavigator
  BY <1>1, <1>4 DEF Configure, BuildNavigator, NoTapTwice, Apart
<1>5. CASE Tap
  <2>1. /\ taps' # 0 /\ taps' \notin {pendingWidgetAction, buffer, queuedAction, posted}
        /\ taps' \notin Executed /\ taps' \notin TapsIn(messages)
    BY <1>0, <1>5 DEF Tap
  <2>2. CASE /\ messages' = Append(messages, Message("action", taps'))
             /\ UNCHANGED pendingWidgetAction
    <3>1. Message("action", taps') \in WidgetMessages
      BY <1>0, <1>5, WidgetAssumption DEF Tap, Message, WidgetMessages, Taps
    <3>2. TapsIn(messages') = TapsIn(messages) \cup {taps'} /\ TapsOnce(messages')
      BY <1>0, <2>1, <2>2, <3>1, TapsAppend DEF Message, NoTapTwice
    <3>3. QED
      BY <1>1, <1>5, <2>1, <2>2, <3>2 DEF Tap, NoTapTwice, Apart
  <2>3. CASE pendingWidgetAction' = taps' /\ UNCHANGED messages
    BY <1>1, <1>5, <2>1, <2>3 DEF Tap, NoTapTwice, Apart
  <2>4. QED
    BY <1>5, <2>2, <2>3 DEF Tap, HandleWidgetIntent
<1>6. CASE ConsumeInitialAction
  <2>1. Message("initial", pendingWidgetAction) \in WidgetMessages
    BY <1>0, TapNumbers DEF WidgetTypes, Message, WidgetMessages
  <2>2. TapsIn(messages') = TapsIn(messages) \cup {pendingWidgetAction} /\ TapsOnce(messages')
    BY <1>0, <1>6, <2>1, TapsAppend DEF ConsumeInitialAction, Message, NoTapTwice
  <2>3. QED
    BY <1>1, <1>6, <2>2 DEF ConsumeInitialAction, NoTapTwice, Apart
<1>7. CASE Destroy
  <2>1. TapsIn(messages') = {} /\ TapsOnce(messages')
    BY <1>7, NoMessage DEF Destroy
  <2>2. Executed' = {} /\ ExecutedApart'
    BY <1>7, EmptySeq DEF Destroy, Executed, ExecutedApart
  <2>3. QED
    BY <1>7, <2>1, <2>2 DEF Destroy, NoTapTwice, Apart
<1>8. CASE BuildLifecycle
  <2>1. CASE buffer = 0
    BY <1>1, <1>8, <2>1 DEF BuildLifecycle, NoTapTwice, Apart
  <2>2. CASE buffer # 0
    <3>1. Moves(buffer, isExecuting)
      BY <1>8, <2>2, ProcessMoves DEF BuildLifecycle, Enqueue, WidgetTypes, FlagsOK
    <3>2. QED
      BY <1>1, <1>8, <3>1 DEF BuildLifecycle, Moves, NoTapTwice, Apart
  <2>3. QED
    BY <2>1, <2>2
<1>9. CASE DeliverMessage
  <2> DEFINE tap == Head(messages).tap
  <2>1. /\ TapsIn(messages') \subseteq TapsIn(messages) /\ TapsOnce(messages')
        /\ tap \in TapsIn(messages)
        /\ tap # 0 => tap \notin TapsIn(messages')
    BY <1>0, <1>9, TapsTail DEF DeliverMessage, NoTapTwice
  <2>2. \/ buffer' = tap /\ UNCHANGED queueVars
        \/ buffer' = buffer /\ (UNCHANGED queueVars \/ Moves(tap, isExecuting))
    BY <1>9, ProcessMoves DEF DeliverMessage, Enqueue, WidgetTypes, FlagsOK
  <2>3. Executed' = Executed /\ ExecutedApart' /\ pendingWidgetAction' = pendingWidgetAction
    BY <1>1, <1>9 DEF DeliverMessage
  <2> HIDE DEF tap
  <2>4. QED
    BY <2>1, <2>2, <2>3 DEF Moves, NoTapTwice, Apart
<1>10. CASE ChangeOnboarding \/ RetryAfterFrame \/ FinishAction
  <2>1. Moves(queuedAction, isExecuting) \/ Moves(queuedAction, FALSE)
    BY <1>10, ProcessMoves DEF ChangeOnboarding, RetryAfterFrame, FinishAction,
                              WidgetTypes, FlagsOK
  <2>2. QED
    BY <1>1, <1>10, <2>1 DEF ChangeOnboarding, RetryAfterFrame, FinishAction,
                             Moves, NoTapTwice, Apart
<1>11. CASE Execute
  <2>1. posted \in Taps
    BY <1>0, TapNumbers DEF WidgetTypes
  <2>2. posted # 0 /\ posted \notin Executed /\ posted \notin TapsIn(messages)
    BY <1>11 DEF Execute, NoTapTwice
  <2>3. Executed' = Executed \cup {posted} /\ ExecutedApart'
    BY <1>11, <2>1, <2>2, ExecutedAppend DEF Execute, WidgetTypes, SequencesOK
  <2>4. QED
    BY <1>11, <2>2, <2>3 DEF Execute, NoTapTwice, Apart
<1>12. QED
  BY <1>3, <1>4, <1>5, <1>6, <1>7, <1>8, <1>9, <1>10, <1>11 DEF WidgetNext

\* No step brings back what an earlier start was given: a place takes its action
\* from another one, from a new tap or from the task, and a restart empties all.
LEMMA PlacesStep ==
  ASSUME WidgetTypes, StartOK, Places \subseteq Given, WidgetNext
  PROVE  (Places \subseteq Given)'
<1> USE DEF channelVars, tapVars, nativeVars, treeVars, queueVars
<1>0. messages \in Seq(WidgetMessages) /\ taps \in Nat /\ born \in Nat
  BY TapNumbers DEF WidgetTypes, SequencesOK, NumbersOK
<1>1. ASSUME executed' = executed
      PROVE  Executed' = Executed
  BY <1>1 DEF Executed
<1>2. ASSUME UNCHANGED <<taps, born, root>>, Places' \subseteq Places \cup {0}
      PROVE  (Places \subseteq Given)'
  BY <1>2 DEF Given
<1>3. CASE StartByTap \/ Start \/ Restore
  <2>1. /\ {pendingWidgetAction, buffer, queuedAction, posted} = {0}
        /\ messages = <<>> /\ Executed = {} /\ Executed' = {}
    BY <1>1, <1>3, EmptySeq DEF StartByTap, Start, Restore, Create, StartOK, Executed
  <2>2. CASE Restore
    <3>1. TapsIn(messages') \subseteq {root}
      BY <2>2, NoMessage, OneMessage DEF Restore, Message
    <3>2. QED
      BY <2>1, <2>2, <3>1 DEF Restore, Places, Given
  <2>3. CASE StartByTap \/ Start
    BY <2>1, <2>3, NoMessage DEF StartByTap, Start, Create, Places, Given
  <2>4. QED
    BY <1>3, <2>2, <2>3
<1>4. CASE Configure \/ BuildNavigator
  BY <1>1, <1>2, <1>4 DEF Configure, BuildNavigator, Places
<1>5. CASE Tap
  <2>1. Given \subseteq Given' /\ taps' \in Given'
    <3>1. taps' = taps + 1 /\ UNCHANGED <<born, root>>
      BY <1>5 DEF Tap
    <3>2. born + 1 .. taps \subseteq born + 1 .. taps'
      BY <1>0, <3>1
    <3>3. taps' \in born + 1 .. taps'
      BY <1>0, <3>1, TapNumbers DEF WidgetTypes, NumbersOK
    <3>4. QED
      BY <3>1, <3>2, <3>3 DEF Given
  <2>2. TapsIn(messages') \subseteq TapsIn(messages) \cup {taps'}
    <3>1. Message("action", taps') \in WidgetMessages
      BY <1>0, <1>5, WidgetAssumption DEF Tap, Message, WidgetMessages, Taps
    <3>2. QED
      BY <1>0, <1>5, <3>1, TapsAppend DEF Tap, HandleWidgetIntent, Message
  <2>3. Places' \subseteq Places \cup {taps'}
    BY <1>1, <1>5, <2>2 DEF Tap, HandleWidgetIntent, Places
  <2>4. QED
    BY <2>1, <2>3
<1>6. CASE ConsumeInitialAction
  <2>1. Message("initial", pendingWidgetAction) \in WidgetMessages
    BY TapNumbers DEF WidgetTypes, NumbersOK, Message, WidgetMessages
  <2>2. TapsIn(messages') = TapsIn(messages) \cup {pendingWidgetAction}
    BY <1>0, <1>6, <2>1, TapsAppend DEF ConsumeInitialAction, Message
  <2>3. QED
    BY <1>1, <1>2, <1>6, <2>2 DEF ConsumeInitialAction, Places
<1>7. CASE Destroy
  <2>1. TapsIn(messages') = {} /\ Executed' = {}
    BY <1>7, NoMessage, EmptySeq DEF Destroy, Executed
  <2>2. QED
    BY <1>7, <2>1 DEF Destroy, Places, Given
<1>8. CASE BuildLifecycle
  <2>1. {queuedAction', posted'} \subseteq {queuedAction, posted, buffer, 0}
    <3>1. UNCHANGED queueVars \/ Moves(buffer, isExecuting)
      BY <1>8, ProcessMoves DEF BuildLifecycle, Enqueue, WidgetTypes, FlagsOK
    <3>2. QED
      BY <3>1 DEF Moves
  <2>2. QED
    BY <1>1, <1>2, <1>8, <2>1 DEF BuildLifecycle, Places
<1>9. CASE DeliverMessage
  <2> DEFINE tap == Head(messages).tap
  <2>1. TapsIn(messages') \cup {tap} \subseteq TapsIn(messages)
    BY <1>0, <1>9, TapsTail DEF DeliverMessage
  <2>2. \/ buffer' = tap /\ UNCHANGED queueVars
        \/ buffer' = buffer /\ (UNCHANGED queueVars \/ Moves(tap, isExecuting))
    BY <1>9, ProcessMoves DEF DeliverMessage, Enqueue, WidgetTypes, FlagsOK
  <2>3. Executed' = Executed /\ UNCHANGED <<pendingWidgetAction, taps, born, root>>
    BY <1>1, <1>9 DEF DeliverMessage
  <2> HIDE DEF tap
  <2>4. QED
    BY <1>2, <2>1, <2>2, <2>3 DEF Moves, Places
<1>10. CASE ChangeOnboarding \/ RetryAfterFrame \/ FinishAction
  <2>1. Moves(queuedAction, isExecuting) \/ Moves(queuedAction, FALSE)
    BY <1>10, ProcessMoves DEF ChangeOnboarding, RetryAfterFrame, FinishAction,
                              WidgetTypes, FlagsOK
  <2>2. QED
    BY <1>1, <1>2, <1>10, <2>1 DEF ChangeOnboarding, RetryAfterFrame, FinishAction,
                                   Moves, Places
<1>11. CASE Execute
  <2>1. posted \in Taps
    BY TapNumbers DEF WidgetTypes, NumbersOK
  <2>2. Executed' = Executed \cup {posted}
    BY <1>11, <2>1, ExecutedAppend DEF Execute, WidgetTypes, SequencesOK
  <2>3. QED
    BY <1>2, <1>11, <2>2 DEF Execute, Places
<1>12. QED
  BY <1>3, <1>4, <1>5, <1>6, <1>7, <1>8, <1>9, <1>10, <1>11 DEF WidgetNext

-----------------------------------------------------------------------------
(* The start of the app *)

\* Every step keeps what is known of the messages and the kept action.
LEMMA StartStep ==
  ASSUME WidgetTypes, StartOK, WidgetNext
  PROVE  StartOK'
<1> USE DEF channelVars, tapVars, nativeVars, treeVars, queueVars
<1>0. messages \in Seq(WidgetMessages)
  BY DEF WidgetTypes, SequencesOK
<1>1. CASE StartByTap \/ Start \/ Restore \/ Configure
  <2>1. CASE Restore
    <3>1. activity = "none" /\ activity' = "configured"
      BY <2>1 DEF Restore
    <3>2. Without("initial", messages')
      BY <2>1, NoMessage, OneMessage DEF Restore, Message
    <3>3. ~ built /\ initial = 0 /\ UNCHANGED <<consuming, built, queuedAction, initial>>
      BY <2>1, <3>1 DEF Restore, StartOK
    <3>4. QED
      BY <3>1, <3>2, <3>3 DEF StartOK, Without
  <2>2. CASE StartByTap \/ Start \/ Configure
    BY <2>2 DEF StartByTap, Start, Create, Configure, StartOK
  <2>3. QED
    BY <1>1, <2>1, <2>2
<1>2. CASE Tap
  <2>1. CASE activity = "configured"
    <3>1. messages' = Append(messages, Message("action", taps'))
      BY <1>2, <2>1 DEF Tap, HandleWidgetIntent
    <3>2. Message("action", taps') \in WidgetMessages
      BY <1>2, TapNumbers, WidgetAssumption DEF Tap, Message, WidgetMessages, Taps, WidgetTypes
    <3>3. Without("initial", messages) => Without("initial", messages')
      BY <1>0, <3>1, <3>2, TapsAppend DEF Message
    <3>4. \A i \in 1 .. Len(messages') :
            messages'[i].op = "initial" => messages'[i].tap = initial
      BY <1>0, <3>1, <3>2, AppendElements DEF StartOK, Message
    <3>5. QED
      BY <1>2, <2>1, <3>3, <3>4 DEF Tap, StartOK
  <2>2. CASE activity # "configured"
    BY <1>2, <2>2 DEF Tap, HandleWidgetIntent, StartOK
  <2>3. QED
    BY <2>1, <2>2
<1>3. CASE ConsumeInitialAction
  <2> DEFINE answer == Message("initial", pendingWidgetAction)
  <2>1. answer \in WidgetMessages /\ messages' = Append(messages, answer)
    BY <1>3, TapNumbers
    DEF ConsumeInitialAction, Message, WidgetMessages, WidgetTypes, NumbersOK
  <2>2. /\ built /\ activity = "configured" /\ consuming' = FALSE
        /\ Without("initial", messages)
    BY <1>3 DEF ConsumeInitialAction, StartOK
  <2>3. \A i \in 1 .. Len(messages') : messages'[i].op = "initial" => messages'[i] = answer
    BY <1>0, <2>1, <2>2, AppendElements DEF Without
  <2>4. QED
    BY <1>3, <2>2, <2>3 DEF ConsumeInitialAction, StartOK, Message
<1>4. CASE Destroy
  BY <1>4, EmptySeq DEF Destroy, StartOK, Without
<1>5. CASE BuildLifecycle
  <2>1. built' /\ buffer' = 0 /\ consuming' = TRUE /\ ~ built /\ activity = "configured"
    BY <1>5 DEF BuildLifecycle
  <2>2. UNCHANGED <<activity, messages, initial>>
    BY <1>5 DEF BuildLifecycle
  <2>3. QED
    BY <2>1, <2>2 DEF StartOK
<1>6. CASE DeliverMessage
  <2>1. messages # <<>> /\ messages' = Tail(messages)
    BY <1>6 DEF DeliverMessage
  <2>2. Without("initial", messages) => Without("initial", messages')
    BY <1>0, <2>1, TapsTail
  <2>3. \A i \in 1 .. Len(messages') : messages'[i].op = "initial" => messages'[i].tap = initial
    <3>1. \A i \in 1 .. Len(messages') : /\ i + 1 \in 1 .. Len(messages)
                                         /\ messages'[i] = messages[i + 1]
      BY <1>0, <2>1, TailElements
    <3>2. QED
      BY <3>1 DEF StartOK
  <2>4. ~ built' => queuedAction' = queuedAction
    BY <1>6 DEF DeliverMessage
  <2>5. /\ UNCHANGED <<activity, consuming, built, initial>>
        /\ built => buffer' = buffer
    BY <1>6 DEF DeliverMessage
  <2>6. QED
    BY <2>1, <2>2, <2>3, <2>4, <2>5 DEF StartOK
<1>7. CASE BuildNavigator \/ ChangeOnboarding \/ RetryAfterFrame \/ Execute \/ FinishAction
  <2>1. UNCHANGED <<activity, messages, consuming, buffer, built, initial>>
    BY <1>7 DEF BuildNavigator, ChangeOnboarding, RetryAfterFrame, Execute, FinishAction
  <2>2. queuedAction = 0 => queuedAction' = 0
    <3>1. CASE BuildNavigator \/ Execute
      BY <3>1 DEF BuildNavigator, Execute
    <3>2. CASE ChangeOnboarding \/ RetryAfterFrame \/ FinishAction
      <4>1. Moves(queuedAction, isExecuting) \/ Moves(queuedAction, FALSE)
        BY <3>2, ProcessMoves DEF ChangeOnboarding, RetryAfterFrame, FinishAction,
                                  WidgetTypes, FlagsOK
      <4>2. QED
        BY <4>1 DEF Moves
    <3>3. QED
      BY <1>7, <3>1, <3>2
  <2>3. activity = "none" => posted' = posted /\ executed' = executed
    <3>1. CASE BuildNavigator \/ Execute
      BY <3>1 DEF BuildNavigator, Execute, StartOK
    <3>2. CASE ChangeOnboarding \/ RetryAfterFrame \/ FinishAction
      <4>1. Moves(queuedAction, isExecuting) \/ Moves(queuedAction, FALSE)
        BY <3>2, ProcessMoves DEF ChangeOnboarding, RetryAfterFrame, FinishAction,
                                  WidgetTypes, FlagsOK
      <4>2. QED
        BY <3>2, <4>1 DEF Moves, StartOK, ChangeOnboarding, RetryAfterFrame, FinishAction
    <3>3. QED
      BY <1>7, <3>1, <3>2
  <2>4. pendingWidgetAction' = pendingWidgetAction
    BY <1>7 DEF BuildNavigator, ChangeOnboarding, RetryAfterFrame, Execute, FinishAction
  <2>5. QED
    BY <2>1, <2>2, <2>3, <2>4 DEF StartOK
<1>8. QED
  BY <1>1, <1>2, <1>3, <1>4, <1>5, <1>6, <1>7 DEF WidgetNext

-----------------------------------------------------------------------------
(* The newest tap *)

\* It is taken along when the queue is looked at.
LEMMA HeldByQueue ==
  ASSUME NewestHeld, NEW executing \in BOOLEAN, Moves(queuedAction, executing),
         ~ executing => posted = 0, taps # 0,
         UNCHANGED <<pendingWidgetAction, messages, buffer, taps, initial, executed>>
  PROVE  NewestHeld'
<1>1. /\ NewestSent' = NewestSent /\ Executed' = Executed
      /\ Without("action", messages') = Without("action", messages)
      /\ TapsIn(messages') = TapsIn(messages)
  BY DEF NewestSent, Newest, Executed
<1>2. QED
  BY <1>1 DEF NewestHeld, Moves

\* A delivered message does not come between the newest tap and its execution,
\* unless it is the kept action.
LEMMA HeldOnDelivery ==
  ASSUME WidgetTypes, StartOK, NewestLast(messages, taps), NewestHeld, taps # 0,
         DeliverMessage
  PROVE  NewestHeld'
<1> USE DEF channelVars, tapVars, nativeVars, treeVars, queueVars
<1> DEFINE head == Head(messages)
<1>1. /\ messages \in Seq(WidgetMessages) /\ messages # <<>> /\ messages' = Tail(messages)
      /\ UNCHANGED <<pendingWidgetAction, taps, initial, executed, built>>
  BY DEF DeliverMessage, WidgetTypes, SequencesOK
<1>2. /\ TapsIn(messages) \subseteq {head.tap} \cup TapsIn(messages')
      /\ Without("action", messages) => Without("action", messages') /\ head.op # "action"
      /\ Without("initial", messages) => head.op # "initial"
      /\ head.op = "action" => head.tap # 0
  BY <1>1, TapsTail DEF WidgetTypes, SequencesOK
<1>3. /\ head.op = "action" => NewestSent' \/ (head.tap = taps /\ Without("action", messages'))
      /\ head.op # "action" /\ NewestSent => NewestSent'
  BY <1>1, NewestTail DEF NewestSent, Newest
<1>4. head.op \in {"action", "initial"} /\ (head.op = "initial" => head.tap = initial)
  <2>1. head = messages[1] /\ 1 \in 1 .. Len(messages) /\ head \in WidgetMessages
    BY <1>1, TailElements
  <2>2. QED
    BY <2>1 DEF StartOK, WidgetMessages
<1>5. Executed' = Executed
  BY <1>1 DEF Executed
<1>6. CASE ~ built
  <2>1. buffer' = head.tap /\ head.op = "action" /\ UNCHANGED <<queuedAction, posted>>
    BY <1>2, <1>4, <1>6 DEF DeliverMessage, StartOK
  <2>2. QED
    BY <1>1, <1>3, <2>1 DEF NewestHeld
<1>7. CASE built
  <2>1. buffer' = buffer
    BY <1>7 DEF DeliverMessage
  <2>2. CASE head.tap = 0
    <3>1. UNCHANGED <<queuedAction, posted>>
      BY <1>7, <2>2 DEF DeliverMessage
    <3>2. head.op # "action" /\ initial = 0
      BY <1>2, <1>4, <2>2
    <3>3. QED
      BY <1>1, <1>2, <1>3, <1>5, <2>1, <2>2, <3>1, <3>2 DEF NewestHeld
  <2>3. CASE head.tap # 0
    <3>1. Moves(head.tap, isExecuting) /\ (~ isExecuting => posted = 0)
      BY <1>7, <2>3, ProcessMoves DEF DeliverMessage, Enqueue, WidgetTypes, FlagsOK
    <3>2. head.tap \in {queuedAction', posted'} /\ (posted = taps => posted' = taps)
      BY <3>1 DEF Moves
    <3>3. CASE head.op = "action"
      BY <1>1, <1>3, <3>2, <3>3 DEF NewestHeld
    <3>4. CASE head.op = "initial"
      BY <1>1, <1>2, <1>3, <1>4, <1>5, <2>1, <2>3, <3>2, <3>4 DEF NewestHeld
    <3>5. QED
      BY <1>4, <3>3, <3>4
  <2>4. QED
    BY <2>2, <2>3
<1>8. QED
  BY <1>6, <1>7, <1>1 DEF WidgetTypes, FlagsOK

\* Every step keeps the newest tap behind the other actions.
LEMMA NewestStep ==
  ASSUME WidgetTypes, StartOK, NewestOK, WidgetNext
  PROVE  NewestOK'
<1> USE DEF channelVars, tapVars, nativeVars, treeVars, queueVars
<1>0. messages \in Seq(WidgetMessages) /\ taps \in Nat /\ born \in Nat
  BY TapNumbers DEF WidgetTypes, SequencesOK, NumbersOK
<1>1. ASSUME taps > born, UNCHANGED <<messages, taps>>
      PROVE  NewestLast(messages', taps')
  BY <1>1 DEF NewestOK
<1>2. ASSUME messages' = <<>>
      PROVE  NewestLast(messages', taps') /\ Without("action", messages')
  BY <1>2, NoMessage
<1>3. CASE StartByTap \/ Start \/ Restore
  <2>1. CASE Start \/ Restore
    BY <1>0, <2>1 DEF Start, Restore, Create, NewestOK
  <2>2. CASE StartByTap
    <3>1. messages' = <<>>
      BY <2>2 DEF StartByTap, Create, StartOK
    <3>2. QED
      BY <1>2, <2>2, <3>1 DEF StartByTap, Create, NewestOK, NewestHeld
  <2>3. QED
    BY <1>3, <2>1, <2>2
<1>4. CASE Configure \/ BuildNavigator
  <2>1. UNCHANGED <<pendingWidgetAction, messages, buffer, queuedAction, posted, taps, born,
                    initial, executed>>
    BY <1>4 DEF Configure, BuildNavigator
  <2>2. NewestHeld => NewestHeld'
    BY <2>1 DEF NewestHeld, NewestSent, Newest, Executed
  <2>3. QED
    BY <1>1, <2>1, <2>2 DEF NewestOK
<1>5. CASE Tap
  <2>1. CASE activity = "configured"
    <3>1. messages' = Append(messages, Message("action", taps')) /\ taps' \in Taps
      BY <1>0, <1>5, <2>1, WidgetAssumption DEF Tap, HandleWidgetIntent, Taps
    <3>2. Message("action", taps') \in WidgetMessages
      BY <3>1 DEF Message, WidgetMessages
    <3>3. NewestLast(messages', taps')
      BY <1>0, <3>1, <3>2, NewestAppended
    <3>4. /\ messages'[Len(messages) + 1] = Message("action", taps')
          /\ Len(messages) + 1 \in 1 .. Len(messages')
      BY <1>0, <3>1, <3>2, AppendElements
    <3>5. QED
      BY <3>3, <3>4 DEF NewestOK, NewestHeld, NewestSent, Newest
  <2>2. CASE activity # "configured"
    <3>1. messages' = <<>> /\ pendingWidgetAction' = taps'
      BY <1>5, <2>2 DEF Tap, HandleWidgetIntent, StartOK
    <3>2. QED
      BY <1>2, <3>1 DEF NewestOK, NewestHeld
  <2>3. QED
    BY <2>1, <2>2
<1>6. CASE ConsumeInitialAction
  <2> DEFINE answer == Message("initial", pendingWidgetAction)
  <2>1. answer \in WidgetMessages /\ messages' = Append(messages, answer)
    BY <1>6, TapNumbers
    DEF ConsumeInitialAction, Message, WidgetMessages, WidgetTypes, NumbersOK
  <2>2. answer.op = "initial" /\ answer.tap = pendingWidgetAction
    BY DEF Message
  <2>3. NewestLast(messages, taps) => NewestLast(messages', taps)
    BY <1>0, <2>1, <2>2, NewestBeforeAnswer
  <2>4. /\ TapsIn(messages') = TapsIn(messages) \cup {pendingWidgetAction}
        /\ Without("action", messages) => Without("action", messages')
    BY <1>0, <2>1, <2>2, TapsAppend
  <2>5. NewestSent => NewestSent'
    <3>1. /\ \A i \in 1 .. Len(messages) : messages'[i] = messages[i]
          /\ \A i \in 1 .. Len(messages) : i \in 1 .. Len(messages')
      BY <1>0, <2>1, AppendElements
    <3>2. QED
      BY <1>6, <3>1 DEF ConsumeInitialAction, NewestSent, Newest
  <2>6. initial = 0 /\ UNCHANGED <<buffer, queuedAction, posted, taps, born, executed>>
    BY <1>6 DEF ConsumeInitialAction, StartOK
  <2> HIDE DEF answer
  <2>7. NewestHeld => NewestHeld'
    BY <2>4, <2>5, <2>6 DEF NewestHeld, Executed
  <2>8. QED
    BY <2>3, <2>6, <2>7 DEF NewestOK
<1>7. CASE Destroy
  BY <1>0, <1>2, <1>7 DEF Destroy, NewestOK
<1>8. CASE BuildLifecycle
  <2>1. /\ UNCHANGED <<pendingWidgetAction, messages, taps, born, initial, executed>>
        /\ initial = 0 /\ queuedAction = 0
    BY <1>8 DEF BuildLifecycle, StartOK
  <2>2. IF buffer # 0 THEN Moves(buffer, isExecuting) ELSE UNCHANGED <<queuedAction, posted>>
    BY <1>8, ProcessMoves DEF BuildLifecycle, Enqueue, WidgetTypes, FlagsOK
  <2>3. ~ isExecuting => posted = 0
    BY DEF WidgetTypes, FlagsOK
  <2>4. NewestHeld /\ taps # 0 => NewestHeld'
    BY <2>1, <2>2, <2>3 DEF NewestHeld, NewestSent, Newest, Executed, Moves
  <2>5. QED
    BY <1>0, <1>1, <2>1, <2>4 DEF NewestOK
<1>9. CASE DeliverMessage
  <2>1. messages # <<>> /\ messages' = Tail(messages) /\ UNCHANGED <<taps, born>>
    BY <1>9 DEF DeliverMessage
  <2>2. NewestLast(messages, taps) => NewestLast(messages', taps')
    BY <1>0, <2>1, NewestTail
  <2>3. QED
    BY <1>0, <1>9, <2>1, <2>2, HeldOnDelivery DEF NewestOK
<1>10. CASE ChangeOnboarding \/ RetryAfterFrame \/ FinishAction
  <2>1. PICK executing \in {isExecuting, FALSE} :
           Moves(queuedAction, executing) /\ (~ executing => posted = 0)
    BY <1>10, ProcessMoves DEF ChangeOnboarding, RetryAfterFrame, FinishAction,
                              WidgetTypes, FlagsOK
  <2>2. UNCHANGED <<pendingWidgetAction, messages, buffer, taps, born, initial, executed>>
    BY <1>10 DEF ChangeOnboarding, RetryAfterFrame, FinishAction
  <2>3. executing \in BOOLEAN
    BY DEF WidgetTypes, FlagsOK
  <2>4. QED
    BY <1>0, <1>1, <2>1, <2>2, <2>3, HeldByQueue DEF NewestOK
<1>11. CASE Execute
  <2>1. posted \in Taps /\ executed \in Seq(Taps) /\ executed' = Append(executed, posted)
    BY <1>11, TapNumbers DEF Execute, WidgetTypes, NumbersOK, SequencesOK
  <2>2. Executed' = Executed \cup {posted}
    BY <2>1, ExecutedAppend
  <2>3. UNCHANGED <<pendingWidgetAction, messages, buffer, queuedAction, taps, born, initial>>
    BY <1>11 DEF Execute
  <2>4. NewestHeld => NewestHeld'
    BY <2>2, <2>3 DEF NewestHeld, NewestSent, Newest
  <2>5. QED
    BY <1>1, <2>3, <2>4 DEF NewestOK
<1>12. QED
  BY <1>3, <1>4, <1>5, <1>6, <1>7, <1>8, <1>9, <1>10, <1>11 DEF WidgetNext

-----------------------------------------------------------------------------
(* The theorems about QuickWidget *)

\* The invariant holds before the app is started.
LEMMA WidgetIInvInit == WidgetInit => WidgetIInv
<1> SUFFICES ASSUME WidgetInit PROVE WidgetIInv
  OBVIOUS
<1> USE DEF WidgetInit
<1>1. /\ messages \in Seq(WidgetMessages) /\ executed \in Seq(Taps)
      /\ TapsIn(messages) = {} /\ Executed = {}
      /\ ActionsAreTaps(messages) /\ TapsOnce(messages)
      /\ Without("initial", messages) /\ ExecutedApart
  BY NoMessage, EmptySeq DEF Executed, ExecutedApart
<1>2. WidgetTypes
  <2>1. NumbersOK
    BY <1>1, WidgetAssumption DEF NumbersOK, Taps
  <2>2. FlagsOK
    BY DEF FlagsOK
  <2>3. QED
    BY <1>1, <2>1, <2>2 DEF WidgetTypes, SequencesOK
<1>3. NoTapTwice /\ Places \subseteq Given /\ NewestOK
  BY <1>1 DEF NoTapTwice, Apart, Places, Given, NewestOK
<1>4. StartOK
  BY <1>1, EmptySeq DEF StartOK
<1>5. QED
  BY <1>1, <1>2, <1>3, <1>4 DEF WidgetIInv

\* Every step keeps the invariant.
LEMMA WidgetIInvStep == WidgetIInv /\ [WidgetNext]_widgetVars => WidgetIInv'
<1>1. ASSUME WidgetIInv, WidgetNext PROVE WidgetIInv'
  BY <1>1, WidgetTypeStep, ApartStep, PlacesStep, StartStep, NewestStep DEF WidgetIInv
<1>2. ASSUME WidgetIInv, UNCHANGED widgetVars PROVE WidgetIInv'
  <2> USE DEF widgetVars, nativeVars, channelVars, treeVars, queueVars, tapVars
  <2>1. Executed' = Executed /\ ExecutedApart'
    BY <1>2 DEF WidgetIInv, Executed, ExecutedApart
  <2>2. WidgetTypes'
    BY <1>2, <2>1 DEF WidgetIInv, WidgetTypes, NumbersOK, FlagsOK, SequencesOK
  <2>3. NoTapTwice' /\ (Places \subseteq Given)'
    BY <1>2, <2>1 DEF WidgetIInv, NoTapTwice, Places, Given
  <2>4. StartOK'
    BY <1>2 DEF WidgetIInv, StartOK
  <2>5. NewestOK'
    BY <1>2, <2>1 DEF WidgetIInv, NewestOK, NewestHeld, NewestSent, Newest
  <2>6. QED
    BY <2>1, <2>2, <2>3, <2>4, <2>5 DEF WidgetIInv
<1>3. QED
  BY <1>1, <1>2

\* The state of the activity, the channel and the queue always has its types,
\* and the flag for an action in progress is never stale.
THEOREM WidgetTypeCorrect == WidgetSpec => []WidgetTypeOK
<1>1. WidgetIInv => WidgetTypeOK
  BY WidgetTypesSuffice DEF WidgetIInv
<1>2. QED
  BY <1>1, WidgetIInvInit, WidgetIInvStep, PTL DEF WidgetSpec

\* However often the widget is tapped, no start of the app executes a tap twice,
\* and a start executes no tap that an earlier one was given, except the one its
\* task was started with: that comes again when the killed task is reopened.
THEOREM WidgetExecutesOnce == WidgetSpec => []ExecutedOnce
<1>1. WidgetIInv => ExecutedOnce
  BY DEF WidgetIInv, NoTapTwice, ExecutedApart, ExecutedOnce, Places, Given
<1>2. QED
  BY <1>1, WidgetIInvInit, WidgetIInvStep, PTL DEF WidgetSpec

\* The newest tap is kept until it is executed, as long as the app lives, unless
\* the action that was kept for a slow start comes after it.
THEOREM WidgetKeepsNewest == WidgetSpec => []NewestKept
<1>1. WidgetIInv => NewestKept
  <2>1. SUFFICES ASSUME WidgetTypes, NewestOK, taps > born
                 PROVE  taps \in Kept \/ (initial \notin {0, taps} /\ initial \in Kept)
    BY DEF WidgetIInv, NewestKept
  <2>2. NewestSent => taps \in TapsIn(messages)
    BY DEF NewestSent, Newest, Message, TapsIn
  <2>3. Kept = {pendingWidgetAction, buffer, queuedAction, posted} \cup Executed
                 \cup TapsIn(messages)
    BY DEF Kept, TapsIn
  <2>4. QED
    BY <2>1, <2>2, <2>3 DEF NewestOK, NewestHeld
<1>2. QED
  BY <1>1, WidgetIInvInit, WidgetIInvStep, PTL DEF WidgetSpec

\* No action opens its screen over that of another.
THEOREM WidgetOneScreen == WidgetSpec => OneScreenAtATime
<1>1. WidgetIInv /\ [WidgetNext]_widgetVars => (shown # 0 => shown' \in {shown, 0})
  <2>1. SUFFICES ASSUME WidgetTypes, [WidgetNext]_widgetVars, shown # 0
                 PROVE  shown' \in {shown, 0}
    BY DEF WidgetIInv
  <2>2. posted = 0
    BY <2>1 DEF WidgetTypes, FlagsOK
  <2>3. ~ Execute
    BY <2>2 DEF Execute
  <2>4. QED
    BY <2>1, <2>3
    DEF WidgetNext, StartByTap, Start, Restore, Create, Configure, Tap, ConsumeInitialAction,
        Destroy, BuildLifecycle, BuildNavigator, DeliverMessage, ChangeOnboarding,
        RetryAfterFrame, FinishAction, widgetVars
<1>2. QED
  BY <1>1, WidgetIInvInit, WidgetIInvStep, PTL DEF WidgetSpec, OneScreenAtATime

=============================================================================
