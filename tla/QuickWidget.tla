----------------------------- MODULE QuickWidget -----------------------------
(***************************************************************************)
(* Taps on the home-screen widget and how they get to a screen             *)
(* (MainActivity.kt and src/mobile/lib/core/quick_widget_lifecycle.dart).  *)
(*                                                                         *)
(* A tap starts the activity, or comes to the running one as a new intent. *)
(* Before the engine is configured the activity keeps its action; after    *)
(* that it sends it to Dart, where the channel buffers it until the widget *)
(* tree has a handler.  The handler is set when the tree is first built,   *)
(* and then Dart asks for the action that the activity has kept.  Actions  *)
(* wait in one place until onboarding is over, the navigator is there, and *)
(* the screen that the action before them has opened is closed.            *)
(*                                                                         *)
(* Android keeps the intent a task was started with, as it was: the        *)
(* activity clears only the copy it was given.  When the process was       *)
(* killed and the task is opened again, onCreate gets that intent again.   *)
(*                                                                         *)
(* An action is the number of its tap.  Left out: what the four actions    *)
(* open, and the navigator going away before the widget that waits for it, *)
(* which its global key prevents.                                          *)
(***************************************************************************)
EXTENDS Integers, Sequences

CONSTANT MaxTaps  \* bound: how often the widget is tapped

ASSUME WidgetAssumption == MaxTaps \in Nat

VARIABLES
  activity,       \* "none", "created", or "configured" with an engine
  pendingWidgetAction,
  root,           \* the action of the intent Android started the task with, or 0
  messages,       \* messages and answers on their way to Dart
  consuming,      \* whether consumeInitialAction is on its way to the activity
  buffer,         \* the message the channel keeps while it has no handler
  built,          \* whether QuickWidgetLifecycle has been built
  navigator,      \* whether the root navigator has been built
  dashboard,      \* whether the onboarding is over
  queuedAction,
  isExecuting,
  posted,         \* the action that is executed after the next frame
  retry,          \* whether the queue is looked at again after the next frame
  shown,          \* the action whose screen is open
  taps,           \* history: how many taps there were
  born,           \* history: how many of them before this activity
  initial,        \* history: the action that was kept and asked for
  executed        \* history: the actions this start has executed, in their order

nativeVars == <<activity, pendingWidgetAction, root>>
channelVars == <<messages, consuming, buffer>>
treeVars == <<built, navigator, dashboard>>
queueVars == <<queuedAction, isExecuting, posted, retry>>
tapVars == <<taps, born>>
widgetVars ==
  <<nativeVars, channelVars, treeVars, queueVars, shown, tapVars, initial, executed>>

-----------------------------------------------------------------------------

Message(op, tap) == [op |-> op, tap |-> tap]

WidgetInit ==
  /\ activity = "none" /\ pendingWidgetAction = 0 /\ root = 0
  /\ messages = <<>> /\ consuming = FALSE /\ buffer = 0
  /\ built = FALSE /\ navigator = FALSE /\ dashboard \in BOOLEAN
  /\ queuedAction = 0 /\ isExecuting = FALSE /\ posted = 0 /\ retry = FALSE
  /\ shown = 0
  /\ taps = 0 /\ born = 0 /\ initial = 0
  /\ executed = <<>>

-----------------------------------------------------------------------------
(***************************************************************************)
(* The activity                                                            *)
(***************************************************************************)

\* onCreate with an intent that has this action, before there is an engine.
Create(tap) ==
  /\ activity = "none"
  /\ activity' = "created"
  /\ pendingWidgetAction' = tap
  /\ born' = taps
  /\ UNCHANGED <<channelVars, treeVars, queueVars, shown, initial, executed>>

\* A tap starts a new task.
StartByTap ==
  /\ taps < MaxTaps
  /\ taps' = taps + 1
  /\ root = 0 /\ root' = taps'
  /\ Create(taps')

\* The launcher starts the app, or the task Android has kept is opened again, by
\* a tap too: then onNewIntent (Tap) follows.
Start == Create(root) /\ UNCHANGED <<taps, root>>

\* The same when Android also restores the fragment of the engine, which
\* configures it before onCreate comes to the intent.
Restore ==
  /\ activity = "none"
  /\ activity' = "configured"
  /\ messages' = IF root = 0 THEN <<>> ELSE <<Message("action", root)>>
  /\ born' = taps
  /\ UNCHANGED <<pendingWidgetAction, root, consuming, buffer, treeVars, queueVars, shown,
                 taps, initial, executed>>

\* configureFlutterEngine: from now on there is a channel.
Configure ==
  /\ activity = "created"
  /\ activity' = "configured"
  /\ UNCHANGED <<pendingWidgetAction, root, channelVars, treeVars, queueVars, shown, tapVars,
                 initial, executed>>

\* Mutant: the activity sends it, to whatever channel there is.
HandleWidgetIntentSending(tap) ==
  /\ messages' = IF activity = "configured" THEN Append(messages, Message("action", tap))
                                                ELSE messages
  /\ UNCHANGED pendingWidgetAction

\* The action is sent to Dart, or kept while there is no channel.
HandleWidgetIntent(tap) ==
  IF activity = "configured"
    THEN messages' = Append(messages, Message("action", tap)) /\ UNCHANGED pendingWidgetAction
    ELSE pendingWidgetAction' = tap /\ UNCHANGED messages

\* A tap while the activity is there: onNewIntent.
Tap ==
  /\ activity # "none" /\ taps < MaxTaps
  /\ taps' = taps + 1
  /\ HandleWidgetIntent(taps')
  /\ UNCHANGED <<activity, root, consuming, buffer, treeVars, queueVars, shown, born, initial,
                 executed>>

ConsumeInitialAction ==
  /\ consuming
  /\ consuming' = FALSE
  /\ messages' = Append(messages, Message("initial", pendingWidgetAction))
  /\ initial' = pendingWidgetAction
  /\ pendingWidgetAction' = 0
  /\ UNCHANGED <<activity, root, buffer, treeVars, queueVars, shown, tapVars, executed>>

\* The activity is finished or the process is killed, the engine with it; Android
\* keeps the task or removes it.
Destroy ==
  /\ activity # "none"
  /\ root' \in {root, 0}
  /\ activity' = "none" /\ pendingWidgetAction' = 0
  /\ messages' = <<>> /\ consuming' = FALSE /\ buffer' = 0
  /\ built' = FALSE /\ navigator' = FALSE
  /\ queuedAction' = 0 /\ isExecuting' = FALSE /\ posted' = 0 /\ retry' = FALSE
  /\ shown' = 0
  /\ born' = taps /\ initial' = 0 /\ executed' = <<>>
  /\ UNCHANGED <<dashboard, taps>>

-----------------------------------------------------------------------------
(***************************************************************************)
(* The queue of one                                                        *)
(***************************************************************************)

\* Mutant: nobody minds that another action is being executed.
WaitsForDashboard(action, executing, ready) == action = 0 \/ ~ ready

\* Nothing is taken from the queue.
Waits(action, executing, ready) == action = 0 \/ executing \/ ~ ready

Keep(action, executing) ==
  /\ queuedAction' = action
  /\ isExecuting' = executing
  /\ UNCHANGED posted

\* Mutant: the action stays queued while it is executed.
TakeKeeping(action) ==
  /\ queuedAction' = action
  /\ isExecuting' = TRUE
  /\ posted' = action

Take(action) ==
  /\ queuedAction' = 0
  /\ isExecuting' = TRUE
  /\ posted' = action

(***************************************************************************)
(* _processQueuedAction, with that action in the queue, another one being  *)
(* executed or not, onboarding over or not, and it being called again      *)
(* after the next frame or not.                                            *)
(***************************************************************************)
Process(action, executing, ready, again) ==
  \/ /\ Waits(action, executing, ready)
     /\ Keep(action, executing)
     /\ retry' = again
  \/ /\ ~ Waits(action, executing, ready) /\ ~ navigator
     /\ Keep(action, executing)
     /\ retry' = TRUE
  \/ /\ ~ Waits(action, executing, ready) /\ navigator
     /\ Take(action)
     /\ retry' = again

Enqueue(action) == Process(action, isExecuting, dashboard, retry)

(***************************************************************************)
(* The tree is built: what the channel has buffered comes to the handler,  *)
(* and the kept action is asked for.                                       *)
(***************************************************************************)
BuildLifecycle ==
  /\ activity = "configured" /\ ~ built
  /\ built' = TRUE
  /\ consuming' = TRUE
  /\ buffer' = 0
  /\ UNCHANGED <<navigator, dashboard>>
  /\ IF buffer # 0 THEN Enqueue(buffer) ELSE UNCHANGED queueVars
  /\ UNCHANGED <<nativeVars, messages, shown, tapVars, initial, executed>>

BuildNavigator ==
  /\ built /\ ~ navigator
  /\ navigator' = TRUE
  /\ UNCHANGED <<nativeVars, channelVars, built, dashboard, queueVars, shown, tapVars,
                 initial, executed>>

\* A message comes to Dart; without a handler the channel keeps the newest one.
DeliverMessage ==
  /\ messages # <<>>
  /\ messages' = Tail(messages)
  /\ UNCHANGED treeVars
  /\ LET tap == Head(messages).tap
     IN  \/ /\ ~ built
            /\ buffer' = tap
            /\ UNCHANGED queueVars
         \/ /\ built
            /\ IF tap = 0 THEN UNCHANGED queueVars ELSE Enqueue(tap)
            /\ UNCHANGED buffer
  /\ UNCHANGED <<nativeVars, consuming, shown, tapVars, initial, executed>>

\* The user gets through the onboarding, or resets the preferences.
ChangeOnboarding ==
  /\ built
  /\ dashboard' = ~ dashboard
  /\ UNCHANGED <<built, navigator>>
  /\ Process(queuedAction, isExecuting, dashboard', retry)
  /\ UNCHANGED <<nativeVars, channelVars, shown, tapVars, initial, executed>>

RetryAfterFrame ==
  /\ retry
  /\ Process(queuedAction, isExecuting, dashboard, FALSE)
  /\ UNCHANGED <<nativeVars, channelVars, treeVars, shown, tapVars, initial, executed>>

\* The frame is over, and the action opens its screen.
Execute ==
  /\ posted # 0
  /\ shown' = posted
  /\ executed' = Append(executed, posted)
  /\ posted' = 0
  /\ UNCHANGED <<nativeVars, channelVars, treeVars, queuedAction, isExecuting, retry,
                 tapVars, initial>>

\* Mutant: the queue is not looked at when the screen is closed.
FinishOnly ==
  /\ shown # 0
  /\ shown' = 0
  /\ isExecuting' = FALSE
  /\ UNCHANGED <<nativeVars, channelVars, treeVars, queuedAction, posted, retry,
                 tapVars, initial, executed>>

\* Mutant: that the action is over is not noted.
FinishUnnoted ==
  /\ shown # 0
  /\ shown' = 0
  /\ Process(queuedAction, isExecuting, dashboard, retry)
  /\ UNCHANGED <<nativeVars, channelVars, treeVars, tapVars, initial, executed>>

\* The screen is closed (or the action has failed), and the next one follows.
FinishAction ==
  /\ shown # 0
  /\ shown' = 0
  /\ Process(queuedAction, FALSE, dashboard, retry)
  /\ UNCHANGED <<nativeVars, channelVars, treeVars, tapVars, initial, executed>>

WidgetNext ==
  \/ StartByTap \/ Start \/ Restore \/ Configure \/ Tap \/ ConsumeInitialAction \/ Destroy
  \/ BuildLifecycle \/ BuildNavigator \/ DeliverMessage \/ ChangeOnboarding
  \/ RetryAfterFrame \/ Execute \/ FinishAction

(***************************************************************************)
(* The engine is configured, frames are drawn, and messages are delivered. *)
(* Nobody has to close a screen or to get through the onboarding.          *)
(***************************************************************************)
WidgetSpec ==
  /\ WidgetInit /\ [][WidgetNext]_widgetVars
  /\ WF_widgetVars(Configure) /\ WF_widgetVars(ConsumeInitialAction)
  /\ WF_widgetVars(BuildLifecycle) /\ WF_widgetVars(BuildNavigator)
  /\ WF_widgetVars(DeliverMessage) /\ WF_widgetVars(RetryAfterFrame) /\ WF_widgetVars(Execute)

-----------------------------------------------------------------------------

Taps == 0 .. MaxTaps

Executed == {executed[i] : i \in 1 .. Len(executed)}

\* The variables have their types, and an action is being executed exactly when
\* it waits for its frame or its screen is open.
WidgetTypeOK ==
  /\ activity \in {"none", "created", "configured"}
  /\ {pendingWidgetAction, root, buffer, queuedAction, posted, shown, taps, born, initial}
       \subseteq Taps
  /\ \A i \in 1 .. Len(messages) : messages[i] \in [op : {"action", "initial"}, tap : Taps]
  /\ {consuming, built, navigator, dashboard, retry} \subseteq BOOLEAN
  /\ isExecuting = (posted # 0 \/ shown # 0)

\* While the app lives no tap is executed twice, though its action is handed on
\* from the activity over the channel, its buffer and the queue to a frame.  After
\* a restart nothing an earlier start was given comes again, with one exception:
\* the action the task was started with, executed or not.
ExecutedOnce ==
  /\ \A i, j \in 1 .. Len(executed) : executed[i] = executed[j] => i = j
  /\ Executed \subseteq (born + 1 .. taps) \cup {root}

\* The screen of an action is closed before the next action opens one.
OneScreenAtATime == [][shown # 0 => shown' \in {shown, 0}]_widgetVars

\* Where an action of this start may be, until and after it is executed.
Kept ==
  {pendingWidgetAction, buffer, queuedAction, posted} \cup Executed
    \cup {messages[i].tap : i \in 1 .. Len(messages)}

\* The newest tap is never dropped while the app lives, unless the action that
\* the activity had kept for a slow start, its task's perhaps, comes after it.
NewestKept ==
  taps > born => taps \in Kept \/ (initial \notin {0, taps} /\ initial \in Kept)

\* The newest tap is executed as soon as the onboarding is over and no screen of
\* an action is open, unless the app ends or the kept action came after it.
NewestExecuted ==
  \A t \in 1 .. MaxTaps :
    taps = t /\ t > born ~>
      \/ t \in Executed \/ taps > t \/ shown # 0 \/ ~ dashboard \/ born >= t
      \/ initial \notin {0, t} /\ initial \in Executed

=============================================================================
