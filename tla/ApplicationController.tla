----------------------- MODULE ApplicationController -----------------------
(***************************************************************************)
(* ApplicationController (wb/mqtt_dali/application_controller.py): the     *)
(* task queue of one bus and everything that feeds or empties it.          *)
(*                                                                         *)
(* Tasks that interleave at every await:                                   *)
(*   - RPC callers that queue a task and wait for its future,              *)
(*   - handlers of /on messages, which queue one EXECUTE_CONTROL task per  *)
(*     control and otherwise only replace the value waiting to be set,     *)
(*   - the polling loop, which takes the tasks one at a time,              *)
(*   - the child task of a bus scan (commissioning),                       *)
(*   - quiescent mode, switched by frames seen on the bus and by a timer,  *)
(*   - start() and stop().                                                 *)
(* A section under _state_lock has no await inside: it is one action.      *)
(***************************************************************************)
EXTENDS Integers, Sequences, FiniteSets

CONSTANTS
    Request,     \* RPC tasks that run on the bus: load, apply, identify, reset
    Batch,       \* SEND_COMMAND_BATCH tasks
    Scan,        \* COMMISSIONING tasks
    Control,     \* controls that can be written
    MaxMessage,  \* /on messages, numbered in the order they arrive
    ControlOf,   \* the control a message is for
    NoTask

Message == 1 .. MaxMessage

Task == Request \cup Batch \cup Scan \cup Message

ASSUME ControllerAssumption ==
    /\ MaxMessage \in Nat
    /\ ControlOf \in [Message -> Control]
    /\ NoTask \notin Task
    /\ Request \cap Batch = {}
    /\ Scan \cap (Request \cup Batch) = {}
    /\ Message \cap (Request \cup Batch \cup Scan) = {}

VARIABLES
    state,          \* _state
    tasksQueue,     \* _tasks_queue
    future,         \* future of each task, "none" before the task is created;
                    \* how it was resolved does not matter here
    arrived,        \* /on messages delivered so far
    valueToSet,     \* value_to_set of each control: a message, or 0 for None
    settled,        \* history: newest message of a control the loop has taken
    value,          \* control_info.state.value as confirmed by the loop
    pc,             \* the await the polling loop stands at
    item,           \* the task the loop has taken from the queue
    controls,       \* the EXECUTE_CONTROL tasks being gathered, with values
    quiescent,      \* _in_quiescent_mode
    status,         \* commissioning_state.status
    child,          \* where the commissioning child task is
    childCancel,    \* the child has a cancellation to deliver
    leaving,        \* why the child runs its finally block
    stopStep,       \* what stop() waits for
    stopRequested, loopCancel

controlVars == <<arrived, valueToSet, settled, value>>
loopVars    == <<pc, item, controls>>
childVars   == <<child, childCancel, leaving>>
scanVars    == <<status, childVars>>
stopVars    == <<stopStep, stopRequested, loopCancel>>
vars == <<state, tasksQueue, future, controlVars, loopVars, quiescent, scanVars, stopVars>>

TypeOK ==
    /\ state \in {"uninitialized", "initializing", "ready", "stopping"}
    /\ tasksQueue \in Seq(Task)
    /\ future \in [Task -> {"none", "pending", "done"}]
    /\ arrived \in 0 .. MaxMessage
    /\ valueToSet \in [Control -> 0 .. MaxMessage]
    /\ settled \in [Control -> 0 .. MaxMessage]
    /\ value \in [Control -> 0 .. MaxMessage]
    /\ pc \in {"none", "get", "item", "poll", "controls", "task", "scan", "ended", "failed"}
    /\ item \in Task \cup {NoTask}
    /\ controls \in Seq([task : Message, value : Message])
    /\ quiescent \in BOOLEAN
    /\ status \in {"idle", "queued", "searching", "reading", "completed", "failed", "cancelled"}
    /\ child \in {"none", "created", "sleeping", "starting", "scanning", "finally", "done"}
    /\ childCancel \in BOOLEAN
    /\ leaving \in {"no", "completed", "failed", "cancelled"}
    /\ stopStep \in {"none", "one_shot", "child", "loop", "timeout", "drained"}
    /\ stopRequested \in BOOLEAN
    /\ loopCancel \in BOOLEAN

Init ==
    /\ state = "uninitialized"
    /\ tasksQueue = <<>>
    /\ future = [t \in Task |-> "none"]
    /\ arrived = 0
    /\ valueToSet = [c \in Control |-> 0]
    /\ settled = [c \in Control |-> 0]
    /\ value = [c \in Control |-> 0]
    /\ pc = "none"
    /\ item = NoTask
    /\ controls = <<>>
    /\ quiescent = FALSE
    /\ status = "idle"
    /\ child = "none"
    /\ childCancel = FALSE
    /\ leaving = "no"
    /\ stopStep = "none"
    /\ stopRequested = FALSE
    /\ loopCancel = FALSE

\* CommissioningState.is_running
IsRunning == status \in {"queued", "searching", "reading"}

\* set_result, set_exception or cancel on the futures of S that are not done.
Resolved(S) == [t \in Task |-> IF t \in S /\ future[t] = "pending" THEN "done" ELSE future[t]]

-----------------------------------------------------------------------------
(***************************************************************************)
(* start(): driver and publisher are brought up while the state is         *)
(* INITIALIZING; a failure rolls back to UNINITIALIZED.  No caller starts  *)
(* a controller again once it was stopped.                                 *)
(***************************************************************************)

StartBegins ==
    /\ state = "uninitialized"
    /\ ~stopRequested
    /\ state' = "initializing"
    /\ UNCHANGED <<tasksQueue, future, controlVars, loopVars, quiescent, scanVars, stopVars>>

StartFails ==
    /\ state = "initializing"
    /\ state' = "uninitialized"
    /\ UNCHANGED <<tasksQueue, future, controlVars, loopVars, quiescent, scanVars, stopVars>>

\* READY, and the polling task is created.
StartEnds ==
    /\ state = "initializing"
    /\ state' = "ready"
    /\ pc' = "get"
    /\ UNCHANGED <<tasksQueue, future, controlVars, item, controls, quiescent, scanVars, stopVars>>

-----------------------------------------------------------------------------
(***************************************************************************)
(* Callers.                                                                *)
(***************************************************************************)

\* put_nowait of a new task.
Put(t) ==
    /\ tasksQueue' = Append(tasksQueue, t)
    /\ future' = [future EXCEPT ![t] = "pending"]

\* load_device_info, apply_parameters, identify_device, reset_device, ...
SubmitRequest(r) ==
    /\ state = "ready"
    /\ future[r] = "none"
    /\ Put(r)
    /\ UNCHANGED <<state, controlVars, loopVars, quiescent, scanVars, stopVars>>

\* send_command_batch raises while a scan is queued or runs.
SendCommandBatch(b) ==
    /\ state = "ready"
    /\ ~IsRunning
    /\ future[b] = "none"
    /\ Put(b)
    /\ UNCHANGED <<state, controlVars, loopVars, quiescent, scanVars, stopVars>>

\* The caller's task is cancelled while it awaits the future.
CallerGivesUp(t) ==
    /\ future[t] = "pending"
    /\ future' = [future EXCEPT ![t] = "done"]
    /\ UNCHANGED <<state, tasksQueue, controlVars, loopVars, quiescent, scanVars, stopVars>>

\* Seeded fault: a command for a dirty control is dropped.
HandleKeepsFirst(m) ==
    LET c == ControlOf[m] IN
    /\ state # "uninitialized"
    /\ m = arrived + 1
    /\ arrived' = m
    /\ IF valueToSet[c] # 0
       THEN UNCHANGED <<valueToSet, tasksQueue, future>>
       ELSE valueToSet' = [valueToSet EXCEPT ![c] = m] /\ Put(m)
    /\ UNCHANGED <<state, settled, value, loopVars, quiescent, scanVars, stopVars>>

\* _handle_on_topic up to its await: a control that is dirty already has a task
\* on its way, so only the value is replaced.
HandleOnTopic(m) ==
    LET c == ControlOf[m] IN
    /\ state # "uninitialized"
    /\ m = arrived + 1
    /\ arrived' = m
    /\ valueToSet' = [valueToSet EXCEPT ![c] = m]
    /\ IF valueToSet[c] # 0 THEN UNCHANGED <<tasksQueue, future>> ELSE Put(m)
    /\ UNCHANGED <<state, settled, value, loopVars, quiescent, scanVars, stopVars>>

\* start_commissioning that does not return ALREADY_RUNNING.
StartCommissioning(s) ==
    /\ state = "ready"
    /\ ~IsRunning
    /\ future[s] = "none"
    /\ status' = "queued"
    /\ Put(s)
    /\ UNCHANGED <<state, controlVars, loopVars, quiescent, childVars, stopVars>>

\* _current_commissioning_task is set exactly while the loop awaits the child.
ChildAlive == pc = "scan" /\ child # "done"

QueuedScans == {i \in 1 .. Len(tasksQueue) : tasksQueue[i] \in Scan}

\* _remove_queued_commissioning_task that finds one: it is marked as cancelled.
RemoveQueuedScan ==
    /\ pc # "scan"
    /\ \E i \in QueuedScans :
          /\ \A j \in QueuedScans : i <= j
          /\ tasksQueue' = SubSeq(tasksQueue, 1, i - 1)
                             \o SubSeq(tasksQueue, i + 1, Len(tasksQueue))
          /\ future' = Resolved({tasksQueue[i]})
    /\ status' = "cancelled"
    /\ UNCHANGED childCancel

\* Seeded fault: the scan is marked as cancelled before its child has ended.
CancelMarksAtOnce ==
    /\ IsRunning
    /\ \/ /\ pc = "scan"
          /\ childCancel' = (childCancel \/ ChildAlive)
          /\ status' = "cancelled"
          /\ UNCHANGED <<tasksQueue, future>>
       \/ RemoveQueuedScan
    /\ UNCHANGED <<state, controlVars, loopVars, quiescent, child, leaving, stopVars>>

\* cancel_commissioning: the child task is cancelled, or the queued task is
\* removed; a scan the loop has taken but not started is not found.
CancelCommissioning ==
    /\ IsRunning
    /\ \/ /\ pc = "scan"
          /\ childCancel' = (childCancel \/ ChildAlive)
          /\ UNCHANGED <<tasksQueue, future, status>>
       \/ RemoveQueuedScan
    /\ UNCHANGED <<state, controlVars, loopVars, quiescent, child, leaving, stopVars>>

-----------------------------------------------------------------------------
(***************************************************************************)
(* Quiescent mode: another controller (or Lunatone software) asks the bus  *)
(* to be left alone.                                                       *)
(***************************************************************************)

\* _handle_start_quiescent_mode; the frames come through a callback that
\* stop() unregisters first.
StartQuiescentMode ==
    /\ stopStep = "none" /\ state # "uninitialized"
    /\ quiescent' = TRUE
    /\ UNCHANGED <<state, tasksQueue, future, controlVars, loopVars, scanVars, stopVars>>

\* _handle_stop_quiescent_mode, for a frame, for release_quiescent_mode or when
\* the timer fires.
StopQuiescentMode ==
    /\ quiescent
    /\ quiescent' = FALSE
    /\ UNCHANGED <<state, tasksQueue, future, controlVars, loopVars, scanVars, stopVars>>

-----------------------------------------------------------------------------
(***************************************************************************)
(* _polling_loop.                                                          *)
(***************************************************************************)

\* The head of the while loop, with next as the item it holds.
Top(next) ==
    pc' = IF stopRequested THEN "ended" ELSE IF next = NoTask THEN "get" ELSE "item"

\* The queue hands a task to wait_for, which hands it to the loop one step of
\* the event loop later.
TakeItem ==
    /\ pc = "get" /\ tasksQueue # <<>>
    /\ item' = Head(tasksQueue)
    /\ tasksQueue' = Tail(tasksQueue)
    /\ pc' = "item"
    /\ UNCHANGED <<state, future, controlVars, controls, quiescent, scanVars, stopVars>>

\* Nothing arrived before next_poll_time: a poll step runs, unless the bus is
\* quiescent (then the loop just waits again).
PollWhenIdle ==
    /\ pc = "get" /\ tasksQueue = <<>> /\ ~quiescent
    /\ pc' = "poll"
    /\ UNCHANGED <<state, tasksQueue, future, controlVars, item, controls, quiescent, scanVars, stopVars>>

\* wait_for that has its result swallows a cancellation.
CancelSwallowed == loopCancel' = FALSE

\* Seeded fault: a refused control keeps its value, so it stays dirty.
RefuseKeepsValue ==
    /\ pc = "item" /\ quiescent
    /\ future' = Resolved({item})
    /\ item' = NoTask
    /\ Top(NoTask)
    /\ CancelSwallowed
    /\ UNCHANGED <<state, tasksQueue, controlVars, controls, quiescent, scanVars, stopStep, stopRequested>>

\* Seeded fault: only controls hear that they are refused.
RefuseForgetsFuture ==
    /\ pc = "item" /\ quiescent
    /\ item' = NoTask
    /\ IF item \in Message
       THEN LET c == ControlOf[item] IN
            /\ future' = Resolved({item})
            /\ settled' = [settled EXCEPT ![c] = valueToSet[c]]
            /\ valueToSet' = [valueToSet EXCEPT ![c] = 0]
       ELSE UNCHANGED <<future, settled, valueToSet>>
    /\ Top(NoTask)
    /\ CancelSwallowed
    /\ UNCHANGED <<state, tasksQueue, arrived, value, controls, quiescent, scanVars, stopStep, stopRequested>>

\* In quiescent mode a task is refused, and a control forgets its value.
RefuseItem ==
    /\ pc = "item" /\ quiescent
    /\ future' = Resolved({item})
    /\ item' = NoTask
    /\ IF item \in Message
       THEN LET c == ControlOf[item] IN
            /\ settled' = [settled EXCEPT ![c] = valueToSet[c]]
            /\ valueToSet' = [valueToSet EXCEPT ![c] = 0]
       ELSE UNCHANGED <<settled, valueToSet>>
    /\ Top(NoTask)
    /\ CancelSwallowed
    /\ UNCHANGED <<state, tasksQueue, arrived, value, controls, quiescent, scanVars, stopStep, stopRequested>>

\* The item and the EXECUTE_CONTROL tasks right behind it in the queue.
Pulled(q) ==
    CHOOSE n \in 0 .. Len(q) :
        /\ \A i \in 1 .. n : q[i] \in Message
        /\ n < Len(q) => q[n + 1] \notin Message

\* All of them are gathered; the task behind them is already off the queue.
GatherControls ==
    LET n == Pulled(tasksQueue)
        pulled == <<item>> \o SubSeq(tasksQueue, 1, n)
        taken == {ControlOf[pulled[i]] : i \in 1 .. n + 1}
    IN
    /\ pc = "item" /\ ~quiescent /\ item \in Message
    /\ controls' = [i \in 1 .. n + 1 |->
                       [task |-> pulled[i], value |-> valueToSet[ControlOf[pulled[i]]]]]
    /\ valueToSet' = [c \in Control |-> IF c \in taken THEN 0 ELSE valueToSet[c]]
    /\ settled' = [c \in Control |-> IF c \in taken THEN valueToSet[c] ELSE settled[c]]
    /\ item' = IF n < Len(tasksQueue) THEN tasksQueue[n + 1] ELSE NoTask
    /\ tasksQueue' = SubSeq(tasksQueue, n + 2, Len(tasksQueue))
    /\ pc' = "controls"
    /\ CancelSwallowed
    /\ UNCHANGED <<state, future, arrived, value, quiescent, scanVars, stopStep, stopRequested>>

\* The end of an iteration: a poll step at once when the queue is empty and the
\* polling interval is over.
EndIteration(next) ==
    \/ Top(next)
    \/ ~quiescent /\ tasksQueue = <<>> /\ pc' = "poll"

\* Seeded fault: the value waiting when the gather ends is confirmed.
FinishConfirmsWaiting ==
    /\ pc = "controls"
    /\ value' = [c \in Control |->
                    IF \E i \in 1 .. Len(controls) : ControlOf[controls[i].task] = c
                    THEN valueToSet[c] ELSE value[c]]
    /\ future' = Resolved({controls[i].task : i \in 1 .. Len(controls)})
    /\ controls' = <<>>
    /\ EndIteration(item)
    /\ UNCHANGED <<state, tasksQueue, arrived, valueToSet, settled, item, quiescent, scanVars, stopVars>>

\* Every control ends with a result, which confirms its value, or an exception;
\* a task whose future is done already is passed over.
FinishControls ==
    /\ pc = "controls"
    /\ \E ok \in SUBSET {i \in 1 .. Len(controls) : future[controls[i].task] = "pending"} :
          value' = [c \in Control |->
                       IF \E i \in ok : ControlOf[controls[i].task] = c
                       THEN controls[CHOOSE i \in ok : ControlOf[controls[i].task] = c].value
                       ELSE value[c]]
    /\ future' = Resolved({controls[i].task : i \in 1 .. Len(controls)})
    /\ controls' = <<>>
    /\ EndIteration(item)
    /\ UNCHANGED <<state, tasksQueue, arrived, valueToSet, settled, item, quiescent, scanVars, stopVars>>

\* Any other task than a scan runs on the bus.
RunTask ==
    /\ pc = "item" /\ ~quiescent /\ item \in Request \cup Batch
    /\ pc' = "task"
    /\ CancelSwallowed
    /\ UNCHANGED <<state, tasksQueue, future, controlVars, item, controls, quiescent, scanVars,
                   stopStep, stopRequested>>

FinishTask ==
    /\ pc = "task"
    /\ future' = Resolved({item})
    /\ item' = NoTask
    /\ EndIteration(NoTask)
    /\ UNCHANGED <<state, tasksQueue, controlVars, controls, quiescent, scanVars, stopVars>>

\* _run_commissioning_in_child_task creates the child and awaits it.
RunCommissioning ==
    /\ pc = "item" /\ ~quiescent /\ item \in Scan
    /\ pc' = "scan"
    /\ child' = "created"
    /\ CancelSwallowed
    /\ UNCHANGED <<state, tasksQueue, future, controlVars, item, controls, quiescent, status,
                   childCancel, leaving, stopStep, stopRequested>>

\* The loop wakes up after the child ended, however it ended.
CollectChild ==
    /\ pc = "scan" /\ child = "done"
    /\ child' = "none"
    /\ future' = Resolved({item})
    /\ item' = NoTask
    /\ EndIteration(NoTask)
    /\ UNCHANGED <<state, tasksQueue, controlVars, controls, quiescent, status, childCancel,
                   leaving, stopVars>>

\* _poll_step ends; an exception of a poll ends the loop.
FinishPoll ==
    /\ pc = "poll"
    /\ Top(item)
    /\ UNCHANGED <<state, tasksQueue, future, controlVars, item, controls, quiescent, scanVars, stopVars>>

PollRaises ==
    /\ pc = "poll"
    /\ pc' = "failed"
    /\ UNCHANGED <<state, tasksQueue, future, controlVars, item, controls, quiescent, scanVars, stopVars>>

\* CancelledError at an await: the loop ends and leaves the futures of the tasks
\* it holds as they are.  A gather may also swallow it: then the step that ends
\* the await comes first, and the head of the loop sees stopRequested.
LoopCancelled ==
    /\ loopCancel
    /\ pc \in {"get", "poll", "controls", "task"}
    /\ pc' = "ended"
    /\ loopCancel' = FALSE
    /\ item' = NoTask
    /\ controls' = <<>>
    /\ UNCHANGED <<state, tasksQueue, future, controlVars, quiescent, scanVars, stopStep, stopRequested>>

\* While the loop awaits the child, its cancellation is passed on to the child.
LoopCancelsChild ==
    /\ loopCancel
    /\ pc = "scan" /\ child # "done"
    /\ loopCancel' = FALSE
    /\ childCancel' = TRUE
    /\ UNCHANGED <<state, tasksQueue, future, controlVars, loopVars, quiescent, status, child, leaving,
                   stopStep, stopRequested>>

LoopNext ==
    \/ TakeItem \/ PollWhenIdle
    \/ RefuseItem
    \/ GatherControls \/ FinishControls
    \/ RunTask \/ FinishTask
    \/ RunCommissioning \/ CollectChild
    \/ FinishPoll \/ PollRaises
    \/ LoopCancelled \/ LoopCancelsChild

-----------------------------------------------------------------------------
(***************************************************************************)
(* _commissioning_task.                                                    *)
(***************************************************************************)

ChildUnchanged ==
    UNCHANGED <<state, tasksQueue, future, controlVars, loopVars, quiescent, stopVars>>

\* The next await of the child: the sleep, then StartQuiescentMode.
ChildAdvances ==
    /\ ~childCancel
    /\ \/ child = "created" /\ child' = "sleeping"
       \/ child = "sleeping" /\ child' = "starting"
       \/ child = "starting" /\ child' = "scanning"
    /\ UNCHANGED <<childCancel, leaving, status>>
    /\ ChildUnchanged

\* StartQuiescentMode could not be sent: outside the inner try.
ChildCannotStart ==
    /\ ~childCancel
    /\ child = "starting"
    /\ child' = "done"
    /\ status' = "failed"
    /\ UNCHANGED <<childCancel, leaving>>
    /\ ChildUnchanged

\* report_progress of the searches, then mark_reading_info.
ChildReports ==
    /\ ~childCancel
    /\ child = "scanning"
    /\ \/ status = "queued" /\ status' = "searching"
       \/ status \in {"queued", "searching"} /\ status' = "reading"
    /\ UNCHANGED childVars
    /\ ChildUnchanged

\* A search raises, or the device info was read: an exception while reading is
\* only logged.
ChildLeavesScan ==
    /\ ~childCancel
    /\ child = "scanning"
    /\ child' = "finally"
    /\ leaving' = IF status = "reading" THEN "completed" ELSE "failed"
    /\ UNCHANGED <<childCancel, status>>
    /\ ChildUnchanged

\* StopQuiescentMode was sent, or raised: then the scan has failed.
ChildEnds ==
    /\ ~childCancel
    /\ child = "finally"
    /\ child' = "done"
    /\ status' \in {leaving, "failed"}
    /\ leaving' = "no"
    /\ UNCHANGED childCancel
    /\ ChildUnchanged

\* CancelledError at the child's await.  Before its first step nothing of the
\* child runs; in the scan the finally block follows; in the finally block
\* StopQuiescentMode is cut short.
ChildCancelled ==
    /\ childCancel
    /\ childCancel' = FALSE
    /\ \/ /\ child = "created"
          /\ child' = "done"
          /\ UNCHANGED <<status, leaving>>
       \/ /\ child \in {"sleeping", "starting", "finally"}
          /\ child' = "done"
          /\ status' = "cancelled"
          /\ leaving' = "no"
       \/ /\ child = "scanning"
          /\ child' = "finally"
          /\ leaving' = "cancelled"
          /\ UNCHANGED status
    /\ ChildUnchanged

ChildNext ==
    \/ ChildAdvances \/ ChildCannotStart \/ ChildReports
    \/ ChildLeavesScan \/ ChildEnds \/ ChildCancelled

-----------------------------------------------------------------------------
(***************************************************************************)
(* stop().                                                                 *)
(***************************************************************************)

\* STOPPING; the one-shot tasks are cancelled, handlers of /on messages with
\* them, and with a handler the future it awaits.
StopBegins ==
    /\ state = "ready"
    /\ state' = "stopping"
    /\ stopStep' = "one_shot"
    /\ future' = Resolved(Message)
    /\ UNCHANGED <<tasksQueue, controlVars, loopVars, quiescent, scanVars, stopRequested, loopCancel>>

\* A running child is cancelled and awaited.
StopCancelsChild ==
    /\ stopStep = "one_shot"
    /\ ChildAlive
    /\ childCancel' = TRUE
    /\ stopStep' = "child"
    /\ UNCHANGED <<state, tasksQueue, future, controlVars, loopVars, quiescent, status, child,
                   leaving, stopRequested, loopCancel>>

\* The polling task is told to stop, cancelled and awaited.
StopCancelsLoop ==
    /\ stopStep \in {"one_shot", "child"}
    /\ ~ChildAlive
    /\ stopRequested' = TRUE
    /\ loopCancel' = (pc \notin {"ended", "failed"})
    /\ stopStep' = "loop"
    /\ UNCHANGED <<state, tasksQueue, future, controlVars, loopVars, quiescent, scanVars>>

\* wait_for gives up after 2 s, cancels the loop again and waits for its end.
StopTimesOut ==
    /\ stopStep = "loop"
    /\ pc \in {"poll", "controls", "task", "scan"}
    /\ loopCancel' = TRUE
    /\ stopStep' = "timeout"
    /\ UNCHANGED <<state, tasksQueue, future, controlVars, loopVars, quiescent, scanVars, stopRequested>>

\* The tasks left in the queue are cancelled.
StopDrains ==
    /\ stopStep \in {"loop", "timeout"}
    /\ pc \in {"ended", "failed"}
    /\ future' = Resolved({tasksQueue[i] : i \in 1 .. Len(tasksQueue)})
    /\ tasksQueue' = <<>>
    /\ stopStep' = "drained"
    /\ UNCHANGED <<state, controlVars, loopVars, quiescent, scanVars, stopRequested, loopCancel>>

\* Publisher and driver are down.
StopEnds ==
    /\ stopStep = "drained"
    /\ state = "stopping"
    /\ state' = "uninitialized"
    /\ UNCHANGED <<tasksQueue, future, controlVars, loopVars, quiescent, scanVars, stopVars>>

StopNext ==
    \/ StopCancelsChild \/ StopCancelsLoop \/ StopTimesOut \/ StopDrains \/ StopEnds

-----------------------------------------------------------------------------
CallersNext ==
    \/ \E r \in Request : SubmitRequest(r)
    \/ \E b \in Batch : SendCommandBatch(b)
    \/ \E t \in Request \cup Batch : CallerGivesUp(t)
    \/ \E m \in Message : HandleOnTopic(m)
    \/ \E s \in Scan : StartCommissioning(s)
    \/ CancelCommissioning

Next ==
    \/ StartBegins \/ StartFails \/ StartEnds
    \/ CallersNext
    \/ StartQuiescentMode \/ StopQuiescentMode
    \/ LoopNext
    \/ ChildNext
    \/ StopBegins \/ StopNext

Spec == Init /\ [][Next]_vars

\* The event loop runs every task that is ready, and bus operations end (they
\* have timeouts); the service stops a controller whose polling loop failed.
Fairness ==
    /\ WF_vars(LoopNext)
    /\ WF_vars(ChildNext)
    /\ WF_vars(StopNext)
    /\ WF_vars(pc = "failed" /\ StopBegins)

FairSpec == Spec /\ Fairness
-----------------------------------------------------------------------------
(***************************************************************************)
(* Properties.                                                             *)
(***************************************************************************)

\* Where a task waits for the loop: in the queue, or as the item the loop has
\* taken and not started.
Waiting == {tasksQueue[i] : i \in 1 .. Len(tasksQueue)}
              \cup (IF pc \in {"task", "scan"} THEN {} ELSE {item} \ {NoTask})

\* A control with a value to set has exactly one task that will pick the value
\* up, and a control without one has none: were the mark of _handle_on_topic
\* left set with no task behind it, every later command for the control would
\* be swallowed; with two tasks the gather would send two values at once.
QueuedOnce ==
    stopStep # "drained" =>
        \A c \in Control :
            Cardinality({m \in Waiting \cap Message : ControlOf[m] = c})
                = IF valueToSet[c] # 0 THEN 1 ELSE 0

\* A scan that waits or runs is known as running, and there is never a second
\* one: start_commissioning and send_command_batch rely on the status alone.
ScanKnown ==
    LET alive == (Waiting \cap Scan) \cup (IF ChildAlive THEN {item} ELSE {})
    IN Cardinality(alive) <= 1 /\ (alive # {} => IsRunning)

\* A value is confirmed on a control only after the loop handed it to the
\* device, and never after a newer one: the gather must confirm the values it
\* captured, not the ones waiting when it ends.
ConfirmedInOrder ==
    [][\A c \in Control :
          value'[c] # value[c] => value[c] < value'[c] /\ value'[c] <= settled[c]]_vars

\* The future of every queued task is resolved, whatever quiescent mode, scans,
\* cancellations and failing polls do. Only stop() may leave one unresolved, and
\* no more than one: the task that the loop was executing or held.
TasksEnd ==
    LET open == {t \in Request \cup Batch \cup Scan : future[t] = "pending"}
    IN  \A t \in Request \cup Batch \cup Scan :
            t \in open ~> (t \notin open \/ (stopStep = "drained" /\ Cardinality(open) = 1))

\* Every /on message is served by its own value or by a newer one of the same
\* control, or refused in quiescent mode, as long as the controller is ready.
MessagesServed ==
    \A m \in Message :
        (arrived >= m /\ state = "ready") ~> (settled[ControlOf[m]] >= m \/ state # "ready")

\* The status says that a scan is queued or runs only while there is one
\* (docs/editor_rpc.md: already_running means that the bus is being scanned,
\* and a terminal status follows). The code does not keep this: README, section 3.
RunningMeansScan ==
    (IsRunning /\ state = "ready") => (Waiting \cap Scan # {} \/ pc = "scan")
=============================================================================
