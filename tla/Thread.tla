------------------------------- MODULE Thread -------------------------------
(***************************************************************************)
(* qosrtp::Thread (src/src/utils/thread.cc) and the wait task of the       *)
(* network thread, NetworkIoScheduler (src/src/network/                    *)
(* network_io_scheduler.cc), as operators on one thread's record, for a    *)
(* module that composes several threads.                                   *)
(*                                                                         *)
(* A record holds the members of Thread (runing_, should_stop_, the two    *)
(* queues, whether wait_task_ is set) and where ThreadMain is (pc) with    *)
(* its locals task_f and delayed_task.  For a thread whose wait task is    *)
(* the scheduler it also holds the scheduler's signaler event (wakeup,     *)
(* set by WaitUp, reset by NetworkIoSignaler::OnEvent) and wait_break_.    *)
(* A delayed task is [f |-> task, at |-> execution_time_utc_ms].  What a   *)
(* mutex protects is one step.  The socket side of Wait belongs to the     *)
(* composing module, which knows what a datagram does.                     *)
(*                                                                         *)
(* ThreadMain's pc:                                                        *)
(*   "idle"        no thread yet (before Start)                            *)
(*   "loop"        the outer while (line 118)                              *)
(*   "pick"        the locked part of the do-loop (124-144)                *)
(*   "run_task"    running task_f (145-146)                                *)
(*   "run_delayed" running delayed_task->f (147-148)                       *)
(*   "wait"        wait_task_->Wait called (151), before wait_break_=false *)
(*   "waiting"     in WSAWaitForMultipleEvents (106-108)                   *)
(*   "exited"      ThreadMain returned; join() may return                  *)
(***************************************************************************)
EXTENDS Integers, Sequences, SequencesExt

\* task_f and delayed_task hold no task.
NoTask == [op |-> "none"]

\* A task slot that holds a task (tasks differ in their fields, so they are
\* told apart by op).
Holds(x) == x.op # "none"

\* Thread::Thread: nothing runs yet.
NewThread(has_wait) ==
    [runing |-> FALSE, should_stop |-> FALSE, wait_task |-> has_wait,
     task_queue |-> <<>>, delayed_task_list |-> <<>>, pc |-> "idle",
     task_f |-> NoTask, delayed_task |-> NoTask,
     wakeup |-> FALSE, wait_break |-> FALSE]

\* Thread::Start: a second Start returns; otherwise clear should_stop_,
\* start ThreadMain and mark the thread running.
Started(th) ==
    IF th.runing THEN th
    ELSE [th EXCEPT !.should_stop = FALSE, !.pc = "loop", !.runing = TRUE]

\* NetworkIoScheduler::WaitUp, called when wait_task_ is set: the
\* signaler's event is set (WSASetEvent), and stays set until handled.
WaitUp(th) == [th EXCEPT !.wakeup = @ \/ th.wait_task]

\* Mutant: PushTask queues the task without waking the wait task.
MutPushTask(th, f) ==
    IF ~th.runing THEN th ELSE [th EXCEPT !.task_queue = Append(@, f)]

\* Thread::PushTask(f): dropped unless running; queued, then WaitUp.
PushTask(th, f) ==
    IF ~th.runing THEN th
    ELSE WaitUp([th EXCEPT !.task_queue = Append(@, f)])

\* Thread::PushTask(f, delay): the DelayedTask records UTCTimeMillis() +
\* delay and goes to the back of delayed_task_list_.
PushDelayedTask(th, f, at) ==
    IF ~th.runing THEN th
    ELSE WaitUp([th EXCEPT !.delayed_task_list =
                               Append(@, [f |-> f, at |-> at])])

\* The outer while (line 118).
LoopTop(th) == [th EXCEPT !.pc = IF th.should_stop THEN "exited" ELSE "pick"]

\* The delayed task the scan of lines 127-138 takes: the first one in list
\* order that is due, not the earliest.
FirstDue(th, now) == SelectInSeq(th.delayed_task_list, LAMBDA d : d.at <= now)

\* Where ThreadMain goes once it has run task_f (or had none).
AfterTask(th) ==
    IF Holds(th.delayed_task) THEN "run_delayed"
    ELSE IF th.should_stop THEN "exited" ELSE "pick"

\* Lines 122-144 under the mutex, with the breaks of 143 and 150: take the
\* first due delayed task and the head of task_queue_; with neither, leave
\* the do-loop, and then stop, wait, or (no wait task) go round again.
Pick(th, now) ==
    LET i   == FirstDue(th, now)
        d   == IF i = 0 THEN NoTask ELSE th.delayed_task_list[i].f
        f   == IF th.task_queue = <<>> THEN NoTask ELSE Head(th.task_queue)
        got == [th EXCEPT !.delayed_task_list = IF i = 0 THEN @ ELSE RemoveAt(@, i),
                          !.task_queue = IF Holds(f) THEN Tail(@) ELSE @,
                          !.task_f = f, !.delayed_task = d]
    IN  [got EXCEPT !.pc =
            CASE Holds(f)             -> "run_task"
              [] Holds(d)             -> AfterTask(got)
              [] th.should_stop       -> "exited"
              [] th.wait_task         -> "wait"
              [] OTHER                -> "loop"]

\* task_f has run (lines 145-146).
TaskDone(th) == [th EXCEPT !.task_f = NoTask, !.pc = AfterTask(th)]

\* delayed_task has run (147-148), then the do-while test (149).
DelayedDone(th) ==
    [th EXCEPT !.delayed_task = NoTask,
               !.pc = IF th.should_stop THEN "exited" ELSE "pick"]

\* NetworkIoScheduler::Wait, lines 81-85: clear wait_break_ and block.
WaitEnter(th) == [th EXCEPT !.wait_break = FALSE, !.pc = "waiting"]

\* Lines 118-126 with the signaler's event the one returned: its OnEvent
\* resets the event and sets wait_break_, so the loop of line 85 ends and
\* Wait returns to ThreadMain's outer while.
WaitOnSignal(th) ==
    [th EXCEPT !.wakeup = FALSE, !.wait_break = TRUE, !.pc = "loop"]

\* Mutant: Stop does not wake the wait task.
MutStopRequest(th) == [th EXCEPT !.should_stop = TRUE]

\* Thread::Stop, lines 63-64: set should_stop_ and wake the wait task.
StopRequest(th) == WaitUp([th EXCEPT !.should_stop = TRUE])

\* Mutant: join() returns at once.
MutJoinReturns(th) == TRUE

\* thread_.join() (65-67) returns once ThreadMain has returned.
JoinReturns(th) == th.pc \in {"idle", "exited"}

\* Stop, lines 68-76, once join has returned: both queues are emptied and
\* the flags cleared under the mutex.
StopClear(th) ==
    [th EXCEPT !.task_queue = <<>>, !.delayed_task_list = <<>>,
               !.should_stop = FALSE, !.runing = FALSE]
=============================================================================
