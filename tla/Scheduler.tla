----------------------------- MODULE Scheduler -----------------------------
(***************************************************************************)
(* The cooperative scheduler of system/scheduler.h together with the       *)
(* coroutine handles of system/task.h that it queues.                      *)
(*                                                                         *)
(* A pass (run_tasks_once) visits the slots in order.  One action is one   *)
(* loop iteration, split where control leaves the scheduler: a resumed     *)
(* task may add tasks, remove others or stop the scheduler before it       *)
(* yields or returns, and time passes at any moment.                       *)
(*                                                                         *)
(* Time is kept relative to the clock: delay[t] is wait_until_ - now, and  *)
(* 0 once that instant has passed; the code only ever compares the two, so *)
(* nothing is lost and no bound on the age of the system is needed.        *)
(***************************************************************************)
EXTENDS Naturals, FiniteSets

CONSTANTS
  Tasks,        \* coroutine frames a program may create, one at a time each
  NoTask,       \* the null handle of an invalid TaskT
  QueueSize,    \* QUEUE_SIZE
  MaxDelay,     \* longest wait a task asks for with co_yield
  MaxSleep,     \* the 5s cap of run_tasks_once
  SleepFloor,   \* sleeps shorter than this return at once (25us)
  ClockError    \* by how much a sleep may fall short (EmbeddedClock.tla)

ASSUME QueueSizeAssumption == QueueSize \in Nat \ {0}
ASSUME NoTaskAssumption    == NoTask \notin Tasks
ASSUME TimeAssumption ==
  /\ MaxDelay \in Nat /\ MaxSleep \in Nat
  /\ SleepFloor \in Nat /\ ClockError \in Nat

VARIABLES
  queue,          \* task_queue_: the handle each slot owns
  delay,          \* promise_type::wait_until_ of each frame, relative to now
  next_wakeup,    \* next_wakeup_time of the pass, relative to now
  cursor,         \* i, the slot the pass has reached
  pc,             \* where start() is
  stop_requested, \* stop_requested_
  due,            \* history: tasks runnable when the pass began, not yet resumed
  missed          \* history: tasks added in this pass to a slot already visited

vars == <<queue, delay, next_wakeup, cursor, pc, stop_requested, due, missed>>

Slots == 0..(QueueSize - 1)

Queued == {t \in Tasks : \E s \in Slots : queue[s] = t}

Lesser(a, b) == IF a < b THEN a ELSE b

Earlier(d) == IF d = 0 THEN 0 ELSE d - 1

(* The task that holds the CPU; meaningful while pc = "run". *)
Current == queue[cursor]

-----------------------------------------------------------------------------
Init ==
  /\ queue = [s \in Slots |-> NoTask]
  /\ delay = [t \in Tasks |-> 0]
  /\ next_wakeup = 0
  /\ cursor = 0
  /\ pc = "setup"
  /\ stop_requested = FALSE
  /\ due = {}
  /\ missed = {}

(* add_task of a fresh coroutine, whose wait_until_ is the epoch: from main *)
(* before start(), or from the task that is running.                       *)
AddTask(t) ==
  /\ pc \in {"setup", "run"}
  /\ t \notin Queued
  /\ \E s \in Slots :
       /\ queue[s] = NoTask
       /\ \A r \in Slots : r < s => queue[r] # NoTask
       /\ queue' = [queue EXCEPT ![s] = t]
       /\ missed' = IF pc = "run" /\ s < cursor THEN missed \union {t} ELSE missed
  /\ delay' = [delay EXCEPT ![t] = 0]
  /\ UNCHANGED <<next_wakeup, cursor, pc, stop_requested, due>>

(* add_task with every slot taken ends in error(), which never returns. *)
AddTaskFails ==
  /\ pc \in {"setup", "run"}
  /\ \A s \in Slots : queue[s] # NoTask
  /\ pc' = "error"
  /\ UNCHANGED <<queue, delay, next_wakeup, cursor, stop_requested, due, missed>>

(* remove_task, by main or by the running task of another slot than its    *)
(* own: the frame is destroyed.                                            *)
RemoveTask(s) ==
  /\ pc = "setup" \/ (pc = "run" /\ s # cursor)
  /\ queue' = [queue EXCEPT ![s] = NoTask]
  /\ due' = due \ {queue[s]}
  /\ missed' = missed \ {queue[s]}
  /\ UNCHANGED <<delay, next_wakeup, cursor, pc, stop_requested>>

Stop ==
  /\ pc \in {"setup", "run"}
  /\ stop_requested' = TRUE
  /\ UNCHANGED <<queue, delay, next_wakeup, cursor, pc, due, missed>>

Start ==
  /\ pc = "setup"
  /\ pc' = "check"
  /\ UNCHANGED <<queue, delay, next_wakeup, cursor, stop_requested, due, missed>>

-----------------------------------------------------------------------------
(* Fault: a pass goes on where the previous one ended. *)
BeginPassAtCursor ==
  /\ pc = "check"
  /\ ~stop_requested
  /\ pc' = "visit"
  /\ next_wakeup' = MaxSleep
  /\ due' = {t \in Queued : delay[t] = 0}
  /\ missed' = {}
  /\ UNCHANGED <<queue, delay, cursor, stop_requested>>

(* while (!stop_requested_): the head of the loop, and of run_tasks_once. *)
BeginPass ==
  /\ pc = "check"
  /\ ~stop_requested
  /\ pc' = "visit"
  /\ cursor' = 0
  /\ next_wakeup' = MaxSleep
  /\ due' = {t \in Queued : delay[t] = 0}
  /\ missed' = {}
  /\ UNCHANGED <<queue, delay, stop_requested>>

(* Fault: start() returns only once no task is left. *)
ReturnWhenEmpty ==
  /\ pc = "check"
  /\ stop_requested /\ Queued = {}
  /\ pc' = "stopped"
  /\ UNCHANGED <<queue, delay, next_wakeup, cursor, stop_requested, due, missed>>

ReturnFromStart ==
  /\ pc = "check"
  /\ stop_requested
  /\ pc' = "stopped"
  /\ UNCHANGED <<queue, delay, next_wakeup, cursor, stop_requested, due, missed>>

SkipInvalid ==
  /\ pc = "visit"
  /\ cursor < QueueSize
  /\ Current = NoTask
  /\ cursor' = cursor + 1
  /\ UNCHANGED <<queue, delay, next_wakeup, pc, stop_requested, due, missed>>

(* Fault: only the tasks that ran count towards the next wakeup. *)
SkipWaitingUncounted ==
  /\ pc = "visit"
  /\ cursor < QueueSize
  /\ Current # NoTask
  /\ delay[Current] > 0
  /\ cursor' = cursor + 1
  /\ UNCHANGED <<queue, delay, next_wakeup, pc, stop_requested, due, missed>>

SkipWaiting ==
  /\ pc = "visit"
  /\ cursor < QueueSize
  /\ Current # NoTask
  /\ delay[Current] > 0
  /\ next_wakeup' = Lesser(next_wakeup, delay[Current])
  /\ cursor' = cursor + 1
  /\ UNCHANGED <<queue, delay, pc, stop_requested, due, missed>>

(* Fault: is_runnable is not asked. *)
ResumeAnyway ==
  /\ pc = "visit"
  /\ cursor < QueueSize
  /\ Current # NoTask
  /\ pc' = "run"
  /\ due' = due \ {Current}
  /\ UNCHANGED <<queue, delay, next_wakeup, cursor, stop_requested, missed>>

Resume ==
  /\ pc = "visit"
  /\ cursor < QueueSize
  /\ Current # NoTask
  /\ delay[Current] = 0
  /\ pc' = "run"
  /\ due' = due \ {Current}
  /\ UNCHANGED <<queue, delay, next_wakeup, cursor, stop_requested, missed>>

(* Fault: the pass ends with the first task that ran. *)
YieldEndsPass(d) ==
  /\ pc = "run"
  /\ delay' = [delay EXCEPT ![Current] = d]
  /\ next_wakeup' = Lesser(next_wakeup, d)
  /\ cursor' = QueueSize
  /\ pc' = "visit"
  /\ UNCHANGED <<queue, stop_requested, due, missed>>

(* co_yield of an instant or of a duration, d from now, and the rest of    *)
(* the iteration: the slot keeps the task, whose new wait_until_ counts.   *)
Yield(d) ==
  /\ pc = "run"
  /\ delay' = [delay EXCEPT ![Current] = d]
  /\ next_wakeup' = Lesser(next_wakeup, d)
  /\ cursor' = cursor + 1
  /\ pc' = "visit"
  /\ UNCHANGED <<queue, stop_requested, due, missed>>

(* co_return, or an exception (unhandled_exception drops it): is_complete()*)
(* frees the slot, whose estimate is then time_point::max().               *)
Return ==
  /\ pc = "run"
  /\ queue' = [queue EXCEPT ![cursor] = NoTask]
  /\ cursor' = cursor + 1
  /\ pc' = "visit"
  /\ UNCHANGED <<delay, next_wakeup, stop_requested, due, missed>>

EndPass ==
  /\ pc = "visit"
  /\ cursor = QueueSize
  /\ pc' = IF next_wakeup < SleepFloor THEN "check" ELSE "sleep"
  /\ UNCHANGED <<queue, delay, next_wakeup, cursor, stop_requested, due, missed>>

(* clock_->sleep returns around the wakeup time: the timer rounds down and *)
(* the tick counter moves in steps, so the clock may not show it yet.      *)
Wake ==
  /\ pc = "sleep"
  /\ next_wakeup <= ClockError
  /\ pc' = "check"
  /\ UNCHANGED <<queue, delay, next_wakeup, cursor, stop_requested, due, missed>>

(* The clock moves on, whatever the scheduler is doing. *)
Tick ==
  /\ delay' = [t \in Tasks |-> Earlier(delay[t])]
  /\ next_wakeup' = Earlier(next_wakeup)
  /\ UNCHANGED <<queue, cursor, pc, stop_requested, due, missed>>

-----------------------------------------------------------------------------
Loop == BeginPass \/ ReturnFromStart \/ SkipInvalid \/ SkipWaiting \/ Resume
          \/ EndPass \/ Wake

GiveUpCpu == Return \/ \E d \in 0..MaxDelay : Yield(d)

Next ==
  \/ \E t \in Tasks : AddTask(t)
  \/ AddTaskFails
  \/ \E s \in Slots : RemoveTask(s)
  \/ Stop
  \/ Start
  \/ Loop
  \/ GiveUpCpu
  \/ Tick

(* The loop is straight-line code, tasks are cooperative, the clock runs.  *)
Fairness == WF_vars(Loop) /\ WF_vars(GiveUpCpu) /\ WF_vars(Tick)

Spec == Init /\ [][Next]_vars

FairSpec == Spec /\ Fairness

-----------------------------------------------------------------------------
(* Every variable keeps the type the code declares for it. *)
TypeOK ==
  /\ queue \in [Slots -> Tasks \union {NoTask}]
  /\ delay \in [Tasks -> 0..MaxDelay]
  /\ next_wakeup \in 0..MaxSleep
  /\ cursor \in 0..QueueSize
  /\ pc \in {"setup", "check", "visit", "run", "sleep", "stopped", "error"}
  /\ pc = "run" => cursor < QueueSize
  /\ stop_requested \in BOOLEAN
  /\ due \subseteq Tasks
  /\ missed \subseteq Tasks

(* No coroutine frame is owned by two slots, so none is destroyed twice,   *)
(* and the slot being run still owns the frame that is executing.          *)
SingleOwner ==
  /\ \A r, s \in Slots : queue[r] = queue[s] /\ r # s => queue[r] = NoTask
  /\ pc = "run" => Current # NoTask

(* The scheduler never sleeps past the moment a queued task becomes        *)
(* runnable, other than a task another task added behind the cursor.       *)
NoOversleep ==
  pc = "sleep" => \A t \in Queued \ missed : next_wakeup <= delay[t]

(* A pass resumes every task that was runnable when it began, whatever     *)
(* tasks resumed before it did to the queue: none starves behind another.  *)
NoDueTaskSkipped ==
  pc \in {"check", "sleep"} => due = {}

(* A queued task does not wait forever: it is resumed, or removed, unless  *)
(* the scheduler was stopped or ran out of slots.                          *)
EventuallyResumed ==
  \A t \in Tasks :
    t \in Queued /\ pc = "check" ~>
      \/ pc = "run" /\ Current = t
      \/ t \notin Queued
      \/ pc \in {"stopped", "error"}

(* A stop() issued by a task ends start(), although start() looks at the   *)
(* request only between a sleep and the next pass.                         *)
StopEndsStart ==
  stop_requested /\ pc # "setup" ~> pc \in {"stopped", "error"}

-----------------------------------------------------------------------------
(* The inductive strengthening: what is known in the middle of a pass.     *)

(* A task due since the pass began is still due, ahead of the cursor. *)
DueIsAhead ==
  /\ pc \in {"visit", "run"} =>
       \A t \in due : delay[t] = 0 /\ \E s \in Slots : s >= cursor /\ queue[s] = t
  /\ pc = "run" => Current \notin due
  /\ pc \in {"setup", "check", "sleep", "stopped"} => due = {}

(* next_wakeup accounts for every task behind the cursor. *)
WakeupCoversVisited ==
  pc \in {"visit", "run", "sleep"} =>
    \A s \in Slots :
      s < cursor /\ queue[s] # NoTask /\ queue[s] \notin missed =>
        next_wakeup <= delay[queue[s]]

SleepAfterLastSlot == pc = "sleep" => cursor = QueueSize

IInv ==
  TypeOK /\ SingleOwner /\ DueIsAhead /\ WakeupCoversVisited /\ SleepAfterLastSlot

-----------------------------------------------------------------------------
(* Each task as the programs in bringup/ see it. *)
mode ==
  [t \in Tasks |->
     IF t \notin Queued THEN "absent"
     ELSE IF pc = "run" /\ Current = t THEN "running" ELSE "waiting"]

stage ==
  IF pc = "setup" THEN "setup"
  ELSE IF pc \in {"stopped", "error"} THEN "halted" ELSE "running"

Tasking == INSTANCE CooperativeTasks

(* Whatever the slots and the pass do, tasks see cooperative multitasking: *)
(* one at a time, never before the instant they asked for, until they give *)
(* up the CPU themselves.                                                  *)
ImplementsTasking == Tasking!Spec

=============================================================================
