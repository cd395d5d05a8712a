-------------------------- MODULE SchedulerProofs --------------------------
(***************************************************************************)
(* Proofs about Scheduler for every number of slots and tasks and every    *)
(* length of the waits and sleeps.                                         *)
(***************************************************************************)
EXTENDS Scheduler, TLAPS

USE QueueSizeAssumption, NoTaskAssumption, TimeAssumption

(* The smaller of two times is one of them and exceeds neither. *)
LEMMA LesserProperty ==
  ASSUME NEW a \in Nat, NEW b \in Nat
  PROVE  /\ Lesser(a, b) \in {a, b}
         /\ Lesser(a, b) <= a
         /\ Lesser(a, b) <= b
BY DEF Lesser

(* The passing of time keeps times natural numbers and in order. *)
LEMMA EarlierProperty ==
  ASSUME NEW a \in Nat, NEW b \in Nat
  PROVE  /\ Earlier(a) \in Nat
         /\ Earlier(a) <= a
         /\ a <= b => Earlier(a) <= Earlier(b)
         /\ a = 0 => Earlier(a) = 0
BY DEF Earlier

(* The initial states satisfy the inductive invariant. *)
LEMMA InitInvariant == Init => IInv
<1> SUFFICES ASSUME Init PROVE IInv
  OBVIOUS
<1>1. TypeOK
  <2>1. 0 \in 0..MaxSleep /\ 0 \in 0..MaxDelay /\ 0 \in 0..QueueSize
    OBVIOUS
  <2>2. queue \in [Slots -> Tasks \union {NoTask}] /\ delay \in [Tasks -> 0..MaxDelay]
    BY <2>1 DEF Init
  <2> QED BY <2>1, <2>2 DEF Init, TypeOK
<1>2. SingleOwner /\ DueIsAhead /\ WakeupCoversVisited /\ SleepAfterLastSlot
  BY DEF Init, SingleOwner, DueIsAhead, WakeupCoversVisited, SleepAfterLastSlot
<1> QED BY <1>1, <1>2 DEF IInv

(* Every action preserves the inductive invariant. *)
LEMMA NextInvariant == IInv /\ [Next]_vars => IInv'
<1> SUFFICES ASSUME IInv, [Next]_vars PROVE IInv'
  OBVIOUS
<1> USE DEF IInv, Slots
<1>1. ASSUME NEW t \in Tasks, AddTask(t) PROVE IInv'
  <2> PICK s \in Slots :
        /\ queue[s] = NoTask
        /\ \A r \in Slots : r < s => queue[r] # NoTask
        /\ queue' = [queue EXCEPT ![s] = t]
        /\ missed' = IF pc = "run" /\ s < cursor THEN missed \union {t} ELSE missed
    BY <1>1 DEF AddTask
  <2>1. /\ \A r \in Slots : queue[r] # t
        /\ UNCHANGED <<next_wakeup, cursor, pc, stop_requested, due>>
        /\ delay' = [delay EXCEPT ![t] = 0]
        /\ pc \in {"setup", "run"}
    BY <1>1 DEF AddTask, Queued
  <2>2. TypeOK'
    BY <2>1 DEF TypeOK
  <2>3. SingleOwner'
    BY <2>1 DEF SingleOwner, TypeOK, Current
  <2>4. DueIsAhead'
    BY <2>1 DEF DueIsAhead, TypeOK, Current, SingleOwner
  <2>5. WakeupCoversVisited'
    BY <2>1 DEF WakeupCoversVisited, TypeOK
  <2>6. SleepAfterLastSlot'
    BY <2>1 DEF SleepAfterLastSlot
  <2> QED BY <2>2, <2>3, <2>4, <2>5, <2>6
<1>2. CASE AddTaskFails
  BY <1>2 DEF AddTaskFails, TypeOK, SingleOwner, DueIsAhead, WakeupCoversVisited,
              SleepAfterLastSlot, Current
<1>3. ASSUME NEW s \in Slots, RemoveTask(s) PROVE IInv'
  <2>1. TypeOK'
    BY <1>3 DEF RemoveTask, TypeOK
  <2>2. SingleOwner'
    BY <1>3 DEF RemoveTask, TypeOK, SingleOwner, Current
  <2>3. DueIsAhead'
    BY <1>3 DEF RemoveTask, TypeOK, SingleOwner, Current, DueIsAhead
  <2>4. WakeupCoversVisited'
    BY <1>3 DEF RemoveTask, TypeOK, SingleOwner, WakeupCoversVisited
  <2>5. SleepAfterLastSlot'
    BY <1>3 DEF RemoveTask, SleepAfterLastSlot
  <2> QED BY <2>1, <2>2, <2>3, <2>4, <2>5
<1>4. CASE Stop \/ Start \/ ReturnFromStart \/ Wake
  <2>1. /\ UNCHANGED <<queue, delay, next_wakeup, cursor, due, missed>>
        /\ pc' = pc \/ (pc \in {"setup", "check", "sleep"} /\ pc' \in {"check", "stopped"})
        /\ stop_requested' \in {stop_requested, TRUE}
    BY <1>4 DEF Stop, Start, ReturnFromStart, Wake
  <2>2. TypeOK'
    BY <2>1 DEF TypeOK
  <2>3. SingleOwner' /\ DueIsAhead'
    BY <2>1 DEF SingleOwner, DueIsAhead, Current
  <2>4. WakeupCoversVisited' /\ SleepAfterLastSlot'
    BY <2>1 DEF WakeupCoversVisited, SleepAfterLastSlot
  <2> QED BY <2>2, <2>3, <2>4
<1>5. CASE BeginPass
  <2>1. TypeOK'
    BY <1>5 DEF BeginPass, TypeOK, Queued
  <2>2. DueIsAhead'
    BY <1>5 DEF BeginPass, DueIsAhead, Queued
  <2>3. SingleOwner' /\ WakeupCoversVisited' /\ SleepAfterLastSlot'
    BY <1>5 DEF BeginPass, SingleOwner, WakeupCoversVisited, SleepAfterLastSlot
  <2> QED BY <2>1, <2>2, <2>3
<1>6. CASE SkipInvalid
  BY <1>6 DEF SkipInvalid, TypeOK, SingleOwner, DueIsAhead, WakeupCoversVisited,
              SleepAfterLastSlot, Current
<1>7. CASE SkipWaiting
  <2>1. /\ Current \in Tasks
        /\ delay[Current] \in Nat
        /\ next_wakeup \in Nat
        /\ next_wakeup' <= next_wakeup
        /\ next_wakeup' <= delay[Current]
        /\ next_wakeup' \in {next_wakeup, delay[Current]}
    BY <1>7, LesserProperty DEF SkipWaiting, TypeOK, Current
  <2>2. TypeOK'
    BY <1>7, <2>1 DEF SkipWaiting, TypeOK
  <2>3. SingleOwner'
    BY <1>7 DEF SkipWaiting, SingleOwner
  <2>4. DueIsAhead'
    BY <1>7 DEF SkipWaiting, DueIsAhead, TypeOK, Current
  <2>5. WakeupCoversVisited'
    BY <1>7, <2>1 DEF SkipWaiting, WakeupCoversVisited, TypeOK, Current
  <2>6. SleepAfterLastSlot'
    BY <1>7 DEF SkipWaiting, SleepAfterLastSlot
  <2> QED BY <2>2, <2>3, <2>4, <2>5, <2>6
<1>8. CASE Resume
  BY <1>8 DEF Resume, TypeOK, SingleOwner, DueIsAhead, WakeupCoversVisited,
              SleepAfterLastSlot, Current
<1>9. ASSUME NEW d \in 0..MaxDelay, Yield(d) PROVE IInv'
  <2>1. /\ next_wakeup \in Nat
        /\ next_wakeup' <= next_wakeup
        /\ next_wakeup' <= d
        /\ next_wakeup' \in {next_wakeup, d}
        /\ Current \in Tasks
        /\ cursor \in Slots
    BY <1>9, LesserProperty DEF Yield, TypeOK, Current, SingleOwner
  <2>2. TypeOK'
    BY <1>9, <2>1 DEF Yield, TypeOK
  <2>3. SingleOwner'
    BY <1>9 DEF Yield, SingleOwner
  <2>4. DueIsAhead'
    BY <1>9 DEF Yield, DueIsAhead, TypeOK, Current
  <2>5. WakeupCoversVisited'
    BY <1>9, <2>1 DEF Yield, WakeupCoversVisited, TypeOK, Current, SingleOwner
  <2>6. SleepAfterLastSlot'
    BY <1>9 DEF Yield, SleepAfterLastSlot
  <2> QED BY <2>2, <2>3, <2>4, <2>5, <2>6
<1>10. CASE Return
  BY <1>10 DEF Return, TypeOK, SingleOwner, DueIsAhead, WakeupCoversVisited,
               SleepAfterLastSlot, Current
<1>11. CASE EndPass
  BY <1>11 DEF EndPass, TypeOK, SingleOwner, DueIsAhead, WakeupCoversVisited,
               SleepAfterLastSlot
<1>12. CASE Tick
  <2>1. /\ next_wakeup \in Nat
        /\ next_wakeup' = Earlier(next_wakeup)
        /\ \A t \in Tasks : delay[t] \in Nat /\ delay'[t] = Earlier(delay[t])
        /\ UNCHANGED <<queue, cursor, pc, stop_requested, due, missed>>
    BY <1>12 DEF Tick, TypeOK
  <2>2. TypeOK'
    BY <1>12, <2>1, EarlierProperty DEF Tick, TypeOK
  <2>3. SingleOwner' /\ SleepAfterLastSlot'
    BY <2>1 DEF SingleOwner, SleepAfterLastSlot, Current
  <2>5. DueIsAhead'
    BY <2>1, EarlierProperty DEF DueIsAhead, TypeOK, Current
  <2>4. WakeupCoversVisited'
    BY <2>1, EarlierProperty DEF WakeupCoversVisited, TypeOK
  <2> QED BY <2>2, <2>3, <2>4, <2>5
<1>13. CASE UNCHANGED vars
  BY <1>13 DEF vars, TypeOK, SingleOwner, DueIsAhead, WakeupCoversVisited,
               SleepAfterLastSlot, Current
<1> QED
  BY <1>1, <1>2, <1>3, <1>4, <1>5, <1>6, <1>7, <1>8, <1>9, <1>10, <1>11, <1>12,
     <1>13 DEF Next, Loop, GiveUpCpu

(* The inductive invariant holds in every reachable state. *)
LEMMA Invariance == Spec => []IInv
<1> QED BY InitInvariant, NextInvariant, PTL DEF Spec

(* The variables of the scheduler keep their types. *)
THEOREM TypeCorrectness == Spec => []TypeOK
<1>1. IInv => TypeOK  BY DEF IInv
<1> QED BY <1>1, Invariance, PTL

(* A coroutine frame has one owner, so remove_task and the end of a task   *)
(* destroy it once (task.h, the destructor and the move assignment).       *)
THEOREM FramesHaveOneOwner == Spec => []SingleOwner
<1>1. IInv => SingleOwner  BY DEF IInv
<1> QED BY <1>1, Invariance, PTL

(* start() never sleeps past a queued task's wait_until_, except a task    *)
(* another task added to a slot the pass had already visited.              *)
THEOREM SleepIsShortEnough == Spec => []NoOversleep
<1>1. IInv => NoOversleep
  BY DEF IInv, TypeOK, NoOversleep, WakeupCoversVisited, SleepAfterLastSlot, Queued, Slots
<1> QED BY <1>1, Invariance, PTL

(* run_tasks_once resumes every task that was runnable when it was called. *)
THEOREM PassIsFair == Spec => []NoDueTaskSkipped
<1>1. IInv => NoDueTaskSkipped
  BY DEF IInv, NoDueTaskSkipped, DueIsAhead
<1> QED BY <1>1, Invariance, PTL

-----------------------------------------------------------------------------
(* The refinement: every step of the scheduler is a step of                *)
(* CooperativeTasks, or none at all.                                       *)

(* A step that neither moves a handle nor starts or ends a run leaves      *)
(* every task in the mode it was in.                                       *)
LEMMA ModeUnchanged ==
  ASSUME UNCHANGED queue, pc # "run", pc' # "run"
  PROVE  UNCHANGED mode
BY DEF mode, Queued

LEMMA StepSimulation ==
  ASSUME IInv, [Next]_vars
  PROVE  [Tasking!Next]_(Tasking!vars)
<1> USE DEF IInv, Tasking!vars
<1>1. ASSUME NEW t \in Tasks, AddTask(t) PROVE Tasking!Step /\ UNCHANGED stage /\ stage # "halted"
  <2>1. mode[t] = "absent"
    BY <1>1 DEF AddTask, mode
  <2>2. \A u \in Tasks : u # t => (u \in Queued' <=> u \in Queued)
    BY <1>1 DEF AddTask, Queued, TypeOK
  <2>0. UNCHANGED stage /\ stage # "halted"
    BY <1>1 DEF AddTask, stage
  <2>3. t \in Queued' /\ pc' = pc /\ cursor' = cursor /\ delay' = [delay EXCEPT ![t] = 0]
    BY <1>1 DEF AddTask, Queued, TypeOK
  <2>4. pc = "run" => Current' = Current /\ Current # t
    BY <1>1 DEF AddTask, Queued, TypeOK, SingleOwner, Current, Slots
  <2>5. mode' = [mode EXCEPT ![t] = "waiting"]
    BY <2>2, <2>3, <2>4 DEF mode
  <2> QED BY <1>1, <2>0, <2>1, <2>3, <2>5 DEF Tasking!Step, Tasking!Admit, AddTask
<1>2. ASSUME AddTaskFails PROVE Tasking!Halt
  <2>1. queue' = queue /\ Queued' = Queued /\ pc' = "error" /\ delay' = delay
    BY <1>2 DEF AddTaskFails, Queued
  <2>2. mode' = [t \in Tasks |-> IF mode[t] = "running" THEN "waiting" ELSE mode[t]]
    BY <2>1 DEF mode
  <2> QED BY <2>1, <2>2 DEF Tasking!Halt, stage
<1>3. ASSUME NEW s \in Slots, RemoveTask(s) PROVE [Tasking!Next]_(Tasking!vars)
  <2>1. /\ pc = "setup" \/ (pc = "run" /\ Current' = Current /\ Current \in Tasks)
        /\ pc' = pc /\ cursor' = cursor /\ delay' = delay /\ UNCHANGED stage /\ stage # "halted"
        /\ queue' = [queue EXCEPT ![s] = NoTask]
    BY <1>3 DEF RemoveTask, TypeOK, Current, SingleOwner, Slots, stage
  <2>2. CASE queue[s] = NoTask
    <3>1. queue' = queue  BY <2>1, <2>2 DEF TypeOK
    <3>2. mode' = mode  BY <2>1, <3>1 DEF mode, Queued
    <3> QED BY <2>1, <3>2
  <2>3. CASE queue[s] # NoTask
    <3> DEFINE u == queue[s]
    <3>1. u \in Tasks /\ (pc = "run" => u # Current) /\ u \in Queued
      BY <1>3, <2>1, <2>3 DEF RemoveTask, TypeOK, SingleOwner, Current, Slots, Queued
    <3>2. \A r \in Slots : r # s => queue[r] # u
      BY <2>3 DEF SingleOwner
    <3>3. Queued' = Queued \ {u}
      BY <2>1, <3>1, <3>2 DEF Queued, TypeOK
    <3>4. mode' = [mode EXCEPT ![u] = "absent"]
      BY <2>1, <3>1, <3>3 DEF mode
    <3>5. mode[u] = "waiting"
      BY <3>1 DEF mode
    <3>6. stage = "setup" \/ ~Tasking!NobodyRuns
      <4>1. CASE pc = "setup"  BY <4>1 DEF stage
      <4>2. CASE pc = "run"
        <5>1. Current \in Tasks /\ Current \in Queued
          BY <2>1, <4>2 DEF Queued, Current, TypeOK, Slots
        <5>2. mode[Current] = "running"
          BY <4>2, <5>1 DEF mode
        <5> QED BY <5>1, <5>2 DEF Tasking!NobodyRuns
      <4> QED BY <2>1, <4>1, <4>2
    <3> QED
      BY <2>1, <3>1, <3>4, <3>5, <3>6 DEF Tasking!Next, Tasking!Step, Tasking!Cancel
  <2> QED BY <2>2, <2>3
<1>10. ASSUME Start PROVE Tasking!Launch
  <2>1. pc = "setup" /\ pc' = "check" /\ UNCHANGED <<queue, delay>>
    BY <1>10 DEF Start
  <2>2. UNCHANGED mode
    BY <2>1, ModeUnchanged
  <2> QED BY <2>1, <2>2 DEF Tasking!Launch, stage
<1>4. ASSUME Stop \/ BeginPass \/ SkipInvalid \/ SkipWaiting \/ EndPass \/ Wake
      PROVE  UNCHANGED Tasking!vars
  <2>1. /\ UNCHANGED <<queue, delay>>
        /\ pc = "run" => UNCHANGED <<pc, cursor>>
        /\ pc # "run" => pc' # "run"
        /\ UNCHANGED stage
    BY <1>4 DEF Stop, BeginPass, SkipInvalid, SkipWaiting, EndPass, Wake, stage
  <2>2. CASE pc = "run"
    BY <2>1, <2>2 DEF mode, Queued, Current
  <2>3. CASE pc # "run"
    BY <2>1, <2>3, ModeUnchanged
  <2> QED BY <2>2, <2>3
<1>5. ASSUME ReturnFromStart PROVE Tasking!Halt
  <2>1. pc = "check" /\ pc' = "stopped" /\ UNCHANGED <<queue, delay>>
    BY <1>5 DEF ReturnFromStart
  <2>2. UNCHANGED mode
    BY <2>1, ModeUnchanged
  <2>3. mode = [t \in Tasks |-> IF mode[t] = "running" THEN "waiting" ELSE mode[t]]
    BY <2>1 DEF mode
  <2> QED BY <2>1, <2>2, <2>3 DEF Tasking!Halt, stage
<1>6. ASSUME Resume PROVE Tasking!Step /\ UNCHANGED stage /\ stage # "halted"
  <2>1. /\ pc = "visit" /\ pc' = "run" /\ UNCHANGED <<queue, delay, cursor>>
        /\ Current \in Tasks /\ delay[Current] = 0 /\ Current \in Queued
    BY <1>6 DEF Resume, TypeOK, Current, Queued, Slots
  <2>2. Tasking!NobodyRuns /\ mode[Current] = "waiting"
    BY <2>1 DEF mode, Tasking!NobodyRuns
  <2>3. mode' = [mode EXCEPT ![Current] = "running"]
    BY <2>1 DEF mode, Queued, Current
  <2> QED BY <2>1, <2>2, <2>3 DEF Tasking!Step, Tasking!Dispatch, stage
<1>7. ASSUME GiveUpCpu PROVE Tasking!Step /\ UNCHANGED stage /\ stage # "halted"
  <2>1. pc = "run" /\ pc' = "visit" /\ Current \in Tasks /\ Current \in Queued
    BY <1>7 DEF GiveUpCpu, Yield, Return, TypeOK, SingleOwner, Current, Queued, Slots
  <2>2. mode[Current] = "running"
    BY <2>1 DEF mode
  <2>3. ASSUME NEW d \in 0..MaxDelay, Yield(d) PROVE Tasking!Suspend(Current)
    <3>1. queue' = queue /\ delay' = [delay EXCEPT ![Current] = d]
      BY <2>3 DEF Yield
    <3>2. mode' = [mode EXCEPT ![Current] = "waiting"]
      BY <2>1, <3>1 DEF mode, Queued
    <3> QED BY <2>2, <3>1, <3>2 DEF Tasking!Suspend
  <2>4. ASSUME Return PROVE Tasking!Finish(Current)
    <3>1. queue' = [queue EXCEPT ![cursor] = NoTask] /\ delay' = delay /\ cursor \in Slots
      BY <2>4 DEF Return, TypeOK, Slots
    <3>2. Queued' = Queued \ {Current}
      BY <2>1, <3>1 DEF Queued, TypeOK, SingleOwner, Current
    <3>3. mode' = [mode EXCEPT ![Current] = "absent"]
      BY <2>1, <3>2 DEF mode
    <3> QED BY <2>2, <3>1, <3>3 DEF Tasking!Finish
  <2> QED BY <1>7, <2>1, <2>3, <2>4 DEF GiveUpCpu, Tasking!Step, stage
<1>8. ASSUME Tick PROVE Tasking!TimePasses /\ UNCHANGED stage
  <2>1. UNCHANGED <<queue, pc, cursor>> /\ delay' = [t \in Tasks |-> Earlier(delay[t])]
    BY <1>8 DEF Tick
  <2>2. UNCHANGED mode
    BY <2>1 DEF mode, Queued, Current
  <2> QED BY <2>1, <2>2 DEF Tasking!TimePasses, Earlier, stage
<1>9. ASSUME UNCHANGED vars PROVE UNCHANGED Tasking!vars
  BY <1>9 DEF vars, mode, stage, Queued, Current
<1> QED
  BY <1>1, <1>2, <1>3, <1>4, <1>5, <1>6, <1>7, <1>8, <1>9, <1>10
     DEF Next, Loop, Tasking!Next

(* The scheduler implements cooperative multitasking. *)
THEOREM Refinement == Spec => ImplementsTasking
<1>1. Init => Tasking!Init
  BY DEF Init, Tasking!Init, mode, stage, Queued
<1>2. IInv /\ [Next]_vars => [Tasking!Next]_(Tasking!vars)
  BY StepSimulation
<1> QED BY <1>1, <1>2, Invariance, PTL DEF Spec, ImplementsTasking, Tasking!Spec

=============================================================================
