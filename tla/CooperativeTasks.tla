-------------------------- MODULE CooperativeTasks --------------------------
(***************************************************************************)
(* What the scheduler promises the tasks of a program, with no slots, no   *)
(* passes and no wakeup times: at most one task has the CPU, it got it no  *)
(* earlier than it asked for, and it keeps it until it gives it up.        *)
(***************************************************************************)
EXTENDS Naturals

CONSTANTS Tasks, MaxDelay

VARIABLES
  mode,    \* "absent", "waiting" or "running"
  delay,   \* time left before the task may run
  stage    \* "setup", "running" or "halted": returned, or failed

vars == <<mode, delay, stage>>

NobodyRuns == \A t \in Tasks : mode[t] # "running"

Init ==
  /\ mode = [t \in Tasks |-> "absent"]
  /\ delay = [t \in Tasks |-> 0]
  /\ stage = "setup"

Admit(t) ==
  /\ mode[t] = "absent"
  /\ mode' = [mode EXCEPT ![t] = "waiting"]
  /\ delay' = [delay EXCEPT ![t] = 0]

Dispatch(t) ==
  /\ stage = "running"
  /\ NobodyRuns
  /\ mode[t] = "waiting"
  /\ delay[t] = 0
  /\ mode' = [mode EXCEPT ![t] = "running"]
  /\ UNCHANGED delay

Suspend(t) ==
  /\ mode[t] = "running"
  /\ mode' = [mode EXCEPT ![t] = "waiting"]
  /\ \E d \in 0..MaxDelay : delay' = [delay EXCEPT ![t] = d]

Finish(t) ==
  /\ mode[t] = "running"
  /\ mode' = [mode EXCEPT ![t] = "absent"]
  /\ UNCHANGED delay

(* Once started only a running task removes another one. *)
Cancel(t) ==
  /\ stage = "setup" \/ ~NobodyRuns
  /\ mode[t] = "waiting"
  /\ mode' = [mode EXCEPT ![t] = "absent"]
  /\ UNCHANGED delay

TimePasses ==
  /\ delay' = [t \in Tasks |-> IF delay[t] = 0 THEN 0 ELSE delay[t] - 1]
  /\ UNCHANGED mode

(* The scheduler returns, or fails under the task that was running, which *)
(* never gets the CPU back.                                              *)
Halt ==
  /\ stage' = "halted"
  /\ mode' = [t \in Tasks |-> IF mode[t] = "running" THEN "waiting" ELSE mode[t]]
  /\ UNCHANGED delay

Step ==
  \/ TimePasses
  \/ \E t \in Tasks :
       Admit(t) \/ Dispatch(t) \/ Suspend(t) \/ Finish(t) \/ Cancel(t)

Launch ==
  /\ stage = "setup"
  /\ stage' = "running"
  /\ UNCHANGED <<mode, delay>>

(* Once halted nothing happens to a task any more. *)
Next ==
  \/ stage # "halted" /\ Step /\ UNCHANGED stage
  \/ TimePasses /\ UNCHANGED stage
  \/ Launch
  \/ Halt

Spec == Init /\ [][Next]_vars

=============================================================================
