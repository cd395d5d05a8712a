---------------------------- MODULE Simulation ----------------------------
(***************************************************************************)
(* hal/simulation/reactor.h, which makes the interrupts of a simulated     *)
(* board, on the mock clock of time/scaled_clock.h: one thread plays the   *)
(* core and moves the clock, the generation thread makes the interrupts.   *)
(* m_ is held while generation is "generating"; each other step that takes *)
(* it is one action.                                                       *)
(***************************************************************************)
EXTENDS Naturals

CONSTANTS
  Generators,
  Interval,        \* next_interrupt_in of each, a function
  Steps,           \* what the core thread moves the clock by
  End              \* bound: the last time

VARIABLES
  time,            \* scaled_time_offset_
  next,            \* next_event_time of each generator in timings_, or 0
  added,           \* ghost: when each was added
  calls,           \* ghost: how often handle_interrupt ran
  requested,       \* the time that update_clockables is to reach
  capped,          \* override_time of this round of its loop, or 0
  core,            \* "running", "advancing", "joining" or "done"
  generation,      \* "new", "waiting", "generating" or "stopped"
  served,          \* the timings that generate_irqs_once is past
  stop_requested

vars == <<time, next, added, calls, requested, capped, core, generation, served, stop_requested>>

Known == {g \in Generators : next[g] # 0}
Locked == generation = "generating"

Init ==
  /\ time = 1 /\ requested = 1 /\ capped = 0
  /\ next = [g \in Generators |-> 0] /\ added = next /\ calls = next
  /\ core = "running" /\ generation = "new" /\ served = {} /\ stop_requested = FALSE

-----------------------------------------------------------------------------
(* The generation thread does not enter its loop if it was stopped before. *)
Start ==
  /\ generation = "new"
  /\ generation' = IF stop_requested THEN "stopped" ELSE "waiting"
  /\ UNCHANGED <<time, next, added, calls, requested, capped, core, served, stop_requested>>

(* Notified, or 10 ms later, the thread has the lock again and goes through *)
(* the timings once.                                                        *)
EndOfWait ==
  /\ generation = "waiting"
  /\ generation' = "generating" /\ served' = {}
  /\ UNCHANGED <<time, next, added, calls, requested, capped, core, stop_requested>>

IsFirst(g) == \A h \in Known \ served : next[g] <= next[h]

(* Fault: an interrupt is due after its time, as update_time has it. *)
IsPast(g) == g \in Known \ served /\ IsFirst(g) /\ next[g] < time

IsDue(g) == g \in Known \ served /\ IsFirst(g) /\ next[g] <= time

NextEvent(g) == time + Interval[g]

GenerateInterrupt(g) ==
  /\ Locked /\ IsDue(g)
  /\ calls' = [calls EXCEPT ![g] = @ + 1]
  /\ next' = [next EXCEPT ![g] = NextEvent(g)]
  /\ served' = served \union {g}
  /\ UNCHANGED <<time, added, requested, capped, core, generation, stop_requested>>

(* None is due: the timings are sorted, and the loop tests stop_requested_. *)
EndOfRound ==
  /\ Locked /\ ~\E g \in Generators : IsDue(g)
  /\ generation' = IF stop_requested THEN "stopped" ELSE "waiting"
  /\ UNCHANGED <<time, next, added, calls, requested, capped, core, served, stop_requested>>

-----------------------------------------------------------------------------
AddGenerator(g) ==
  /\ core = "running" /\ ~Locked /\ g \notin Known
  /\ next' = [next EXCEPT ![g] = NextEvent(g)] /\ added' = [added EXCEPT ![g] = time]
  /\ UNCHANGED <<time, calls, requested, capped, core, generation, served, stop_requested>>

IncrementCurrentTime(d) ==
  /\ core = "running" /\ time + d <= End
  /\ core' = "advancing" /\ requested' = time + d
  /\ UNCHANGED <<time, next, added, calls, capped, generation, served, stop_requested>>

(* Fault: the clock is not held back. *)
CapAtRequest ==
  /\ core = "advancing" /\ capped = 0 /\ ~Locked
  /\ capped' = requested
  /\ UNCHANGED <<time, next, added, calls, requested, core, generation, served, stop_requested>>

(* update_time: no further than the first event before it *)
Cap ==
  /\ core = "advancing" /\ capped = 0 /\ ~Locked
  /\ \E t \in {requested} \union {next[g] : g \in Known} :
       t <= requested /\ (\A g \in Known : t <= next[g]) /\ capped' = t
  /\ UNCHANGED <<time, next, added, calls, requested, core, generation, served, stop_requested>>

(* The clock is set without the lock; run() notifies the thread. *)
SetTime ==
  /\ core = "advancing" /\ capped # 0
  /\ time' = capped /\ capped' = 0
  /\ core' = IF capped = requested THEN "running" ELSE core
  /\ UNCHANGED <<next, added, calls, requested, generation, served, stop_requested>>

(* ~Reactor *)
Stop ==
  /\ core = "running" /\ ~Locked
  /\ stop_requested' = TRUE /\ core' = "joining"
  /\ UNCHANGED <<time, next, added, calls, requested, capped, generation, served>>

Join ==
  /\ core = "joining" /\ generation = "stopped" /\ core' = "done"
  /\ UNCHANGED <<time, next, added, calls, requested, capped, generation, served, stop_requested>>

Generation == Start \/ EndOfWait \/ EndOfRound \/ \E g \in Generators : GenerateInterrupt(g)

Next ==
  \/ Generation
  \/ \E g \in Generators : AddGenerator(g)
  \/ \E d \in Steps : IncrementCurrentTime(d)
  \/ Cap \/ SetTime \/ Stop \/ Join

(* Threads run; the core gets a mutex that the other one gives up in every *)
(* round.                                                                  *)
Fairness ==
  WF_vars(Generation) /\ SF_vars(Cap) /\ WF_vars(SetTime) /\ WF_vars(Join)

Spec == Init /\ [][Next]_vars /\ Fairness

-----------------------------------------------------------------------------
(* No interrupt is left out or late: each generator was called once for    *)
(* every interval since it was added, but for one that is due right now.   *)
(* CanRunGeneratorOnInterval (reactor_test.cc:43) has one such sequence.   *)
InterruptsAreExact ==
  \A g \in Known : next[g] >= time /\ next[g] = added[g] + (calls[g] + 1) * Interval[g]

(* Moving the clock ends, although it waits for the other thread to make   *)
(* the interrupts on the way, and so does ~Reactor.                        *)
Calling == core \in {"advancing", "joining"}
CallsEnd == Calling ~> ~Calling

=============================================================================
