------------------------------ MODULE Watchdog ------------------------------
(***************************************************************************)
(* The independent watchdog and the random number generator, with the      *)
(* oscillators that they and the sleep timer switch, under the programs    *)
(* that use them: bringup/watchdog_demo.cc, monitor_power.cc and           *)
(* random_blink.cc.  Time is in tenths of a second.                        *)
(***************************************************************************)
EXTENDS Integers, Sequences, FiniteSetsExt

CONSTANTS
  MaxWork,     \* bound on the time the tasks of one pass take
  MaxOversleep \* bound on how late a sleep ends

VARIABLES
  program,     \* what the board runs
  phase,       \* where main() is
  slot,        \* of the pass of the scheduler that is under way
  due,         \* of each slot: when it is runnable, from now; Done if empty
  begun,       \* the slots whose tasks have run up to their first co_yield
  left,        \* of the sleep, and the interval that was asked for
  interval,
  work,        \* time spent in this pass
  stop_requested,
  lsi_users, lsi,        \* ref_count_ by user, and LSION
  hsi48, rng,            \* HSI48ON; the clock of the RNG
  seeding,     \* engine() is building its instance: the next step
  seed,        \* of the instance: what generate() returned
  count        \* of the watchdog, until it resets the board; Off

tasks == <<slot, due, begun, work, stop_requested>>
asleep == <<left, interval>>
random == <<hsi48, rng, seeding, seed>>
vars == <<program, phase, tasks, asleep, lsi_users, lsi, random, count>>

Off == 1000
Done == 1000

Tasks(p) ==
  CASE p = "watchdog_demo" -> <<"watchdog", "blink", "quit">>
    [] p = "monitor_power" -> <<"monitor", "monitor", "blink", "watchdog">>
    [] p = "random_blink" -> <<"blink_randomly">>
Programs == {"watchdog_demo", "monitor_power", "random_blink"}

CYCLE_TIME == 50
LongestSleep == 50       \* of run_tasks_once
ResetInterval == 20

(* Fault: fed when it is already too late. *)
FeedIntervalWhole == ResetInterval

FeedInterval == ResetInterval \div 4

Init ==
  /\ program \in Programs
  /\ phase = "main" /\ slot = 0 /\ due = [i \in DOMAIN Tasks(program) |-> 0]
  /\ begun = {} /\ work = 0 /\ stop_requested = FALSE /\ left = 0 /\ interval = 0
  /\ lsi_users = {} /\ lsi = FALSE /\ hsi48 = FALSE /\ rng = FALSE
  /\ seeding = "no" /\ seed = "none" /\ count = Off

(* LsiOscillator::access by a user's enable() *)
UseLsi(user) == lsi_users' = lsi_users \union {user} /\ lsi' = TRUE

-----------------------------------------------------------------------------
(* EmbeddedClock::clock() takes the sleep timer when it is first called,   *)
(* for good.  watchdog_demo sleeps before anything else.                   *)
Start ==
  /\ phase = "main"
  /\ UseLsi("timer")
  /\ IF program = "watchdog_demo" THEN phase' = "asleep" /\ interval' = CYCLE_TIME
     ELSE phase' = "pass" /\ interval' = 0
  /\ left' = interval' /\ slot' = 1
  /\ UNCHANGED <<program, due, begun, work, stop_requested, random, count>>

Running(task) ==
  phase = "pass" /\ slot <= Len(due) /\ due[slot] = 0 /\ Tasks(program)[slot] = task
Yield(time) ==
  /\ due' = [due EXCEPT ![slot] = time] /\ begun' = begun \union {slot}
  /\ slot' = slot + 1
  /\ UNCHANGED <<program, phase, work, asleep>>

(* run_watchdog: enable() and then the first co_yield; later, feed().  Its *)
(* handle stays in the task, whose slot is never freed: disable() is not   *)
(* called, and main() returns with the watchdog on.                        *)
RunWatchdog ==
  /\ Running("watchdog")
  /\ IF slot \in begun THEN UNCHANGED <<lsi_users, lsi>> ELSE UseLsi("watchdog")
  /\ count' = ResetInterval
  /\ Yield(FeedInterval)
  /\ UNCHANGED <<stop_requested, random>>

(* blink toggles every 500ms; monitor_power measures every second, in two  *)
(* steps that are close to each other.                                     *)
RunPeriodic ==
  /\ \/ Running("blink") /\ Yield(5)
     \/ Running("monitor") /\ Yield(10)
  /\ UNCHANGED <<stop_requested, lsi_users, lsi, random, count>>

(* quit yields, and then stops the scheduler and returns. *)
RunQuit ==
  /\ Running("quit")
  /\ stop_requested' = (slot \in begun)
  /\ Yield(IF slot \in begun THEN Done ELSE CYCLE_TIME)
  /\ UNCHANGED <<lsi_users, lsi, random, count>>

(* The first random number builds the engine, which is seeded with what    *)
(* the RNG generates: result is not initialized, and HAL_RNG_Generate-     *)
(* RandomNumber may fail.  The oscillator is on before the RNG's clock,    *)
(* and off after it.                                                       *)
TakeRng ==
  /\ Running("blink_randomly") /\ seed = "none" /\ seeding = "no"
  /\ hsi48' = TRUE /\ rng' = TRUE /\ seeding' = "generate" /\ UNCHANGED seed
  /\ UNCHANGED <<program, phase, tasks, asleep, lsi_users, lsi, count>>

GenerateSeed ==
  /\ seeding = "generate"
  /\ seeding' = "drop" /\ seed' \in {"entropy", "indeterminate"} /\ UNCHANGED <<hsi48, rng>>
  /\ UNCHANGED <<program, phase, tasks, asleep, lsi_users, lsi, count>>

DropRng ==
  /\ seeding = "drop"
  /\ rng' = FALSE /\ hsi48' = FALSE /\ seeding' = "no" /\ UNCHANGED seed
  /\ UNCHANGED <<program, phase, tasks, asleep, lsi_users, lsi, count>>

BlinkRandomly ==
  /\ Running("blink_randomly") /\ seed # "none" /\ seeding = "no"
  /\ \E delay \in {0, 1, 10} : Yield(delay)    \* 5 to 1000ms
  /\ UNCHANGED <<stop_requested, lsi_users, lsi, random, count>>

Skip ==
  /\ phase = "pass" /\ slot <= Len(due) /\ due[slot] > 0
  /\ slot' = slot + 1
  /\ UNCHANGED <<program, phase, due, begun, work, stop_requested, asleep, lsi_users, lsi, random,
                 count>>

(* The sleep until the next task is runnable, which is none if one is      *)
(* already; then the loop looks whether a stop was requested.              *)
EndPass ==
  /\ phase = "pass" /\ slot > Len(due)
  /\ slot' = 1 /\ work' = 0
  /\ interval' = Min({LongestSleep} \union {due[i] : i \in DOMAIN due}) /\ left' = interval'
  /\ phase' = IF interval' > 0 THEN "asleep" ELSE IF stop_requested THEN "stopped" ELSE "pass"
  /\ UNCHANGED <<program, due, begun, stop_requested, lsi_users, lsi, random, count>>

Sooner(times, n) ==
  [i \in DOMAIN times |-> IF times[i] = Done THEN Done ELSE IF times[i] < n THEN 0 ELSE times[i] - n]

(* sleep_us adds what was asked for to a clock that has gone on.           *)
Wake ==
  /\ phase = "asleep" /\ left <= 0
  /\ due' = Sooner(due, interval)
  /\ phase' = IF stop_requested THEN "stopped" ELSE "pass"
  /\ interval' = 0 /\ left' = 0
  /\ UNCHANGED <<program, slot, begun, work, stop_requested, lsi_users, lsi, random, count>>

-----------------------------------------------------------------------------
Tick ==
  /\ count # 0
  /\ CASE phase = "pass" -> work < MaxWork /\ work' = work + 1 /\ UNCHANGED left
       [] phase = "asleep" -> left > -MaxOversleep /\ left' = left - 1 /\ UNCHANGED work
       [] phase = "stopped" -> UNCHANGED <<work, left>>
       [] OTHER -> FALSE
  /\ due' = Sooner(due, 1)
  /\ count' = IF count = Off THEN Off ELSE count - 1
  /\ UNCHANGED <<program, phase, slot, begun, stop_requested, interval, lsi_users, lsi, random>>

Bite ==
  /\ count = 0
  /\ program' = program /\ phase' = "main" /\ slot' = 0
  /\ due' = [i \in DOMAIN Tasks(program) |-> 0]
  /\ begun' = {} /\ work' = 0 /\ stop_requested' = FALSE /\ left' = 0 /\ interval' = 0
  /\ lsi_users' = {} /\ lsi' = FALSE /\ hsi48' = FALSE /\ rng' = FALSE
  /\ seeding' = "no" /\ seed' = "none" /\ count' = Off

Next ==
  \/ Start \/ RunWatchdog \/ RunPeriodic \/ RunQuit \/ TakeRng \/ GenerateSeed \/ DropRng
  \/ BlinkRandomly \/ Skip \/ EndPass \/ Wake \/ Tick \/ Bite

Spec == Init /\ [][Next]_vars

-----------------------------------------------------------------------------
(* As long as the scheduler runs, the watchdog does not reset the board,   *)
(* however long the tasks of a pass take within the bounds, and although   *)
(* the clock that the tasks wait by gains on the real time; the            *)
(* oscillators run when somebody counts on them, and at no other time.     *)
WatchdogIsSound ==
  /\ count = 0 => phase = "stopped"
  /\ (phase = "asleep" => "timer" \in lsi_users) /\ (count # Off => "watchdog" \in lsi_users)
  /\ lsi = (lsi_users # {})
  /\ hsi48 = rng /\ (seeding = "generate" => hsi48) /\ (seeding = "no" => ~hsi48)

=============================================================================
