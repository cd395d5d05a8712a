----------------------------- MODULE ClockTree -----------------------------
(***************************************************************************)
(* hal/rcc/stm32l4xx_rcc.cc: the three speeds of the system clock and the  *)
(* return to one of them after a sleep.  Every step that the code has the  *)
(* vendor's HAL make is a state of its own, because the CPU runs and takes *)
(* interrupts between them.                                                *)
(***************************************************************************)
EXTENDS Naturals, Sequences

CONSTANTS
  Sleeps           \* how a long sleep goes: {"sleep"}, or "stop" as well

VARIABLES
  source,          \* of the system clock: "MSI", "HSI" or "PLL"
  on,              \* the oscillators that run
  fast,            \* the MSI runs at 4 MHz, not at 100 kHz
  full,            \* the regulator gives 1.2 V, not 1.0 V
  latency,         \* wait states of the flash
  wakeup,          \* what the CPU runs from when it leaves stop mode
  clock_configuration,
  asked,           \* ghost: the speed the program asked for last
  todo             \* what the call under way still has to do

vars == <<source, on, fast, full, latency, wakeup, clock_configuration, asked, todo>>

MSI(on4MHz) == IF on4MHz THEN 4000 ELSE 100

(* kHz *)
Speed == CASE source = "PLL" -> 80000 [] source = "HSI" -> 16000 [] OTHER -> MSI(fast)

-----------------------------------------------------------------------------
(* set_clock_to_max_speed *)
Maximum ==
  << <<"on", "HSI">>, <<"volts", TRUE>>, <<"pll">>, <<"run", "PLL", 4>>,
     <<"wakeup", "HSI">>, <<"off", "MSI">>, <<"note", "MAX">> >>

(* Fault: the voltage is turned down first. *)
EfficientUndervolted ==
  << <<"on", "HSI">>, <<"volts", FALSE>>, <<"run", "HSI", 0>>,
     <<"wakeup", "HSI">>, <<"off", "MSI">>, <<"note", "EFFICIENT">> >>

(* set_clock_to_energy_efficient_speed *)
Efficient ==
  << <<"on", "HSI">>, <<"run", "HSI", 0>>, <<"volts", FALSE>>,
     <<"wakeup", "HSI">>, <<"off", "MSI">>, <<"note", "EFFICIENT">> >>

(* set_clock_to_min_speed *)
Minimum ==
  << <<"on", "MSI">>, <<"slow">>, <<"run", "MSI", 0>>, <<"volts", FALSE>>,
     <<"wakeup", "MSI">>, <<"off", "HSI">>, <<"note", "MIN">> >>

Setting(c) == CASE c = "MAX" -> Maximum [] c = "EFFICIENT" -> Efficient [] OTHER -> Minimum

(* Out of reset, the constructor calls set_clock_to_energy_efficient_speed. *)
Init ==
  /\ source = "MSI" /\ on = {"MSI"} /\ fast = TRUE /\ full = TRUE /\ latency = 0
  /\ wakeup = "MSI" /\ clock_configuration = "UNCONFIGURED"
  /\ asked = "EFFICIENT" /\ todo = Efficient

-----------------------------------------------------------------------------
Do(op) == todo # <<>> /\ Head(todo)[1] = op
Argument == Head(todo)[2]
Done == todo' = Tail(todo)

TurnOn ==
  /\ Do("on") /\ on' = on \union {Argument} /\ Done
  /\ UNCHANGED <<source, fast, full, latency, wakeup, clock_configuration, asked>>

(* What runs the CPU, by itself or through the PLL, cannot be turned off. *)
TurnOff ==
  /\ Do("off") /\ Done
  /\ on' = IF source = Argument \/ (source = "PLL" /\ Argument = "HSI") THEN on ELSE on \ {Argument}
  /\ UNCHANGED <<source, fast, full, latency, wakeup, clock_configuration, asked>>

SlowMsi ==
  /\ Do("slow") /\ fast' = FALSE /\ Done
  /\ UNCHANGED <<source, on, full, latency, wakeup, clock_configuration, asked>>

ScaleVoltage ==
  /\ Do("volts") /\ full' = Argument /\ Done
  /\ UNCHANGED <<source, on, fast, latency, wakeup, clock_configuration, asked>>

(* HAL_RCC_OscConfig fails if the PLL runs the CPU, and may fail to lock it: *)
(* nobody looks at its result.                                               *)
ConfigurePll ==
  /\ Do("pll") /\ Done
  /\ \/ source # "PLL" /\ on' = on \union {"PLL"}
     \/ source # "PLL" /\ on' = on \ {"PLL"}
     \/ source = "PLL" /\ UNCHANGED on
  /\ UNCHANGED <<source, fast, full, latency, wakeup, clock_configuration, asked>>

(* HAL_RCC_ClockConfig: more wait states before the source is changed, *)
(* fewer only after that, and no change to a source that is off.       *)
RaiseLatency ==
  /\ Do("run") /\ latency < Head(todo)[3] /\ latency' = Head(todo)[3]
  /\ UNCHANGED <<source, on, fast, full, wakeup, clock_configuration, asked, todo>>

ChangeSource ==
  /\ Do("run") /\ latency >= Head(todo)[3] /\ source # Argument
  /\ IF Argument \in on THEN source' = Argument /\ UNCHANGED todo ELSE Done /\ UNCHANGED source
  /\ UNCHANGED <<on, fast, full, latency, wakeup, clock_configuration, asked>>

LowerLatency ==
  /\ Do("run") /\ source = Argument /\ latency >= Head(todo)[3]
  /\ latency' = Head(todo)[3] /\ Done
  /\ UNCHANGED <<source, on, fast, full, wakeup, clock_configuration, asked>>

Note ==
  /\ \/ Do("wakeup") /\ wakeup' = Argument /\ UNCHANGED clock_configuration
     \/ Do("note") /\ clock_configuration' = Argument /\ UNCHANGED wakeup
  /\ Done
  /\ UNCHANGED <<source, on, fast, full, latency, asked>>

-----------------------------------------------------------------------------
(* The program asks for a speed. *)
Ask(c) ==
  /\ todo = <<>> /\ asked' = c /\ todo' = Setting(c)
  /\ UNCHANGED <<source, on, fast, full, latency, wakeup, clock_configuration>>

(* A long sleep of the clock, which ends in restore_clock_speed().  Stop   *)
(* mode stops every oscillator, and the CPU leaves it on the wakeup one.   *)
Sleep(mode) ==
  /\ todo = <<>>
  /\ todo' = IF clock_configuration = "UNCONFIGURED" THEN <<>> ELSE Setting(clock_configuration)
  /\ IF mode = "stop" THEN source' = wakeup /\ on' = {wakeup} ELSE UNCHANGED <<source, on>>
  /\ UNCHANGED <<fast, full, latency, wakeup, clock_configuration, asked>>

Next ==
  \/ TurnOn \/ TurnOff \/ SlowMsi \/ ScaleVoltage \/ ConfigurePll
  \/ RaiseLatency \/ ChangeSource \/ LowerLatency \/ Note
  \/ \E c \in {"MAX", "EFFICIENT", "MIN"} : Ask(c)
  \/ \E mode \in Sleeps : Sleep(mode)

Spec == Init /\ [][Next]_vars

-----------------------------------------------------------------------------
(* At every step the CPU runs from an oscillator that is on, at a speed    *)
(* that the regulator and the flash keep up with, by the limits that       *)
(* stm32l4xx_rcc.cc states at lines 9, 57 and 178: 26 MHz at 1.0 V, four   *)
(* wait states for 80 MHz and none for 16 MHz.                             *)
SpeedIsSupported ==
  /\ source \in on /\ (source = "PLL" => "HSI" \in on)
  /\ Speed > 26000 => full
  /\ Speed > 16000 => latency >= 4

(* However the CPU slept, the program goes on at the speed it asked for    *)
(* last, unless the PLL did not start: restore_clock_speed, rcc.h:19.      *)
SleepKeepsTheSpeed ==
  todo = <<>> =>
    CASE asked = "MAX" -> source = "PLL" \/ "PLL" \notin on
      [] asked = "EFFICIENT" -> source = "HSI"
      [] asked = "MIN" -> source = "MSI" /\ ~fast

(* The speed is one the hardware supports while it is changed, and the one *)
(* that was asked for when it is not.                                      *)
ClockIsSound == SpeedIsSupported /\ SleepKeepsTheSpeed

=============================================================================
