---------------------------- MODULE StreamingAdc ----------------------------
(***************************************************************************)
(* bringup/streaming_adc.cc: a timer triggers conversions, which DMA puts  *)
(* into a circular buffer, while the task puts one value after another out *)
(* on the pin that is measured.  A sample is whether there is one since    *)
(* the value was put out.  Time is in sixteenths of a second; a co_yield   *)
(* may end early, because the clock it waits by gains, or late.            *)
(***************************************************************************)
EXTENDS Naturals

CONSTANTS
  ClockRate,    \* how fast the clock of co_yield runs, at most
  MaxOversleep  \* bound on how late a co_yield ends

VARIABLES
  at,          \* "access", "holding" a value, or "pausing" without a stream
  value_at,    \* which value is out
  held,        \* for how long
  trigger,     \* ExternalTrigConv; "none" when the ADC is stopped
  timer,       \* time until it triggers; 0 if it does not run
  position,    \* of the DMA in its buffer
  measured,    \* a sample since the value was put out
  dma_complete, dma_error

vars == <<at, value_at, held, trigger, timer, position, measured, dma_complete, dma_error>>

PERIOD == 8
Values == 10

(* Twice the length of values_read, and every transfer writes a word: the  *)
(* second half lands behind the array.                                     *)
BufferSize == 8

CLOCK_DIVIDER == 4

(* Fault: as if the clock division slowed the counter down. *)
TriggerIntervalWhole(interval) == interval

(* TimerStm32l4xx::start divides the interval by the clock division, which *)
(* filters inputs and leaves the counter as fast as it was.                *)
TriggerInterval(interval) == interval \div CLOCK_DIVIDER

(* trigger_flag; it stops the program for any other timer. *)
TriggerFlag ==
  [TIM1 |-> "T1_TRGO", TIM2 |-> "T2_TRGO", TIM4 |-> "T4_TRGO", TIM6 |-> "T6_TRGO",
   TIM15 |-> "T15_TRGO"]

Init ==
  /\ at = "access" /\ value_at = 0 /\ held = 0
  /\ trigger = "none" /\ timer = 0 /\ position = 0 /\ measured = FALSE
  /\ dma_complete = FALSE /\ dma_error = FALSE

-----------------------------------------------------------------------------
Waited == held >= PERIOD \div ClockRate

Put(n) == value_at' = n /\ held' = 0 /\ measured' = FALSE

(* The timer, which runs for good, begins its interval; the channel of the *)
(* DMA its buffer.  Calibration comes first in one of 1024 iterations, and *)
(* changes nothing here: the ADC is stopped already.                       *)
StartConversionStream(id) == trigger' = TriggerFlag[id] /\ position' = 0

StartStream ==
  /\ at = "access" \/ (at = "pausing" /\ Waited)
  /\ timer' = TriggerInterval(PERIOD)
  /\ StartConversionStream("TIM2")
  /\ dma_complete' = FALSE /\ dma_error' = FALSE
  /\ at' = "holding" /\ Put(1)

NextValue ==
  /\ at = "holding" /\ Waited /\ value_at < Values
  /\ Put(value_at + 1)
  /\ UNCHANGED <<at, trigger, timer, position, dma_complete, dma_error>>

(* reset_after_conversion stops the ADC and the DMA, not the timer. *)
StopStream ==
  /\ at = "holding" /\ Waited /\ value_at = Values
  /\ at' = "pausing" /\ trigger' = "none" /\ Put(0)
  /\ UNCHANGED <<timer, position, dma_complete, dma_error>>

(* A conversion and its transfer; after an error there are no more. *)
Sample ==
  \/ /\ measured' = TRUE /\ position' = (position + 1) % BufferSize
     /\ dma_complete' = (dma_complete \/ position' = 0)
     /\ UNCHANGED dma_error
  \/ dma_error' = TRUE /\ UNCHANGED <<measured, position, dma_complete>>

Tick ==
  /\ at # "access" /\ held < PERIOD + MaxOversleep
  /\ held' = held + 1
  /\ timer' = IF timer = 1 THEN TriggerInterval(PERIOD) ELSE timer - 1
  /\ IF timer = 1 /\ trigger = "T2_TRGO" /\ ~dma_error THEN Sample
     ELSE UNCHANGED <<measured, position, dma_complete, dma_error>>
  /\ UNCHANGED <<at, value_at, trigger>>

Next == StartStream \/ NextValue \/ StopStream \/ Tick

Spec == Init /\ [][Next]_vars

-----------------------------------------------------------------------------
(* No value makes room for the next before it was measured, although       *)
(* timer and task have clocks of their own, and the buffer has been filled *)
(* when the stream is stopped, unless a transfer failed.                   *)
StreamIsSound ==
  /\ at = "holding" /\ Waited => measured \/ dma_error
  /\ at = "pausing" => dma_complete \/ dma_error

=============================================================================
