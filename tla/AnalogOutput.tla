---------------------------- MODULE AnalogOutput ----------------------------
(***************************************************************************)
(* hal/dac and the demonstrations that use it: bringup/dac_demo.h, a task  *)
(* for each channel that steps through values at three resolutions, and    *)
(* bringup/adc_demo.cc, which measures on the pin of the DAC what it put   *)
(* out there.  The converters are external: 12 bits wide, and the ADC is   *)
(* off by one at most.                                                     *)
(***************************************************************************)
EXTENDS Integers, Sequences

CONSTANT Channels    \* of the DAC, from 0

VARIABLES
  demo,            \* which demonstration runs: "dac" or "adc"
  at, holding,     \* the tasks of dac_demo: the next value; it has the DAC
  dac, started,    \* DacStm32xxxx: channels_ and the data registers; DAC_CR
  ordered,         \* what each channel was asked for last
  point, value_at, \* adc_demo: where it is, and at which value
  adc_bits, adc_state, reading, dma_done, dma_failed,
  current_output_value, verdict

channels == <<at, holding, dac, started, ordered>>
loop == <<point, value_at, adc_bits, adc_state, reading, dma_done, dma_failed,
          current_output_value, verdict>>
vars == <<demo, channels, loop>>

MinOf(a, b) == IF a < b THEN a ELSE b
Distance(a, b) == IF a < b THEN b - a ELSE a - b

dac_8bit_values == <<0, 1, 2, 4, 8, 16, 32, 64, 128, 256>>
dac_12bit_values == <<0, 16, 32, 64, 128, 256, 512, 1024, 2048, 4096>>
dac_16bit_values == <<0, 256, 512, 1024, 2048, 4096, 8192, 16636, 32768, 65536>>
AllValues == dac_8bit_values \o dac_12bit_values \o dac_16bit_values
BitsAt(n) == IF n <= 10 THEN 8 ELSE IF n <= 20 THEN 12 ELSE 16
adc_values == <<256, 0, 1, 2, 4, 8, 16, 32, 64, 128, 256>>

RESOLUTION == 12
Pattern == 65278    \* 0xfefefefe as a uint16_t

-----------------------------------------------------------------------------
(* set_resolution of the DAC and of the ADC *)
Alignment(bits) ==
  IF bits <= 8 THEN [align |-> "8R", bits |-> bits]
  ELSE IF bits <= 12 THEN [align |-> "12R", bits |-> bits]
  ELSE [align |-> "12L", bits |-> MinOf(bits, 16)]

AdcResolution(bits) ==
  IF bits <= 6 THEN 6 ELSE IF bits <= 8 THEN 8 ELSE IF bits <= 10 THEN 10 ELSE 12

(* Fault: one too many. *)
ClampedOpen(value, bits) == MinOf(value, 2^bits)

Clamped(value, bits) == MinOf(value, 2^bits - 1)

(* The data registers keep as many bits as they have, and the voltage is   *)
(* that of the upper twelve.                                               *)
Register(align, value) ==
  CASE align = "8R" -> value % 256
    [] align = "12R" -> value % 4096
    [] align = "12L" -> value % 65536

Voltage(c) ==
  CASE dac[c].align = "8R" -> dac[c].data * 16
    [] dac[c].align = "12R" -> dac[c].data
    [] dac[c].align = "12L" -> dac[c].data \div 16

(* set_resolution keeps the data register of the alignment used last; a    *)
(* new value is what tells.                                                *)
SetValue(c, align, value) ==
  /\ dac' = [dac EXCEPT ![c] =
       [align |-> align.align, bits |-> align.bits,
        data |-> Register(align.align, Clamped(value, align.bits))]]
  /\ started' = [started EXCEPT ![c] = TRUE]
  /\ ordered' = [ordered EXCEPT ![c] = [value |-> value, bits |-> align.bits]]

Init ==
  /\ demo \in {"dac", "adc"}
  /\ at = [c \in Channels |-> 1] /\ holding = {}
  /\ dac = [c \in Channels |-> [align |-> "12R", bits |-> 12, data |-> 0]]
  /\ started = [c \in Channels |-> FALSE]
  /\ ordered = [c \in Channels |-> [value |-> 0, bits |-> 12]]
  /\ point = "access" /\ value_at = 1
  /\ adc_bits = 12 /\ adc_state = "idle" /\ reading = 0
  /\ dma_done = FALSE /\ dma_failed = FALSE
  /\ current_output_value = 0 /\ verdict = "none"

-----------------------------------------------------------------------------
(* dac_demo: each value is held for 50ms; then the handle goes, and with   *)
(* the last one the clock of the DAC, whose output stays.                  *)
Show(c) ==
  /\ demo = "dac" /\ c \notin holding
  /\ holding' = holding \union {c}
  /\ SetValue(c, Alignment(BitsAt(at[c])), AllValues[at[c]])
  /\ UNCHANGED <<demo, at, loop>>

Release(c) ==
  /\ c \in holding
  /\ holding' = holding \ {c}
  /\ at' = [at EXCEPT ![c] = IF @ = Len(AllValues) THEN 1 ELSE @ + 1]
  /\ UNCHANGED <<demo, dac, started, ordered, loop>>

-----------------------------------------------------------------------------
(* adc_demo takes its peripherals for good and sets both resolutions. *)
AccessAll ==
  /\ demo = "adc" /\ point = "access"
  /\ dac' = [dac EXCEPT ![0].align = Alignment(RESOLUTION).align,
                        ![0].bits = Alignment(RESOLUTION).bits]
  /\ adc_bits' = AdcResolution(RESOLUTION)
  /\ point' = "begin"
  /\ UNCHANGED <<demo, at, holding, started, ordered, value_at, adc_state, reading, dma_done,
                 dma_failed, current_output_value, verdict>>

(* In one of 16 iterations: stop, and initialize_for_calibration, which    *)
(* leaves the resolution as it is.                                         *)
CalibrateOrNot ==
  /\ point = "begin"
  /\ adc_state' = "ready" /\ adc_state \in {"idle", "ready"}
  /\ point' = "output"
  /\ UNCHANGED <<demo, channels, value_at, adc_bits, reading, dma_done, dma_failed,
                 current_output_value, verdict>>

Output ==
  /\ point = "output"
  /\ current_output_value' = adc_values[value_at] * 2^(RESOLUTION - 8)
  /\ SetValue(0, [align |-> dac[0].align, bits |-> dac[0].bits], current_output_value')
  /\ point' = "start"
  /\ UNCHANGED <<demo, at, holding, value_at, adc_bits, adc_state, reading, dma_done, dma_failed,
                 verdict>>

(* Port A: pins 0 to 7 are inputs 5 to 12; no other pin is one. *)
GetChannel(pin) == pin + 5
DacPin == 4

(* What a conversion of an input finds. *)
Measured(input) ==
  IF input = GetChannel(DacPin) /\ started[0]
  THEN {v \in {Voltage(0) - 1, Voltage(0), Voltage(0) + 1} : v \in 0..4095}
  ELSE {0, 4095}

(* Fault: nobody waits for the transfer. *)
StartAndRead ==
  /\ point = "start" /\ adc_state = "ready"
  /\ reading' = Pattern
  /\ dma_done' = TRUE /\ dma_failed' = FALSE
  /\ adc_state' = "converting"
  /\ point' = "wait"
  /\ UNCHANGED <<demo, channels, value_at, adc_bits, current_output_value, verdict>>

(* The pattern, the flags, then start_single_conversion. *)
StartConversion ==
  /\ point = "start" /\ adc_state = "ready"
  /\ reading' = Pattern
  /\ dma_done' = FALSE /\ dma_failed' = FALSE
  /\ adc_state' = "converting"
  /\ point' = "wait"
  /\ UNCHANGED <<demo, channels, value_at, adc_bits, current_output_value, verdict>>

(* HAL_ADC_ConvCpltCallback and HAL_ADC_ErrorCallback *)
Converted ==
  /\ adc_state = "converting"
  /\ \/ /\ reading' \in {v \div 2^(12 - adc_bits) : v \in Measured(GetChannel(DacPin))}
        /\ dma_done' = TRUE /\ UNCHANGED dma_failed
     \/ dma_failed' = TRUE /\ UNCHANGED <<reading, dma_done>>
  /\ adc_state' = "ready"
  /\ UNCHANGED <<demo, channels, point, value_at, adc_bits, current_output_value, verdict>>

(* Within a quarter, epsilon of 0.01 and all, or within 48.  An error      *)
(* leaves the task waiting.                                                *)
CloseEnough(out, in) ==
  400 * Distance(out, in) < 100 * out + 1 \/ Distance(out, in) < 3 * 2^(RESOLUTION - 8)

Judge ==
  /\ point = "wait" /\ dma_done
  /\ adc_state' = "ready"
  /\ verdict' = IF CloseEnough(current_output_value, reading) THEN "success" ELSE "failure"
  /\ value_at' = IF value_at = Len(adc_values) THEN 1 ELSE value_at + 1
  /\ point' = IF value_at = Len(adc_values) THEN "clear" ELSE "output"
  /\ UNCHANGED <<demo, channels, adc_bits, reading, dma_done, dma_failed, current_output_value>>

(* A value of 0 and clear_value, which lets the pin float, then a pause. *)
Clear ==
  /\ point = "clear"
  /\ current_output_value' = 0
  /\ dac' = [dac EXCEPT ![0].data = 0]
  /\ ordered' = [ordered EXCEPT ![0].value = 0]
  /\ started' = [started EXCEPT ![0] = FALSE]
  /\ point' = "begin"
  /\ UNCHANGED <<demo, at, holding, value_at, adc_bits, adc_state, reading, dma_done, dma_failed,
                 verdict>>

Next ==
  \/ \E c \in Channels : Show(c) \/ Release(c)
  \/ AccessAll \/ CalibrateOrNot \/ Output \/ StartConversion \/ Converted \/ Judge \/ Clear

Spec == Init /\ [][Next]_vars

-----------------------------------------------------------------------------
(* Each channel puts out the fraction of the full scale that was asked for *)
(* last, to a step of the coarser of the two scales, whatever its          *)
(* alignment and whatever the other channel does; and                      *)
(* adc_demo never blinks for a failure: every value it reads was measured  *)
(* since it was put out.                                                   *)
AnalogIsSound ==
  /\ \A c \in Channels : started[c] =>
       LET steps == 2^ordered[c].bits
           full == IF steps < 4096 THEN 4096 ELSE steps
       IN Distance(Voltage(c) * steps, MinOf(ordered[c].value, steps - 1) * 4096) < full
  /\ verdict # "failure"

=============================================================================
