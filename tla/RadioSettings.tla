--------------------------- MODULE RadioSettings ---------------------------
(***************************************************************************)
(* comms/radio/rf69hcw.h: the settings of an RF69HCW as its registers have *)
(* them, through any sequence of calls of its public functions.  Mode      *)
(* changes are settings too: what amplifies a transmission is turned on    *)
(* and off with them.  Interrupts change the mode as set_standby_mode.     *)
(***************************************************************************)
EXTENDS Integers, Sequences

CONSTANTS
  Powers,          \* the powers in dBm that are set
  Lengths,         \* the lengths of the sync words that are set
  Thresholds,      \* the sensitivity thresholds that are set, in -0.5dBm
  PowerAnytime     \* set_power_dbm is called while a packet is transmitted

Modes == {"standby", "rx", "tx"}

VARIABLES
  op_mode,         \* op_mode_, which the chip has as well
  power,           \* power_
  sync,            \* SYNCCONFIG: SYNCON, FIFOFILLCONDITION, SYNCSIZE
  threshold,       \* RSSITHRESH
  amplifiers,      \* PALEVEL: PA2ON (PA1 is always on) and OUTPUTPOWER
  boost,           \* TESTPA1 and TESTPA2 are set for the high power boost
  channel,         \* BITRATE, FDEV and RXBW
  coding,          \* the bits of DCFREE in PACKETCONFIG1 that are set
  modulation,      \* DATAMODUL
  measuring,       \* read_rssi_dbm is under way,
  saved,           \* and will set the threshold to this again
  asked            \* history: what was asked for last

vars == <<op_mode, power, sync, threshold, amplifiers, boost, channel, coding, modulation,
          measuring, saved, asked>>

-----------------------------------------------------------------------------
Clamped(p, low, high) == IF p < low THEN low ELSE IF p > high THEN high ELSE p

(* set_power_dbm: the second amplifier from 14dBm on, the boost from 18. *)
Amplifiers(p) ==
  CASE p <= 13 -> [pa2 |-> FALSE, output |-> (p + 18) % 32]
    [] p >= 18 -> [pa2 |-> TRUE, output |-> (p + 11) % 32]
    [] OTHER   -> [pa2 |-> TRUE, output |-> (p + 14) % 32]

(* set_bit_rate: the upper bounds of the bandwidths, in 100Hz.  They are   *)
(* compared with twice the bit rate, which is in Hz.                       *)
Bandwidths == <<26, 31, 39, 52, 63, 78, 104, 125, 156, 208, 250, 313, 417, 500,
                625, 833, 1000, 1250, 1667, 2000, 2500, 3333, 4000>>

(* RXBW: three mantissas for each exponent. *)
RxBandwidth(rate) ==
  LET above == {i \in DOMAIN Bandwidths : 20 * rate < Bandwidths[i]}
      i == IF above = {} THEN 23 ELSE (CHOOSE j \in above : \A k \in above : j <= k) - 1
  IN  [mantissa |-> 2 - (i % 3), exponent |-> 7 - (i \div 3)]

Channel(rate, deviation) ==
  [rate |-> rate, deviation |-> deviation, rx |-> RxBandwidth(rate)]

(* The chip: single side bandwidth in Hz, and the power it transmits with. *)
Width(rx) == 32000000 \div (<<16, 20, 24>>[rx.mantissa + 1] * 2^(rx.exponent + 2))
Emitted == amplifiers.output - IF ~amplifiers.pa2 THEN 18 ELSE IF boost THEN 11 ELSE 14

-----------------------------------------------------------------------------
(* What reset leaves: the chip forgets everything at the edges of its pin. *)
AfterReset(rate, deviation, length, scheme) ==
  /\ ~measuring /\ UNCHANGED <<measuring, saved>>
  /\ op_mode' = "standby"
  /\ power' = 13 /\ amplifiers' = Amplifiers(13) /\ boost' = FALSE
  /\ sync' = [on |-> TRUE, manual |-> FALSE, size |-> length - 1]
  /\ modulation' = scheme /\ coding' = {"whitening"}
  /\ channel' = Channel(rate, deviation)
  /\ asked' = [power |-> 13, length |-> length, coding |-> "whitening",
               threshold |-> threshold']

Init ==
  /\ op_mode = "standby"
  /\ power = 13 /\ amplifiers = Amplifiers(13) /\ boost = FALSE
  /\ sync = [on |-> TRUE, manual |-> FALSE, size |-> 7]
  /\ modulation = "fsk" /\ coding = {"whitening"}
  /\ channel = Channel(12500, 17500)
  /\ threshold = 190
  /\ measuring = FALSE /\ saved = 190
  /\ asked = [power |-> 13, length |-> 8, coding |-> "whitening", threshold |-> 190]

Reset == threshold' = 190 /\ AfterReset(12500, 17500, 8, "fsk")

(* in_high_throughput_configuration *)
HighThroughput == threshold' = 100 /\ AfterReset(290000, 355000, 2, "gfsk")

(* Fault: the boost is not looked at on the way to standby. *)
SetModeBoosted(m) ==
  /\ measuring => m = "standby"
  /\ op_mode' = m
  /\ boost' = (IF m = "tx" THEN power >= 18 ELSE m = "standby" /\ boost)
  /\ UNCHANGED <<power, sync, threshold, amplifiers, channel, coding, modulation, measuring,
                 saved, asked>>

(* set_mode_rx, set_mode_standby, set_mode_tx *)
SetMode(m) ==
  /\ m # op_mode /\ (measuring => m = "standby")
  /\ op_mode' = m
  /\ boost' = IF power >= 18 THEN m = "tx" ELSE boost
  /\ UNCHANGED <<power, sync, threshold, amplifiers, channel, coding, modulation, measuring,
                 saved, asked>>

SetPower(p) ==
  /\ ~measuring /\ UNCHANGED <<measuring, saved>>
  /\ op_mode = "tx" => PowerAnytime
  /\ power' = Clamped(p, -2, 20)
  /\ amplifiers' = Amplifiers(power')
  /\ asked' = [asked EXCEPT !.power = p]
  /\ UNCHANGED <<op_mode, sync, threshold, boost, channel, coding, modulation>>

(* set_sync_words_length: the length 0 borrows from the bits above it. *)
SetSyncWordsLength(n) ==
  /\ ~measuring /\ UNCHANGED <<measuring, saved>>
  /\ sync' = IF n = 0 THEN [on |-> TRUE, manual |-> TRUE, size |-> 7]
             ELSE [sync EXCEPT !.on = TRUE, !.size = Clamped(n, 1, 8) - 1]
  /\ asked' = [asked EXCEPT !.length = n]
  /\ UNCHANGED <<op_mode, power, threshold, amplifiers, boost, channel, coding, modulation>>

SetLineCoding(c) ==
  /\ ~measuring /\ UNCHANGED <<measuring, saved>>
  /\ coding' = {c} \ {"none"}
  /\ asked' = [asked EXCEPT !.coding = c]
  /\ UNCHANGED <<op_mode, power, sync, threshold, amplifiers, boost, channel, modulation>>

SetModulation(scheme) ==
  /\ ~measuring /\ UNCHANGED <<measuring, saved>>
  /\ modulation' = scheme
  /\ UNCHANGED <<op_mode, power, sync, threshold, amplifiers, boost, channel, coding, asked>>

SetThreshold(t) ==
  /\ ~measuring /\ UNCHANGED <<measuring, saved>>
  /\ threshold' = t
  /\ asked' = [asked EXCEPT !.threshold = t]
  /\ UNCHANGED <<op_mode, power, sync, amplifiers, boost, channel, coding, modulation>>

(* read_rssi_dbm: RSSIVALUE is valid above the threshold only, which is    *)
(* set to -127.5dBm for four measurements.  Only an interrupt comes        *)
(* between, with set_standby_mode.                                         *)
BeginRssi ==
  /\ ~measuring
  /\ measuring' = TRUE /\ saved' = threshold /\ threshold' = 255
  /\ UNCHANGED <<op_mode, power, sync, amplifiers, boost, channel, coding, modulation, asked>>

EndRssi ==
  /\ measuring
  /\ measuring' = FALSE /\ threshold' = saved
  /\ UNCHANGED <<op_mode, power, sync, amplifiers, boost, channel, coding, modulation, saved,
                 asked>>

Next ==
  \/ Reset \/ HighThroughput
  \/ \E m \in Modes : SetMode(m)
  \/ \E p \in Powers : SetPower(p)
  \/ \E n \in Lengths : SetSyncWordsLength(n)
  \/ \E c \in {"none", "whitening", "manchester"} : SetLineCoding(c)
  \/ \E s \in {"ook", "fsk", "gfsk"} : SetModulation(s)
  \/ \E t \in Thresholds : SetThreshold(t)
  \/ BeginRssi \/ EndRssi

Spec == Init /\ [][Next]_vars

-----------------------------------------------------------------------------
(* get_line_coding, get_sync_words_length *)
GetLineCoding == IF "manchester" \in coding THEN "manchester"
                 ELSE IF "whitening" \in coding THEN "whitening" ELSE "none"
GetSyncWordsLength == sync.size + 1

(* The amplifiers agree with power_ and the mode: what is transmitted has  *)
(* the power that get_power_dbm tells, and the high power boost, which a   *)
(* receiver must not have, is on in no other mode.                         *)
AmplifiersAgree ==
  /\ op_mode = "tx" => Emitted = power
  /\ boost => op_mode = "tx"

(* Setters that share a register leave each other's bits alone: each       *)
(* getter tells what was set last, the FIFO still fills by itself, and a   *)
(* measurement puts the threshold back.                                    *)
SettingsReadBack ==
  /\ GetLineCoding = asked.coding
  /\ sync.on /\ ~sync.manual /\ GetSyncWordsLength = Clamped(asked.length, 1, 8)
  /\ (IF measuring THEN saved ELSE threshold) = asked.threshold
  /\ power = Clamped(asked.power, -2, 20)

(* Half of the occupied bandwidth passes the receiver's filter, in either  *)
(* configuration.                                                          *)
FitsReceiver == 2 * channel.deviation + channel.rate <= 2 * Width(channel.rx)

(* The settings are what they were set to, at any time in either           *)
(* configuration: the power, the bits of shared registers, the filter.     *)
SettingsHold == AmplifiersAgree /\ SettingsReadBack /\ FitsReceiver

=============================================================================
