----------------------------- MODULE MockRadio -----------------------------
(***************************************************************************)
(* comms/radio/mock_radio.h, the radio that tests put in the place of a    *)
(* HalfDuplexRadio: fragments are planned to arrive at set times, and time *)
(* is a mock clock whose changes call update.  The fragment that arrives   *)
(* at t is called t; those to transmit are numbered, and 0 is a cleared    *)
(* one.                                                                    *)
(***************************************************************************)
EXTENDS Naturals, Sequences, FiniteSets, FiniteSetsExt

CONSTANTS
  TransmitTime,    \* FRAGMENT_TRANSMIT_TIME_US
  MaxTime,         \* bound on the clock
  MaxFragments     \* bound on the fragments to transmit

VARIABLES
  now,             \* current_time_micros() of the mock clock
  mode,            \* current_mode_
  rx,              \* the keys of rx_fragments_
  dropped,         \* count_dropped_fragments_
  buffered, have,  \* buffered_fragment_, have_fragment_for_tx_
  switched,        \* last_switch_to_tx_mode_us_
  sent,            \* sent_fragments_
  corrupted,       \* count_corrupted_fragments_
  planned, got,    \* history: the fragments that were to arrive, those read
  asked, intact    \* history: fragments transmitted; the time the last one spent in TX

vars == <<now, mode, rx, dropped, buffered, have, switched, sent, corrupted, planned, got,
          asked, intact>>

Init ==
  /\ now = 0 /\ mode = "standby"
  /\ rx = {} /\ dropped = 0 /\ planned = {} /\ got = {}
  /\ buffered = 0 /\ have = FALSE /\ switched = 0 /\ sent = <<>> /\ corrupted = 0
  /\ asked = 0 /\ intact = 0

(* process_reception: what arrived in any mode but RX is lost. *)
Missed(m, t) == IF m = "rx" THEN {} ELSE {f \in rx : f < t}

(* Fault: the fragment is sent however long the radio was in TX. *)
OutcomeAnytime(m, t) ==
  IF ~have THEN "none" ELSE IF m = "tx" THEN "sent" ELSE "corrupted"

(* process_ongoing_transmission *)
Outcome(m, t) ==
  CASE ~have -> "none"
    [] have /\ m # "tx" -> "corrupted"
    [] OTHER -> IF t - switched >= TransmitTime THEN "sent" ELSE "none"

(* update: in mode m at time t, and the mode it leaves the radio in. *)
Update(m, t) ==
  LET outcome == Outcome(m, t) IN
  /\ rx' = rx \ Missed(m, t)
  /\ dropped' = dropped + Cardinality(Missed(m, t))
  /\ sent' = IF outcome = "sent" THEN Append(sent, buffered) ELSE sent
  /\ corrupted' = corrupted + IF outcome = "corrupted" THEN 1 ELSE 0
  /\ have' = (have /\ outcome = "none")
  /\ mode' = IF outcome = "sent" THEN "standby" ELSE m

Clears(m, t) == Outcome(m, t) # "none"
Rest(m, t) ==
  /\ buffered' = IF Clears(m, t) THEN 0 ELSE buffered
  /\ switched' = IF Clears(m, t) THEN 0 ELSE switched

(* The clock is set to a later time. *)
SetTime(t) ==
  /\ t > now
  /\ now' = t
  /\ Update(mode, t) /\ Rest(mode, t)
  /\ intact' = IF mode = "tx" THEN intact + t - now ELSE 0
  /\ UNCHANGED <<planned, got, asked>>

(* add_rx_fragment, for a time that has none yet: the map would keep it. *)
AddRxFragment(t) ==
  /\ t >= now /\ t \notin planned
  /\ rx' = rx \union {t}
  /\ planned' = planned \union {t}
  /\ UNCHANGED <<now, mode, dropped, buffered, have, switched, sent, corrupted, got, asked, intact>>

SetMode(m) ==
  /\ Update(m, now) /\ Rest(m, now)
  /\ intact' = IF m = "tx" THEN intact ELSE 0
  /\ UNCHANGED <<now, planned, got, asked>>

SetStandbyMode == SetMode("standby")
SetReceiveMode == SetMode("rx")
(* Measuring the RSSI takes the radio out of RX and TX. *)
ReadRssi == SetMode("standby")

(* reset clears the buffer, and so what was still to be transmitted. *)
Reset ==
  /\ Update("standby", now)
  /\ buffered' = 0
  /\ switched' = IF Clears("standby", now) THEN 0 ELSE switched
  /\ intact' = 0
  /\ UNCHANGED <<now, planned, got, asked>>

HasFragmentAvailable == rx # {} /\ Min(rx) <= now

(* The last fragment that is due is read, the ones before it are dropped. *)
ReadReceivedFragment ==
  LET due == {f \in rx : f <= now} IN
  /\ HasFragmentAvailable
  /\ got' = got \union {Max(due)}
  /\ dropped' = dropped + Cardinality(due) - 1
  /\ rx' = rx \ due
  /\ UNCHANGED <<now, mode, buffered, have, switched, sent, corrupted, planned, asked, intact>>

(* transmit_fragment: set_standby_mode corrupts the one before; set_tx_mode *)
(* finds the new one too young to be sent.                                  *)
TransmitFragment ==
  LET late == Missed("standby", now) IN
  /\ asked < MaxFragments /\ asked' = asked + 1
  /\ rx' = rx \ late /\ dropped' = dropped + Cardinality(late)
  /\ corrupted' = corrupted + IF have THEN 1 ELSE 0
  /\ buffered' = asked' /\ have' = TRUE
  /\ mode' = "tx" /\ switched' = now /\ intact' = 0
  /\ UNCHANGED <<now, sent, planned, got>>

Next ==
  \/ \E t \in 0..MaxTime : SetTime(t) \/ AddRxFragment(t)
  \/ SetStandbyMode \/ SetReceiveMode \/ ReadRssi \/ Reset
  \/ ReadReceivedFragment \/ TransmitFragment

Spec == Init /\ [][Next]_vars

-----------------------------------------------------------------------------
(* Every fragment has one fate: a planned one waits, was read or was       *)
(* dropped; one for transmission is buffered, was sent or was corrupted,   *)
(* in order and never twice.  A transmission lasts for as long as the      *)
(* radio stays in TX, and no longer than it takes.                         *)
FragmentsAreAccountedFor ==
  /\ Cardinality(planned) = Cardinality(rx) + Cardinality(got) + dropped
  /\ rx \intersect got = {}
  /\ asked = Len(sent) + corrupted + IF have THEN 1 ELSE 0
  /\ \A i \in 1..Len(sent) : sent[i] > 0 /\ (i > 1 => sent[i - 1] < sent[i])
  /\ have => mode = "tx" /\ buffered = asked /\ intact < TransmitTime
  /\ mode = "tx" => have
  /\ \A i \in DOMAIN sent : sent[i] = asked /\ intact > 0 => intact >= TransmitTime

=============================================================================
