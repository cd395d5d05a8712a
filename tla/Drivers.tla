-------------------------------- MODULE Drivers -------------------------------
(***************************************************************************)
(* Drivers that share nothing: the one that a behaviour is about is chosen *)
(* once, and the others keep their initial state.                          *)
(***************************************************************************)
EXTENDS Integers, Sequences, FiniteSets

CONSTANTS
  Drivers,
  MaxSequence, Word, RadioFaults, AtomicBlock, WindowIsShort,  \* Radio
  Powers, Lengths, Thresholds, PowerAnytime,                   \* RadioSettings
  Times, Averages, TaskInterval, ClockRate, Samples, MaxFaults, \* Sensors
  Sleeps,                                                      \* ClockTree
  Generators, Interval, Steps, End,                            \* Simulation
  MAX_ATTEMPTS,                                                \* SwdWire
  PinDrivers,                                                  \* Pins
  PageSize, NumPages, Policies, Styles, MaxElements,           \* RingSignals
  MTU, UsingInterrupt,                                         \* Spi
  TransmitTime, MaxTime, MaxFragments,                         \* MockRadio
  Period, MaxIdentifier, IdentifierRange,                      \* CanEcho
  NumElements, OtherSizes, SizeRange,                          \* Buffers
  MessageSize, IdRange, TypeRange, Capacity, CounterRange,     \* Messages
  Bounds, Categories, MaxValues,                               \* ParameterDomains
  Bits, Base, MaxDigits,                                       \* Identifiers
  PageCount, PageRows, LinkFaults,                             \* WholeFlash
  Channels,                                                    \* AnalogOutput
  MaxWork, MaxOversleep                                        \* Watchdog

VARIABLES
  driver,
  pc, goal, op_mode, chip, flag, edge, fifo, buffer, valid, fragment, have,
  previous, counted, sequence, heard, faults,
  register_mode, power, sync, threshold, amplifiers, boost, channel, coding,
  modulation, measuring, saved, wanted,
  at, program, board, powered, settled, adc, dma, memory, dma_complete,
  dma_error, board_id,
  configured, task, held, device, due, output, halted, failures,
  source, on, fast, full, latency, wakeup, clock_configuration, asked, todo,
  time, next_event_time, added, calls, requested, capped, core, generation,
  served, stop_requested,
  drive, queue, left, attempt, retry, phase, bit, packet, ones, spoiled,
  enabled, clocked, registers, swdio, modes, levels,
  prioritize_old, style, read_pointer, write_pointer, connected, signalled, stack,
  calls_left, open, selected, command, chip_registers, chip_fifo, pin_edge, rx_mode,
  rx_buffer, rx_buffer_valid, received, sent, wrong,
  now, mode, rx, dropped, buffered, have_fragment, switched, sent_fragments, corrupted,
  planned, got, submitted, intact,
  identifier, tx_count, error_count, client, client_wait, mailboxes, disturbed, can_fifo,
  rx_count, server, server_wait, heard_identifiers, overruns, jams,
  loop, copy, loop_dest, copy_dest, torn, torn_dest, agreed,
  message, said, latest, latest_end, led, sniffed, told,
  values_, low_, high_, exclude_low_, exclude_high_, domain, domain_said,
  seed, text, value,
  operation, argument, step, page, batch, success, status, result, before, lock, cr,
  cr_page, flags, busy, eopie, rows, lost,
  demo, value_index, holding, dac, started, ordered, point, value_at, adc_bits, adc_state,
  reading, dma_done, dma_failed, current_output_value, verdict,
  running, main_phase, slot, wait, begun, sleep_left, interval, work, stopping, lsi_users, lsi,
  hsi48, rng, seeding, engine_seed, count,
  stream_at, stream_value, stream_held, trigger, timer, position, sampled, stream_complete,
  stream_error

Rf == INSTANCE Radio WITH MaxFaults <- RadioFaults
Settings == INSTANCE RadioSettings
  WITH op_mode <- register_mode, asked <- wanted
BoardId == INSTANCE Adc WITH pc <- at, buffer <- memory
Monitors == INSTANCE Sensors
  WITH pc <- task, left <- due, faults <- failures, Interval <- TaskInterval
Clocks == INSTANCE ClockTree
Sim == INSTANCE Simulation
  WITH next <- next_event_time
Wire == INSTANCE SwdWire WITH todo <- queue
Board == INSTANCE Pins
Ring == INSTANCE RingSignals
Bus == INSTANCE Spi
  WITH todo <- calls_left, registers <- chip_registers, fifo <- chip_fifo, edge <- pin_edge
Mock == INSTANCE MockRadio
  WITH have <- have_fragment, sent <- sent_fragments, asked <- submitted
Echo == INSTANCE CanEcho WITH fifo <- can_fifo, received <- heard_identifiers
Arrays == INSTANCE Buffers
Contents == INSTANCE Messages
Domains == INSTANCE ParameterDomains WITH said <- domain_said
Names == INSTANCE Identifiers
Erasing == INSTANCE WholeFlash WITH selected <- cr_page
Analog == INSTANCE AnalogOutput WITH at <- value_index
Guarded == INSTANCE Watchdog
  WITH program <- running, phase <- main_phase, due <- wait, left <- sleep_left,
       stop_requested <- stopping, seed <- engine_seed
Streaming == INSTANCE StreamingAdc
  WITH at <- stream_at, value_at <- stream_value, held <- stream_held, measured <- sampled,
       dma_complete <- stream_complete, dma_error <- stream_error

(* Nothing is measured on a board that passes for another.  There are no  *)
(* parameters in it: TLC finds that it holds.                             *)
ASSUME BoardsAssumption ==
  \A b \in BoardId!Boards : \A v \in b.samples : BoardId!DetermineBoardId(v) = b.id

radio == <<pc, goal, op_mode, chip, flag, edge, fifo, buffer, valid, fragment, have,
  previous, counted, sequence, heard, faults>>
settings == <<register_mode, power, sync, threshold, amplifiers, boost, channel, coding,
  modulation, measuring, saved, wanted>>
measurement == <<at, program, board, powered, settled, adc, dma, memory, dma_complete,
  dma_error, board_id>>
monitors == <<configured, task, held, device, due, output, halted, failures>>
clocks == <<source, on, fast, full, latency, wakeup, clock_configuration, asked, todo>>
simulated == <<time, next_event_time, added, calls, requested, capped, core, generation,
  served, stop_requested>>
wire == <<drive, queue, left, attempt, retry, phase, bit, packet, ones, spoiled>>
pins == <<enabled, clocked, registers, swdio, modes, levels>>
callbacks == <<prioritize_old, style, read_pointer, write_pointer, connected, signalled, stack>>
bus == <<calls_left, open, selected, command, chip_registers, chip_fifo, pin_edge, rx_mode,
  rx_buffer, rx_buffer_valid, received, sent, wrong>>
mock == <<now, mode, rx, dropped, buffered, have_fragment, switched, sent_fragments, corrupted,
  planned, got, submitted, intact>>
echo == <<identifier, tx_count, error_count, client, client_wait, mailboxes, disturbed, can_fifo,
  rx_count, server, server_wait, heard_identifiers, overruns, jams>>
arrays == <<loop, copy, loop_dest, copy_dest, torn, torn_dest, agreed>>
contents == <<message, said, latest, latest_end, led, sniffed, told>>
domains == <<values_, low_, high_, exclude_low_, exclude_high_, domain, domain_said>>
names == <<seed, text, value>>
erasing == <<operation, argument, step, page, batch, success, status, result, before, lock, cr,
  cr_page, flags, busy, eopie, rows, lost>>
analog == <<demo, value_index, holding, dac, started, ordered, point, value_at, adc_bits,
  adc_state, reading, dma_done, dma_failed, current_output_value, verdict>>
guarded == <<running, main_phase, slot, wait, begun, sleep_left, interval, work, stopping,
  lsi_users, lsi, hsi48, rng, seeding, engine_seed, count>>
streaming == <<stream_at, stream_value, stream_held, trigger, timer, position, sampled,
  stream_complete, stream_error>>
vars == <<driver, radio, settings, measurement, monitors, clocks, simulated, wire, pins,
  callbacks, bus, mock, echo, arrays, contents, domains, names, erasing, analog, guarded,
  streaming>>

Init ==
  /\ driver \in Drivers
  /\ Rf!Init /\ Settings!Init /\ BoardId!Init /\ Monitors!Init
  /\ Clocks!Init /\ Sim!Init /\ Wire!Init /\ Board!Init
  /\ Ring!Init /\ Bus!Init /\ Mock!Init /\ Echo!Init
  /\ Arrays!Init /\ Contents!Init /\ Domains!Init /\ Names!Init
  /\ Erasing!Init /\ Analog!Init /\ Guarded!Init /\ Streaming!Init
  /\ driver # "sensors" => configured = [current |-> 2, voltage |-> 2, averaging |-> 1]
  /\ driver # "can echo" => ~disturbed
  /\ driver # "buffers" => DOMAIN loop_dest = {0}
  /\ driver # "ring" => prioritize_old /\ style = [p \in {"source", "sink"} |-> "signal"]
  /\ driver # "analog" => demo = "dac"
  /\ driver # "watchdog" => running = "watchdog_demo"

Others(d) ==
  /\ UNCHANGED driver
  /\ IF d = "radio" THEN TRUE ELSE UNCHANGED radio
  /\ IF d = "settings" THEN TRUE ELSE UNCHANGED settings
  /\ IF d = "board id" THEN TRUE ELSE UNCHANGED measurement
  /\ IF d = "sensors" THEN TRUE ELSE UNCHANGED monitors
  /\ IF d = "clock tree" THEN TRUE ELSE UNCHANGED clocks
  /\ IF d = "simulation" THEN TRUE ELSE UNCHANGED simulated
  /\ IF d = "wire" THEN TRUE ELSE UNCHANGED wire
  /\ IF d = "pins" THEN TRUE ELSE UNCHANGED pins
  /\ IF d = "ring" THEN TRUE ELSE UNCHANGED callbacks
  /\ IF d = "spi" THEN TRUE ELSE UNCHANGED bus
  /\ IF d = "mock radio" THEN TRUE ELSE UNCHANGED mock
  /\ IF d = "can echo" THEN TRUE ELSE UNCHANGED echo
  /\ IF d = "buffers" THEN TRUE ELSE UNCHANGED arrays
  /\ IF d = "messages" THEN TRUE ELSE UNCHANGED contents
  /\ IF d = "domains" THEN TRUE ELSE UNCHANGED domains
  /\ IF d = "identifiers" THEN TRUE ELSE UNCHANGED names
  /\ IF d = "whole flash" THEN TRUE ELSE UNCHANGED erasing
  /\ IF d = "analog" THEN TRUE ELSE UNCHANGED analog
  /\ IF d = "watchdog" THEN TRUE ELSE UNCHANGED guarded
  /\ IF d = "streaming" THEN TRUE ELSE UNCHANGED streaming

Next ==
  \/ driver = "radio" /\ Rf!Next /\ Others("radio")
  \/ driver = "settings" /\ Settings!Next /\ Others("settings")
  \/ driver = "board id" /\ BoardId!Next /\ Others("board id")
  \/ driver = "sensors" /\ Monitors!Next /\ Others("sensors")
  \/ driver = "clock tree" /\ Clocks!Next /\ Others("clock tree")
  \/ driver = "simulation" /\ Sim!Next /\ Others("simulation")
  \/ driver = "wire" /\ Wire!Next /\ Others("wire")
  \/ driver = "pins" /\ Board!Next /\ Others("pins")
  \/ driver = "ring" /\ Ring!Next /\ Others("ring")
  \/ driver = "spi" /\ Bus!Next /\ Others("spi")
  \/ driver = "mock radio" /\ Mock!Next /\ Others("mock radio")
  \/ driver = "can echo" /\ Echo!Next /\ Others("can echo")
  \/ driver = "buffers" /\ Arrays!Next /\ Others("buffers")
  \/ driver = "messages" /\ Contents!Next /\ Others("messages")
  \/ driver = "domains" /\ Domains!Next /\ Others("domains")
  \/ driver = "identifiers" /\ Names!Next /\ Others("identifiers")
  \/ driver = "whole flash" /\ Erasing!Next /\ Others("whole flash")
  \/ driver = "analog" /\ Analog!Next /\ Others("analog")
  \/ driver = "watchdog" /\ Guarded!Next /\ Others("watchdog")
  \/ driver = "streaming" /\ Streaming!Next /\ Others("streaming")

(* The fairness that Radio, Adc and Simulation state, each for its own     *)
(* behaviours only: the others cannot take these steps.                    *)
Fairness ==
  /\ \A s \in {"client", "server"} :
       /\ WF_radio(driver = "radio" /\ Rf!Program(s))
       /\ WF_radio(driver = "radio" /\ Rf!Interrupt(s))
       /\ WF_radio(driver = "radio" /\ Rf!PacketSent(s))
  /\ WF_measurement(driver = "board id" /\ BoardId!Program)
  /\ WF_measurement(driver = "board id" /\ BoardId!Hardware)
  /\ WF_simulated(driver = "simulation" /\ Sim!Generation)
  /\ SF_simulated(driver = "simulation" /\ Sim!Cap)
  /\ WF_simulated(driver = "simulation" /\ Sim!SetTime)
  /\ WF_simulated(driver = "simulation" /\ Sim!Join)

Spec == Init /\ [][Next]_vars /\ Fairness

-----------------------------------------------------------------------------
(* Radio.tla: op_mode_ and the chip agree outside of mode changes, echoes  *)
(* are whole, and a lost fragment is counted.                              *)
RadioIsSound ==
  driver = "radio" =>
    Rf!ModesAgree /\ Rf!EchoIsWhole /\ Rf!LossIsNoticed
(* RadioSettings.tla: amplifiers agree with power_ and the mode, getters   *)
(* with setters, and the filter with the modulation.                       *)
SettingsHold == driver = "settings" => Settings!SettingsHold

(* Adc.tla: a board is taken for what it is.  AnalogOutput.tla: outputs    *)
(* are as they were ordered, and a measurement is one of its own output.   *)
(* StreamingAdc.tla: every value is measured before the next.              *)
ConversionsAreSound ==
  /\ driver = "board id" => BoardId!BoardIsRecognized
  /\ driver = "analog" => Analog!AnalogIsSound
  /\ driver = "streaming" => Streaming!StreamIsSound

(* Sensors.tla: a good reading was measured since the sensor was opened,   *)
(* and the sensor rests until the next one.                                *)
MonitorsAreSound == driver = "sensors" => Monitors!MonitorsAreSound

(* ClockTree.tla: at no step a speed that voltage and wait states do not   *)
(* support, and after a sleep the one that was asked for.  Watchdog.tla:   *)
(* no reset while the scheduler runs, and oscillators run when needed.     *)
ClockIsSound ==
  /\ driver = "clock tree" => Clocks!ClockIsSound
  /\ driver = "watchdog" => Guarded!WatchdogIsSound

(* Simulation.tla: interrupts are neither lost nor late. *)
InterruptsAreExact == driver = "simulation" => Sim!InterruptsAreExact

(* SwdWire.tla: both sides are at the same bit of a packet.                *)
(* WholeFlash.tla: the flash is as a call that succeeded says.             *)
ProgrammerIsSound ==
  /\ driver = "wire" => Wire!WireInStep
  /\ driver = "whole flash" => Erasing!FlashIsAsReported

(* Pins.tla: registers shared by the drivers say of each pin what its      *)
(* driver asked for.                                                       *)
PinsAreAsAsked == driver = "pins" => Board!PinsAreAsAsked

(* RingSignals.tla: nobody waits for a callback that is due. *)
SignalsAreNotMissed == driver = "ring" => Ring!SignalsAreNotMissed

(* Spi.tla: fragments and registers arrive as they left. *)
TransfersAreWhole == driver = "spi" => Bus!TransfersAreWhole

(* MockRadio.tla: each fragment has one fate. *)
FragmentsAreAccountedFor == driver = "mock radio" => Mock!FragmentsAreAccountedFor

(* CanEcho.tla: the counters of both boards add up. *)
EchoesAddUp == driver = "can echo" => Echo!EchoesAddUp

(* Buffers.tla, Messages.tla, ParameterDomains.tla, Identifiers.tla: both  *)
(* kinds of buffers hold what was written, commands arrive as they were    *)
(* sent, a domain has the values asked for, and identifiers differ.        *)
DataIsExact ==
  /\ driver = "buffers" => Arrays!BuffersAgree
  /\ driver = "messages" => Contents!MessagesAreObeyed
  /\ driver = "domains" => Domains!DomainsAreExact
  /\ driver = "identifiers" => Names!IdentifiersAreDistinct

(* NeverDeaf of Radio.tla, MeasurementEnds of Adc.tla and CallsEnd of      *)
(* Simulation.tla in one formula: the radio's server does not stop to      *)
(* listen for good, a measurement ends, with its result or an error, and   *)
(* so does a call that moves the simulated clock or ends the simulation.   *)
Waits ==
  \/ driver = "radio" /\ ~Rf!Listening
  \/ driver = "board id" /\ BoardId!Waiting
  \/ driver = "simulation" /\ Sim!Calling
NobodyWaitsForever == Waits ~> ~Waits

=============================================================================
